------------------------ MODULE WorkflowAnchorsProofs ------------------------
(***************************************************************************)
(* Proofs about WorkflowAnchors, for every set of files, base branch, set  *)
(* of reviews and limits of the history.                                   *)
(*                                                                         *)
(* First what the proofs need of GitBranch: the merge base of a commit is  *)
(* its newest base commit, an ancestor is at a distance of a natural       *)
(* number, and two commits whose patches agree against one base each make  *)
(* the same changes to their own merge bases.  Then the invariant: every   *)
(* recorded anchor is a commit some reviewer was shown, and the follow-ups *)
(* the status asked for are all in the history, or under way.              *)
(***************************************************************************)
EXTENDS WorkflowAnchors, TLAPS, WellFoundedInduction, FiniteSetTheorems,
        SequenceTheorems

Commits == [fork : BaseCommits, line : Seq(Step)]

-----------------------------------------------------------------------------
(* Choices among numbers                                                    *)

\* A set of naturals that is not empty has a least element: the nearest anchor.
LEMMA LeastOf ==
  ASSUME NEW T, T \subseteq Nat, T # {}
  PROVE  \E x \in T : \A y \in T : x <= y
<1>1. IsWellFoundedOn(OpToRel(<, Nat), Nat)
  BY NatLessThanWellFounded
<1>2. PICK x \in T : \A y \in T : ~ (<<y, x>> \in OpToRel(<, Nat))
  BY <1>1, WFMin
<1>3. ASSUME NEW y \in T PROVE x <= y
  <2>1. ~ (<<y, x>> \in {ss \in Nat \X Nat : ss[1] < ss[2]})
    BY <1>2 DEF OpToRel
  <2>2. <<y, x>> \in Nat \X Nat
    OBVIOUS
  <2> QED
    BY <2>1, <2>2
<1> QED
  BY <1>3

\* A bounded set of naturals that is not empty has a greatest one: MergeBase, Latest.
LEMMA GreatestOf ==
  ASSUME NEW T, NEW n \in Nat, T \subseteq 0 .. n, T # {}
  PROVE  \E x \in T : \A y \in T : y <= x
<1> DEFINE D == {n - x : x \in T}
<1>1. \A x \in T : n - x \in Nat
  OBVIOUS
<1>2. PICK d \in D : \A y \in D : d <= y
  BY <1>1, LeastOf
<1>3. PICK x \in T : d = n - x
  OBVIOUS
<1>4. \A y \in T : n - x <= n - y
  BY <1>2, <1>3
<1> QED
  BY <1>4

-----------------------------------------------------------------------------
(* Merge bases                                                              *)

LEMMA BaseType == MaxBase \in Nat /\ BaseCommits \subseteq Nat
  BY GitAssumption DEF BaseCommits

LEMMA StepFields ==
  ASSUME NEW s \in Step
  PROVE  s.edit \in BOOLEAN /\ s.base \in BaseCommits
<1>1. CASE \E p \in Paths : s = EditOf(p)
  BY <1>1, BaseType DEF EditOf, BaseCommits
<1>2. CASE \E b \in BaseCommits : s = MergeOf(b)
  <2>1. PICK b \in BaseCommits : s = MergeOf(b)
    BY <1>2
  <2>2. s.edit = FALSE /\ s.base = b
    BY <2>1 DEF MergeOf
  <2> QED
    BY <2>2
<1> QED
  BY <1>1, <1>2 DEF Step

\* git merge-base: a base commit, and the newest that the commit holds.
LEMMA MergeBaseIs ==
  ASSUME NEW c \in Commits
  PROVE  /\ MergeBase(c) \in Merged(c) \union {c.fork}
         /\ MergeBase(c) \in BaseCommits /\ Merged(c) \union {c.fork} \subseteq BaseCommits
         /\ \A d \in Merged(c) \union {c.fork} : d <= MergeBase(c)
<1>1. Merged(c) \union {c.fork} \subseteq 0 .. MaxBase
  <2>1. \A j \in DOMAIN c.line : c.line[j] \in Step
    BY DEF Commits
  <2>2. \A j \in DOMAIN c.line : c.line[j].base \in BaseCommits
    BY <2>1, StepFields
  <2> QED
    BY <2>2 DEF Commits, Merged, BaseCommits
<1>2. \E b \in Merged(c) \union {c.fork} : \A d \in Merged(c) \union {c.fork} : d <= b
  BY <1>1, GreatestOf, BaseType
<1> QED
  BY <1>1, <1>2 DEF MergeBase, BaseCommits

\* The merge base is the only base commit like that.
LEMMA MergeBaseUnique ==
  ASSUME NEW c \in Commits, NEW b \in Merged(c) \union {c.fork},
         \A d \in Merged(c) \union {c.fork} : d <= b
  PROVE  MergeBase(c) = b
<1>1. MergeBase(c) <= b /\ b <= MergeBase(c)
  BY MergeBaseIs
<1>2. MergeBase(c) \in Nat /\ b \in Nat
  BY MergeBaseIs, BaseType
<1> QED
  BY <1>1, <1>2

LEMMA BaseCommitIs ==
  ASSUME NEW b \in BaseCommits
  PROVE  BaseCommit(b) \in Commits /\ MergeBase(BaseCommit(b)) = b
<1>1. BaseCommit(b) \in Commits
  BY DEF BaseCommit, Commits
<1>2. Merged(BaseCommit(b)) \union {BaseCommit(b).fork} = {b}
  BY DEF BaseCommit, Merged
<1>3. b <= b
  BY BaseType
<1> QED
  BY <1>1, <1>2, <1>3, MergeBaseUnique

\* A commit on the branch keeps the merge base.
LEMMA CommitIs ==
  ASSUME NEW c \in Commits, NEW p \in Paths
  PROVE  Commit(c, p) \in Commits /\ MergeBase(Commit(c, p)) = MergeBase(c)
<1> DEFINE e == Commit(c, p)
<1>1. EditOf(p) \in Step /\ EditOf(p).edit
  BY DEF Step, EditOf
<1>2. e \in Commits /\ e.fork = c.fork /\ e.line = Append(c.line, EditOf(p))
  BY <1>1 DEF Commits, Commit
<1>3. Merged(e) = Merged(c)
  <2>1. /\ DOMAIN e.line = 1 .. (Len(c.line) + 1) /\ DOMAIN c.line = 1 .. Len(c.line)
        /\ Len(c.line) \in Nat
        /\ \A k \in DOMAIN c.line : e.line[k] = c.line[k]
        /\ e.line[Len(c.line) + 1] = EditOf(p)
    BY <1>1, <1>2 DEF Commits
  <2>2. {j \in DOMAIN e.line : ~ e.line[j].edit} = {j \in DOMAIN c.line : ~ c.line[j].edit}
    BY <2>1, <1>1
  <2> QED
    BY <2>1, <2>2 DEF Merged
<1> QED
  BY <1>2, <1>3, MergeBaseIs, MergeBaseUnique

\* A merge of a newer base commit makes that one the merge base.
LEMMA MergeIs ==
  ASSUME NEW c \in Commits, NEW b \in BaseCommits, b > MergeBase(c)
  PROVE  Merge(c, b) \in Commits /\ MergeBase(Merge(c, b)) = b
<1> DEFINE e == Merge(c, b)
<1>1. MergeOf(b) \in Step /\ ~ MergeOf(b).edit /\ MergeOf(b).base = b
  BY DEF Step, MergeOf
<1>2. e \in Commits /\ e.fork = c.fork /\ e.line = Append(c.line, MergeOf(b))
  BY <1>1 DEF Commits, Merge
<1>3. Merged(e) = Merged(c) \union {b}
  <2>1. /\ DOMAIN e.line = 1 .. (Len(c.line) + 1) /\ DOMAIN c.line = 1 .. Len(c.line)
        /\ Len(c.line) \in Nat
        /\ \A k \in DOMAIN c.line : e.line[k] = c.line[k]
        /\ e.line[Len(c.line) + 1] = MergeOf(b)
    BY <1>1, <1>2 DEF Commits
  <2>2. {j \in DOMAIN e.line : ~ e.line[j].edit}
          = {j \in DOMAIN c.line : ~ c.line[j].edit} \union {Len(c.line) + 1}
    BY <2>1, <1>1
  <2> QED
    BY <2>1, <2>2, <1>1 DEF Merged
<1>4. \A d \in Merged(e) \union {e.fork} : d <= b
  <2>1. ASSUME NEW d \in Merged(c) \union {c.fork} PROVE d <= b
    <3>1. d \in Nat /\ MergeBase(c) \in Nat /\ b \in Nat
      BY MergeBaseIs, BaseType
    <3>2. d <= MergeBase(c)
      BY MergeBaseIs
    <3> QED
      BY <3>1, <3>2
  <2>2. b <= b
    BY BaseType
  <2> QED
    BY <1>2, <1>3, <2>1, <2>2
<1> QED
  BY <1>2, <1>3, <1>4, MergeBaseUnique

\* The parent of a commit has its merge base or an older one.
LEMMA FirstParentIs ==
  ASSUME NEW c \in Commits, c.line # <<>>
  PROVE  FirstParent(c) \in Commits /\ MergeBase(FirstParent(c)) <= MergeBase(c)
<1> DEFINE e == FirstParent(c)
           n == Len(c.line)
<1>1. c.line \in Seq(Step) /\ n \in Nat /\ n > 0 /\ DOMAIN c.line = 1 .. n
  BY DEF Commits
<1>2. /\ Front(c.line) \in Seq(Step) /\ DOMAIN Front(c.line) = 1 .. (n - 1)
      /\ \A k \in 1 .. (n - 1) : Front(c.line)[k] = c.line[k]
  <2>1. Front(c.line) = SubSeq(c.line, 1, n - 1)
    BY DEF Front
  <2> QED
    BY <1>1, <2>1, SubSeqProperties
<1>3. e \in Commits /\ e.fork = c.fork /\ e.line = Front(c.line)
  BY <1>2 DEF Commits, FirstParent
<1>4. Merged(e) \subseteq Merged(c)
  BY <1>1, <1>2, <1>3 DEF Merged
<1> QED
  BY <1>3, <1>4, MergeBaseIs

\* An ancestor of the first kind of IsAncestor holds no base commit its descendant lacks.
LEMMA PrefixMerged ==
  ASSUME NEW x \in Commits, NEW y \in Commits, IsPrefix(x.line, y.line)
  PROVE  Merged(x) \subseteq Merged(y) /\ Len(x.line) <= Len(y.line)
<1> DEFINE n == Len(x.line)
<1>1. /\ n \in Nat /\ DOMAIN x.line = 1 .. n
      /\ Len(y.line) \in Nat /\ DOMAIN y.line = 1 .. Len(y.line)
      /\ x.line \in Seq(Step) /\ y.line \in Seq(Step)
  BY DEF Commits
<1>2. n <= Len(y.line) /\ SubSeq(x.line, 1, n) = SubSeq(y.line, 1, n)
  BY DEF IsPrefix
<1>3. ASSUME NEW k \in 1 .. n PROVE k \in DOMAIN y.line /\ x.line[k] = y.line[k]
  <2>1. SubSeq(x.line, 1, n)[k] = x.line[k] /\ SubSeq(y.line, 1, n)[k] = y.line[k]
    BY <1>1, <1>2
  <2> QED
    BY <1>1, <1>2, <2>1
<1>4. \A k \in DOMAIN x.line : k \in DOMAIN y.line /\ x.line[k] = y.line[k]
  BY <1>1, <1>3
<1> QED
  BY <1>2, <1>4 DEF Merged

\* git rev-list --count: an ancestor is a natural number of commits behind.
LEMMA DistanceType ==
  ASSUME NEW x \in Commits, NEW y \in Commits, IsAncestor(x, y)
  PROVE  CommitDistance(x, y) \in Nat
<1>1. Len(x.line) \in Nat /\ Len(y.line) \in Nat
  BY DEF Commits
<1>2. MergeBase(x) \in Nat /\ MergeBase(y) \in Nat
  BY MergeBaseIs, BaseType
<1>3. Len(x.line) <= Len(y.line) /\ MergeBase(x) <= MergeBase(y)
  <2>1. CASE x.fork = y.fork /\ IsPrefix(x.line, y.line)
    BY <2>1, PrefixMerged, MergeBaseIs
  <2>2. CASE x.line = <<>> /\ x.fork <= MergeBase(y)
    <3>1. Merged(x) = {} /\ Len(x.line) = 0
      BY <2>2 DEF Merged
    <3> QED
      BY <1>1, <2>2, <3>1, MergeBaseIs
  <2> QED
    BY <2>1, <2>2 DEF IsAncestor
<1>4. \A i, j, k, l \in Nat : i <= j /\ k <= l => j - i + l - k \in Nat
  OBVIOUS
<1> QED
  BY <1>1, <1>2, <1>3, <1>4 DEF CommitDistance

-----------------------------------------------------------------------------
(* Patches                                                                  *)

\* A base commit changes nothing of its own.
LEMMA NoEdits ==
  ASSUME NEW b, NEW p
  PROVE  Cardinality(EditsOf(BaseCommit(b), p)) = 0
<1>1. EditsOf(BaseCommit(b), p) = {}
  BY DEF EditsOf, BaseCommit
<1> QED
  BY <1>1, FS_EmptySet

LEMMA BaseBlob ==
  ASSUME NEW b \in BaseCommits, NEW p
  PROVE  Blob(BaseCommit(b), p) = <<0, BaseVersion(b, p)>>
  BY NoEdits, BaseCommitIs DEF Blob

\* A patch is what it says of every file.
LEMMA PatchAt ==
  ASSUME NEW x, NEW y, NEW u, NEW v, Patch(x, y) = Patch(u, v), NEW p \in Paths
  PROVE  /\ (Blob(x, p) # Blob(y, p)) <=> (Blob(u, p) # Blob(v, p))
         /\ Blob(x, p) # Blob(y, p) => Blob(x, p) = Blob(u, p) /\ Blob(y, p) = Blob(v, p)
<1>1. \A a, b : <<p, a, b>> \in Patch(x, y)
                   <=> Blob(x, p) # Blob(y, p) /\ a = Blob(x, p) /\ b = Blob(y, p)
  BY DEF Patch, DiffPaths
<1>2. \A a, b : <<p, a, b>> \in Patch(u, v)
                   <=> Blob(u, p) # Blob(v, p) /\ a = Blob(u, p) /\ b = Blob(v, p)
  BY DEF Patch, DiffPaths
<1> QED
  BY <1>1, <1>2

\* merge_base_drift_scope: two commits that make the same changes, each seen from some
\* base commit, make the same changes to their own merge bases.  The base commit of the
\* reviewed one is that of another anchor, and need not be its merge base.
LEMMA SamePatch ==
  ASSUME NEW x \in Commits, NEW y \in Commits, NEW m \in BaseCommits,
         Patch(BaseCommit(m), x) = Patch(BaseCommit(MergeBase(y)), y)
  PROVE  SameChanges(x, y)
<1> DEFINE b == MergeBase(x)
           n == MergeBase(y)
<1>1. b \in BaseCommits /\ n \in BaseCommits
  BY MergeBaseIs
<1>2. ASSUME NEW p \in Paths
      PROVE  /\ (Blob(BaseCommit(b), p) # Blob(x, p)) <=> (Blob(BaseCommit(n), p) # Blob(y, p))
             /\ Blob(BaseCommit(b), p) # Blob(x, p)
                  => /\ Blob(BaseCommit(b), p) = Blob(BaseCommit(n), p)
                     /\ Blob(x, p) = Blob(y, p)
  <2>1. /\ Blob(BaseCommit(m), p) = <<0, BaseVersion(m, p)>>
        /\ Blob(BaseCommit(b), p) = <<0, BaseVersion(b, p)>>
        /\ Blob(BaseCommit(n), p) = <<0, BaseVersion(n, p)>>
    BY <1>1, BaseBlob
  <2>2. /\ Blob(x, p) = <<Cardinality(EditsOf(x, p)), BaseVersion(b, p)>>
        /\ Blob(y, p) = <<Cardinality(EditsOf(y, p)), BaseVersion(n, p)>>
    BY DEF Blob
  <2>3. /\ (Blob(BaseCommit(m), p) # Blob(x, p)) <=> (Blob(BaseCommit(n), p) # Blob(y, p))
        /\ Blob(BaseCommit(m), p) # Blob(x, p)
             => Blob(BaseCommit(m), p) = Blob(BaseCommit(n), p) /\ Blob(x, p) = Blob(y, p)
    BY PatchAt
  <2> HIDE DEF b, n
  <2> QED
    BY <2>1, <2>2, <2>3
<1>3. DiffPaths(BaseCommit(b), x) = DiffPaths(BaseCommit(n), y)
  BY <1>2 DEF DiffPaths
<1>4. \A p \in DiffPaths(BaseCommit(b), x) :
        /\ Blob(BaseCommit(b), p) = Blob(BaseCommit(n), p)
        /\ Blob(x, p) = Blob(y, p)
  BY <1>2 DEF DiffPaths
<1>5. Patch(BaseCommit(b), x) = Patch(BaseCommit(n), y)
  BY <1>3, <1>4 DEF Patch
<1> QED
  BY <1>5 DEF SameChanges

-----------------------------------------------------------------------------
(* Rebases                                                                  *)

\* The recursive function of OnlyEdits exists: the least length without one would be
\* one more than a length with one.
LEMMA UptoExists ==
  ASSUME NEW line, NEW n \in Nat
  PROVE  \E g : g = [k \in 0 .. n |->
                       IF k = 0 THEN <<>>
                       ELSE IF line[k].edit THEN Append(g[k - 1], line[k]) ELSE g[k - 1]]
<1> DEFINE Upto(g, m) ==
             g = [k \in 0 .. m |->
                    IF k = 0 THEN <<>>
                    ELSE IF line[k].edit THEN Append(g[k - 1], line[k]) ELSE g[k - 1]]
           Bad == {m \in Nat : ~ \E g : Upto(g, m)}
<1>1. SUFFICES Bad = {}
  OBVIOUS
<1>2. SUFFICES ASSUME Bad # {} PROVE FALSE
  OBVIOUS
<1>3. PICK m \in Bad : \A l \in Bad : m <= l
  BY <1>2, LeastOf
<1>4. m # 0
  <2>1. Upto([k \in 0 .. 0 |-> <<>>], 0)
    OBVIOUS
  <2> QED
    BY <1>3, <2>1
<1>5. m \in Nat /\ m - 1 \in Nat /\ m - 1 \notin Bad
  <2> HIDE DEF Upto
  <2>1. m \in Nat /\ m - 1 \in Nat
    BY <1>4
  <2>2. ~(m <= m - 1)
    BY <2>1
  <2> QED
    BY <1>3, <2>1, <2>2
<1>6. PICK g : Upto(g, m - 1)
  BY <1>5
<1> DEFINE last == IF line[m].edit THEN Append(g[m - 1], line[m]) ELSE g[m - 1]
           h == [k \in 0 .. m |-> IF k = m THEN last ELSE g[k]]
<1>7. ASSUME NEW k \in 0 .. m
      PROVE  h[k] = IF k = 0 THEN <<>>
                    ELSE IF line[k].edit THEN Append(h[k - 1], line[k]) ELSE h[k - 1]
  <2>1. CASE k = 0
    BY <1>4, <1>5, <1>6, <2>1
  <2>2. CASE k = m
    <3>1. h[k] = last /\ h[k - 1] = g[m - 1]
      BY <1>4, <1>5, <2>2
    <3> QED
      BY <1>4, <2>2, <3>1
  <2>3. CASE k # 0 /\ k # m
    <3>1. k \in 0 .. (m - 1) /\ k - 1 \in 0 .. m /\ k - 1 # m
      BY <1>5, <2>3
    <3>2. h[k] = g[k] /\ h[k - 1] = g[k - 1]
      BY <2>3, <3>1
    <3>3. g[k] = IF line[k].edit THEN Append(g[k - 1], line[k]) ELSE g[k - 1]
      BY <1>6, <2>3, <3>1
    <3> QED
      BY <2>3, <3>2, <3>3
  <2> QED
    BY <2>1, <2>2, <2>3
<1>8. Upto(h, m)
  BY <1>7
<1> QED
  BY <1>3, <1>8

\* A rebase keeps edits only.
LEMMA OnlyEditsType ==
  ASSUME NEW line \in Seq(Step)
  PROVE  OnlyEdits(line) \in Seq({s \in Step : s.edit})
<1> DEFINE Upto(g) ==
             g = [k \in 0 .. Len(line) |->
                    IF k = 0 THEN <<>>
                    ELSE IF line[k].edit THEN Append(g[k - 1], line[k]) ELSE g[k - 1]]
           upto == CHOOSE g : Upto(g)
           E == {s \in Step : s.edit}
<1>1. OnlyEdits(line) = upto[Len(line)]
  BY DEF OnlyEdits
<1>2. Len(line) \in Nat /\ \A k \in 1 .. Len(line) : line[k] \in Step
  OBVIOUS
<1>3. Upto(upto)
  BY <1>2, UptoExists
<1> HIDE DEF upto
<1> DEFINE Bad == {k \in 0 .. Len(line) : upto[k] \notin Seq(E)}
<1>4. Bad = {}
  <2>1. SUFFICES ASSUME Bad # {} PROVE FALSE
    OBVIOUS
  <2>2. PICK k \in Bad : \A j \in Bad : k <= j
    <3>1. Bad \subseteq Nat
      BY <1>2
    <3> HIDE DEF Bad
    <3> QED
      BY <2>1, <3>1, LeastOf
  <2>3. k # 0
    BY <1>2, <1>3, <2>2
  <2>4. k - 1 \in 0 .. Len(line) /\ upto[k - 1] \in Seq(E) /\ line[k] \in Step
    <3>1. k \in 1 .. Len(line) /\ k - 1 \in 0 .. Len(line) /\ ~(k <= k - 1)
      BY <1>2, <2>2, <2>3
    <3> QED
      BY <1>2, <2>2, <3>1
  <2>5. upto[k] = IF line[k].edit THEN Append(upto[k - 1], line[k]) ELSE upto[k - 1]
    BY <1>3, <2>2, <2>3
  <2>6. upto[k] \in Seq(E)
    BY <2>4, <2>5
  <2> QED
    BY <2>2, <2>6
<1> QED
  BY <1>1, <1>2, <1>4

\* A rebased branch starts at the new base.
LEMMA RebaseIs ==
  ASSUME NEW c \in Commits, NEW b \in BaseCommits
  PROVE  Rebase(c, b) \in Commits /\ MergeBase(Rebase(c, b)) = b
<1> DEFINE e == Rebase(c, b)
           l == OnlyEdits(c.line)
<1>1. l \in Seq({s \in Step : s.edit})
  BY OnlyEditsType DEF Commits
<1> HIDE DEF l
<1>2. l \in Seq(Step) /\ \A j \in DOMAIN l : l[j].edit
  BY <1>1
<1>3. e \in Commits /\ e.fork = b /\ e.line = l
  BY <1>2 DEF Commits, Rebase, l
<1>4. Merged(e) = {}
  BY <1>2, <1>3 DEF Merged
<1>5. b <= b
  BY BaseType
<1> QED
  BY <1>3, <1>4, <1>5, MergeBaseUnique

-----------------------------------------------------------------------------
(* The inductive invariant                                                  *)

AnchorSet == [lane : Lanes, head : Commits, mb : BaseCommits]
JobSet == [lane : Lanes, head : Commits, mb : BaseCommits \union {None}, asked : BOOLEAN]

VarsTyped ==
    /\ head \in Commits /\ tip \in BaseCommits /\ MergeBase(head) <= tip
    /\ dirty \subseteq Paths /\ detached \in BOOLEAN
    /\ moves \in 0..MaxMoves /\ started \in 0..MaxReviews /\ advised \in Nat

\* record_review_anchor: whatever is recorded was shown to a reviewer.
AllSeen(anchors) == \A n \in DOMAIN anchors : anchors[n].head \in seen

FilesGood == \A k \in DOMAIN files :
    /\ k = Branch \/ \E c \in Commits : k = DetachedAt(c)
    /\ files[k].anchors \in Seq(AnchorSet)
    /\ Len(files[k].anchors) \in 1..HistoryLimit
    /\ AllSeen(files[k].anchors)

JobGood ==
    /\ job \in [Reviews -> {Idle} \union JobSet]
    /\ \A r \in Reviews :
        job[r] # Idle => /\ job[r] \in JobSet
                         /\ job[r].lane \in FullLanes => job[r].mb \in BaseCommits

\* The anchors that end a series of follow-ups, and the follow-ups since the last one.
Checkpoints(anchors) ==
    {k \in DOMAIN anchors : anchors[k].lane \in FullLanes \union {"review-github"}}
SinceCheckpoint(anchors) == Len(anchors) - Latest(Checkpoints(anchors))

\* Every follow-up that was asked for is in the history or under way.
FollowupsGood ==
    Cardinality(Reviews) = 1 /\ DOMAIN files = {Branch} /\ Checkpoints(files[Branch].anchors) # {}
        => /\ advised <= FollowupCycleLimit + 1
           /\ \A r \in Reviews :
                advised <= SinceCheckpoint(files[Branch].anchors)
                             + (IF job[r].asked THEN 1 ELSE 0)

IInv == VarsTyped /\ FilesGood /\ JobGood /\ FollowupsGood

-----------------------------------------------------------------------------
(* Histories                                                                *)

LEMMA LimitsType ==
  /\ HistoryLimit \in Nat /\ FollowupCycleLimit \in Nat /\ HistoryLimit >= 2
  /\ MaxLine \in Nat /\ MaxMoves \in Nat /\ MaxReviews \in Nat /\ IsFiniteSet(Reviews)
  BY AnchorsAssumption DEF Limits

LEMMA LatestIs ==
  ASSUME NEW n \in Nat, NEW indices, indices \subseteq 1 .. n, indices # {}
  PROVE  Latest(indices) \in indices /\ \A j \in indices : j <= Latest(indices)
<1>1. \E k \in indices : \A j \in indices : j <= k
  <2>1. indices \subseteq 0 .. n
    OBVIOUS
  <2> QED
    BY <2>1, GreatestOf
<1> QED
  BY <1>1 DEF Latest

\* _detached_fallback_state: no history, or a stored one of another detached HEAD.
LEMMA FallbackIs ==
  ASSUME VarsTyped, FilesGood
  PROVE  \/ DetachedFallback = NoHistory
         \/ \E k \in DOMAIN files : k # Branch /\ DetachedFallback = files[k]
<1> DEFINE behind == {k \in DOMAIN files : ~ k.branch /\ IsAncestor(k.head, head)}
           D == {CommitDistance(k.head, head) : k \in behind}
<1>1. CASE behind = {}
  BY <1>1 DEF DetachedFallback
<1>2. CASE behind # {}
  <2>1. ASSUME NEW k \in behind PROVE CommitDistance(k.head, head) \in Nat
    <3>1. k = Branch \/ \E c \in Commits : k = DetachedAt(c)
      BY DEF FilesGood
    <3>2. k.head \in Commits
      BY <3>1 DEF Branch, DetachedAt
    <3> QED
      BY <3>2, DistanceType DEF VarsTyped
  <2>2. PICK d \in D : \A e \in D : d <= e
    BY <1>2, <2>1, LeastOf
  <2>3. \E k \in behind : \A j \in behind :
           CommitDistance(k.head, head) <= CommitDistance(j.head, head)
    BY <2>2
  <2>4. PICK k \in behind : DetachedFallback = files[k]
    BY <1>2, <2>3 DEF DetachedFallback
  <2> QED
    BY <2>4 DEF Branch
<1> QED
  BY <1>1, <1>2

\* load_workflow_state: anchors of reviewed commits.
LEMMA AnchorsGood ==
  ASSUME VarsTyped, FilesGood
  PROVE  /\ Anchors \in Seq(AnchorSet) /\ AllSeen(Anchors)
         /\ Key \in DOMAIN files => Anchors = files[Key].anchors
         /\ Key \notin DOMAIN files /\ DOMAIN files \subseteq {Branch} => Anchors = <<>>
<1>1. NoHistory.anchors = <<>> /\ <<>> \in Seq(AnchorSet) /\ AllSeen(<<>>)
  BY DEF NoHistory, AllSeen
<1>2. \A k \in DOMAIN files : files[k].anchors \in Seq(AnchorSet) /\ AllSeen(files[k].anchors)
  BY DEF FilesGood
<1>3. CASE Key \in DOMAIN files
  BY <1>2, <1>3 DEF Anchors, State
<1>4. CASE Key \notin DOMAIN files
  BY <1>1, <1>2, <1>4, FallbackIs DEF Anchors, State
<1> QED
  BY <1>3, <1>4

\* best_followup_anchor: one of the anchors.
LEMMA BestIsAnchor ==
  ASSUME VarsTyped, FilesGood, Behind # {}
  PROVE  \E k \in Behind : BestFollowupAnchor = Anchors[k]
<1> DEFINE Distance(k) == CommitDistance(Anchors[k].head, head)
           D == {Distance(k) : k \in Behind}
           nearest == {k \in Behind : \A j \in Behind : Distance(k) <= Distance(j)}
<1>1. ASSUME NEW k \in Behind PROVE Distance(k) \in Nat
  <2>1. Anchors[k] \in AnchorSet /\ IsAncestor(Anchors[k].head, head)
    BY AnchorsGood DEF Behind
  <2> QED
    BY <2>1, DistanceType DEF VarsTyped, AnchorSet
<1>2. PICK d \in D : \A e \in D : d <= e
  <2>1. D \subseteq Nat /\ D # {}
    BY <1>1
  <2> QED
    BY <2>1, LeastOf
<1>3. nearest # {}
  BY <1>2
<1>4. nearest \subseteq Behind /\ Behind \subseteq 1 .. Len(Anchors) /\ Len(Anchors) \in Nat
  BY AnchorsGood DEF Behind
<1>5. Latest(nearest) \in nearest
  BY <1>3, <1>4, LatestIs
<1>6. BestFollowupAnchor = Anchors[Latest(nearest)]
  BY DEF BestFollowupAnchor
<1> QED
  BY <1>4, <1>5, <1>6

\* latest_base_review_context_anchor: its merge base is one of the base branch.
LEMMA ContextType ==
  ASSUME VarsTyped, FilesGood, NEW anchor \in AnchorSet
  PROVE  BaseContextAnchor(anchor) \in AnchorSet
<1>1. CASE InLanes(FullLanes) = {}
  BY <1>1 DEF BaseContextAnchor
<1>2. CASE InLanes(FullLanes) # {}
  <2>1. InLanes(FullLanes) \subseteq 1 .. Len(Anchors) /\ Len(Anchors) \in Nat
    BY AnchorsGood DEF InLanes
  <2>2. Latest(InLanes(FullLanes)) \in 1 .. Len(Anchors)
    BY <1>2, <2>1, LatestIs
  <2> QED
    BY <1>2, <2>2, AnchorsGood DEF BaseContextAnchor
<1> QED
  BY <1>1, <1>2

-----------------------------------------------------------------------------
(* What the status says                                                     *)

LEMMA DecideIs ==
  ASSUME NEW rec, NEW reason, NEW since
  PROVE  Decide(rec, reason, since).rec = rec
  BY DEF Decide

\* classify_delta_recommendation always asks for a review.
LEMMA ClassifyAsks ==
  ASSUME NEW f, NEW c, NEW since
  PROVE  Classify(f, c, since).rec # "none"
  BY DecideIs DEF Classify

\* Pressure never lifts a recommendation.
LEMMA PressureAsks ==
  ASSUME NEW since, NEW decision, decision.rec # "none"
  PROVE  UnderPressure(since, decision).rec # "none"
  BY DecideIs DEF UnderPressure

\* inspect_workflow_status: "none" is said of HEAD itself, or of its changes.
LEMMA NoneIs ==
  ASSUME VarsTyped, FilesGood, Status.rec = "none"
  PROVE  \E k \in Behind :
           \/ Anchors[k].head = head
           \/ EquivalentOnNewBase(Anchors[k])
<1>1. Anchors # <<>> /\ Behind # {}
  BY DecideIs DEF Status
<1>2. PICK k \in Behind : BestFollowupAnchor = Anchors[k]
  BY <1>1, BestIsAnchor
<1>3. InspectAnchor(Anchors[k]).rec = "none"
  BY <1>1, <1>2 DEF Status
<1>4. \A since : InspectDelta(since).rec # "none"
  BY ClassifyAsks, PressureAsks DEF InspectDelta
<1>5. EquivalentOnNewBase(Anchors[k]) \/ Anchors[k].head = head
  BY <1>3, <1>4, DecideIs DEF InspectAnchor
<1> QED
  BY <1>5

\* The property, of a state with the invariant.
LEMMA NoneReviewed ==
  ASSUME VarsTyped, FilesGood
  PROVE  NoneMeansReviewed
<1>1. SUFFICES ASSUME Status.rec = "none" PROVE \E c \in seen : c = head \/ SameChanges(c, head)
  BY DEF NoneMeansReviewed
<1>2. PICK k \in Behind : Anchors[k].head = head \/ EquivalentOnNewBase(Anchors[k])
  BY <1>1, NoneIs
<1>3. Anchors[k] \in AnchorSet /\ Anchors[k].head \in seen
  BY AnchorsGood DEF Behind, AllSeen
<1>4. ASSUME EquivalentOnNewBase(Anchors[k]) PROVE SameChanges(Anchors[k].head, head)
  <2> DEFINE m == BaseContextAnchor(Anchors[k]).mb
  <2>1. m \in BaseCommits
    BY <1>3, ContextType DEF AnchorSet
  <2>2. Patch(BaseCommit(m), Anchors[k].head) = Patch(BaseCommit(MergeBase(head)), head)
    BY <1>4 DEF EquivalentOnNewBase, BaseDrift
  <2>3. Anchors[k].head \in Commits /\ head \in Commits
    BY <1>3 DEF AnchorSet, VarsTyped
  <2> HIDE DEF m
  <2> QED
    BY <2>1, <2>2, <2>3, SamePatch
<1> QED
  BY <1>2, <1>3, <1>4

\* followup_cycle_pressure: all anchors after the last checkpoint are follow-ups.
LEMMA PressureIs ==
  ASSUME VarsTyped, FilesGood, Checkpoints(Anchors) # {}, ~ FollowupCyclePressure
  PROVE  SinceCheckpoint(Anchors) <= FollowupCycleLimit
<1> DEFINE n == Len(Anchors)
           last == Latest(Checkpoints(Anchors))
           S == {k \in InLanes({"review-followup"}) : k > last}
<1>1. Anchors \in Seq(AnchorSet) /\ n \in Nat /\ DOMAIN Anchors = 1 .. n
  BY AnchorsGood
<1>2. InLanes(FullLanes \union {"review-github"}) = Checkpoints(Anchors)
  BY DEF InLanes, Checkpoints
<1>3. last \in Checkpoints(Anchors) /\ \A j \in Checkpoints(Anchors) : j <= last
  <2>1. Checkpoints(Anchors) \subseteq 1 .. n
    BY <1>1 DEF Checkpoints
  <2> QED
    BY <1>1, <2>1, LatestIs
<1>4. last \in 1 .. n
  BY <1>1, <1>3 DEF Checkpoints
<1>5. S = (last + 1) .. n
  <2>1. ASSUME NEW k \in 1 .. n, k > last PROVE Anchors[k].lane = "review-followup"
    <3>1. k \notin Checkpoints(Anchors)
      BY <1>3, <1>4, <2>1
    <3>2. Anchors[k].lane \in Lanes
      <4>1. Anchors[k] \in AnchorSet
        BY <1>1
      <4> QED
        BY <4>1 DEF AnchorSet
    <3> QED
      BY <1>1, <3>1, <3>2 DEF Checkpoints, Lanes
  <2>2. S = {k \in 1 .. n : k > last}
    BY <1>1, <2>1 DEF InLanes
  <2> QED
    BY <1>4, <2>2
<1>6. ~(Cardinality(S) > FollowupCycleLimit)
  BY <1>2 DEF FollowupCyclePressure
<1>7. Cardinality(S) = n - last
  <2>1. last + 1 \in Int /\ n \in Int
    BY <1>1, <1>4
  <2>2. Cardinality((last + 1) .. n) = IF last + 1 > n THEN 0 ELSE n - (last + 1) + 1
    BY <2>1, FS_Interval
  <2> HIDE DEF S, n, last
  <2> QED
    BY <1>1, <1>4, <1>5, <2>2
<1> HIDE DEF S, n, last
<1>8. n - last <= FollowupCycleLimit
  BY <1>1, <1>4, <1>6, <1>7, LimitsType
<1> QED
  BY <1>8 DEF SinceCheckpoint, n, last

\* A follow-up is asked for only without pressure, and only with an anchor.
LEMMA AskedIs ==
  ASSUME Status.rec = "review-followup"
  PROVE  Anchors # <<>> /\ ~ FollowupCyclePressure
<1>1. Anchors # <<>> /\ Behind # {}
  BY DecideIs DEF Status
<1>2. InspectAnchor(BestFollowupAnchor).rec = "review-followup"
  BY <1>1 DEF Status
<1>3. \A since, decision : UnderPressure(since, decision).rec = "review-followup"
                             => ~ FollowupCyclePressure
  BY DecideIs DEF UnderPressure
<1>4. InspectWorktree.rec = "review-followup" => ~ FollowupCyclePressure
  BY <1>3, DecideIs DEF InspectWorktree
<1>5. \A since : InspectDelta(since).rec = "review-followup" => ~ FollowupCyclePressure
  BY <1>3 DEF InspectDelta
<1>6. ~ FollowupCyclePressure
  BY <1>2, <1>4, <1>5, DecideIs DEF InspectAnchor
<1> QED
  BY <1>1, <1>6

-----------------------------------------------------------------------------
(* Steps                                                                    *)


\* Moving HEAD, the base branch or the worktree changes no history.
LEMMA CheckoutKeeps ==
  ASSUME FilesGood, JobGood, FollowupsGood, UNCHANGED <<files, job, seen, advised>>
  PROVE  FilesGood' /\ JobGood' /\ FollowupsGood'
<1>1. FilesGood'
  BY DEF FilesGood, AllSeen
<1>2. JobGood'
  BY DEF JobGood
<1>3. FollowupsGood'
  BY DEF FollowupsGood
<1> QED
  BY <1>1, <1>2, <1>3

LEMMA MoveKeeps ==
  ASSUME VarsTyped, NEW h \in Commits, Move(h)
  PROVE  head' = h /\ moves' \in 0..MaxMoves /\ UNCHANGED <<files, job, seen, advised, started>>
  BY LimitsType DEF Move, VarsTyped

LEMMA CheckoutStep ==
  ASSUME IInv,
         \/ \E p \in Paths : CommitFile(p) \/ EditFile(p)
         \/ MergeOfBase \/ RebaseBranch \/ ResetBranch \/ BaseMoves \/ Detach
  PROVE  IInv'
<1>1. VarsTyped /\ FilesGood /\ JobGood /\ FollowupsGood
  BY DEF IInv
<1>2. /\ head \in Commits /\ tip \in BaseCommits /\ MergeBase(head) \in Nat /\ tip \in Nat
      /\ MergeBase(head) <= tip /\ tip <= tip
  <2>1. head \in Commits /\ tip \in BaseCommits /\ MergeBase(head) <= tip
    BY <1>1 DEF VarsTyped
  <2>2. MergeBase(head) \in Nat /\ tip \in Nat
    BY <2>1, MergeBaseIs, BaseType
  <2> QED
    BY <2>1, <2>2
<1>3. SUFFICES VarsTyped' /\ UNCHANGED <<files, job, seen, advised>>
  BY <1>1, CheckoutKeeps DEF IInv
<1>4. ASSUME NEW p \in Paths, CommitFile(p)
      PROVE  VarsTyped' /\ UNCHANGED <<files, job, seen, advised>>
  <2>1. Commit(head, p) \in Commits /\ MergeBase(Commit(head, p)) = MergeBase(head)
    BY <1>2, CommitIs
  <2>2. /\ head' = Commit(head, p) /\ moves' \in 0..MaxMoves /\ dirty' = {}
        /\ UNCHANGED <<files, job, seen, advised, started, tip, detached>>
    BY <1>1, <1>4, <2>1, MoveKeeps DEF CommitFile
  <2> QED
    BY <1>1, <2>1, <2>2 DEF VarsTyped
<1>5. ASSUME NEW p \in Paths, EditFile(p)
      PROVE  VarsTyped' /\ UNCHANGED <<files, job, seen, advised>>
  BY <1>1, <1>5 DEF VarsTyped, EditFile
<1>6. CASE MergeOfBase
  <2>1. Merge(head, tip) \in Commits /\ MergeBase(Merge(head, tip)) = tip
    BY <1>2, <1>6, MergeIs DEF MergeOfBase
  <2>2. /\ head' = Merge(head, tip) /\ moves' \in 0..MaxMoves
        /\ UNCHANGED <<files, job, seen, advised, started, tip, dirty, detached>>
    BY <1>1, <1>6, <2>1, MoveKeeps DEF MergeOfBase
  <2> QED
    BY <1>1, <1>2, <2>1, <2>2 DEF VarsTyped
<1>7. CASE RebaseBranch
  <2>1. Rebase(head, tip) \in Commits /\ MergeBase(Rebase(head, tip)) = tip
    BY <1>2, RebaseIs
  <2>2. /\ head' = Rebase(head, tip) /\ moves' \in 0..MaxMoves
        /\ UNCHANGED <<files, job, seen, advised, started, tip, dirty, detached>>
    BY <1>1, <1>7, <2>1, MoveKeeps DEF RebaseBranch
  <2> QED
    BY <1>1, <1>2, <2>1, <2>2 DEF VarsTyped
<1>8. CASE ResetBranch
  <2>1. /\ FirstParent(head) \in Commits
        /\ MergeBase(FirstParent(head)) <= MergeBase(head)
        /\ MergeBase(FirstParent(head)) \in Nat
    BY <1>2, <1>8, FirstParentIs, MergeBaseIs, BaseType DEF ResetBranch
  <2>2. /\ head' = FirstParent(head) /\ moves' \in 0..MaxMoves
        /\ UNCHANGED <<files, job, seen, advised, started, tip, dirty, detached>>
    BY <1>1, <1>8, <2>1, MoveKeeps DEF ResetBranch
  <2>3. MergeBase(FirstParent(head)) <= tip
    BY <1>2, <2>1
  <2> QED
    BY <1>1, <2>1, <2>2, <2>3 DEF VarsTyped
<1>9. CASE BaseMoves
  <2>1. /\ tip' = tip + 1 /\ tip < MaxBase
        /\ UNCHANGED <<head, dirty, detached, files, job, seen, advised, moves, started>>
    BY <1>9 DEF BaseMoves
  <2>2. tip + 1 \in BaseCommits /\ MergeBase(head) <= tip + 1
    BY <1>2, <2>1, BaseType DEF BaseCommits
  <2> QED
    BY <1>1, <2>1, <2>2 DEF VarsTyped
<1>10. CASE Detach
  BY <1>1, <1>10, LimitsType DEF VarsTyped, Detach
<1> QED
  BY <1>4, <1>5, <1>6, <1>7, <1>8, <1>9, <1>10

LEMMA SinceType ==
  ASSUME NEW a \in Seq(AnchorSet), Checkpoints(a) # {}
  PROVE  /\ SinceCheckpoint(a) \in Nat
         /\ Latest(Checkpoints(a)) \in Checkpoints(a)
         /\ \A j \in Checkpoints(a) : j <= Latest(Checkpoints(a))
<1>1. Len(a) \in Nat /\ Checkpoints(a) \subseteq 1 .. Len(a)
  BY DEF Checkpoints
<1>2. Latest(Checkpoints(a)) \in Checkpoints(a) /\ \A j \in Checkpoints(a) : j <= Latest(Checkpoints(a))
  BY <1>1, LatestIs
<1>3. Latest(Checkpoints(a)) \in 1 .. Len(a)
  BY <1>1, <1>2
<1> QED
  BY <1>1, <1>2, <1>3 DEF SinceCheckpoint

\* With one review, a step of a review is a step of that one.
LEMMA OnlyReview ==
  ASSUME Cardinality(Reviews) = 1, NEW r \in Reviews, NEW s \in Reviews
  PROVE  s = r
  BY FS_Singleton, LimitsType

LEMMA StartKeepsFollowups ==
  ASSUME IInv, NEW r \in Reviews, NEW lane, NEW mb, NEW asked \in BOOLEAN,
         StartReview(r, lane, mb, asked), UNCHANGED files,
         asked => Status.rec = "review-followup"
  PROVE  FollowupsGood'
<1>1. VarsTyped /\ FilesGood /\ JobGood /\ FollowupsGood
  BY DEF IInv
<1> DEFINE a == files[Branch].anchors
<1>2. SUFFICES ASSUME Cardinality(Reviews) = 1, DOMAIN files = {Branch}, Checkpoints(a) # {}
               PROVE  /\ advised' <= FollowupCycleLimit + 1
                      /\ \A s \in Reviews :
                           advised' <= SinceCheckpoint(a) + (IF job'[s].asked THEN 1 ELSE 0)
  BY DEF FollowupsGood
<1>3. a \in Seq(AnchorSet)
  BY <1>1, <1>2 DEF FilesGood
<1>4. SinceCheckpoint(a) \in Nat /\ advised \in Nat /\ FollowupCycleLimit \in Nat
  BY <1>1, <1>2, <1>3, SinceType, LimitsType DEF VarsTyped
<1>5. job[r] = Idle /\ job'[r].asked = asked
  BY <1>1 DEF StartReview, JobGood, Review
<1>6. advised <= FollowupCycleLimit + 1 /\ advised <= SinceCheckpoint(a)
  <2>1. job[r].asked = FALSE
    BY <1>5 DEF Idle, Review
  <2>2. /\ advised <= FollowupCycleLimit + 1
        /\ advised <= SinceCheckpoint(a) + (IF job[r].asked THEN 1 ELSE 0)
    BY <1>1, <1>2 DEF FollowupsGood
  <2> QED
    BY <1>4, <2>1, <2>2
<1>7. CASE asked = FALSE
  <2>1. advised' = advised
    BY <1>7 DEF StartReview
  <2>2. \A s \in Reviews : job'[s].asked = FALSE
    BY <1>2, <1>5, <1>7, OnlyReview
  <2> HIDE DEF a
  <2> QED
    BY <1>4, <1>6, <2>1, <2>2
<1>8. CASE asked = TRUE
  <2>1. Anchors # <<>> /\ ~ FollowupCyclePressure
    BY <1>8, AskedIs
  <2>2. Key = Branch /\ Anchors = a
    BY <1>1, <1>2, <2>1, AnchorsGood
  <2>3. SinceCheckpoint(a) <= FollowupCycleLimit
    BY <1>1, <1>2, <2>1, <2>2, PressureIs
  <2>4. advised' = advised + 1
    BY <1>8 DEF StartReview
  <2>5. \A s \in Reviews : job'[s].asked = TRUE
    BY <1>2, <1>5, <1>8, OnlyReview
  <2> HIDE DEF a
  <2> QED
    BY <1>4, <1>6, <2>3, <2>4, <2>5
<1> QED
  BY <1>7, <1>8

LEMMA StartKeeps ==
  ASSUME IInv, NEW r \in Reviews, NEW lane \in Lanes, NEW mb \in BaseCommits \union {None},
         lane \in FullLanes => mb \in BaseCommits,
         NEW asked \in BOOLEAN, StartReview(r, lane, mb, asked), UNCHANGED <<git, files>>,
         asked => Status.rec = "review-followup"
  PROVE  IInv'
<1>1. VarsTyped /\ FilesGood /\ JobGood /\ FollowupsGood
  BY DEF IInv
<1>2. VarsTyped'
  <2>1. advised' \in Nat /\ started' \in 0..MaxReviews
    BY <1>1, LimitsType DEF VarsTyped, StartReview
  <2> QED
    BY <1>1, <2>1 DEF VarsTyped, git
<1>3. FilesGood'
  BY <1>1 DEF FilesGood, AllSeen, StartReview
<1>4. JobGood'
  <2> DEFINE new == Review(lane, head, mb, asked)
  <2>1. new \in JobSet /\ new.lane = lane /\ new.mb = mb
    BY <1>1 DEF JobSet, Review, VarsTyped
  <2>2. job' = [job EXCEPT ![r] = new]
    BY DEF StartReview
  <2> HIDE DEF new
  <2> QED
    BY <1>1, <2>1, <2>2 DEF JobGood
<1>5. FollowupsGood'
  BY StartKeepsFollowups
<1> QED
  BY <1>2, <1>3, <1>4, <1>5 DEF IInv

LEMMA StartStep ==
  ASSUME IInv, NEW r \in Reviews,
         \/ \E forced \in BOOLEAN :
              \/ StartFollowup(r, Status.since, forced, FALSE)
              \/ \E since \in Named : StartFollowup(r, since, forced, TRUE)
         \/ \E lane \in FullLanes : StartFull(r, lane)
         \/ StartGithub(r)
  PROVE  IInv'
<1>1. ASSUME NEW forced \in BOOLEAN, NEW since, NEW explicit \in BOOLEAN,
             StartFollowup(r, since, forced, explicit)
      PROVE  IInv'
  <2> DEFINE asked == ~(forced \/ explicit)
  <2>1. asked \in BOOLEAN
    OBVIOUS
  <2>2. /\ StartReview(r, "review-followup", None, asked) /\ UNCHANGED <<git, files>>
        /\ IF explicit THEN SinceExplicit(since, forced) ELSE SinceAnchor(since, forced)
    BY <1>1 DEF StartFollowup
  <2>3. asked => Status.rec = "review-followup"
    BY <2>2 DEF SinceAnchor
  <2>4. "review-followup" \in Lanes /\ "review-followup" \notin FullLanes
    BY DEF Lanes, FullLanes
  <2> HIDE DEF asked
  <2> QED
    BY <2>1, <2>2, <2>3, <2>4, StartKeeps
<1>2. ASSUME NEW lane \in FullLanes, StartFull(r, lane) PROVE IInv'
  <2>1. MergeBase(head) \in BaseCommits
    BY MergeBaseIs DEF IInv, VarsTyped
  <2>2. StartReview(r, lane, MergeBase(head), FALSE) /\ UNCHANGED <<git, files>>
    BY <1>2 DEF StartFull
  <2>3. lane \in Lanes
    BY DEF Lanes
  <2> QED
    BY <2>1, <2>2, <2>3, StartKeeps
<1>3. CASE StartGithub(r)
  <2>1. StartReview(r, "review-github", None, FALSE) /\ UNCHANGED <<git, files>>
    BY <1>3 DEF StartGithub
  <2>2. "review-github" \in Lanes /\ "review-github" \notin FullLanes
    BY DEF Lanes, FullLanes
  <2> QED
    BY <2>1, <2>2, StartKeeps
<1> QED
  BY <1>1, <1>2, <1>3

LEMMA AbandonStep ==
  ASSUME IInv, NEW r \in Reviews, Abandon(r)
  PROVE  IInv'
<1>1. VarsTyped /\ FilesGood /\ JobGood /\ FollowupsGood
  BY DEF IInv
<1>2. VarsTyped'
  <2>1. advised' \in Nat
    BY <1>1 DEF VarsTyped, Abandon
  <2> QED
    BY <1>1, <2>1 DEF VarsTyped, Abandon, git
<1>3. FilesGood'
  BY <1>1 DEF FilesGood, AllSeen, Abandon
<1>4. JobGood'
  BY <1>1 DEF JobGood, Abandon
<1>5. FollowupsGood'
  <2> DEFINE a == files[Branch].anchors
  <2>1. SUFFICES ASSUME Cardinality(Reviews) = 1, DOMAIN files = {Branch}, Checkpoints(a) # {}
                 PROVE  /\ advised' <= FollowupCycleLimit + 1
                        /\ \A s \in Reviews :
                             advised' <= SinceCheckpoint(a) + (IF job'[s].asked THEN 1 ELSE 0)
    BY DEF FollowupsGood, Abandon
  <2>2. a \in Seq(AnchorSet)
    BY <1>1, <2>1 DEF FilesGood
  <2>3. SinceCheckpoint(a) \in Nat /\ advised \in Nat /\ FollowupCycleLimit \in Nat
    BY <1>1, <2>1, <2>2, SinceType, LimitsType DEF VarsTyped
  <2>4. /\ advised <= FollowupCycleLimit + 1
        /\ advised <= SinceCheckpoint(a) + (IF job[r].asked THEN 1 ELSE 0)
    BY <1>1, <2>1 DEF FollowupsGood
  <2>5. \A s \in Reviews : job'[s].asked = FALSE
    BY <1>1, <2>1, OnlyReview DEF Abandon, JobGood, Idle, Review
  <2>6. advised' = IF job[r].asked /\ advised > 0 THEN advised - 1 ELSE advised
    BY DEF Abandon
  <2> HIDE DEF a
  <2>7. advised' <= FollowupCycleLimit + 1 /\ advised' <= SinceCheckpoint(a)
    <3>1. CASE job[r].asked
      BY <2>3, <2>4, <2>6, <3>1
    <3>2. CASE ~ job[r].asked
      BY <2>3, <2>4, <2>6, <3>2
    <3> QED
      BY <3>1, <3>2
  <2> QED
    BY <2>3, <2>5, <2>7
<1> QED
  BY <1>2, <1>3, <1>4, <1>5 DEF IInv

\* b is l without its first d anchors.
CutBy(b, l, d) == Len(b) = Len(l) - d /\ \A k \in 1 .. Len(b) : b[k] = l[k + d]

\* The history keeps the newest anchors, the new one last.
LEMMA CutIs ==
  ASSUME NEW a \in Seq(AnchorSet), NEW x \in AnchorSet, NEW b, b = LastOf(Append(a, x))
  PROVE  /\ b \in Seq(AnchorSet) /\ Len(b) \in 1..HistoryLimit
         /\ \E d \in Nat : CutBy(b, Append(a, x), d)
<1> DEFINE l == Append(a, x)
           n == Len(a) + 1
           d == IF n > HistoryLimit THEN n - HistoryLimit ELSE 0
<1>1. l \in Seq(AnchorSet) /\ Len(l) = n /\ Len(a) \in Nat
  OBVIOUS
<1>2. HistoryLimit \in Nat /\ HistoryLimit >= 2
  BY LimitsType
<1>3. d \in Nat /\ d + 1 \in Int /\ n \in Int /\ d + 1 <= n /\ n - d \in 1..HistoryLimit
  BY <1>1, <1>2
<1>4. b = SubSeq(l, d + 1, n)
  <2>1. CASE n > HistoryLimit
    BY <1>1, <2>1 DEF LastOf
  <2>2. CASE ~(n > HistoryLimit)
    BY <1>1, <2>2 DEF LastOf
  <2> QED
    BY <2>1, <2>2
<1>5. \A i \in (d + 1) .. n : l[i] \in AnchorSet
  BY <1>1, <1>3
<1> HIDE DEF d, n, l
<1>6. /\ b \in Seq(AnchorSet) /\ Len(b) = n - (d + 1) + 1
      /\ \A i \in 1 .. n - (d + 1) + 1 : b[i] = l[d + 1 + i - 1]
  BY <1>3, <1>4, <1>5, SubSeqProperties
<1>7. Len(b) = n - d /\ \A i \in 1 .. Len(b) : b[i] = l[i + d]
  <2>1. Len(b) = n - d
    BY <1>3, <1>6
  <2>2. ASSUME NEW i \in 1 .. Len(b) PROVE b[i] = l[i + d]
    <3>1. i \in 1 .. n - (d + 1) + 1 /\ d + 1 + i - 1 = i + d
      BY <1>3, <2>1
    <3> QED
      BY <1>6, <3>1
  <2> QED
    BY <2>1, <2>2
<1>8. Len(b) \in 1..HistoryLimit
  BY <1>3, <1>7
<1>9. CutBy(b, Append(a, x), d)
  BY <1>1, <1>7 DEF CutBy, l
<1> QED
  BY <1>3, <1>6, <1>8, <1>9

\* As long as the last checkpoint stays, a follow-up is one more since then.
LEMMA FollowupCounts ==
  ASSUME NEW a \in Seq(AnchorSet), NEW x \in AnchorSet, x.lane = "review-followup",
         NEW b, b = LastOf(Append(a, x)), Checkpoints(b) # {}
  PROVE  Checkpoints(a) # {} /\ SinceCheckpoint(b) = SinceCheckpoint(a) + 1
<1>0. PICK d \in Nat : CutBy(b, Append(a, x), d)
  BY CutIs
<1>1. /\ Len(b) = Len(a) + 1 - d
      /\ \A k \in 1 .. Len(b) : b[k] = Append(a, x)[k + d]
  BY <1>0 DEF CutBy
<1>2. b \in Seq(AnchorSet) /\ Len(b) \in Nat /\ Len(a) \in Nat
      /\ DOMAIN b = 1 .. Len(b) /\ DOMAIN a = 1 .. Len(a)
  <2>1. b \in Seq(AnchorSet)
    BY CutIs
  <2> QED
    BY <2>1
<1>3. /\ \A k \in 1 .. Len(a) : Append(a, x)[k] = a[k]
      /\ Append(a, x)[Len(a) + 1] = x
  OBVIOUS
<1>4. ASSUME NEW k \in Checkpoints(b) PROVE k + d \in Checkpoints(a)
  <2>1. k \in 1 .. Len(b) /\ b[k].lane \in FullLanes \union {"review-github"}
    BY <1>2 DEF Checkpoints
  <2>2. b[k] = Append(a, x)[k + d]
    BY <1>1, <2>1
  <2>3. k + d # Len(a) + 1
    BY <1>3, <2>1, <2>2 DEF FullLanes
  <2>4. k + d \in 1 .. Len(a)
    <3>1. k + d >= 1 /\ k + d <= Len(a) + 1 /\ k + d \in Nat
      BY <1>1, <1>2, <2>1
    <3> QED
      BY <1>2, <2>3, <3>1
  <2> QED
    BY <1>2, <1>3, <2>1, <2>2, <2>4 DEF Checkpoints
<1>5. ASSUME NEW k \in Checkpoints(a), k > d PROVE k - d \in Checkpoints(b)
  <2>1. k \in 1 .. Len(a) /\ a[k].lane \in FullLanes \union {"review-github"}
    BY <1>2 DEF Checkpoints
  <2>2. k - d \in 1 .. Len(b) /\ k - d + d = k
    BY <1>1, <1>2, <1>5, <2>1
  <2>3. b[k - d] = a[k]
    BY <1>1, <1>3, <2>1, <2>2
  <2> QED
    BY <1>2, <2>1, <2>2, <2>3 DEF Checkpoints
<1>6. Checkpoints(b) # {} /\ Checkpoints(a) # {}
  BY <1>4
<1> DEFINE i == Latest(Checkpoints(b))
           m == Latest(Checkpoints(a))
<1>7. /\ i \in Checkpoints(b) /\ \A j \in Checkpoints(b) : j <= i
      /\ m \in Checkpoints(a) /\ \A j \in Checkpoints(a) : j <= m
  BY <1>2, <1>6, SinceType
<1>8. i \in 1 .. Len(b) /\ m \in 1 .. Len(a)
  BY <1>2, <1>7 DEF Checkpoints
<1> HIDE DEF i, m
<1>9. i + d <= m
  BY <1>4, <1>7
<1>10. m - d <= i
  <2>1. m > d
    BY <1>8, <1>9
  <2> QED
    BY <1>5, <1>7, <2>1
<1>11. Len(b) - i = Len(a) - m + 1
  <2>1. m = i + d
    BY <1>2, <1>8, <1>9, <1>10
  <2> QED
    BY <1>1, <1>2, <1>8, <2>1
<1> QED
  BY <1>6, <1>11 DEF SinceCheckpoint, i, m

LEMMA RecordStep ==
  ASSUME IInv, NEW r \in Reviews, Record(r)
  PROVE  IInv'
<1> DEFINE x == AnchorOf(r)
           b == LastOf(Append(Anchors, x))
<1>1. VarsTyped /\ FilesGood /\ JobGood /\ FollowupsGood
  BY DEF IInv
<1>2. x \in AnchorSet /\ x.head = job[r].head /\ x.lane = job[r].lane
  <2>1. job[r] \in JobSet /\ (job[r].lane \in FullLanes => job[r].mb \in BaseCommits)
    BY <1>1 DEF JobGood, Record
  <2>2. MergeBase(head) \in BaseCommits
    BY <1>1, MergeBaseIs DEF VarsTyped
  <2> QED
    BY <2>1, <2>2 DEF AnchorOf, Anchor, AnchorSet, JobSet
<1>3. Anchors \in Seq(AnchorSet) /\ AllSeen(Anchors)
  BY <1>1, AnchorsGood
<1>4. /\ DOMAIN files' = DOMAIN files \union {Key} /\ files'[Key].anchors = b
      /\ \A k \in DOMAIN files \ {Key} : files'[k] = files[k]
  BY DEF Record, WithAnchor
<1>5. b \in Seq(AnchorSet) /\ Len(b) \in 1..HistoryLimit
  BY <1>2, <1>3, CutIs
<1>6. \A n \in DOMAIN b : b[n].head \in seen'
  <2>1. PICK d \in Nat : CutBy(b, Append(Anchors, x), d)
    BY <1>2, <1>3, CutIs
  <2>2. seen' = seen \union {x.head}
    BY <1>2 DEF Record
  <2>3. \A k \in 1 .. Len(Anchors) + 1 : Append(Anchors, x)[k].head \in seen'
    BY <1>3, <2>2 DEF AllSeen
  <2>4. DOMAIN b = 1 .. Len(b) /\ Len(Anchors) \in Nat /\ Len(b) \in Nat
        /\ Len(Append(Anchors, x)) = Len(Anchors) + 1
    BY <1>3, <1>5
  <2> HIDE DEF b, x
  <2>5. ASSUME NEW n \in DOMAIN b PROVE b[n].head \in seen'
    <3>1. n + d \in 1 .. Len(Anchors) + 1 /\ b[n] = Append(Anchors, x)[n + d]
      BY <2>1, <2>4 DEF CutBy
    <3> QED
      BY <2>3, <3>1
  <2> QED
    BY <2>5
<1> HIDE DEF b, x
<1>7. VarsTyped'
  <2>1. advised' \in Nat
    BY <1>1 DEF VarsTyped, Record
  <2> QED
    BY <1>1, <2>1 DEF VarsTyped, Record, git
<1>8. FilesGood'
  <2>1. Key = Branch \/ Key = DetachedAt(head)
    BY DEF Key
  <2>2. head \in Commits
    BY <1>1 DEF VarsTyped
  <2>3. seen \subseteq seen'
    BY DEF Record
  <2>4. ASSUME NEW k \in DOMAIN files'
        PROVE  /\ k = Branch \/ \E c \in Commits : k = DetachedAt(c)
               /\ files'[k].anchors \in Seq(AnchorSet)
               /\ Len(files'[k].anchors) \in 1..HistoryLimit
               /\ \A n \in DOMAIN files'[k].anchors : files'[k].anchors[n].head \in seen'
    <3>1. CASE k = Key
      BY <1>4, <1>5, <1>6, <2>1, <2>2, <3>1
    <3>2. CASE k # Key
      <4>1. k \in DOMAIN files /\ files'[k] = files[k]
        BY <1>4, <3>2
      <4> QED
        BY <1>1, <2>3, <4>1 DEF FilesGood, AllSeen
    <3> QED
      BY <3>1, <3>2
  <2> QED
    BY <2>4 DEF FilesGood, AllSeen
<1>9. JobGood'
  BY <1>1 DEF JobGood, Record
<1>10. FollowupsGood'
  <2>1. SUFFICES ASSUME Cardinality(Reviews) = 1, DOMAIN files' = {Branch},
                        Checkpoints(files'[Branch].anchors) # {}
                 PROVE  /\ advised' <= FollowupCycleLimit + 1
                        /\ \A s \in Reviews :
                             advised' <= SinceCheckpoint(files'[Branch].anchors)
                                           + (IF job'[s].asked THEN 1 ELSE 0)
    BY DEF FollowupsGood
  <2>2. Key = Branch /\ files'[Branch].anchors = b /\ DOMAIN files \subseteq {Branch}
    BY <1>4, <2>1
  <2>3. \A s \in Reviews : job'[s].asked = FALSE
    BY <1>1, <2>1, OnlyReview DEF Record, JobGood, Idle, Review
  <2>4. SinceCheckpoint(b) \in Nat /\ FollowupCycleLimit \in Nat
    BY <1>5, <2>1, <2>2, SinceType, LimitsType
  <2>5. advised' <= FollowupCycleLimit + 1 /\ advised' <= SinceCheckpoint(b)
    <3>1. CASE x.lane = "review-followup"
      <4>1. Checkpoints(Anchors) # {} /\ SinceCheckpoint(b) = SinceCheckpoint(Anchors) + 1
        BY <1>2, <1>3, <2>1, <2>2, <3>1, FollowupCounts DEF b
      <4>2. Anchors # <<>>
        BY <4>1 DEF Checkpoints
      <4>3. DOMAIN files = {Branch} /\ Anchors = files[Branch].anchors
        BY <1>1, <2>2, <4>2, AnchorsGood
      <4>4. /\ advised <= FollowupCycleLimit + 1
            /\ advised <= SinceCheckpoint(Anchors) + (IF job[r].asked THEN 1 ELSE 0)
        BY <1>1, <2>1, <4>1, <4>3 DEF FollowupsGood
      <4>5. SinceCheckpoint(Anchors) \in Nat /\ advised \in Nat
        BY <1>1, <1>3, <4>1, SinceType DEF VarsTyped
      <4>6. advised' = advised
        BY <1>2, <3>1 DEF Record
      <4>7. advised <= SinceCheckpoint(Anchors) + 1
        <5>1. CASE job[r].asked
          BY <4>4, <5>1
        <5>2. CASE ~ job[r].asked
          BY <4>4, <4>5, <5>2
        <5> QED
          BY <5>1, <5>2
      <4> QED
        BY <4>1, <4>4, <4>6, <4>7
    <3>2. CASE x.lane # "review-followup"
      <4>1. advised' = 0
        BY <1>2, <3>2 DEF Record
      <4> QED
        BY <2>4, <4>1
    <3> QED
      BY <3>1, <3>2
  <2> QED
    BY <2>2, <2>3, <2>4, <2>5
<1> QED
  BY <1>7, <1>8, <1>9, <1>10 DEF IInv

-----------------------------------------------------------------------------
(* Theorems                                                                 *)

LEMMA InitGood == Init => IInv
<1> SUFFICES ASSUME Init PROVE IInv
  OBVIOUS
<1>1. 0 \in BaseCommits /\ 0 <= 0
  BY BaseType DEF BaseCommits
<1>2. BaseCommit(0) \in Commits /\ MergeBase(BaseCommit(0)) = 0
  BY <1>1, BaseCommitIs
<1>3. VarsTyped
  <2>1. head = BaseCommit(0) /\ tip = 0 /\ dirty = {} /\ detached = FALSE
        /\ moves = 0 /\ started = 0 /\ advised = 0
    BY DEF Init
  <2>2. head \in Commits /\ MergeBase(head) <= tip
    BY <1>1, <1>2, <2>1
  <2>3. 0 \in 0..MaxMoves /\ 0 \in 0..MaxReviews
    BY LimitsType
  <2>4. dirty \subseteq Paths /\ detached \in BOOLEAN /\ advised \in Nat
    BY <2>1
  <2> QED
    BY <1>1, <2>1, <2>2, <2>3, <2>4 DEF VarsTyped
<1>4. DOMAIN files = {}
  BY DEF Init
<1>5. FilesGood /\ FollowupsGood
  BY <1>4 DEF FilesGood, FollowupsGood
<1>6. JobGood
  BY DEF Init, JobGood
<1> QED
  BY <1>3, <1>5, <1>6 DEF IInv

LEMMA NextGood == IInv /\ [Next]_vars => IInv'
<1> SUFFICES ASSUME IInv, [Next]_vars PROVE IInv'
  OBVIOUS
<1>1. CASE Next
  BY <1>1, StartStep, RecordStep, AbandonStep, CheckoutStep DEF Next
<1>2. CASE UNCHANGED vars
  <2>1. UNCHANGED <<files, job, seen, advised>> /\ VarsTyped'
    BY <1>2 DEF IInv, VarsTyped, vars
  <2> QED
    BY <2>1, CheckoutKeeps DEF IInv
<1> QED
  BY <1>1, <1>2

\* Every recorded anchor is a reviewed commit and every follow-up that was asked for is
\* counted: the invariant, of every behaviour.
THEOREM AnchorsInvariant == Spec => []IInv
  BY InitGood, NextGood, PTL DEF Spec

\* The variables keep their types, and no history grows beyond the limit.
THEOREM AnchorsTypeOK == Spec => []TypeOK
<1>1. IInv => TypeOK
  <2> SUFFICES ASSUME IInv PROVE TypeOK
    OBVIOUS
  <2>1. VarsTyped /\ FilesGood /\ JobGood
    BY DEF IInv
  <2>2. IsCommit(head)
    BY <2>1 DEF VarsTyped, Commits, IsCommit
  <2>3. ASSUME NEW k \in DOMAIN files, NEW n \in DOMAIN files[k].anchors
        PROVE  /\ files[k].anchors[n].lane \in Lanes
               /\ files[k].anchors[n].mb \in BaseCommits
    <3>1. files[k].anchors[n] \in AnchorSet
      BY <2>1 DEF FilesGood
    <3> QED
      BY <3>1 DEF AnchorSet
  <2>4. \A r \in Reviews : job[r] = Idle \/ job[r].lane \in Lanes
    BY <2>1 DEF JobGood, JobSet
  <2> QED
    BY <2>1, <2>2, <2>3, <2>4 DEF TypeOK, VarsTyped, FilesGood
<1> QED
  BY <1>1, AnchorsInvariant, PTL

\* inspect_workflow_status: that no further review is needed is said only of a HEAD that
\* a reviewer was shown, or whose changes to the base a reviewer was shown, however HEAD,
\* the base branch and the histories moved while reviews were under way.
THEOREM AnchorsNoneMeansReviewed == Spec => []NoneMeansReviewed
<1>1. IInv => NoneMeansReviewed
  BY NoneReviewed DEF IInv
<1> QED
  BY <1>1, AnchorsInvariant, PTL

\* followup_cycle_pressure: the status asks for one follow-up more than the limit at most
\* before it asks for a checkpoint, for every length of the history and every limit.
THEOREM AnchorsFollowupsBounded == Spec => []FollowupsBounded
<1>1. IInv => FollowupsBounded
  <2> SUFFICES ASSUME IInv PROVE FollowupsBounded
    OBVIOUS
  <2>1. VarsTyped /\ FilesGood /\ FollowupsGood
    BY DEF IInv
  <2>2. SUFFICES ASSUME Cardinality(Reviews) = 1, DOMAIN files = {Branch},
                        InLanes(Lanes \ {"review-followup"}) # {}
                 PROVE  advised <= FollowupCycleLimit + 1
    BY DEF FollowupsBounded
  <2>3. InLanes(Lanes \ {"review-followup"}) = Checkpoints(Anchors)
    BY DEF InLanes, Checkpoints, Lanes, FullLanes
  <2>4. Anchors # <<>>
    BY <2>2 DEF InLanes
  <2>5. Anchors = files[Branch].anchors
    BY <2>1, <2>2, <2>4, AnchorsGood
  <2> QED
    BY <2>1, <2>2, <2>3, <2>5 DEF FollowupsGood
<1> QED
  BY <1>1, AnchorsInvariant, PTL

=============================================================================
