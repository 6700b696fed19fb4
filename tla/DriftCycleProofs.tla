--------------------------- MODULE DriftCycleProofs ---------------------------
(***************************************************************************)
(* Proofs about DriftCycle, for every set of files, every base branch and   *)
(* every number of edits, merges and rebases.                               *)
(*                                                                         *)
(* First git: what a commit changes against its merge base, when two        *)
(* commits change the same, and that the branch never comes back to what it *)
(* was (Past).  Then the document: Good is its shape, kept by each operator *)
(* of the ladder; Matches ties the heads it names to the commit the newest  *)
(* round was launched on, up to a rewriting that keeps the changes.         *)
(***************************************************************************)
EXTENDS DriftCycle, TLAPS, WellFoundedInduction, FiniteSetTheorems,
        SequenceTheorems

\* Histories of any length.
Histories == [fork : BaseCommits, line : Seq(Step)]

-----------------------------------------------------------------------------
(* Choices among numbers                                                    *)


\* A set of naturals that is not empty has a least element: the nearest anchor.
LEMMA LeastOf ==
  ASSUME NEW T, T \subseteq Nat, T # {}
  PROVE  \E x \in T : \A y \in T : x <= y
<1>1. IsWellFoundedOn(OpToRel(<, Nat), Nat)
  BY NatLessThanWellFounded
<1>2. PICK x \in T : \A y \in T : ~ (<<y, x>> \in OpToRel(<, Nat))
  BY <1>1, WFMin
<1>3. ASSUME NEW y \in T PROVE x <= y
  <2>1. ~ (<<y, x>> \in {ss \in Nat \X Nat : ss[1] < ss[2]})
    BY <1>2 DEF OpToRel
  <2>2. <<y, x>> \in Nat \X Nat
    OBVIOUS
  <2> QED
    BY <2>1, <2>2
<1> QED
  BY <1>3

\* A bounded set of naturals that is not empty has a greatest one: MergeBase, Latest.
LEMMA GreatestOf ==
  ASSUME NEW T, NEW n \in Nat, T \subseteq 0 .. n, T # {}
  PROVE  \E x \in T : \A y \in T : y <= x
<1> DEFINE D == {n - x : x \in T}
<1>1. \A x \in T : n - x \in Nat
  OBVIOUS
<1>2. PICK d \in D : \A y \in D : d <= y
  BY <1>1, LeastOf
<1>3. PICK x \in T : d = n - x
  OBVIOUS
<1>4. \A y \in T : n - x <= n - y
  BY <1>2, <1>3
<1> QED
  BY <1>4

-----------------------------------------------------------------------------
(* Merge bases: the lemmas of WorkflowAnchorsProofs, for this module's commits *)


LEMMA BaseType == MaxBase \in Nat /\ BaseCommits \subseteq Nat
  BY GitAssumption DEF BaseCommits

LEMMA StepFields ==
  ASSUME NEW s \in Step
  PROVE  s.edit \in BOOLEAN /\ s.base \in BaseCommits
<1>1. CASE \E p \in Paths : s = EditOf(p)
  BY <1>1, BaseType DEF EditOf, BaseCommits
<1>2. CASE \E b \in BaseCommits : s = MergeOf(b)
  <2>1. PICK b \in BaseCommits : s = MergeOf(b)
    BY <1>2
  <2>2. s.edit = FALSE /\ s.base = b
    BY <2>1 DEF MergeOf
  <2> QED
    BY <2>2
<1> QED
  BY <1>1, <1>2 DEF Step

\* git merge-base: a base commit, and the newest that the commit holds.
LEMMA MergeBaseIs ==
  ASSUME NEW h \in Histories
  PROVE  /\ MergeBase(h) \in Merged(h) \union {h.fork}
         /\ MergeBase(h) \in BaseCommits /\ Merged(h) \union {h.fork} \subseteq BaseCommits
         /\ \A d \in Merged(h) \union {h.fork} : d <= MergeBase(h)
<1>1. Merged(h) \union {h.fork} \subseteq 0 .. MaxBase
  <2>1. \A j \in DOMAIN h.line : h.line[j] \in Step
    BY DEF Histories
  <2>2. \A j \in DOMAIN h.line : h.line[j].base \in BaseCommits
    BY <2>1, StepFields
  <2> QED
    BY <2>2 DEF Histories, Merged, BaseCommits
<1>2. \E b \in Merged(h) \union {h.fork} : \A d \in Merged(h) \union {h.fork} : d <= b
  BY <1>1, GreatestOf, BaseType
<1> QED
  BY <1>1, <1>2 DEF MergeBase, BaseCommits

\* The merge base is the only base commit like that.
LEMMA MergeBaseUnique ==
  ASSUME NEW h \in Histories, NEW b \in Merged(h) \union {h.fork},
         \A d \in Merged(h) \union {h.fork} : d <= b
  PROVE  MergeBase(h) = b
<1>1. MergeBase(h) <= b /\ b <= MergeBase(h)
  BY MergeBaseIs
<1>2. MergeBase(h) \in Nat /\ b \in Nat
  BY MergeBaseIs, BaseType
<1> QED
  BY <1>1, <1>2

LEMMA BaseCommitIs ==
  ASSUME NEW b \in BaseCommits
  PROVE  BaseCommit(b) \in Histories /\ MergeBase(BaseCommit(b)) = b
<1>1. BaseCommit(b) \in Histories
  BY DEF BaseCommit, Histories
<1>2. Merged(BaseCommit(b)) \union {BaseCommit(b).fork} = {b}
  BY DEF BaseCommit, Merged
<1>3. b <= b
  BY BaseType
<1> QED
  BY <1>1, <1>2, <1>3, MergeBaseUnique

\* A commit on the branch keeps the merge base.
LEMMA CommitIs ==
  ASSUME NEW h \in Histories, NEW p \in Paths
  PROVE  Commit(h, p) \in Histories /\ MergeBase(Commit(h, p)) = MergeBase(h)
<1> DEFINE e == Commit(h, p)
<1>1. EditOf(p) \in Step /\ EditOf(p).edit
  BY DEF Step, EditOf
<1>2. e \in Histories /\ e.fork = h.fork /\ e.line = Append(h.line, EditOf(p))
  BY <1>1 DEF Histories, Commit
<1>3. Merged(e) = Merged(h)
  <2>1. /\ DOMAIN e.line = 1 .. (Len(h.line) + 1) /\ DOMAIN h.line = 1 .. Len(h.line)
        /\ Len(h.line) \in Nat
        /\ \A k \in DOMAIN h.line : e.line[k] = h.line[k]
        /\ e.line[Len(h.line) + 1] = EditOf(p)
    BY <1>1, <1>2 DEF Histories
  <2>2. {j \in DOMAIN e.line : ~ e.line[j].edit} = {j \in DOMAIN h.line : ~ h.line[j].edit}
    BY <2>1, <1>1
  <2> QED
    BY <2>1, <2>2 DEF Merged
<1> QED
  BY <1>2, <1>3, MergeBaseIs, MergeBaseUnique

\* A merge of a newer base commit makes that one the merge base.
LEMMA MergeIs ==
  ASSUME NEW h \in Histories, NEW b \in BaseCommits, b > MergeBase(h)
  PROVE  Merge(h, b) \in Histories /\ MergeBase(Merge(h, b)) = b
<1> DEFINE e == Merge(h, b)
<1>1. MergeOf(b) \in Step /\ ~ MergeOf(b).edit /\ MergeOf(b).base = b
  BY DEF Step, MergeOf
<1>2. e \in Histories /\ e.fork = h.fork /\ e.line = Append(h.line, MergeOf(b))
  BY <1>1 DEF Histories, Merge
<1>3. Merged(e) = Merged(h) \union {b}
  <2>1. /\ DOMAIN e.line = 1 .. (Len(h.line) + 1) /\ DOMAIN h.line = 1 .. Len(h.line)
        /\ Len(h.line) \in Nat
        /\ \A k \in DOMAIN h.line : e.line[k] = h.line[k]
        /\ e.line[Len(h.line) + 1] = MergeOf(b)
    BY <1>1, <1>2 DEF Histories
  <2>2. {j \in DOMAIN e.line : ~ e.line[j].edit}
          = {j \in DOMAIN h.line : ~ h.line[j].edit} \union {Len(h.line) + 1}
    BY <2>1, <1>1
  <2> QED
    BY <2>1, <2>2, <1>1 DEF Merged
<1>4. \A d \in Merged(e) \union {e.fork} : d <= b
  <2>1. ASSUME NEW d \in Merged(h) \union {h.fork} PROVE d <= b
    <3>1. d \in Nat /\ MergeBase(h) \in Nat /\ b \in Nat
      BY MergeBaseIs, BaseType
    <3>2. d <= MergeBase(h)
      BY MergeBaseIs
    <3> QED
      BY <3>1, <3>2
  <2>2. b <= b
    BY BaseType
  <2> QED
    BY <1>2, <1>3, <2>1, <2>2
<1> QED
  BY <1>2, <1>3, <1>4, MergeBaseUnique

\* The parent of a commit has its merge base or an older one.
LEMMA FirstParentIs ==
  ASSUME NEW h \in Histories, h.line # <<>>
  PROVE  FirstParent(h) \in Histories /\ MergeBase(FirstParent(h)) <= MergeBase(h)
<1> DEFINE e == FirstParent(h)
           n == Len(h.line)
<1>1. h.line \in Seq(Step) /\ n \in Nat /\ n > 0 /\ DOMAIN h.line = 1 .. n
  BY DEF Histories
<1>2. /\ Front(h.line) \in Seq(Step) /\ DOMAIN Front(h.line) = 1 .. (n - 1)
      /\ \A k \in 1 .. (n - 1) : Front(h.line)[k] = h.line[k]
  <2>1. Front(h.line) = SubSeq(h.line, 1, n - 1)
    BY DEF Front
  <2> QED
    BY <1>1, <2>1, SubSeqProperties
<1>3. e \in Histories /\ e.fork = h.fork /\ e.line = Front(h.line)
  BY <1>2 DEF Histories, FirstParent
<1>4. Merged(e) \subseteq Merged(h)
  BY <1>1, <1>2, <1>3 DEF Merged
<1> QED
  BY <1>3, <1>4, MergeBaseIs

-----------------------------------------------------------------------------
(* Patches                                                                  *)


\* A base commit changes nothing of its own.
LEMMA NoEdits ==
  ASSUME NEW b, NEW p
  PROVE  Cardinality(EditsOf(BaseCommit(b), p)) = 0
<1>1. EditsOf(BaseCommit(b), p) = {}
  BY DEF EditsOf, BaseCommit
<1> QED
  BY <1>1, FS_EmptySet

LEMMA BaseBlob ==
  ASSUME NEW b \in BaseCommits, NEW p
  PROVE  Blob(BaseCommit(b), p) = <<0, BaseVersion(b, p)>>
  BY NoEdits, BaseCommitIs DEF Blob

\* A patch is what it says of every file.
LEMMA PatchAt ==
  ASSUME NEW x, NEW y, NEW u, NEW v, Patch(x, y) = Patch(u, v), NEW p \in Paths
  PROVE  /\ (Blob(x, p) # Blob(y, p)) <=> (Blob(u, p) # Blob(v, p))
         /\ Blob(x, p) # Blob(y, p) => Blob(x, p) = Blob(u, p) /\ Blob(y, p) = Blob(v, p)
<1>1. \A a, b : <<p, a, b>> \in Patch(x, y)
                   <=> Blob(x, p) # Blob(y, p) /\ a = Blob(x, p) /\ b = Blob(y, p)
  BY DEF Patch, DiffPaths
<1>2. \A a, b : <<p, a, b>> \in Patch(u, v)
                   <=> Blob(u, p) # Blob(v, p) /\ a = Blob(u, p) /\ b = Blob(v, p)
  BY DEF Patch, DiffPaths
<1> QED
  BY <1>1, <1>2

-----------------------------------------------------------------------------
(* Rebases                                                                  *)


\* The recursive function of OnlyEdits exists: the least length without one would be
\* one more than a length with one.
LEMMA UptoExists ==
  ASSUME NEW line, NEW n \in Nat
  PROVE  \E g : g = [k \in 0 .. n |->
                       IF k = 0 THEN <<>>
                       ELSE IF line[k].edit THEN Append(g[k - 1], line[k]) ELSE g[k - 1]]
<1> DEFINE Upto(g, m) ==
             g = [k \in 0 .. m |->
                    IF k = 0 THEN <<>>
                    ELSE IF line[k].edit THEN Append(g[k - 1], line[k]) ELSE g[k - 1]]
           Bad == {m \in Nat : ~ \E g : Upto(g, m)}
<1>1. SUFFICES Bad = {}
  OBVIOUS
<1>2. SUFFICES ASSUME Bad # {} PROVE FALSE
  OBVIOUS
<1>3. PICK m \in Bad : \A l \in Bad : m <= l
  BY <1>2, LeastOf
<1>4. m # 0
  <2>1. Upto([k \in 0 .. 0 |-> <<>>], 0)
    OBVIOUS
  <2> QED
    BY <1>3, <2>1
<1>5. m \in Nat /\ m - 1 \in Nat /\ m - 1 \notin Bad
  <2> HIDE DEF Upto
  <2>1. m \in Nat /\ m - 1 \in Nat
    BY <1>4
  <2>2. ~(m <= m - 1)
    BY <2>1
  <2> QED
    BY <1>3, <2>1, <2>2
<1>6. PICK g : Upto(g, m - 1)
  BY <1>5
<1> DEFINE last == IF line[m].edit THEN Append(g[m - 1], line[m]) ELSE g[m - 1]
           h == [k \in 0 .. m |-> IF k = m THEN last ELSE g[k]]
<1>7. ASSUME NEW k \in 0 .. m
      PROVE  h[k] = IF k = 0 THEN <<>>
                    ELSE IF line[k].edit THEN Append(h[k - 1], line[k]) ELSE h[k - 1]
  <2>1. CASE k = 0
    BY <1>4, <1>5, <1>6, <2>1
  <2>2. CASE k = m
    <3>1. h[k] = last /\ h[k - 1] = g[m - 1]
      BY <1>4, <1>5, <2>2
    <3> QED
      BY <1>4, <2>2, <3>1
  <2>3. CASE k # 0 /\ k # m
    <3>1. k \in 0 .. (m - 1) /\ k - 1 \in 0 .. m /\ k - 1 # m
      BY <1>5, <2>3
    <3>2. h[k] = g[k] /\ h[k - 1] = g[k - 1]
      BY <2>3, <3>1
    <3>3. g[k] = IF line[k].edit THEN Append(g[k - 1], line[k]) ELSE g[k - 1]
      BY <1>6, <2>3, <3>1
    <3> QED
      BY <2>3, <3>2, <3>3
  <2> QED
    BY <2>1, <2>2, <2>3
<1>8. Upto(h, m)
  BY <1>7
<1> QED
  BY <1>3, <1>8

\* A rebase keeps edits only, no more than there were, and some if there were some.
LEMMA OnlyEditsIs ==
  ASSUME NEW line \in Seq(Step)
  PROVE  /\ OnlyEdits(line) \in Seq({s \in Step : s.edit})
         /\ Len(OnlyEdits(line)) <= Len(line)
         /\ (\E k \in 1 .. Len(line) : line[k].edit) => OnlyEdits(line) # <<>>
<1> DEFINE Upto(g) ==
             g = [k \in 0 .. Len(line) |->
                    IF k = 0 THEN <<>>
                    ELSE IF line[k].edit THEN Append(g[k - 1], line[k]) ELSE g[k - 1]]
           upto == CHOOSE g : Upto(g)
           E == {s \in Step : s.edit}
           Fits(k) == /\ upto[k] \in Seq(E) /\ Len(upto[k]) <= k
                      /\ (\E j \in 1 .. k : line[j].edit) => upto[k] # <<>>
<1>1. OnlyEdits(line) = upto[Len(line)]
  BY DEF OnlyEdits
<1>2. Len(line) \in Nat /\ \A k \in 1 .. Len(line) : line[k] \in Step
  OBVIOUS
<1>3. Upto(upto)
  BY <1>2, UptoExists
<1> HIDE DEF upto
<1> DEFINE Bad == {k \in 0 .. Len(line) : ~Fits(k)}
<1>4. Bad = {}
  <2>1. SUFFICES ASSUME Bad # {} PROVE FALSE
    OBVIOUS
  <2>2. PICK k \in Bad : \A j \in Bad : k <= j
    <3>1. Bad \subseteq Nat
      BY <1>2
    <3> HIDE DEF Bad
    <3> QED
      BY <2>1, <3>1, LeastOf
  <2>3. k # 0
    <3>1. SUFFICES ASSUME k = 0 PROVE Fits(0)
      BY <2>2
    <3>2. upto[0] = <<>>
      BY <1>2, <1>3
    <3> QED
      BY <3>2
  <2>4. k - 1 \in 0 .. Len(line) /\ k \in 1 .. Len(line) /\ Fits(k - 1) /\ line[k] \in Step
    <3>1. k \in 1 .. Len(line) /\ k - 1 \in 0 .. Len(line) /\ ~(k <= k - 1)
      BY <1>2, <2>2, <2>3
    <3>2. k - 1 \notin Bad
      BY <2>2, <3>1
    <3> HIDE DEF Fits
    <3> QED
      BY <1>2, <3>1, <3>2
  <2>5. upto[k] = IF line[k].edit THEN Append(upto[k - 1], line[k]) ELSE upto[k - 1]
    BY <1>3, <2>2, <2>3
  <2> DEFINE l == upto[k - 1]
             m == upto[k]
  <2>6. /\ l \in Seq(E) /\ Len(l) \in Nat /\ Len(l) <= k - 1 /\ k \in Nat
        /\ (\E j \in 1 .. (k - 1) : line[j].edit) => l # <<>>
    BY <1>2, <2>4
  <2>7. m = IF line[k].edit THEN Append(l, line[k]) ELSE l
    BY <2>5
  <2>8. m \in Seq(E) /\ Len(m) <= k /\ ((\E j \in 1 .. k : line[j].edit) => m # <<>>)
    <3> HIDE DEF l, m
    <3>1. CASE line[k].edit
      <4>1. line[k] \in E /\ m = Append(l, line[k])
        BY <2>4, <2>7, <3>1
      <4>2. m \in Seq(E) /\ Len(m) = Len(l) + 1
        BY <2>6, <4>1
      <4>3. m # <<>> /\ Len(m) <= k
        BY <2>6, <4>2
      <4> QED
        BY <4>2, <4>3
    <3>2. CASE ~ line[k].edit
      <4>1. m = l
        BY <2>7, <3>2
      <4>2. \A j \in 1 .. k : line[j].edit => j \in 1 .. (k - 1)
        BY <2>6, <3>2
      <4> QED
        BY <2>6, <4>1, <4>2
    <3> QED
      BY <3>1, <3>2
  <2> QED
    BY <2>2, <2>8
<1>5. Fits(Len(line))
  <2>1. Len(line) \in 0 .. Len(line)
    BY <1>2
  <2> HIDE DEF Fits
  <2> QED
    BY <1>4, <2>1
<1> QED
  BY <1>1, <1>5

\* A rebased branch starts at the new base.
LEMMA RebaseIs ==
  ASSUME NEW h \in Histories, NEW b \in BaseCommits
  PROVE  /\ Rebase(h, b) \in Histories /\ MergeBase(Rebase(h, b)) = b
         /\ Rebase(h, b).line = OnlyEdits(h.line) /\ Rebase(h, b).fork = b
<1> DEFINE e == Rebase(h, b)
           l == OnlyEdits(h.line)
<1>1. l \in Seq({s \in Step : s.edit})
  BY OnlyEditsIs DEF Histories
<1> HIDE DEF l
<1>2. l \in Seq(Step) /\ \A j \in DOMAIN l : l[j].edit
  BY <1>1
<1>3. e \in Histories /\ e.fork = b /\ e.line = l
  BY <1>2 DEF Histories, Rebase, l
<1>4. Merged(e) = {}
  BY <1>2, <1>3 DEF Merged
<1>5. b <= b
  BY BaseType
<1> QED
  BY <1>3, <1>4, <1>5, MergeBaseUnique DEF l

-----------------------------------------------------------------------------
(* What a commit changes                                                    *)

EditCount(h, p) == Cardinality(EditsOf(h, p))

HasEdit(h) == \E k \in DOMAIN h.line : h.line[k].edit

LEMMA EditCountType ==
  ASSUME NEW h \in Histories, NEW p
  PROVE  /\ IsFiniteSet(EditsOf(h, p)) /\ EditCount(h, p) \in Nat
         /\ EditsOf(h, p) # {} => EditCount(h, p) > 0
<1>1. Len(h.line) \in Nat /\ DOMAIN h.line = 1 .. Len(h.line)
  BY DEF Histories
<1>2. IsFiniteSet(1 .. Len(h.line))
  BY <1>1, FS_Interval
<1>3. EditsOf(h, p) \subseteq 1 .. Len(h.line)
  BY <1>1 DEF EditsOf
<1>4. IsFiniteSet(EditsOf(h, p))
  BY <1>2, <1>3, FS_Subset
<1>5. Cardinality(EditsOf(h, p)) \in Nat
  BY <1>4, FS_CardinalityType
<1>6. Cardinality(EditsOf(h, p)) = 0 <=> EditsOf(h, p) = {}
  BY <1>4, FS_EmptySet
<1> QED
  BY <1>4, <1>5, <1>6 DEF EditCount

\* A commit is one edit more, of one file.
LEMMA CommitEdits ==
  ASSUME NEW h \in Histories, NEW p \in Paths, NEW q
  PROVE  EditCount(Commit(h, p), q) = IF q = p THEN EditCount(h, q) + 1 ELSE EditCount(h, q)
<1> DEFINE e == Commit(h, p)
           n == Len(h.line) + 1
<1>1. EditOf(p).edit /\ EditOf(p).path = p
  BY DEF EditOf
<1>2. e.line = Append(h.line, EditOf(p))
  BY DEF Commit, Histories
<1>3. /\ DOMAIN e.line = 1 .. n /\ DOMAIN h.line = 1 .. (n - 1) /\ n - 1 \in Nat /\ n \in Nat
      /\ \A k \in 1 .. (n - 1) : e.line[k] = h.line[k]
      /\ e.line[n] = EditOf(p)
  BY <1>2 DEF Histories
<1> HIDE DEF e, n
<1>4. EditsOf(e, q) = IF q = p THEN EditsOf(h, q) \union {n} ELSE EditsOf(h, q)
  <2>1. n \in 1 .. n /\ n \notin 1 .. (n - 1) /\ 1 .. n = (1 .. (n - 1)) \union {n}
    BY <1>3
  <2> QED
    BY <1>1, <1>3, <2>1 DEF EditsOf
<1>5. n \notin EditsOf(h, q)
  BY <1>3 DEF EditsOf
<1>6. Cardinality(EditsOf(h, q) \union {n}) = Cardinality(EditsOf(h, q)) + 1
  <2>1. IsFiniteSet(EditsOf(h, q))
    BY EditCountType
  <2> QED
    BY <1>5, <2>1, FS_AddElement
<1> QED
  BY <1>4, <1>6 DEF EditCount, e

\* The same edits of every file, to the same version of what is edited.
SameChanges(x, y) ==
    \A p \in Paths :
        /\ EditCount(x, p) = EditCount(y, p)
        /\ EditCount(x, p) > 0
             => BaseVersion(MergeBase(x), p) = BaseVersion(MergeBase(y), p)

\* The blobs of a commit and of a base commit, seen as pairs.
LEMMA Blobs ==
  ASSUME NEW h \in Histories, NEW m \in BaseCommits, NEW p
  PROVE  /\ Blob(h, p) = <<EditCount(h, p), BaseVersion(MergeBase(h), p)>>
         /\ Blob(BaseCommit(m), p) = <<0, BaseVersion(m, p)>>
         /\ EditCount(h, p) \in Nat
         /\ MergeBase(h) \in BaseCommits
         /\ Blob(BaseCommit(MergeBase(h)), p) = <<0, BaseVersion(MergeBase(h), p)>>
         /\ Blob(BaseCommit(MergeBase(h)), p) # Blob(h, p) <=> EditCount(h, p) > 0
<1>1. /\ Blob(h, p) = <<EditCount(h, p), BaseVersion(MergeBase(h), p)>>
      /\ EditCount(h, p) \in Nat /\ MergeBase(h) \in BaseCommits
  BY EditCountType, MergeBaseIs DEF Blob, EditCount
<1>2. /\ Blob(BaseCommit(m), p) = <<0, BaseVersion(m, p)>>
      /\ Blob(BaseCommit(MergeBase(h)), p) = <<0, BaseVersion(MergeBase(h), p)>>
  BY <1>1, BaseBlob
<1> QED
  BY <1>1, <1>2

\* merge_base_drift_scope: two commits that make the same changes, each seen from some
\* base commit, make the same changes to their own merge bases.
LEMMA SeenFrom ==
  ASSUME NEW x \in Histories, NEW y \in Histories, NEW m \in BaseCommits, NEW n \in BaseCommits,
         Patch(BaseCommit(m), x) = Patch(BaseCommit(n), y)
  PROVE  SameChanges(x, y)
<1> SUFFICES ASSUME NEW p \in Paths
             PROVE  /\ EditCount(x, p) = EditCount(y, p)
                    /\ EditCount(x, p) > 0
                         => BaseVersion(MergeBase(x), p) = BaseVersion(MergeBase(y), p)
  BY DEF SameChanges
<1>1. /\ Blob(x, p) = <<EditCount(x, p), BaseVersion(MergeBase(x), p)>>
      /\ Blob(y, p) = <<EditCount(y, p), BaseVersion(MergeBase(y), p)>>
      /\ Blob(BaseCommit(m), p) = <<0, BaseVersion(m, p)>>
      /\ Blob(BaseCommit(n), p) = <<0, BaseVersion(n, p)>>
  BY Blobs
<1>2. /\ (Blob(BaseCommit(m), p) # Blob(x, p)) <=> (Blob(BaseCommit(n), p) # Blob(y, p))
      /\ Blob(BaseCommit(m), p) # Blob(x, p)
           => Blob(BaseCommit(m), p) = Blob(BaseCommit(n), p) /\ Blob(x, p) = Blob(y, p)
  BY PatchAt
<1>3. EditCount(x, p) \in Nat /\ EditCount(y, p) \in Nat
  BY EditCountType
<1> QED
  BY <1>1, <1>2, <1>3

\* Changes says no more and no less.
LEMMA ChangesSame ==
  ASSUME NEW x \in Histories, NEW y \in Histories
  PROVE  Changes(x) = Changes(y) <=> SameChanges(x, y)
<1> DEFINE b == MergeBase(x)
           n == MergeBase(y)
<1>1. b \in BaseCommits /\ n \in BaseCommits
  BY MergeBaseIs
<1>2. ASSUME Changes(x) = Changes(y) PROVE SameChanges(x, y)
  BY <1>1, <1>2, SeenFrom DEF Changes
<1>3. ASSUME SameChanges(x, y) PROVE Changes(x) = Changes(y)
  <2>1. ASSUME NEW p \in Paths
        PROVE  /\ (Blob(BaseCommit(b), p) # Blob(x, p)) <=> (Blob(BaseCommit(n), p) # Blob(y, p))
               /\ Blob(BaseCommit(b), p) # Blob(x, p)
                    => /\ Blob(BaseCommit(b), p) = Blob(BaseCommit(n), p)
                       /\ Blob(x, p) = Blob(y, p)
    <3>1. /\ EditCount(x, p) = EditCount(y, p)
          /\ EditCount(x, p) > 0 => BaseVersion(b, p) = BaseVersion(n, p)
      BY <1>3 DEF SameChanges
    <3>2. /\ Blob(x, p) = <<EditCount(x, p), BaseVersion(b, p)>>
          /\ Blob(BaseCommit(b), p) = <<0, BaseVersion(b, p)>>
          /\ (Blob(BaseCommit(b), p) # Blob(x, p) <=> EditCount(x, p) > 0)
      BY <1>1, Blobs
    <3>3. /\ Blob(y, p) = <<EditCount(y, p), BaseVersion(n, p)>>
          /\ Blob(BaseCommit(n), p) = <<0, BaseVersion(n, p)>>
          /\ (Blob(BaseCommit(n), p) # Blob(y, p) <=> EditCount(y, p) > 0)
      BY <1>1, Blobs
    <3> HIDE DEF b, n
    <3> QED
      BY <3>1, <3>2, <3>3
  <2> HIDE DEF b, n
  <2>2. DiffPaths(BaseCommit(b), x) = DiffPaths(BaseCommit(n), y)
    BY <2>1 DEF DiffPaths
  <2>3. \A p \in DiffPaths(BaseCommit(b), x) :
          /\ Blob(BaseCommit(b), p) = Blob(BaseCommit(n), p)
          /\ Blob(x, p) = Blob(y, p)
    BY <2>1 DEF DiffPaths
  <2>4. Patch(BaseCommit(b), x) = Patch(BaseCommit(n), y)
    BY <2>2, <2>3 DEF Patch
  <2> QED
    BY <2>4 DEF Changes, b, n
<1> QED
  BY <1>2, <1>3

\* The same changes of the same base are the same files.
LEMMA SameFiles ==
  ASSUME NEW x \in Histories, NEW y \in Histories,
         Changes(x) = Changes(y), MergeBase(x) = MergeBase(y)
  PROVE  DiffPaths(x, y) = {}
<1>1. SameChanges(x, y)
  BY ChangesSame
<1>2. ASSUME NEW p \in Paths PROVE Blob(x, p) = Blob(y, p)
  BY <1>1 DEF SameChanges, Blob, EditCount
<1> QED
  BY <1>2 DEF DiffPaths

\* A base that went on is no overlap for a branch that changes the same as before.
LEMMA SameIsEquivalent ==
  ASSUME NEW x \in Histories, NEW y \in Histories, Changes(x) = Changes(y)
  PROVE  LET d == BaseDrift(MergeBase(x), MergeBase(y), x, y)
         IN  d.overlap = {} /\ d.equivalent
<1> DEFINE b == MergeBase(x)
           n == MergeBase(y)
<1>1. SameChanges(x, y)
  BY ChangesSame
<1>2. Patch(BaseCommit(b), x) = Patch(BaseCommit(n), y)
  BY DEF Changes
<1>3. ASSUME NEW p \in DiffPaths(BaseCommit(b), BaseCommit(n))
      PROVE  p \notin DiffPaths(BaseCommit(b), x) /\ p \notin DiffPaths(BaseCommit(n), y)
  <2>1. p \in Paths /\ Blob(BaseCommit(b), p) # Blob(BaseCommit(n), p)
    BY DEF DiffPaths
  <2>2. b \in BaseCommits /\ n \in BaseCommits
    BY MergeBaseIs
  <2>3. BaseVersion(b, p) # BaseVersion(n, p)
    BY <2>1, <2>2, BaseBlob
  <2>4. EditCount(x, p) = EditCount(y, p) /\ ~(EditCount(x, p) > 0)
    BY <1>1, <2>1, <2>3 DEF SameChanges
  <2>5. ~ Blob(BaseCommit(b), p) # Blob(x, p) /\ ~ Blob(BaseCommit(n), p) # Blob(y, p)
    BY <2>4, <2>2, Blobs
  <2> QED
    BY <2>5 DEF DiffPaths
<1> QED
  BY <1>2, <1>3 DEF BaseDrift

\* A base commit changes nothing; the branch always does.
LEMMA BaseChanges ==
  ASSUME NEW b \in BaseCommits
  PROVE  Changes(BaseCommit(b)) = {}
<1>1. DiffPaths(BaseCommit(b), BaseCommit(b)) = {}
  BY DEF DiffPaths
<1> QED
  BY <1>1, BaseCommitIs DEF Changes, Patch

LEMMA EditPath ==
  ASSUME NEW s \in Step, s.edit
  PROVE  s.path \in Paths
<1>1. ASSUME NEW b \in BaseCommits PROVE s # MergeOf(b)
  <2>1. MergeOf(b).edit = FALSE
    BY DEF MergeOf
  <2> QED
    BY <2>1
<1> QED
  BY <1>1 DEF Step, EditOf

LEMMA EditChanges ==
  ASSUME NEW h \in Histories, HasEdit(h)
  PROVE  Changes(h) # {}
<1>1. PICK k \in DOMAIN h.line : h.line[k].edit
  BY DEF HasEdit
<1>2. h.line[k] \in Step
  BY DEF Histories
<1> DEFINE p == h.line[k].path
<1>3. p \in Paths /\ k \in EditsOf(h, p)
  BY <1>1, <1>2, EditPath DEF EditsOf
<1>4. EditCount(h, p) > 0
  BY <1>3, EditCountType
<1>5. p \in DiffPaths(BaseCommit(MergeBase(h)), h)
  BY <1>3, <1>4, MergeBaseIs, Blobs DEF DiffPaths
<1> QED
  BY <1>5 DEF Changes, Patch

-----------------------------------------------------------------------------
(* The branch only goes on: to a newer merge base, or on the same one with    *)
(* more edits                                                               *)

Past(x, t) ==
    \/ MergeBase(x) < MergeBase(t)
    \/ /\ MergeBase(x) = MergeBase(t)
       /\ \/ x = t
          \/ /\ \A p \in Paths : EditCount(x, p) <= EditCount(t, p)
             /\ \E p \in Paths : EditCount(x, p) < EditCount(t, p)

\* A commit the branch has left does not change the same on the same base.
LEMMA PastSame ==
  ASSUME NEW x \in Histories, NEW t \in Histories, Past(x, t),
         MergeBase(x) = MergeBase(t), Changes(x) = Changes(t)
  PROVE  x = t
<1>1. SUFFICES ASSUME NEW p \in Paths, EditCount(x, p) < EditCount(t, p) PROVE FALSE
  <2>1. MergeBase(x) \in Nat /\ MergeBase(t) \in Nat
    BY MergeBaseIs, BaseType
  <2> QED
    BY <2>1 DEF Past
<1>2. EditCount(x, p) = EditCount(t, p)
  BY ChangesSame DEF SameChanges
<1> QED
  BY <1>1, <1>2, EditCountType

LEMMA PastCommit ==
  ASSUME NEW x \in Histories, NEW t \in Histories, Past(x, t), NEW p \in Paths
  PROVE  Past(x, Commit(t, p))
<1> DEFINE u == Commit(t, p)
<1>1. u \in Histories /\ MergeBase(u) = MergeBase(t)
  BY CommitIs
<1>2. \A q : /\ EditCount(u, q) = IF q = p THEN EditCount(t, q) + 1 ELSE EditCount(t, q)
             /\ EditCount(t, q) \in Nat /\ EditCount(x, q) \in Nat
  BY CommitEdits, EditCountType
<1> HIDE DEF u
<1>3. CASE MergeBase(x) < MergeBase(t)
  BY <1>1, <1>3 DEF Past, u
<1>4. CASE x = t
  <2>1. \A q \in Paths : EditCount(x, q) <= EditCount(u, q)
    BY <1>2, <1>4
  <2>2. EditCount(x, p) < EditCount(u, p)
    BY <1>2, <1>4
  <2> QED
    BY <1>1, <1>4, <2>1, <2>2 DEF Past, u
<1>5. CASE /\ MergeBase(x) = MergeBase(t)
           /\ \A q \in Paths : EditCount(x, q) <= EditCount(t, q)
           /\ \E q \in Paths : EditCount(x, q) < EditCount(t, q)
  <2>1. \A q \in Paths : EditCount(x, q) <= EditCount(u, q)
    BY <1>2, <1>5
  <2>2. \E q \in Paths : EditCount(x, q) < EditCount(u, q)
    BY <1>2, <1>5
  <2> QED
    BY <1>1, <1>5, <2>1, <2>2 DEF Past, u
<1> QED
  BY <1>3, <1>4, <1>5 DEF Past

\* A rebase or merge to a newer base leaves everything behind.
LEMMA PastNewer ==
  ASSUME NEW x \in Histories, NEW t \in Histories, NEW u \in Histories,
         Past(x, t), MergeBase(t) < MergeBase(u)
  PROVE  Past(x, u)
<1>1. MergeBase(x) \in Nat /\ MergeBase(t) \in Nat /\ MergeBase(u) \in Nat
  BY MergeBaseIs, BaseType
<1> QED
  BY <1>1 DEF Past

-----------------------------------------------------------------------------
(* The commits of the branch                                                *)

LEMMA CommitsAre ==
  ASSUME NEW h
  PROVE  h \in Commits <=> h \in Histories /\ Len(h.line) <= MaxLine
<1>1. MaxLine \in Nat
  BY DriftAssumption
<1>2. BoundedSeq(Step, MaxLine) = UNION {[1 .. m -> Step] : m \in 0 .. MaxLine}
  BY DEF BoundedSeq, SeqOf
<1>3. ASSUME NEW l \in BoundedSeq(Step, MaxLine)
      PROVE  l \in Seq(Step) /\ Len(l) <= MaxLine
  <2>1. PICK m \in 0 .. MaxLine : l \in [1 .. m -> Step]
    BY <1>2, <1>3
  <2>2. m \in Nat /\ m <= MaxLine
    BY <1>1, <2>1
  <2> QED
    BY <2>1, <2>2
<1>4. ASSUME NEW l \in Seq(Step), Len(l) <= MaxLine
      PROVE  l \in BoundedSeq(Step, MaxLine)
  <2>1. Len(l) \in 0 .. MaxLine /\ l \in [1 .. Len(l) -> Step]
    BY <1>1, <1>4
  <2> QED
    BY <1>2, <2>1
<1>5. ASSUME h \in Commits PROVE h \in Histories /\ Len(h.line) <= MaxLine
  BY <1>3, <1>5 DEF Commits, Histories
<1>6. ASSUME h \in Histories, Len(h.line) <= MaxLine PROVE h \in Commits
  BY <1>4, <1>6 DEF Commits, Histories
<1> QED
  BY <1>5, <1>6

LEMMA BaseIsCommit ==
  ASSUME NEW b \in BaseCommits
  PROVE  BaseCommit(b) \in Commits
<1>1. BaseCommit(b) \in Histories /\ Len(BaseCommit(b).line) = 0
  BY BaseCommitIs DEF BaseCommit
<1> QED
  BY <1>1, CommitsAre, DriftAssumption

\* What is true of the commit of the branch: it changes something, and its parent is
\* behind it.
TipOK(t) == t \in Commits /\ HasEdit(t) /\ Past(FirstParent(t), t)

\* A line with an edit is not empty, and the parent is a commit.
LEMMA ParentIs ==
  ASSUME NEW t \in Commits, HasEdit(t)
  PROVE  t.line # <<>> /\ FirstParent(t) \in Commits /\ HasParent(t)
<1>1. t \in Histories /\ Len(t.line) <= MaxLine /\ Len(t.line) \in Nat /\ MaxLine \in Nat
  BY CommitsAre, DriftAssumption DEF Histories
<1>2. t.line # <<>>
  BY DEF HasEdit
<1>3. FirstParent(t) \in Histories
  BY <1>1, <1>2, FirstParentIs
<1>4. FirstParent(t).line = SubSeq(t.line, 1, Len(t.line) - 1)
  BY <1>1, <1>2 DEF FirstParent, Front, Histories
<1>5. Len(SubSeq(t.line, 1, Len(t.line) - 1)) = Len(t.line) - 1
  <2>1. t.line \in Seq(Step) /\ Len(t.line) > 0
    BY <1>1, <1>2 DEF Histories
  <2> QED
    BY <2>1, SubSeqProperties
<1>6. Len(FirstParent(t).line) <= MaxLine
  BY <1>1, <1>4, <1>5
<1> QED
  BY <1>2, <1>3, <1>6, CommitsAre DEF HasParent

LEMMA FrontOfAppend ==
  ASSUME NEW S, NEW l \in Seq(S), NEW s \in S
  PROVE  Front(Append(l, s)) = l
<1>1. Append(l, s) \in Seq(S) /\ Len(Append(l, s)) = Len(l) + 1 /\ Len(l) \in Nat
  OBVIOUS
<1>2. Front(Append(l, s)) = SubSeq(Append(l, s), 1, Len(l))
  BY <1>1 DEF Front
<1> QED
  BY <1>1, <1>2

\* The parent of a commit made on the branch is the commit before it.
LEMMA ParentOfCommit ==
  ASSUME NEW t \in Histories, NEW s \in Step
  PROVE  FirstParent([t EXCEPT !.line = Append(t.line, s)]) = t
<1> DEFINE u == [t EXCEPT !.line = Append(t.line, s)]
<1>1. t.line \in Seq(Step) /\ u.line = Append(t.line, s) /\ u.fork = t.fork
  BY DEF Histories
<1>2. u.line # <<>> /\ Front(u.line) = t.line
  <2>1. Append(t.line, s) # <<>>
    BY <1>1
  <2>2. Front(Append(t.line, s)) = t.line
    BY <1>1, FrontOfAppend
  <2> QED
    BY <1>1, <2>1, <2>2
<1>3. FirstParent(u) = [u EXCEPT !.line = t.line]
  BY <1>2 DEF FirstParent
<1>4. [u EXCEPT !.line = t.line] = t
  BY DEF Histories
<1> QED
  BY <1>3, <1>4

LEMMA TipCommit ==
  ASSUME NEW t \in Histories, NEW p \in Paths, Len(t.line) < MaxLine
  PROVE  TipOK(Commit(t, p))
<1> DEFINE u == Commit(t, p)
<1>1. EditOf(p) \in Step /\ EditOf(p).edit
  BY DEF Step, EditOf
<1>2. u = [t EXCEPT !.line = Append(t.line, EditOf(p))] /\ u.line = Append(t.line, EditOf(p))
  BY DEF Commit, Histories
<1>3. u \in Histories /\ FirstParent(u) = t
  BY <1>1, <1>2, ParentOfCommit, CommitIs
<1>4. Past(t, u)
  <2>1. Past(t, t)
    BY DEF Past
  <2> QED
    BY <2>1, PastCommit
<1>5. /\ Len(u.line) = Len(t.line) + 1 /\ Len(t.line) \in Nat
      /\ u.line[Len(t.line) + 1] = EditOf(p) /\ DOMAIN u.line = 1 .. (Len(t.line) + 1)
  BY <1>1, <1>2 DEF Histories
<1>6. Len(u.line) <= MaxLine
  BY <1>5, DriftAssumption
<1>7. HasEdit(u)
  BY <1>1, <1>5 DEF HasEdit
<1> QED
  BY <1>3, <1>4, <1>6, <1>7, CommitsAre DEF TipOK

LEMMA TipMerge ==
  ASSUME NEW t, TipOK(t), NEW b \in BaseCommits, b > MergeBase(t), Len(t.line) < MaxLine
  PROVE  TipOK(Merge(t, b)) /\ MergeBase(Merge(t, b)) = b
<1> DEFINE u == Merge(t, b)
<1>1. MergeOf(b) \in Step /\ t \in Histories
  BY CommitsAre DEF Step, TipOK
<1>2. u = [t EXCEPT !.line = Append(t.line, MergeOf(b))] /\ u.line = Append(t.line, MergeOf(b))
  BY <1>1 DEF Merge, Histories
<1>3. u \in Histories /\ FirstParent(u) = t /\ MergeBase(u) = b
  BY <1>1, <1>2, ParentOfCommit, MergeIs
<1>4. Past(t, u)
  BY <1>3 DEF Past
<1>5. /\ Len(u.line) = Len(t.line) + 1 /\ Len(t.line) \in Nat
      /\ \A k \in DOMAIN t.line : u.line[k] = t.line[k] /\ k \in DOMAIN u.line
  BY <1>1, <1>2 DEF Histories
<1>6. Len(u.line) <= MaxLine
  BY <1>5, DriftAssumption
<1>7. HasEdit(u)
  BY <1>5 DEF HasEdit, TipOK
<1> QED
  BY <1>3, <1>4, <1>6, <1>7, CommitsAre DEF TipOK

LEMMA TipRebase ==
  ASSUME NEW t, TipOK(t), NEW b \in BaseCommits
  PROVE  TipOK(Rebase(t, b)) /\ MergeBase(Rebase(t, b)) = b
<1> DEFINE u == Rebase(t, b)
           l == OnlyEdits(t.line)
           n == Len(l)
<1>1. t \in Histories /\ Len(t.line) <= MaxLine /\ t.line \in Seq(Step)
  BY CommitsAre DEF TipOK, Histories
<1>2. /\ l \in Seq({s \in Step : s.edit}) /\ Len(l) <= Len(t.line) /\ l # <<>>
  BY <1>1, OnlyEditsIs DEF TipOK, HasEdit
<1>3. u \in Histories /\ MergeBase(u) = b /\ u.line = l /\ u.fork = b
  BY <1>1, RebaseIs
<1> HIDE DEF u, l
<1>4. /\ l \in Seq(Step) /\ n \in Nat /\ n > 0 /\ DOMAIN l = 1 .. n
      /\ \A k \in 1 .. n : l[k] \in Step /\ l[k].edit
  BY <1>2
<1>5. u \in Commits
  <2>1. Len(t.line) \in Nat /\ MaxLine \in Nat
    BY <1>1, DriftAssumption
  <2> QED
    BY <1>1, <1>2, <1>3, <1>4, <2>1, CommitsAre
<1>6. HasEdit(u)
  BY <1>3, <1>4 DEF HasEdit
<1>7. PICK p \in Paths : l[n] = EditOf(p)
  <2>1. l[n] \in Step /\ l[n].edit
    BY <1>4
  <2>2. ASSUME NEW d \in BaseCommits PROVE l[n] # MergeOf(d)
    <3>1. MergeOf(d).edit = FALSE
      BY DEF MergeOf
    <3> QED
      BY <2>1, <3>1
  <2> QED
    BY <2>1, <2>2 DEF Step
<1> DEFINE v == FirstParent(u)
<1>8. v \in Histories /\ v.line = Front(l) /\ v.fork = b
  <2>1. u.line # <<>>
    BY <1>3, <1>4
  <2>2. v = [u EXCEPT !.line = Front(u.line)]
    BY <2>1 DEF FirstParent
  <2> QED
    BY <1>3, <2>1, <2>2, FirstParentIs DEF Histories
<1>9. u = Commit(v, p)
  <2>1. Append(Front(l), l[n]) = l
    <3>1. Front(l) = SubSeq(l, 1, n - 1)
      BY DEF Front
    <3> QED
      BY <1>4, <3>1
  <2>2. Commit(v, p) = [v EXCEPT !.line = Append(v.line, EditOf(p))]
    BY DEF Commit
  <2>3. /\ v.fork = u.fork /\ Append(v.line, EditOf(p)) = u.line
    BY <1>3, <1>7, <1>8, <2>1
  <2>4. [v EXCEPT !.line = u.line] = u
    BY <1>3, <1>8, <2>3 DEF Histories
  <2> QED
    BY <2>2, <2>3, <2>4
<1>10. Past(v, u)
  <2>1. Past(v, v)
    BY DEF Past
  <2>2. Past(v, Commit(v, p))
    BY <1>8, <2>1, PastCommit
  <2> QED
    BY <1>9, <2>2
<1> QED
  BY <1>3, <1>5, <1>6, <1>10 DEF TipOK, u

LEMMA TipFirst == TipOK(FirstTip) /\ FirstTip \in Commits
<1> DEFINE p == CHOOSE q \in Paths : TRUE
<1>1. p \in Paths
  BY DriftAssumption
<1>2. BaseCommit(0) \in Histories /\ Len(BaseCommit(0).line) = 0
  BY BaseCommitIs, BaseType DEF BaseCommit, BaseCommits
<1>3. 0 < MaxLine
  BY DriftAssumption
<1>4. TipOK(Commit(BaseCommit(0), p))
  BY <1>1, <1>2, <1>3, TipCommit
<1> QED
  BY <1>4 DEF FirstTip, TipOK

-----------------------------------------------------------------------------
(* The document                                                             *)

MaybeCommit == Commits \union {None}

\* One step, a signoff that is repeated when it finds something.
LEMMA OneStep ==
  /\ Cycle!N = 1 /\ Cycle!Steps = {0} /\ Cycle!NoStep = 0 - 1
  /\ Cycle!Kind(0) = "signoff" /\ Cycle!RerunOnFindings(0)
  /\ Cycle!MaybeHead = MaybeCommit
<1>1. Len(Signoff) = 1 /\ Signoff[1] = [kind |-> "signoff", rerun |-> TRUE, pool |-> 1]
  BY DEF Signoff
<1>2. Cycle!N = 1
  BY <1>1 DEF Cycle!N
<1>3. Cycle!Steps = {0}
  BY <1>2 DEF Cycle!Steps
<1>4. Cycle!Kind(0) = "signoff" /\ Cycle!RerunOnFindings(0)
  BY <1>1 DEF Cycle!Kind, Cycle!RerunOnFindings
<1>5. Cycle!NoStep = 0 - 1 /\ Cycle!MaybeHead = MaybeCommit
  BY DEF Cycle!NoStep, Cycle!MaybeHead, MaybeCommit
<1> QED
  BY <1>2, <1>3, <1>4, <1>5

\* what the document says of its round
Asking == {"running", "decision-pending"}
Fixing == {"fix-pending", "decision-required"}

FindingsKnown(d) ==
    d.findings = Cycle!NoFindings \/ (d.findings.head \in Commits /\ d.findings.step = 0)

RoundKnown(d) ==
    /\ d.stage \in Asking => d.pending.head \in Commits /\ d.pending.step = 0
    /\ d.round.verdict = "clean" => d.stage \in Asking

GreenKnown(d) ==
    d.stage = "review-green" => d.heads.reviewed \in Commits /\ d.progress.completed[0] # None

CleanupHeld(d) ==
    /\ d.deslop.status \in {"tracked", "done"} => d.stage = "created"
    /\ d.deslop.status = "failed" =>
         d.stage = "retry-requested" /\ d.pending.kind = "run-deslop"
    /\ Cycle!DeslopTracked(d) => d.progress.next = 0
    /\ d.deslop.status = "done" => d.deslop.head \in Commits

VerdictKnown(d) ==
    Cycle!GithubTerminal(d) => d.stage = "review-green" /\ d.github.head \in Commits

Good(d) ==
    /\ d \in Cycle!Cycle
    /\ FindingsKnown(d)
    /\ d.findings # Cycle!NoFindings <=> d.stage \in Fixing
    /\ RoundKnown(d)
    /\ GreenKnown(d)
    /\ CleanupHeld(d)
    /\ VerdictKnown(d)
    /\ d.convergence.continuePending = FALSE

FixDue(d) == Good(d) /\ d.stage \in Fixing

\* What may become a document of a stage in which no round is asked.
Ready(d, stage) ==
    /\ d \in Cycle!Cycle
    /\ FindingsKnown(d)
    /\ d.findings # Cycle!NoFindings <=> stage \in Fixing
    /\ stage = "review-green"
         => d.heads.reviewed \in Commits /\ d.progress.completed[0] # None
    /\ ~Cycle!DeslopTracked(d) /\ ~Cycle!GithubTerminal(d)
    /\ d.convergence.continuePending = FALSE

LEMMA SetStageGood ==
  ASSUME NEW d, NEW stage \in Cycle!Stages \ Asking, NEW a \in Cycle!Pending, Ready(d, stage)
  PROVE  LET r == Cycle!SetStage(d, stage, a)
         IN  /\ Good(r) /\ r.stage = stage /\ r.pending = a /\ r.round = Cycle!NoRound
             /\ r.findings = d.findings /\ r.heads = d.heads /\ r.progress = d.progress
             /\ r.convergence = d.convergence /\ r.deslop = d.deslop /\ r.github = d.github
             /\ r.validation = d.validation
<1> DEFINE r == Cycle!SetStage(d, stage, a)
<1>1. r \in Cycle!Cycle
  BY DEF Cycle!SetStage, Ready, Cycle!Cycle, Cycle!RoundFile, Cycle!NoRound
<1>2. /\ r.stage = stage /\ r.pending = a /\ r.round = Cycle!NoRound
      /\ r.findings = d.findings /\ r.heads = d.heads /\ r.progress = d.progress
      /\ r.convergence = d.convergence /\ r.deslop = d.deslop /\ r.github = d.github
      /\ r.validation = d.validation
  BY DEF Cycle!SetStage, Ready, Cycle!Cycle
<1> HIDE DEF r
<1>3. Cycle!NoRound.verdict = "unclear"
  BY DEF Cycle!NoRound
<1>4. RoundKnown(r) /\ GreenKnown(r)
  BY <1>2, <1>3 DEF Ready, RoundKnown, GreenKnown
<1>5. CleanupHeld(r) /\ VerdictKnown(r)
  BY <1>2 DEF Ready, CleanupHeld, VerdictKnown, Cycle!DeslopTracked, Cycle!GithubTerminal
<1>6. FindingsKnown(r)
  BY <1>2 DEF Ready, FindingsKnown
<1>7. Good(r)
  BY <1>1, <1>2, <1>4, <1>5, <1>6 DEF Good, Ready
<1> QED
  BY <1>2, <1>7 DEF r

\* An action without a round.
LEMMA ActIs ==
  ASSUME NEW k \in Cycle!ActionKinds
  PROVE  /\ Cycle!NoAction \in Cycle!Pending /\ Cycle!Act(k) \in Cycle!Pending
         /\ Cycle!Act(k).kind = k
         /\ \A f \in MaybeCommit : [Cycle!Act(k) EXCEPT !.fix = f] \in Cycle!Pending
         /\ \A f \in MaybeCommit : [Cycle!Act(k) EXCEPT !.fix = f].kind = k
  BY OneStep DEF Cycle!Act, Cycle!NoAction, Cycle!Pending, Cycle!ActionKinds, MaybeCommit

\* Counting a tree with accepted findings.
LEMMA AcceptedGood ==
  ASSUME NEW d, Good(d), d.stage = "fix-pending", NEW h \in Commits
  PROVE  LET r == Cycle!RecordAcceptedFindingsHead(d, h)
         IN  FixDue(r) /\ r.findings = d.findings
<1> DEFINE trees   == d.convergence.trees \cup {TreeOf[h]}
           counted == [d EXCEPT !.convergence.trees = trees,
                                !.convergence.continuePending = FALSE]
           required == [counted EXCEPT !.convergence.status = "DECISION_REQUIRED"]
<1>1. d \in Cycle!Cycle
  BY DEF Good
<1>2. trees \in SUBSET {TreeOf[x] : x \in Commits}
  BY <1>1 DEF Cycle!Cycle, Cycle!Convergence
<1>3. /\ counted \in Cycle!Cycle /\ required \in Cycle!Cycle
      /\ counted.convergence.continuePending = FALSE
      /\ required.convergence.continuePending = FALSE
  <2> HIDE DEF trees
  <2> QED
    BY <1>1, <1>2 DEF Cycle!Cycle, Cycle!Convergence
<1>4. /\ counted.stage = d.stage /\ counted.pending = d.pending
      /\ counted.progress = d.progress /\ counted.findings = d.findings
      /\ counted.heads = d.heads /\ counted.deslop = d.deslop
      /\ counted.github = d.github /\ counted.round = d.round
      /\ required.findings = d.findings /\ required.deslop = d.deslop
      /\ required.github = d.github
  BY <1>1 DEF Cycle!Cycle
<1> HIDE DEF counted, required
<1>5. Good(counted)
  BY <1>3, <1>4 DEF Good, FindingsKnown, RoundKnown, GreenKnown, CleanupHeld, VerdictKnown,
       Cycle!DeslopTracked, Cycle!GithubTerminal
<1>6. Ready(required, "decision-required")
  BY <1>3, <1>4 DEF Good, Ready, FindingsKnown, CleanupHeld, VerdictKnown, Fixing,
       Cycle!DeslopTracked, Cycle!GithubTerminal
<1>7. /\ Cycle!Act("convergence-decision") \in Cycle!Pending
      /\ "decision-required" \in Cycle!Stages \ Asking
  BY ActIs DEF Cycle!ActionKinds, Cycle!Stages, Asking
<1>8. LET r == Cycle!SetStage(required, "decision-required", Cycle!Act("convergence-decision"))
      IN  FixDue(r) /\ r.findings = d.findings
  BY <1>4, <1>6, <1>7, SetStageGood DEF FixDue, Fixing
<1>9. FixDue(counted)
  BY <1>4, <1>5 DEF FixDue, Fixing
<1>10. \/ Cycle!RequireConvergenceDecision(counted) = counted
       \/ Cycle!RequireConvergenceDecision(counted)
            = Cycle!SetStage(required, "decision-required", Cycle!Act("convergence-decision"))
  BY DEF Cycle!RequireConvergenceDecision, required
<1>11. \/ Cycle!RecordAcceptedFindingsHead(d, h) = d
       \/ Cycle!RecordAcceptedFindingsHead(d, h) = counted
       \/ Cycle!RecordAcceptedFindingsHead(d, h) = Cycle!RequireConvergenceDecision(counted)
  BY DEF Cycle!RecordAcceptedFindingsHead, counted
<1>12. FixDue(d)
  BY DEF FixDue, Fixing
<1> QED
  BY <1>4, <1>8, <1>9, <1>10, <1>11, <1>12

\* Asking for the fix.
LEMMA WithFixGood ==
  ASSUME NEW d, FixDue(d)
  PROVE  LET r == Cycle!WithFixAction(d)
         IN  /\ FixDue(r) /\ r.stage = d.stage /\ r.findings = d.findings
             /\ r.deslop = d.deslop /\ r.convergence = d.convergence /\ r.round = d.round
<1> DEFINE a == Cycle!Act("fix-findings")
           r == Cycle!WithFixAction(d)
<1>1. a \in Cycle!Pending /\ d \in Cycle!Cycle
  BY ActIs DEF Cycle!ActionKinds, FixDue, Good
<1> HIDE DEF a
<1>2. r \in Cycle!Cycle
  BY <1>1 DEF Cycle!WithFixAction, Cycle!Cycle, a
<1>3. /\ r.stage = d.stage /\ r.findings = d.findings /\ r.progress = d.progress
      /\ r.heads = d.heads /\ r.convergence = d.convergence /\ r.deslop = d.deslop
      /\ r.github = d.github /\ r.round = d.round
  BY <1>1 DEF Cycle!WithFixAction, Cycle!Cycle
<1> HIDE DEF r
<1>4. r.stage \in Fixing /\ r.stage \notin Asking /\ r.stage \notin {"created", "retry-requested"}
  BY <1>3 DEF FixDue, Fixing, Asking
<1>5. Good(r)
  BY <1>2, <1>3, <1>4 DEF FixDue, Good, FindingsKnown, RoundKnown, GreenKnown, CleanupHeld,
       VerdictKnown, Cycle!DeslopTracked, Cycle!GithubTerminal
<1> QED
  BY <1>3, <1>4, <1>5 DEF FixDue, r

\* Findings that are opened wait for their fix.
LEMMA OpenFindings ==
  ASSUME NEW d \in Cycle!Cycle, NEW h \in Commits,
         ~Cycle!DeslopTracked(d), ~Cycle!GithubTerminal(d),
         d.convergence.continuePending = FALSE,
         d.findings.head = h, d.findings.step = 0
  PROVE  LET r == Cycle!RecordAcceptedFindingsHead(
                      Cycle!SetStage(d, "fix-pending", Cycle!NoAction), h)
         IN  FixDue(r) /\ FixDue(Cycle!WithFixAction(r))
<1>1. d.findings # Cycle!NoFindings
  BY CommitAssumption DEF Cycle!NoFindings
<1>2. Ready(d, "fix-pending")
  BY <1>1 DEF Ready, FindingsKnown, Fixing
<1>3. Cycle!NoAction \in Cycle!Pending /\ "fix-pending" \in Cycle!Stages \ Asking
  BY ActIs DEF Cycle!ActionKinds, Cycle!Stages, Asking
<1> DEFINE t == Cycle!SetStage(d, "fix-pending", Cycle!NoAction)
           u == Cycle!RecordAcceptedFindingsHead(t, h)
<1>4. Good(t) /\ t.stage = "fix-pending"
  BY <1>2, <1>3, SetStageGood
<1> HIDE DEF t
<1>5. FixDue(u)
  BY <1>4, AcceptedGood
<1> HIDE DEF u
<1>6. FixDue(Cycle!WithFixAction(u))
  BY <1>5, WithFixGood
<1> QED
  BY <1>5, <1>6 DEF u, t

\* While a round is asked nothing else is open.
LEMMA AskingIs ==
  ASSUME NEW d, Good(d), d.stage \in Asking
  PROVE  /\ d \in Cycle!Cycle /\ d.findings = Cycle!NoFindings
         /\ ~Cycle!DeslopTracked(d) /\ ~Cycle!GithubTerminal(d) /\ Cycle!DeslopReady(d)
         /\ ~Cycle!DeslopOpen(d) /\ d.convergence.continuePending = FALSE
         /\ d.pending.head \in Commits /\ d.pending.step = 0 /\ ~Cycle!IsFollowup(d)
<1>1. d.stage \notin Fixing \union {"created", "retry-requested", "review-green"}
  BY DEF Asking, Fixing
<1>2. d.pending.head \in Commits /\ d.pending.step = 0
  BY DEF Good, RoundKnown
<1>3. ~Cycle!IsFollowup(d)
  BY <1>2, OneStep DEF Cycle!IsFollowup
<1> QED
  BY <1>1, <1>2, <1>3 DEF Good, CleanupHeld, VerdictKnown, Cycle!DeslopTracked,
     Cycle!DeslopReady, Cycle!DeslopOpen

\* --decision findings, and a head that moves on under a pending decision.
LEMMA FindingsDecisionGood ==
  ASSUME NEW d, Good(d), d.stage = "decision-pending"
  PROVE  FixDue(Cycle!RecordDecision(d, "findings"))
<1> DEFINE h == d.pending.head
           open == [d EXCEPT !.heads.reviewed = h,
                             !.findings = [head |-> h, step |-> d.pending.step,
                                           rerun |-> FALSE],
                             !.validation.green = FALSE]
<1>1. d.stage \in Asking
  BY DEF Asking
<1>2. /\ d \in Cycle!Cycle /\ h \in Commits /\ d.pending.step = 0 /\ ~Cycle!IsFollowup(d)
      /\ ~Cycle!DeslopTracked(d) /\ ~Cycle!GithubTerminal(d)
      /\ d.convergence.continuePending = FALSE
  BY <1>1, AskingIs
<1>3. open \in Cycle!Cycle
  BY <1>2, OneStep DEF Cycle!Cycle, Cycle!ReviewHeads, Cycle!Findings, Cycle!Validation, MaybeCommit
<1>4. /\ open.convergence = d.convergence /\ open.deslop = d.deslop /\ open.github = d.github
      /\ open.findings.head = h /\ open.findings.step = 0
  BY <1>2 DEF Cycle!Cycle
<1> HIDE DEF open
<1>5. ~Cycle!DeslopTracked(open) /\ ~Cycle!GithubTerminal(open)
  BY <1>2, <1>4 DEF Cycle!DeslopTracked, Cycle!GithubTerminal
<1>6. FixDue(Cycle!WithFixAction(Cycle!RecordAcceptedFindingsHead(
                 Cycle!SetStage(open, "fix-pending", Cycle!NoAction), h)))
  BY <1>2, <1>3, <1>4, <1>5, OpenFindings
<1>7. Cycle!RecordDecision(d, "findings") = Cycle!RecordFindingsDecision(d)
  BY <1>2 DEF Cycle!RecordDecision
<1> QED
  BY <1>6, <1>7 DEF Cycle!RecordFindingsDecision, open

\* --decision clean: the signoff is the last step, so the cycle is green for the head
\* the round reviewed.
LEMMA CleanDecisionGood ==
  ASSUME NEW d, Good(d), d.stage = "decision-pending"
  PROVE  LET r == Cycle!RecordDecision(d, "clean")
         IN  /\ Good(r) /\ r.stage = "review-green" /\ r.heads.reviewed = d.pending.head
             /\ r.convergence = d.convergence /\ r.github = d.github /\ r.deslop = d.deslop
<1> DEFINE h == d.pending.head
           decided == [d EXCEPT !.heads.reviewed = h, !.convergence.continuePending = FALSE]
           done == Cycle!CompleteStep(decided, 0, h)
           skipped == Cycle!AdvanceAfterClean(done, 0)
           green == [skipped EXCEPT !.validation.green = TRUE]
<1>1. d.stage \in Asking
  BY DEF Asking
<1>2. /\ d \in Cycle!Cycle /\ h \in Commits /\ d.pending.step = 0 /\ ~Cycle!IsFollowup(d)
      /\ ~Cycle!DeslopTracked(d) /\ ~Cycle!GithubTerminal(d)
      /\ d.findings = Cycle!NoFindings /\ d.convergence.continuePending = FALSE
  BY <1>1, AskingIs
<1>3. decided \in Cycle!Cycle
  BY <1>2, OneStep DEF Cycle!Cycle, Cycle!ReviewHeads, Cycle!Convergence, MaybeCommit
<1>4. /\ decided.heads.reviewed = h /\ decided.findings = Cycle!NoFindings
      /\ decided.convergence = d.convergence /\ decided.deslop = d.deslop
      /\ decided.github = d.github /\ decided.progress = d.progress
  <2>1. [d.convergence EXCEPT !.continuePending = FALSE] = d.convergence
    BY <1>2 DEF Cycle!Cycle, Cycle!Convergence
  <2> QED
    BY <1>2, <2>1 DEF Cycle!Cycle, Cycle!ReviewHeads
<1> HIDE DEF decided
<1>5. Cycle!Progress = [next : 0 .. 1, completed : [{0} -> MaybeCommit]]
  BY OneStep DEF Cycle!Progress
<1>6. decided.progress \in Cycle!Progress /\ decided.progress.next \in 0 .. 1
  BY <1>3, <1>5 DEF Cycle!Cycle
<1>7. Cycle!Larger(decided.progress.next, 0 + 1) = 1
  BY <1>6 DEF Cycle!Larger
<1>8. done = [decided EXCEPT !.progress =
                [next |-> 1, completed |-> [decided.progress.completed EXCEPT ![0] = h]]]
  BY <1>7 DEF Cycle!CompleteStep
<1>9. [decided.progress.completed EXCEPT ![0] = h] \in [{0} -> MaybeCommit]
  BY <1>2, <1>5, <1>6 DEF MaybeCommit
<1>10. /\ done \in Cycle!Cycle /\ done.progress.next = 1 /\ done.progress.completed[0] = h
       /\ done.heads = decided.heads /\ done.findings = decided.findings
       /\ done.convergence = decided.convergence /\ done.deslop = decided.deslop
       /\ done.github = decided.github
  <2>1. done.progress.completed[0] = h
    BY <1>3, <1>5, <1>6, <1>8 DEF Cycle!Cycle
  <2> QED
    BY <1>3, <1>5, <1>8, <1>9, <2>1 DEF Cycle!Cycle
<1> HIDE DEF done
<1>11. Cycle!SkipTarget(0) = 1
  <2>1. {j \in Cycle!Steps :
                     /\ j > 0
                     /\ \/ /\ Cycle!Kind(0) = "arena"
                           /\ (Cycle!Kind(j) # "arena" \/ Cycle!Pool(j) # Cycle!Pool(0))
                        \/ Cycle!Kind(0) = "discovery" /\ Cycle!Kind(j) = "signoff"} = {}
    BY OneStep
  <2> QED
    BY <2>1, OneStep DEF Cycle!SkipTarget
<1>12. Cycle!Larger(done.progress.next, Cycle!SkipTarget(0)) = 1
  BY <1>10, <1>11 DEF Cycle!Larger
<1>13. skipped = [done EXCEPT !.progress.next = 1]
  BY <1>12 DEF Cycle!AdvanceAfterClean
<1>14. /\ skipped \in Cycle!Cycle /\ skipped.progress.next = 1
       /\ skipped.progress.completed[0] = h
       /\ skipped.heads = decided.heads /\ skipped.findings = decided.findings
       /\ skipped.convergence = decided.convergence /\ skipped.deslop = decided.deslop
       /\ skipped.github = decided.github
  BY <1>5, <1>10, <1>13 DEF Cycle!Cycle
<1> HIDE DEF skipped
<1>15. /\ green \in Cycle!Cycle
       /\ green.progress = skipped.progress /\ green.heads = skipped.heads
       /\ green.findings = skipped.findings /\ green.convergence = skipped.convergence
       /\ green.deslop = skipped.deslop /\ green.github = skipped.github
  BY <1>14 DEF Cycle!Cycle, Cycle!Validation
<1> HIDE DEF green
<1>16. Ready(green, "review-green")
  <2>1. h # None
    BY <1>2, CommitAssumption
  <2>2. ~Cycle!DeslopTracked(green) /\ ~Cycle!GithubTerminal(green)
    BY <1>2, <1>4, <1>14, <1>15 DEF Cycle!DeslopTracked, Cycle!GithubTerminal
  <2>3. green.findings = Cycle!NoFindings /\ green.heads.reviewed = h
        /\ green.progress.completed[0] = h /\ green.convergence.continuePending = FALSE
    BY <1>2, <1>4, <1>14, <1>15
  <2>4. "review-green" \notin Fixing
    BY DEF Fixing
  <2> QED
    BY <1>2, <1>15, <2>1, <2>2, <2>3, <2>4 DEF Ready, FindingsKnown
<1>17. Cycle!NoAction \in Cycle!Pending /\ "review-green" \in Cycle!Stages \ Asking
  BY ActIs DEF Cycle!ActionKinds, Cycle!Stages, Asking
<1> DEFINE r == Cycle!SetStage(green, "review-green", Cycle!NoAction)
<1>18. /\ Good(r) /\ r.stage = "review-green" /\ r.heads = green.heads
       /\ r.convergence = green.convergence /\ r.github = green.github /\ r.deslop = green.deslop
  BY <1>16, <1>17, SetStageGood
<1>19. Cycle!RecordDecision(d, "clean") = r
  <2>1. Cycle!RecordDecision(d, "clean") = Cycle!RecordCleanDecision(d)
    BY <1>2 DEF Cycle!RecordDecision
  <2>2. Cycle!RecordCleanDecision(d) = Cycle!AdvanceOrGreen(skipped)
    BY <1>2 DEF Cycle!RecordCleanDecision, skipped, done, decided
  <2>3. ~Cycle!HasNextStep(skipped)
    BY <1>14, OneStep DEF Cycle!HasNextStep
  <2> QED
    BY <2>1, <2>2, <2>3 DEF Cycle!AdvanceOrGreen, green
<1> HIDE DEF r
<1>20. r.heads.reviewed = h
  BY <1>4, <1>14, <1>15, <1>18
<1> QED
  BY <1>4, <1>14, <1>15, <1>18, <1>19, <1>20

\* Going back to the step: what is completed is forgotten.
LEMMA RewindIs ==
  ASSUME NEW d \in Cycle!Cycle
  PROVE  LET r == Cycle!RewindStep(d, 0)
         IN  /\ r \in Cycle!Cycle /\ r.findings = d.findings /\ r.heads = d.heads
             /\ r.convergence = d.convergence /\ r.deslop = d.deslop /\ r.github = d.github
             /\ r.stage = d.stage /\ r.pending = d.pending /\ r.validation = d.validation
<1>1. [next |-> 0, completed |-> [j \in Cycle!Steps |->
          IF j < 0 THEN d.progress.completed[j] ELSE None]] \in Cycle!Progress
  BY OneStep DEF Cycle!Progress, MaybeCommit
<1> QED
  BY <1>1 DEF Cycle!RewindStep, Cycle!Cycle

\* A new commit while findings are open: the step is repeated for it, with nothing open,
\* unless the caller has to decide on the budget.
LEMMA FixDetectedGood ==
  ASSUME NEW d, FixDue(d), NEW h \in Commits
  PROVE  LET r == Cycle!MarkFixDetected(d, h)
         IN  /\ r = d \/ (Good(r) /\ r.stage = "created" /\ r.round = Cycle!NoRound)
             /\ r.deslop = d.deslop /\ r.convergence = d.convergence
<1> DEFINE f == d.findings
           fixed == [d EXCEPT !.heads.fix = h]
           closed == [fixed EXCEPT !.findings = Cycle!NoFindings, !.validation.green = FALSE]
           again == Cycle!RewindStep(closed, 0)
           act == [Cycle!Act("run-review-step") EXCEPT !.fix = f.head]
           r == Cycle!SetStage(again, "created", act)
<1>1. /\ d \in Cycle!Cycle /\ f.head \in Commits /\ f.step = 0
      /\ ~Cycle!DeslopTracked(d) /\ ~Cycle!GithubTerminal(d)
      /\ d.convergence.continuePending = FALSE
  <2>1. d.stage \notin {"created", "retry-requested", "review-green"}
    BY DEF FixDue, Fixing
  <2> QED
    BY <2>1 DEF FixDue, Good, FindingsKnown, CleanupHeld, VerdictKnown, Cycle!DeslopTracked,
                Cycle!GithubTerminal
<1>2. /\ fixed \in Cycle!Cycle /\ fixed.findings = f /\ fixed.convergence = d.convergence
      /\ fixed.deslop = d.deslop /\ fixed.github = d.github
  BY <1>1, OneStep DEF Cycle!Cycle, Cycle!ReviewHeads, MaybeCommit
<1> HIDE DEF fixed
<1>3. Cycle!NoFindings \in Cycle!Findings
  BY OneStep DEF Cycle!NoFindings, Cycle!Findings, MaybeCommit
<1>4. /\ closed \in Cycle!Cycle /\ closed.findings = Cycle!NoFindings
      /\ closed.convergence = d.convergence /\ closed.deslop = d.deslop
      /\ closed.github = d.github
  BY <1>2, <1>3 DEF Cycle!Cycle, Cycle!Validation
<1> HIDE DEF closed
<1>5. /\ again \in Cycle!Cycle /\ again.findings = Cycle!NoFindings
      /\ again.convergence = d.convergence /\ again.deslop = d.deslop
      /\ again.github = d.github
  BY <1>4, RewindIs
<1> HIDE DEF again
<1>6. Ready(again, "created")
  <2>1. ~Cycle!DeslopTracked(again) /\ ~Cycle!GithubTerminal(again)
    BY <1>1, <1>5 DEF Cycle!DeslopTracked, Cycle!GithubTerminal
  <2>2. "created" \notin Fixing
    BY DEF Fixing
  <2> QED
    BY <1>1, <1>5, <2>1, <2>2 DEF Ready, FindingsKnown
<1>7. act \in Cycle!Pending /\ "created" \in Cycle!Stages \ Asking
  <2>1. "run-review-step" \in Cycle!ActionKinds /\ f.head \in MaybeCommit
    BY <1>1 DEF Cycle!ActionKinds, MaybeCommit
  <2> QED
    BY <2>1, ActIs DEF Cycle!Stages, Asking
<1> HIDE DEF act
<1>8. /\ Good(r) /\ r.stage = "created" /\ r.round = Cycle!NoRound
      /\ r.deslop = d.deslop /\ r.convergence = d.convergence
  BY <1>5, <1>6, <1>7, SetStageGood
<1>9. Cycle!MarkFixDetected(d, h) = IF d.convergence.status = "DECISION_REQUIRED" THEN d
                                    ELSE Cycle!MarkProfileFixReviewNeeded(fixed)
  BY DEF Cycle!MarkFixDetected, fixed
<1>10. Cycle!MarkProfileFixReviewNeeded(fixed) = r
  <2>1. ~Cycle!FixedFindingsBudget(0)
    BY OneStep DEF Cycle!FixedFindingsBudget
  <2>2. fixed.findings.step = 0 /\ fixed.findings.head = f.head
    BY <1>1, <1>2
  <2> QED
    BY <2>1, <2>2 DEF Cycle!MarkProfileFixReviewNeeded, again, closed, act
<1> HIDE DEF r
<1> QED
  BY <1>8, <1>9, <1>10

\* The newest completed step of a green cycle is its only one.
LEMMA LastIs ==
  ASSUME NEW d, d.progress.completed[0] # None
  PROVE  Cycle!LastCompleted(d) = 0
<1>1. Cycle!Completed(d) = {0}
  BY OneStep DEF Cycle!Completed
<1> QED
  BY <1>1 DEF Cycle!LastCompleted

\* A green cycle whose head has changed is to be signed off again.
LEMMA RepeatGood ==
  ASSUME NEW d, Good(d), d.stage = "review-green", NEW h \in Commits,
         d.github.status = "unknown"
  PROVE  LET r == Cycle!MarkLatestProfileStepRerunNeeded(d, h)
         IN  /\ Good(r) /\ r.stage = "created" /\ r.round = Cycle!NoRound
             /\ r.deslop = d.deslop /\ r.convergence = d.convergence
<1> DEFINE reset == [d EXCEPT !.heads.fix = h, !.validation = Cycle!NewValidation]
           again == Cycle!RewindStep(reset, 0)
           act == Cycle!Act("run-review-step")
           r == Cycle!SetStage(again, "created", act)
<1>1. /\ d \in Cycle!Cycle /\ d.findings = Cycle!NoFindings /\ d.progress.completed[0] # None
      /\ ~Cycle!DeslopTracked(d) /\ ~Cycle!GithubTerminal(d)
      /\ d.convergence.continuePending = FALSE
  BY DEF Good, GreenKnown, CleanupHeld, Fixing, Cycle!DeslopTracked, Cycle!GithubTerminal
<1>2. Cycle!NewValidation \in Cycle!Validation
  BY DEF Cycle!NewValidation, Cycle!Validation, Cycle!GateStatuses
<1>3. /\ reset \in Cycle!Cycle /\ reset.findings = d.findings
      /\ reset.convergence = d.convergence /\ reset.deslop = d.deslop
      /\ reset.github = d.github
  BY <1>1, <1>2, OneStep DEF Cycle!Cycle, Cycle!ReviewHeads, MaybeCommit
<1> HIDE DEF reset
<1>4. /\ again \in Cycle!Cycle /\ again.findings = d.findings
      /\ again.convergence = d.convergence /\ again.deslop = d.deslop
      /\ again.github = d.github
  BY <1>3, RewindIs
<1> HIDE DEF again
<1>5. Ready(again, "created")
  <2>1. ~Cycle!DeslopTracked(again) /\ ~Cycle!GithubTerminal(again)
    BY <1>1, <1>4 DEF Cycle!DeslopTracked, Cycle!GithubTerminal
  <2>2. "created" \notin Fixing
    BY DEF Fixing
  <2> QED
    BY <1>1, <1>4, <2>1, <2>2 DEF Ready, FindingsKnown
<1>6. act \in Cycle!Pending /\ "created" \in Cycle!Stages \ Asking
  BY ActIs DEF Cycle!ActionKinds, Cycle!Stages, Asking
<1> HIDE DEF act
<1>7. /\ Good(r) /\ r.stage = "created" /\ r.round = Cycle!NoRound
      /\ r.deslop = d.deslop /\ r.convergence = d.convergence
  BY <1>4, <1>5, <1>6, SetStageGood
<1>8. Cycle!MarkLatestProfileStepRerunNeeded(d, h) = r
  BY <1>1, LastIs DEF Cycle!MarkLatestProfileStepRerunNeeded, again, reset, act
<1> HIDE DEF r
<1> QED
  BY <1>7, <1>8

\* A blocked round is asked again.
LEMMA RetryGood ==
  ASSUME NEW d, Good(d)
  PROVE  LET r == Cycle!RetryBlocked(d)
         IN  /\ d.stage = "decision-pending" /\ d.round.blocked
                  => Good(r) /\ r.stage = "created" /\ r.round = Cycle!NoRound
             /\ ~(d.stage = "decision-pending" /\ d.round.blocked) => r = d
             /\ r.deslop = d.deslop /\ r.convergence = d.convergence
<1>1. CASE ~(d.stage = "decision-pending" /\ d.round.blocked)
  BY <1>1 DEF Cycle!RetryBlocked
<1>2. CASE d.stage = "decision-pending" /\ d.round.blocked
  <2> DEFINE back == [d EXCEPT !.progress.next = 0]
             act == [Cycle!Act("run-review-step") EXCEPT !.fix = d.pending.fix]
             r == Cycle!SetStage(back, "created", act)
  <2>1. /\ d \in Cycle!Cycle /\ d.pending.step = 0 /\ ~Cycle!IsFollowup(d)
        /\ d.findings = Cycle!NoFindings
        /\ ~Cycle!DeslopTracked(d) /\ ~Cycle!GithubTerminal(d)
        /\ d.convergence.continuePending = FALSE
    <3>1. d.stage \in Asking
      BY <1>2 DEF Asking
    <3> QED
      BY <3>1, AskingIs
  <2>2. /\ back \in Cycle!Cycle /\ back.findings = d.findings
        /\ back.convergence = d.convergence /\ back.deslop = d.deslop
        /\ back.github = d.github
    BY <2>1, OneStep DEF Cycle!Cycle, Cycle!Progress
  <2> HIDE DEF back
  <2>3. Ready(back, "created")
    <3>1. ~Cycle!DeslopTracked(back) /\ ~Cycle!GithubTerminal(back)
      BY <2>1, <2>2 DEF Cycle!DeslopTracked, Cycle!GithubTerminal
    <3>2. "created" \notin Fixing
      BY DEF Fixing
    <3> QED
      BY <2>1, <2>2, <3>1, <3>2 DEF Ready, FindingsKnown
  <2>4. act \in Cycle!Pending /\ "created" \in Cycle!Stages \ Asking
    <3>1. "run-review-step" \in Cycle!ActionKinds /\ d.pending.fix \in MaybeCommit
      BY <2>1, OneStep DEF Cycle!ActionKinds, Cycle!Cycle, Cycle!Pending
    <3> QED
      BY <3>1, ActIs DEF Cycle!Stages, Asking
  <2> HIDE DEF act
  <2>5. /\ Good(r) /\ r.stage = "created" /\ r.round = Cycle!NoRound
        /\ r.deslop = d.deslop /\ r.convergence = d.convergence
    BY <2>2, <2>3, <2>4, SetStageGood
  <2>6. Cycle!RetryBlocked(d) = r
    BY <1>2, <2>1 DEF Cycle!RetryBlocked, back, act
  <2> HIDE DEF r
  <2> QED
    BY <1>2, <2>5, <2>6
<1> QED
  BY <1>1, <1>2

-----------------------------------------------------------------------------
(* The closure pass                                                         *)

\* A closure pass is tracked before the first round, with nothing open.
LEMMA TrackedIs ==
  ASSUME NEW d, Good(d), Cycle!DeslopTracked(d)
  PROVE  /\ d \in Cycle!Cycle /\ d.findings = Cycle!NoFindings /\ d.progress.next = 0
         /\ d.stage \in {"created", "retry-requested"} /\ d.round.verdict # "clean"
         /\ ~Cycle!GithubTerminal(d) /\ ~Cycle!DeslopReady(d)
         /\ d.convergence.continuePending = FALSE
<1>1. d.deslop.status \in {"tracked", "done", "failed"}
  BY DEF Cycle!DeslopTracked
<1>2. d.stage \in {"created", "retry-requested"} /\ d.progress.next = 0
  BY <1>1 DEF Good, CleanupHeld
<1>3. d.deslop.status = "tracked" => Cycle!DeslopShouldRun(d)
  BY <1>2, OneStep DEF Good, CleanupHeld, Cycle!DeslopShouldRun
<1>4. d.stage \notin Asking \union Fixing \union {"review-green"}
  BY <1>2 DEF Asking, Fixing
<1>5. ~Cycle!DeslopReady(d)
  BY <1>3 DEF Cycle!DeslopReady
<1> QED
  BY <1>2, <1>4, <1>5 DEF Good, RoundKnown, VerdictKnown

LEMMA ClosedGood ==
  ASSUME NEW d, Good(d), Cycle!DeslopOpen(d)
  PROVE  LET r == Cycle!MarkDeslopClosed(d, FALSE)
         IN  /\ Good(r) /\ r.stage = d.stage /\ r.findings = d.findings
             /\ r.round = d.round /\ r.convergence = d.convergence
             /\ r.deslop.status = "closed"
<1> DEFINE r == Cycle!MarkDeslopClosed(d, FALSE)
<1>1. d \in Cycle!Cycle /\ d.deslop.status = "done" /\ Cycle!DeslopTracked(d)
  BY DEF Good, Cycle!DeslopOpen, Cycle!DeslopTracked
<1>2. /\ d.findings = Cycle!NoFindings /\ d.round.verdict # "clean" /\ d.stage = "created"
      /\ ~Cycle!GithubTerminal(d) /\ d.convergence.continuePending = FALSE
  BY <1>1, TrackedIs DEF Good, CleanupHeld
<1>3. /\ r \in Cycle!Cycle /\ r.stage = d.stage /\ r.findings = d.findings
      /\ r.round = d.round /\ r.convergence = d.convergence /\ r.github = d.github
      /\ r.deslop.status = "closed"
  BY <1>1 DEF Cycle!MarkDeslopClosed, Cycle!Cycle, Cycle!Deslop
<1> HIDE DEF r
<1>4. "created" \notin Asking \union Fixing \union {"review-green"}
  BY DEF Asking, Fixing
<1>5. Good(r)
  BY <1>2, <1>3, <1>4 DEF Good, FindingsKnown, RoundKnown, GreenKnown, CleanupHeld,
     VerdictKnown, Cycle!DeslopTracked, Cycle!GithubTerminal
<1> QED
  BY <1>3, <1>5 DEF r

LEMMA CleanupEnds ==
  ASSUME NEW d, Good(d), d.deslop.status \in {"tracked", "failed"}
  PROVE  /\ Good(Cycle!MarkDeslopDone(d, FALSE, d.heads.head))
         /\ Good(Cycle!MarkDeslopFailed(d))
         /\ Cycle!MarkDeslopDone(d, FALSE, d.heads.head).stage = "created"
         /\ Cycle!MarkDeslopFailed(d).stage = "retry-requested"
<1>1. Cycle!DeslopTracked(d)
  BY DEF Cycle!DeslopTracked
<1>2. /\ d \in Cycle!Cycle /\ d.findings = Cycle!NoFindings /\ d.progress.next = 0
      /\ ~Cycle!GithubTerminal(d) /\ d.convergence.continuePending = FALSE
  BY <1>1, TrackedIs
<1>3. d.heads.head \in Commits /\ d.pending.fix \in MaybeCommit
  BY <1>2, OneStep DEF Cycle!Cycle, Cycle!ReviewHeads, Cycle!Pending
<1>4. /\ [Cycle!Act("run-review-step") EXCEPT !.fix = d.pending.fix] \in Cycle!Pending
      /\ [Cycle!Act("run-deslop") EXCEPT !.fix = d.pending.fix] \in Cycle!Pending
      /\ [Cycle!Act("run-deslop") EXCEPT !.fix = d.pending.fix].kind = "run-deslop"
  BY <1>3, ActIs DEF Cycle!ActionKinds
<1>5. Cycle!NoRound \in Cycle!RoundFile /\ Cycle!NoRound.verdict = "unclear"
  BY DEF Cycle!NoRound, Cycle!RoundFile
<1>6. "created" \notin Asking \union Fixing /\ "retry-requested" \notin Asking \union Fixing
  BY DEF Asking, Fixing
<1>7. /\ Good(Cycle!MarkDeslopDone(d, FALSE, d.heads.head))
      /\ Cycle!MarkDeslopDone(d, FALSE, d.heads.head).stage = "created"
  <2> DEFINE a == [Cycle!Act("run-review-step") EXCEPT !.fix = d.pending.fix]
             r == Cycle!MarkDeslopDone(d, FALSE, d.heads.head)
  <2> HIDE DEF a
  <2>1. a \in Cycle!Pending
    BY <1>4 DEF a
  <2>2. r \in Cycle!Cycle
    BY <1>2, <1>3, <1>5, <2>1, OneStep
       DEF Cycle!MarkDeslopDone, Cycle!SetStage, Cycle!Cycle, Cycle!Deslop, Cycle!Stages, a,
           MaybeCommit
  <2>3. /\ r.stage = "created" /\ r.findings = d.findings /\ r.progress = d.progress
        /\ r.github = d.github /\ r.convergence = d.convergence /\ r.round = Cycle!NoRound
        /\ r.deslop.status = "done" /\ r.deslop.head = d.heads.head
    BY <1>2 DEF Cycle!MarkDeslopDone, Cycle!SetStage, Cycle!Cycle, Cycle!Deslop
  <2> HIDE DEF r
  <2>4. Good(r)
    BY <1>2, <1>3, <1>5, <1>6, <2>2, <2>3 DEF Good, FindingsKnown, RoundKnown, GreenKnown,
       CleanupHeld, VerdictKnown, Cycle!GithubTerminal
  <2> QED
    BY <2>3, <2>4 DEF r
<1>8. /\ Good(Cycle!MarkDeslopFailed(d))
      /\ Cycle!MarkDeslopFailed(d).stage = "retry-requested"
  <2> DEFINE a == [Cycle!Act("run-deslop") EXCEPT !.fix = d.pending.fix]
             r == Cycle!MarkDeslopFailed(d)
  <2> HIDE DEF a
  <2>1. a \in Cycle!Pending /\ a.kind = "run-deslop"
    BY <1>4 DEF a
  <2>2. r \in Cycle!Cycle
    BY <1>2, <1>5, <2>1
       DEF Cycle!MarkDeslopFailed, Cycle!SetStage, Cycle!Cycle, Cycle!Deslop, Cycle!Stages, a
  <2>3. /\ r.stage = "retry-requested" /\ r.findings = d.findings /\ r.progress = d.progress
        /\ r.github = d.github /\ r.convergence = d.convergence /\ r.round = Cycle!NoRound
        /\ r.deslop.status = "failed" /\ r.pending = a
    BY <1>2 DEF Cycle!MarkDeslopFailed, Cycle!SetStage, Cycle!Cycle, Cycle!Deslop, a
  <2> HIDE DEF r
  <2>4. Good(r)
    BY <1>2, <1>5, <1>6, <2>1, <2>2, <2>3 DEF Good, FindingsKnown, RoundKnown, GreenKnown,
       CleanupHeld, VerdictKnown, Cycle!GithubTerminal
  <2> QED
    BY <2>3, <2>4 DEF r
<1> QED
  BY <1>7, <1>8

-----------------------------------------------------------------------------
(* Following the branch                                                     *)

\* A document for another head of the branch, with its validation kept or dropped.
LEMMA MovedGood ==
  ASSUME NEW d, Good(d), NEW h \in Commits, NEW v \in Cycle!Validation
  PROVE  LET r == [d EXCEPT !.heads.head = h]
             t == [r EXCEPT !.validation = v]
         IN  /\ Good(r) /\ Good(t) /\ r.heads.head = h /\ t.heads.head = h
             /\ \A u \in {r, t} :
                  /\ u.stage = d.stage /\ u.findings = d.findings /\ u.pending = d.pending
                  /\ u.deslop = d.deslop /\ u.github = d.github /\ u.round = d.round
                  /\ u.convergence = d.convergence /\ u.progress = d.progress
                  /\ u.heads.reviewed = d.heads.reviewed
<1> DEFINE r == [d EXCEPT !.heads.head = h]
           t == [r EXCEPT !.validation = v]
<1>1. d \in Cycle!Cycle
  BY DEF Good
<1>2. /\ r \in Cycle!Cycle /\ r.heads.head = h
      /\ r.stage = d.stage /\ r.findings = d.findings /\ r.pending = d.pending
      /\ r.deslop = d.deslop /\ r.github = d.github /\ r.round = d.round
      /\ r.convergence = d.convergence /\ r.progress = d.progress
      /\ r.heads.reviewed = d.heads.reviewed
  BY <1>1 DEF Cycle!Cycle, Cycle!ReviewHeads
<1> HIDE DEF r
<1>3. /\ t \in Cycle!Cycle /\ t.heads = r.heads
      /\ t.stage = d.stage /\ t.findings = d.findings /\ t.pending = d.pending
      /\ t.deslop = d.deslop /\ t.github = d.github /\ t.round = d.round
      /\ t.convergence = d.convergence /\ t.progress = d.progress
  BY <1>2 DEF Cycle!Cycle
<1> HIDE DEF t
<1>4. Good(r) /\ Good(t)
  BY <1>2, <1>3 DEF Good, FindingsKnown, RoundKnown, GreenKnown, CleanupHeld, VerdictKnown,
     Cycle!DeslopTracked, Cycle!GithubTerminal
<1> QED
  BY <1>2, <1>3, <1>4 DEF r, t

\* Rewriting the stored heads: what a head changes stays.
LEMMA RewriteGood ==
  ASSUME NEW d, Good(d), NEW from \in Commits, NEW to \in Commits,
         Changes(from) = Changes(to)
  PROVE  LET r == Rewrite(d, from, to)
         IN  /\ Good(r) /\ r.stage = d.stage /\ r.round = d.round
             /\ r.deslop.status = d.deslop.status /\ r.github = d.github
             /\ r.convergence = d.convergence /\ r.validation = d.validation
             /\ r.pending.head = (IF d.pending.head = from THEN to ELSE d.pending.head)
             /\ r.findings.head = (IF d.findings.head = from THEN to ELSE d.findings.head)
             /\ r.deslop.head = (IF d.deslop.head = from THEN to ELSE d.deslop.head)
             /\ r.heads.reviewed = (IF d.heads.reviewed = from THEN to ELSE d.heads.reviewed)
             /\ (r.findings = Cycle!NoFindings) <=> (d.findings = Cycle!NoFindings)
<1> DEFINE New(h) == IF h = from THEN to ELSE h
           r == Rewrite(d, from, to)
<1>1. d \in Cycle!Cycle /\ from # None /\ to # None
  BY CommitAssumption DEF Good
<1>2. /\ \A h \in Commits : New(h) \in Commits
      /\ \A h \in MaybeCommit : New(h) \in MaybeCommit
      /\ \A h : New(h) = None <=> h = None
  BY <1>1 DEF MaybeCommit
<1> DEFINE ds == [d.deslop EXCEPT !.head = New(@)]
           fs == [d.findings EXCEPT !.head = New(@)]
           ps == [d.pending EXCEPT !.head = New(@), !.fix = New(@)]
           hs == [k \in DOMAIN d.heads |-> New(d.heads[k])]
           cs == [i \in DOMAIN d.progress.completed |-> New(d.progress.completed[i])]
           gs == [d.progress EXCEPT !.completed = cs]
<1>3. r = [d EXCEPT !.deslop = ds, !.findings = fs, !.pending = ps, !.heads = hs,
                    !.progress = gs]
  BY <1>1 DEF Rewrite, Cycle!Cycle, Cycle!Pending, Cycle!Deslop, Cycle!Findings, Cycle!Progress
<1> HIDE DEF New, r
<1>4. /\ ds \in Cycle!Deslop /\ ds.status = d.deslop.status /\ ds.head = New(d.deslop.head)
      /\ fs \in Cycle!Findings /\ fs.step = d.findings.step /\ fs.head = New(d.findings.head)
      /\ fs.rerun = d.findings.rerun
  BY <1>1, <1>2, OneStep DEF Cycle!Cycle, Cycle!Deslop, Cycle!Findings
<1>5. /\ ps \in Cycle!Pending /\ ps.step = d.pending.step /\ ps.head = New(d.pending.head)
      /\ ps.kind = d.pending.kind
  BY <1>1, <1>2, OneStep DEF Cycle!Cycle, Cycle!Pending
<1>6. hs \in Cycle!ReviewHeads /\ hs.reviewed = New(d.heads.reviewed)
  <2>1. d.heads \in [head : Commits, reviewed : MaybeCommit, fix : MaybeCommit,
                     followup : MaybeCommit]
    BY <1>1, OneStep DEF Cycle!Cycle, Cycle!ReviewHeads
  <2>2. hs = [head |-> New(d.heads.head), reviewed |-> New(d.heads.reviewed),
              fix |-> New(d.heads.fix), followup |-> New(d.heads.followup)]
    BY <2>1
  <2> HIDE DEF hs
  <2> QED
    BY <1>2, <2>1, <2>2, OneStep DEF Cycle!ReviewHeads
<1>7. gs \in Cycle!Progress /\ gs.next = d.progress.next
      /\ gs.completed[0] = New(d.progress.completed[0])
  <2>1. d.progress \in [next : 0 .. 1, completed : [{0} -> MaybeCommit]]
    BY <1>1, OneStep DEF Cycle!Cycle, Cycle!Progress
  <2>2. cs \in [{0} -> MaybeCommit] /\ cs[0] = New(d.progress.completed[0])
    BY <1>2, <2>1
  <2> HIDE DEF cs
  <2> QED
    BY <2>1, <2>2, OneStep DEF Cycle!Progress
<1>8. /\ r \in Cycle!Cycle /\ r.deslop = ds /\ r.findings = fs /\ r.pending = ps
      /\ r.heads = hs /\ r.progress = gs /\ r.stage = d.stage /\ r.round = d.round
      /\ r.github = d.github /\ r.convergence = d.convergence
      /\ r.validation = d.validation
  <2> HIDE DEF ds, fs, ps, hs, gs
  <2> QED
    BY <1>1, <1>3, <1>4, <1>5, <1>6, <1>7 DEF Cycle!Cycle
<1> HIDE DEF ds, fs, ps, hs, gs
<1>9. (r.findings = Cycle!NoFindings) <=> (d.findings = Cycle!NoFindings)
  <2>1. d.findings = [head |-> d.findings.head, step |-> d.findings.step,
                      rerun |-> d.findings.rerun]
        /\ fs = [head |-> fs.head, step |-> fs.step, rerun |-> fs.rerun]
    BY <1>1, <1>4 DEF Cycle!Cycle, Cycle!Findings
  <2>2. fs.head = None <=> d.findings.head = None
    BY <1>2, <1>4
  <2>3. Cycle!NoFindings.head = None /\ Cycle!NoFindings.step = Cycle!NoStep
        /\ Cycle!NoFindings.rerun = FALSE
    BY DEF Cycle!NoFindings
  <2>4. fs = Cycle!NoFindings <=> d.findings = Cycle!NoFindings
    BY <1>4, <2>1, <2>2, <2>3 DEF Cycle!NoFindings
  <2> QED
    BY <1>8, <2>4
<1>10. Good(r)
  <2>1. FindingsKnown(r)
    BY <1>2, <1>4, <1>8, <1>9 DEF Good, FindingsKnown
  <2>2. RoundKnown(r)
    BY <1>2, <1>5, <1>8 DEF Good, RoundKnown
  <2>3. GreenKnown(r)
    BY <1>2, <1>6, <1>7, <1>8 DEF Good, GreenKnown
  <2>4. CleanupHeld(r)
    BY <1>2, <1>4, <1>5, <1>7, <1>8 DEF Good, CleanupHeld, Cycle!DeslopTracked
  <2>5. VerdictKnown(r)
    BY <1>8 DEF Good, VerdictKnown, Cycle!GithubTerminal
  <2> QED
    BY <1>8, <1>9, <2>1, <2>2, <2>3, <2>4, <2>5 DEF Good
<1> QED
  BY <1>4, <1>5, <1>6, <1>8, <1>9, <1>10 DEF New, r

-----------------------------------------------------------------------------
(* A stored cycle, and the commit its newest round was launched on           *)

MaybeDrift == [equivalent : BOOLEAN, from : MaybeCommit, to : MaybeCommit]

\* An equivalent head makes the changes of the head it stands for.
DriftOK(r) ==
    r.equivalent => r.from \in Commits /\ r.to \in Commits /\ Changes(r.from) = Changes(r.to)

\* A round that is asked or signed off, and the GitHub review after it, are of a commit
\* with the changes l.
Matches(d, l) ==
    /\ d.stage \in Asking => Changes(d.pending.head) = l
    /\ d.stage = "review-green" => Changes(d.heads.reviewed) = l
    /\ Cycle!GithubTerminal(d) => Changes(d.github.head) = l

\* A round is asked about a commit the branch has been at, or about a base commit.
SeenBy(d, t) ==
    d.stage \in Asking => Past(d.pending.head, t) \/ Changes(d.pending.head) = {}

Stored == [doc : Cycle!Cycle, mb : BaseCommits, drift : MaybeDrift]

StateOK(s, l, t) ==
    /\ s \in Stored
    /\ Good(s.doc)
    /\ DriftOK(s.drift)
    /\ Matches(s.doc, l)
    /\ SeenBy(s.doc, t)

Env == TipOK(tip) /\ base \in BaseCommits /\ elsewhere \in BOOLEAN

\* Where no round is asked or signed off there is nothing to match.
Quiet(d) == Good(d) /\ d.stage \notin Asking \union {"review-green"}

LEMMA QuietMatches ==
  ASSUME NEW d, Quiet(d), NEW l, NEW t
  PROVE  Matches(d, l) /\ SeenBy(d, t)
BY DEF Quiet, Good, VerdictKnown, Matches, SeenBy

\* Another document in the same cycle.
LEMMA WithDoc ==
  ASSUME NEW s \in Stored, DriftOK(s.drift), NEW d, Quiet(d), NEW l, NEW t
  PROVE  StateOK([s EXCEPT !.doc = d], l, t) /\ [s EXCEPT !.doc = d].doc = d
         /\ [s EXCEPT !.doc = d].mb = s.mb
<1> DEFINE r == [s EXCEPT !.doc = d]
<1>1. r \in Stored /\ r.doc = d /\ r.drift = s.drift /\ r.mb = s.mb
  BY DEF Stored, Quiet, Good
<1> HIDE DEF r
<1>2. StateOK(r, l, t)
  BY <1>1, QuietMatches DEF StateOK, Quiet
<1> QED
  BY <1>1, <1>2 DEF r

LEMMA HeadIs ==
  ASSUME Env
  PROVE  /\ HEAD \in Commits /\ HEAD \in Histories /\ MergeBase(HEAD) \in BaseCommits
         /\ HasParent(HEAD) /\ ~elsewhere => FirstParent(HEAD) \in Commits
         /\ ~elsewhere => HEAD = tip /\ Past(FirstParent(HEAD), tip) /\ Changes(HEAD) # {}
         /\ Past(HEAD, tip) \/ Changes(HEAD) = {}
<1>1. tip \in Commits /\ tip \in Histories /\ HasEdit(tip)
  BY CommitsAre DEF Env, TipOK
<1>2. HEAD \in Commits
  BY <1>1, BaseIsCommit DEF HEAD, Env
<1>3. HEAD \in Histories
  BY <1>2, CommitsAre
<1>4. MergeBase(HEAD) \in BaseCommits
  BY <1>3, MergeBaseIs
<1>5. Past(tip, tip)
  BY DEF Past
<1>6. Changes(tip) # {}
  BY <1>1, EditChanges
<1>7. Changes(BaseCommit(base)) = {}
  BY BaseChanges DEF Env
<1>8. FirstParent(tip) \in Commits
  BY <1>1, ParentIs
<1> QED
  BY <1>2, <1>3, <1>4, <1>5, <1>6, <1>7, <1>8 DEF HEAD, Env, TipOK

\* _base_drift_reviewed_head is always there.
LEMMA ReviewedHeadIs ==
  ASSUME NEW d, Good(d)
  PROVE  LET f == DriftReviewedHead(d)
         IN  /\ f \in Commits
             /\ Cycle!DeslopOpen(d) => f = d.deslop.head
             /\ d.findings # Cycle!NoFindings => f = d.findings.head
             /\ d.stage \in Asking => f = d.pending.head
<1> DEFINE stored == <<IF Cycle!DeslopOpen(d) THEN d.deslop.head ELSE None,
                       d.findings.head, d.pending.head, d.heads.reviewed, d.heads.head>>
           K == {k \in DOMAIN stored : stored[k] # None}
<1>1. d \in Cycle!Cycle
  BY DEF Good
<1>2. /\ d.deslop.head \in MaybeCommit /\ d.findings.head \in MaybeCommit
      /\ d.pending.head \in MaybeCommit /\ d.heads.reviewed \in MaybeCommit
      /\ d.heads.head \in Commits
  BY <1>1, OneStep DEF Cycle!Cycle, Cycle!Deslop, Cycle!Findings, Cycle!Pending,
     Cycle!ReviewHeads
<1>3. DOMAIN stored = 1 .. 5 /\ stored[5] \in Commits
      /\ \A k \in 1 .. 5 : stored[k] \in MaybeCommit
  BY <1>2 DEF MaybeCommit
<1>4. stored[1] = (IF Cycle!DeslopOpen(d) THEN d.deslop.head ELSE None)
      /\ stored[2] = d.findings.head /\ stored[3] = d.pending.head
  OBVIOUS
<1> HIDE DEF stored
<1>5. K \subseteq Nat /\ 5 \in K
  BY <1>3, CommitAssumption
<1> HIDE DEF K
<1>6. Min(K) \in K /\ \A k \in K : Min(K) <= k
  <2>1. \E k \in K : \A j \in K : k <= j
    BY <1>5, LeastOf
  <2> QED
    BY <2>1 DEF Min
<1>7. DriftReviewedHead(d) = stored[Min(K)]
  BY DEF DriftReviewedHead, K, stored
<1>8. Min(K) \in 1 .. 5 /\ stored[Min(K)] # None
  BY <1>3, <1>6 DEF K
<1>9. stored[Min(K)] \in Commits
  BY <1>3, <1>8 DEF MaybeCommit
<1>10. Cycle!DeslopOpen(d) => DriftReviewedHead(d) = d.deslop.head
  <2>1. SUFFICES ASSUME Cycle!DeslopOpen(d) PROVE DriftReviewedHead(d) = d.deslop.head
    OBVIOUS
  <2>2. d.deslop.head \in Commits
    BY <2>1 DEF Good, CleanupHeld, Cycle!DeslopOpen
  <2>3. 1 \in K
    BY <1>3, <1>4, <2>1, <2>2, CommitAssumption DEF K
  <2>4. Min(K) = 1
    BY <1>6, <1>8, <2>3
  <2> QED
    BY <1>4, <1>7, <2>1, <2>4
<1>11. d.findings # Cycle!NoFindings => DriftReviewedHead(d) = d.findings.head
  <2>1. SUFFICES ASSUME d.findings # Cycle!NoFindings
                 PROVE  DriftReviewedHead(d) = d.findings.head
    OBVIOUS
  <2>2. d.findings.head \in Commits /\ ~Cycle!DeslopOpen(d)
    BY <2>1, TrackedIs DEF Good, FindingsKnown, Cycle!DeslopOpen, Cycle!DeslopTracked
  <2>3. 1 \notin K /\ 2 \in K
    BY <1>3, <1>4, <2>2, CommitAssumption DEF K
  <2>4. Min(K) = 2
    BY <1>6, <1>8, <2>3
  <2> QED
    BY <1>4, <1>7, <2>4
<1>12. d.stage \in Asking => DriftReviewedHead(d) = d.pending.head
  <2>1. SUFFICES ASSUME d.stage \in Asking PROVE DriftReviewedHead(d) = d.pending.head
    OBVIOUS
  <2>2. d.findings.head = None /\ d.pending.head \in Commits /\ ~Cycle!DeslopOpen(d)
    <3>1. /\ d.findings = Cycle!NoFindings /\ d.pending.head \in Commits
          /\ ~Cycle!DeslopOpen(d)
      BY <2>1, AskingIs
    <3>2. Cycle!NoFindings.head = None
      BY DEF Cycle!NoFindings
    <3> QED
      BY <3>1, <3>2
  <2>3. 1 \notin K /\ 2 \notin K /\ 3 \in K
    BY <1>3, <1>4, <2>2, CommitAssumption DEF K
  <2>4. Min(K) = 3
    BY <1>6, <1>8, <2>3
  <2> QED
    BY <1>4, <1>7, <2>4
<1> QED
  BY <1>7, <1>9, <1>10, <1>11, <1>12

\* What _allowed_base_drift may have found out about the checkout.
Followable(s, r) ==
    \/ r = NoDrift
    \/ /\ ~elsewhere
       /\ r = [equivalent |-> r.equivalent, from |-> r.from, to |-> r.to]
       /\ r.equivalent \in BOOLEAN /\ r.to \in MaybeCommit
       /\ r.from = DriftReviewedHead(s.doc)
       /\ r.to # None => Changes(r.from) = Changes(r.to) /\ Past(r.to, tip)
       /\ r.equivalent => r.to # None

LEMMA IdentityIs ==
  ASSUME Env, NEW s \in Stored, Good(s.doc)
  PROVE  LET id == Identity(s)
         IN  /\ Followable(s, id.drift)
             /\ id.compatible => ~elsewhere
             /\ elsewhere => ~id.compatible /\ id.drift = NoDrift
             /\ ~Moved(s) => id.drift = NoDrift
             /\ ~elsewhere /\ ~Moved(s) => id.compatible
<1> DEFINE id == Identity(s)
           to == EquivalentReviewedHead(s)
           f == DriftReviewedHead(s.doc)
           r == [equivalent |-> Equivalent(s, HEAD), from |-> f, to |-> to]
<1>1. id = [compatible |-> CompatibleAt(s, to),
            drift |-> IF Moved(s) /\ CompatibleAt(s, to) THEN r ELSE NoDrift]
  BY DEF Identity, Drifted
<1>2. CompatibleAt(s, to) => ~elsewhere
  BY DEF CompatibleAt
<1>3. ~elsewhere /\ ~Moved(s) => CompatibleAt(s, to)
  BY DEF CompatibleAt
<1>4. ASSUME ~elsewhere, NEW h \in Commits, Equivalent(s, h) PROVE Changes(f) = Changes(h)
  <2>1. /\ f \in Histories /\ h \in Histories /\ s.mb \in BaseCommits
        /\ MergeBase(HEAD) \in BaseCommits
    BY <1>4, ReviewedHeadIs, CommitsAre, HeadIs DEF Stored
  <2>2. Patch(BaseCommit(s.mb), f) = Patch(BaseCommit(MergeBase(HEAD)), h)
    BY <1>4 DEF Equivalent, BaseDrift
  <2>3. SameChanges(f, h)
    BY <2>1, <2>2, SeenFrom
  <2> QED
    BY <2>1, <2>3, ChangesSame
<1>5. ASSUME ~elsewhere PROVE Followable(s, r)
  <2>1. /\ HEAD \in Commits /\ FirstParent(HEAD) \in Commits
        /\ Past(HEAD, tip) /\ Past(FirstParent(HEAD), tip)
    <3>1. Past(tip, tip)
      BY DEF Past
    <3> QED
      BY <1>5, <3>1, HeadIs, ParentIs DEF Env, TipOK, HEAD
  <2>2. Equivalent(s, HEAD) \in BOOLEAN
    BY DEF Equivalent
  <2>3. to \in {None, HEAD, FirstParent(HEAD)} /\ (Equivalent(s, HEAD) => to = HEAD)
        /\ (to # None => Equivalent(s, to))
    BY CommitAssumption, <2>1 DEF EquivalentReviewedHead
  <2>4. to # None => Changes(f) = Changes(to) /\ Past(to, tip)
    BY <1>4, <1>5, <2>1, <2>3
  <2>5. to \in MaybeCommit
    BY <2>1, <2>3 DEF MaybeCommit
  <2>6. Equivalent(s, HEAD) => to # None
    BY <2>1, <2>3, CommitAssumption
  <2> HIDE DEF to, f
  <2> QED
    BY <1>5, <2>2, <2>4, <2>5, <2>6 DEF Followable, f
<1>6. Followable(s, NoDrift)
  BY DEF Followable
<1> HIDE DEF r, to
<1> QED
  BY <1>1, <1>2, <1>3, <1>5, <1>6

\* The head h was reviewed on the cycle's merge base, and HEAD changes the same.
Same(s, h) == s.mb = MergeBase(h) /\ Changes(h) = Changes(HEAD)

\* The base went on under a branch that changes the same.
LEMMA SameMoved ==
  ASSUME Env, ~elsewhere, NEW s \in Stored, Good(s.doc), Moved(s),
         Same(s, DriftReviewedHead(s.doc))
  PROVE  /\ Identity(s).compatible
         /\ Identity(s).drift = [equivalent |-> TRUE, from |-> DriftReviewedHead(s.doc),
                                 to |-> HEAD]
<1> DEFINE f == DriftReviewedHead(s.doc)
<1>1. f \in Histories /\ HEAD \in Histories /\ HEAD # None
  BY ReviewedHeadIs, CommitsAre, HeadIs, CommitAssumption
<1>2. BaseDrift(s.mb, MergeBase(HEAD), f, HEAD).overlap = {}
      /\ BaseDrift(s.mb, MergeBase(HEAD), f, HEAD).equivalent
  BY <1>1, SameIsEquivalent DEF Same
<1>3. Equivalent(s, HEAD) /\ DriftAllowed(s)
  BY <1>2 DEF Equivalent, DriftAllowed
<1>4. EquivalentReviewedHead(s) = HEAD
  BY <1>3 DEF EquivalentReviewedHead
<1>5. CompatibleAt(s, HEAD)
  BY <1>1, <1>3 DEF CompatibleAt
<1>6. Equivalent(s, HEAD) = TRUE
  BY <1>3 DEF Equivalent
<1> QED
  BY <1>4, <1>5, <1>6 DEF Identity, Drifted

Renamed(r, h) == IF r.to # None /\ h = r.from THEN r.to ELSE h

\* _with_current_identity: the cycle follows the branch, and what its heads change stays.
LEMMA FollowIs ==
  ASSUME Env, NEW l, NEW s, StateOK(s, l, tip), NEW r, Followable(s, r)
  PROVE  LET u == Follow(s, r)
         IN  /\ StateOK(u, l, tip)
             /\ u.mb = MergeBase(HEAD)
             /\ u.doc.stage = s.doc.stage /\ u.doc.round = s.doc.round
             /\ u.doc.deslop.status = s.doc.deslop.status
             /\ u.doc.github = s.doc.github /\ u.doc.convergence = s.doc.convergence
             /\ u.doc.pending.head = Renamed(r, s.doc.pending.head)
             /\ u.doc.findings.head = Renamed(r, s.doc.findings.head)
             /\ u.doc.deslop.head = Renamed(r, s.doc.deslop.head)
             /\ (u.doc.findings = Cycle!NoFindings) <=> (s.doc.findings = Cycle!NoFindings)
<1> DEFINE d == s.doc
           e == [d EXCEPT !.heads.head = HEAD]
           u == Follow(s, r)
           x == Rewrite(e, r.from, r.to)
           n == IF r = NoDrift THEN s.drift ELSE r
<1>1. s \in Stored /\ Good(d) /\ Matches(d, l) /\ SeenBy(d, tip) /\ DriftOK(s.drift)
  BY DEF StateOK
<1>2. HEAD \in Commits /\ MergeBase(HEAD) \in BaseCommits
  BY HeadIs
<1>3. u = [s EXCEPT !.doc = x, !.mb = MergeBase(HEAD), !.drift = n]
  BY <1>1 DEF Follow, Stored
<1>4. /\ Good(e) /\ e.stage = d.stage /\ e.findings = d.findings /\ e.pending = d.pending
      /\ e.deslop = d.deslop /\ e.github = d.github /\ e.round = d.round
      /\ e.convergence = d.convergence /\ e.heads.reviewed = d.heads.reviewed
  <2>1. d.validation \in Cycle!Validation
    BY <1>1 DEF Good, Cycle!Cycle
  <2> QED
    BY <1>1, <1>2, <2>1, MovedGood
<1>5. DriftReviewedHead(d) \in Commits
  BY <1>1, ReviewedHeadIs
<1> HIDE DEF e, d, u
<1>6. CASE r.to = None
  <2>1. x = e
    BY <1>6 DEF Rewrite
  <2>2. n \in MaybeDrift /\ DriftOK(n)
    <3>1. CASE r = NoDrift
      BY <1>1, <3>1 DEF Stored
    <3>2. CASE r # NoDrift
      <4>1. /\ r = [equivalent |-> r.equivalent, from |-> r.from, to |-> r.to]
            /\ r.equivalent = FALSE /\ r.to \in MaybeCommit /\ r.from \in Commits
        BY <1>5, <1>6, <3>2 DEF Followable, d
      <4> QED
        BY <3>2, <4>1 DEF MaybeDrift, MaybeCommit, DriftOK
    <3> QED
      BY <3>1, <3>2
  <2>3. u \in Stored /\ u.doc = e /\ u.mb = MergeBase(HEAD) /\ u.drift = n
    <3>1. e \in Cycle!Cycle
      BY <1>4 DEF Good
    <3> HIDE DEF x, n
    <3> QED
      BY <1>1, <1>2, <1>3, <2>1, <2>2, <3>1 DEF Stored
  <2>4. Matches(e, l) /\ SeenBy(e, tip)
    BY <1>1, <1>4 DEF Matches, SeenBy, Cycle!GithubTerminal
  <2>5. StateOK(u, l, tip)
    BY <1>4, <2>2, <2>3, <2>4 DEF StateOK
  <2> QED
    BY <1>4, <1>6, <2>3, <2>5 DEF Renamed, u, d
<1>7. CASE r.to # None
  <2>1. /\ r # NoDrift /\ r = [equivalent |-> r.equivalent, from |-> r.from, to |-> r.to]
        /\ r.equivalent \in BOOLEAN /\ r.to \in Commits /\ r.from \in Commits
        /\ Changes(r.from) = Changes(r.to) /\ Past(r.to, tip)
    BY <1>5, <1>7 DEF Followable, NoDrift, MaybeCommit, d
  <2>2. n = r /\ r \in MaybeDrift /\ DriftOK(r)
    BY <2>1 DEF MaybeDrift, MaybeCommit, DriftOK
  <2>3. /\ Good(x) /\ x.stage = e.stage /\ x.round = e.round
        /\ x.deslop.status = e.deslop.status /\ x.github = e.github
        /\ x.convergence = e.convergence
        /\ x.pending.head = (IF e.pending.head = r.from THEN r.to ELSE e.pending.head)
        /\ x.findings.head = (IF e.findings.head = r.from THEN r.to ELSE e.findings.head)
        /\ x.deslop.head = (IF e.deslop.head = r.from THEN r.to ELSE e.deslop.head)
        /\ x.heads.reviewed = (IF e.heads.reviewed = r.from THEN r.to ELSE e.heads.reviewed)
        /\ (x.findings = Cycle!NoFindings) <=> (e.findings = Cycle!NoFindings)
    BY <1>4, <2>1, RewriteGood
  <2> HIDE DEF x, n
  <2>4. u \in Stored /\ u.doc = x /\ u.mb = MergeBase(HEAD) /\ u.drift = r
    <3>1. x \in Cycle!Cycle
      BY <2>3 DEF Good
    <3> QED
      BY <1>1, <1>2, <1>3, <2>2, <3>1 DEF Stored
  <2>5. Matches(x, l) /\ SeenBy(x, tip)
    <3>1. Changes(x.pending.head) = Changes(e.pending.head)
          /\ Changes(x.heads.reviewed) = Changes(e.heads.reviewed)
      BY <2>1, <2>3
    <3>2. x.pending.head = e.pending.head \/ Past(x.pending.head, tip)
      BY <2>1, <2>3
    <3> QED
      BY <1>1, <1>4, <2>3, <3>1, <3>2 DEF Matches, SeenBy, Cycle!GithubTerminal
  <2>6. StateOK(u, l, tip)
    BY <2>2, <2>3, <2>4, <2>5 DEF StateOK
  <2> QED
    BY <1>4, <1>7, <2>3, <2>4, <2>6 DEF Renamed, u, d
<1> QED
  BY <1>6, <1>7

-----------------------------------------------------------------------------
(* Resuming                                                                 *)

\* What the invariants need to know of a field that is no part of them.
LEMMA ValidationGood ==
  ASSUME NEW d, Good(d), NEW v \in Cycle!Validation
  PROVE  LET r == [d EXCEPT !.validation = v]
         IN  /\ Good(r) /\ r.stage = d.stage /\ r.findings = d.findings
             /\ r.pending = d.pending /\ r.deslop = d.deslop /\ r.round = d.round
             /\ r.convergence = d.convergence /\ r.github = d.github
<1> DEFINE r == [d EXCEPT !.validation = v]
<1>1. /\ r \in Cycle!Cycle /\ r.stage = d.stage /\ r.findings = d.findings
      /\ r.pending = d.pending /\ r.deslop = d.deslop /\ r.round = d.round
      /\ r.convergence = d.convergence /\ r.github = d.github /\ r.heads = d.heads
      /\ r.progress = d.progress
  BY DEF Good, Cycle!Cycle
<1> HIDE DEF r
<1>2. Good(r)
  BY <1>1 DEF Good, FindingsKnown, RoundKnown, GreenKnown, CleanupHeld, VerdictKnown,
     Cycle!DeslopTracked, Cycle!GithubTerminal
<1> QED
  BY <1>1, <1>2 DEF r

LEMMA NewValidationType == Cycle!NewValidation \in Cycle!Validation
BY DEF Cycle!NewValidation, Cycle!Validation, Cycle!GateStatuses

\* The verdict of GitHub is forgotten.
LEMMA GithubReset ==
  ASSUME NEW d, Good(d)
  PROVE  LET r == [d EXCEPT !.github = [status |-> "unknown", head |-> None]]
         IN  /\ Good(r) /\ r.stage = d.stage /\ r.deslop = d.deslop
             /\ r.convergence = d.convergence /\ r.github.status = "unknown"
<1> DEFINE g == [status |-> "unknown", head |-> None]
           r == [d EXCEPT !.github = g]
<1>1. g \in Cycle!Github /\ g.status = "unknown"
  BY OneStep DEF Cycle!Github, MaybeCommit
<1> HIDE DEF g
<1>2. /\ r \in Cycle!Cycle /\ r.stage = d.stage /\ r.findings = d.findings
      /\ r.pending = d.pending /\ r.deslop = d.deslop /\ r.round = d.round
      /\ r.convergence = d.convergence /\ r.github = g /\ r.heads = d.heads
      /\ r.progress = d.progress
  BY <1>1 DEF Good, Cycle!Cycle
<1> HIDE DEF r
<1>3. Good(r)
  BY <1>1, <1>2 DEF Good, FindingsKnown, RoundKnown, GreenKnown, CleanupHeld, VerdictKnown,
     Cycle!DeslopTracked, Cycle!GithubTerminal
<1> QED
  BY <1>1, <1>2, <1>3 DEF r, g

\* Before the first round: a committed diff closes an open closure pass.
LEMMA ResumeCreatedIs ==
  ASSUME Env, NEW l, NEW s, StateOK(s, l, tip), NEW id, Followable(s, id.drift),
         s.doc.stage = "created"
  PROVE  LET u == ResumeCreated(s, id)
         IN  /\ StateOK(u, l, tip)
             /\ u.doc.stage = "created" /\ u.doc.convergence = s.doc.convergence
             /\ \/ u.doc.deslop.status = s.doc.deslop.status
                \/ s.doc.deslop.status = "done" /\ u.doc.deslop.status = "closed"
<1> DEFINE f == Follow(s, id.drift)
           e == [f.doc EXCEPT !.validation = Cycle!NewValidation]
           fixed == DiffPaths(s.doc.deslop.head, HEAD) # {} /\ ~id.drift.equivalent
           x == IF Cycle!DeslopOpen(s.doc) /\ fixed THEN Cycle!MarkDeslopClosed(e, FALSE)
                ELSE e
           u == ResumeCreated(s, id)
<1>1. /\ StateOK(f, l, tip) /\ f.doc.stage = "created"
      /\ f.doc.deslop.status = s.doc.deslop.status
      /\ f.doc.convergence = s.doc.convergence
  BY FollowIs
<1> HIDE DEF f
<1>2. f \in Stored /\ Good(f.doc) /\ DriftOK(f.drift)
  BY <1>1 DEF StateOK
<1>3. /\ Good(e) /\ e.stage = "created" /\ e.deslop.status = s.doc.deslop.status
      /\ e.convergence = s.doc.convergence
  BY <1>1, <1>2, NewValidationType, ValidationGood
<1>4. u = s \/ u = [f EXCEPT !.doc = x]
  <2>1. [f EXCEPT !.doc.validation = Cycle!NewValidation] = [f EXCEPT !.doc = e]
    BY <1>2 DEF Stored
  <2>2. [[f EXCEPT !.doc = e] EXCEPT
           !.doc = IF Cycle!DeslopOpen(s.doc) /\ fixed THEN Cycle!MarkDeslopClosed(@, FALSE)
                   ELSE @] = [f EXCEPT !.doc = x]
    BY <1>2 DEF Stored
  <2> QED
    BY <2>1, <2>2 DEF ResumeCreated, f
<1> HIDE DEF e, u, fixed
<1>5. /\ Good(x) /\ x.stage = "created" /\ x.convergence = s.doc.convergence
      /\ \/ x.deslop.status = s.doc.deslop.status
         \/ s.doc.deslop.status = "done" /\ x.deslop.status = "closed"
  <2>1. CASE Cycle!DeslopOpen(s.doc) /\ fixed
    <3>1. Cycle!DeslopOpen(e)
      BY <1>3, <2>1 DEF Cycle!DeslopOpen
    <3>2. x = Cycle!MarkDeslopClosed(e, FALSE)
      BY <2>1
    <3> HIDE DEF x
    <3> QED
      BY <1>3, <2>1, <3>1, <3>2, ClosedGood DEF Cycle!DeslopOpen
  <2>2. CASE ~(Cycle!DeslopOpen(s.doc) /\ fixed)
    BY <1>3, <2>2
  <2> QED
    BY <2>1, <2>2
<1> HIDE DEF x
<1>6. Quiet(x)
  BY <1>5 DEF Quiet, Asking
<1>7. StateOK([f EXCEPT !.doc = x], l, tip) /\ [f EXCEPT !.doc = x].doc = x
  BY <1>2, <1>6, WithDoc
<1> QED
  BY <1>4, <1>5, <1>7 DEF u

\* A decision is due, and the head may have moved on.
LEMMA ResumeDecisionIs ==
  ASSUME Env, NEW l, NEW s, StateOK(s, l, tip), NEW id, Followable(s, id.drift),
         s.doc.stage = "decision-pending"
  PROVE  LET u == ResumeDecision(s, id)
         IN  /\ StateOK(u, l, tip)
             /\ u.doc.stage # "running"
             /\ u.doc.stage = "decision-pending" => u.doc.round = s.doc.round
             /\ ~Cycle!DeslopTracked(u.doc)
<1> DEFINE f == Follow(s, id.drift)
           a == Cycle!RecordDecision(f.doc, "findings")
           x == Cycle!MarkFixDetected(a, HEAD)
           u == ResumeDecision(s, id)
<1>1. /\ StateOK(f, l, tip) /\ f.doc.stage = "decision-pending"
      /\ f.doc.deslop.status = s.doc.deslop.status /\ f.doc.round = s.doc.round
  BY FollowIs
<1> HIDE DEF f
<1>2. f \in Stored /\ Good(f.doc) /\ DriftOK(f.drift)
  BY <1>1 DEF StateOK
<1>3. u \in {s, f, [f EXCEPT !.doc = x]}
  <2>1. f = [f EXCEPT !.doc = f.doc]
    BY <1>2 DEF Stored
  <2> QED
    BY <1>2, <2>1 DEF ResumeDecision, f, Stored
<1>4. FixDue(a)
  BY <1>1, <1>2, FindingsDecisionGood
<1> HIDE DEF a, u
<1>5. x = a \/ (Good(x) /\ x.stage = "created")
  BY <1>4, HeadIs, FixDetectedGood
<1> HIDE DEF x
<1>6. Quiet(x) /\ x.stage \notin Asking
  <2>1. CASE x = a
    BY <1>4, <2>1 DEF FixDue, Quiet, Fixing, Asking
  <2>2. CASE Good(x) /\ x.stage = "created"
    BY <2>2 DEF Quiet, Asking
  <2> QED
    BY <1>5, <2>1, <2>2
<1>7. ~Cycle!DeslopTracked(x)
  <2>1. ~Cycle!DeslopTracked(a)
    BY <1>4, TrackedIs DEF FixDue, Fixing
  <2>2. x.deslop = a.deslop
    BY <1>4, HeadIs, FixDetectedGood DEF x
  <2> QED
    BY <2>1, <2>2 DEF Cycle!DeslopTracked
<1>8. StateOK([f EXCEPT !.doc = x], l, tip) /\ [f EXCEPT !.doc = x].doc = x
  BY <1>2, <1>6, WithDoc
<1>9. ~Cycle!DeslopTracked(s.doc) /\ ~Cycle!DeslopTracked(f.doc)
  BY <1>1, <1>2, AskingIs DEF Asking, StateOK
<1> QED
  BY <1>1, <1>3, <1>6, <1>7, <1>8, <1>9 DEF u, Asking

\* A green cycle is signed off again when its commit is no longer the one it shows.
LEMMA ResumeGreenIs ==
  ASSUME Env, NEW l, NEW s, StateOK(s, l, tip), NEW id, Followable(s, id.drift),
         s.doc.stage = "review-green"
  PROVE  LET u == ResumeGreen(s, id)
         IN  /\ StateOK(u, l, tip)
             /\ u = s \/ u.doc.stage = "created"
             /\ u.doc.convergence = s.doc.convergence
             /\ u.doc.deslop.status = s.doc.deslop.status
<1> DEFINE f == Follow(s, id.drift)
           e == [f.doc EXCEPT !.github = [status |-> "unknown", head |-> None]]
           x == Cycle!MarkLatestProfileStepRerunNeeded(e, HEAD)
           u == ResumeGreen(s, id)
<1>1. /\ StateOK(f, l, tip) /\ f.doc.stage = "review-green"
      /\ f.doc.deslop.status = s.doc.deslop.status
      /\ f.doc.convergence = s.doc.convergence
  BY FollowIs
<1> HIDE DEF f
<1>2. f \in Stored /\ Good(f.doc) /\ DriftOK(f.drift)
  BY <1>1 DEF StateOK
<1>3. u = s \/ u = [f EXCEPT !.doc = x]
  BY <1>2 DEF ResumeGreen, f, Stored
<1>4. /\ Good(e) /\ e.stage = "review-green" /\ e.deslop = f.doc.deslop
      /\ e.convergence = f.doc.convergence /\ e.github.status = "unknown"
  BY <1>1, <1>2, GithubReset
<1> HIDE DEF e, u
<1>5. /\ Good(x) /\ x.stage = "created" /\ x.deslop = e.deslop
      /\ x.convergence = e.convergence
  BY <1>4, HeadIs, RepeatGood
<1> HIDE DEF x
<1>6. Quiet(x)
  BY <1>5 DEF Quiet, Asking
<1>7. StateOK([f EXCEPT !.doc = x], l, tip) /\ [f EXCEPT !.doc = x].doc = x
  BY <1>2, <1>6, WithDoc
<1> QED
  BY <1>1, <1>3, <1>4, <1>5, <1>7 DEF u

\* While findings are open, a fix that is committed closes them.
LEMMA ResumeFixIs ==
  ASSUME Env, NEW l, NEW s, StateOK(s, l, tip), NEW id, Followable(s, id.drift),
         s.doc.stage = "fix-pending"
  PROVE  LET u == ResumeFix(s, id)
         IN  /\ StateOK(u, l, tip)
             /\ u.doc.stage \in {"fix-pending", "created"}
             /\ u.doc.convergence = s.doc.convergence
             /\ ~Cycle!DeslopTracked(u.doc)
<1> DEFINE f == Follow(s, id.drift)
           x == Cycle!MarkFixDetected(f.doc, HEAD)
           y == Cycle!WithFixAction(f.doc)
           z == Cycle!WithFixAction(s.doc)
           u == ResumeFix(s, id)
<1>1. /\ StateOK(f, l, tip) /\ f.doc.stage = "fix-pending"
      /\ f.doc.convergence = s.doc.convergence
  BY FollowIs
<1> HIDE DEF f
<1>2. /\ f \in Stored /\ Good(f.doc) /\ DriftOK(f.drift)
      /\ s \in Stored /\ Good(s.doc) /\ DriftOK(s.drift)
  BY <1>1 DEF StateOK
<1>3. u \in {[f EXCEPT !.doc = x], [f EXCEPT !.doc = y], [s EXCEPT !.doc = z]}
  BY <1>2 DEF ResumeFix, f, Stored
<1>4. FixDue(f.doc) /\ FixDue(s.doc)
  BY <1>1, <1>2 DEF FixDue, Fixing
<1>5. /\ x = f.doc \/ (Good(x) /\ x.stage = "created")
      /\ x.convergence = f.doc.convergence /\ x.deslop = f.doc.deslop
  BY <1>4, HeadIs, FixDetectedGood
<1>6. /\ FixDue(y) /\ y.stage = "fix-pending" /\ y.convergence = f.doc.convergence
      /\ FixDue(z) /\ z.stage = "fix-pending" /\ z.convergence = s.doc.convergence
  BY <1>1, <1>4, WithFixGood
<1>7. ~Cycle!DeslopTracked(f.doc)
  BY <1>1, <1>2, TrackedIs
<1> HIDE DEF x, y, z, u
<1>8. ASSUME NEW e \in {x, y, z}
      PROVE  /\ Quiet(e) /\ e.stage \in {"fix-pending", "created"}
             /\ e.convergence = s.doc.convergence /\ ~Cycle!DeslopTracked(e)
  <2>1. CASE e = x
    BY <1>1, <1>2, <1>5, <1>7, <2>1 DEF Quiet, Asking, Cycle!DeslopTracked
  <2>2. CASE e \in {y, z}
    BY <1>1, <1>6, <2>2, TrackedIs DEF Quiet, Asking, FixDue
  <2> QED
    BY <2>1, <2>2
<1>9. ASSUME NEW g \in {f, s}, NEW e \in {x, y, z}
      PROVE  StateOK([g EXCEPT !.doc = e], l, tip) /\ [g EXCEPT !.doc = e].doc = e
  <2>1. Quiet(e) /\ g \in Stored /\ DriftOK(g.drift)
    BY <1>2, <1>8
  <2> QED
    BY <2>1, WithDoc
<1> QED
  BY <1>3, <1>8, <1>9 DEF u

\* _resume_progress as a whole.
LEMMA ResumeIs ==
  ASSUME Env, NEW l, NEW s, StateOK(s, l, tip)
  PROVE  LET u == Resume(s)
         IN  /\ StateOK(u, l, tip)
             /\ \/ u.doc.deslop.status = s.doc.deslop.status
                \/ ~Cycle!DeslopTracked(u.doc)
             /\ s.doc.stage \notin {"created", "decision-pending", "review-green", "fix-pending"}
                  => u = s
             /\ u.doc.stage = "running" => u = s
             /\ u.doc.stage = "decision-pending"
                  => s.doc.stage = "decision-pending" /\ u.doc.round = s.doc.round
             /\ s.doc.stage # "decision-pending" => u.doc.convergence = s.doc.convergence
<1> DEFINE id == Identity(s)
<1>1. Followable(s, id.drift)
  BY IdentityIs DEF StateOK
<1>2. Resume(s) = ResumeAt(s, id)
  BY DEF Resume
<1> HIDE DEF id
<1>3. CASE s.doc.stage = "created"
  <2>1. Resume(s) = ResumeCreated(s, id)
    BY <1>2, <1>3 DEF ResumeAt
  <2> QED
    BY <1>1, <1>3, <2>1, ResumeCreatedIs DEF Cycle!DeslopTracked
<1>4. CASE s.doc.stage = "decision-pending"
  <2>1. Resume(s) = ResumeDecision(s, id)
    BY <1>2, <1>4 DEF ResumeAt
  <2> QED
    BY <1>1, <1>4, <2>1, ResumeDecisionIs
<1>5. CASE s.doc.stage = "review-green"
  <2>1. Resume(s) = ResumeGreen(s, id)
    BY <1>2, <1>5 DEF ResumeAt
  <2> QED
    BY <1>1, <1>5, <2>1, ResumeGreenIs
<1>6. CASE s.doc.stage = "fix-pending"
  <2>1. Resume(s) = ResumeFix(s, id)
    BY <1>2, <1>6 DEF ResumeAt
  <2> QED
    BY <1>1, <1>6, <2>1, ResumeFixIs
<1>7. CASE s.doc.stage \notin {"created", "decision-pending", "review-green", "fix-pending"}
  <2>1. Resume(s) = s
    BY <1>2, <1>7 DEF ResumeAt
  <2> QED
    BY <1>7, <2>1
<1> QED
  BY <1>3, <1>4, <1>5, <1>6, <1>7

\* A document put back where it was.
LEMMA SameDoc ==
  ASSUME NEW s \in Stored
  PROVE  [s EXCEPT !.doc = s.doc] = s
BY DEF Stored

\* A blocked round is taken up again, after resuming.
LEMMA ResumeAndRetryIs ==
  ASSUME Env, NEW l, NEW s, StateOK(s, l, tip)
  PROVE  LET u == ResumeAndRetry(s)
         IN  /\ StateOK(u, l, tip)
             /\ \/ u.doc.deslop.status = s.doc.deslop.status
                \/ ~Cycle!DeslopTracked(u.doc)
             /\ s.doc.stage = "running" => u = s
             /\ ~Cycle!DeslopReady(s.doc) /\ ~Cycle!DeslopOpen(s.doc) => u = s
             /\ u.doc.stage = "decision-pending"
                  => s.doc.stage = "decision-pending" /\ u.doc.round = s.doc.round
             /\ s.doc.stage # "decision-pending" => u.doc.convergence = s.doc.convergence
<1> DEFINE r == Resume(s)
           x == Cycle!RetryBlocked(r.doc)
           u == ResumeAndRetry(s)
<1>1. /\ StateOK(r, l, tip)
      /\ r.doc.deslop.status = s.doc.deslop.status \/ ~Cycle!DeslopTracked(r.doc)
      /\ s.doc.stage = "running" => r = s
      /\ r.doc.stage = "decision-pending"
           => s.doc.stage = "decision-pending" /\ r.doc.round = s.doc.round
      /\ s.doc.stage # "decision-pending" => r.doc.convergence = s.doc.convergence
  BY ResumeIs
<1>2. u = s \/ u = [r EXCEPT !.doc = x]
  <2>1. r \in Stored
    BY <1>1 DEF StateOK
  <2> QED
    BY <2>1 DEF ResumeAndRetry, Stored
<1>3. ~Cycle!DeslopReady(s.doc) /\ ~Cycle!DeslopOpen(s.doc) => u = s
  BY DEF ResumeAndRetry
<1> HIDE DEF r, u
<1>4. r \in Stored /\ Good(r.doc) /\ DriftOK(r.drift)
  BY <1>1 DEF StateOK
<1>5. x.deslop = r.doc.deslop /\ x.convergence = r.doc.convergence
  BY <1>4, RetryGood
<1>6. CASE r.doc.stage = "decision-pending" /\ r.doc.round.blocked
  <2>1. Good(x) /\ x.stage = "created"
    BY <1>4, <1>6, RetryGood
  <2> HIDE DEF x
  <2>2. Quiet(x)
    BY <2>1 DEF Quiet, Asking
  <2>3. StateOK([r EXCEPT !.doc = x], l, tip) /\ [r EXCEPT !.doc = x].doc = x
    BY <1>4, <2>2, WithDoc
  <2>4. s.doc.stage # "running"
    BY <1>1, <1>6
  <2> QED
    BY <1>1, <1>2, <1>3, <1>5, <2>1, <2>3, <2>4 DEF u, Cycle!DeslopTracked
<1>7. CASE ~(r.doc.stage = "decision-pending" /\ r.doc.round.blocked)
  <2>1. x = r.doc
    BY <1>4, <1>7, RetryGood
  <2>2. [r EXCEPT !.doc = x] = r
    BY <1>4, <2>1, SameDoc
  <2> QED
    BY <1>1, <1>2, <1>3, <2>2 DEF u
<1> QED
  BY <1>6, <1>7

\* A decision, given or read from the round.
LEMMA DecisionIs ==
  ASSUME NEW l, NEW t, NEW s, StateOK(s, l, t), s.doc.stage = "decision-pending",
         NEW v \in {"clean", "findings"}
  PROVE  LET x == Cycle!RecordDecision(s.doc, v)
             u == [s EXCEPT !.doc = x]
         IN  /\ StateOK(u, l, t) /\ u.doc = x /\ u.mb = s.mb
             /\ ~Cycle!DeslopTracked(x) /\ x.stage \notin Asking
             /\ v = "clean" => x.convergence = s.doc.convergence
<1> DEFINE x == Cycle!RecordDecision(s.doc, v)
           u == [s EXCEPT !.doc = x]
<1>1. /\ s \in Stored /\ Good(s.doc) /\ DriftOK(s.drift)
      /\ s.doc.stage \in Asking /\ Changes(s.doc.pending.head) = l
  BY DEF StateOK, Asking, Matches
<1>2. CASE v = "findings"
  <2>1. FixDue(x)
    BY <1>1, <1>2, FindingsDecisionGood
  <2> HIDE DEF x
  <2>2. Quiet(x) /\ x.stage \notin Asking /\ ~Cycle!DeslopTracked(x)
    BY <2>1, TrackedIs DEF FixDue, Quiet, Fixing, Asking
  <2>3. StateOK(u, l, t) /\ u.doc = x /\ u.mb = s.mb
    BY <1>1, <2>2, WithDoc
  <2> QED
    BY <1>2, <2>2, <2>3 DEF x
<1>3. CASE v = "clean"
  <2>1. /\ Good(x) /\ x.stage = "review-green" /\ x.heads.reviewed = s.doc.pending.head
        /\ x.convergence = s.doc.convergence /\ x.github = s.doc.github
        /\ x.deslop = s.doc.deslop
    BY <1>1, <1>3, CleanDecisionGood
  <2> HIDE DEF x
  <2>2. ~Cycle!DeslopTracked(x) /\ ~Cycle!GithubTerminal(x)
    BY <1>1, <2>1, AskingIs DEF Cycle!DeslopTracked, Cycle!GithubTerminal
  <2>3. u \in Stored /\ u.doc = x /\ u.mb = s.mb /\ u.drift = s.drift
    BY <1>1, <2>1 DEF Stored, Good
  <2>4. Matches(x, l) /\ SeenBy(x, t) /\ x.stage \notin Asking
    BY <1>1, <2>1, <2>2 DEF Matches, SeenBy, Asking
  <2>5. StateOK(u, l, t)
    BY <1>1, <2>1, <2>3, <2>4 DEF StateOK
  <2> QED
    BY <2>1, <2>2, <2>3, <2>4, <2>5 DEF x
<1> QED
  BY <1>2, <1>3

LEMMA AutoDecideIs ==
  ASSUME Env, NEW l, NEW s, StateOK(s, l, tip)
  PROVE  LET u == AutoDecide(s)
         IN  /\ StateOK(u, l, tip)
             /\ \/ u.doc.deslop.status = s.doc.deslop.status
                \/ ~Cycle!DeslopTracked(u.doc)
             /\ ~Cycle!AutoDecides(s.doc) => u = s
             /\ Cycle!AutoDecides(s.doc) => u.doc.stage # "decision-pending"
             /\ Cycle!AutoDecides(s.doc) /\ s.doc.round.verdict = "clean"
                  => u.doc.convergence = s.doc.convergence
<1>1. CASE ~Cycle!AutoDecides(s.doc)
  BY <1>1 DEF AutoDecide
<1>2. CASE Cycle!AutoDecides(s.doc)
  <2> DEFINE v == s.doc.round.verdict
             x == Cycle!RecordDecision(s.doc, v)
             r == [s EXCEPT !.doc = x]
             u == AutoDecide(s)
  <2>1. s.doc.stage = "decision-pending" /\ v \in {"clean", "findings"}
    BY <1>2 DEF Cycle!AutoDecides
  <2>2. /\ StateOK(r, l, tip) /\ r.doc = x
        /\ ~Cycle!DeslopTracked(x) /\ x.stage \notin Asking
        /\ v = "clean" => x.convergence = s.doc.convergence
    BY <2>1, DecisionIs
  <2>3. u = ResumeAndRetry(r)
    <3>1. s \in Stored
      BY DEF StateOK
    <3> QED
      BY <1>2, <3>1 DEF AutoDecide, Stored
  <2> HIDE DEF r, x, u
  <2>4. /\ StateOK(u, l, tip)
        /\ u.doc.deslop.status = r.doc.deslop.status \/ ~Cycle!DeslopTracked(u.doc)
        /\ u.doc.stage = "decision-pending" => r.doc.stage = "decision-pending"
        /\ r.doc.stage # "decision-pending" => u.doc.convergence = r.doc.convergence
    BY <2>2, <2>3, ResumeAndRetryIs
  <2>5. ~Cycle!DeslopTracked(u.doc)
    BY <2>2, <2>4 DEF Cycle!DeslopTracked
  <2> QED
    BY <1>2, <2>2, <2>4, <2>5 DEF u, Asking
<1> QED
  BY <1>1, <1>2

LEMMA SettleIs ==
  ASSUME Env, NEW l, NEW s, StateOK(s, l, tip)
  PROVE  LET u == Settle(s)
         IN  /\ StateOK(u, l, tip)
             /\ \/ u.doc.deslop.status = s.doc.deslop.status
                \/ ~Cycle!DeslopTracked(u.doc)
             /\ s.doc.stage = "running" => u = s
             /\ ~Cycle!DeslopReady(s.doc) /\ ~Cycle!DeslopOpen(s.doc) => u = s
             /\ s.doc.stage # "decision-pending"
                  => u = ResumeAndRetry(s) /\ u.doc.convergence = s.doc.convergence
<1> DEFINE r == ResumeAndRetry(s)
           u == AutoDecide(r)
<1>1. /\ StateOK(r, l, tip)
      /\ r.doc.deslop.status = s.doc.deslop.status \/ ~Cycle!DeslopTracked(r.doc)
      /\ s.doc.stage = "running" => r = s
      /\ ~Cycle!DeslopReady(s.doc) /\ ~Cycle!DeslopOpen(s.doc) => r = s
      /\ r.doc.stage = "decision-pending" => s.doc.stage = "decision-pending"
      /\ s.doc.stage # "decision-pending" => r.doc.convergence = s.doc.convergence
  BY ResumeAndRetryIs
<1> HIDE DEF r
<1>2. /\ StateOK(u, l, tip)
      /\ u.doc.deslop.status = r.doc.deslop.status \/ ~Cycle!DeslopTracked(u.doc)
      /\ ~Cycle!AutoDecides(r.doc) => u = r
  BY <1>1, AutoDecideIs
<1>3. Cycle!AutoDecides(r.doc)
        => r.doc.stage = "decision-pending" /\ Cycle!DeslopReady(r.doc)
  BY DEF Cycle!AutoDecides
<1>4. Settle(s) = u
  BY DEF Settle, r
<1>5. u.doc.deslop.status = s.doc.deslop.status \/ ~Cycle!DeslopTracked(u.doc)
  BY <1>1, <1>2 DEF Cycle!DeslopTracked
<1> HIDE DEF u
<1> QED
  BY <1>1, <1>2, <1>3, <1>4, <1>5 DEF r

-----------------------------------------------------------------------------
(* The inductive invariant                                                  *)

\* The closure pass is still to run.
Held(d) == d.deslop.status \in {"tracked", "failed"}

WorkOK(v, l, t) ==
    /\ v.by \in {"rerun", "decision"}
    /\ Held(v.state.doc)
    /\ StateOK(v.state, l, t)

DriftInv ==
    /\ Env
    /\ launched \in MaybeCommit
    /\ StateOK(c, Changes(launched), tip)
    /\ w # None => Held(c.doc) /\ WorkOK(w, Changes(launched), tip)

\* A command that stores a good state.
LEMMA StoreKeeps ==
  ASSUME DriftInv, NEW s, StateOK(s, Changes(launched), tip),
         c' = s, w' = None, UNCHANGED <<launched, git>>
  PROVE  DriftInv'
<1>1. launched' = launched /\ tip' = tip /\ base' = base /\ elsewhere' = elsewhere
  BY DEF git
<1>2. TipOK(tip) /\ base \in BaseCommits /\ elsewhere \in BOOLEAN /\ launched \in MaybeCommit
  BY DEF DriftInv, Env
<1> QED
  BY <1>1, <1>2 DEF DriftInv, Env

LEMMA SaveKeeps ==
  ASSUME DriftInv, Idle, NEW s, StateOK(s, Changes(launched), tip), Save(s)
  PROVE  DriftInv'
BY StoreKeeps DEF Save, Idle

\* Where the closure pass is still to run, the cycle settles where it is.
LEMMA HeldSettles ==
  ASSUME Env, NEW l, NEW s, StateOK(s, l, tip), Held(s.doc)
  PROVE  Settle(s) = s /\ ~Cycle!DeslopReady(s.doc) /\ s.doc.stage \notin Asking
<1>1. Good(s.doc) /\ Cycle!DeslopTracked(s.doc)
  BY DEF StateOK, Held, Cycle!DeslopTracked
<1>2. ~Cycle!DeslopReady(s.doc) /\ ~Cycle!DeslopOpen(s.doc) /\ s.doc.stage \notin Asking
  BY <1>1, TrackedIs DEF Held, Cycle!DeslopOpen, Asking
<1> QED
  BY <1>2, SettleIs

\* The pass starts for the head and merge base of the moment.
LEMMA FollowHeadIs ==
  ASSUME Env, NEW l, NEW s, StateOK(s, l, tip), Held(s.doc)
  PROVE  LET u == FollowHead(s)
         IN  StateOK(u, l, tip) /\ u.doc.deslop = s.doc.deslop
<1> DEFINE e == [[s.doc EXCEPT !.heads.head = HEAD] EXCEPT !.validation = Cycle!NewValidation]
           u == FollowHead(s)
           r == [s EXCEPT !.mb = MergeBase(HEAD)]
<1>1. s \in Stored /\ Good(s.doc) /\ DriftOK(s.drift) /\ Cycle!DeslopTracked(s.doc)
  BY DEF StateOK, Held, Cycle!DeslopTracked
<1>2. Good(e) /\ e.stage = s.doc.stage /\ e.deslop = s.doc.deslop
  <2> DEFINE m == [s.doc EXCEPT !.heads.head = HEAD]
  <2>1. HEAD \in Commits
    BY HeadIs
  <2>2. Good(m) /\ m.stage = s.doc.stage /\ m.deslop = s.doc.deslop
    BY <1>1, <2>1, NewValidationType, MovedGood
  <2> HIDE DEF m
  <2>3. e = [m EXCEPT !.validation = Cycle!NewValidation]
    BY DEF m
  <2> HIDE DEF e
  <2> QED
    BY <2>2, <2>3, NewValidationType, ValidationGood
<1>3. r \in Stored /\ r.drift = s.drift /\ r.doc = s.doc
  BY <1>1, HeadIs DEF Stored
<1>4. u = s \/ u = [r EXCEPT !.doc = e]
  <2>1. [s EXCEPT !.doc.heads.head = HEAD, !.mb = MergeBase(HEAD),
                  !.doc.validation = Cycle!NewValidation] = [r EXCEPT !.doc = e]
    BY <1>1 DEF Stored
  <2> QED
    BY <2>1 DEF FollowHead
<1> HIDE DEF e, r, u
<1>5. Quiet(e)
  BY <1>1, <1>2, TrackedIs DEF Quiet, Asking
<1>6. StateOK([r EXCEPT !.doc = e], l, tip) /\ [r EXCEPT !.doc = e].doc = e
  BY <1>1, <1>3, <1>5, WithDoc
<1> QED
  BY <1>2, <1>4, <1>6 DEF u

\* A due closure pass was due before the cycle settled.
LEMMA CleanupKeeps ==
  ASSUME DriftInv, Idle, NEW s, StateOK(s, Changes(launched), tip), NEW by \in {"rerun", "decision"},
         s.doc.deslop.status = c.doc.deslop.status \/ ~Cycle!DeslopTracked(s.doc),
         RunCleanup(s, by)
  PROVE  DriftInv'
<1>1. /\ c' = c /\ launched' = launched /\ tip' = tip /\ base' = base
      /\ elsewhere' = elsewhere /\ w' = [by |-> by, state |-> FollowHead(s)]
      /\ Cycle!DeslopShouldRun(s.doc)
  BY DEF RunCleanup, git
<1>2. /\ TipOK(tip) /\ base \in BaseCommits /\ elsewhere \in BOOLEAN
      /\ launched \in MaybeCommit /\ Env /\ StateOK(c, Changes(launched), tip)
  BY DEF DriftInv, Env
<1>3. Held(s.doc) /\ Held(c.doc)
  BY <1>1 DEF Cycle!DeslopShouldRun, Held, Cycle!DeslopTracked
<1>4. PICK l : l = Changes(launched)
  OBVIOUS
<1>5. PICK u : u = FollowHead(s)
  OBVIOUS
<1>6. StateOK(u, l, tip) /\ u.doc.deslop = s.doc.deslop
  BY <1>2, <1>3, <1>4, <1>5, FollowHeadIs
<1>7. w'.by = by /\ w'.state = u
  BY <1>1, <1>5
<1>8. WorkOK(w', l, tip)
  BY <1>3, <1>6, <1>7 DEF WorkOK, Held
<1>9. l = Changes(launched')
  BY <1>1, <1>4
<1> QED
  BY <1>1, <1>2, <1>3, <1>4, <1>8, <1>9 DEF DriftInv, Env

-----------------------------------------------------------------------------
(* The actions                                                              *)

LEMMA RerunCleanupKeeps == ASSUME DriftInv, RerunCleanup PROVE DriftInv'
<1>1. Idle /\ RunCleanup(Settle(c), "rerun")
  BY DEF RerunCleanup
<1>2. PICK l : l = Changes(launched)
  OBVIOUS
<1>3. PICK s : s = Settle(c)
  OBVIOUS
<1>4. Env /\ StateOK(c, l, tip)
  BY <1>2 DEF DriftInv
<1>5. StateOK(s, l, tip)
      /\ (s.doc.deslop.status = c.doc.deslop.status \/ ~Cycle!DeslopTracked(s.doc))
  BY <1>3, <1>4, SettleIs
<1> QED
  BY <1>1, <1>2, <1>3, <1>5, CleanupKeeps

\* A round is launched for what is checked out, and asked about that.
LEMMA LaunchIs ==
  ASSUME Env, NEW l, NEW s, StateOK(s, l, tip), Cycle!CanLaunch(s.doc)
  PROVE  LET a == [kind |-> "collect-review-step", step |-> s.doc.progress.next,
                   fix |-> s.doc.pending.fix, head |-> HEAD]
             x == [Cycle!SetStage(s.doc, "running", a) EXCEPT !.round = Cycle!LaunchedRound]
         IN  StateOK([s EXCEPT !.doc = x], Changes(HEAD), tip) /\ s.doc.stage = "created"
             /\ ~Cycle!DeslopTracked(s.doc)
             /\ x.convergence = s.doc.convergence
<1> DEFINE d == s.doc
           a == [kind |-> "collect-review-step", step |-> d.progress.next,
                 fix |-> d.pending.fix, head |-> HEAD]
           x == [Cycle!SetStage(d, "running", a) EXCEPT !.round = Cycle!LaunchedRound]
           u == [s EXCEPT !.doc = x]
<1>1. s \in Stored /\ Good(d) /\ DriftOK(s.drift) /\ d \in Cycle!Cycle
  BY DEF StateOK, Good
<1>2. d.stage = "created" /\ ~Cycle!DeslopTracked(d) /\ d.progress.next = 0
  <2>1. d.stage = "created" /\ Cycle!DeslopReady(d) /\ d.progress.next < 1
    BY OneStep DEF Cycle!CanLaunch, Cycle!HasNextStep
  <2>2. ~Cycle!DeslopTracked(d)
    BY <1>1, <2>1, TrackedIs
  <2>3. d.progress.next \in 0 .. 1
    BY <1>1, OneStep DEF Cycle!Cycle, Cycle!Progress
  <2> QED
    BY <2>1, <2>2, <2>3
<1>3. HEAD \in Commits /\ (Past(HEAD, tip) \/ Changes(HEAD) = {})
  BY HeadIs
<1>4. a \in Cycle!Pending /\ a.head = HEAD /\ a.step = 0
  <2>1. d.pending.fix \in MaybeCommit
    BY <1>1, OneStep DEF Cycle!Cycle, Cycle!Pending
  <2> QED
    BY <1>2, <1>3, <2>1, OneStep DEF Cycle!Pending, Cycle!ActionKinds, MaybeCommit
<1> HIDE DEF a
<1>5. Cycle!LaunchedRound \in Cycle!RoundFile /\ Cycle!LaunchedRound.verdict = "unclear"
  BY DEF Cycle!LaunchedRound, Cycle!NoRound, Cycle!RoundFile
<1>6. /\ x \in Cycle!Cycle /\ x.stage = "running" /\ x.pending = a
      /\ x.round = Cycle!LaunchedRound /\ x.findings = d.findings /\ x.heads = d.heads
      /\ x.progress = d.progress /\ x.convergence = d.convergence /\ x.deslop = d.deslop
      /\ x.github = d.github
  BY <1>1, <1>4, <1>5 DEF Cycle!SetStage, Cycle!Cycle, Cycle!Stages
<1> HIDE DEF x, d
<1>7. d.findings = Cycle!NoFindings /\ ~Cycle!GithubTerminal(d)
      /\ d.convergence.continuePending = FALSE
  BY <1>1, <1>2 DEF Good, VerdictKnown, Fixing
<1>8. ~Cycle!GithubTerminal(x) /\ ~Cycle!DeslopTracked(x)
  BY <1>2, <1>6, <1>7 DEF Cycle!GithubTerminal, Cycle!DeslopTracked
<1>9. Good(x)
  <2>1. RoundKnown(x) /\ FindingsKnown(x) /\ GreenKnown(x) /\ VerdictKnown(x)
    BY <1>3, <1>4, <1>5, <1>6, <1>7, <1>8
       DEF RoundKnown, FindingsKnown, GreenKnown, VerdictKnown
  <2>2. CleanupHeld(x)
    BY <1>8 DEF CleanupHeld, Cycle!DeslopTracked
  <2>3. x.findings = Cycle!NoFindings /\ x.stage \notin Fixing
    BY <1>6, <1>7 DEF Fixing
  <2> QED
    BY <1>6, <1>7, <2>1, <2>2, <2>3 DEF Good
<1>10. Matches(x, Changes(HEAD)) /\ SeenBy(x, tip)
  BY <1>3, <1>4, <1>6, <1>8 DEF Matches, SeenBy
<1>11. u \in Stored /\ u.doc = x /\ u.drift = s.drift
  BY <1>1, <1>6 DEF Stored
<1> HIDE DEF u
<1>12. StateOK(u, Changes(HEAD), tip)
  BY <1>1, <1>9, <1>10, <1>11 DEF StateOK
<1> QED
  BY <1>2, <1>6, <1>12 DEF u, x, a, d

LEMMA RerunLaunchKeeps == ASSUME DriftInv, RerunLaunch PROVE DriftInv'
<1>1. PICK l : l = Changes(launched)
  OBVIOUS
<1>2. PICK s : s = Settle(c)
  OBVIOUS
<1>3. Env /\ StateOK(c, l, tip)
  BY <1>1 DEF DriftInv
<1>4. StateOK(s, l, tip)
  BY <1>2, <1>3, SettleIs
<1>5. Cycle!CanLaunch(s.doc) /\ launched' = HEAD /\ w = None /\ w' = None
      /\ tip' = tip /\ base' = base /\ elsewhere' = elsewhere
  BY <1>2 DEF RerunLaunch, Launch, Idle, git
<1> DEFINE a == [kind |-> "collect-review-step", step |-> s.doc.progress.next,
                 fix |-> s.doc.pending.fix, head |-> HEAD]
           x == [Cycle!SetStage(s.doc, "running", a) EXCEPT !.round = Cycle!LaunchedRound]
<1>6. c' = [s EXCEPT !.doc = x]
  <2>1. s \in Stored
    BY <1>4 DEF StateOK
  <2> QED
    BY <1>2, <2>1 DEF RerunLaunch, Launch, Stored
<1>7. StateOK([s EXCEPT !.doc = x], Changes(HEAD), tip)
  BY <1>3, <1>4, <1>5, LaunchIs
<1> HIDE DEF x, a
<1>8. PICK h : h = HEAD
  OBVIOUS
<1>9. h \in MaybeCommit
  BY <1>3, <1>8, HeadIs DEF MaybeCommit
<1>10. StateOK([s EXCEPT !.doc = x], Changes(h), tip)
  BY <1>7, <1>8
<1>11. TipOK(tip) /\ base \in BaseCommits /\ elsewhere \in BOOLEAN
  BY <1>3 DEF Env
<1> QED
  BY <1>5, <1>6, <1>8, <1>9, <1>10, <1>11 DEF DriftInv, Env

LEMMA RerunIdleKeeps == ASSUME DriftInv, RerunIdle PROVE DriftInv'
<1>1. PICK l : l = Changes(launched)
  OBVIOUS
<1>2. PICK s : s = Settle(c)
  OBVIOUS
<1>3. PICK u : u = Resume(s)
  OBVIOUS
<1>4. Env /\ StateOK(c, l, tip)
  BY <1>1 DEF DriftInv
<1>5. StateOK(s, l, tip)
  BY <1>2, <1>4, SettleIs
<1>6. StateOK(u, l, tip)
  BY <1>3, <1>4, <1>5, ResumeIs
<1>7. Idle /\ Save(u)
  BY <1>2, <1>3 DEF RerunIdle, NothingToRun
<1> QED
  BY <1>1, <1>6, <1>7, SaveKeeps

\* The closure pass ends well or badly.
LEMMA EndedIs ==
  ASSUME NEW l, NEW t, NEW s, StateOK(s, l, t), Held(s.doc), NEW done \in BOOLEAN
  PROVE  LET x == IF done THEN Cycle!MarkDeslopDone(s.doc, FALSE, s.doc.heads.head)
                  ELSE Cycle!MarkDeslopFailed(s.doc)
         IN  StateOK([s EXCEPT !.doc = x], l, t)
<1> DEFINE x == IF done THEN Cycle!MarkDeslopDone(s.doc, FALSE, s.doc.heads.head)
                ELSE Cycle!MarkDeslopFailed(s.doc)
<1>1. s \in Stored /\ Good(s.doc) /\ DriftOK(s.drift)
  BY DEF StateOK
<1>2. Good(x) /\ x.stage \in {"created", "retry-requested"}
  BY <1>1, CleanupEnds DEF Held
<1> HIDE DEF x
<1>3. Quiet(x)
  BY <1>2 DEF Quiet, Asking
<1>4. StateOK([s EXCEPT !.doc = x], l, t)
  BY <1>1, <1>3, WithDoc
<1> QED
  BY <1>4 DEF x

LEMMA EndCleanupKeeps == ASSUME DriftInv, EndCleanup PROVE DriftInv'
<1>1. PICK l : l = Changes(launched)
  OBVIOUS
<1>2. PICK v : v = w.state
  OBVIOUS
<1>3. /\ Env /\ StateOK(v, l, tip) /\ Held(v.doc)
      /\ w' = None /\ UNCHANGED <<launched, git>>
  BY <1>1, <1>2 DEF DriftInv, WorkOK, EndCleanup, Idle
<1>4. v \in Stored
  BY <1>3 DEF StateOK
<1>5. PICK done \in BOOLEAN :
        LET s == [v EXCEPT !.doc = IF done THEN Cycle!MarkDeslopDone(@, FALSE, @.heads.head)
                                   ELSE Cycle!MarkDeslopFailed(@)]
        IN  c' = Settle(s) \/ c' = s
  BY <1>2 DEF EndCleanup
<1> DEFINE x == IF done THEN Cycle!MarkDeslopDone(v.doc, FALSE, v.doc.heads.head)
                ELSE Cycle!MarkDeslopFailed(v.doc)
<1>6. PICK s : s = [v EXCEPT !.doc = x]
  OBVIOUS
<1>7. c' = Settle(s) \/ c' = s
  <2>1. s = [v EXCEPT !.doc = IF done THEN Cycle!MarkDeslopDone(@, FALSE, @.heads.head)
                              ELSE Cycle!MarkDeslopFailed(@)]
    BY <1>4, <1>6 DEF Stored
  <2> QED
    BY <1>5, <2>1
<1>8. StateOK(s, l, tip)
  BY <1>3, <1>6, EndedIs
<1>9. PICK u : u = Settle(s)
  OBVIOUS
<1>10. StateOK(u, l, tip)
  BY <1>3, <1>8, <1>9, SettleIs
<1> HIDE DEF x
<1>11. CASE c' = s
  BY <1>1, <1>3, <1>8, <1>11, StoreKeeps
<1>12. CASE c' = u
  BY <1>1, <1>3, <1>10, <1>12, StoreKeeps
<1> QED
  BY <1>7, <1>9, <1>11, <1>12

LEMMA CrashKeeps == ASSUME DriftInv, Crash PROVE DriftInv'
<1>1. /\ c' = c /\ w' = None /\ UNCHANGED <<launched, git>>
      /\ StateOK(c, Changes(launched), tip)
  BY DEF Crash, DriftInv
<1>2. PICK s : s = c
  OBVIOUS
<1> QED
  BY <1>1, <1>2, StoreKeeps

\* While a closure pass runs, no round is asked.
LEMMA AskingIdle ==
  ASSUME DriftInv, c.doc.stage \in Asking
  PROVE  Idle
<1>1. Env /\ StateOK(c, Changes(launched), tip) /\ (w # None => Held(c.doc))
  BY DEF DriftInv
<1>2. Held(c.doc) => c.doc.stage \notin Asking
  BY <1>1, HeldSettles
<1> QED
  BY <1>1, <1>2 DEF Idle

\* The reviewers answer in the file of the round.
LEMMA AnsweredIs ==
  ASSUME NEW l, NEW t, NEW s, StateOK(s, l, t), s.doc.stage = "running",
         NEW a \in Cycle!Answers
  PROVE  StateOK([s EXCEPT !.doc.round = a], l, t)
<1> DEFINE x == [s.doc EXCEPT !.round = a]
           u == [s EXCEPT !.doc = x]
<1>1. s \in Stored /\ Good(s.doc) /\ DriftOK(s.drift) /\ s.doc \in Cycle!Cycle
  BY DEF StateOK, Good
<1>2. a \in Cycle!RoundFile
  BY DEF Cycle!Answers, Cycle!NoRound, Cycle!RoundFile
<1>3. /\ x \in Cycle!Cycle /\ x.stage = s.doc.stage /\ x.findings = s.doc.findings
      /\ x.pending = s.doc.pending /\ x.deslop = s.doc.deslop /\ x.round = a
      /\ x.convergence = s.doc.convergence /\ x.github = s.doc.github
      /\ x.heads = s.doc.heads /\ x.progress = s.doc.progress
  BY <1>1, <1>2 DEF Cycle!Cycle
<1>4. [s EXCEPT !.doc.round = a] = u
  BY <1>1 DEF Stored
<1> HIDE DEF x
<1>5. Good(x)
  BY <1>1, <1>3 DEF Good, FindingsKnown, RoundKnown, GreenKnown, CleanupHeld, VerdictKnown,
     Cycle!DeslopTracked, Cycle!GithubTerminal, Asking
<1>6. u \in Stored /\ u.doc = x /\ u.drift = s.drift
  BY <1>1, <1>3 DEF Stored
<1> HIDE DEF u
<1>7. Matches(x, l) /\ SeenBy(x, t)
  BY <1>3 DEF StateOK, Matches, SeenBy, Cycle!GithubTerminal
<1>8. StateOK(u, l, t)
  BY <1>1, <1>5, <1>6, <1>7 DEF StateOK
<1> QED
  BY <1>4, <1>8

LEMMA ReviewersEndKeeps == ASSUME DriftInv, ReviewersEnd PROVE DriftInv'
<1>1. PICK a \in Cycle!Answers : Save([c EXCEPT !.doc.round = a])
  BY DEF ReviewersEnd
<1>2. PICK s : s = [c EXCEPT !.doc.round = a]
  OBVIOUS
<1>3. c.doc.stage = "running" /\ StateOK(c, Changes(launched), tip)
  BY DEF ReviewersEnd, DriftInv
<1>4. PICK l : l = Changes(launched)
  OBVIOUS
<1>5. StateOK(s, l, tip)
  BY <1>2, <1>3, <1>4, AnsweredIs
<1>6. Idle
  BY <1>3, AskingIdle DEF Asking
<1> QED
  BY <1>1, <1>2, <1>4, <1>5, <1>6, SaveKeeps

\* The result of the round waits for its decision.
LEMMA PendingIs ==
  ASSUME NEW l, NEW t, NEW s, StateOK(s, l, t), s.doc.stage = "running"
  PROVE  LET x == Cycle!ReviewStepPending(s.doc)
             u == [s EXCEPT !.doc = x]
         IN  /\ StateOK(u, l, t) /\ u.doc = x /\ u.mb = s.mb
             /\ x.stage = "decision-pending" /\ x.round = s.doc.round
             /\ x.pending.head = s.doc.pending.head /\ x.convergence = s.doc.convergence
             /\ x.findings = s.doc.findings /\ x.deslop = s.doc.deslop
<1> DEFINE d == s.doc
           x == [d EXCEPT !.stage = "decision-pending", !.pending.kind = "decision",
                          !.heads.reviewed = d.pending.head, !.progress.next = d.pending.step]
           u == [s EXCEPT !.doc = x]
<1>1. s \in Stored /\ Good(d) /\ DriftOK(s.drift) /\ d \in Cycle!Cycle /\ d.stage \in Asking
  BY DEF StateOK, Good, Asking
<1>2. d.pending.head \in Commits /\ d.pending.step = 0
      /\ ~Cycle!DeslopTracked(d) /\ ~Cycle!GithubTerminal(d)
  BY <1>1, AskingIs
<1>3. Cycle!ReviewStepPending(d) = x
  BY <1>2, OneStep DEF Cycle!ReviewStepPending
<1>4. /\ x \in Cycle!Cycle /\ x.stage = "decision-pending" /\ x.findings = d.findings
      /\ x.pending.head = d.pending.head /\ x.pending.step = d.pending.step
      /\ x.deslop = d.deslop /\ x.round = d.round
      /\ x.convergence = d.convergence /\ x.github = d.github
  <2>1. [d.pending EXCEPT !.kind = "decision"] \in Cycle!Pending
    BY <1>1 DEF Cycle!Cycle, Cycle!Pending, Cycle!ActionKinds
  <2>2. [d.heads EXCEPT !.reviewed = d.pending.head] \in Cycle!ReviewHeads
    BY <1>1, <1>2, OneStep DEF Cycle!Cycle, Cycle!ReviewHeads, MaybeCommit
  <2>3. [d.progress EXCEPT !.next = d.pending.step] \in Cycle!Progress
    BY <1>1, <1>2, OneStep DEF Cycle!Cycle, Cycle!Progress
  <2>4. [d.pending EXCEPT !.kind = "decision"].head = d.pending.head
        /\ [d.pending EXCEPT !.kind = "decision"].step = d.pending.step
    BY <1>1 DEF Cycle!Cycle, Cycle!Pending
  <2>5. x = [d EXCEPT !.stage = "decision-pending",
                      !.pending = [d.pending EXCEPT !.kind = "decision"],
                      !.heads = [d.heads EXCEPT !.reviewed = d.pending.head],
                      !.progress = [d.progress EXCEPT !.next = d.pending.step]]
    BY <1>1 DEF Cycle!Cycle
  <2> HIDE DEF x, d
  <2> QED
    BY <1>1, <2>1, <2>2, <2>3, <2>4, <2>5 DEF Cycle!Cycle, Cycle!Stages
<1> HIDE DEF x
<1>5. ~Cycle!DeslopTracked(x) /\ ~Cycle!GithubTerminal(x)
  BY <1>2, <1>4 DEF Cycle!DeslopTracked, Cycle!GithubTerminal
<1>6. Good(x)
  BY <1>1, <1>2, <1>4, <1>5 DEF Good, FindingsKnown, RoundKnown, GreenKnown, CleanupHeld,
     VerdictKnown, Cycle!DeslopTracked, Asking, Fixing
<1>7. u \in Stored /\ u.doc = x /\ u.drift = s.drift /\ u.mb = s.mb
  BY <1>1, <1>4 DEF Stored
<1> HIDE DEF u
<1>8. Matches(x, l) /\ SeenBy(x, t)
  BY <1>1, <1>4, <1>5 DEF StateOK, Matches, SeenBy, Asking
<1>9. StateOK(u, l, t)
  BY <1>1, <1>6, <1>7, <1>8 DEF StateOK
<1> QED
  BY <1>3, <1>4, <1>7, <1>9 DEF u

LEMMA FinishReviewKeeps == ASSUME DriftInv, FinishReview PROVE DriftInv'
<1>1. PICK l : l = Changes(launched)
  OBVIOUS
<1>2. Env /\ StateOK(c, l, tip) /\ c.doc.stage = "running"
  BY <1>1 DEF DriftInv, FinishReview
<1> DEFINE x == Cycle!ReviewStepPending(c.doc)
<1>3. PICK s : s = [c EXCEPT !.doc = x]
  OBVIOUS
<1>4. s = [c EXCEPT !.doc = Cycle!ReviewStepPending(@)]
  <2>1. c \in Stored
    BY <1>2 DEF StateOK
  <2> QED
    BY <1>3, <2>1 DEF Stored
<1>5. StateOK(s, l, tip)
  BY <1>2, <1>3, PendingIs
<1> HIDE DEF x
<1>6. PICK u : u = Settle(s)
  OBVIOUS
<1>7. StateOK(u, l, tip)
  BY <1>2, <1>5, <1>6, SettleIs
<1>8. Save(u)
  BY <1>4, <1>6 DEF FinishReview
<1>9. Idle
  BY <1>2, AskingIdle DEF Asking
<1> QED
  BY <1>1, <1>7, <1>8, <1>9, SaveKeeps

LEMMA DecideKeeps ==
  ASSUME DriftInv, NEW v \in {"clean", "findings"}, Decide(v)
  PROVE  DriftInv'
<1>1. PICK l : l = Changes(launched)
  OBVIOUS
<1>2. PICK s : s = IF Cycle!DeslopReady(c.doc) THEN Resume(c) ELSE c
  OBVIOUS
<1>3. Env /\ StateOK(c, l, tip)
  BY <1>1 DEF DriftInv
<1>4. StateOK(s, l, tip)
      /\ (s.doc.deslop.status = c.doc.deslop.status \/ ~Cycle!DeslopTracked(s.doc))
  BY <1>2, <1>3, ResumeIs
<1>5. Idle /\ RecordOn(s, v)
  BY <1>2 DEF Decide
<1>6. CASE RunCleanup(s, "decision")
  BY <1>1, <1>4, <1>5, <1>6, CleanupKeeps
<1>7. CASE /\ s.doc.stage = "decision-pending"
           /\ Save([s EXCEPT !.doc = Cycle!RecordDecision(@, v)])
  <2> DEFINE x == Cycle!RecordDecision(s.doc, v)
  <2>1. PICK u : u = [s EXCEPT !.doc = x]
    OBVIOUS
  <2>2. u = [s EXCEPT !.doc = Cycle!RecordDecision(@, v)]
    <3>1. s \in Stored
      BY <1>4 DEF StateOK
    <3> QED
      BY <2>1, <3>1 DEF Stored
  <2>3. StateOK(u, l, tip)
    BY <1>4, <1>7, <2>1, DecisionIs
  <2> QED
    BY <1>1, <1>5, <1>7, <2>2, <2>3, SaveKeeps
<1> QED
  BY <1>5, <1>6, <1>7 DEF RecordOn

LEMMA SaveResumedKeeps == ASSUME DriftInv, SaveResumed PROVE DriftInv'
<1>1. PICK l : l = Changes(launched)
  OBVIOUS
<1>2. PICK s : s = Resume(c)
  OBVIOUS
<1>3. Env /\ StateOK(c, l, tip)
  BY <1>1 DEF DriftInv
<1>4. StateOK(s, l, tip)
  BY <1>2, <1>3, ResumeIs
<1>5. Idle /\ Save(s)
  BY <1>2 DEF SaveResumed
<1> QED
  BY <1>1, <1>4, <1>5, SaveKeeps

LEMMA DeslopDoneKeeps == ASSUME DriftInv, DeslopDone PROVE DriftInv'
<1>1. PICK l : l = Changes(launched)
  OBVIOUS
<1>2. Env /\ StateOK(c, l, tip) /\ Idle /\ Cycle!DeslopOpen(c.doc)
  BY <1>1 DEF DriftInv, DeslopDone
<1>3. c \in Stored /\ Good(c.doc) /\ DriftOK(c.drift)
  BY <1>2 DEF StateOK
<1> DEFINE x == Cycle!MarkDeslopClosed(c.doc, FALSE)
<1>4. PICK u : u = [c EXCEPT !.doc = x]
  OBVIOUS
<1>5. Save(u)
  <2>1. u = [c EXCEPT !.doc = Cycle!MarkDeslopClosed(@, FALSE)]
    BY <1>3, <1>4 DEF Stored
  <2> QED
    BY <2>1 DEF DeslopDone
<1>6. Good(x) /\ x.stage = "created"
  BY <1>2, <1>3, ClosedGood DEF Good, CleanupHeld, Cycle!DeslopOpen
<1> HIDE DEF x
<1>7. Quiet(x)
  BY <1>6 DEF Quiet, Asking
<1>8. StateOK(u, l, tip)
  BY <1>3, <1>4, <1>7, WithDoc
<1> QED
  BY <1>1, <1>2, <1>5, <1>8, SaveKeeps

\* The verdict of GitHub is recorded for the head that was signed off.
LEMMA CleanResultIs ==
  ASSUME NEW l, NEW t, NEW s, StateOK(s, l, t), s.doc.stage = "review-green",
         ~Cycle!DeslopTracked(s.doc)
  PROVE  LET x == [s.doc EXCEPT !.github = [status |-> "clean", head |-> s.doc.heads.reviewed]]
         IN  StateOK([s EXCEPT !.doc = x], l, t)
<1> DEFINE d == s.doc
           g == [status |-> "clean", head |-> d.heads.reviewed]
           x == [d EXCEPT !.github = g]
           u == [s EXCEPT !.doc = x]
<1>1. /\ s \in Stored /\ Good(d) /\ DriftOK(s.drift) /\ d \in Cycle!Cycle
      /\ Changes(d.heads.reviewed) = l /\ d.heads.reviewed \in Commits
  BY DEF StateOK, Good, Matches, GreenKnown
<1>2. g \in Cycle!Github /\ g.head = d.heads.reviewed
  BY <1>1, OneStep DEF Cycle!Github, MaybeCommit
<1> HIDE DEF g
<1>3. /\ x \in Cycle!Cycle /\ x.stage = d.stage /\ x.findings = d.findings
      /\ x.pending = d.pending /\ x.deslop = d.deslop /\ x.round = d.round
      /\ x.convergence = d.convergence /\ x.github = g /\ x.heads = d.heads
      /\ x.progress = d.progress
  BY <1>1, <1>2 DEF Cycle!Cycle
<1> HIDE DEF x
<1>4. Good(x)
  BY <1>1, <1>2, <1>3 DEF Good, FindingsKnown, RoundKnown, GreenKnown, CleanupHeld,
     VerdictKnown, Cycle!DeslopTracked
<1>5. Matches(x, l) /\ SeenBy(x, t)
  BY <1>1, <1>2, <1>3 DEF Matches, SeenBy, Asking
<1>6. u \in Stored /\ u.doc = x /\ u.drift = s.drift
  BY <1>1, <1>3 DEF Stored
<1> HIDE DEF u
<1>7. StateOK(u, l, t)
  BY <1>1, <1>4, <1>5, <1>6 DEF StateOK
<1> QED
  BY <1>7 DEF u, x, g

LEMMA FindingsResultIs ==
  ASSUME NEW l, NEW t, NEW s, StateOK(s, l, t), s.doc.stage = "review-green",
         ~Cycle!DeslopTracked(s.doc)
  PROVE  LET h == s.doc.heads.reviewed
             e == [s.doc EXCEPT !.github = [status |-> "findings", head |-> h]]
             o == [e EXCEPT !.findings = [head |-> h, step |-> Cycle!LastCompleted(s.doc),
                                          rerun |-> TRUE],
                            !.validation.green = FALSE]
             x == Cycle!RecordAcceptedFindingsHead(
                      Cycle!SetStage(o, "fix-pending", Cycle!NoAction), h)
         IN  StateOK([s EXCEPT !.doc = x], l, t)
<1> DEFINE d == s.doc
           h == d.heads.reviewed
           g == [status |-> "findings", head |-> h]
           f == [head |-> h, step |-> Cycle!LastCompleted(d), rerun |-> TRUE]
           v == [d.validation EXCEPT !.green = FALSE]
           o == [d EXCEPT !.github = g, !.findings = f, !.validation = v]
           x == Cycle!RecordAcceptedFindingsHead(
                    Cycle!SetStage(o, "fix-pending", Cycle!NoAction), h)
<1>1. /\ s \in Stored /\ Good(d) /\ DriftOK(s.drift) /\ d \in Cycle!Cycle
      /\ h \in Commits /\ d.progress.completed[0] # None
      /\ d.convergence.continuePending = FALSE
  BY DEF StateOK, Good, GreenKnown
<1>2. g \in Cycle!Github /\ g.status = "findings"
  BY <1>1, OneStep DEF Cycle!Github, MaybeCommit
<1>3. f \in Cycle!Findings /\ f.head = h /\ f.step = 0
  BY <1>1, LastIs, OneStep DEF Cycle!Findings, MaybeCommit
<1>4. v \in Cycle!Validation
  BY <1>1 DEF Cycle!Cycle, Cycle!Validation
<1> HIDE DEF g, f, v
<1>5. /\ o \in Cycle!Cycle /\ o.github = g /\ o.findings = f
      /\ o.deslop = d.deslop /\ o.convergence = d.convergence
  BY <1>1, <1>2, <1>3, <1>4 DEF Cycle!Cycle
<1>6. o = [[d EXCEPT !.github = g] EXCEPT !.findings = f, !.validation.green = FALSE]
  BY <1>1 DEF Cycle!Cycle, v
<1> HIDE DEF o
<1>7. ~Cycle!DeslopTracked(o) /\ ~Cycle!GithubTerminal(o)
      /\ o.convergence.continuePending = FALSE
  BY <1>1, <1>2, <1>5 DEF Cycle!DeslopTracked, Cycle!GithubTerminal
<1>8. FixDue(x)
  BY <1>1, <1>3, <1>5, <1>7, OpenFindings
<1> HIDE DEF x
<1>9. Quiet(x)
  BY <1>8 DEF FixDue, Quiet, Fixing, Asking
<1>10. StateOK([s EXCEPT !.doc = x], l, t)
  BY <1>1, <1>9, WithDoc
<1> QED
  BY <1>6, <1>10 DEF x, f, g

LEMMA GithubResultKeeps == ASSUME DriftInv, GithubResult PROVE DriftInv'
<1>1. PICK l : l = Changes(launched)
  OBVIOUS
<1>2. /\ StateOK(c, l, tip) /\ Idle /\ c.doc.stage = "review-green"
      /\ ~Cycle!DeslopTracked(c.doc)
  BY <1>1 DEF DriftInv, GithubResult
<1>3. PICK result \in {"clean", "findings"} :
        LET d == c.doc
            h == d.heads.reviewed
            recorded == [d EXCEPT !.github = [status |-> result, head |-> h]]
            open == [recorded EXCEPT
                       !.findings = [head |-> h, step |-> Cycle!LastCompleted(d),
                                     rerun |-> TRUE],
                       !.validation.green = FALSE]
        IN  Save([c EXCEPT !.doc =
                IF result = "clean" THEN recorded
                ELSE Cycle!RecordAcceptedFindingsHead(
                         Cycle!SetStage(open, "fix-pending", Cycle!NoAction), h)])
  BY DEF GithubResult
<1>4. CASE result = "clean"
  <2> DEFINE x == [c.doc EXCEPT !.github = [status |-> "clean", head |-> c.doc.heads.reviewed]]
  <2>1. PICK u : u = [c EXCEPT !.doc = x]
    OBVIOUS
  <2>2. Save(u)
    BY <1>3, <1>4, <2>1
  <2>3. StateOK(u, l, tip)
    BY <1>2, <2>1, CleanResultIs
  <2> QED
    BY <1>1, <1>2, <2>2, <2>3, SaveKeeps
<1>5. CASE result = "findings"
  <2> DEFINE h == c.doc.heads.reviewed
             e == [c.doc EXCEPT !.github = [status |-> "findings", head |-> h]]
             o == [e EXCEPT !.findings = [head |-> h, step |-> Cycle!LastCompleted(c.doc),
                                          rerun |-> TRUE],
                            !.validation.green = FALSE]
             x == Cycle!RecordAcceptedFindingsHead(
                      Cycle!SetStage(o, "fix-pending", Cycle!NoAction), h)
  <2>1. PICK u : u = [c EXCEPT !.doc = x]
    OBVIOUS
  <2>2. Save(u)
    BY <1>3, <1>5, <2>1
  <2>3. StateOK(u, l, tip)
    BY <1>2, <2>1, FindingsResultIs
  <2> QED
    BY <1>1, <1>2, <2>2, <2>3, SaveKeeps
<1> QED
  BY <1>4, <1>5

\* What the branch has left stays behind when it goes on.
LEMMA BehindIs ==
  ASSUME NEW l, NEW t, NEW s, StateOK(s, l, t), NEW u,
         \A x \in Histories : Past(x, t) => Past(x, u)
  PROVE  StateOK(s, l, u)
<1>1. s.doc.stage \in Asking => s.doc.pending.head \in Histories
  BY CommitsAre, AskingIs DEF StateOK
<1> QED
  BY <1>1 DEF StateOK, SeenBy

LEMMA CheckedKeeps ==
  ASSUME DriftInv, NEW t, NEW b \in BaseCommits, NEW e \in BOOLEAN, Checked(t, b, e),
         TipOK(t), \A x \in Histories : Past(x, tip) => Past(x, t)
  PROVE  DriftInv'
<1>1. PICK l : l = Changes(launched)
  OBVIOUS
<1>2. /\ c' = c /\ w' = w /\ launched' = launched
      /\ tip' = t /\ base' = b /\ elsewhere' = e
  BY DEF Checked
<1>3. launched \in MaybeCommit /\ StateOK(c, l, tip)
      /\ (w # None => Held(c.doc) /\ WorkOK(w, l, tip))
  BY <1>1 DEF DriftInv
<1>4. StateOK(c, l, t)
  BY <1>3, BehindIs
<1>5. w # None => WorkOK(w, l, t)
  <2>1. PICK v : v = w
    OBVIOUS
  <2>2. v # None => v.by \in {"rerun", "decision"} /\ Held(v.state.doc)
                    /\ StateOK(v.state, l, tip)
    BY <1>3, <2>1 DEF WorkOK
  <2>3. v # None => StateOK(v.state, l, t)
    BY <2>2, BehindIs
  <2> QED
    BY <2>1, <2>2, <2>3 DEF WorkOK
<1>6. Changes(launched') = l
  BY <1>1, <1>2
<1> QED
  BY <1>2, <1>3, <1>4, <1>5, <1>6 DEF DriftInv, Env

LEMMA GitKeeps == ASSUME DriftInv, Git PROVE DriftInv'
<1>1. /\ TipOK(tip) /\ tip \in Histories /\ base \in BaseCommits /\ elsewhere \in BOOLEAN
      /\ HasEdit(tip)
  BY CommitsAre DEF DriftInv, Env, TipOK
<1>2. CASE CommitFix
  <2>1. PICK p \in Paths : Checked(Commit(tip, p), base, FALSE)
    BY <1>2 DEF CommitFix
  <2>2. TipOK(Commit(tip, p))
    BY <1>1, <1>2, TipCommit DEF CommitFix
  <2>3. \A x \in Histories : Past(x, tip) => Past(x, Commit(tip, p))
    BY <1>1, PastCommit
  <2> QED
    BY <1>1, <2>1, <2>2, <2>3, CheckedKeeps
<1>3. CASE RebaseBranch
  <2>1. Checked(Rebase(tip, base), base, FALSE) /\ MergeBase(tip) < base
    BY <1>3 DEF RebaseBranch
  <2>2. TipOK(Rebase(tip, base)) /\ MergeBase(Rebase(tip, base)) = base
    BY <1>1, TipRebase
  <2>3. Rebase(tip, base) \in Histories
    BY <2>2, CommitsAre DEF TipOK
  <2>4. \A x \in Histories : Past(x, tip) => Past(x, Rebase(tip, base))
    BY <1>1, <2>1, <2>2, <2>3, PastNewer
  <2> QED
    BY <1>1, <2>1, <2>2, <2>4, CheckedKeeps
<1>4. CASE MergeBranch
  <2>1. Checked(Merge(tip, base), base, FALSE) /\ MergeBase(tip) < base
        /\ Len(tip.line) < MaxLine
    BY <1>4 DEF MergeBranch
  <2>2. TipOK(Merge(tip, base)) /\ MergeBase(Merge(tip, base)) = base
    <3>1. MergeBase(tip) \in Nat /\ base \in Nat
      BY <1>1, MergeBaseIs, BaseType
    <3>2. base > MergeBase(tip)
      BY <2>1, <3>1
    <3> QED
      BY <1>1, <2>1, <3>2, TipMerge
  <2>3. Merge(tip, base) \in Histories
    BY <2>2, CommitsAre DEF TipOK
  <2>4. \A x \in Histories : Past(x, tip) => Past(x, Merge(tip, base))
    BY <1>1, <2>1, <2>2, <2>3, PastNewer
  <2> QED
    BY <1>1, <2>1, <2>2, <2>4, CheckedKeeps
<1>5. CASE BaseMoves
  <2>1. base < MaxBase /\ Checked(tip, base + 1, elsewhere)
    BY <1>5 DEF BaseMoves
  <2>2. base + 1 \in BaseCommits
    BY <1>1, <2>1, BaseType DEF BaseCommits
  <2> QED
    BY <1>1, <2>1, <2>2, CheckedKeeps
<1>6. CASE Checkout
  <2>1. Checked(tip, base, ~elsewhere) /\ (~elsewhere) \in BOOLEAN
    BY <1>6 DEF Checkout
  <2> QED
    BY <1>1, <2>1, CheckedKeeps
<1> QED
  BY <1>2, <1>3, <1>4, <1>5, <1>6 DEF Git

\* The cycle starts on a branch with one edit, with its closure pass still to run or left
\* out.
LEMMA InitKeeps == ASSUME Init PROVE DriftInv
<1> DEFINE n == [Cycle!NewCycle EXCEPT !.deslop.status = "skipped"]
           m == [Cycle!NewCycle EXCEPT !.deslop.status = "tracked"]
           New(x) == [doc |-> x, mb |-> 0, drift |-> NoDrift]
<1>1. /\ w = None /\ tip = FirstTip /\ base = 0 /\ elsewhere = FALSE /\ launched = None
      /\ c = New(n) \/ c = New(m)
  BY DEF Init
<1>2. 0 \in BaseCommits
  BY BaseType DEF BaseCommits
<1>3. Env /\ launched \in MaybeCommit
  BY <1>1, <1>2, TipFirst DEF Env, MaybeCommit
<1>4. ASSUME NEW x \in {n, m} PROVE Quiet(x)
  <2>1. /\ x.stage = "created" /\ x.pending = Cycle!NoAction /\ x.round = Cycle!NoRound
        /\ x.progress = [next |-> 0, completed |-> [i \in Cycle!Steps |-> None]]
        /\ x.findings = Cycle!NoFindings
        /\ x.heads = [head |-> FirstTip, reviewed |-> None, fix |-> None, followup |-> None]
        /\ x.convergence = [status |-> "ACTIVE", trees |-> {}, continueUsed |-> FALSE,
                            continuePending |-> FALSE]
        /\ x.validation = Cycle!NewValidation
        /\ x.github = [status |-> "unknown", head |-> None]
        /\ x.deslop \in {[status |-> q, drifted |-> FALSE, head |-> None, reason |-> FALSE] :
                            q \in {"skipped", "tracked"}}
        /\ x = [stage |-> x.stage, pending |-> x.pending, round |-> x.round,
                progress |-> x.progress, findings |-> x.findings, heads |-> x.heads,
                convergence |-> x.convergence, validation |-> x.validation,
                github |-> x.github, deslop |-> x.deslop]
    <3>1. PICK q \in {"skipped", "tracked"} : x = [Cycle!NewCycle EXCEPT !.deslop.status = q]
      OBVIOUS
    <3> HIDE DEF n, m
    <3> QED
      BY <3>1 DEF Cycle!NewCycle
  <2> HIDE DEF n, m
  <2>2. "created" \in Cycle!Stages
    BY DEF Cycle!Stages
  <2>3. Cycle!NoAction \in Cycle!Pending
    BY ActIs DEF Cycle!ActionKinds
  <2>4. Cycle!NoRound \in Cycle!RoundFile /\ Cycle!NoRound.verdict = "unclear"
    BY DEF Cycle!NoRound, Cycle!RoundFile
  <2>5. x.progress \in Cycle!Progress /\ x.progress.next = 0
    BY <2>1, OneStep DEF Cycle!Progress, MaybeCommit
  <2>6. x.findings \in Cycle!Findings
    BY <2>1, OneStep DEF Cycle!NoFindings, Cycle!Findings, MaybeCommit
  <2>7. x.heads \in Cycle!ReviewHeads
    BY <2>1, OneStep, TipFirst DEF Cycle!ReviewHeads, MaybeCommit
  <2>8. x.convergence \in Cycle!Convergence /\ x.convergence.continuePending = FALSE
    BY <2>1 DEF Cycle!Convergence
  <2>9. x.github \in Cycle!Github /\ ~Cycle!GithubTerminal(x)
    BY <2>1, OneStep DEF Cycle!Github, Cycle!GithubTerminal, MaybeCommit
  <2>10. x.deslop \in Cycle!Deslop
    <3>1. PICK q \in {"skipped", "tracked"} :
            x.deslop = [status |-> q, drifted |-> FALSE, head |-> None, reason |-> FALSE]
      BY <2>1
    <3>2. Cycle!MaybeHead = MaybeCommit /\ None \in MaybeCommit
      BY OneStep DEF MaybeCommit
    <3> QED
      BY <3>1, <3>2 DEF Cycle!Deslop
  <2>11. x \in Cycle!Cycle
    BY <2>1, <2>2, <2>3, <2>4, <2>5, <2>6, <2>7, <2>8, <2>9, <2>10, NewValidationType
       DEF Cycle!Cycle
  <2>12. Good(x)
    BY <2>1, <2>4, <2>5, <2>8, <2>9, <2>11 DEF Good, FindingsKnown, RoundKnown, GreenKnown,
       CleanupHeld, VerdictKnown, Fixing, Asking
  <2> QED
    BY <2>1, <2>12 DEF Quiet, Asking
<1> HIDE DEF n, m
<1>5. ASSUME NEW x \in {n, m}, NEW l PROVE StateOK(New(x), l, tip)
  <2>1. Quiet(x) /\ x \in Cycle!Cycle
    BY <1>4 DEF Quiet, Good
  <2>2. NoDrift \in MaybeDrift /\ DriftOK(NoDrift)
    BY DEF NoDrift, MaybeDrift, DriftOK, MaybeCommit
  <2>3. New(x) \in Stored
    BY <1>2, <2>1, <2>2 DEF Stored
  <2> QED
    BY <2>1, <2>2, <2>3, QuietMatches DEF StateOK, Quiet
<1>6. StateOK(c, Changes(launched), tip)
  BY <1>1, <1>5
<1> QED
  BY <1>1, <1>3, <1>6 DEF DriftInv

\* DriftInv is inductive: the shape of the document, what its heads change, and that the
\* branch does not come back, whatever the branch, its base and the commands do.
THEOREM DriftInvariant == Spec => []DriftInv
<1>1. Init => DriftInv
  BY InitKeeps
<1>2. DriftInv /\ [Next]_vars => DriftInv'
  <2> SUFFICES ASSUME DriftInv, [Next]_vars PROVE DriftInv'
    OBVIOUS
  <2>1. CASE UNCHANGED vars
    BY <2>1 DEF vars, DriftInv, Env, WorkOK
  <2>2. CASE Command
    <3>1. CASE DecideClean
      BY <3>1, DecideKeeps DEF DecideClean
    <3>2. CASE DecideFindings
      BY <3>2, DecideKeeps DEF DecideFindings
    <3> QED
      BY <2>2, <3>1, <3>2, RerunCleanupKeeps, RerunLaunchKeeps, RerunIdleKeeps,
         EndCleanupKeeps, CrashKeeps, ReviewersEndKeeps, FinishReviewKeeps, SaveResumedKeeps,
         DeslopDoneKeeps, GithubResultKeeps DEF Command
  <2>3. CASE Git
    BY <2>3, GitKeeps
  <2> QED
    BY <2>1, <2>2, <2>3 DEF Next
<1> QED
  BY <1>1, <1>2, PTL DEF Spec

-----------------------------------------------------------------------------
(* The properties                                                           *)

LEMMA StoredIs ==
  ASSUME NEW l, NEW t, NEW s, StateOK(s, l, t)
  PROVE  StoredOK(s)
<1> DEFINE d == s.doc
<1>1. s \in Stored /\ Good(d) /\ DriftOK(s.drift) /\ d \in Cycle!Cycle
  BY DEF StateOK, Good
<1>2. /\ d.deslop.head \in MaybeCommit /\ d.findings.head \in MaybeCommit
      /\ d.pending.head \in MaybeCommit /\ d.pending.fix \in MaybeCommit
      /\ d.github.head \in MaybeCommit
      /\ d.stage \in Cycle!Stages /\ d.pending.kind \in Cycle!ActionKinds
  BY <1>1, OneStep DEF Cycle!Cycle, Cycle!Deslop, Cycle!Findings, Cycle!Pending, Cycle!Github
<1>3. d.heads.head \in Commits /\ \A k \in DOMAIN d.heads : d.heads[k] \in MaybeCommit
  <2>1. d.heads \in [head : Commits, reviewed : MaybeCommit, fix : MaybeCommit,
                     followup : MaybeCommit]
    BY <1>1, OneStep DEF Cycle!Cycle, Cycle!ReviewHeads
  <2> HIDE DEF d
  <2>2. DOMAIN d.heads = {"head", "reviewed", "fix", "followup"}
    BY <2>1
  <2>3. /\ d.heads["head"] \in Commits /\ d.heads["reviewed"] \in MaybeCommit
        /\ d.heads["fix"] \in MaybeCommit /\ d.heads["followup"] \in MaybeCommit
    BY <2>1
  <2> QED
    BY <2>2, <2>3 DEF MaybeCommit
<1>4. \A i \in DOMAIN d.progress.completed : d.progress.completed[i] \in MaybeCommit
  BY <1>1, OneStep DEF Cycle!Cycle, Cycle!Progress
<1>5. s.drift.from \in MaybeCommit /\ s.drift.to \in MaybeCommit /\ s.mb \in BaseCommits
  BY <1>1 DEF Stored, MaybeDrift
<1>6. \A h \in HeadsOf(d) \union {s.drift.from, s.drift.to} : h \in MaybeCommit
  <2> HIDE DEF d
  <2> QED
    BY <1>2, <1>3, <1>4, <1>5 DEF HeadsOf
<1>7. s.drift.equivalent => s.drift.to # None
  BY <1>1, CommitAssumption DEF DriftOK
<1>8. d.heads.head # None
  BY <1>3, CommitAssumption
<1> QED
  BY <1>2, <1>5, <1>6, <1>7, <1>8 DEF StoredOK, MaybeCommit

\* Every head the cycle stores, also after it was rewritten, is a commit or none, and the
\* unsaved state of a closure pass is as well formed as the stored one.
THEOREM DriftTypeOK == Spec => []TypeOK
<1>1. DriftInv => TypeOK
  <2> SUFFICES ASSUME DriftInv PROVE TypeOK
    OBVIOUS
  <2>1. StoredOK(c)
    BY StoredIs DEF DriftInv
  <2>2. w # None => StoredOK(w.state)
    BY StoredIs DEF DriftInv, WorkOK
  <2> QED
    BY <2>1, <2>2 DEF TypeOK, DriftInv, Env, TipOK, MaybeCommit
<1> QED
  BY <1>1, DriftInvariant, PTL

\* A cycle that needs its GitHub review is shown as done only for a commit with the changes
\* its signoff was launched on.  (A fast cycle is done without that review; what its ladder
\* shows then is the run fast_elsewhere.)
THEOREM DriftDoneForItsPatch ==
  ASSUME ~Fast
  PROVE  Spec => []DoneForItsPatch
<1>1. DriftInv => DoneForItsPatch
  <2> SUFFICES ASSUME DriftInv, LadderDone(c, HEAD)
               PROVE  Changes(HEAD) = Changes(launched)
    BY DEF DoneForItsPatch
  <2>1. Cycle!GithubTerminal(c.doc) /\ EquivalentHead(c, c.doc.github.head) = HEAD
    BY DEF LadderDone, LadderInvalidated
  <2>2. Changes(c.doc.github.head) = Changes(launched) /\ DriftOK(c.drift)
    BY <2>1 DEF DriftInv, StateOK, Matches
  <2>3. Changes(EquivalentHead(c, c.doc.github.head)) = Changes(c.doc.github.head)
    BY <2>2 DEF EquivalentHead, DriftOK
  <2> QED
    BY <2>1, <2>2, <2>3
<1> QED
  BY <1>1, DriftInvariant, PTL

\* Following a base that went on under the same changes: nothing counts as changed, and
\* the head that was reviewed is one on the new merge base.
LEMMA SameFollows ==
  ASSUME Env, ~elsewhere, NEW l, NEW s, StateOK(s, l, tip),
         Same(s, DriftReviewedHead(s.doc))
  PROVE  LET id == Identity(s)
             f == DriftReviewedHead(s.doc)
             g == Renamed(id.drift, f)
         IN  /\ id.compatible
             /\ MergeBase(g) = MergeBase(HEAD) /\ Changes(g) = Changes(HEAD)
             /\ \/ id.drift.equivalent
                \/ Renamed(id.drift, f) = f /\ DiffPaths(f, HEAD) = {} /\ ~Moved(s)
<1> DEFINE id == Identity(s)
           f == DriftReviewedHead(s.doc)
           g == Renamed(id.drift, f)
<1>1. s \in Stored /\ Good(s.doc)
  BY DEF StateOK
<1>2. f \in Histories /\ HEAD \in Histories /\ HEAD # None
  BY <1>1, ReviewedHeadIs, CommitsAre, HeadIs, CommitAssumption
<1>3. CASE Moved(s)
  <2>1. id.compatible /\ id.drift = [equivalent |-> TRUE, from |-> f, to |-> HEAD]
    BY <1>1, <1>3, SameMoved
  <2>2. g = HEAD
    BY <1>2, <2>1 DEF Renamed
  <2> QED
    BY <2>1, <2>2
<1>4. CASE ~Moved(s)
  <2>1. id.compatible /\ id.drift = NoDrift
    BY <1>1, <1>4, IdentityIs
  <2>2. g = f
    BY <2>1 DEF Renamed, NoDrift
  <2>3. MergeBase(f) = MergeBase(HEAD) /\ Changes(f) = Changes(HEAD)
    BY <1>4 DEF Moved, Same
  <2>4. DiffPaths(f, HEAD) = {}
    BY <1>2, <2>3, SameFiles
  <2> QED
    BY <1>4, <2>1, <2>2, <2>3, <2>4
<1> QED
  BY <1>3, <1>4

\* A rebase alone closes no findings.
LEMMA FixStays ==
  ASSUME Env, NEW l, NEW s, StateOK(s, l, tip), s.doc.findings # Cycle!NoFindings,
         Same(s, s.doc.findings.head)
  PROVE  LET u == Resume(s)
         IN  u.doc.findings # Cycle!NoFindings /\ Same(u, u.doc.findings.head)
<1> DEFINE id == Identity(s)
           f == Follow(s, id.drift)
<1>1. s \in Stored /\ Good(s.doc) /\ s.doc.stage \in Fixing
      /\ DriftReviewedHead(s.doc) = s.doc.findings.head
  BY ReviewedHeadIs DEF StateOK, Good
<1>2. CASE s.doc.stage # "fix-pending"
  <2>1. Resume(s) = s
    BY <1>1, <1>2, ResumeIs DEF Fixing
  <2> QED
    BY <2>1
<1>3. CASE s.doc.stage = "fix-pending"
  <2>1. Resume(s) = ResumeFix(s, id)
    BY <1>3 DEF Resume, ResumeAt
  <2>2. FixDue(s.doc)
    BY <1>1 DEF FixDue
  <2>3. CASE elsewhere
    <3>1. ~id.compatible
      BY <1>1, <2>3, IdentityIs
    <3>2. ResumeFix(s, id) = [s EXCEPT !.doc = Cycle!WithFixAction(s.doc)]
      BY <1>1, <2>3, <3>1 DEF ResumeFix, Stored
    <3>3. Cycle!WithFixAction(s.doc).findings = s.doc.findings
      BY <2>2, WithFixGood
    <3>4. /\ [s EXCEPT !.doc = Cycle!WithFixAction(s.doc)].doc = Cycle!WithFixAction(s.doc)
          /\ [s EXCEPT !.doc = Cycle!WithFixAction(s.doc)].mb = s.mb
      BY <1>1 DEF Stored
    <3> QED
      BY <2>1, <3>2, <3>3, <3>4 DEF Same
  <2>4. CASE ~elsewhere
    <3> DEFINE g == Renamed(id.drift, s.doc.findings.head)
    <3>1. /\ id.compatible
          /\ MergeBase(g) = MergeBase(HEAD) /\ Changes(g) = Changes(HEAD)
          /\ id.drift.equivalent \/ (g = s.doc.findings.head /\ DiffPaths(g, HEAD) = {})
      BY <1>1, <2>4, SameFollows
    <3>2. Followable(s, id.drift)
      BY <1>1, IdentityIs
    <3>3. /\ StateOK(f, l, tip) /\ f.mb = MergeBase(HEAD) /\ f.doc.findings.head = g
          /\ f.doc.findings # Cycle!NoFindings /\ f.doc.stage = "fix-pending"
      BY <1>3, <3>2, FollowIs
    <3>4. f \in Stored /\ FixDue(f.doc)
      BY <3>3 DEF StateOK, FixDue, Fixing
    <3>5. ResumeFix(s, id) = [f EXCEPT !.doc = Cycle!WithFixAction(f.doc)]
      <4>1. ~(DiffPaths(f.doc.findings.head, HEAD) # {} /\ ~id.drift.equivalent)
        BY <3>1, <3>3
      <4> QED
        BY <3>1, <3>4, <4>1 DEF ResumeFix, Stored
    <3> HIDE DEF f, g
    <3>6. Cycle!WithFixAction(f.doc).findings = f.doc.findings
      BY <3>4, WithFixGood
    <3>7. /\ [f EXCEPT !.doc = Cycle!WithFixAction(f.doc)].doc = Cycle!WithFixAction(f.doc)
          /\ [f EXCEPT !.doc = Cycle!WithFixAction(f.doc)].mb = f.mb
      BY <3>4 DEF Stored
    <3> QED
      BY <2>1, <3>1, <3>3, <3>5, <3>6, <3>7 DEF Same
  <2> QED
    BY <2>3, <2>4
<1> QED
  BY <1>2, <1>3

\* A rebase alone does not close the closure pass.
LEMMA DeslopStays ==
  ASSUME Env, NEW l, NEW s, StateOK(s, l, tip), Cycle!DeslopOpen(s.doc),
         Same(s, s.doc.deslop.head)
  PROVE  LET u == Resume(s)
         IN  Cycle!DeslopOpen(u.doc) /\ Same(u, u.doc.deslop.head)
<1> DEFINE id == Identity(s)
           f == Follow(s, id.drift)
           e == [f.doc EXCEPT !.validation = Cycle!NewValidation]
           g == Renamed(id.drift, s.doc.deslop.head)
           fixed == DiffPaths(s.doc.deslop.head, HEAD) # {} /\ ~id.drift.equivalent
<1>1. s \in Stored /\ Good(s.doc) /\ s.doc.stage = "created"
      /\ DriftReviewedHead(s.doc) = s.doc.deslop.head
  BY ReviewedHeadIs DEF StateOK, Good, CleanupHeld, Cycle!DeslopOpen
<1>2. Resume(s) = ResumeCreated(s, id)
  BY <1>1 DEF Resume, ResumeAt
<1>3. CASE ~(id.compatible /\ s.doc.heads.head # HEAD)
  <2>1. Resume(s) = s
    BY <1>2, <1>3 DEF ResumeCreated
  <2> QED
    BY <2>1
<1>4. CASE id.compatible /\ s.doc.heads.head # HEAD
  <2>1. ~elsewhere /\ Followable(s, id.drift)
    BY <1>1, <1>4, IdentityIs
  <2>2. /\ MergeBase(g) = MergeBase(HEAD) /\ Changes(g) = Changes(HEAD)
        /\ id.drift.equivalent \/ DiffPaths(s.doc.deslop.head, HEAD) = {}
    BY <1>1, <2>1, SameFollows
  <2>3. /\ StateOK(f, l, tip) /\ f.mb = MergeBase(HEAD) /\ f.doc.deslop.head = g
        /\ f.doc.deslop.status = "done"
    BY <2>1, FollowIs DEF Cycle!DeslopOpen
  <2>4. f \in Stored /\ Good(f.doc)
    BY <2>3 DEF StateOK
  <2>5. ResumeCreated(s, id) = [f EXCEPT !.doc = e]
    <3>1. ~fixed
      BY <2>2
    <3>2. s.doc.deslop.status = "done"
      BY DEF Cycle!DeslopOpen
    <3>3. [f EXCEPT !.doc.validation = Cycle!NewValidation] = [f EXCEPT !.doc = e]
      BY <2>4 DEF Stored
    <3>4. [[f EXCEPT !.doc = e] EXCEPT !.doc = @] = [f EXCEPT !.doc = e]
      BY <2>4 DEF Stored
    <3> QED
      BY <1>4, <3>1, <3>2, <3>3, <3>4 DEF ResumeCreated
  <2> HIDE DEF f, g
  <2>6. e.deslop = f.doc.deslop
    BY <2>4, NewValidationType, ValidationGood
  <2> HIDE DEF e
  <2>7. [f EXCEPT !.doc = e].doc = e /\ [f EXCEPT !.doc = e].mb = f.mb
    BY <2>4 DEF Stored
  <2> QED
    BY <1>2, <2>2, <2>3, <2>5, <2>6, <2>7 DEF Same, Cycle!DeslopOpen
<1> QED
  BY <1>3, <1>4

\* What a decision that is due rests on.
Awaited(s) ==
    s.doc.stage = "decision-pending"
      => Same(s, s.doc.pending.head) /\ s.doc.round.verdict = "clean"

\* A rebase alone makes no findings out of a clean round: on the same merge base the
\* reviewed commit is HEAD itself, on another one it counts as equivalent.
LEMMA VerdictStays ==
  ASSUME Env, NEW l, NEW s, StateOK(s, l, tip), Awaited(s)
  PROVE  LET u == Resume(s)
         IN  Awaited(u) /\ u.doc.convergence = s.doc.convergence
<1>1. CASE s.doc.stage # "decision-pending"
  BY <1>1, ResumeIs DEF Awaited
<1>2. CASE s.doc.stage = "decision-pending"
  <2> DEFINE id == Identity(s)
             f == Follow(s, id.drift)
             g == Renamed(id.drift, s.doc.pending.head)
  <2>1. /\ s \in Stored /\ Good(s.doc) /\ s.doc.stage \in Asking
        /\ DriftReviewedHead(s.doc) = s.doc.pending.head
        /\ Same(s, s.doc.pending.head) /\ s.doc.round.verdict = "clean"
        /\ SeenBy(s.doc, tip) /\ s.doc.pending.head \in Histories
    BY <1>2, ReviewedHeadIs, AskingIs, CommitsAre DEF StateOK, Asking, Awaited
  <2>2. Resume(s) = ResumeDecision(s, id)
    BY <1>2 DEF Resume, ResumeAt
  <2>3. CASE ~id.compatible
    <3>1. Resume(s) = s
      BY <2>2, <2>3 DEF ResumeDecision
    <3> QED
      BY <3>1
  <2>4. CASE id.compatible
    <3>1. ~elsewhere /\ Followable(s, id.drift)
      BY <2>1, <2>4, IdentityIs
    <3>2. /\ MergeBase(g) = MergeBase(HEAD) /\ Changes(g) = Changes(HEAD)
          /\ id.drift.equivalent \/ (g = s.doc.pending.head /\ ~Moved(s))
      BY <2>1, <3>1, SameFollows
    <3>3. /\ StateOK(f, l, tip) /\ f.mb = MergeBase(HEAD) /\ f.doc.pending.head = g
          /\ f.doc.stage = "decision-pending" /\ f.doc.round = s.doc.round
          /\ f.doc.convergence = s.doc.convergence
      BY <1>2, <3>1, FollowIs
    <3>4. f \in Stored
      BY <3>3 DEF StateOK
    <3>5. id.drift.equivalent \/ g = HEAD
      <4>1. SUFFICES ASSUME g = s.doc.pending.head, ~Moved(s) PROVE g = HEAD
        BY <3>2
      <4>2. HEAD = tip /\ Changes(HEAD) # {} /\ HEAD \in Histories
        BY <3>1, HeadIs
      <4>3. Past(g, tip)
        BY <2>1, <3>2, <4>1, <4>2 DEF SeenBy
      <4> QED
        BY <2>1, <3>2, <4>1, <4>2, <4>3, PastSame
    <3>6. ResumeDecision(s, id) = f
      <4>1. id.drift.equivalent \/ f.doc.pending.head = HEAD
        BY <3>3, <3>5
      <4>2. [f EXCEPT !.doc = @] = f
        BY <3>4 DEF Stored
      <4>3. ResumeDecision(s, id) =
              [f EXCEPT !.doc = IF id.drift.equivalent \/ @.round.blocked
                                     \/ @.pending.head = HEAD
                                THEN @
                                ELSE Cycle!MarkFixDetected(
                                         Cycle!RecordDecision(@, "findings"), HEAD)]
        BY <2>4 DEF ResumeDecision
      <4> HIDE DEF f
      <4> QED
        BY <3>4, <4>1, <4>2, <4>3 DEF Stored
    <3> HIDE DEF f, g
    <3> QED
      BY <2>1, <2>2, <3>2, <3>3, <3>6 DEF Awaited, Same
  <2> QED
    BY <2>3, <2>4
<1> QED
  BY <1>1, <1>2

LEMMA VerdictSettles ==
  ASSUME Env, NEW l, NEW s, StateOK(s, l, tip), Awaited(s)
  PROVE  LET u == Settle(s)
         IN  Awaited(u) /\ u.doc.convergence = s.doc.convergence
<1>1. CASE s.doc.stage # "decision-pending"
  <2>1. Settle(s) = ResumeAndRetry(s) /\ Settle(s).doc.convergence = s.doc.convergence
    BY <1>1, SettleIs
  <2>2. ResumeAndRetry(s).doc.stage # "decision-pending"
    BY <1>1, ResumeAndRetryIs
  <2> QED
    BY <2>1, <2>2 DEF Awaited
<1>2. CASE s.doc.stage = "decision-pending"
  <2> DEFINE v == Resume(s)
             r == ResumeAndRetry(s)
  <2>1. Cycle!DeslopReady(s.doc) /\ s.doc.stage \in Asking
    BY <1>2, AskingIs DEF StateOK, Asking
  <2>2. Awaited(v) /\ v.doc.convergence = s.doc.convergence /\ StateOK(v, l, tip)
    BY VerdictStays, ResumeIs
  <2>3. v \in Stored /\ Good(v.doc)
    BY <2>2 DEF StateOK
  <2>4. r = [v EXCEPT !.doc = Cycle!RetryBlocked(v.doc)]
    BY <2>1, <2>3 DEF ResumeAndRetry, Stored
  <2>5. StateOK(r, l, tip)
    BY ResumeAndRetryIs
  <2> HIDE DEF v, r
  <2>6. Awaited(r) /\ r.doc.convergence = s.doc.convergence
    <3>1. CASE v.doc.stage = "decision-pending" /\ v.doc.round.blocked
      <4> DEFINE x == Cycle!RetryBlocked(v.doc)
      <4>1. x.stage = "created" /\ x.convergence = v.doc.convergence
        BY <2>3, <3>1, RetryGood
      <4> HIDE DEF x
      <4>2. [v EXCEPT !.doc = x].doc = x
        BY <2>3 DEF Stored
      <4> QED
        BY <2>2, <2>4, <4>1, <4>2 DEF Awaited, x
    <3>2. CASE ~(v.doc.stage = "decision-pending" /\ v.doc.round.blocked)
      <4>1. r = v
        BY <2>3, <2>4, <3>2, RetryGood, SameDoc
      <4> QED
        BY <2>2, <4>1
    <3> QED
      BY <3>1, <3>2
  <2>7. Settle(s) = AutoDecide(r)
    BY DEF Settle, r
  <2>8. CASE Cycle!AutoDecides(r.doc)
    <3>1. r.doc.stage = "decision-pending"
      BY <2>8 DEF Cycle!AutoDecides
    <3>2. r.doc.round.verdict = "clean"
      BY <2>6, <3>1 DEF Awaited
    <3> QED
      BY <2>5, <2>6, <2>7, <2>8, <3>2, AutoDecideIs DEF Awaited
  <2>9. CASE ~Cycle!AutoDecides(r.doc)
    <3>1. Settle(s) = r
      BY <2>5, <2>7, <2>9, AutoDecideIs
    <3> QED
      BY <2>6, <3>1
  <2> QED
    BY <2>8, <2>9
<1> QED
  BY <1>1, <1>2

\* Where no round is asked, settling is resuming.
LEMMA QuietSettles ==
  ASSUME Env, NEW l, NEW s, StateOK(s, l, tip), s.doc.stage \notin Asking
  PROVE  Settle(s) \in {s, Resume(s)}
<1> DEFINE v == Resume(s)
           x == Cycle!RetryBlocked(v.doc)
<1>1. s.doc.stage # "decision-pending"
  BY DEF Asking
<1>2. StateOK(v, l, tip) /\ v.doc.stage # "decision-pending"
  BY <1>1, ResumeIs
<1>3. v \in Stored /\ Good(v.doc)
  BY <1>2 DEF StateOK
<1>4. Settle(s) = ResumeAndRetry(s)
  BY <1>1, SettleIs
<1>5. ResumeAndRetry(s) \in {s, [v EXCEPT !.doc = x]}
  BY <1>3 DEF ResumeAndRetry, Stored
<1> HIDE DEF v
<1>6. [v EXCEPT !.doc = x] = v
  BY <1>2, <1>3, RetryGood, SameDoc
<1> QED
  BY <1>4, <1>5, <1>6 DEF v

\* What a step may store where no round is asked or signed off and no closure pass runs.
LEMMA QuietStep ==
  ASSUME DriftInv, [Next]_vars, c.doc.stage \notin Asking \union {"review-green"},
         ~Held(c.doc)
  PROVE  \/ c' \in {c, Resume(c), Resume(Settle(c))}
         \/ RerunLaunch
         \/ DeslopDone
<1>1. Env /\ StateOK(c, Changes(launched), tip) /\ Idle
  BY DEF DriftInv, Idle
<1>2. c.doc.stage # "running" /\ c.doc.stage # "decision-pending"
      /\ c.doc.stage # "review-green"
  BY DEF Asking
<1>3. CASE UNCHANGED vars \/ Git
  BY <1>3 DEF vars, Git, CommitFix, RebaseBranch, MergeBranch, BaseMoves, Checkout, Checked
<1>4. CASE RerunCleanup \/ RerunIdle \/ Crash \/ SaveResumed
  BY <1>4 DEF RerunCleanup, RunCleanup, RerunIdle, NothingToRun, Crash, SaveResumed, Save
<1>5. CASE EndCleanup
  BY <1>1, <1>5 DEF EndCleanup
<1>6. CASE ReviewersEnd \/ FinishReview \/ GithubResult
  BY <1>2, <1>6 DEF ReviewersEnd, FinishReview, GithubResult
<1>7. ASSUME NEW v, Decide(v) PROVE c' = c
  <2>1. PICK s : s = IF Cycle!DeslopReady(c.doc) THEN Resume(c) ELSE c
    OBVIOUS
  <2>2. s.doc.stage # "decision-pending"
    BY <1>1, <1>2, <2>1, ResumeIs
  <2> QED
    BY <1>7, <2>1, <2>2 DEF Decide, RecordOn, RunCleanup
<1> QED
  BY <1>3, <1>4, <1>5, <1>6, <1>7 DEF Next, Command, DecideClean, DecideFindings

LEMMA FindingsStay ==
  ASSUME DriftInv, [Next]_vars, c.doc.findings # Cycle!NoFindings,
         Same(c, c.doc.findings.head)
  PROVE  c'.doc.findings # Cycle!NoFindings
<1>1. PICK l : l = Changes(launched)
  OBVIOUS
<1>2. Env /\ StateOK(c, l, tip) /\ Good(c.doc) /\ c.doc.stage \in Fixing
  BY <1>1 DEF DriftInv, StateOK, Good
<1>3. /\ ~Cycle!DeslopTracked(c.doc) /\ ~Held(c.doc) /\ ~Cycle!DeslopOpen(c.doc)
      /\ c.doc.stage \notin Asking \union {"review-green"}
  BY <1>2, TrackedIs DEF Held, Cycle!DeslopTracked, Cycle!DeslopOpen, Fixing, Asking
<1>4. PICK r : r = Resume(c)
  OBVIOUS
<1>5. /\ StateOK(r, l, tip) /\ r.doc.findings # Cycle!NoFindings
      /\ Same(r, r.doc.findings.head)
  BY <1>2, <1>4, FixStays, ResumeIs
<1>6. PICK s : s = Settle(c)
  OBVIOUS
<1>7. /\ StateOK(s, l, tip) /\ s.doc.findings # Cycle!NoFindings
      /\ Same(s, s.doc.findings.head)
  BY <1>2, <1>3, <1>4, <1>5, <1>6, QuietSettles
<1>8. Resume(s).doc.findings # Cycle!NoFindings
  BY <1>2, <1>7, FixStays
<1>9. ~RerunLaunch
  <2>1. s.doc.stage \in Fixing
    BY <1>7 DEF StateOK, Good
  <2> QED
    BY <1>6, <2>1 DEF RerunLaunch, Launch, Cycle!CanLaunch, Fixing
<1>10. ~DeslopDone
  BY <1>3 DEF DeslopDone
<1> QED
  BY <1>3, <1>4, <1>5, <1>6, <1>8, <1>9, <1>10, QuietStep

LEMMA CleanupStays ==
  ASSUME DriftInv, [Next]_vars, Cycle!DeslopOpen(c.doc), Same(c, c.doc.deslop.head)
  PROVE  Cycle!DeslopOpen(c'.doc) \/ DeslopDone
<1>1. PICK l : l = Changes(launched)
  OBVIOUS
<1>2. /\ Env /\ StateOK(c, l, tip) /\ Good(c.doc) /\ c.doc.stage = "created"
      /\ ~Held(c.doc) /\ c.doc.stage \notin Asking \union {"review-green"}
  BY <1>1 DEF DriftInv, StateOK, Good, CleanupHeld, Cycle!DeslopOpen, Held, Asking
<1>3. PICK r : r = Resume(c)
  OBVIOUS
<1>4. StateOK(r, l, tip) /\ Cycle!DeslopOpen(r.doc) /\ Same(r, r.doc.deslop.head)
  BY <1>2, <1>3, DeslopStays, ResumeIs
<1>5. PICK s : s = Settle(c)
  OBVIOUS
<1>6. StateOK(s, l, tip) /\ Cycle!DeslopOpen(s.doc) /\ Same(s, s.doc.deslop.head)
  BY <1>2, <1>3, <1>4, <1>5, QuietSettles
<1>7. Cycle!DeslopOpen(Resume(s).doc)
  BY <1>2, <1>6, DeslopStays
<1>8. ~RerunLaunch
  <2>1. ~Cycle!DeslopReady(s.doc)
    BY <1>6 DEF Cycle!DeslopReady, Cycle!DeslopOpen, Cycle!DeslopTracked
  <2> QED
    BY <1>5, <2>1 DEF RerunLaunch, Launch, Cycle!CanLaunch
<1> QED
  BY <1>2, <1>3, <1>4, <1>5, <1>7, <1>8, QuietStep

LEMMA VerdictCounts ==
  ASSUME DriftInv, [Next]_vars, c.doc.round.verdict = "clean", Same(c, c.doc.pending.head)
  PROVE  c'.doc.convergence = c.doc.convergence \/ DecideFindings
<1>1. PICK l : l = Changes(launched)
  OBVIOUS
<1>2. /\ Env /\ StateOK(c, l, tip) /\ c \in Stored /\ Good(c.doc)
      /\ c.doc.stage \in Asking /\ Awaited(c)
  BY <1>1 DEF DriftInv, StateOK, Good, RoundKnown, Awaited
<1>3. Idle /\ ~Cycle!DeslopOpen(c.doc) /\ Cycle!DeslopReady(c.doc)
  BY <1>2, AskingIdle, AskingIs
<1>4. PICK r : r = Resume(c)
  OBVIOUS
<1>5. /\ StateOK(r, l, tip) /\ r \in Stored
      /\ Awaited(r) /\ r.doc.convergence = c.doc.convergence
  BY <1>2, <1>4, VerdictStays, ResumeIs DEF StateOK
<1>6. PICK s : s = Settle(c)
  OBVIOUS
<1>7. /\ StateOK(s, l, tip) /\ s \in Stored
      /\ Awaited(s) /\ s.doc.convergence = c.doc.convergence
  BY <1>2, <1>6, VerdictSettles, SettleIs DEF StateOK
<1>8. Resume(s).doc.convergence = c.doc.convergence
  BY <1>2, <1>7, VerdictStays
<1>9. CASE UNCHANGED vars \/ Git
  BY <1>9 DEF vars, Git, CommitFix, RebaseBranch, MergeBranch, BaseMoves, Checkout, Checked
<1>10. CASE RerunCleanup \/ RerunIdle \/ Crash \/ SaveResumed
  BY <1>4, <1>5, <1>6, <1>8, <1>10
     DEF RerunCleanup, RunCleanup, RerunIdle, NothingToRun, Crash, SaveResumed, Save
<1>11. CASE RerunLaunch
  <2> DEFINE a == [kind |-> "collect-review-step", step |-> s.doc.progress.next,
                   fix |-> s.doc.pending.fix, head |-> HEAD]
             x == [Cycle!SetStage(s.doc, "running", a) EXCEPT !.round = Cycle!LaunchedRound]
  <2>1. c' = [s EXCEPT !.doc = x] /\ Cycle!CanLaunch(s.doc)
    BY <1>6, <1>7, <1>11 DEF RerunLaunch, Launch, Stored
  <2>2. x.convergence = s.doc.convergence
    BY <1>2, <1>7, <2>1, LaunchIs
  <2> HIDE DEF x
  <2>3. c'.doc = x
    BY <1>7, <2>1 DEF Stored
  <2> QED
    BY <1>7, <2>2, <2>3
<1>12. CASE EndCleanup
  BY <1>3, <1>12 DEF EndCleanup
<1>13. CASE ReviewersEnd
  <2>1. PICK a : c' = [c EXCEPT !.doc.round = a]
    BY <1>13 DEF ReviewersEnd, Save
  <2> QED
    BY <1>2, <2>1 DEF Stored, Cycle!Cycle
<1>14. CASE FinishReview
  <2> DEFINE x == Cycle!ReviewStepPending(c.doc)
  <2>1. PICK p : p = [c EXCEPT !.doc = x]
    OBVIOUS
  <2>2. c.doc.stage = "running"
    BY <1>14 DEF FinishReview
  <2>3. /\ StateOK(p, l, tip) /\ p.doc = x /\ p.mb = c.mb
        /\ x.round = c.doc.round /\ x.pending.head = c.doc.pending.head
        /\ x.convergence = c.doc.convergence
    BY <1>2, <2>1, <2>2, PendingIs
  <2>4. p = [c EXCEPT !.doc = Cycle!ReviewStepPending(@)]
    BY <1>2, <2>1 DEF Stored
  <2> HIDE DEF x
  <2>5. Awaited(p)
    BY <2>3 DEF Awaited, Same
  <2>6. c' = Settle(p)
    BY <1>14, <2>4 DEF FinishReview, Save
  <2>7. Settle(p).doc.convergence = p.doc.convergence
    BY <1>2, <2>3, <2>5, VerdictSettles
  <2> QED
    BY <2>3, <2>6, <2>7
<1>15. CASE DecideClean
  <2>1. RecordOn(r, "clean")
    BY <1>3, <1>4, <1>15 DEF DecideClean, Decide
  <2>2. CASE RunCleanup(r, "decision")
    BY <2>2 DEF RunCleanup
  <2>3. CASE /\ r.doc.stage = "decision-pending"
             /\ Save([r EXCEPT !.doc = Cycle!RecordDecision(@, "clean")])
    <3> DEFINE x == Cycle!RecordDecision(r.doc, "clean")
    <3>1. c' = [r EXCEPT !.doc = x]
      BY <1>5, <2>3 DEF Save, Stored
    <3>2. x.convergence = r.doc.convergence
      BY <1>5, <2>3, DecisionIs
    <3> HIDE DEF x
    <3>3. c'.doc = x
      BY <1>5, <3>1 DEF Stored
    <3> QED
      BY <1>5, <3>2, <3>3
  <2> QED
    BY <2>1, <2>2, <2>3 DEF RecordOn
<1>16. CASE DeslopDone \/ GithubResult
  BY <1>2, <1>3, <1>16 DEF DeslopDone, GithubResult, Asking
<1> QED
  BY <1>9, <1>10, <1>11, <1>12, <1>13, <1>14, <1>15, <1>16 DEF Next, Command

\* Moving the branch to another base is no fix: while HEAD changes what the reviewed commit
\* changed on the cycle's merge base, no command closes the findings or the closure pass for
\* it, or makes findings out of a clean round.
THEOREM DriftRebaseIsNoFix == Spec => RebaseIsNoFix
<1> DEFINE d == c.doc
           A == /\ d.findings # Cycle!NoFindings /\ c'.doc.findings = Cycle!NoFindings
                     => ~Same(c, d.findings.head)
                /\ Cycle!DeslopOpen(d) /\ ~Cycle!DeslopOpen(c'.doc)
                     => DeslopDone \/ ~Same(c, d.deslop.head)
                /\ d.round.verdict = "clean" /\ c'.doc.convergence # d.convergence
                     => DecideFindings \/ ~Same(c, d.pending.head)
<1>1. DriftInv /\ [Next]_vars => A
  BY FindingsStay, CleanupStays, VerdictCounts
<1>2. RebaseIsNoFix <=> [][A]_vars
  BY DEF RebaseIsNoFix, Same
<1> HIDE DEF A
<1> QED
  BY <1>1, <1>2, DriftInvariant, PTL DEF Spec

================================================================================
