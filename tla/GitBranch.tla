------------------------------- MODULE GitBranch -------------------------------
(***************************************************************************)
(* What the review scripts ask of git, on one branch and its base branch.   *)
(*                                                                          *)
(* A commit is its history: the base commit the branch started from and the *)
(* edits and merges of the base since then.  Two commits with the same      *)
(* history are the same commit; a rebase makes other commits with the same  *)
(* edits.  git itself is not part of the repository.                        *)
(***************************************************************************)
EXTENDS Naturals, Sequences, SequencesExt, FiniteSets

CONSTANTS
    Paths,       \* files of the repository
    MaxBase,     \* bound: commits of the base branch after the first one
    BaseTouches  \* BaseTouches[b]: the files base commit b changes

ASSUME GitAssumption ==
    /\ IsFiniteSet(Paths) /\ MaxBase \in Nat
    /\ BaseTouches \in [1..MaxBase -> SUBSET Paths]

BaseCommits == 0..MaxBase

\* A commit of the branch changes a file or merges the base branch up to a commit.
EditOf(p) == [edit |-> TRUE, path |-> p, base |-> 0]
MergeOf(b) == [edit |-> FALSE, path |-> "", base |-> b]
Step == {EditOf(p) : p \in Paths} \union {MergeOf(b) : b \in BaseCommits}

IsCommit(c) == c.fork \in BaseCommits /\ c.line \in Seq(Step)
BaseCommit(b) == [fork |-> b, line |-> <<>>]

Merged(c) == {c.line[k].base : k \in {j \in DOMAIN c.line : ~c.line[j].edit}}

\* git merge-base <base> <commit>
MergeBase(c) == CHOOSE b \in Merged(c) \union {c.fork} :
                    \A d \in Merged(c) \union {c.fork} : d <= b

EditsOf(c, p) == {k \in DOMAIN c.line : c.line[k].edit /\ c.line[k].path = p}
BaseVersion(b, p) == Cardinality({d \in 1..b : p \in BaseTouches[d]})

\* The blob of a file in a commit.
Blob(c, p) == <<Cardinality(EditsOf(c, p)), BaseVersion(MergeBase(c), p)>>

\* git diff --name-only, git diff --patch: the patch names the blobs.
DiffPaths(x, y) == {p \in Paths : Blob(x, p) # Blob(y, p)}
Patch(x, y) == {<<p, Blob(x, p), Blob(y, p)>> : p \in DiffPaths(x, y)}

\* git merge-base --is-ancestor
IsAncestor(x, y) ==
    \/ x.fork = y.fork /\ IsPrefix(x.line, y.line)
    \/ x.line = <<>> /\ x.fork <= MergeBase(y)

\* git rev-list --count x..y, for an ancestor x
CommitDistance(x, y) == Len(y.line) - Len(x.line) + MergeBase(y) - MergeBase(x)

\* <commit>^
HasParent(c) == c.line # <<>> \/ c.fork > 0
FirstParent(c) ==
    IF c.line # <<>> THEN [c EXCEPT !.line = Front(@)] ELSE BaseCommit(c.fork - 1)

Commit(c, p) == [c EXCEPT !.line = Append(@, EditOf(p))]
Merge(c, b) == [c EXCEPT !.line = Append(@, MergeOf(b))]

\* The edits of a line, in their order: a rebase drops the merges.
OnlyEdits(line) ==
    LET upto[k \in 0..Len(line)] ==
            IF k = 0 THEN <<>>
            ELSE IF line[k].edit THEN Append(upto[k - 1], line[k]) ELSE upto[k - 1]
    IN upto[Len(line)]
Rebase(c, b) == [fork |-> b, line |-> OnlyEdits(c.line)]

\* merge_base_drift_scope: what the base changed between two merge bases, and
\* whether the branch makes the same changes as when it was reviewed.
BaseDrift(recorded, current, reviewed, head) ==
    LET m == BaseCommit(recorded)
        n == BaseCommit(current)
    IN [overlap |-> DiffPaths(m, n) \intersect
                        (DiffPaths(m, reviewed) \union DiffPaths(n, head)),
        equivalent |-> Patch(m, reviewed) = Patch(n, head)]

================================================================================
