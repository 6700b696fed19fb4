---------------------------- MODULE WorkflowAnchors ----------------------------
(***************************************************************************)
(* workflow_state.py and review_followup.py: which commits of a branch were  *)
(* reviewed, kept as a short history of anchors per branch, and what this    *)
(* history says about the next review.                                      *)
(*                                                                          *)
(* A review takes minutes.  Its anchor is recorded afterwards, on whatever   *)
(* HEAD and branch the checkout is then.                                     *)
(***************************************************************************)
EXTENDS GitBranch

CONSTANTS
    Reviews,             \* reviews that may be under way at the same time
    HistoryLimit,        \* ANCHOR_HISTORY_LIMIT
    FollowupCycleLimit,  \* FOLLOWUP_CYCLE_LIMIT
    FollowupMaxCommits,  \* FOLLOWUP_MAX_COMMITS
    CoherenceMaxFiles,   \* COHERENCE_MAX_FILES
    PressureCommits,     \* BRANCH_PRESSURE_MAX_COMMITS
    PressureAnchors,     \* BRANCH_PRESSURE_MAX_RECORDED_ANCHORS
    PressureFollowups,   \* BRANCH_PRESSURE_MAX_FOLLOWUP_ANCHORS
    PressureFull,        \* BRANCH_PRESSURE_MAX_FULL_REVIEW_ANCHORS
    MaxLine,             \* bound: commits of the branch
    MaxMoves,            \* bound: changes of HEAD
    MaxReviews,          \* bound: reviews started
    None

Limits == {HistoryLimit, FollowupCycleLimit, FollowupMaxCommits, CoherenceMaxFiles,
           PressureCommits, PressureAnchors, PressureFollowups, PressureFull}

ASSUME AnchorsAssumption ==
    /\ Limits \subseteq Nat /\ HistoryLimit > FollowupCycleLimit + 1
    /\ {MaxLine, MaxMoves, MaxReviews} \subseteq Nat /\ IsFiniteSet(Reviews)
    /\ None \notin BaseCommits

VARIABLES
    head,      \* HEAD
    tip,       \* the base branch
    dirty,     \* files with uncommitted changes
    detached,  \* HEAD is on no branch
    files,     \* stored histories: of the branch, and one per detached HEAD
    job,       \* job[r]: review r, from its start until its anchor is recorded
    seen,      \* commits of the reviews that were completed
    advised,   \* follow-ups that the status asked for since the last checkpoint
    moves, started

vars == <<head, tip, dirty, detached, files, job, seen, advised, moves, started>>
git == <<head, tip, dirty, detached, moves>>

--------------------------------------------------------------------------------
(* Anchors.                                                                 *)

FullLanes == {"review_t1", "review_t3"}
Lanes == FullLanes \union {"review-followup", "review-github"}
Rank(lane) == IF lane = "review_t1" THEN 1 ELSE 3  \* LANE_STAGE_RANK

\* A follow-up records a commit scope, the others that of the branch.
Anchor(lane, reviewed, mb) == [lane |-> lane, head |-> reviewed, mb |-> mb]

NoHistory == [anchors |-> <<>>, head |-> None]
Branch == [branch |-> TRUE, head |-> None]
DetachedAt(c) == [branch |-> FALSE, head |-> c]

\* workflow_state_path
Key == IF detached THEN DetachedAt(head) ELSE Branch

\* _detached_fallback_state: the history of the nearest detached HEAD behind.
DetachedFallback ==
    LET behind == {k \in DOMAIN files : ~k.branch /\ IsAncestor(k.head, head)} IN
    IF behind = {} THEN NoHistory
    ELSE files[CHOOSE k \in behind : \A j \in behind :
                CommitDistance(k.head, head) <= CommitDistance(j.head, head)]

\* load_workflow_state
State ==
    IF Key \in DOMAIN files THEN files[Key]
    ELSE IF detached THEN DetachedFallback ELSE NoHistory

Anchors == State.anchors
InLanes(lanes) == {k \in DOMAIN Anchors : Anchors[k].lane \in lanes}
Latest(indices) == CHOOSE k \in indices : \A j \in indices : j <= k

\* latest_base_review_context_anchor, and the anchor itself without one.
BaseContextAnchor(anchor) ==
    IF InLanes(FullLanes) = {} THEN anchor ELSE Anchors[Latest(InLanes(FullLanes))]

\* current_stage_full_review_lane
StageRank == IF InLanes({"review_t3"}) # {} THEN 3
             ELSE IF InLanes({"review_t1"}) # {} THEN 1 ELSE 0

Behind == {k \in DOMAIN Anchors : IsAncestor(Anchors[k].head, head)}

\* best_followup_anchor: the nearest reviewed commit behind HEAD, the later of two.
BestFollowupAnchor ==
    LET Distance(k) == CommitDistance(Anchors[k].head, head)
        nearest == {k \in Behind : \A j \in Behind : Distance(k) <= Distance(j)}
    IN Anchors[Latest(nearest)]

--------------------------------------------------------------------------------
(* inspect_workflow_status                                                  *)

\* mutant: off by one in the follow-ups that are left.
OneFollowupMore ==
    LET checkpoints == InLanes(FullLanes \union {"review-github"}) IN
    /\ checkpoints # {}
    /\ Cardinality({k \in InLanes({"review-followup"}) : k > Latest(checkpoints)})
        > FollowupCycleLimit + 1

\* followup_cycle_pressure: too many follow-ups since the last checkpoint.
FollowupCyclePressure ==
    LET checkpoints == InLanes(FullLanes \union {"review-github"}) IN
    /\ checkpoints # {}
    /\ Cardinality({k \in InLanes({"review-followup"}) : k > Latest(checkpoints)})
        > FollowupCycleLimit

\* branch_review_pressure
BranchReviewPressure ==
    /\ CommitDistance(BaseCommit(MergeBase(head)), head) >= PressureCommits
    /\ Len(Anchors) >= PressureAnchors
    /\ \/ Cardinality(InLanes({"review-followup"})) >= PressureFollowups
       \/ Cardinality(InLanes(FullLanes)) >= PressureFull

Decide(rec, reason, since) == [rec |-> rec, reason |-> reason, since |-> since]

\* classify_delta_recommendation
Classify(nfiles, ncommits, since) ==
    IF nfiles > CoherenceMaxFiles THEN Decide("coherence-review", "churn", since)
    ELSE IF ncommits > FollowupMaxCommits THEN Decide("full-review", "churn", since)
    ELSE Decide("review-followup", "small_delta", since)

UnderPressure(since, decision) ==
    IF FollowupCyclePressure THEN Decide("coherence-review", "cycle_limit", since)
    ELSE IF BranchReviewPressure THEN Decide("coherence-review", "branch_pressure", since)
    ELSE decision

\* dirty_worktree_scope: only files the branch does not touch.
DirtyOutsideBranch == dirty \intersect DiffPaths(BaseCommit(MergeBase(head)), head) = {}

\* HEAD itself was reviewed: only uncommitted changes can ask for more.
InspectWorktree ==
    IF DirtyOutsideBranch THEN Decide("none", "reviewed", head)
    ELSE UnderPressure(head,
            IF Cardinality(dirty) > CoherenceMaxFiles
            THEN Decide("coherence-review", "churn", head)
            ELSE Decide("review-followup", "dirty_worktree", head))

InspectDelta(since) ==
    UnderPressure(since, Classify(Cardinality(DiffPaths(since, head)),
                                  CommitDistance(since, head), since))

\* mutant: no overlap with the base is enough.
NoOverlap(anchor) ==
    BaseDrift(BaseContextAnchor(anchor).mb, MergeBase(head), anchor.head, head).overlap = {}

\* The reviewed changes are those of HEAD on another base.
EquivalentOnNewBase(anchor) ==
    LET drift == BaseDrift(BaseContextAnchor(anchor).mb, MergeBase(head),
                           anchor.head, head)
    IN drift.overlap = {} /\ drift.equivalent

InspectAnchor(anchor) ==
    IF BaseContextAnchor(anchor).mb # MergeBase(head)
    THEN IF EquivalentOnNewBase(anchor) THEN InspectWorktree
         ELSE Decide("full-review", "base_changed", anchor.head)
    ELSE IF anchor.head = head THEN InspectWorktree
    ELSE InspectDelta(anchor.head)

Status ==
    IF Anchors = <<>> THEN Decide("full-review", "no_anchor", None)
    ELSE IF Behind = {} THEN Decide("full-review", "not_ancestor", None)
    ELSE InspectAnchor(BestFollowupAnchor)

--------------------------------------------------------------------------------
(* Starting reviews.                                                        *)

\* A review under way, and whether the status asked for it.
Review(lane, reviewed, mb, asked) ==
    [lane |-> lane, head |-> reviewed, mb |-> mb, asked |-> asked]
Idle == Review(None, None, None, FALSE)

StartReview(r, lane, mb, asked) ==
    /\ job[r] = Idle /\ started < MaxReviews
    /\ job' = [job EXCEPT ![r] = Review(lane, head, mb, asked)]
    /\ advised' = IF asked THEN advised + 1 ELSE advised
    /\ started' = started + 1
    /\ UNCHANGED seen

\* resolve_since_head without --since: from the last reviewed commit.
SinceAnchor(since, forced) ==
    /\ Status.since = since /\ since # None
    /\ Status.rec # "none"
    /\ Status.rec = "review-followup" \/ forced

\* resolve_since_head with --since: pressure and the size of the delta still count.
SinceExplicit(since, forced) ==
    \/ forced
    \/ /\ Status.reason \notin {"cycle_limit", "branch_pressure"}
       /\ IsAncestor(since, head)
       /\ Classify(Cardinality(DiffPaths(since, head)),
                   CommitDistance(since, head), since).rec = "review-followup"

\* A linear range with changes, and a clean worktree.
Reviewable(since) ==
    /\ since # head /\ IsAncestor(since, head) /\ DiffPaths(since, head) # {}
    /\ dirty = {}

StartFollowup(r, since, forced, explicit) ==
    /\ StartReview(r, "review-followup", None, ~(forced \/ explicit))
    /\ IF explicit THEN SinceExplicit(since, forced) ELSE SinceAnchor(since, forced)
    /\ Reviewable(since)
    /\ UNCHANGED <<git, files>>

\* guard_no_stage_step_down
NoStepDown(lane) == Rank(lane) >= StageRank

StartFull(r, lane) ==
    /\ lane \in FullLanes
    /\ NoStepDown(lane)
    /\ dirty = {}
    /\ StartReview(r, lane, MergeBase(head), FALSE)
    /\ UNCHANGED <<git, files>>

\* The pull request has HEAD as its head.
StartGithub(r) ==
    /\ StartReview(r, "review-github", None, FALSE)
    /\ UNCHANGED <<git, files>>

--------------------------------------------------------------------------------
(* Recording anchors.                                                       *)

\* mutant: the history is never cut.
AllOf(anchors) == anchors

LastOf(anchors) == SubSeq(anchors, IF Len(anchors) > HistoryLimit
                            THEN Len(anchors) - HistoryLimit + 1 ELSE 1, Len(anchors))

\* record_review_anchor: in the history of wherever HEAD is now.
WithAnchor(anchor) ==
    [k \in DOMAIN files \union {Key} |->
        IF k = Key THEN [anchors |-> LastOf(Append(Anchors, anchor)), head |-> head]
        ELSE files[k]]

\* A follow-up and a GitHub review take the merge base of HEAD as it is now.
AnchorOf(r) ==
    Anchor(job[r].lane, job[r].head,
           IF job[r].lane \in FullLanes THEN job[r].mb ELSE MergeBase(head))

Record(r) ==
    /\ job[r] # Idle
    /\ job[r].lane = "review-github" => IsAncestor(job[r].head, head)
    /\ files' = WithAnchor(AnchorOf(r))
    /\ advised' = IF job[r].lane = "review-followup" THEN advised ELSE 0
    /\ job' = [job EXCEPT ![r] = Idle]
    /\ seen' = seen \union {job[r].head}
    /\ UNCHANGED <<git, started>>

\* The review failed, its process died, or the anchor could not be written.
Abandon(r) ==
    /\ job[r] # Idle
    /\ job' = [job EXCEPT ![r] = Idle]
    /\ advised' = IF job[r].asked /\ advised > 0 THEN advised - 1 ELSE advised
    /\ UNCHANGED <<git, files, seen, started>>

--------------------------------------------------------------------------------
(* The checkout.                                                            *)

Move(h) ==
    /\ moves < MaxMoves /\ h # head /\ Len(h.line) <= MaxLine
    /\ head' = h /\ moves' = moves + 1
    /\ UNCHANGED <<files, job, seen, advised, started>>

CommitFile(p) == Move(Commit(head, p)) /\ dirty' = {} /\ UNCHANGED <<tip, detached>>

MergeOfBase ==
    /\ tip > MergeBase(head)
    /\ Move(Merge(head, tip))
    /\ UNCHANGED <<tip, dirty, detached>>

RebaseBranch ==
    /\ tip > MergeBase(head)
    /\ Move(Rebase(head, tip))
    /\ UNCHANGED <<tip, dirty, detached>>

ResetBranch ==
    /\ head.line # <<>>
    /\ Move(FirstParent(head))
    /\ UNCHANGED <<tip, dirty, detached>>

BaseMoves ==
    /\ tip < MaxBase /\ tip' = tip + 1
    /\ UNCHANGED <<head, dirty, detached, files, job, seen, advised, moves, started>>

EditFile(p) ==
    /\ dirty = {} /\ dirty' = {p}
    /\ UNCHANGED <<head, tip, detached, files, job, seen, advised, moves, started>>

Detach ==
    /\ moves < MaxMoves /\ moves' = moves + 1
    /\ detached' = ~detached
    /\ UNCHANGED <<head, tip, dirty, files, job, seen, advised, started>>

Init ==
    /\ head = BaseCommit(0) /\ tip = 0
    /\ dirty = {} /\ detached = FALSE
    /\ files = <<>>
    /\ job = [r \in Reviews |-> Idle]
    /\ seen = {} /\ advised = 0
    /\ moves = 0 /\ started = 0

\* Commits a caller may name with --since.
Named == {BaseCommit(b) : b \in 0..tip} \union
            {[head EXCEPT !.line = SubSeq(@, 1, k)] : k \in 0..Len(head.line)}

Next ==
    \/ \E r \in Reviews :
        \/ \E forced \in BOOLEAN :
            \/ StartFollowup(r, Status.since, forced, FALSE)
            \/ \E since \in Named : StartFollowup(r, since, forced, TRUE)
        \/ \E lane \in FullLanes : StartFull(r, lane)
        \/ StartGithub(r) \/ Record(r) \/ Abandon(r)
    \/ \E p \in Paths : CommitFile(p) \/ EditFile(p)
    \/ MergeOfBase \/ RebaseBranch \/ ResetBranch \/ BaseMoves \/ Detach

Spec == Init /\ [][Next]_vars

--------------------------------------------------------------------------------
(* Properties.                                                              *)

\* The variables keep their types and histories their length.
TypeOK ==
    /\ IsCommit(head) /\ tip \in BaseCommits /\ MergeBase(head) <= tip
    /\ dirty \subseteq Paths /\ detached \in BOOLEAN
    /\ \A k \in DOMAIN files :
        /\ Len(files[k].anchors) \in 1..HistoryLimit
        /\ \A n \in DOMAIN files[k].anchors :
            files[k].anchors[n].lane \in Lanes /\ files[k].anchors[n].mb \in BaseCommits
    /\ \A r \in Reviews : job[r] = Idle \/ job[r].lane \in Lanes
    /\ moves \in 0..MaxMoves /\ started \in 0..MaxReviews /\ advised \in Nat

\* inspect_workflow_status: no further review is asked for only if HEAD was shown
\* to a reviewer, or makes the same changes to the base as a commit that was,
\* whatever happened to the branch while a review was under way.
SameChanges(x, y) ==
    Patch(BaseCommit(MergeBase(x)), x) = Patch(BaseCommit(MergeBase(y)), y)
NoneMeansReviewed ==
    Status.rec = "none" => \E c \in seen : c = head \/ SameChanges(c, head)

\* followup_cycle_pressure: as long as the history holds the last checkpoint and
\* one review runs at a time, the status asks for at most one follow-up more
\* than the limit, whatever follow-ups were forced or given a --since between.
FollowupsBounded ==
    Cardinality(Reviews) = 1 /\ DOMAIN files = {Branch}
        /\ InLanes(Lanes \ {"review-followup"}) # {}
            => advised <= FollowupCycleLimit + 1

================================================================================
