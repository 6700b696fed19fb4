----------------------------- MODULE ReviewCycle -----------------------------
(***************************************************************************)
(* The review cycle: the state machine of                                  *)
(* review_suite_core/orchestrator_state.py, driven by the handlers of      *)
(* review.py and by the one expensive step an invocation may run           *)
(* (review_suite_core/orchestrator_runner.py).                             *)
(*                                                                         *)
(* The source keeps a cycle as one JSON document and writes every          *)
(* transition as a function from document to document; a handler of        *)
(* review.py chains such functions and saves the result.  This module does *)
(* the same: an operator per function, on one record s, and an action per  *)
(* handler that stores the composition.  What is stored is `c`.            *)
(*                                                                         *)
(* One invocation at a time works on a cycle here: `w` is that invocation. *)
(* While it runs a cleanup, a review or a follow-up it holds a state it    *)
(* has not saved yet, and the caller goes on working in git.               *)
(***************************************************************************)
EXTENDS Integers, Sequences, FiniteSets

CONSTANTS
    Heads,          \* commits HEAD may be at
    FirstHead,      \* the commit the cycle is created on
    Tree,           \* the tree of a commit: an amended message keeps the tree
    Moves,          \* how the caller may move HEAD: <<from, to>>
    Deep,           \* mode.effective = "deep": findings go through a follow-up
    Fast,           \* mode.effective = "fast": GitHub review is optional
    Plan,           \* review_plan.steps of the frozen profile
    Cleanup,        \* the closure pass (deslop) is tracked by this cycle
    HasBrief,       \* the cycle froze a review brief: a verdict may be "drifted"
    AcceptedLimit,  \* DEFAULT_ACCEPTED_FINDINGS_LIMIT
    Gates,          \* validation gates: full_suite, ci
    Statuses,       \* what the caller may record for a gate
    None            \* JSON null

Kinds == {"arena", "discovery", "signoff", "review"}

ASSUME PlanAssumption ==
    /\ Plan \in Seq([kind : Kinds, rerun : BOOLEAN, pool : Nat])
    /\ Len(Plan) > 0

ASSUME HeadAssumption ==
    /\ FirstHead \in Heads
    /\ None \notin Heads
    /\ DOMAIN Tree = Heads
    /\ Moves \subseteq Heads \X Heads

ASSUME ModeAssumption ==
    /\ Deep \in BOOLEAN /\ Fast \in BOOLEAN
    /\ Cleanup \in BOOLEAN /\ HasBrief \in BOOLEAN
    /\ Fast => ~Deep /\ ~Cleanup

ASSUME LimitAssumption == AcceptedLimit \in Nat \ {0}

ASSUME GateAssumption ==
    Statuses \subseteq {"passed", "failed", "pending", "waived"}

-----------------------------------------------------------------------------
(* The stored document                                                     *)

N == Len(Plan)
Steps == 0 .. N - 1
NoStep == -1
Kind(i) == Plan[i + 1].kind
Pool(i) == Plan[i + 1].pool
RerunOnFindings(i) == Plan[i + 1].rerun
MaybeHead == Heads \cup {None}

Stages == {"created", "running", "decision-pending", "fix-pending",
           "followup-pending", "review-green", "retry-requested",
           "decision-required", "convergence-decided"}

ActionKinds == {"none", "run-review-step", "collect-review-step", "decision",
                "fix-findings", "run-followup", "run-deslop", "arena-blocked",
                "convergence-decision"}

\* pending_action; a round that waits for its decision has its reviewed head
\* here, and a follow-up round has no profile step
Pending == [kind : ActionKinds, step : Steps \cup {NoStep},
            fix : MaybeHead, head : MaybeHead]
NoAction == [kind |-> "none", step |-> NoStep, fix |-> None, head |-> None]

\* review_progress; completed_steps keeps the reviewed head per step
Progress == [next : 0 .. N, completed : [Steps -> MaybeHead]]

\* active_findings, closed when head is None
Findings == [head : MaybeHead, step : Steps \cup {NoStep}, rerun : BOOLEAN]
NoFindings == [head |-> None, step |-> NoStep, rerun |-> FALSE]

\* review_heads; `head` is identity.head, which the source always sets with it
ReviewHeads == [head : Heads, reviewed : MaybeHead, fix : MaybeHead,
                followup : MaybeHead]

\* convergence; `trees` stands for accepted_findings_heads, which is keyed by tree
Convergence == [status : {"ACTIVE", "DECISION_REQUIRED", "DECIDED"},
                trees : SUBSET {Tree[h] : h \in Heads},
                continueUsed : BOOLEAN, continuePending : BOOLEAN]

GateStatuses == Statuses \cup {"unknown"}
Validation == [green : BOOLEAN, gates : [Gates -> GateStatuses], note : BOOLEAN]

Github == [status : {"unknown", "clean", "findings", "waived"}, head : MaybeHead]

Deslop == [status : {"skipped", "tracked", "done", "failed", "closed"},
           drifted : BOOLEAN, head : MaybeHead, reason : BOOLEAN]

\* the file of the round the cycle waits for: its reviewers write it, whatever
\* becomes of the invocation, and the caller's grade goes there
RoundFile == [status : {"none", "running", "completed"},
              verdict : {"clean", "findings", "unclear"},
              blocked : BOOLEAN, needsGrade : BOOLEAN]
NoRound == [status |-> "none", verdict |-> "unclear",
            blocked |-> FALSE, needsGrade |-> FALSE]
LaunchedRound == [NoRound EXCEPT !.status = "running"]

Cycle == [stage : Stages, pending : Pending, round : RoundFile,
          progress : Progress, findings : Findings, heads : ReviewHeads,
          convergence : Convergence, validation : Validation, github : Github,
          deslop : Deslop]

\* the working invocation: which expensive step it runs, on which unsaved state
Work == [run : {"nothing", "deslop", "review", "followup"},
         by : {"rerun", "decision"}, state : Cycle]

NewValidation == [green |-> FALSE, gates |-> [g \in Gates |-> "unknown"],
                  note |-> FALSE]

NewCycle ==
    [stage |-> "created", pending |-> NoAction, round |-> NoRound,
     progress |-> [next |-> 0, completed |-> [i \in Steps |-> None]],
     findings |-> NoFindings,
     heads |-> [head |-> FirstHead, reviewed |-> None, fix |-> None,
                followup |-> None],
     convergence |-> [status |-> "ACTIVE", trees |-> {},
                      continueUsed |-> FALSE, continuePending |-> FALSE],
     validation |-> NewValidation,
     github |-> [status |-> "unknown", head |-> None],
     deslop |-> [status |-> IF Cleanup THEN "tracked" ELSE "skipped",
                 drifted |-> FALSE, head |-> None, reason |-> FALSE]]

VARIABLES
    c,      \* the stored document of the cycle, with the file of its round
    w,      \* the invocation that works on it
    head,   \* HEAD of the checkout
    clean   \* the checkout is on the cycle's branch without uncommitted changes

vars == <<c, w, head, clean>>

-----------------------------------------------------------------------------
(* Stages and progress                                                     *)

SetStage(s, stage, action) ==
    [s EXCEPT !.stage = stage, !.pending = action, !.round = NoRound]

Act(kind) == [NoAction EXCEPT !.kind = kind]

Larger(a, b) == IF a >= b THEN a ELSE b

HasNextStep(s) == s.progress.next < N

CompleteStep(s, i, h) ==
    [s EXCEPT !.progress = [next |-> Larger(s.progress.next, i + 1),
                            completed |-> [s.progress.completed EXCEPT ![i] = h]]]

\* mutant: the steps after the rewound one stay completed
RewindKeepsCompleted(s, i) == [s EXCEPT !.progress.next = i]

RewindStep(s, i) ==
    [s EXCEPT !.progress =
        [next |-> i,
         completed |-> [j \in Steps |-> IF j < i THEN s.progress.completed[j]
                                                 ELSE None]]]

\* mutants: skip one step too many; skip the signoff with the arena
SkipTwo(i) == i + 2
SkipToEnd(i) == N

\* a clean arena round skips the rest of its pool, a clean discovery what is left
\* before the signoff
SkipTarget(i) ==
    LET leaves == {j \in Steps :
                     /\ j > i
                     /\ \/ Kind(i) = "arena" /\ (Kind(j) # "arena" \/ Pool(j) # Pool(i))
                        \/ Kind(i) = "discovery" /\ Kind(j) = "signoff"}
    IN  IF leaves = {}
        THEN IF Kind(i) = "arena" THEN N ELSE i + 1
        ELSE CHOOSE j \in leaves : \A k \in leaves : j <= k

AdvanceAfterClean(s, i) ==
    [s EXCEPT !.progress.next = Larger(s.progress.next, SkipTarget(i))]

FixedFindingsBudget(i) ==
    i + 1 < N /\ ~RerunOnFindings(i) /\ Kind(i) \in {"arena", "discovery"}

\* the stage a completed step leads to
AdvanceOrGreen(s) ==
    IF HasNextStep(s)
    THEN SetStage([s EXCEPT !.validation.green = FALSE], "created",
                  Act("run-review-step"))
    ELSE SetStage([s EXCEPT !.validation.green = TRUE], "review-green", NoAction)

Completed(s) == {i \in Steps : s.progress.completed[i] # None}

\* the source takes the step that was completed last, which is this one unless a
\* blocked follow-up repeated earlier steps
LastCompleted(s) == CHOOSE i \in Completed(s) : \A j \in Completed(s) : j <= i

-----------------------------------------------------------------------------
(* Convergence: how many distinct trees with findings the caller accepts   *)

RequireConvergenceDecision(s) ==
    IF s.convergence.status = "DECISION_REQUIRED" THEN s
    ELSE SetStage([s EXCEPT !.convergence.status = "DECISION_REQUIRED"],
                  "decision-required", Act("convergence-decision"))

\* mutants: one tree more than the limit; CONTINUE gives back the whole budget
AcceptOneTreeMore(s, h) ==
    LET trees   == s.convergence.trees \cup {Tree[h]}
        counted == [s EXCEPT !.convergence.trees = trees]
    IN  IF Cardinality(trees) > AcceptedLimit
        THEN RequireConvergenceDecision(counted) ELSE counted

ContinueRestoresBudget(s, h) ==
    LET trees   == s.convergence.trees \cup {Tree[h]}
        counted == [s EXCEPT !.convergence.trees = trees]
    IN  IF trees # s.convergence.trees /\ Cardinality(trees) >= AcceptedLimit
        THEN RequireConvergenceDecision(counted) ELSE counted

RecordAcceptedFindingsHead(s, h) ==
    LET trees   == s.convergence.trees \cup {Tree[h]}
        counted == [s EXCEPT !.convergence.trees = trees,
                             !.convergence.continuePending = FALSE]
    IN  IF Tree[h] \in s.convergence.trees THEN s
        ELSE IF s.convergence.continuePending \/ Cardinality(trees) >= AcceptedLimit
             THEN RequireConvergenceDecision(counted)
             ELSE counted

-----------------------------------------------------------------------------
(* Decisions and fixes                                                     *)

IsFollowup(s) == s.pending.step = NoStep

WithFixAction(s) == [s EXCEPT !.pending = Act("fix-findings")]

RecordFindingsDecision(s) ==
    LET h == s.pending.head
        open == [s EXCEPT !.heads.reviewed = h,
                          !.findings = [head |-> h, step |-> s.pending.step,
                                        rerun |-> FALSE],
                          !.validation.green = FALSE]
    IN  WithFixAction(RecordAcceptedFindingsHead(
            SetStage(open, "fix-pending", NoAction), h))

RecordFollowupFindings(s) ==
    LET h == s.pending.head
        open == [s EXCEPT !.heads.followup = h,
                          !.findings = [head |-> h, step |-> s.findings.step,
                                        rerun |-> FALSE],
                          !.validation.green = FALSE]
    IN  WithFixAction(RecordAcceptedFindingsHead(
            SetStage(open, "fix-pending", NoAction), h))

RecordCleanDecision(s) ==
    LET h == s.pending.head
        i == s.pending.step
        decided == [s EXCEPT !.heads.reviewed = h,
                             !.convergence.continuePending = FALSE]
    IN  AdvanceOrGreen(AdvanceAfterClean(CompleteStep(decided, i, h), i))

\* mutant: a clean follow-up of the signoff's findings ends the ladder
FollowupCleanAdvances(s) ==
    AdvanceOrGreen(CompleteStep([s EXCEPT !.findings = NoFindings],
                                s.findings.step, s.pending.head))

RecordFollowupClean(s) ==
    LET h == s.pending.head
        i == s.findings.step
        closed == [s EXCEPT !.heads.followup = h,
                            !.convergence.continuePending = FALSE,
                            !.findings = NoFindings]
    IN  IF s.findings.rerun \/ RerunOnFindings(i)
        THEN SetStage(RewindStep([closed EXCEPT !.validation.green = FALSE], i),
                      "created", Act("run-review-step"))
        ELSE AdvanceOrGreen(CompleteStep(closed, i, h))

RecordDecision(s, d) ==
    CASE d = "clean" /\ IsFollowup(s)    -> RecordFollowupClean(s)
      [] d = "clean" /\ ~IsFollowup(s)   -> RecordCleanDecision(s)
      [] d # "clean" /\ IsFollowup(s)    -> RecordFollowupFindings(s)
      [] d # "clean" /\ ~IsFollowup(s)   -> RecordFindingsDecision(s)

\* record_clean_decision raises while findings are open
DecisionRefused(s, d) ==
    d = "clean" /\ ~IsFollowup(s) /\ s.findings # NoFindings

\* mutant: the fix is reviewed with the findings still open
FixReviewKeepsFindings(s) ==
    SetStage(RewindStep([s EXCEPT !.validation.green = FALSE], s.findings.step),
             "created", [Act("run-review-step") EXCEPT !.fix = s.findings.head])

MarkProfileFixReviewNeeded(s) ==
    LET f == s.findings
        closed == [s EXCEPT !.findings = NoFindings, !.validation.green = FALSE]
        again == IF FixedFindingsBudget(f.step)
                 THEN CompleteStep(closed, f.step, f.head)
                 ELSE RewindStep(closed, f.step)
    IN  SetStage(again, "created", [Act("run-review-step") EXCEPT !.fix = f.head])

\* mutant: deep mode forgets the follow-up
FixWithoutFollowup(s, h) ==
    IF s.convergence.status = "DECISION_REQUIRED" THEN s
    ELSE MarkProfileFixReviewNeeded([s EXCEPT !.heads.fix = h])

MarkFixDetected(s, h) ==
    IF s.convergence.status = "DECISION_REQUIRED" THEN s
    ELSE LET fixed == [s EXCEPT !.heads.fix = h]
         IN  IF Deep
             THEN SetStage(fixed, "followup-pending", Act("run-followup"))
             ELSE MarkProfileFixReviewNeeded(fixed)

\* mutant: what was validated for the old head survives
RepeatKeepsValidation(s, h) ==
    SetStage(RewindStep([s EXCEPT !.heads.fix = h, !.validation.green = FALSE],
                        LastCompleted(s)),
             "created", Act("run-review-step"))

MarkLatestProfileStepRerunNeeded(s, h) ==
    LET reset == [s EXCEPT !.heads.fix = h, !.validation = NewValidation]
    IN  SetStage(RewindStep(reset, LastCompleted(s)), "created",
                 Act("run-review-step"))

-----------------------------------------------------------------------------
(* The closure pass                                                        *)

DeslopTracked(s) == s.deslop.status \in {"tracked", "done", "failed"}

DeslopShouldRun(s) ==
    \/ /\ s.deslop.status = "failed"
       /\ s.stage = "retry-requested"
       /\ s.pending.kind = "run-deslop"
    \/ /\ s.deslop.status = "tracked"
       /\ s.stage = "created"
       /\ s.progress.next = N - 1
       /\ Kind(N - 1) # "arena"

\* mutant: a tracked pass never blocks a review
DeslopReadyWhenTracked(s) == ~DeslopTracked(s) \/ s.deslop.status = "tracked"

DeslopReady(s) ==
    ~DeslopTracked(s) \/ (s.deslop.status = "tracked" /\ ~DeslopShouldRun(s))

DeslopOpen(s) == s.deslop.status = "done"

MarkDeslopDone(s, drifted, h) ==
    SetStage([s EXCEPT !.deslop.status = "done", !.deslop.drifted = drifted,
                       !.deslop.head = h],
             "created", [Act("run-review-step") EXCEPT !.fix = s.pending.fix])

\* mutant: the failure is noted and the stage left alone
CleanupFailsInPlace(s) == [s EXCEPT !.deslop.status = "failed"]

MarkDeslopFailed(s) ==
    SetStage([s EXCEPT !.deslop.status = "failed"], "retry-requested",
             [Act("run-deslop") EXCEPT !.fix = s.pending.fix])

MarkDeslopClosed(s, reason) ==
    [s EXCEPT !.deslop.status = "closed", !.deslop.reason = reason]

\* _run_deslop_once follows HEAD before it starts, dropping what was validated
FollowHead(s) ==
    IF s.heads.head = head THEN s
    ELSE [s EXCEPT !.heads.head = head, !.validation = NewValidation]

-----------------------------------------------------------------------------
(* GitHub and the review ladder                                            *)

GithubTerminal(s) == s.github.status \in {"clean", "waived"}

LadderHeads(s) ==
    {s.heads.followup, s.heads.reviewed, s.heads.fix, s.heads.head} \ {None}

\* mutant: only the GitHub verdict ties the ladder to a head
InvalidatedByGithubOnly(s, h) == GithubTerminal(s) /\ s.github.head # h

LadderInvalidated(s, h) ==
    h \notin LadderHeads(s) \/ (GithubTerminal(s) /\ s.github.head # h)

HeadLeftTheSignoff(s) ==
    \/ (s.deslop.status # "skipped" \/ GithubTerminal(s)) /\ s.heads.reviewed # head
    \/ LadderInvalidated(s, head)

GatesReady(s) ==
    \A g \in Gates : \/ s.validation.gates[g] = "passed"
                     \/ s.validation.gates[g] = "waived" /\ s.validation.note

\* review_ladder_summary's `done`, as shown to the caller for HEAD h
LadderDone(s, h) ==
    /\ s.stage = "review-green"
    /\ ~LadderInvalidated(s, h)
    /\ ~DeslopTracked(s)
    /\ \/ Fast /\ s.github.status = "unknown"
       \/ GithubTerminal(s) /\ s.github.head = h /\ GatesReady(s)

-----------------------------------------------------------------------------
(* _resume_progress: what an invocation does first with the stored state   *)

\* mutant: any new commit, an amended message too, closes the pass
ClosedByAnyCommit(s) ==
    LET moved == [s EXCEPT !.heads.head = head, !.validation = NewValidation]
    IN  IF s.deslop.status \in {"done", "closed"} /\ clean /\ s.heads.head # head
        THEN IF DeslopOpen(s) THEN MarkDeslopClosed(moved, FALSE) ELSE moved
        ELSE s

ResumeCreated(s) ==
    LET moved == [s EXCEPT !.heads.head = head, !.validation = NewValidation]
    IN  IF s.deslop.status \in {"done", "closed"} /\ clean /\ s.heads.head # head
        THEN IF DeslopOpen(s) /\ Tree[s.deslop.head] # Tree[head]
             THEN MarkDeslopClosed(moved, FALSE)
             ELSE moved
        ELSE s

ResumeDecision(s) ==
    LET moved == [s EXCEPT !.heads.head = head]
    IN  IF s.round.needsGrade \/ ~clean THEN s
        ELSE IF s.round.blocked \/ s.pending.head = head THEN moved
             ELSE MarkFixDetected(RecordDecision(moved, "findings"), head)

\* mutant: the GitHub verdict survives the head it was given for
GreenKeepsGithub(s) ==
    IF clean /\ HeadLeftTheSignoff(s)
    THEN MarkLatestProfileStepRerunNeeded([s EXCEPT !.heads.head = head], head)
    ELSE s

ResumeGreen(s) ==
    IF clean /\ HeadLeftTheSignoff(s)
    THEN MarkLatestProfileStepRerunNeeded(
             [s EXCEPT !.heads.head = head,
                       !.github = [status |-> "unknown", head |-> None]], head)
    ELSE s

ResumeFix(s) ==
    LET moved == IF clean THEN [s EXCEPT !.heads.head = head] ELSE s
    IN  IF clean /\ Tree[s.findings.head] # Tree[head]
        THEN MarkFixDetected(moved, head)
        ELSE WithFixAction(moved)

Resume(s) ==
    CASE s.stage = "created"          -> ResumeCreated(s)
      [] s.stage = "decision-pending" -> ResumeDecision(s)
      [] s.stage = "review-green"     -> ResumeGreen(s)
      [] s.stage = "fix-pending"      -> ResumeFix(s)
      [] OTHER                        -> s

\* _blocked_decision_recovery_state: a blocked round is retried at its profile
\* step; a follow-up round has none, and index 0 is taken
RetryBlocked(s) ==
    IF s.stage = "decision-pending" /\ s.round.blocked
    THEN LET i == IF IsFollowup(s) THEN 0 ELSE s.pending.step
         IN  SetStage([s EXCEPT !.progress.next = i], "created",
                      [Act("run-review-step") EXCEPT !.fix = s.pending.fix])
    ELSE s

ResumeAndRetry(s) ==
    IF DeslopReady(s) \/ DeslopOpen(s) THEN RetryBlocked(Resume(s)) ELSE s

AutoDecides(s) ==
    /\ DeslopReady(s)
    /\ s.stage = "decision-pending"
    /\ ~s.round.needsGrade /\ ~s.round.blocked
    /\ s.round.verdict \in {"clean", "findings"}

\* the loop of _advance_without_decision, up to the point where it would run an
\* expensive step
Settle(s) ==
    LET ready == ResumeAndRetry(s)
    IN  IF AutoDecides(ready)
        THEN ResumeAndRetry(RecordDecision(ready, ready.round.verdict))
        ELSE ready

SettleRefused(s) ==
    LET ready == ResumeAndRetry(s)
    IN  AutoDecides(ready) /\ DecisionRefused(ready, ready.round.verdict)

-----------------------------------------------------------------------------
(* review.py --id <id>: the cycle advances by at most one expensive step   *)

Idle == w.run = "nothing"
NoWork == [run |-> "nothing", by |-> "rerun", state |-> NewCycle]

Working(run, by, s) == w' = [run |-> run, by |-> by, state |-> s]

CanLaunch(s) == s.stage = "created" /\ DeslopReady(s) /\ HasNextStep(s)

\* mutant: another commit is a fix, whatever is in it
FixIsAnyCommit(since) == clean /\ since # head

\* _require_committed_fix_interdiff: there is a committed diff and nothing else
FixCommitted(since) == clean /\ Tree[since] # Tree[head]

RunCleanup(s, by) ==
    /\ DeslopShouldRun(s) /\ clean
    /\ Working("deslop", by, FollowHead(s))
    /\ UNCHANGED <<c, head, clean>>

RerunCleanup == Idle /\ ~SettleRefused(c) /\ RunCleanup(Settle(c), "rerun")

\* a review or arena step: the running round is saved before reviewers answer
RerunLaunch ==
    /\ Idle /\ ~SettleRefused(c)
    /\ LET s == Settle(c)
           launched == SetStage(s, "running",
                                [kind |-> "collect-review-step",
                                 step |-> s.progress.next,
                                 fix |-> s.pending.fix, head |-> head])
           saved == [launched EXCEPT !.round = LaunchedRound]
       IN  /\ CanLaunch(s)
           /\ s.pending.fix # None => FixCommitted(s.pending.fix)
           /\ c' = saved
           /\ Working("review", "rerun", saved)
    /\ UNCHANGED <<head, clean>>

RerunFollowup ==
    /\ Idle /\ ~SettleRefused(c)
    /\ LET s == Settle(c)
       IN  /\ s.stage = "followup-pending"
           /\ FixCommitted(s.findings.head)
           /\ Working("followup", "rerun",
                      [s EXCEPT !.pending.head = head, !.round = LaunchedRound])
    /\ UNCHANGED <<c, head, clean>>

\* nothing to run: the decisions and head changes that were due are saved
RerunIdle ==
    /\ Idle /\ ~SettleRefused(c)
    /\ LET s == Settle(c)
       IN  /\ s.stage \notin {"running", "followup-pending"}
           /\ s.pending.kind # "arena-blocked"
           /\ ~(DeslopShouldRun(s) /\ clean)
           /\ ~CanLaunch(s)
           /\ c' = Resume(s)
    /\ UNCHANGED <<w, head, clean>>

\* the closure pass ends; --decision stores its result without resuming
EndCleanup ==
    /\ w.run = "deslop"
    /\ \E done \in BOOLEAN, drifted \in {FALSE, HasBrief} :
         LET s == IF done THEN MarkDeslopDone(w.state, drifted, w.state.heads.head)
                  ELSE MarkDeslopFailed(w.state)
         IN  c' = IF w.by = "rerun" THEN Settle(s) ELSE s
    /\ w' = NoWork
    /\ UNCHANGED <<head, clean>>

\* a structured verdict, prose without one, or a reviewer that failed
Answers == {[NoRound EXCEPT !.status = "completed", !.verdict = v] :
              v \in {"clean", "findings", "unclear"}}
           \cup {[NoRound EXCEPT !.status = "completed", !.blocked = TRUE]}

AnswersTo(s) == IF Kind(s.pending.step) = "arena"
                THEN {[a EXCEPT !.needsGrade = ~a.blocked] : a \in Answers}
                ELSE Answers

\* the reviewers of a round leave their verdict in its file, whether or not the
\* invocation that launched them is still there; a follow-up's invocation must be
ReviewersEnd ==
    /\ \/ /\ c.stage = "running" /\ c.round.status = "running"
          /\ \E a \in AnswersTo(c) : c' = [c EXCEPT !.round = a]
          /\ UNCHANGED w
       \/ /\ w.run = "followup" /\ w.state.round.status = "running"
          /\ \E a \in Answers : w' = [w EXCEPT !.state.round = a]
          /\ UNCHANGED c
    /\ UNCHANGED <<head, clean>>

\* mark_review_step_pending, then _mark_arena_recovery for a blocked arena round
ReviewStepPending(s) ==
    LET pending == [s EXCEPT !.stage = "decision-pending",
                             !.pending.kind = "decision",
                             !.heads.reviewed = s.pending.head,
                             !.progress.next = s.pending.step]
    IN  IF s.round.blocked /\ Kind(s.pending.step) = "arena"
        THEN SetStage(pending, "retry-requested",
                      [s.pending EXCEPT !.kind = "arena-blocked"])
        ELSE pending

\* the launching invocation reads the result, or a later one collects it
FinishReview ==
    /\ w.run \in {"nothing", "review"}
    /\ c.stage = "running" /\ c.round.status = "completed"
    /\ LET s == ReviewStepPending(c)
       IN  ~SettleRefused(s) /\ c' = Settle(s)
    /\ w' = NoWork
    /\ UNCHANGED <<head, clean>>

\* record_clean_decision raises: the invocation ends and saves nothing
FinishReviewRefused ==
    /\ w.run \in {"nothing", "review"}
    /\ c.stage = "running" /\ c.round.status = "completed"
    /\ SettleRefused(ReviewStepPending(c))
    /\ w' = NoWork
    /\ UNCHANGED <<c, head, clean>>

FollowupReviewPending(s) ==
    [s EXCEPT !.stage = "decision-pending",
              !.pending = [Act("decision") EXCEPT !.head = s.pending.head],
              !.heads.reviewed = s.pending.head,
              !.heads.followup = s.pending.head]

EndFollowup ==
    /\ w.run = "followup" /\ w.state.round.status = "completed"
    /\ c' = Settle(FollowupReviewPending(w.state))
    /\ w' = NoWork
    /\ UNCHANGED <<head, clean>>

\* the invocation dies; reviewers of a saved round go on, and a follow-up that
\* was never saved is forgotten
Crash ==
    /\ ~Idle
    /\ w' = NoWork
    /\ UNCHANGED <<c, head, clean>>

\* the arena back end ends a blocked round: dismissed, the step is run again;
\* rerolled, the replacement round waits for its grade
RecoverArena ==
    /\ Idle /\ c.pending.kind = "arena-blocked"
    /\ \/ /\ c' = Settle(SetStage([c EXCEPT !.progress.next = c.pending.step],
                                  "created",
                                  [Act("run-review-step") EXCEPT !.fix = c.pending.fix]))
       \/ \E a \in AnswersTo(c) :
            /\ ~a.blocked
            /\ c' = ReviewStepPending([c EXCEPT !.round = a])
    /\ UNCHANGED <<w, head, clean>>

\* the caller ranks the arena round, outside the cycle
Grade ==
    /\ c.stage = "decision-pending" /\ c.round.needsGrade
    /\ c' = [c EXCEPT !.round.needsGrade = FALSE]
    /\ UNCHANGED <<w, head, clean>>

-----------------------------------------------------------------------------
(* The caller's other commands                                             *)

\* --decision clean|findings; a closure pass that is due runs instead
Decide(d) ==
    /\ Idle
    /\ LET s == IF DeslopReady(c) THEN Resume(c) ELSE c
       IN  \/ RunCleanup(s, "decision")
           \/ /\ DeslopReady(s) /\ s.stage = "decision-pending"
              /\ ~s.round.needsGrade /\ ~s.round.blocked
              /\ ~DecisionRefused(s, d)
              /\ c' = RecordDecision(s, d)
              /\ UNCHANGED <<w, head, clean>>

DecideClean == Decide("clean")
DecideFindings == Decide("findings")

\* --deslop-done, --github-review, --github-result, a gate status after a terminal
\* GitHub result and a late --decision first resume; a change is all they save
SaveResumed ==
    /\ Idle /\ Resume(c) # c
    /\ c' = Resume(c)
    /\ UNCHANGED <<w, head, clean>>

DeslopDone ==
    /\ Idle /\ DeslopOpen(c) /\ clean /\ Resume(c) = c
    /\ \E reason \in BOOLEAN :
         /\ c.deslop.drifted => reason
         /\ c' = MarkDeslopClosed(c, reason)
    /\ UNCHANGED <<w, head, clean>>

GithubResult ==
    /\ Idle /\ Resume(c) = c
    /\ c.stage = "review-green" /\ ~DeslopTracked(c)
    /\ c.validation.green /\ c.findings = NoFindings
    /\ \E result \in {"clean", "waived", "findings"} :
         LET h == c.heads.reviewed
             recorded == [c EXCEPT !.github = [status |-> result, head |-> h]]
             open == [recorded EXCEPT
                        !.findings = [head |-> h, step |-> LastCompleted(c),
                                      rerun |-> TRUE],
                        !.validation.green = FALSE]
         IN  IF result = "findings"
             THEN /\ Completed(c) # {}
                  /\ c' = RecordAcceptedFindingsHead(
                             SetStage(open, "fix-pending", NoAction), h)
             ELSE c' = recorded
    /\ UNCHANGED <<w, head, clean>>

Waives(gates) == \E g \in Gates : gates[g] = "waived"

\* mutant: the reason outlives the waiver
WaiverNoteStays(said, gates, note) == Waives(said) \/ note

\* a waiver needs a note, and the note goes with the last waiver
WaiverNote(said, gates, note) == Waives(said) \/ (Waives(gates) /\ note)

\* --full-suite, --ci
RecordGates ==
    /\ Idle
    /\ GithubTerminal(c) => Resume(c) = c
    /\ \E said \in [Gates -> Statuses \cup {"unsaid"}] :
         LET gates == [g \in Gates |-> IF said[g] = "unsaid"
                                      THEN c.validation.gates[g] ELSE said[g]]
         IN  /\ \E g \in Gates : said[g] # "unsaid"
             /\ c' = [c EXCEPT !.validation.gates = gates,
                               !.validation.note = WaiverNote(said, gates, @)]
    /\ UNCHANGED <<w, head, clean>>

ContractConflict ==
    /\ Idle
    /\ c.stage = "fix-pending" /\ c.findings # NoFindings
    /\ c' = RequireConvergenceDecision(c)
    /\ UNCHANGED <<w, head, clean>>

\* CONTINUE once, which goes back to the findings; REPLAN or RESLICE end the cycle
Continue ==
    /\ Idle
    /\ \/ /\ c.convergence.status = "ACTIVE" /\ c.convergence.continuePending
          /\ c' = Resume(c)
       \/ /\ c.convergence.status = "DECISION_REQUIRED"
          /\ ~c.convergence.continueUsed
          /\ LET s == [c EXCEPT !.convergence.status = "ACTIVE",
                                !.convergence.continueUsed = TRUE,
                                !.convergence.continuePending = TRUE]
             IN  c' = Resume(IF s.stage = "decision-required" /\ s.findings # NoFindings
                             THEN SetStage(s, "fix-pending", NoAction) ELSE s)
    /\ UNCHANGED <<w, head, clean>>

ReplanOrReslice ==
    /\ Idle /\ c.convergence.status = "DECISION_REQUIRED"
    /\ c' = SetStage([c EXCEPT !.convergence.status = "DECIDED"],
                     "convergence-decided", NoAction)
    /\ UNCHANGED <<w, head, clean>>

-----------------------------------------------------------------------------
(* The caller in git                                                       *)

Commit ==
    /\ \E h \in Heads : <<head, h>> \in Moves /\ head' = h
    /\ clean' = TRUE
    /\ UNCHANGED <<c, w>>

Edit ==
    /\ clean /\ clean' = FALSE
    /\ UNCHANGED <<c, w, head>>

Stash ==
    /\ ~clean /\ clean' = TRUE
    /\ UNCHANGED <<c, w, head>>

-----------------------------------------------------------------------------

Init ==
    /\ c = NewCycle
    /\ w = NoWork
    /\ head = FirstHead
    /\ clean = TRUE

Rerun == RerunCleanup \/ RerunLaunch \/ RerunFollowup \/ RerunIdle

Advance == \/ Rerun \/ EndCleanup \/ ReviewersEnd \/ FinishReview
           \/ FinishReviewRefused \/ EndFollowup \/ Crash \/ RecoverArena \/ Grade

Command == \/ DecideClean \/ DecideFindings \/ SaveResumed \/ DeslopDone
           \/ GithubResult \/ RecordGates \/ ContractConflict \/ Continue
           \/ ReplanOrReslice

Git == Commit \/ Edit \/ Stash

Next == Advance \/ Command \/ Git

Spec == Init /\ [][Next]_vars

-----------------------------------------------------------------------------

TypeOK ==
    /\ c \in Cycle
    /\ w \in Work
    /\ head \in Heads
    /\ clean \in BOOLEAN

\* A cycle is green exactly while it says it may anchor or hand off
\* (can_advance_or_anchor reads the flag, not the stage), and then no finding is
\* open, the newest completed step was completed at the head called reviewed, and
\* it is the last step of the plan: the signoff was not skipped.
SignedOff ==
    /\ c.validation.green <=> c.stage = "review-green"
    /\ c.stage = "review-green" =>
         /\ c.findings = NoFindings
         /\ Completed(c) # {}
         /\ c.progress.completed[LastCompleted(c)] = c.heads.reviewed
         /\ Kind(N - 1) # "arena" => LastCompleted(c) = N - 1

\* No round of the final signoff runs, or is decided, before the closure pass is
\* over ("cleanup runs once before final signoff").
CleanupBeforeSignoff ==
    c.pending.step = N - 1 /\ Kind(N - 1) # "arena" => ~DeslopTracked(c)

\* A closure pass that ended, well or badly, holds the cycle where a command can
\* take it up: deslop_is_ready is false then, and in any other stage nothing would
\* ever run again.
CleanupNeverStrands ==
    /\ c.deslop.status = "done" => c.stage = "created" /\ c.progress.next = N - 1
    /\ c.deslop.status = "failed" =>
         c.stage = "retry-requested" /\ c.pending.kind = "run-deslop"

\* Open findings wait for their fix (or for the caller's convergence decision):
\* no review of a profile step runs while they are open, where a clean verdict
\* could not be recorded.  For the modes without follow-up reviews.
FindingsAwaitFix ==
    c.findings # NoFindings =>
        \/ c.stage \in {"fix-pending", "followup-pending", "decision-required",
                         "convergence-decided"}
        \/ c.stage = "decision-pending" /\ IsFollowup(c)

\* The caller's decision is required exactly in the stage that asks for it, with
\* findings open and nothing running; the budget of distinct trees with accepted
\* findings is passed only with the single CONTINUE, and by one tree.
BudgetEnforced ==
    /\ c.convergence.status = "DECISION_REQUIRED" <=> c.stage = "decision-required"
    /\ c.stage = "decision-required" => Idle /\ c.findings # NoFindings
    /\ Cardinality(c.convergence.trees) >= AcceptedLimit =>
         c.convergence.status # "ACTIVE" \/ c.convergence.continueUsed
    /\ Cardinality(c.convergence.trees) > AcceptedLimit => c.convergence.continueUsed
    /\ Cardinality(c.convergence.trees) <= AcceptedLimit + 1

\* A GitHub verdict that ends the ladder belongs to the head that was signed off
\* locally, and does not outlive that signoff.
GithubForSignedOffHead ==
    GithubTerminal(c) => /\ c.stage = "review-green"
                         /\ c.github.head = c.heads.reviewed
                         /\ ~DeslopTracked(c)

\* "done" is shown for HEAD only if HEAD is the commit the signoff reviewed.
DoneIsReviewed == LadderDone(c, head) => c.heads.reviewed = head

\* With a history that only grows, a tree on which findings were accepted is never
\* the one signed off, however often the message of its commit is amended.
RejectedTreeNotGreen ==
    c.stage = "review-green" => Tree[c.heads.reviewed] \notin c.convergence.trees

\* A gate is waived exactly while the reason for it is kept.
WaiverHasNote == c.validation.note <=> Waives(c.validation.gates)

\* Progress never runs behind what is completed nor past the plan: a pending round
\* is the next step, a created cycle has one, completed steps come before it.
ProgressConsistent ==
    /\ \A i \in Completed(c) : i < c.progress.next
    /\ c.stage = "created" => HasNextStep(c)
    /\ c.pending.step # NoStep => c.pending.step = c.progress.next

\* The closure pass is closed once and for good, and a drifted verdict only with a
\* reason or by a commit that changed the tree it judged.
CleanupClosedOnce ==
    [][ /\ c.deslop.status = "closed" => c'.deslop = c.deslop
        /\ c.deslop.status = "done" /\ c'.deslop.status # "done" =>
             /\ c'.deslop.status = "closed"
             /\ c.deslop.drifted =>
                  \/ c'.deslop.reason
                  \/ Tree[c.deslop.head] # Tree[c'.heads.head] ]_vars

\* A cycle leaves green for GitHub findings, or because HEAD moved; then neither the
\* gates nor the GitHub verdict recorded for the old head survive, and exactly the
\* last signoff is to be repeated.
LeavingGreenForgets ==
    [][ c.stage = "review-green" /\ c'.stage # "review-green" =>
          \/ c'.findings.rerun
          \/ /\ c'.stage \in {"created", "running"}
             /\ c.heads.reviewed # head \/ c.heads.head # head
             /\ c'.validation = NewValidation
             /\ c'.github.status = "unknown"
             /\ c'.progress.next = LastCompleted(c) ]_vars

\* After CONTINUE the next tree with accepted findings stops the cycle again, and a
\* budget decision is never undone by anything but the caller's decision.
ContinueGrantsOneTree ==
    [][ /\ c.convergence.continuePending /\ c'.convergence.trees # c.convergence.trees
             => c'.convergence.status = "DECISION_REQUIRED"
        /\ c.convergence.continueUsed => c'.convergence.continueUsed
        /\ c.convergence.status = "DECISION_REQUIRED"
             /\ c'.convergence.status # "DECISION_REQUIRED"
             => Continue \/ ReplanOrReslice ]_vars

\* With a signoff that reruns on findings, green is entered only from a round of the
\* last step: no clean follow-up, arena round or retry gets there instead.
GreenBySignoff ==
    [][ RerunOnFindings(N - 1) /\ c.stage # "review-green" /\ c'.stage = "review-green"
          => /\ c.stage \in {"running", "decision-pending"}
             /\ c.pending.step = N - 1 ]_vars

\* In deep mode findings are closed by a follow-up review of another tree than the
\* one they were found on, never by the fix alone ("fixes are reviewed before
\* advancing").
FindingsClosedByFollowup ==
    [][ c.findings # NoFindings /\ c'.findings = NoFindings =>
          /\ c'.heads.followup # None
          /\ Tree[c'.heads.followup] # Tree[c.findings.head] ]_vars

\* A review that came back clean adds no tree to the findings the caller accepted
\* ("distinct caller-accepted findings heads").
CleanVerdictAcceptsNothing ==
    [][ FinishReview /\ c.round.verdict = "clean"
          => c'.convergence.trees = c.convergence.trees ]_vars

-----------------------------------------------------------------------------
(* Liveness: a caller who keeps following the emitted actions.  Every command *)
(* is repeated until it comes through, so strong fairness: crashes and edits  *)
(* may get in the way of an attempt, not of all of them.  Reviewers fail      *)
(* sometimes, not always.  Committing, crashing, grading anew or recording    *)
(* gates is never required of anybody.                                        *)

Fairness ==
    /\ SF_vars(RerunCleanup) /\ SF_vars(RerunLaunch) /\ SF_vars(RerunFollowup)
    /\ SF_vars(RerunIdle)
    /\ SF_vars(EndCleanup /\ c'.deslop.status # "failed")
    /\ SF_vars(ReviewersEnd /\ ~c'.round.blocked /\ ~w'.state.round.blocked)
    /\ SF_vars(FinishReview) /\ SF_vars(EndFollowup)
    /\ SF_vars(RecoverArena) /\ SF_vars(Grade)
    /\ SF_vars(DecideClean \/ DecideFindings)
    /\ SF_vars(DeslopDone)
    /\ SF_vars(Stash)

LiveSpec == Spec /\ Fairness

\* A rerun would review a fix, and is refused since HEAD has the tree on which the
\* findings were accepted: HEAD moved to an amended message while a grade or a
\* decision was due, which the decision takes for a fix and the launch does not.
FixWithoutChange ==
    LET s == Settle(c)
    IN  CanLaunch(s) /\ s.pending.fix # None /\ Tree[s.pending.fix] = Tree[head]

\* Without follow-up reviews the ladder always comes to rest: green, or where a commit
\* that changes the tree, or a convergence decision of the caller, has to come first.
\* Failures, retries, crashes, edits and new heads, amended messages too, leave a
\* cycle in no other stage that every command refuses.
LadderComesToRest ==
    []<>(\/ c.stage \in {"review-green", "fix-pending", "decision-required",
                         "convergence-decided"}
         \/ FixWithoutChange)

\* Who runs the command the printed action names gets on ("follow the emitted Action:
\* run cmd when present"): a rerun is not refused for want of a fix for ever.
EmittedRerunGetsOn == []<>~FixWithoutChange

=============================================================================
