-------------------------- MODULE ReviewCycleProofs --------------------------
(***************************************************************************)
(* Proofs about ReviewCycle, for every plan, history of the branch, budget *)
(* of trees and set of gates.                                              *)
(*                                                                         *)
(* The operators of ReviewCycle are functions from document to document,   *)
(* so the inductive invariant is a predicate on one document, Good, and    *)
(* there is a lemma per operator that keeps it.  Handlers compose the      *)
(* operators, and their lemmas the lemmas.  Good says more than the two    *)
(* properties about the closure pass: a decision needs a round with a      *)
(* head, a fix needs findings, a repeated signoff needs a completed step,  *)
(* or the next document would not have the type of one.                    *)
(*                                                                         *)
(* The second part is about what a cycle may call reviewed: how many trees *)
(* with findings are accepted, what green means, and which head a GitHub   *)
(* verdict is about.  It adds a second predicate on one document, Sound,   *)
(* with a lemma per operator.  Sound has to say why a cycle that turns     *)
(* green has just completed its signoff: a pending round is the next step, *)
(* and open findings belong to a step that is not behind it, or to the     *)
(* signoff.                                                                *)
(*                                                                         *)
(* The last parts are about CONTINUE, what an operator does to the         *)
(* convergence budget (Granted, Unspent), and about a branch that only     *)
(* grows (Aged).                                                           *)
(***************************************************************************)
EXTENDS ReviewCycle, TLAPS, WellFoundedInduction, FiniteSetTheorems

USE DEF Steps, MaybeHead, NoStep

\* A set of naturals that is not empty has a smallest element: the CHOOSE of SkipTarget.
LEMMA SmallestExists ==
  ASSUME NEW T, T \subseteq Nat, T # {}
  PROVE  \E x \in T : \A y \in T : x <= y
<1>1. IsWellFoundedOn(OpToRel(<, Nat), Nat)
  BY NatLessThanWellFounded
<1>2. PICK x \in T : \A y \in T : ~ (<<y, x>> \in OpToRel(<, Nat))
  BY <1>1, WFMin
<1>3. ASSUME NEW y \in T PROVE x <= y
  <2>1. ~ (<<y, x>> \in {ss \in Nat \X Nat : ss[1] < ss[2]})
    BY <1>2 DEF OpToRel
  <2>2. <<y, x>> \in Nat \X Nat
    OBVIOUS
  <2>3. ~ (y < x)
    BY <2>1, <2>2
  <2> QED
    BY <2>3
<1> QED
  BY <1>3

\* A bounded set of naturals that is not empty has a largest element: the CHOOSE of
\* LastCompleted.
LEMMA LargestExists ==
  ASSUME NEW T, NEW n \in Nat, T \subseteq 0 .. n, T # {}
  PROVE  \E x \in T : \A y \in T : y <= x
<1> DEFINE D == {n - x : x \in T}
<1>1. D \subseteq Nat /\ D # {}
  <2>1. \A x \in T : n - x \in Nat
    OBVIOUS
  <2> QED
    BY <2>1
<1>2. PICK d \in D : \A y \in D : d <= y
  BY <1>1, SmallestExists
<1>3. PICK x \in T : d = n - x
  OBVIOUS
<1>4. \A y \in T : n - x <= n - y
  BY <1>2, <1>3
<1> QED
  BY <1>4

\* A plan has at least one step.
LEMMA NType == N \in Nat /\ N > 0
  BY PlanAssumption DEF N

\* While some step is completed, the newest completed step is a step of the plan.
LEMMA LastCompletedType ==
  ASSUME NEW s, Completed(s) # {}
  PROVE  LastCompleted(s) \in Steps
<1>1. \E x \in Completed(s) : \A y \in Completed(s) : y <= x
  <2>1. Completed(s) \subseteq 0 .. (N - 1) /\ N - 1 \in Nat
    BY NType DEF Completed
  <2> QED
    BY <2>1, LargestExists
<1> QED
  BY <1>1 DEF LastCompleted, Completed

\* A skip after a clean round lands on a later step or right behind the plan.
LEMMA SkipTargetType ==
  ASSUME NEW i \in Steps
  PROVE  SkipTarget(i) \in 0 .. N
<1> DEFINE leaves == {j \in Steps :
                     /\ j > i
                     /\ \/ Kind(i) = "arena" /\ (Kind(j) # "arena" \/ Pool(j) # Pool(i))
                        \/ Kind(i) = "discovery" /\ Kind(j) = "signoff"}
<1>1. CASE leaves = {}
  BY <1>1, NType DEF SkipTarget
<1>2. CASE leaves # {}
  <2>1. \E j \in leaves : \A k \in leaves : j <= k
    <3>1. leaves \subseteq Nat
      BY NType
    <3> QED
      BY <1>2, <3>1, SmallestExists
  <2> HIDE DEF leaves
  <2>2. (CHOOSE j \in leaves : \A k \in leaves : j <= k) \in leaves
    BY <2>1
  <2> USE DEF leaves
  <2> QED
    BY <1>2, <2>2, NType DEF SkipTarget
<1> QED
  BY <1>1, <1>2

-----------------------------------------------------------------------------
(* The inductive invariant of one document                                  *)

FindingsRecorded(s) ==
    s.findings = NoFindings \/ (s.findings.head \in Heads /\ s.findings.step \in Steps)

RoundNamed(s) ==
    /\ s.stage \in {"running", "decision-pending"} \/ s.pending.kind = "arena-blocked"
         => s.pending.head \in Heads
    /\ s.stage = "running" \/ s.pending.kind = "arena-blocked"
         => s.pending.step \in Steps
    /\ s.pending.kind = "arena-blocked" => s.stage = "retry-requested"
    /\ s.stage = "decision-pending" => s.heads.reviewed \in Heads
    /\ s.stage = "decision-pending" /\ s.pending.step = NoStep
         => s.findings # NoFindings

FixHasFindings(s) ==
    s.stage \in {"fix-pending", "followup-pending", "decision-required"}
      => s.findings # NoFindings

GreenWasReviewed(s) ==
    s.stage = "review-green" => Completed(s) # {} /\ s.heads.reviewed \in Heads

BudgetStage(s) ==
    s.convergence.status = "DECISION_REQUIRED" <=> s.stage = "decision-required"

CleanupHeld(s) ==
    /\ s.deslop.status = "done" => s.stage = "created" /\ s.progress.next = N - 1
    /\ s.deslop.status = "failed" => /\ s.stage = "retry-requested"
                                     /\ s.pending.kind = "run-deslop"
                                     /\ s.progress.next = N - 1

SignoffAfterCleanup(s) ==
    s.pending.step = N - 1 /\ Kind(N - 1) # "arena" => ~DeslopTracked(s)

Good(s) ==
    /\ s \in Cycle
    /\ FindingsRecorded(s)
    /\ RoundNamed(s)
    /\ FixHasFindings(s)
    /\ GreenWasReviewed(s)
    /\ BudgetStage(s)
    /\ CleanupHeld(s)
    /\ SignoffAfterCleanup(s)

\* what may become the state of a stage in which no round is pending
Ready(s, stage) ==
    /\ s \in Cycle
    /\ FindingsRecorded(s)
    /\ stage \in {"fix-pending", "followup-pending", "decision-required"}
         => s.findings # NoFindings
    /\ stage = "review-green" => Completed(s) # {} /\ s.heads.reviewed \in Heads
    /\ s.convergence.status = "DECISION_REQUIRED" <=> stage = "decision-required"
    /\ s.deslop.status \notin {"done", "failed"}

IdleStages == Stages \ {"running", "decision-pending"}
IdleAction(a) == a \in Pending /\ a.step = NoStep /\ a.kind # "arena-blocked"

\* Moving a document to a stage makes it good, if the demands of that stage (open findings,
\* a reviewed head, a held cleanup) are met.
LEMMA SetStageGood ==
  ASSUME NEW s, NEW stage \in IdleStages, NEW a, Ready(s, stage), IdleAction(a)
  PROVE  /\ Good(SetStage(s, stage, a))
         /\ SetStage(s, stage, a).stage = stage
         /\ SetStage(s, stage, a).findings = s.findings
<1> DEFINE r == SetStage(s, stage, a)
<1>1. r \in Cycle
  BY DEF SetStage, Ready, Cycle, IdleStages, IdleAction, RoundFile, NoRound
<1>2. /\ r.stage = stage /\ r.pending = a
      /\ r.findings = s.findings /\ r.progress = s.progress
      /\ r.heads = s.heads /\ r.convergence = s.convergence
      /\ r.deslop = s.deslop
  BY DEF SetStage, Ready, Cycle
<1> HIDE DEF r
<1>3. FindingsRecorded(r) /\ FixHasFindings(r) /\ GreenWasReviewed(r) /\ BudgetStage(r)
  BY <1>2 DEF Ready, FindingsRecorded, FixHasFindings, GreenWasReviewed, BudgetStage,
              Completed
<1>4. RoundNamed(r)
  BY <1>2 DEF RoundNamed, IdleStages, IdleAction
<1>5. CleanupHeld(r)
  BY <1>2 DEF Ready, CleanupHeld
<1>6. SignoffAfterCleanup(r)
  BY <1>2, NType DEF IdleAction, SignoffAfterCleanup
<1> QED
  BY <1>1, <1>2, <1>3, <1>4, <1>5, <1>6 DEF Good, r

\* An action without a round has no step and no head.
LEMMA ActIdle ==
  ASSUME NEW k \in ActionKinds \ {"arena-blocked"}
  PROVE  /\ IdleAction(Act(k)) /\ IdleAction(NoAction)
         /\ \A f \in MaybeHead : IdleAction([Act(k) EXCEPT !.fix = f])
  BY DEF Act, NoAction, Pending, IdleAction, ActionKinds

\* Completing a step keeps progress within the plan.
LEMMA CompleteType ==
  ASSUME NEW s \in Cycle, NEW i \in Steps, NEW h \in MaybeHead
  PROVE  /\ CompleteStep(s, i, h) \in Cycle
         /\ h \in Heads => Completed(CompleteStep(s, i, h)) # {}
<1>1. Larger(s.progress.next, i + 1) \in 0 .. N
  BY NType DEF Larger, Cycle, Progress
<1>2. [s.progress.completed EXCEPT ![i] = h] \in [Steps -> MaybeHead]
  BY DEF Cycle, Progress
<1>3. CompleteStep(s, i, h) \in Cycle
  BY <1>1, <1>2 DEF CompleteStep, Cycle, Progress
<1>4. CompleteStep(s, i, h).progress.completed[i] = h
  BY DEF CompleteStep, Cycle, Progress
<1> QED
  BY <1>3, <1>4, HeadAssumption DEF Completed

\* Skipping ahead keeps progress within the plan.
LEMMA AdvanceType ==
  ASSUME NEW s \in Cycle, NEW i \in Steps
  PROVE  AdvanceAfterClean(s, i) \in Cycle
<1>1. Larger(s.progress.next, SkipTarget(i)) \in 0 .. N
  BY NType, SkipTargetType DEF Larger, Cycle, Progress
<1> QED
  BY <1>1 DEF AdvanceAfterClean, Cycle, Progress

\* Rewinding to a step keeps progress within the plan.
LEMMA RewindType ==
  ASSUME NEW s \in Cycle, NEW i \in Steps
  PROVE  RewindStep(s, i) \in Cycle
  BY NType DEF RewindStep, Cycle, Progress

\* the parts of a document Ready depends on besides its progress
Kept(s, t) == /\ t.findings = s.findings /\ t.heads = s.heads
              /\ t.convergence = s.convergence /\ t.deslop = s.deslop
              /\ t.stage = s.stage /\ t.pending = s.pending

\* Completing, skipping and rewinding change the progress of a document and nothing else.
LEMMA ProgressKept ==
  ASSUME NEW s \in Cycle, NEW i, NEW h
  PROVE  /\ Kept(s, CompleteStep(s, i, h)) /\ Kept(s, RewindStep(s, i))
         /\ Kept(s, AdvanceAfterClean(s, i))
         /\ AdvanceAfterClean(s, i).progress.completed = s.progress.completed
  BY DEF Cycle, Progress, Kept, CompleteStep, RewindStep, AdvanceAfterClean

-----------------------------------------------------------------------------
(* Decisions, budget and fixes                                             *)

\* Counting a tree with accepted findings keeps a good document with open findings good,
\* whether or not the budget stops it.
LEMMA AcceptedGood ==
  ASSUME NEW s, Good(s), s.stage = "fix-pending", NEW h \in Heads
  PROVE  LET r == RecordAcceptedFindingsHead(s, h)
         IN  /\ Good(r) /\ r.stage \in {"fix-pending", "decision-required"}
             /\ r.findings = s.findings
<1> DEFINE trees   == s.convergence.trees \cup {Tree[h]}
           counted == [s EXCEPT !.convergence.trees = trees,
                                !.convergence.continuePending = FALSE]
           required == [counted EXCEPT !.convergence.status = "DECISION_REQUIRED"]
<1>1. s \in Cycle /\ s.convergence.status # "DECISION_REQUIRED"
  BY DEF Good, BudgetStage
<1>2. trees \in SUBSET {Tree[x] : x \in Heads}
  BY <1>1 DEF Cycle, Convergence
<1>3. /\ counted \in Cycle /\ required \in Cycle
      /\ counted.convergence.status = s.convergence.status
      /\ required.convergence.status = "DECISION_REQUIRED"
  <2> HIDE DEF trees
  <2> QED
    BY <1>1, <1>2 DEF Cycle, Convergence
<1>4. /\ counted.stage = s.stage /\ counted.pending = s.pending
      /\ counted.progress = s.progress /\ counted.findings = s.findings
      /\ counted.heads = s.heads /\ counted.deslop = s.deslop
      /\ required.findings = s.findings /\ required.deslop = s.deslop
  BY <1>1 DEF Cycle
<1> HIDE DEF counted, required
<1>5. Good(counted)
  BY <1>3, <1>4 DEF Good, FindingsRecorded, RoundNamed, FixHasFindings,
       GreenWasReviewed, Completed, BudgetStage, CleanupHeld, SignoffAfterCleanup,
       DeslopTracked
<1>6. Ready(required, "decision-required")
  BY <1>3, <1>4 DEF Good, Ready, FindingsRecorded, CleanupHeld, FixHasFindings
<1>7. IdleAction(Act("convergence-decision")) /\ "decision-required" \in IdleStages
  BY ActIdle DEF ActionKinds, IdleStages, Stages
<1>8. RequireConvergenceDecision(counted)
        = SetStage(required, "decision-required", Act("convergence-decision"))
  BY <1>1, <1>3 DEF RequireConvergenceDecision, required
<1>9. LET r == RequireConvergenceDecision(counted)
      IN  Good(r) /\ r.stage = "decision-required" /\ r.findings = s.findings
  BY <1>4, <1>6, <1>7, <1>8, SetStageGood
<1>10. \/ RecordAcceptedFindingsHead(s, h) = s
       \/ RecordAcceptedFindingsHead(s, h) = counted
       \/ RecordAcceptedFindingsHead(s, h) = RequireConvergenceDecision(counted)
  BY DEF RecordAcceptedFindingsHead, counted
<1> QED
  BY <1>4, <1>5, <1>9, <1>10

\* Asking for the fix of open findings keeps a document good.
LEMMA WithFixGood ==
  ASSUME NEW s, Good(s), s.stage \in {"fix-pending", "decision-required"}
  PROVE  /\ Good(WithFixAction(s))
         /\ WithFixAction(s).stage = s.stage
         /\ WithFixAction(s).findings = s.findings
<1>1. IdleAction(Act("fix-findings"))
  BY ActIdle DEF ActionKinds
<1> DEFINE a == Act("fix-findings")
           r == WithFixAction(s)
<1>2. r \in Cycle
  BY <1>1 DEF Good, WithFixAction, Cycle, IdleAction
<1>3. /\ r.stage = s.stage /\ r.pending = a
      /\ r.findings = s.findings /\ r.progress = s.progress
      /\ r.heads = s.heads /\ r.convergence = s.convergence
      /\ r.deslop = s.deslop
  BY DEF WithFixAction, Good, Cycle
<1> HIDE DEF r, a
<1>4. RoundNamed(r) /\ CleanupHeld(r)
  BY <1>1, <1>3 DEF RoundNamed, CleanupHeld, IdleAction, Good, a
<1>5. SignoffAfterCleanup(r)
  BY <1>1, <1>3, NType DEF IdleAction, SignoffAfterCleanup, a
<1> QED
  BY <1>2, <1>3, <1>4, <1>5 DEF Good, FindingsRecorded, FixHasFindings,
       GreenWasReviewed, Completed, BudgetStage, r

\* a document whose fix is due: findings are open and the budget may be exceeded
FixDue(s) ==
    /\ Good(s) /\ s.findings # NoFindings
    /\ s.stage \in {"fix-pending", "decision-required"}

\* Findings on a reviewed head, opened before any closure pass has ended, make a good document
\* that waits for their fix.
LEMMA OpenFindings ==
  ASSUME NEW s \in Cycle, NEW h \in Heads, NEW i \in Steps,
         s.convergence.status # "DECISION_REQUIRED",
         s.deslop.status \notin {"done", "failed"},
         s.findings = [head |-> h, step |-> i, rerun |-> FALSE]
  PROVE  FixDue(WithFixAction(RecordAcceptedFindingsHead(
                    SetStage(s, "fix-pending", NoAction), h)))
<1>1. s.findings # NoFindings
  BY HeadAssumption DEF NoFindings
<1>2. Ready(s, "fix-pending")
  BY <1>1 DEF Ready, FindingsRecorded
<1>3. IdleAction(NoAction) /\ "fix-pending" \in IdleStages
  BY ActIdle DEF ActionKinds, IdleStages, Stages
<1> DEFINE t == SetStage(s, "fix-pending", NoAction)
           u == RecordAcceptedFindingsHead(t, h)
<1>4. Good(t) /\ t.stage = "fix-pending" /\ t.findings = s.findings
  BY <1>2, <1>3, SetStageGood
<1> HIDE DEF t
<1>5. Good(u) /\ u.stage \in {"fix-pending", "decision-required"}
      /\ u.findings = s.findings
  BY <1>4, AcceptedGood
<1> HIDE DEF u
<1> QED
  BY <1>1, <1>5, WithFixGood DEF FixDue, t, u

\* --decision findings on a profile round keeps the document good.
LEMMA FindingsDecisionGood ==
  ASSUME NEW s, Good(s), s.stage = "decision-pending", s.pending.step # NoStep
  PROVE  FixDue(RecordFindingsDecision(s))
<1> DEFINE h == s.pending.head
           open == [s EXCEPT !.heads.reviewed = h,
                             !.findings = [head |-> h, step |-> s.pending.step,
                                           rerun |-> FALSE],
                             !.validation.green = FALSE]
<1>1. s \in Cycle /\ h \in Heads /\ s.pending.step \in Steps
  BY DEF Good, RoundNamed, Cycle, Pending
<1>2. open \in Cycle
  BY <1>1 DEF Cycle, ReviewHeads, Findings, Validation
<1>3. /\ open.convergence = s.convergence /\ open.deslop = s.deslop
      /\ open.findings = [head |-> h, step |-> s.pending.step, rerun |-> FALSE]
  BY <1>1 DEF Cycle
<1>4. /\ s.convergence.status # "DECISION_REQUIRED"
      /\ s.deslop.status \notin {"done", "failed"}
  BY DEF Good, BudgetStage, CleanupHeld
<1> HIDE DEF open
<1>5. FixDue(WithFixAction(RecordAcceptedFindingsHead(
                 SetStage(open, "fix-pending", NoAction), h)))
  BY <1>1, <1>2, <1>3, <1>4, OpenFindings
<1> QED
  BY <1>5 DEF RecordFindingsDecision, open

\* --decision findings on a follow-up round keeps the document good.
LEMMA FollowupFindingsGood ==
  ASSUME NEW s, Good(s), s.stage = "decision-pending", s.pending.step = NoStep
  PROVE  FixDue(RecordFollowupFindings(s))
<1> DEFINE h == s.pending.head
           open == [s EXCEPT !.heads.followup = h,
                             !.findings = [head |-> h, step |-> s.findings.step,
                                           rerun |-> FALSE],
                             !.validation.green = FALSE]
<1>1. s \in Cycle /\ h \in Heads /\ s.findings.step \in Steps
  BY DEF Good, RoundNamed, FindingsRecorded
<1>2. open \in Cycle
  BY <1>1 DEF Cycle, ReviewHeads, Findings, Validation
<1>3. /\ open.convergence = s.convergence /\ open.deslop = s.deslop
      /\ open.findings = [head |-> h, step |-> s.findings.step, rerun |-> FALSE]
  BY <1>1 DEF Cycle
<1>4. /\ s.convergence.status # "DECISION_REQUIRED"
      /\ s.deslop.status \notin {"done", "failed"}
  BY DEF Good, BudgetStage, CleanupHeld
<1> HIDE DEF open
<1>5. FixDue(WithFixAction(RecordAcceptedFindingsHead(
                 SetStage(open, "fix-pending", NoAction), h)))
  BY <1>1, <1>2, <1>3, <1>4, OpenFindings
<1> QED
  BY <1>5 DEF RecordFollowupFindings, open

\* A completed step leads to the next one or to green, and to a good document.
LEMMA AdvanceOrGreenGood ==
  ASSUME NEW s \in Cycle, FindingsRecorded(s), s.heads.reviewed \in Heads,
         Completed(s) # {}, s.convergence.status # "DECISION_REQUIRED",
         s.deslop.status \notin {"done", "failed"}
  PROVE  Good(AdvanceOrGreen(s))
<1> DEFINE t(green) == [s EXCEPT !.validation.green = green]
<1>1. ASSUME NEW green \in BOOLEAN, NEW stage \in {"created", "review-green"}
      PROVE  Ready(t(green), stage)
  <2>1. t(green) \in Cycle
    BY DEF Cycle, Validation
  <2>2. /\ t(green).findings = s.findings /\ t(green).heads = s.heads
        /\ t(green).convergence = s.convergence /\ t(green).deslop = s.deslop
        /\ t(green).progress = s.progress
    BY DEF Cycle
  <2> HIDE DEF t
  <2> QED
    BY <2>1, <2>2 DEF Ready, FindingsRecorded, Completed
<1>2. /\ IdleAction(NoAction) /\ IdleAction(Act("run-review-step"))
      /\ "created" \in IdleStages /\ "review-green" \in IdleStages
  BY ActIdle DEF ActionKinds, IdleStages, Stages
<1>3. /\ Good(SetStage(t(FALSE), "created", Act("run-review-step")))
      /\ Good(SetStage(t(TRUE), "review-green", NoAction))
  <2> HIDE DEF t
  <2> QED
    BY <1>1, <1>2, SetStageGood
<1> QED
  BY <1>3 DEF AdvanceOrGreen

\* --decision clean on a profile round keeps the document good.
LEMMA CleanDecisionGood ==
  ASSUME NEW s, Good(s), s.stage = "decision-pending", s.pending.step # NoStep
  PROVE  Good(RecordCleanDecision(s))
<1> DEFINE h == s.pending.head
           i == s.pending.step
           decided == [s EXCEPT !.heads.reviewed = h,
                                !.convergence.continuePending = FALSE]
           done == CompleteStep(decided, i, h)
           next == AdvanceAfterClean(done, i)
<1>1. s \in Cycle /\ h \in Heads /\ i \in Steps
  BY DEF Good, RoundNamed, Cycle, Pending
<1>2. decided \in Cycle
  BY <1>1 DEF Cycle, ReviewHeads, Convergence
<1>3. /\ decided.findings = s.findings /\ decided.heads.reviewed = h
      /\ decided.convergence.status = s.convergence.status
      /\ decided.deslop = s.deslop
  BY <1>1 DEF Cycle, ReviewHeads, Convergence
<1> HIDE DEF h, i, decided
<1>4. done \in Cycle /\ Completed(done) # {} /\ Kept(decided, done)
  BY <1>1, <1>2, CompleteType, ProgressKept
<1> HIDE DEF done
<1>5. next \in Cycle /\ Completed(next) # {} /\ Kept(done, next)
  BY <1>1, <1>4, AdvanceType, ProgressKept DEF Completed
<1> HIDE DEF next
<1>6. Good(AdvanceOrGreen(next))
  BY <1>1, <1>3, <1>4, <1>5, AdvanceOrGreenGood
     DEF Kept, Good, FindingsRecorded, BudgetStage, CleanupHeld
<1> QED
  BY <1>6 DEF RecordCleanDecision, next, done, decided, h, i

\* --decision clean on a follow-up round keeps the document good.
LEMMA FollowupCleanGood ==
  ASSUME NEW s, Good(s), s.stage = "decision-pending", s.pending.step = NoStep
  PROVE  Good(RecordFollowupClean(s))
<1> DEFINE h == s.pending.head
           i == s.findings.step
           closed == [s EXCEPT !.heads.followup = h,
                               !.convergence.continuePending = FALSE,
                               !.findings = NoFindings]
           reset == [closed EXCEPT !.validation.green = FALSE]
           rewound == RewindStep(reset, i)
           done == CompleteStep(closed, i, h)
<1>1. s \in Cycle /\ h \in Heads /\ i \in Steps /\ s.heads.reviewed \in Heads
  BY DEF Good, RoundNamed, FindingsRecorded
<1>2. closed \in Cycle
  BY <1>1 DEF Cycle, ReviewHeads, Convergence, Findings, NoFindings
<1>3. /\ closed.findings = NoFindings /\ closed.heads.reviewed \in Heads
      /\ closed.convergence.status = s.convergence.status
      /\ closed.deslop = s.deslop
  BY <1>1 DEF Cycle, ReviewHeads, Convergence
<1>4. /\ s.convergence.status # "DECISION_REQUIRED"
      /\ s.deslop.status \notin {"done", "failed"}
  BY DEF Good, BudgetStage, CleanupHeld
<1> HIDE DEF h, i, closed
<1>5. reset \in Cycle /\ reset.findings = NoFindings
      /\ reset.convergence = closed.convergence /\ reset.deslop = closed.deslop
  BY <1>2, <1>3 DEF Cycle, Validation
<1> HIDE DEF reset
<1>6. rewound \in Cycle /\ Kept(reset, rewound)
  BY <1>1, <1>5, RewindType, ProgressKept
<1> HIDE DEF rewound
<1>7. Good(SetStage(rewound, "created", Act("run-review-step")))
  <2>1. Ready(rewound, "created")
    BY <1>3, <1>4, <1>5, <1>6 DEF Ready, Kept, FindingsRecorded
  <2>2. IdleAction(Act("run-review-step")) /\ "created" \in IdleStages
    BY ActIdle DEF ActionKinds, IdleStages, Stages
  <2> QED
    BY <2>1, <2>2, SetStageGood
<1>8. done \in Cycle /\ Completed(done) # {} /\ Kept(closed, done)
  BY <1>1, <1>2, CompleteType, ProgressKept
<1> HIDE DEF done
<1>9. Good(AdvanceOrGreen(done))
  BY <1>3, <1>4, <1>8, AdvanceOrGreenGood DEF Kept, FindingsRecorded
<1> QED
  BY <1>7, <1>9 DEF RecordFollowupClean, rewound, reset, done, closed, h, i

\* Every decision on a round that awaits one keeps the document good.
LEMMA DecisionGood ==
  ASSUME NEW s, Good(s), s.stage = "decision-pending", NEW d
  PROVE  /\ Good(RecordDecision(s, d))
         /\ d # "clean" => FixDue(RecordDecision(s, d))
  BY FindingsDecisionGood, FollowupFindingsGood, CleanDecisionGood, FollowupCleanGood
     DEF RecordDecision, IsFollowup, FixDue

\* Sending a fix to the review of its step keeps the document good.
LEMMA FixReviewGood ==
  ASSUME NEW s \in Cycle, FindingsRecorded(s), s.findings # NoFindings,
         s.convergence.status # "DECISION_REQUIRED",
         s.deslop.status \notin {"done", "failed"}
  PROVE  Good(MarkProfileFixReviewNeeded(s))
<1> DEFINE f == s.findings
           closed == [s EXCEPT !.findings = NoFindings, !.validation.green = FALSE]
           again == IF FixedFindingsBudget(f.step)
                    THEN CompleteStep(closed, f.step, f.head)
                    ELSE RewindStep(closed, f.step)
           a == [Act("run-review-step") EXCEPT !.fix = f.head]
<1>1. f.head \in Heads /\ f.step \in Steps
  BY DEF FindingsRecorded
<1>2. /\ closed \in Cycle /\ closed.findings = NoFindings
      /\ closed.convergence = s.convergence /\ closed.deslop = s.deslop
  BY DEF Cycle, Findings, NoFindings, Validation
<1> HIDE DEF closed
<1>3. again \in Cycle /\ Kept(closed, again)
  BY <1>1, <1>2, CompleteType, RewindType, ProgressKept
<1>4. Ready(again, "created")
  <2> HIDE DEF again
  <2> QED
    BY <1>2, <1>3 DEF Ready, Kept, FindingsRecorded
<1>5. IdleAction(a) /\ "created" \in IdleStages
  BY <1>1, ActIdle DEF ActionKinds, IdleStages, Stages
<1> HIDE DEF again, a
<1>6. Good(SetStage(again, "created", a))
  BY <1>4, <1>5, SetStageGood
<1> QED
  BY <1>6 DEF MarkProfileFixReviewNeeded, again, closed, a

\* A commit that fixes open findings keeps the document good, in deep mode and without it.
LEMMA FixDetectedGood ==
  ASSUME NEW s, FixDue(s), NEW h \in Heads
  PROVE  Good(MarkFixDetected(s, h))
<1> DEFINE fixed == [s EXCEPT !.heads.fix = h]
<1>1. CASE s.convergence.status = "DECISION_REQUIRED"
  BY <1>1 DEF MarkFixDetected, FixDue
<1>2. CASE s.convergence.status # "DECISION_REQUIRED"
  <2>1. fixed \in Cycle /\ fixed.findings = s.findings
        /\ fixed.convergence = s.convergence /\ fixed.deslop = s.deslop
    BY DEF FixDue, Good, Cycle, ReviewHeads
  <2>2. s.deslop.status \notin {"done", "failed"} /\ FindingsRecorded(s)
    BY DEF FixDue, Good, CleanupHeld
  <2>3. IdleAction(Act("run-followup")) /\ "followup-pending" \in IdleStages
    BY ActIdle DEF ActionKinds, IdleStages, Stages
  <2> HIDE DEF fixed
  <2>4. Ready(fixed, "followup-pending")
    BY <1>2, <2>1, <2>2 DEF FixDue, Ready, FindingsRecorded
  <2>5. Good(SetStage(fixed, "followup-pending", Act("run-followup")))
    BY <2>3, <2>4, SetStageGood
  <2>6. Good(MarkProfileFixReviewNeeded(fixed))
    BY <1>2, <2>1, <2>2, FixReviewGood DEF FixDue, FindingsRecorded
  <2> QED
    BY <1>2, <2>5, <2>6 DEF MarkFixDetected, fixed
<1> QED
  BY <1>1, <1>2

\* A green document whose head moved goes back to its newest completed step, and stays good.
LEMMA RepeatGood ==
  ASSUME NEW s, Good(s), s.stage = "review-green", NEW h \in Heads,
         NEW g \in Github
  PROVE  Good(MarkLatestProfileStepRerunNeeded(
                  [s EXCEPT !.heads.head = h, !.github = g], h))
<1> DEFINE t == [s EXCEPT !.heads.head = h, !.github = g]
           reset == [t EXCEPT !.heads.fix = h, !.validation = NewValidation]
           rewound == RewindStep(reset, LastCompleted(t))
<1>1. t \in Cycle /\ t.findings = s.findings /\ t.progress = s.progress
      /\ t.convergence = s.convergence /\ t.deslop = s.deslop
  BY DEF Good, Cycle, ReviewHeads
<1> HIDE DEF t
<1>2. NewValidation \in Validation
  BY DEF NewValidation, Validation, GateStatuses
<1>3. reset \in Cycle /\ reset.findings = s.findings
      /\ reset.convergence = s.convergence /\ reset.deslop = s.deslop
  BY <1>1, <1>2 DEF Cycle, ReviewHeads
<1> HIDE DEF reset
<1>4. LastCompleted(t) \in Steps
  BY <1>1, LastCompletedType DEF Completed, Good, GreenWasReviewed
<1>5. rewound \in Cycle /\ Kept(reset, rewound)
  BY <1>3, <1>4, RewindType, ProgressKept
<1> HIDE DEF rewound
<1>6. Ready(rewound, "created")
  BY <1>3, <1>5 DEF Kept, Ready, Good, FindingsRecorded, BudgetStage, CleanupHeld
<1>7. IdleAction(Act("run-review-step")) /\ "created" \in IdleStages
  BY ActIdle DEF ActionKinds, IdleStages, Stages
<1>8. Good(SetStage(rewound, "created", Act("run-review-step")))
  BY <1>6, <1>7, SetStageGood
<1> QED
  BY <1>8 DEF MarkLatestProfileStepRerunNeeded, rewound, reset, t

-----------------------------------------------------------------------------
(* What an invocation does first                                           *)

\* a change of heads, validation or the closing of the cleanup, in the same stage
LEMMA SameStageGood ==
  ASSUME NEW s, Good(s), NEW r \in Cycle, r.stage = s.stage, r.pending = s.pending,
         r.progress = s.progress, r.findings = s.findings,
         r.convergence.status = s.convergence.status,
         r.heads.reviewed = s.heads.reviewed,
         r.deslop = s.deslop \/ r.deslop.status = "closed"
  PROVE  Good(r)
  BY DEF Good, FindingsRecorded, RoundNamed, FixHasFindings, GreenWasReviewed,
         Completed, BudgetStage, CleanupHeld, SignoffAfterCleanup, DeslopTracked

\* Closing the closure pass keeps a document good.
LEMMA ClosedGood ==
  ASSUME NEW s, Good(s), NEW reason \in BOOLEAN
  PROVE  /\ Good(MarkDeslopClosed(s, reason))
         /\ MarkDeslopClosed(s, reason).stage = s.stage
<1> DEFINE r == MarkDeslopClosed(s, reason)
<1>1. r \in Cycle
  BY DEF MarkDeslopClosed, Good, Cycle, Deslop
<1>2. /\ r.stage = s.stage /\ r.pending = s.pending /\ r.progress = s.progress
      /\ r.findings = s.findings /\ r.convergence = s.convergence
      /\ r.heads = s.heads /\ r.deslop.status = "closed"
  BY DEF MarkDeslopClosed, Good, Cycle, Deslop
<1> HIDE DEF r
<1>3. Good(r)
  BY <1>1, <1>2, SameStageGood
<1> QED
  BY <1>2, <1>3 DEF r

\* Following HEAD keeps a document good, with or without forgetting its validation.
LEMMA MovedGood ==
  ASSUME NEW s, Good(s), NEW h \in Heads
  PROVE  LET moved == [s EXCEPT !.heads.head = h]
             reset == [s EXCEPT !.heads.head = h, !.validation = NewValidation]
         IN  /\ Good(moved) /\ moved.stage = s.stage /\ moved.findings = s.findings
             /\ moved.pending = s.pending
             /\ Good(reset) /\ reset.stage = s.stage /\ reset.progress = s.progress
             /\ reset.deslop = s.deslop /\ reset.convergence = s.convergence
<1> DEFINE moved == [s EXCEPT !.heads.head = h]
           reset == [s EXCEPT !.heads.head = h, !.validation = NewValidation]
<1>1. NewValidation \in Validation
  BY DEF NewValidation, Validation, GateStatuses
<1>2. moved \in Cycle /\ reset \in Cycle
  BY <1>1 DEF Good, Cycle, ReviewHeads
<1>3. ASSUME NEW r \in {moved, reset}
      PROVE  /\ r.stage = s.stage /\ r.pending = s.pending /\ r.progress = s.progress
             /\ r.findings = s.findings /\ r.convergence = s.convergence
             /\ r.heads.reviewed = s.heads.reviewed /\ r.deslop = s.deslop
  BY DEF Good, Cycle, ReviewHeads
<1>4. Good(moved) /\ Good(reset)
  <2> HIDE DEF moved, reset
  <2> QED
    BY <1>2, <1>3, SameStageGood
<1> QED
  BY <1>3, <1>4

\* _resume_progress keeps a document good, in every stage.
LEMMA ResumeGood ==
  ASSUME NEW s, Good(s), head \in Heads
  PROVE  Good(Resume(s))
<1>1. ASSUME s.stage = "created" PROVE Good(ResumeCreated(s))
  BY MovedGood, ClosedGood DEF ResumeCreated
<1>2. ASSUME s.stage = "decision-pending" PROVE Good(ResumeDecision(s))
  <2> DEFINE moved == [s EXCEPT !.heads.head = head]
  <2>1. Good(moved) /\ moved.stage = "decision-pending"
    BY <1>2, MovedGood
  <2> HIDE DEF moved
  <2>2. Good(MarkFixDetected(RecordDecision(moved, "findings"), head))
    BY <2>1, DecisionGood, FixDetectedGood
  <2> QED
    BY <2>1, <2>2 DEF ResumeDecision, moved
<1>3. ASSUME s.stage = "review-green" PROVE Good(ResumeGreen(s))
  <2>1. [status |-> "unknown", head |-> None] \in Github
    BY DEF Github
  <2> QED
    BY <1>3, <2>1, RepeatGood DEF ResumeGreen
<1>4. ASSUME s.stage = "fix-pending" PROVE Good(ResumeFix(s))
  <2> DEFINE moved == IF clean THEN [s EXCEPT !.heads.head = head] ELSE s
  <2>1. Good(moved) /\ moved.stage = "fix-pending" /\ moved.findings = s.findings
    BY <1>4, MovedGood
  <2> HIDE DEF moved
  <2>2. FixDue(moved)
    BY <2>1, <1>4 DEF FixDue, Good, FixHasFindings
  <2>3. Good(MarkFixDetected(moved, head)) /\ Good(WithFixAction(moved))
    BY <2>1, <2>2, FixDetectedGood, WithFixGood
  <2> QED
    BY <2>3 DEF ResumeFix, moved
<1> QED
  BY <1>1, <1>2, <1>3, <1>4 DEF Resume

\* Retrying a blocked round keeps a document good, the follow-up retried at step 0 too.
LEMMA RetryGood ==
  ASSUME NEW s, Good(s)
  PROVE  Good(RetryBlocked(s))
<1>1. CASE s.stage = "decision-pending" /\ s.round.blocked
  <2> DEFINE i == IF IsFollowup(s) THEN 0 ELSE s.pending.step
             t == [s EXCEPT !.progress.next = i]
             a == [Act("run-review-step") EXCEPT !.fix = s.pending.fix]
  <2>1. i \in 0 .. N /\ s.pending.fix \in MaybeHead
    BY NType DEF IsFollowup, Good, Cycle, Pending
  <2>2. t \in Cycle /\ t.findings = s.findings /\ t.deslop = s.deslop
        /\ t.convergence = s.convergence
    <3> HIDE DEF i
    <3> QED
      BY <2>1 DEF Good, Cycle, Progress
  <2> HIDE DEF t
  <2>3. Ready(t, "created")
    BY <1>1, <2>2 DEF Ready, Good, FindingsRecorded, BudgetStage, CleanupHeld
  <2>4. IdleAction(a) /\ "created" \in IdleStages
    BY <2>1, ActIdle DEF ActionKinds, IdleStages, Stages
  <2> HIDE DEF a
  <2>5. Good(SetStage(t, "created", a))
    BY <2>3, <2>4, SetStageGood
  <2> QED
    BY <1>1, <2>5 DEF RetryBlocked, t, a
<1>2. CASE ~(s.stage = "decision-pending" /\ s.round.blocked)
  BY <1>2 DEF RetryBlocked
<1> QED
  BY <1>1, <1>2

\* The loop of an invocation, up to its expensive step, keeps a document good.
LEMMA SettleGood ==
  ASSUME NEW s, Good(s), head \in Heads
  PROVE  Good(Settle(s))
<1>1. ASSUME NEW t, Good(t) PROVE Good(ResumeAndRetry(t))
  BY <1>1, ResumeGood, RetryGood DEF ResumeAndRetry
<1> DEFINE ready == ResumeAndRetry(s)
<1>2. Good(ready)
  BY <1>1
<1> HIDE DEF ready
<1>3. AutoDecides(ready) => Good(RecordDecision(ready, ready.round.verdict))
  BY <1>2, DecisionGood DEF AutoDecides
<1> QED
  BY <1>1, <1>2, <1>3 DEF Settle, ready

-----------------------------------------------------------------------------
(* The inductive invariant of the specification                            *)

CleanupRuns(s) ==
    /\ Good(s)
    /\ s.progress.next = N - 1
    /\ s.stage \in {"created", "retry-requested"}
    /\ s.deslop.status \in {"tracked", "failed"}

FollowupRuns(s) ==
    /\ Good(s)
    /\ s.stage = "followup-pending"
    /\ s.pending.head \in Heads

IInv ==
    /\ Good(c)
    /\ w \in Work
    /\ w.run = "deslop" => CleanupRuns(w.state)
    /\ w.run = "followup" => FollowupRuns(w.state)
    /\ head \in Heads
    /\ clean \in BOOLEAN

\* A new cycle is good.
LEMMA NewCycleGood == Good(NewCycle)
<1> DEFINE n == NewCycle
<1>1. NewValidation \in Validation
  BY DEF NewValidation, Validation, GateStatuses
<1>2. NoAction \in Pending /\ NoRound \in RoundFile /\ NoFindings \in Findings
  BY DEF NoAction, Pending, ActionKinds, NoRound, RoundFile, NoFindings, Findings
<1>3. n \in Cycle
  BY <1>1, <1>2, NType, HeadAssumption
     DEF NewCycle, Cycle, Stages, Progress, ReviewHeads, Convergence, Github, Deslop
<1>4. /\ n.stage = "created" /\ n.pending = NoAction /\ n.findings = NoFindings
      /\ n.convergence.status = "ACTIVE" /\ n.deslop.status \in {"tracked", "skipped"}
  BY DEF NewCycle
<1> HIDE DEF n
<1>5. SignoffAfterCleanup(n) /\ RoundNamed(n)
  BY <1>4, NType DEF SignoffAfterCleanup, RoundNamed, NoAction
<1> QED
  BY <1>3, <1>4, <1>5 DEF Good, FindingsRecorded, FixHasFindings, GreenWasReviewed,
       BudgetStage, CleanupHeld, n

\* The initial states satisfy the inductive invariant.
LEMMA InitIInv == Init => IInv
<1> SUFFICES ASSUME Init PROVE IInv
  OBVIOUS
<1>1. NoWork \in Work /\ NoWork.run = "nothing"
  BY NewCycleGood DEF NoWork, Work, Good
<1> QED
  BY <1>1, NewCycleGood, HeadAssumption DEF Init, IInv

\* a change of the file of the round only
LEMMA RoundGood ==
  ASSUME NEW s, Good(s), NEW f \in RoundFile
  PROVE  LET r == [s EXCEPT !.round = f]
         IN  Good(r) /\ r.stage = s.stage /\ r.pending = s.pending
<1> DEFINE r == [s EXCEPT !.round = f]
<1>1. r \in Cycle
  BY DEF Good, Cycle
<1>2. /\ r.stage = s.stage /\ r.pending = s.pending /\ r.progress = s.progress
      /\ r.findings = s.findings /\ r.convergence = s.convergence
      /\ r.heads = s.heads /\ r.deslop = s.deslop
  BY DEF Good, Cycle
<1> HIDE DEF r
<1>3. Good(r)
  BY <1>1, <1>2, SameStageGood
<1> QED
  BY <1>2, <1>3 DEF r

\* What reviewers answer is the file of a completed round.
LEMMA AnswersType ==
  ASSUME NEW s
  PROVE  Answers \subseteq RoundFile /\ AnswersTo(s) \subseteq RoundFile
<1>1. Answers \subseteq RoundFile
  BY DEF Answers, RoundFile, NoRound
<1> QED
  BY <1>1 DEF AnswersTo, RoundFile

\* Launching the next step of a cycle that is ready for it keeps the document good; this is
\* where the closure pass is known to be over when the step is the signoff.
LEMMA LaunchedGood ==
  ASSUME NEW s, Good(s), CanLaunch(s), head \in Heads,
         NEW a, a = [kind |-> "collect-review-step", step |-> s.progress.next,
                     fix |-> s.pending.fix, head |-> head]
  PROVE  Good([SetStage(s, "running", a) EXCEPT !.round = LaunchedRound])
<1> DEFINE t == SetStage(s, "running", a)
<1>1. s.progress.next \in Steps
  BY NType DEF CanLaunch, HasNextStep, Good, Cycle, Progress
<1>2. a \in Pending
  BY <1>1 DEF Good, Cycle, Pending, ActionKinds
<1>3. t \in Cycle
  BY <1>2 DEF SetStage, Good, Cycle, Stages, RoundFile, NoRound
<1>4. /\ t.stage = "running" /\ t.pending = a
      /\ t.findings = s.findings /\ t.progress = s.progress
      /\ t.heads = s.heads /\ t.convergence = s.convergence
      /\ t.deslop = s.deslop
  BY DEF SetStage, Good, Cycle
<1>5. s.deslop.status \notin {"done", "failed"}
  BY DEF CanLaunch, DeslopReady, DeslopTracked
<1>6. ASSUME s.progress.next = N - 1, Kind(N - 1) # "arena" PROVE ~DeslopTracked(s)
  BY <1>6 DEF CanLaunch, DeslopReady, DeslopShouldRun
<1> HIDE DEF t
<1>7. SignoffAfterCleanup(t)
  BY <1>4, <1>6 DEF SignoffAfterCleanup, DeslopTracked
<1>8. RoundNamed(t)
  BY <1>1, <1>4 DEF RoundNamed
<1>9. Good(t)
  BY <1>3, <1>4, <1>5, <1>7, <1>8
     DEF Good, FindingsRecorded, FixHasFindings, GreenWasReviewed, BudgetStage,
         CleanupHeld, CanLaunch
<1>10. LaunchedRound \in RoundFile
  BY DEF LaunchedRound, NoRound, RoundFile
<1> QED
  BY <1>9, <1>10, RoundGood DEF t

\* a round that was running, or waited for its recovery, awaits its decision
LEMMA ReviewPendingGood ==
  ASSUME NEW s, Good(s), s.pending.head \in Heads, s.pending.step \in Steps,
         s.stage = "running" \/ s.pending.kind = "arena-blocked"
  PROVE  Good(ReviewStepPending(s))
<1> DEFINE t == [s EXCEPT !.stage = "decision-pending",
                          !.pending.kind = "decision",
                          !.heads.reviewed = s.pending.head,
                          !.progress.next = s.pending.step]
           a == [s.pending EXCEPT !.kind = "arena-blocked"]
           u == SetStage(t, "retry-requested", a)
<1>1. t \in Cycle
  <2>1. s.pending.step \in 0 .. N
    BY NType
  <2>2. "decision-pending" \in Stages /\ "decision" \in ActionKinds
    BY DEF Stages, ActionKinds
  <2> QED
    BY <2>1, <2>2 DEF Good, Cycle, Pending, ReviewHeads, Progress
<1>2. /\ t.stage = "decision-pending" /\ t.pending.kind = "decision"
      /\ t.pending.step = s.pending.step /\ t.pending.head = s.pending.head
      /\ t.heads.reviewed = s.pending.head
      /\ t.findings = s.findings /\ t.convergence = s.convergence
      /\ t.deslop = s.deslop /\ t.round = s.round
  BY DEF Good, Cycle, Pending, ReviewHeads
<1>3. s.deslop.status \notin {"done", "failed"}
  BY DEF Good, CleanupHeld, RoundNamed
<1>4. s.convergence.status # "DECISION_REQUIRED"
  BY DEF Good, BudgetStage, RoundNamed
<1>5. s.pending.step = N - 1 /\ Kind(N - 1) # "arena" => ~DeslopTracked(s)
  BY DEF Good, SignoffAfterCleanup
<1> HIDE DEF t
<1>6. Good(t)
  <2>1. RoundNamed(t) /\ CleanupHeld(t)
    BY <1>2, <1>3, NType DEF RoundNamed, CleanupHeld
  <2>2. SignoffAfterCleanup(t) /\ FindingsRecorded(t) /\ BudgetStage(t)
    BY <1>2, <1>4, <1>5 DEF SignoffAfterCleanup, DeslopTracked, BudgetStage, Good,
       FindingsRecorded
  <2> QED
    BY <1>1, <1>2, <2>1, <2>2 DEF Good, FixHasFindings, GreenWasReviewed
<1>7. Good(u)
  <2>1. a \in Pending /\ a.kind = "arena-blocked" /\ a.step = s.pending.step
        /\ a.head = s.pending.head
    BY DEF Good, Cycle, Pending, ActionKinds
  <2> HIDE DEF a
  <2>2. u \in Cycle
    BY <1>1, <2>1 DEF SetStage, Cycle, Stages, RoundFile, NoRound
  <2>3. /\ u.stage = "retry-requested" /\ u.pending = a
        /\ u.findings = s.findings /\ u.convergence = s.convergence
        /\ u.deslop = s.deslop
    BY <1>1, <1>2 DEF SetStage, Cycle
  <2> HIDE DEF u
  <2>4. RoundNamed(u) /\ CleanupHeld(u)
    BY <1>3, <2>1, <2>3 DEF RoundNamed, CleanupHeld
  <2>5. SignoffAfterCleanup(u) /\ FindingsRecorded(u) /\ BudgetStage(u)
    BY <1>4, <1>5, <2>1, <2>3 DEF SignoffAfterCleanup, DeslopTracked, BudgetStage, Good,
       FindingsRecorded
  <2> QED
    BY <2>2, <2>3, <2>4, <2>5 DEF Good, FixHasFindings, GreenWasReviewed
<1> QED
  BY <1>6, <1>7 DEF ReviewStepPending, t, u, a

\* the result of a follow-up awaits its decision
LEMMA FollowupPendingGood ==
  ASSUME NEW s, FollowupRuns(s)
  PROVE  Good(FollowupReviewPending(s))
<1> DEFINE h == s.pending.head
           r == FollowupReviewPending(s)
           a == [Act("decision") EXCEPT !.head = h]
<1>1. a \in Pending /\ a.head = h /\ a.step = NoStep /\ a.kind = "decision"
  BY DEF FollowupRuns, Act, NoAction, Pending, ActionKinds
<1> HIDE DEF a
<1>2. r = [s EXCEPT !.stage = "decision-pending", !.pending = a,
                    !.heads.reviewed = h, !.heads.followup = h]
  BY DEF FollowupReviewPending, a
<1> DEFINE q == [s EXCEPT !.stage = "decision-pending", !.pending = a,
                          !.heads.reviewed = h, !.heads.followup = h]
<1>3. r \in Cycle
  <2>1. s \in Cycle /\ h \in Heads /\ "decision-pending" \in Stages
    BY DEF FollowupRuns, Good, Stages
  <2> HIDE DEF h, r
  <2>2. q \in Cycle
    BY <1>1, <2>1 DEF Cycle, ReviewHeads
  <2> QED
    BY <1>2, <2>2
<1>4. /\ r.stage = "decision-pending" /\ r.pending = a
      /\ r.heads.reviewed = h /\ r.findings = s.findings
      /\ r.convergence = s.convergence /\ r.deslop = s.deslop
  <2>1. s \in Cycle
    BY DEF FollowupRuns, Good
  <2> HIDE DEF h, r
  <2>2. /\ q.stage = "decision-pending" /\ q.pending = a
        /\ q.heads.reviewed = h /\ q.findings = s.findings
        /\ q.convergence = s.convergence /\ q.deslop = s.deslop
    BY <2>1 DEF Cycle, ReviewHeads
  <2> QED
    BY <1>2, <2>2
<1>5. /\ s.findings # NoFindings /\ s.convergence.status # "DECISION_REQUIRED"
      /\ s.deslop.status \notin {"done", "failed"} /\ FindingsRecorded(s)
  BY DEF FollowupRuns, Good, FixHasFindings, BudgetStage, CleanupHeld
<1> HIDE DEF r
<1>6. RoundNamed(r) /\ SignoffAfterCleanup(r)
  BY <1>1, <1>4, <1>5, NType DEF RoundNamed, SignoffAfterCleanup, FollowupRuns
<1>7. FindingsRecorded(r) /\ FixHasFindings(r) /\ GreenWasReviewed(r)
      /\ BudgetStage(r) /\ CleanupHeld(r)
  BY <1>4, <1>5 DEF FindingsRecorded, FixHasFindings, GreenWasReviewed, BudgetStage,
       CleanupHeld
<1> QED
  BY <1>3, <1>6, <1>7 DEF Good, r

\* the closure pass ended, well or badly
LEMMA CleanupEndsGood ==
  ASSUME NEW s, CleanupRuns(s), NEW drifted \in BOOLEAN
  PROVE  /\ Good(MarkDeslopDone(s, drifted, s.heads.head))
         /\ Good(MarkDeslopFailed(s))
<1>1. s \in Cycle /\ s.pending.fix \in MaybeHead /\ s.heads.head \in Heads
  BY DEF CleanupRuns, Good, Cycle, Pending, ReviewHeads
<1>2. s.convergence.status # "DECISION_REQUIRED" /\ FindingsRecorded(s)
  BY DEF CleanupRuns, Good, BudgetStage
<1>3. ASSUME NEW t \in Cycle, NEW stage, NEW a, IdleAction(a),
             t.findings = s.findings, t.convergence = s.convergence,
             t.progress = s.progress,
             \/ t.deslop.status = "done" /\ stage = "created"
             \/ /\ t.deslop.status = "failed" /\ stage = "retry-requested"
                /\ a.kind = "run-deslop"
      PROVE  Good(SetStage(t, stage, a))
  <2> DEFINE r == SetStage(t, stage, a)
  <2>1. r \in Cycle
    BY <1>3 DEF SetStage, Cycle, Stages, IdleAction, RoundFile, NoRound
  <2>2. /\ r.stage = stage /\ r.pending = a /\ r.findings = s.findings
        /\ r.convergence = s.convergence /\ r.progress = s.progress
        /\ r.deslop = t.deslop
    BY <1>3 DEF SetStage, Cycle
  <2> HIDE DEF r
  <2>3. RoundNamed(r) /\ SignoffAfterCleanup(r)
    BY <1>3, <2>2, NType DEF RoundNamed, SignoffAfterCleanup, IdleAction
  <2>4. FindingsRecorded(r) /\ FixHasFindings(r) /\ GreenWasReviewed(r)
        /\ BudgetStage(r) /\ CleanupHeld(r)
    BY <1>2, <1>3, <2>2 DEF FindingsRecorded, FixHasFindings, GreenWasReviewed,
         BudgetStage, CleanupHeld, CleanupRuns
  <2> QED
    BY <2>1, <2>3, <2>4 DEF Good, r
<1>4. /\ IdleAction([Act("run-review-step") EXCEPT !.fix = s.pending.fix])
      /\ IdleAction([Act("run-deslop") EXCEPT !.fix = s.pending.fix])
      /\ [Act("run-deslop") EXCEPT !.fix = s.pending.fix].kind = "run-deslop"
  BY <1>1, ActIdle DEF ActionKinds, Act, NoAction
<1>5. Good(MarkDeslopDone(s, drifted, s.heads.head))
  <2> DEFINE t == [s EXCEPT !.deslop.status = "done", !.deslop.drifted = drifted,
                            !.deslop.head = s.heads.head]
  <2>1. /\ t \in Cycle /\ t.findings = s.findings /\ t.convergence = s.convergence
        /\ t.progress = s.progress /\ t.deslop.status = "done"
    BY <1>1 DEF Cycle, Deslop
  <2> HIDE DEF t
  <2>2. Good(SetStage(t, "created", [Act("run-review-step") EXCEPT !.fix = s.pending.fix]))
    BY <1>3, <1>4, <2>1
  <2> QED
    BY <2>2 DEF MarkDeslopDone, t
<1>6. Good(MarkDeslopFailed(s))
  <2> DEFINE t == [s EXCEPT !.deslop.status = "failed"]
  <2>1. /\ t \in Cycle /\ t.findings = s.findings /\ t.convergence = s.convergence
        /\ t.progress = s.progress /\ t.deslop.status = "failed"
    BY <1>1 DEF Cycle, Deslop
  <2> HIDE DEF t
  <2>2. Good(SetStage(t, "retry-requested",
                      [Act("run-deslop") EXCEPT !.fix = s.pending.fix]))
    BY <1>3, <1>4, <2>1
  <2> QED
    BY <2>2 DEF MarkDeslopFailed, t
<1> QED
  BY <1>5, <1>6

\* Stopping a cycle with open findings for a convergence decision keeps it good.
LEMMA RequireGood ==
  ASSUME NEW s, Good(s), s.stage = "fix-pending"
  PROVE  Good(RequireConvergenceDecision(s))
<1> DEFINE t == [s EXCEPT !.convergence.status = "DECISION_REQUIRED"]
<1>1. /\ t \in Cycle /\ t.convergence.status = "DECISION_REQUIRED"
      /\ t.findings = s.findings /\ t.deslop = s.deslop
  BY DEF Good, Cycle, Convergence
<1> HIDE DEF t
<1>2. Ready(t, "decision-required")
  BY <1>1 DEF Ready, Good, FindingsRecorded, CleanupHeld, FixHasFindings
<1>3. IdleAction(Act("convergence-decision")) /\ "decision-required" \in IdleStages
  BY ActIdle DEF ActionKinds, IdleStages, Stages
<1>4. Good(SetStage(t, "decision-required", Act("convergence-decision")))
  BY <1>2, <1>3, SetStageGood
<1> QED
  BY <1>4 DEF RequireConvergenceDecision, t

-----------------------------------------------------------------------------
(* Every action preserves it                                               *)

\* Between invocations there is no work.
LEMMA NoWorkType == NoWork \in Work /\ NoWork.run = "nothing"
  BY NewCycleGood DEF NoWork, Work, Good

\* most actions end with a good document and no invocation, or leave that alone
LEMMA StoredGood ==
  ASSUME IInv, Good(c'), w' = w \/ w' = NoWork, head' \in Heads, clean' \in BOOLEAN
  PROVE  IInv'
  BY NoWorkType DEF IInv

\* Starting the closure pass keeps the inductive invariant.
LEMMA RunCleanupStep ==
  ASSUME IInv, NEW s, Good(s), NEW by \in {"rerun", "decision"}, RunCleanup(s, by)
  PROVE  IInv'
<1> DEFINE f == FollowHead(s)
<1>1. /\ Good(f) /\ f.stage = s.stage /\ f.progress = s.progress
      /\ f.deslop = s.deslop
  BY MovedGood DEF FollowHead, IInv
<1>2. CleanupRuns(f)
  <2> HIDE DEF f
  <2> QED
    BY <1>1 DEF CleanupRuns, RunCleanup, DeslopShouldRun, Good, CleanupHeld
<1> HIDE DEF f
<1>3. w' = [run |-> "deslop", by |-> by, state |-> f]
  BY DEF RunCleanup, Working, f
<1>4. w' \in Work /\ w'.run = "deslop" /\ w'.state = f
  BY <1>1, <1>3 DEF Work, Good
<1> QED
  BY <1>2, <1>4 DEF IInv, RunCleanup

\* A rerun (cleanup, launch, follow-up, or nothing to run) keeps the inductive invariant.
LEMMA RerunStep == ASSUME IInv, Rerun PROVE IInv'
<1>1. Good(c) /\ head \in Heads /\ clean \in BOOLEAN /\ Good(Settle(c))
  BY SettleGood DEF IInv
<1>2. CASE RerunCleanup
  BY <1>1, <1>2, RunCleanupStep DEF RerunCleanup
<1>3. CASE RerunLaunch
  <2> DEFINE s == Settle(c)
             a == [kind |-> "collect-review-step", step |-> s.progress.next,
                   fix |-> s.pending.fix, head |-> head]
             saved == [SetStage(s, "running", a) EXCEPT !.round = LaunchedRound]
  <2>1. /\ CanLaunch(s) /\ c' = saved
        /\ w' = [run |-> "review", by |-> "rerun", state |-> saved]
        /\ head' = head /\ clean' = clean
    BY <1>3 DEF RerunLaunch, Working
  <2>2. Good(saved)
    BY <1>1, <2>1, LaunchedGood
  <2> HIDE DEF saved
  <2>3. w' \in Work /\ w'.run = "review"
    BY <2>1, <2>2 DEF Work, Good
  <2> QED
    BY <1>1, <2>1, <2>2, <2>3 DEF IInv
<1>4. CASE RerunFollowup
  <2> DEFINE s == Settle(c)
             t == [s EXCEPT !.pending.head = head, !.round = LaunchedRound]
  <2>1. /\ s.stage = "followup-pending"
        /\ w' = [run |-> "followup", by |-> "rerun", state |-> t]
        /\ c' = c /\ head' = head /\ clean' = clean
    BY <1>4 DEF RerunFollowup, Working
  <2> HIDE DEF s
  <2>2. Good(s) /\ s.pending \in Pending
    BY <1>1 DEF Good, Cycle, s
  <2>3. t \in Cycle
    BY <1>1, <2>2 DEF Good, Cycle, Pending, LaunchedRound, NoRound, RoundFile
  <2>4. /\ t.stage = s.stage /\ t.pending.head = head
        /\ t.pending.step = s.pending.step /\ t.pending.kind = s.pending.kind
        /\ t.findings = s.findings /\ t.convergence = s.convergence
        /\ t.heads = s.heads /\ t.deslop = s.deslop /\ t.progress = s.progress
    BY <2>2 DEF Good, Cycle, Pending
  <2> HIDE DEF t
  <2>5. Good(t)
    BY <1>1, <2>1, <2>2, <2>3, <2>4
       DEF Good, FindingsRecorded, RoundNamed, FixHasFindings, GreenWasReviewed,
           BudgetStage, CleanupHeld, SignoffAfterCleanup, DeslopTracked
  <2>6. w' \in Work /\ w'.run = "followup" /\ w'.state = t
    BY <2>1, <2>3 DEF Work
  <2> QED
    BY <1>1, <2>1, <2>4, <2>5, <2>6 DEF IInv, FollowupRuns
<1>5. CASE RerunIdle
  <2>1. Good(c') /\ w' = w /\ head' = head /\ clean' = clean
    BY <1>1, <1>5, ResumeGood DEF RerunIdle
  <2> QED
    BY <1>1, <2>1, StoredGood
<1> QED
  BY <1>2, <1>3, <1>4, <1>5 DEF Rerun

\* The end of a closure pass keeps the inductive invariant.
LEMMA EndCleanupStep == ASSUME IInv, EndCleanup PROVE IInv'
<1>1. PICK done \in BOOLEAN, drifted \in {FALSE, HasBrief} :
        LET s == IF done THEN MarkDeslopDone(w.state, drifted, w.state.heads.head)
                 ELSE MarkDeslopFailed(w.state)
        IN  c' = IF w.by = "rerun" THEN Settle(s) ELSE s
  BY DEF EndCleanup
<1>2. /\ Good(MarkDeslopDone(w.state, drifted, w.state.heads.head))
      /\ Good(MarkDeslopFailed(w.state))
  BY CleanupEndsGood, ModeAssumption DEF EndCleanup, IInv
<1>3. Good(c')
  BY <1>1, <1>2, SettleGood DEF IInv
<1> QED
  BY <1>3, StoredGood DEF EndCleanup, IInv

\* The answer of reviewers keeps the inductive invariant.
LEMMA ReviewersEndStep == ASSUME IInv, ReviewersEnd PROVE IInv'
<1>1. CASE \E a \in AnswersTo(c) : c' = [c EXCEPT !.round = a] /\ w' = w
  <2>1. Good(c')
    BY <1>1, RoundGood, AnswersType DEF IInv
  <2> QED
    BY <1>1, <2>1, StoredGood DEF ReviewersEnd, IInv
<1>2. CASE /\ w.run = "followup" /\ c' = c
           /\ \E a \in Answers : w' = [w EXCEPT !.state.round = a]
  <2>1. PICK a \in Answers : w' = [w EXCEPT !.state.round = a]
    BY <1>2
  <2> DEFINE t == [w.state EXCEPT !.round = a]
  <2>2. w' = [w EXCEPT !.state = t]
    BY <2>1
  <2>3. Good(t) /\ t.stage = w.state.stage /\ t.pending = w.state.pending
    BY <1>2, RoundGood, AnswersType DEF IInv, FollowupRuns
  <2> HIDE DEF t
  <2>4. w' \in Work /\ w'.run = "followup" /\ w'.state = t
    BY <1>2, <2>2, <2>3 DEF IInv, Work, Good
  <2> QED
    BY <1>2, <2>3, <2>4 DEF IInv, FollowupRuns, ReviewersEnd
<1> QED
  BY <1>1, <1>2 DEF ReviewersEnd

\* Reading the result of a round, refused or not, keeps the inductive invariant.
LEMMA FinishStep ==
  ASSUME IInv, FinishReview \/ FinishReviewRefused \/ EndFollowup \/ Crash
  PROVE  IInv'
<1>1. CASE FinishReview
  <2>1. Good(ReviewStepPending(c))
    BY <1>1, ReviewPendingGood DEF FinishReview, IInv, Good, RoundNamed
  <2>2. Good(c')
    BY <1>1, <2>1, SettleGood DEF FinishReview, IInv
  <2> QED
    BY <1>1, <2>2, StoredGood DEF FinishReview, IInv
<1>2. CASE EndFollowup
  <2>1. Good(FollowupReviewPending(w.state))
    BY <1>2, FollowupPendingGood DEF EndFollowup, IInv
  <2>2. Good(c')
    BY <1>2, <2>1, SettleGood DEF EndFollowup, IInv
  <2> QED
    BY <1>2, <2>2, StoredGood DEF EndFollowup, IInv
<1>3. CASE FinishReviewRefused \/ Crash
  <2>1. Good(c') /\ w' = NoWork /\ head' = head /\ clean' = clean
    BY <1>3 DEF FinishReviewRefused, Crash, IInv
  <2> QED
    BY <2>1, StoredGood DEF IInv
<1> QED
  BY <1>1, <1>2, <1>3

\* Recovering a blocked arena round keeps the inductive invariant.
LEMMA RecoverArenaStep == ASSUME IInv, RecoverArena PROVE IInv'
<1>1. /\ c.stage = "retry-requested" /\ c.pending.kind = "arena-blocked"
      /\ c.pending.head \in Heads /\ c.pending.step \in Steps
      /\ Good(c) /\ head \in Heads
  BY DEF RecoverArena, IInv, Good, RoundNamed
<1> DEFINE t == [c EXCEPT !.progress.next = c.pending.step]
           a == [Act("run-review-step") EXCEPT !.fix = c.pending.fix]
<1>2. Good(SetStage(t, "created", a))
  <2>1. c.pending.step \in 0 .. N /\ c.pending.fix \in MaybeHead
    BY <1>1, NType DEF Good, Cycle, Pending
  <2>2. /\ t \in Cycle /\ t.findings = c.findings /\ t.deslop = c.deslop
        /\ t.convergence = c.convergence
    BY <1>1, <2>1 DEF Good, Cycle, Progress
  <2> HIDE DEF t
  <2>3. Ready(t, "created")
    BY <1>1, <2>2 DEF Ready, Good, FindingsRecorded, BudgetStage, CleanupHeld
  <2>4. IdleAction(a) /\ "created" \in IdleStages
    BY <2>1, ActIdle DEF ActionKinds, IdleStages, Stages
  <2> HIDE DEF a
  <2> QED
    BY <2>3, <2>4, SetStageGood
<1>3. ASSUME NEW f \in AnswersTo(c)
      PROVE  Good(ReviewStepPending([c EXCEPT !.round = f]))
  <2> DEFINE r == [c EXCEPT !.round = f]
  <2>1. Good(r) /\ r.stage = c.stage /\ r.pending = c.pending
    BY <1>1, <1>3, RoundGood, AnswersType
  <2> HIDE DEF r
  <2>2. Good(ReviewStepPending(r))
    BY <1>1, <2>1, ReviewPendingGood
  <2> QED
    BY <2>2 DEF r
<1>4. Good(c')
  BY <1>1, <1>2, <1>3, SettleGood DEF RecoverArena
<1> QED
  BY <1>4, StoredGood DEF RecoverArena, IInv

\* Grading an arena round keeps the inductive invariant.
LEMMA GradeStep == ASSUME IInv, Grade PROVE IInv'
<1> DEFINE f == [c.round EXCEPT !.needsGrade = FALSE]
<1>1. f \in RoundFile /\ c' = [c EXCEPT !.round = f]
  BY DEF Grade, IInv, Good, Cycle, RoundFile
<1> HIDE DEF f
<1>2. Good(c')
  BY <1>1, RoundGood DEF IInv
<1> QED
  BY <1>2, StoredGood DEF Grade, IInv

\* --decision keeps the inductive invariant.
LEMMA DecideStep == ASSUME IInv, NEW d, Decide(d) PROVE IInv'
<1> DEFINE s == IF DeslopReady(c) THEN Resume(c) ELSE c
<1>1. Good(s)
  BY ResumeGood DEF IInv
<1>2. \/ RunCleanup(s, "decision")
      \/ /\ s.stage = "decision-pending" /\ c' = RecordDecision(s, d)
         /\ w' = w /\ head' = head /\ clean' = clean
  BY DEF Decide
<1> HIDE DEF s
<1>3. CASE RunCleanup(s, "decision")
  BY <1>1, <1>3, RunCleanupStep
<1>4. CASE /\ s.stage = "decision-pending" /\ c' = RecordDecision(s, d)
           /\ w' = w /\ head' = head /\ clean' = clean
  <2>1. Good(c')
    BY <1>1, <1>4, DecisionGood
  <2> QED
    BY <1>4, <2>1, StoredGood DEF IInv
<1> QED
  BY <1>2, <1>3, <1>4

\* A command that only saves the resumed document keeps the inductive invariant.
LEMMA SaveResumedStep == ASSUME IInv, SaveResumed PROVE IInv'
<1>1. Good(c') /\ w' = w /\ head' = head /\ clean' = clean
  BY ResumeGood DEF SaveResumed, IInv
<1> QED
  BY <1>1, StoredGood DEF IInv

\* --deslop-done keeps the inductive invariant.
LEMMA DeslopDoneStep == ASSUME IInv, DeslopDone PROVE IInv'
<1>1. Good(c') /\ w' = w /\ head' = head /\ clean' = clean
  BY ClosedGood DEF DeslopDone, IInv
<1> QED
  BY <1>1, StoredGood DEF IInv

\* --github-result keeps the inductive invariant.
LEMMA GithubResultStep == ASSUME IInv, GithubResult PROVE IInv'
<1> DEFINE h == c.heads.reviewed
           recorded(result) == [c EXCEPT !.github = [status |-> result, head |-> h]]
           open == [recorded("findings") EXCEPT
                      !.findings = [head |-> h, step |-> LastCompleted(c), rerun |-> TRUE],
                      !.validation.green = FALSE]
           due == SetStage(open, "fix-pending", NoAction)
<1>1. /\ Good(c) /\ c.stage = "review-green" /\ c \in Cycle
      /\ h \in Heads /\ Completed(c) # {}
  BY DEF GithubResult, IInv, Good, GreenWasReviewed
<1>2. ASSUME NEW result \in {"clean", "waived", "findings"}
      PROVE  Good(recorded(result))
  <2> DEFINE r == recorded(result)
  <2>1. r \in Cycle
    BY <1>1 DEF Cycle, Github
  <2>2. /\ r.stage = c.stage /\ r.pending = c.pending /\ r.progress = c.progress
        /\ r.findings = c.findings /\ r.convergence = c.convergence
        /\ r.heads = c.heads /\ r.deslop = c.deslop
    BY <1>1 DEF Cycle
  <2> HIDE DEF r
  <2>3. Good(r)
    BY <1>1, <2>1, <2>2, SameStageGood
  <2> QED
    BY <2>3 DEF r
<1>3. Good(RecordAcceptedFindingsHead(due, h))
  <2>1. LastCompleted(c) \in Steps
    BY <1>1, LastCompletedType
  <2>2. recorded("findings") \in Cycle
        /\ recorded("findings").convergence = c.convergence
        /\ recorded("findings").deslop = c.deslop
    BY <1>1 DEF Cycle, Github
  <2> HIDE DEF recorded
  <2>3. open \in Cycle /\ open.convergence = c.convergence /\ open.deslop = c.deslop
        /\ open.findings = [head |-> h, step |-> LastCompleted(c), rerun |-> TRUE]
    BY <1>1, <2>1, <2>2 DEF Cycle, Findings, Validation
  <2>4. open.findings # NoFindings
    BY <1>1, <2>3, HeadAssumption DEF NoFindings
  <2>5. FindingsRecorded(open)
    BY <1>1, <2>1, <2>3 DEF FindingsRecorded
  <2>6. c.convergence.status # "DECISION_REQUIRED"
        /\ c.deslop.status \notin {"done", "failed"}
    BY <1>1 DEF Good, BudgetStage, CleanupHeld
  <2> HIDE DEF open
  <2>7. Ready(open, "fix-pending")
    BY <2>3, <2>4, <2>5, <2>6 DEF Ready
  <2>8. IdleAction(NoAction) /\ "fix-pending" \in IdleStages
    BY ActIdle DEF ActionKinds, IdleStages, Stages
  <2>9. Good(due) /\ due.stage = "fix-pending"
    BY <2>7, <2>8, SetStageGood
  <2> HIDE DEF due
  <2> QED
    BY <1>1, <2>9, AcceptedGood
<1>4. /\ \E result \in {"clean", "waived", "findings"} :
           c' = recorded(result) \/ c' = RecordAcceptedFindingsHead(due, h)
      /\ w' = w /\ head' = head /\ clean' = clean
  BY DEF GithubResult
<1> HIDE DEF recorded, due, h
<1>5. Good(c')
  BY <1>2, <1>3, <1>4
<1> QED
  BY <1>4, <1>5, StoredGood DEF IInv

\* --full-suite and --ci keep the inductive invariant.
LEMMA RecordGatesStep == ASSUME IInv, RecordGates PROVE IInv'
<1>1. PICK said \in [Gates -> Statuses \cup {"unsaid"}] :
        LET gates == [g \in Gates |-> IF said[g] = "unsaid"
                                     THEN c.validation.gates[g] ELSE said[g]]
        IN  c' = [c EXCEPT !.validation.gates = gates,
                           !.validation.note = WaiverNote(said, gates, @)]
  BY DEF RecordGates
<1> DEFINE gates == [g \in Gates |-> IF said[g] = "unsaid"
                                    THEN c.validation.gates[g] ELSE said[g]]
           note == WaiverNote(said, gates, c.validation.note)
<1>2. Good(c) /\ c \in Cycle
  BY DEF IInv, Good
<1>3. gates \in [Gates -> GateStatuses]
  BY <1>2 DEF Cycle, Validation, GateStatuses
<1>4. note \in BOOLEAN
  BY DEF WaiverNote, Waives
<1>5. c' = [c EXCEPT !.validation.gates = gates, !.validation.note = note]
  BY <1>1, <1>2 DEF Cycle, Validation
<1> HIDE DEF gates, note
<1>6. c' \in Cycle
  BY <1>2, <1>3, <1>4, <1>5 DEF Cycle, Validation
<1>7. /\ c'.stage = c.stage /\ c'.pending = c.pending /\ c'.progress = c.progress
      /\ c'.findings = c.findings /\ c'.convergence = c.convergence
      /\ c'.heads = c.heads /\ c'.deslop = c.deslop
  BY <1>2, <1>5 DEF Cycle
<1>8. Good(c')
  BY <1>2, <1>6, <1>7, SameStageGood
<1> QED
  BY <1>8, StoredGood DEF RecordGates, IInv

\* --contract-conflict keeps the inductive invariant.
LEMMA ContractConflictStep == ASSUME IInv, ContractConflict PROVE IInv'
<1>1. Good(c') /\ w' = w /\ head' = head /\ clean' = clean
  BY RequireGood DEF ContractConflict, IInv
<1> QED
  BY <1>1, StoredGood DEF IInv

\* --convergence-decision CONTINUE keeps the inductive invariant.
LEMMA ContinueStep == ASSUME IInv, Continue PROVE IInv'
<1> DEFINE s == [c EXCEPT !.convergence.status = "ACTIVE",
                          !.convergence.continueUsed = TRUE,
                          !.convergence.continuePending = TRUE]
           t == IF s.stage = "decision-required" /\ s.findings # NoFindings
                THEN SetStage(s, "fix-pending", NoAction) ELSE s
<1>1. CASE c' = Resume(c)
  BY <1>1, ResumeGood, StoredGood DEF Continue, IInv
<1>2. CASE /\ c.convergence.status = "DECISION_REQUIRED" /\ c' = Resume(t)
  <2>1. c \in Cycle /\ c.stage = "decision-required" /\ c.findings # NoFindings
        /\ c.deslop.status \notin {"done", "failed"} /\ FindingsRecorded(c)
    BY <1>2 DEF IInv, Good, BudgetStage, CleanupHeld, FixHasFindings
  <2>2. /\ s \in Cycle /\ s.convergence.status = "ACTIVE" /\ s.stage = c.stage
        /\ s.findings = c.findings /\ s.deslop = c.deslop
    BY <2>1 DEF Cycle, Convergence
  <2> HIDE DEF s
  <2>3. Ready(s, "fix-pending")
    BY <2>1, <2>2 DEF Ready, FindingsRecorded
  <2>4. IdleAction(NoAction) /\ "fix-pending" \in IdleStages
    BY ActIdle DEF ActionKinds, IdleStages, Stages
  <2>5. Good(t)
    BY <2>1, <2>2, <2>3, <2>4, SetStageGood
  <2> HIDE DEF t
  <2>6. Good(c')
    BY <1>2, <2>5, ResumeGood DEF IInv
  <2> QED
    BY <2>6, StoredGood DEF Continue, IInv
<1> QED
  BY <1>1, <1>2 DEF Continue

\* --convergence-decision REPLAN or RESLICE keeps the inductive invariant.
LEMMA ReplanOrResliceStep == ASSUME IInv, ReplanOrReslice PROVE IInv'
<1> DEFINE s == [c EXCEPT !.convergence.status = "DECIDED"]
<1>1. /\ s \in Cycle /\ s.convergence.status = "DECIDED" /\ s.findings = c.findings
      /\ s.deslop = c.deslop
  BY DEF IInv, Good, Cycle, Convergence
<1>2. c.deslop.status \notin {"done", "failed"} /\ FindingsRecorded(c)
  BY DEF ReplanOrReslice, IInv, Good, BudgetStage, CleanupHeld
<1> HIDE DEF s
<1>3. Ready(s, "convergence-decided")
  BY <1>1, <1>2 DEF Ready, FindingsRecorded
<1>4. IdleAction(NoAction) /\ "convergence-decided" \in IdleStages
  BY ActIdle DEF ActionKinds, IdleStages, Stages
<1>5. Good(SetStage(s, "convergence-decided", NoAction))
  BY <1>3, <1>4, SetStageGood
<1>6. Good(c')
  BY <1>5 DEF ReplanOrReslice, s
<1> QED
  BY <1>6, StoredGood DEF ReplanOrReslice, IInv

\* What the caller does in git keeps the inductive invariant.
LEMMA GitStep == ASSUME IInv, Git PROVE IInv'
<1>1. Good(c') /\ w' = w /\ head' \in Heads /\ clean' \in BOOLEAN
  BY DEF Git, Commit, Edit, Stash, IInv
<1> QED
  BY <1>1, StoredGood

\* Every step keeps the inductive invariant: one lemma per action.
LEMMA NextIInv == IInv /\ [Next]_vars => IInv'
<1> SUFFICES ASSUME IInv, [Next]_vars PROVE IInv'
  OBVIOUS
<1>1. CASE Advance
  BY <1>1, RerunStep, EndCleanupStep, ReviewersEndStep, FinishStep, RecoverArenaStep,
     GradeStep DEF Advance
<1>2. CASE Command
  BY <1>2, DecideStep, SaveResumedStep, DeslopDoneStep, GithubResultStep,
     RecordGatesStep, ContractConflictStep, ContinueStep, ReplanOrResliceStep
     DEF Command, DecideClean, DecideFindings
<1>3. CASE Git
  BY <1>3, GitStep
<1>4. CASE UNCHANGED vars
  BY <1>4 DEF vars, IInv
<1> QED
  BY <1>1, <1>2, <1>3, <1>4 DEF Next

\* In every behaviour of the handlers the document, the running invocation and the
\* checkout satisfy the inductive invariant.
THEOREM Invariance == Spec => []IInv
<1> QED
  BY InitIInv, NextIInv, PTL DEF Spec

-----------------------------------------------------------------------------
(* The invariants of the runs, for every plan, mode, history and limit      *)

\* The document, the invocation and the checkout keep their types.
THEOREM TypeCorrect == Spec => []TypeOK
<1>1. IInv => TypeOK
  BY DEF IInv, TypeOK, Good
<1> QED
  BY <1>1, Invariance, PTL

\* No round of the final signoff runs or is decided before the cleanup is over.
THEOREM CleanupFirst == Spec => []CleanupBeforeSignoff
<1>1. IInv => CleanupBeforeSignoff
  BY DEF IInv, Good, SignoffAfterCleanup, CleanupBeforeSignoff
<1> QED
  BY <1>1, Invariance, PTL

\* A cleanup that ended, well or badly, is always held where a command takes it up.
THEOREM CleanupKept == Spec => []CleanupNeverStrands
<1>1. IInv => CleanupNeverStrands
  BY DEF IInv, Good, CleanupHeld, CleanupNeverStrands
<1> QED
  BY <1>1, Invariance, PTL

-----------------------------------------------------------------------------
(* What a cycle may call reviewed                                          *)

\* within the budget, or past it by the one tree that CONTINUE grants
CountedTrees(v) ==
    /\ IsFiniteSet(v.trees)
    /\ v.continuePending => v.continueUsed
    /\ Cardinality(v.trees) <= AcceptedLimit + 1
    /\ Cardinality(v.trees) > AcceptedLimit => v.continueUsed /\ v.status # "ACTIVE"
    /\ Cardinality(v.trees) >= AcceptedLimit => v.status # "ACTIVE" \/ v.continueUsed

Behind(s) == \A i \in Completed(s) : i < s.progress.next

\* what a green document says of its signoff
Signed(s) ==
    /\ s.findings = NoFindings
    /\ Kind(N - 1) # "arena" => s.progress.completed[N - 1] = s.heads.reviewed
    /\ ~Deep => s.progress.completed[LastCompleted(s)] = s.heads.reviewed

VerdictFits(s, stage) ==
    GithubTerminal(s) => stage = "review-green" /\ s.github.head = s.heads.reviewed
                         /\ ~DeslopTracked(s)

FindingsAhead(s) ==
    Kind(N - 1) # "arena" /\ s.findings # NoFindings =>
        s.progress.next <= s.findings.step \/ s.findings.step = N - 1

\* what a document must be like to be in a stage
SoundFor(s, stage) ==
    /\ CountedTrees(s.convergence)
    /\ s.convergence.status = "DECIDED" <=> stage = "convergence-decided"
    /\ s.validation.green <=> stage = "review-green"
    /\ VerdictFits(s, stage)
    /\ FindingsAhead(s)
    /\ ~Deep => Behind(s) /\ stage # "followup-pending"
    /\ stage = "review-green" => Signed(s)

RoundFits(s) ==
    /\ s.pending.step # NoStep => s.pending.step = s.progress.next
    /\ s.stage = "decision-pending" =>
         /\ s.heads.reviewed = s.pending.head
         /\ ~Deep => s.pending.step # NoStep

Sound(s) == SoundFor(s, s.stage) /\ RoundFits(s)

LInv ==
    /\ Sound(c)
    /\ w.run \in {"deslop", "followup"} => Sound(w.state)
    /\ ~Idle => c.stage # "decision-required"

-----------------------------------------------------------------------------
(* Parts of a document that Sound depends on                               *)

SameParts(s, t) ==
    /\ t.convergence = s.convergence /\ t.validation.green = s.validation.green
    /\ t.github = s.github /\ t.deslop.status = s.deslop.status
    /\ t.findings = s.findings /\ t.progress = s.progress
    /\ t.heads.reviewed = s.heads.reviewed

\* Whether a document may be in a stage is told from those parts alone.
LEMMA SamePartsSound ==
  ASSUME NEW s, NEW t, NEW stage, SameParts(s, t), SoundFor(s, stage)
  PROVE  SoundFor(t, stage)
<1>1. Completed(t) = Completed(s)
  BY DEF SameParts, Completed
<1>2. LastCompleted(t) = LastCompleted(s)
  BY <1>1 DEF LastCompleted
<1> QED
  BY <1>1, <1>2 DEF SameParts, SoundFor, VerdictFits, FindingsAhead, Behind, Signed,
       GithubTerminal, DeslopTracked

\* A document with the same parts, stage and pending round is as sound.
LEMMA StaysSound ==
  ASSUME NEW s, NEW t, SameParts(s, t), t.stage = s.stage, t.pending = s.pending, Sound(s)
  PROVE  Sound(t)
<1>1. SoundFor(t, t.stage)
  BY SamePartsSound DEF Sound
<1>2. RoundFits(t)
  BY DEF RoundFits, SameParts, Sound
<1> QED
  BY <1>1, <1>2 DEF Sound

\* Moving a document to a stage without a pending round makes it sound, if it may be in
\* that stage.
LEMMA SetStageSound ==
  ASSUME NEW s \in Cycle, NEW stage \in IdleStages, NEW a, IdleAction(a), SoundFor(s, stage)
  PROVE  Sound(SetStage(s, stage, a))
<1> DEFINE r == SetStage(s, stage, a)
<1>1. r.stage = stage /\ r.pending = a /\ SameParts(s, r)
  BY DEF SetStage, Cycle, SameParts
<1> HIDE DEF r
<1>2. SoundFor(r, stage)
  BY <1>1, SamePartsSound
<1>3. RoundFits(r)
  BY <1>1 DEF RoundFits, IdleAction, IdleStages
<1> QED
  BY <1>1, <1>2, <1>3 DEF Sound, r

\* SetStage leaves a document a document, and the parts it does not name alone.
LEMMA SetStageType ==
  ASSUME NEW s \in Cycle, NEW stage \in Stages, NEW a \in Pending
  PROVE  LET r == SetStage(s, stage, a) IN
         /\ r \in Cycle /\ r.stage = stage /\ r.pending = a
         /\ r.convergence = s.convergence /\ r.findings = s.findings
         /\ r.heads = s.heads /\ r.progress = s.progress /\ r.round = NoRound
<1>1. NoRound \in RoundFile
  BY DEF NoRound, RoundFile
<1> QED
  BY <1>1 DEF SetStage, Cycle

\* Accepting findings on one more tree counts it, and stops the cycle when it is one
\* too many.
LEMMA OneTreeMore ==
  ASSUME NEW v \in Convergence, CountedTrees(v), v.status = "ACTIVE", NEW t, t \notin v.trees,
         NEW u \in Convergence, u.trees = v.trees \cup {t}, ~u.continuePending,
         u.continueUsed = v.continueUsed,
         u.status = IF v.continuePending \/ Cardinality(u.trees) >= AcceptedLimit
                    THEN "DECISION_REQUIRED" ELSE "ACTIVE"
  PROVE  CountedTrees(u)
<1>1. /\ IsFiniteSet(v.trees) /\ IsFiniteSet(u.trees)
      /\ Cardinality(u.trees) = Cardinality(v.trees) + 1 /\ Cardinality(v.trees) \in Nat
  BY FS_AddElement, FS_CardinalityType DEF CountedTrees
<1>2. Cardinality(v.trees) <= AcceptedLimit
  BY <1>1, LimitAssumption DEF CountedTrees
<1>3. Cardinality(u.trees) > AcceptedLimit => v.continueUsed
  BY <1>1, <1>2, LimitAssumption DEF CountedTrees
<1>4. Cardinality(u.trees) >= AcceptedLimit => u.status # "ACTIVE"
  OBVIOUS
<1>5. Cardinality(u.trees) > AcceptedLimit => Cardinality(u.trees) >= AcceptedLimit
  BY <1>1, LimitAssumption
<1>6. Cardinality(u.trees) <= AcceptedLimit + 1
  BY <1>1, <1>2, LimitAssumption
<1> QED
  BY <1>1, <1>3, <1>4, <1>5, <1>6 DEF CountedTrees

\* The budget is kept while findings are accepted.
LEMMA AcceptedSound ==
  ASSUME NEW s, Good(s), Sound(s), s.stage = "fix-pending", s.pending.step = NoStep,
         NEW h \in Heads
  PROVE  LET r == RecordAcceptedFindingsHead(s, h)
         IN  Sound(r) /\ r.pending.step = NoStep
<1> DEFINE trees   == s.convergence.trees \cup {Tree[h]}
           counted == [s EXCEPT !.convergence.trees = trees,
                                !.convergence.continuePending = FALSE]
           required == [counted EXCEPT !.convergence.status = "DECISION_REQUIRED"]
<1>1. /\ s \in Cycle /\ s.convergence \in Convergence /\ s.convergence.status = "ACTIVE"
      /\ CountedTrees(s.convergence)
  BY DEF Good, BudgetStage, Sound, SoundFor, Cycle, Convergence
<1>2. trees \in SUBSET {Tree[x] : x \in Heads}
  BY <1>1 DEF Convergence
<1>3. ASSUME Tree[h] \in s.convergence.trees
      PROVE  RecordAcceptedFindingsHead(s, h) = s
  BY <1>3 DEF RecordAcceptedFindingsHead
<1> HIDE DEF trees
<1>4. /\ counted \in Cycle /\ required \in Cycle
      /\ counted.convergence \in Convergence /\ required.convergence \in Convergence
      /\ counted.convergence.trees = trees /\ required.convergence.trees = trees
      /\ ~counted.convergence.continuePending /\ ~required.convergence.continuePending
      /\ counted.convergence.continueUsed = s.convergence.continueUsed
      /\ required.convergence.continueUsed = s.convergence.continueUsed
      /\ counted.convergence.status = "ACTIVE"
      /\ required.convergence.status = "DECISION_REQUIRED"
  BY <1>1, <1>2 DEF Cycle, Convergence
<1>5. \A r \in {counted, required} :
        /\ r.stage = s.stage /\ r.pending = s.pending /\ r.validation = s.validation
        /\ r.progress = s.progress /\ r.findings = s.findings /\ r.github = s.github
        /\ r.heads = s.heads /\ r.deslop = s.deslop
  BY <1>1 DEF Cycle
<1> HIDE DEF counted, required
<1> DEFINE stop == s.convergence.continuePending \/ Cardinality(trees) >= AcceptedLimit
<1>6. Tree[h] \notin s.convergence.trees =>
        /\ RecordAcceptedFindingsHead(s, h)
             = IF stop THEN RequireConvergenceDecision(counted) ELSE counted
        /\ RequireConvergenceDecision(counted)
             = SetStage(required, "decision-required", Act("convergence-decision"))
  BY <1>4 DEF RecordAcceptedFindingsHead, RequireConvergenceDecision, counted, required, trees
<1>7. ASSUME Tree[h] \notin s.convergence.trees
      PROVE  /\ ~stop => CountedTrees(counted.convergence)
             /\ stop => CountedTrees(required.convergence)
  <2>1. trees = s.convergence.trees \cup {Tree[h]}
    BY DEF trees
  <2> QED
    BY <1>1, <1>4, <1>7, <2>1, OneTreeMore
<1>8. ASSUME NEW r \in {counted, required}, NEW stage \in {"fix-pending", "decision-required"},
             CountedTrees(r.convergence), r.convergence.status # "DECIDED"
      PROVE  SoundFor(r, stage)
  <2>1. r.validation.green = s.validation.green /\ ~s.validation.green
        /\ ~GithubTerminal(s) /\ r.github = s.github
        /\ r.progress = s.progress /\ r.findings = s.findings
    BY <1>5, <1>8 DEF Sound, SoundFor, VerdictFits
  <2>2. ~GithubTerminal(r) /\ Completed(r) = Completed(s)
    BY <2>1 DEF GithubTerminal, Completed
  <2> QED
    BY <1>8, <2>1, <2>2 DEF Sound, SoundFor, VerdictFits, FindingsAhead, Behind
<1>9. CASE Tree[h] \in s.convergence.trees
  BY <1>3, <1>9
<1>10. CASE Tree[h] \notin s.convergence.trees /\ ~stop
  <2>1. SoundFor(counted, "fix-pending")
    BY <1>4, <1>7, <1>8, <1>10
  <2>2. Sound(counted)
    BY <1>5, <2>1 DEF Sound, RoundFits
  <2> QED
    BY <1>5, <1>6, <1>10, <2>2
<1>11. CASE Tree[h] \notin s.convergence.trees /\ stop
  <2>1. SoundFor(required, "decision-required")
    BY <1>4, <1>7, <1>8, <1>11
  <2>2. IdleAction(Act("convergence-decision")) /\ "decision-required" \in IdleStages
    BY ActIdle DEF ActionKinds, IdleStages, Stages
  <2>3. /\ Sound(SetStage(required, "decision-required", Act("convergence-decision")))
        /\ SetStage(required, "decision-required", Act("convergence-decision")).pending.step
             = NoStep
    BY <1>4, <2>1, <2>2, SetStageSound DEF SetStage, IdleAction, Cycle
  <2> QED
    BY <1>6, <1>11, <2>3
<1> QED
  BY <1>9, <1>10, <1>11

-----------------------------------------------------------------------------
(* Decisions and fixes                                                     *)

\* Asking for the fix of open findings changes nothing that Sound depends on.
LEMMA WithFixSound ==
  ASSUME NEW s \in Cycle, Sound(s), s.stage \in {"fix-pending", "decision-required"}
  PROVE  Sound(WithFixAction(s))
<1> DEFINE r == WithFixAction(s)
<1>1. /\ r.stage = s.stage /\ r.pending = Act("fix-findings") /\ SameParts(s, r)
  BY DEF WithFixAction, Cycle, SameParts
<1>2. IdleAction(Act("fix-findings"))
  BY ActIdle DEF ActionKinds
<1> HIDE DEF r
<1>3. SoundFor(r, r.stage)
  BY <1>1, SamePartsSound DEF Sound
<1>4. RoundFits(r)
  BY <1>1, <1>2 DEF RoundFits, IdleAction
<1> QED
  BY <1>3, <1>4 DEF Sound, r

\* Findings that were opened wait for their fix, or for the caller once there are too many.
LEMMA OpenedSound ==
  ASSUME NEW s \in Cycle, NEW h \in Heads, NEW i \in Steps, NEW rerun \in BOOLEAN,
         s.convergence.status = "ACTIVE", s.deslop.status \notin {"done", "failed"},
         s.findings = [head |-> h, step |-> i, rerun |-> rerun],
         SoundFor(s, "fix-pending")
  PROVE  LET due == RecordAcceptedFindingsHead(SetStage(s, "fix-pending", NoAction), h)
         IN  Sound(due) /\ Sound(WithFixAction(due))
<1>1. s.findings # NoFindings
  BY HeadAssumption DEF NoFindings
<1>2. Ready(s, "fix-pending")
  BY <1>1 DEF Ready, FindingsRecorded
<1>3. IdleAction(NoAction) /\ "fix-pending" \in IdleStages /\ NoAction.step = NoStep
  BY ActIdle DEF ActionKinds, IdleStages, Stages, NoAction
<1> DEFINE t == SetStage(s, "fix-pending", NoAction)
           u == RecordAcceptedFindingsHead(t, h)
<1>4. Good(t) /\ t.stage = "fix-pending" /\ Sound(t) /\ t.pending = NoAction
  <2>1. t.pending = NoAction
    BY DEF SetStage, Cycle
  <2> QED
    BY <1>2, <1>3, <2>1, SetStageGood, SetStageSound
<1> HIDE DEF t
<1>5. /\ Good(u) /\ u.stage \in {"fix-pending", "decision-required"} /\ Sound(u)
  BY <1>3, <1>4, AcceptedGood, AcceptedSound
<1> HIDE DEF u
<1>6. Sound(WithFixAction(u))
  BY <1>5, WithFixSound DEF Good
<1> QED
  BY <1>5, <1>6 DEF t, u

\* A round that awaits its decision is neither stopped nor green, and no verdict of GitHub
\* is kept beside it.
LEMMA Deciding ==
  ASSUME NEW s, Good(s), Sound(s), s.stage = "decision-pending"
  PROVE  /\ s \in Cycle /\ s.convergence.status = "ACTIVE" /\ ~s.validation.green
         /\ ~GithubTerminal(s) /\ s.deslop.status \notin {"done", "failed"}
         /\ s.pending.head \in Heads /\ s.heads.reviewed = s.pending.head
         /\ CountedTrees(s.convergence) /\ FindingsAhead(s) /\ (~Deep => Behind(s))
  BY DEF Good, BudgetStage, RoundNamed, CleanupHeld, Sound, SoundFor, RoundFits, VerdictFits,
         Cycle, Convergence

\* --decision findings on a profile round: the step with findings is the next one.
LEMMA FindingsDecisionSound ==
  ASSUME NEW s, Good(s), Sound(s), s.stage = "decision-pending", s.pending.step # NoStep
  PROVE  Sound(RecordFindingsDecision(s))
<1> DEFINE h == s.pending.head
           i == s.pending.step
           open == [s EXCEPT !.heads.reviewed = h,
                             !.findings = [head |-> h, step |-> i, rerun |-> FALSE],
                             !.validation.green = FALSE]
<1>1. s \in Cycle /\ h \in Heads /\ i \in Steps /\ i = s.progress.next
  BY DEF Good, RoundNamed, Cycle, Pending, Sound, RoundFits
<1>2. open \in Cycle
  BY <1>1 DEF Cycle, ReviewHeads, Findings, Validation
<1>3. /\ open.convergence = s.convergence /\ open.deslop = s.deslop
      /\ open.findings = [head |-> h, step |-> i, rerun |-> FALSE]
      /\ ~open.validation.green /\ open.github = s.github /\ open.progress = s.progress
  BY <1>1 DEF Cycle, Validation
<1> HIDE DEF open
<1>4. SoundFor(open, "fix-pending")
  <2>1. ~GithubTerminal(open) /\ Completed(open) = Completed(s)
    BY <1>3, Deciding DEF GithubTerminal, Completed
  <2>2. FindingsAhead(open)
    <3>1. open.progress.next <= open.findings.step
      BY <1>1, <1>3, NType
    <3> QED
      BY <3>1 DEF FindingsAhead
  <2> QED
    BY <1>3, <2>1, <2>2, Deciding DEF SoundFor, VerdictFits, Behind
<1>5. Sound(WithFixAction(RecordAcceptedFindingsHead(
                 SetStage(open, "fix-pending", NoAction), h)))
  BY <1>1, <1>2, <1>3, <1>4, OpenedSound, Deciding
<1> QED
  BY <1>5 DEF RecordFindingsDecision, open

\* --decision findings on a follow-up round: the step with findings stays the same.
LEMMA FollowupFindingsSound ==
  ASSUME NEW s, Good(s), Sound(s), s.stage = "decision-pending", s.pending.step = NoStep
  PROVE  Sound(RecordFollowupFindings(s))
<1> DEFINE h == s.pending.head
           i == s.findings.step
           open == [s EXCEPT !.heads.followup = h,
                             !.findings = [head |-> h, step |-> i, rerun |-> FALSE],
                             !.validation.green = FALSE]
<1>1. s \in Cycle /\ h \in Heads /\ i \in Steps /\ s.findings # NoFindings
  BY DEF Good, RoundNamed, FindingsRecorded
<1>2. open \in Cycle
  BY <1>1 DEF Cycle, ReviewHeads, Findings, Validation
<1>3. /\ open.convergence = s.convergence /\ open.deslop = s.deslop
      /\ open.findings = [head |-> h, step |-> i, rerun |-> FALSE]
      /\ ~open.validation.green /\ open.github = s.github /\ open.progress = s.progress
  BY <1>1 DEF Cycle, Validation
<1> HIDE DEF open
<1>4. SoundFor(open, "fix-pending")
  <2>1. ~GithubTerminal(open) /\ Completed(open) = Completed(s)
    BY <1>3, Deciding DEF GithubTerminal, Completed
  <2>2. FindingsAhead(open)
    BY <1>1, <1>3, Deciding DEF FindingsAhead
  <2> QED
    BY <1>3, <2>1, <2>2, Deciding DEF SoundFor, VerdictFits, Behind
<1>5. Sound(WithFixAction(RecordAcceptedFindingsHead(
                 SetStage(open, "fix-pending", NoAction), h)))
  BY <1>1, <1>2, <1>3, <1>4, OpenedSound, Deciding
<1> QED
  BY <1>5 DEF RecordFollowupFindings, open

\* A clean step skips past the plan only if nothing but skippable steps is left: never
\* past a signoff or review.
LEMMA SkipsNoSignoff ==
  ASSUME NEW i \in Steps, Kind(N - 1) # "arena", i # N - 1
  PROVE  SkipTarget(i) <= N - 1
<1> DEFINE leaves == {j \in Steps :
                     /\ j > i
                     /\ \/ Kind(i) = "arena" /\ (Kind(j) # "arena" \/ Pool(j) # Pool(i))
                        \/ Kind(i) = "discovery" /\ Kind(j) = "signoff"}
<1>1. CASE leaves = {}
  <2>1. Kind(i) # "arena"
    <3>1. N - 1 \in Steps /\ N - 1 > i
      BY NType
    <3> QED
      BY <1>1, <3>1
  <2>2. SkipTarget(i) = i + 1
    BY <1>1, <2>1 DEF SkipTarget
  <2> QED
    BY <2>2, NType
<1>2. CASE leaves # {}
  <2>1. \E j \in leaves : \A k \in leaves : j <= k
    <3>1. leaves \subseteq Nat
      BY NType
    <3> QED
      BY <1>2, <3>1, SmallestExists
  <2>2. SkipTarget(i) = CHOOSE j \in leaves : \A k \in leaves : j <= k
    BY <1>2 DEF SkipTarget
  <2> HIDE DEF leaves
  <2>3. (CHOOSE j \in leaves : \A k \in leaves : j <= k) \in leaves
    BY <2>1
  <2>4. SkipTarget(i) \in Steps
    BY <2>2, <2>3 DEF leaves
  <2> QED
    BY <2>4, NType
<1> QED
  BY <1>1, <1>2

\* The newest completed step is the one that no completed step comes after.
LEMMA LastIs ==
  ASSUME NEW s, NEW i \in Completed(s), \A j \in Completed(s) : j <= i
  PROVE  LastCompleted(s) = i
<1>1. /\ LastCompleted(s) \in Completed(s)
      /\ \A j \in Completed(s) : j <= LastCompleted(s)
  BY DEF LastCompleted
<1>2. \A j \in Completed(s) : j \in Int
  BY NType DEF Completed
<1>3. LastCompleted(s) <= i /\ i <= LastCompleted(s)
  BY <1>1
<1> QED
  BY <1>1, <1>2, <1>3

\* A completed step leads to the next one, or to green when its signoff is complete.
LEMMA AdvanceOrGreenSound ==
  ASSUME NEW s \in Cycle, CountedTrees(s.convergence), s.convergence.status = "ACTIVE",
         ~GithubTerminal(s), s.findings = NoFindings, ~Deep => Behind(s),
         s.progress.next = N => Signed(s)
  PROVE  Sound(AdvanceOrGreen(s))
<1> DEFINE t(green) == [s EXCEPT !.validation.green = green]
<1>1. ASSUME NEW green \in BOOLEAN, NEW stage,
             stage = IF green THEN "review-green" ELSE "created",
             green => s.progress.next = N
      PROVE  t(green) \in Cycle /\ SoundFor(t(green), stage)
  <2>1. t(green) \in Cycle
    BY DEF Cycle, Validation
  <2>2. /\ t(green).findings = s.findings /\ t(green).heads = s.heads
        /\ t(green).convergence = s.convergence /\ t(green).deslop = s.deslop
        /\ t(green).progress = s.progress /\ t(green).github = s.github
        /\ t(green).validation.green = green
    BY DEF Cycle, Validation
  <2> HIDE DEF t
  <2>3. ~GithubTerminal(t(green)) /\ Completed(t(green)) = Completed(s)
    BY <2>2 DEF GithubTerminal, Completed
  <2>4. LastCompleted(t(green)) = LastCompleted(s)
    BY <2>3 DEF LastCompleted
  <2>5. stage = "review-green" => Signed(t(green))
    BY <1>1, <2>2, <2>4 DEF Signed
  <2> QED
    BY <1>1, <2>1, <2>2, <2>3, <2>5 DEF SoundFor, VerdictFits, FindingsAhead, Behind
<1>2. /\ IdleAction(NoAction) /\ IdleAction(Act("run-review-step"))
      /\ "created" \in IdleStages /\ "review-green" \in IdleStages
  BY ActIdle DEF ActionKinds, IdleStages, Stages
<1>3. ~HasNextStep(s) => s.progress.next = N
  BY NType DEF HasNextStep, Cycle, Progress
<1>4. HasNextStep(s) => Sound(SetStage(t(FALSE), "created", Act("run-review-step")))
  <2> HIDE DEF t
  <2> QED
    BY <1>1, <1>2, SetStageSound
<1>5. ~HasNextStep(s) => Sound(SetStage(t(TRUE), "review-green", NoAction))
  <2> HIDE DEF t
  <2> QED
    BY <1>1, <1>2, <1>3, SetStageSound
<1> QED
  BY <1>4, <1>5 DEF AdvanceOrGreen

\* --decision clean on a profile round completes it, and is green only when the round was
\* the signoff or nothing comes after its pool.
LEMMA CleanDecisionSound ==
  ASSUME NEW s, Good(s), Sound(s), s.stage = "decision-pending", s.pending.step # NoStep,
         s.findings = NoFindings
  PROVE  Sound(RecordCleanDecision(s))
<1> DEFINE h == s.pending.head
           i == s.pending.step
           decided == [s EXCEPT !.heads.reviewed = h,
                                !.convergence.continuePending = FALSE]
           done == CompleteStep(decided, i, h)
           next == AdvanceAfterClean(done, i)
<1>1. s \in Cycle /\ h \in Heads /\ i \in Steps /\ i = s.progress.next
  BY DEF Good, RoundNamed, Cycle, Pending, Sound, RoundFits
<1>2. decided \in Cycle
  BY <1>1 DEF Cycle, ReviewHeads, Convergence
<1>3. /\ decided.findings = NoFindings /\ decided.heads.reviewed = h
      /\ decided.convergence.status = "ACTIVE" /\ CountedTrees(decided.convergence)
      /\ decided.deslop = s.deslop /\ decided.github = s.github
      /\ decided.progress = s.progress
  <2>1. /\ decided.convergence.status = s.convergence.status
        /\ decided.convergence.trees = s.convergence.trees
        /\ decided.convergence.continueUsed = s.convergence.continueUsed
        /\ decided.convergence.continuePending = FALSE
        /\ decided.heads.reviewed = h
        /\ decided.deslop = s.deslop /\ decided.github = s.github
        /\ decided.progress = s.progress /\ decided.findings = s.findings
    BY <1>1 DEF Cycle, ReviewHeads, Convergence
  <2> HIDE DEF decided
  <2> QED
    BY <2>1, Deciding DEF CountedTrees
<1> HIDE DEF h, i, decided
<1>4. done \in Cycle /\ Kept(decided, done) /\ done.github = s.github
  BY <1>1, <1>2, <1>3, CompleteType, ProgressKept DEF CompleteStep, Cycle
<1>5. /\ done.progress.next = i + 1 /\ done.progress.completed[i] = h
      /\ \A j \in Steps : j # i => done.progress.completed[j] = s.progress.completed[j]
  <2>1. done.progress = [next |-> Larger(s.progress.next, i + 1),
                         completed |-> [s.progress.completed EXCEPT ![i] = h]]
    BY <1>2, <1>3 DEF CompleteStep, Cycle
  <2>2. Larger(s.progress.next, i + 1) = i + 1
    BY <1>1, NType DEF Larger
  <2> QED
    <3>1. s.progress.completed \in [Steps -> MaybeHead]
      BY <1>1 DEF Cycle, Progress
    <3>2. /\ done.progress.completed = [s.progress.completed EXCEPT ![i] = h]
          /\ done.progress.next = i + 1
      BY <2>1, <2>2
    <3> QED
      BY <1>1, <3>1, <3>2
<1> HIDE DEF done
<1>6. /\ next \in Cycle /\ Kept(done, next) /\ next.github = s.github
      /\ next.progress.completed = done.progress.completed
      /\ next.progress.next = Larger(i + 1, SkipTarget(i))
  BY <1>1, <1>4, <1>5, AdvanceType, ProgressKept DEF AdvanceAfterClean, Cycle, Progress
<1> HIDE DEF next
<1>7. SkipTarget(i) \in 0 .. N
  BY <1>1, SkipTargetType
<1>8. Completed(next) \subseteq Completed(s) \cup {i} /\ i \in Completed(next)
  BY <1>1, <1>5, <1>6, HeadAssumption DEF Completed
<1>9. ~Deep => Behind(next) /\ LastCompleted(next) = i
  <2> SUFFICES ASSUME ~Deep PROVE Behind(next) /\ LastCompleted(next) = i
    OBVIOUS
  <2>1. \A j \in Completed(next) : j \in Int /\ j <= i
    BY <1>1, <1>8, Deciding, NType DEF Behind, Completed
  <2>2. i + 1 <= next.progress.next /\ next.progress.next \in Int
    BY <1>1, <1>6, <1>7, NType DEF Larger
  <2> QED
    BY <1>1, <1>8, <2>1, <2>2, LastIs, NType DEF Behind
<1>10. next.progress.next = N /\ Kind(N - 1) # "arena" => i = N - 1
  BY <1>1, <1>6, <1>7, SkipsNoSignoff, NType DEF Larger
<1>11. next.heads.reviewed = h /\ next.findings = NoFindings
  BY <1>3, <1>4, <1>6 DEF Kept
<1>12. next.progress.next = N => Signed(next)
  BY <1>5, <1>6, <1>9, <1>10, <1>11 DEF Signed
<1>13. ~GithubTerminal(next)
  BY <1>6, Deciding DEF GithubTerminal
<1>14. CountedTrees(next.convergence) /\ next.convergence.status = "ACTIVE"
  BY <1>3, <1>4, <1>6 DEF Kept
<1>15. Sound(AdvanceOrGreen(next))
  BY <1>6, <1>9, <1>11, <1>12, <1>13, <1>14, AdvanceOrGreenSound
<1> QED
  BY <1>15 DEF RecordCleanDecision, next, done, decided, h, i

\* Rewinding to a step leaves the completed steps behind it.
LEMMA Rewound ==
  ASSUME NEW s \in Cycle, NEW i \in Steps
  PROVE  /\ RewindStep(s, i).progress.next = i /\ Behind(RewindStep(s, i))
         /\ RewindStep(s, i).validation = s.validation
         /\ RewindStep(s, i).github = s.github
<1> DEFINE r == RewindStep(s, i)
<1>1. /\ r.progress = [next |-> i, completed |-> [j \in Steps |->
              IF j < i THEN s.progress.completed[j] ELSE None]]
      /\ r.validation = s.validation /\ r.github = s.github
  BY DEF RewindStep, Cycle
<1> HIDE DEF r
<1>2. \A j \in Completed(r) : j < i
  BY <1>1 DEF Completed
<1> QED
  BY <1>1, <1>2 DEF Behind, r

\* Completing a step leaves the completed steps behind the next one.
LEMMA StepCompleted ==
  ASSUME NEW s \in Cycle, NEW i \in Steps, NEW h \in Heads
  PROVE  LET r == CompleteStep(s, i, h) IN
         /\ r.progress.next = Larger(s.progress.next, i + 1)
         /\ r.progress.completed[i] = h
         /\ Behind(s) => Behind(r)
         /\ r.validation = s.validation /\ r.github = s.github
<1> DEFINE r == CompleteStep(s, i, h)
<1>1. /\ r.progress = [next |-> Larger(s.progress.next, i + 1),
                       completed |-> [s.progress.completed EXCEPT ![i] = h]]
      /\ r.validation = s.validation /\ r.github = s.github
  BY DEF CompleteStep, Cycle
<1> HIDE DEF r
<1>2. /\ r.progress.completed[i] = h
      /\ \A j \in Steps : j # i => r.progress.completed[j] = s.progress.completed[j]
  <2>1. s.progress.completed \in [Steps -> MaybeHead]
    BY DEF Cycle, Progress
  <2>2. r.progress.completed = [s.progress.completed EXCEPT ![i] = h]
    BY <1>1
  <2> QED
    BY <2>1, <2>2
<1>3. Behind(s) => Behind(r)
  <2>1. s.progress.next \in Int
    BY NType DEF Cycle, Progress
  <2>2. s.progress.next <= r.progress.next /\ i + 1 <= r.progress.next
        /\ r.progress.next \in Int
    BY <1>1, <2>1, NType DEF Larger
  <2>3. Completed(r) \subseteq Completed(s) \cup {i}
    BY <1>2 DEF Completed
  <2>4. \A j \in Completed(r) : j \in Int
    BY NType DEF Completed
  <2> QED
    BY <2>1, <2>2, <2>3, <2>4, NType DEF Behind
<1> QED
  BY <1>1, <1>2, <1>3 DEF r

\* --decision clean on a follow-up round closes the findings; their step is rewound or
\* completed, and green only when it was the signoff.
LEMMA FollowupCleanSound ==
  ASSUME NEW s, Good(s), Sound(s), s.stage = "decision-pending", s.pending.step = NoStep
  PROVE  Sound(RecordFollowupClean(s))
<1> DEFINE h == s.pending.head
           i == s.findings.step
           closed == [s EXCEPT !.heads.followup = h,
                               !.convergence.continuePending = FALSE,
                               !.findings = NoFindings]
           reset == [closed EXCEPT !.validation.green = FALSE]
           rewound == RewindStep(reset, i)
           done == CompleteStep(closed, i, h)
<1>1. /\ s \in Cycle /\ h \in Heads /\ i \in Steps /\ s.heads.reviewed = h /\ Deep
      /\ s.findings # NoFindings
  BY Deciding, ModeAssumption DEF Good, RoundNamed, FindingsRecorded, Sound, RoundFits
<1>2. closed \in Cycle
  BY <1>1 DEF Cycle, ReviewHeads, Convergence, Findings, NoFindings
<1>3. /\ closed.findings = NoFindings /\ closed.heads.reviewed = h
      /\ closed.convergence.status = "ACTIVE" /\ CountedTrees(closed.convergence)
      /\ closed.deslop = s.deslop /\ closed.github = s.github
      /\ closed.progress = s.progress
  <2>1. /\ closed.convergence.status = s.convergence.status
        /\ closed.convergence.trees = s.convergence.trees
        /\ closed.convergence.continueUsed = s.convergence.continueUsed
        /\ closed.convergence.continuePending = FALSE
        /\ closed.heads.reviewed = s.heads.reviewed
        /\ closed.deslop = s.deslop /\ closed.github = s.github
        /\ closed.progress = s.progress /\ closed.findings = NoFindings
    BY <1>1 DEF Cycle, ReviewHeads, Convergence
  <2> HIDE DEF closed
  <2> QED
    BY <1>1, <2>1, Deciding DEF CountedTrees
<1>4. s.progress.next <= i \/ i = N - 1 \/ Kind(N - 1) = "arena"
  BY <1>1, Deciding DEF FindingsAhead
<1> HIDE DEF h, i, closed
<1>5. /\ reset \in Cycle /\ reset.findings = NoFindings /\ ~reset.validation.green
      /\ reset.convergence = closed.convergence /\ reset.github = closed.github
  BY <1>2, <1>3 DEF Cycle, Validation
<1> HIDE DEF reset
<1>6. Sound(SetStage(rewound, "created", Act("run-review-step")))
  <2>1. /\ rewound \in Cycle /\ Kept(reset, rewound) /\ Behind(rewound)
        /\ rewound.validation = reset.validation /\ rewound.github = s.github
    BY <1>1, <1>3, <1>5, RewindType, ProgressKept, Rewound
  <2>2. ~GithubTerminal(rewound)
    BY <2>1, Deciding DEF GithubTerminal
  <2> HIDE DEF rewound
  <2>3. SoundFor(rewound, "created")
    BY <1>3, <1>5, <2>1, <2>2 DEF SoundFor, Kept, VerdictFits, FindingsAhead
  <2>4. IdleAction(Act("run-review-step")) /\ "created" \in IdleStages
    BY ActIdle DEF ActionKinds, IdleStages, Stages
  <2> QED
    BY <2>1, <2>3, <2>4, SetStageSound
<1>7. Sound(AdvanceOrGreen(done))
  <2>1. /\ done \in Cycle /\ Kept(closed, done)
        /\ done.progress.next = Larger(s.progress.next, i + 1)
        /\ done.progress.completed[i] = h /\ done.github = s.github
    BY <1>1, <1>2, <1>3, CompleteType, ProgressKept, StepCompleted
  <2>2. ~GithubTerminal(done)
    BY <2>1, Deciding DEF GithubTerminal
  <2> HIDE DEF done
  <2>3. done.progress.next = N /\ Kind(N - 1) # "arena" => i = N - 1
    BY <1>1, <1>4, <2>1, NType DEF Larger, Cycle, Progress
  <2>4. done.progress.next = N => Signed(done)
    BY <1>1, <1>3, <2>1, <2>3 DEF Signed, Kept
  <2> QED
    BY <1>1, <1>3, <2>1, <2>2, <2>4, AdvanceOrGreenSound DEF Kept
<1> QED
  BY <1>6, <1>7 DEF RecordFollowupClean, rewound, reset, done, closed, h, i

\* Every decision that is not refused keeps the document sound.
LEMMA DecisionSound ==
  ASSUME NEW s, Good(s), Sound(s), s.stage = "decision-pending", NEW d,
         ~DecisionRefused(s, d)
  PROVE  Sound(RecordDecision(s, d))
  BY FindingsDecisionSound, FollowupFindingsSound, CleanDecisionSound, FollowupCleanSound
     DEF RecordDecision, IsFollowup, DecisionRefused

\* Sending a fix to the review of its step keeps the document sound.
LEMMA FixReviewSound ==
  ASSUME NEW s \in Cycle, FindingsRecorded(s), s.findings # NoFindings,
         CountedTrees(s.convergence), s.convergence.status = "ACTIVE", ~GithubTerminal(s),
         ~Deep => Behind(s)
  PROVE  Sound(MarkProfileFixReviewNeeded(s))
<1> DEFINE f == s.findings
           closed == [s EXCEPT !.findings = NoFindings, !.validation.green = FALSE]
           again == IF FixedFindingsBudget(f.step)
                    THEN CompleteStep(closed, f.step, f.head)
                    ELSE RewindStep(closed, f.step)
           a == [Act("run-review-step") EXCEPT !.fix = f.head]
<1>1. f.head \in Heads /\ f.step \in Steps
  BY DEF FindingsRecorded
<1>2. /\ closed \in Cycle /\ closed.findings = NoFindings /\ ~closed.validation.green
      /\ closed.convergence = s.convergence /\ closed.github = s.github
      /\ closed.progress = s.progress
  BY DEF Cycle, Findings, NoFindings, Validation
<1> HIDE DEF closed
<1>3. /\ again \in Cycle /\ Kept(closed, again)
      /\ again.validation = closed.validation /\ again.github = s.github
  BY <1>1, <1>2, CompleteType, RewindType, ProgressKept, StepCompleted, Rewound
<1>4. ~Deep => Behind(again)
  <2>1. ~Deep => Behind(closed)
    BY <1>2 DEF Behind, Completed
  <2> QED
    BY <1>1, <1>2, <2>1, StepCompleted, Rewound
<1>5. IdleAction(a) /\ "created" \in IdleStages
  BY <1>1, ActIdle DEF ActionKinds, IdleStages, Stages
<1> HIDE DEF again, a
<1>6. ~GithubTerminal(again)
  BY <1>3 DEF GithubTerminal
<1>7. SoundFor(again, "created")
  BY <1>2, <1>3, <1>4, <1>6 DEF SoundFor, Kept, VerdictFits, FindingsAhead
<1>8. Sound(SetStage(again, "created", a))
  BY <1>3, <1>5, <1>7, SetStageSound
<1> QED
  BY <1>8 DEF MarkProfileFixReviewNeeded, again, closed, a

\* A commit that fixes open findings keeps the document sound, in deep mode and without it.
LEMMA FixDetectedSound ==
  ASSUME NEW s, FixDue(s), Sound(s), NEW h \in Heads
  PROVE  /\ Sound(MarkFixDetected(s, h))
         /\ MarkFixDetected(s, h).stage # "decision-pending"
<1> DEFINE fixed == [s EXCEPT !.heads.fix = h]
<1>1. CASE s.convergence.status = "DECISION_REQUIRED"
  BY <1>1 DEF MarkFixDetected, FixDue
<1>2. CASE s.convergence.status # "DECISION_REQUIRED"
  <2>1. /\ s.convergence.status = "ACTIVE" /\ s.stage = "fix-pending"
        /\ CountedTrees(s.convergence) /\ ~GithubTerminal(s) /\ (~Deep => Behind(s))
        /\ ~s.validation.green /\ FindingsAhead(s) /\ s \in Cycle /\ FindingsRecorded(s)
    BY <1>2 DEF FixDue, Good, BudgetStage, Sound, SoundFor, VerdictFits, Cycle, Convergence
  <2>2. /\ fixed \in Cycle /\ fixed.findings = s.findings /\ SameParts(s, fixed)
    BY <2>1 DEF Cycle, ReviewHeads, SameParts
  <2>3. IdleAction(Act("run-followup")) /\ "followup-pending" \in IdleStages
    BY ActIdle DEF ActionKinds, IdleStages, Stages
  <2> HIDE DEF fixed
  <2>4. ASSUME Deep
        PROVE  /\ Sound(SetStage(fixed, "followup-pending", Act("run-followup")))
               /\ SetStage(fixed, "followup-pending", Act("run-followup")).stage
                    = "followup-pending"
    <3>1. SoundFor(s, "followup-pending")
      BY <2>1, <2>4 DEF SoundFor, VerdictFits
    <3>2. SoundFor(fixed, "followup-pending")
      BY <2>2, <3>1, SamePartsSound
    <3> QED
      BY <2>2, <2>3, <3>2, SetStageSound DEF SetStage, Cycle
  <2>5. /\ Sound(MarkProfileFixReviewNeeded(fixed))
        /\ MarkProfileFixReviewNeeded(fixed).stage = "created"
    <3>1. /\ fixed \in Cycle /\ FindingsRecorded(fixed) /\ fixed.findings # NoFindings
          /\ fixed.convergence = s.convergence /\ fixed.github = s.github
          /\ fixed.progress = s.progress
      BY <2>1, <2>2 DEF SameParts, FixDue, FindingsRecorded
    <3>2. ~GithubTerminal(fixed) /\ (~Deep => Behind(fixed))
      BY <2>1, <3>1 DEF GithubTerminal, Behind, Completed
    <3>3. Sound(MarkProfileFixReviewNeeded(fixed))
      BY <2>1, <3>1, <3>2, FixReviewSound
    <3>4. MarkProfileFixReviewNeeded(fixed).stage = "created"
      <4> DEFINE f == fixed.findings
                 closed == [fixed EXCEPT !.findings = NoFindings, !.validation.green = FALSE]
                 again == IF FixedFindingsBudget(f.step)
                          THEN CompleteStep(closed, f.step, f.head)
                          ELSE RewindStep(closed, f.step)
      <4>1. closed \in Cycle /\ f.step \in Steps /\ f.head \in Heads
        BY <3>1 DEF Cycle, Findings, NoFindings, Validation, FindingsRecorded
      <4>2. again \in Cycle
        BY <4>1, CompleteType, RewindType
      <4> HIDE DEF again
      <4> QED
        BY <4>2 DEF MarkProfileFixReviewNeeded, SetStage, Cycle, again
    <3> QED
      BY <3>3, <3>4
  <2> QED
    BY <1>2, <2>4, <2>5 DEF MarkFixDetected, fixed
<1> QED
  BY <1>1, <1>2

\* A green document whose head moved goes back to its newest completed step, without the
\* verdict GitHub gave for the old head.
LEMMA RepeatSound ==
  ASSUME NEW s, Good(s), Sound(s), s.stage = "review-green", NEW h \in Heads,
         NEW g \in Github, g.status = "unknown"
  PROVE  LET r == MarkLatestProfileStepRerunNeeded(
                    [s EXCEPT !.heads.head = h, !.github = g], h)
         IN  Sound(r) /\ r.stage = "created"
<1> DEFINE t == [s EXCEPT !.heads.head = h, !.github = g]
           reset == [t EXCEPT !.heads.fix = h, !.validation = NewValidation]
           rewound == RewindStep(reset, LastCompleted(t))
<1>1. /\ t \in Cycle /\ t.findings = s.findings /\ t.progress = s.progress
      /\ t.convergence = s.convergence /\ t.github = g
  BY DEF Good, Cycle, ReviewHeads
<1> HIDE DEF t
<1>2. NewValidation \in Validation /\ ~NewValidation.green
  BY DEF NewValidation, Validation, GateStatuses
<1>3. /\ reset \in Cycle /\ reset.findings = s.findings
      /\ reset.convergence = s.convergence /\ reset.github = g /\ ~reset.validation.green
  BY <1>1, <1>2 DEF Cycle, ReviewHeads
<1> HIDE DEF reset
<1>4. LastCompleted(t) \in Steps
  BY <1>1, LastCompletedType DEF Completed, Good, GreenWasReviewed
<1>5. /\ rewound \in Cycle /\ Kept(reset, rewound) /\ Behind(rewound)
      /\ rewound.validation = reset.validation /\ rewound.github = g
  BY <1>3, <1>4, RewindType, ProgressKept, Rewound
<1> HIDE DEF rewound
<1>6. s.findings = NoFindings /\ CountedTrees(s.convergence) /\ s.convergence.status # "DECIDED"
  BY DEF Sound, SoundFor, Signed
<1>7. ~GithubTerminal(rewound)
  BY <1>5 DEF GithubTerminal
<1>8. SoundFor(rewound, "created")
  BY <1>3, <1>5, <1>6, <1>7 DEF SoundFor, Kept, VerdictFits, FindingsAhead
<1>9. IdleAction(Act("run-review-step")) /\ "created" \in IdleStages
  BY ActIdle DEF ActionKinds, IdleStages, Stages
<1>10. /\ Sound(SetStage(rewound, "created", Act("run-review-step")))
       /\ SetStage(rewound, "created", Act("run-review-step")).stage = "created"
  BY <1>5, <1>8, <1>9, SetStageSound DEF SetStage, Cycle
<1> QED
  BY <1>10 DEF MarkLatestProfileStepRerunNeeded, rewound, reset, t

-----------------------------------------------------------------------------
(* What an invocation does first                                           *)

\* Following HEAD keeps a document sound; outside green so does forgetting its validation.
LEMMA MovedSound ==
  ASSUME NEW s \in Cycle, Sound(s), NEW h \in Heads
  PROVE  /\ Sound([s EXCEPT !.heads.head = h])
         /\ s.stage # "review-green" =>
              Sound([s EXCEPT !.heads.head = h, !.validation = NewValidation])
<1> DEFINE moved == [s EXCEPT !.heads.head = h]
           reset == [s EXCEPT !.heads.head = h, !.validation = NewValidation]
<1>1. /\ moved.stage = s.stage /\ moved.pending = s.pending /\ SameParts(s, moved)
  BY DEF Cycle, ReviewHeads, SameParts
<1>2. ASSUME s.stage # "review-green"
      PROVE  /\ reset.stage = s.stage /\ reset.pending = s.pending /\ SameParts(s, reset)
  <2>1. s.validation.green = FALSE
    BY <1>2 DEF Sound, SoundFor, Cycle, Validation
  <2>2. NewValidation.green = FALSE
    BY DEF NewValidation
  <2> QED
    BY <2>1, <2>2 DEF Cycle, ReviewHeads, SameParts
<1> HIDE DEF moved, reset
<1>3. Sound(moved) /\ (s.stage # "review-green" => Sound(reset))
  BY <1>1, <1>2, StaysSound
<1> QED
  BY <1>3 DEF moved, reset

\* Closing the closure pass keeps a document sound.
LEMMA ClosedSound ==
  ASSUME NEW s \in Cycle, Sound(s), NEW reason \in BOOLEAN
  PROVE  Sound(MarkDeslopClosed(s, reason))
<1> DEFINE r == MarkDeslopClosed(s, reason)
<1>1. /\ r.stage = s.stage /\ r.pending = s.pending /\ r.progress = s.progress
      /\ r.findings = s.findings /\ r.convergence = s.convergence
      /\ r.heads = s.heads /\ r.validation = s.validation /\ r.github = s.github
      /\ r.deslop.status = "closed"
  BY DEF MarkDeslopClosed, Cycle, Deslop
<1> HIDE DEF r
<1>2. Completed(r) = Completed(s) /\ LastCompleted(r) = LastCompleted(s)
  BY <1>1 DEF Completed, LastCompleted
<1>3. VerdictFits(r, r.stage)
  BY <1>1 DEF Sound, SoundFor, VerdictFits, GithubTerminal, DeslopTracked
<1>4. SoundFor(r, r.stage)
  BY <1>1, <1>2, <1>3 DEF Sound, SoundFor, FindingsAhead, Behind, Signed
<1>5. RoundFits(r)
  BY <1>1 DEF Sound, RoundFits
<1> QED
  BY <1>4, <1>5 DEF Sound, r

\* _resume_progress keeps a document sound, and leaves a round to decide on only where one
\* was.
LEMMA ResumeSound ==
  ASSUME NEW s, Good(s), Sound(s), head \in Heads
  PROVE  /\ Sound(Resume(s))
         /\ Resume(s).stage = "decision-pending" =>
              /\ s.stage = "decision-pending"
              /\ Resume(s).pending = s.pending /\ Resume(s).findings = s.findings
<1>0. s \in Cycle
  BY DEF Good
<1>1. ASSUME s.stage = "created"
      PROVE  Sound(ResumeCreated(s)) /\ ResumeCreated(s).stage = "created"
  <2> DEFINE moved == [s EXCEPT !.heads.head = head, !.validation = NewValidation]
  <2>1. Good(moved) /\ Sound(moved) /\ moved.stage = "created"
    BY <1>0, <1>1, MovedGood, MovedSound
  <2> HIDE DEF moved
  <2>2. Sound(MarkDeslopClosed(moved, FALSE)) /\ MarkDeslopClosed(moved, FALSE).stage = "created"
    BY <2>1, ClosedSound, ClosedGood DEF Good
  <2> QED
    BY <1>1, <2>1, <2>2 DEF ResumeCreated, moved
<1>2. ASSUME s.stage = "decision-pending"
      PROVE  /\ Sound(ResumeDecision(s))
             /\ ResumeDecision(s).stage = "decision-pending" =>
                  /\ ResumeDecision(s).pending = s.pending
                  /\ ResumeDecision(s).findings = s.findings
  <2> DEFINE moved == [s EXCEPT !.heads.head = head]
  <2>1. Good(moved) /\ Sound(moved) /\ moved.stage = "decision-pending"
        /\ moved.pending = s.pending /\ moved.findings = s.findings
    BY <1>0, <1>2, MovedGood, MovedSound
  <2> HIDE DEF moved
  <2> DEFINE due == RecordDecision(moved, "findings")
  <2>2. FixDue(due) /\ Sound(due)
    BY <2>1, DecisionGood, DecisionSound DEF DecisionRefused
  <2> HIDE DEF due
  <2>3. Sound(MarkFixDetected(due, head)) /\ MarkFixDetected(due, head).stage # "decision-pending"
    BY <2>2, FixDetectedSound
  <2> QED
    BY <1>2, <2>1, <2>3 DEF ResumeDecision, moved, due
<1>3. ASSUME s.stage = "review-green"
      PROVE  Sound(ResumeGreen(s)) /\ ResumeGreen(s).stage # "decision-pending"
  <2>1. [status |-> "unknown", head |-> None] \in Github
    BY DEF Github
  <2> QED
    BY <1>3, <2>1, RepeatSound DEF ResumeGreen
<1>4. ASSUME s.stage = "fix-pending"
      PROVE  Sound(ResumeFix(s)) /\ ResumeFix(s).stage # "decision-pending"
  <2> DEFINE moved == IF clean THEN [s EXCEPT !.heads.head = head] ELSE s
  <2>1. Good(moved) /\ Sound(moved) /\ moved.stage = "fix-pending" /\ moved.findings = s.findings
    BY <1>0, <1>4, MovedGood, MovedSound
  <2> HIDE DEF moved
  <2>2. FixDue(moved)
    BY <2>1, <1>4 DEF FixDue, Good, FixHasFindings
  <2>3. /\ Sound(MarkFixDetected(moved, head)) /\ Sound(WithFixAction(moved))
        /\ MarkFixDetected(moved, head).stage # "decision-pending"
        /\ WithFixAction(moved).stage = "fix-pending"
    BY <2>1, <2>2, FixDetectedSound, WithFixSound, WithFixGood DEF Good
  <2> QED
    BY <2>3 DEF ResumeFix, moved
<1> QED
  BY <1>1, <1>2, <1>3, <1>4 DEF Resume

\* Retrying a blocked round keeps a document sound: its step is the next one, and a
\* follow-up is retried from step 0, which no finding is behind.
LEMMA RetrySound ==
  ASSUME NEW s, Good(s), Sound(s)
  PROVE  /\ Sound(RetryBlocked(s))
         /\ RetryBlocked(s).stage = "decision-pending" => RetryBlocked(s) = s
<1>1. CASE s.stage = "decision-pending" /\ s.round.blocked
  <2> DEFINE i == IF IsFollowup(s) THEN 0 ELSE s.pending.step
             t == [s EXCEPT !.progress.next = i]
             a == [Act("run-review-step") EXCEPT !.fix = s.pending.fix]
  <2>1. i \in 0 .. N /\ s.pending.fix \in MaybeHead
        /\ (~IsFollowup(s) => i = s.progress.next)
    BY NType DEF IsFollowup, Good, Cycle, Pending, Sound, RoundFits
  <2>2. ~Deep => ~IsFollowup(s)
    BY <1>1 DEF Sound, RoundFits, IsFollowup
  <2>3. IsFollowup(s) => i = 0
    OBVIOUS
  <2> HIDE DEF i
  <2>4. /\ t \in Cycle /\ t.findings = s.findings /\ t.convergence = s.convergence
        /\ t.validation = s.validation /\ t.github = s.github
        /\ t.progress.next = i /\ t.progress.completed = s.progress.completed
    BY <2>1 DEF Good, Cycle, Progress
  <2> HIDE DEF t
  <2>5. ~GithubTerminal(t) /\ Completed(t) = Completed(s)
    BY <1>1, <2>4, Deciding DEF GithubTerminal, Completed
  <2>6. FindingsAhead(t)
    <3>1. CASE IsFollowup(s)
      <4>1. s.findings.step \in Steps
        BY <1>1, <3>1 DEF IsFollowup, Good, RoundNamed, FindingsRecorded
      <4> QED
        BY <2>3, <2>4, <3>1, <4>1, NType DEF FindingsAhead
    <3>2. CASE ~IsFollowup(s)
      BY <1>1, <2>1, <2>4, <3>2, Deciding DEF FindingsAhead
    <3> QED
      BY <3>1, <3>2
  <2>7. ~Deep => Behind(t)
    BY <1>1, <2>1, <2>2, <2>4, <2>5, Deciding DEF Behind
  <2>8. SoundFor(t, "created")
    BY <1>1, <2>4, <2>5, <2>6, <2>7, Deciding DEF SoundFor, VerdictFits
  <2>9. IdleAction(a) /\ "created" \in IdleStages
    BY <2>1, ActIdle DEF ActionKinds, IdleStages, Stages
  <2> HIDE DEF a
  <2>10. Sound(SetStage(t, "created", a)) /\ SetStage(t, "created", a).stage = "created"
    BY <2>4, <2>8, <2>9, SetStageSound DEF SetStage, Cycle
  <2> QED
    BY <1>1, <2>10 DEF RetryBlocked, t, a, i
<1>2. CASE ~(s.stage = "decision-pending" /\ s.round.blocked)
  BY <1>2 DEF RetryBlocked
<1> QED
  BY <1>1, <1>2

\* The loop of an invocation, up to its expensive step, keeps a document sound.
LEMMA SettleSound ==
  ASSUME NEW s, Good(s), Sound(s), head \in Heads, ~SettleRefused(s)
  PROVE  Sound(Settle(s))
<1>1. ASSUME NEW t, Good(t), Sound(t)
      PROVE  Good(ResumeAndRetry(t)) /\ Sound(ResumeAndRetry(t))
  BY <1>1, ResumeGood, RetryGood, ResumeSound, RetrySound DEF ResumeAndRetry
<1> DEFINE ready == ResumeAndRetry(s)
<1>2. Good(ready) /\ Sound(ready)
  BY <1>1
<1>3. AutoDecides(ready) => ~DecisionRefused(ready, ready.round.verdict)
  BY DEF SettleRefused
<1> HIDE DEF ready
<1>4. AutoDecides(ready) => /\ Good(RecordDecision(ready, ready.round.verdict))
                            /\ Sound(RecordDecision(ready, ready.round.verdict))
  BY <1>2, <1>3, DecisionGood, DecisionSound DEF AutoDecides
<1> QED
  BY <1>1, <1>2, <1>4 DEF Settle, ready

\* Only the verdict on a profile round is ever refused.
LEMMA RefusedRound ==
  ASSUME NEW s, Good(s), Sound(s), head \in Heads, SettleRefused(s)
  PROVE  s.stage = "decision-pending" /\ s.pending.step # NoStep
<1> DEFINE ready == ResumeAndRetry(s)
<1>1. ready.stage = "decision-pending" /\ ready.pending.step # NoStep
  BY DEF SettleRefused, AutoDecides, DecisionRefused, IsFollowup
<1>2. CASE ready = s
  BY <1>1, <1>2
<1>3. CASE ready = RetryBlocked(Resume(s))
  <2>1. Good(Resume(s)) /\ Sound(Resume(s))
    BY ResumeGood, ResumeSound
  <2>2. ready = Resume(s)
    BY <1>1, <1>3, <2>1, RetrySound
  <2> QED
    BY <1>1, <2>2, ResumeSound
<1> QED
  BY <1>2, <1>3 DEF ResumeAndRetry

-----------------------------------------------------------------------------
(* The documents that handlers put together themselves                     *)

\* A document that is neither stopped nor green, and in which no verdict of GitHub is kept,
\* may be in any stage of that kind.
LEMMA OpenStage ==
  ASSUME NEW s, Sound(s), s.stage \notin {"review-green", "convergence-decided"},
         NEW stage \in Stages \ {"review-green", "convergence-decided", "followup-pending"}
  PROVE  SoundFor(s, stage)
  BY DEF Sound, SoundFor, VerdictFits

\* A launched step is the next one.
LEMMA LaunchedSound ==
  ASSUME NEW s, Good(s), Sound(s), CanLaunch(s),
         NEW a, a = [kind |-> "collect-review-step", step |-> s.progress.next,
                     fix |-> s.pending.fix, head |-> head]
  PROVE  Sound([SetStage(s, "running", a) EXCEPT !.round = LaunchedRound])
<1> DEFINE r == [SetStage(s, "running", a) EXCEPT !.round = LaunchedRound]
<1>1. /\ r.stage = "running" /\ r.pending = a /\ SameParts(s, r)
  BY DEF SetStage, Good, Cycle, SameParts
<1>2. SoundFor(s, "running")
  BY OpenStage DEF CanLaunch, Stages
<1> HIDE DEF r
<1>3. SoundFor(r, "running")
  BY <1>1, <1>2, SamePartsSound
<1>4. RoundFits(r)
  BY <1>1 DEF RoundFits, SameParts
<1> QED
  BY <1>1, <1>3, <1>4 DEF Sound, r

\* The decision on a profile round is about its head and about the next step.
LEMMA ReviewPendingSound ==
  ASSUME NEW s, Good(s), Sound(s), s.stage = "running" \/ s.pending.kind = "arena-blocked"
  PROVE  Sound(ReviewStepPending(s))
<1> DEFINE t == [s EXCEPT !.stage = "decision-pending",
                          !.pending.kind = "decision",
                          !.heads.reviewed = s.pending.head,
                          !.progress.next = s.pending.step]
           a == [s.pending EXCEPT !.kind = "arena-blocked"]
           u == SetStage(t, "retry-requested", a)
<1>1. /\ s \in Cycle /\ s.pending.step \in Steps /\ s.pending.step = s.progress.next
      /\ s.pending.head \in Heads /\ s.stage \in {"running", "retry-requested"}
      /\ s.pending.step # NoStep
  BY NType DEF Good, RoundNamed, Sound, RoundFits
<1>2. /\ t.stage = "decision-pending" /\ t.pending.step = s.pending.step
      /\ t.pending.head = s.pending.head /\ t.heads.reviewed = s.pending.head
      /\ t.progress = s.progress /\ t.findings = s.findings
      /\ t.convergence = s.convergence /\ t.validation = s.validation
      /\ t.github = s.github /\ t.round = s.round
  BY <1>1 DEF Cycle, Pending, ReviewHeads, Progress
<1>3. /\ a.step = s.pending.step
      /\ u.stage = "retry-requested" /\ u.pending = a
      /\ u.progress = t.progress /\ u.findings = t.findings
      /\ u.convergence = t.convergence /\ u.validation = t.validation
      /\ u.github = t.github
  <2>1. s.pending \in Pending
    BY <1>1 DEF Cycle
  <2>2. a.step = s.pending.step
    BY <2>1 DEF Pending
  <2> HIDE DEF a
  <2> QED
    BY <1>1, <2>2 DEF SetStage, Cycle
<1> HIDE DEF t, u, a
<1>4. ASSUME NEW r \in {t, u}
      PROVE  SoundFor(r, r.stage)
  <2>1. SoundFor(s, r.stage)
    BY <1>1, <1>2, <1>3, <1>4, OpenStage DEF Stages
  <2>2. /\ r.progress = s.progress /\ r.findings = s.findings
        /\ r.convergence = s.convergence /\ r.validation = s.validation
        /\ r.github = s.github /\ r.stage \in {"decision-pending", "retry-requested"}
    BY <1>2, <1>3, <1>4
  <2>3. ~GithubTerminal(s) /\ ~GithubTerminal(r) /\ Completed(r) = Completed(s)
    BY <2>1, <2>2 DEF SoundFor, VerdictFits, GithubTerminal, Completed
  <2> QED
    BY <2>1, <2>2, <2>3 DEF SoundFor, VerdictFits, FindingsAhead, Behind
<1>5. RoundFits(t) /\ RoundFits(u)
  BY <1>1, <1>2, <1>3 DEF RoundFits
<1> QED
  BY <1>4, <1>5 DEF Sound, ReviewStepPending, t, u, a

\* Only deep cycles have follow-ups, whose decision is about their head.
LEMMA FollowupPendingSound ==
  ASSUME NEW s, FollowupRuns(s), Sound(s)
  PROVE  Sound(FollowupReviewPending(s)) /\ FollowupReviewPending(s).pending.step = NoStep
<1> DEFINE h == s.pending.head
           a == [Act("decision") EXCEPT !.head = h]
           r == [s EXCEPT !.stage = "decision-pending", !.pending = a,
                          !.heads.reviewed = h, !.heads.followup = h]
<1>1. a.head = h /\ a.step = NoStep /\ s \in Cycle /\ s.stage = "followup-pending" /\ Deep
  BY ModeAssumption DEF FollowupRuns, Good, Act, NoAction, Sound, SoundFor
<1> HIDE DEF a, h
<1>2. /\ r.stage = "decision-pending" /\ r.pending = a
      /\ r.heads.reviewed = h /\ r.progress = s.progress /\ r.findings = s.findings
      /\ r.convergence = s.convergence /\ r.validation = s.validation
      /\ r.github = s.github
  BY <1>1 DEF Cycle, ReviewHeads
<1> HIDE DEF r
<1>3. ~GithubTerminal(r)
  BY <1>1, <1>2 DEF Sound, SoundFor, VerdictFits, GithubTerminal
<1>4. SoundFor(r, "decision-pending")
  BY <1>1, <1>2, <1>3 DEF Sound, SoundFor, VerdictFits, FindingsAhead
<1>5. RoundFits(r)
  BY <1>1, <1>2 DEF RoundFits
<1>6. Sound(r) /\ r.pending.step = NoStep
  BY <1>1, <1>2, <1>4, <1>5 DEF Sound
<1> QED
  BY <1>6 DEF FollowupReviewPending, r, a, h

\* The end of the closure pass, good or bad, keeps a document sound.
LEMMA CleanupEndsSound ==
  ASSUME NEW s, CleanupRuns(s), Sound(s), NEW drifted \in BOOLEAN
  PROVE  LET done == MarkDeslopDone(s, drifted, s.heads.head)
             failed == MarkDeslopFailed(s)
         IN  /\ Sound(done) /\ done.stage = "created"
             /\ Sound(failed) /\ failed.stage = "retry-requested"
<1> DEFINE t == [s EXCEPT !.deslop.status = "done", !.deslop.drifted = drifted,
                          !.deslop.head = s.heads.head]
           u == [s EXCEPT !.deslop.status = "failed"]
           a(kind) == [Act(kind) EXCEPT !.fix = s.pending.fix]
<1>1. s \in Cycle /\ s.pending.fix \in MaybeHead /\ s.heads.head \in Heads
  BY DEF CleanupRuns, Good, Cycle, Pending, ReviewHeads
<1>2. t \in Cycle /\ u \in Cycle
  BY <1>1 DEF Cycle, Deslop
<1>3. ASSUME NEW r \in {t, u}
      PROVE  /\ r.progress = s.progress /\ r.findings = s.findings
             /\ r.convergence = s.convergence /\ r.validation = s.validation
             /\ r.github = s.github
  BY <1>1 DEF Cycle
<1> HIDE DEF t, u
<1>4. ASSUME NEW r \in {t, u}, NEW stage \in {"created", "retry-requested"}
      PROVE  SoundFor(r, stage)
  <2>1. SoundFor(s, stage)
    BY OpenStage DEF CleanupRuns, Stages
  <2>2. ~GithubTerminal(s) /\ ~GithubTerminal(r) /\ Completed(r) = Completed(s)
    BY <1>3, <1>4, <2>1 DEF SoundFor, VerdictFits, GithubTerminal, Completed
  <2> QED
    BY <1>3, <2>1, <2>2 DEF SoundFor, VerdictFits, FindingsAhead, Behind
<1>5. ASSUME NEW kind \in {"run-review-step", "run-deslop"}
      PROVE  IdleAction(a(kind))
  BY <1>1, ActIdle DEF ActionKinds
<1>6. {"created", "retry-requested"} \subseteq IdleStages
  BY DEF IdleStages, Stages
<1> HIDE DEF a
<1>7. /\ Sound(SetStage(t, "created", a("run-review-step")))
      /\ Sound(SetStage(u, "retry-requested", a("run-deslop")))
  BY <1>2, <1>4, <1>5, <1>6, SetStageSound
<1>8. /\ SetStage(t, "created", a("run-review-step")).stage = "created"
      /\ SetStage(u, "retry-requested", a("run-deslop")).stage = "retry-requested"
  BY <1>2 DEF SetStage, Cycle
<1> QED
  BY <1>7, <1>8 DEF MarkDeslopDone, MarkDeslopFailed, t, u, a

\* A cycle may be stopped below its budget.
LEMMA RequireSound ==
  ASSUME NEW s, Good(s), Sound(s), s.stage = "fix-pending"
  PROVE  Sound(RequireConvergenceDecision(s))
<1> DEFINE t == [s EXCEPT !.convergence.status = "DECISION_REQUIRED"]
<1>1. /\ t \in Cycle /\ t.findings = s.findings /\ t.progress = s.progress
      /\ t.validation = s.validation /\ t.github = s.github
      /\ t.convergence.status = "DECISION_REQUIRED"
      /\ t.convergence.trees = s.convergence.trees
      /\ t.convergence.continueUsed = s.convergence.continueUsed
      /\ t.convergence.continuePending = s.convergence.continuePending
  BY DEF Good, Cycle, Convergence
<1> HIDE DEF t
<1>2. CountedTrees(t.convergence)
  BY <1>1 DEF Sound, SoundFor, CountedTrees
<1>3. ~GithubTerminal(t) /\ Completed(t) = Completed(s)
  BY <1>1 DEF Sound, SoundFor, VerdictFits, GithubTerminal, Completed
<1>4. SoundFor(t, "decision-required")
  BY <1>1, <1>2, <1>3 DEF Sound, SoundFor, VerdictFits, FindingsAhead, Behind
<1>5. IdleAction(Act("convergence-decision")) /\ "decision-required" \in IdleStages
  BY ActIdle DEF ActionKinds, IdleStages, Stages
<1>6. Sound(SetStage(t, "decision-required", Act("convergence-decision")))
  BY <1>1, <1>4, <1>5, SetStageSound
<1> QED
  BY <1>6 DEF RequireConvergenceDecision, t

\* Dismissing a blocked arena round keeps its step the next one.
LEMMA DismissedSound ==
  ASSUME Good(c), Sound(c), c.pending.kind = "arena-blocked"
  PROVE  LET s == SetStage([c EXCEPT !.progress.next = c.pending.step], "created",
                           [Act("run-review-step") EXCEPT !.fix = c.pending.fix])
         IN  Good(s) /\ Sound(s) /\ s.stage = "created" /\ s.convergence = c.convergence
<1> DEFINE t == [c EXCEPT !.progress.next = c.pending.step]
           a == [Act("run-review-step") EXCEPT !.fix = c.pending.fix]
<1>1. /\ c.stage = "retry-requested" /\ c.pending.step \in Steps
      /\ c.pending.step = c.progress.next
  BY NType DEF Good, RoundNamed, Sound, RoundFits
<1>2. c.pending.step \in 0 .. N /\ c.pending.fix \in MaybeHead
  BY <1>1, NType DEF Good, Cycle, Pending
<1>3. t \in Cycle /\ SameParts(c, t)
  BY <1>1, <1>2 DEF Good, Cycle, Progress, SameParts
<1> HIDE DEF t
<1>4. Ready(t, "created")
  BY <1>1, <1>3 DEF Ready, Good, FindingsRecorded, BudgetStage, CleanupHeld, SameParts
<1>5. IdleAction(a) /\ "created" \in IdleStages /\ "created" \in Stages
  BY <1>2, ActIdle DEF ActionKinds, IdleStages, Stages
<1> HIDE DEF a
<1>6. SoundFor(t, "created")
  BY <1>1, <1>3, <1>5, OpenStage, SamePartsSound
<1>7. LET s == SetStage(t, "created", a)
      IN  Good(s) /\ Sound(s) /\ s.stage = "created" /\ s.convergence = c.convergence
  BY <1>3, <1>4, <1>5, <1>6, SetStageGood, SetStageSound, SetStageType
     DEF SameParts, IdleAction
<1> QED
  BY <1>7 DEF t, a

\* CONTINUE goes back to the open findings: it was not used before, so the budget is not
\* passed yet.
LEMMA ContinuedSound ==
  ASSUME Good(c), Sound(c), c.convergence.status = "DECISION_REQUIRED",
         ~c.convergence.continueUsed
  PROVE  LET s == [c EXCEPT !.convergence.status = "ACTIVE",
                            !.convergence.continueUsed = TRUE,
                            !.convergence.continuePending = TRUE]
             t == IF s.stage = "decision-required" /\ s.findings # NoFindings
                  THEN SetStage(s, "fix-pending", NoAction) ELSE s
         IN  /\ Good(t) /\ Sound(t) /\ t.stage = "fix-pending"
             /\ t.convergence.trees = c.convergence.trees /\ t.convergence.continueUsed
<1> DEFINE s == [c EXCEPT !.convergence.status = "ACTIVE",
                          !.convergence.continueUsed = TRUE,
                          !.convergence.continuePending = TRUE]
           t == SetStage(s, "fix-pending", NoAction)
<1>1. /\ c \in Cycle /\ c.stage = "decision-required" /\ c.findings # NoFindings
      /\ c.deslop.status \notin {"done", "failed"} /\ FindingsRecorded(c)
  BY DEF Good, BudgetStage, CleanupHeld, FixHasFindings
<1>2. /\ s \in Cycle /\ s.convergence.status = "ACTIVE" /\ s.stage = c.stage
      /\ s.convergence.trees = c.convergence.trees
      /\ s.convergence.continueUsed /\ s.convergence.continuePending
      /\ s.findings = c.findings /\ s.deslop = c.deslop /\ s.progress = c.progress
      /\ s.validation = c.validation /\ s.github = c.github
  BY <1>1 DEF Cycle, Convergence
<1> HIDE DEF s
<1>3. Ready(s, "fix-pending")
  BY <1>1, <1>2 DEF Ready, FindingsRecorded
<1>4. IdleAction(NoAction) /\ "fix-pending" \in IdleStages /\ "fix-pending" \in Stages
  BY ActIdle DEF ActionKinds, IdleStages, Stages
<1>5. CountedTrees(s.convergence)
  BY <1>2 DEF Sound, SoundFor, CountedTrees
<1>6. ~GithubTerminal(s) /\ Completed(s) = Completed(c)
  BY <1>1, <1>2 DEF Sound, SoundFor, VerdictFits, GithubTerminal, Completed
<1>7. SoundFor(s, "fix-pending")
  BY <1>1, <1>2, <1>5, <1>6 DEF Sound, SoundFor, VerdictFits, FindingsAhead, Behind
<1>8. /\ Good(t) /\ Sound(t) /\ t.stage = "fix-pending" /\ t.convergence = s.convergence
  BY <1>2, <1>3, <1>4, <1>7, SetStageGood, SetStageSound, SetStageType DEF IdleAction
<1> HIDE DEF t
<1> QED
  BY <1>1, <1>2, <1>8 DEF s, t

\* Nothing runs from a cycle that waits for the caller's convergence decision.
LEMMA StoppedStays ==
  ASSUME NEW s, s.stage = "decision-required"
  PROVE  Resume(s) = s /\ Settle(s) = s
<1>1. Resume(s) = s
  BY DEF Resume
<1>2. RetryBlocked(s) = s
  BY DEF RetryBlocked
<1>3. ResumeAndRetry(s) = s
  BY <1>1, <1>2 DEF ResumeAndRetry
<1> QED
  BY <1>1, <1>3 DEF Settle, AutoDecides

\* What reviewers write into the file of a round says nothing about the ladder.
LEMMA RoundSound ==
  ASSUME NEW s \in Cycle, Sound(s), NEW f
  PROVE  Sound([s EXCEPT !.round = f])
<1> DEFINE r == [s EXCEPT !.round = f]
<1>1. r.stage = s.stage /\ r.pending = s.pending /\ SameParts(s, r)
  BY DEF Cycle, SameParts
<1> HIDE DEF r
<1>2. Sound(r)
  BY <1>1, StaysSound
<1> QED
  BY <1>2 DEF r

-----------------------------------------------------------------------------
(* Every action preserves the second invariant                             *)

\* A new cycle is sound.
LEMMA InitLInv == Init => LInv
<1> SUFFICES ASSUME Init PROVE LInv
  OBVIOUS
<1>1. /\ c.stage = "created" /\ c.pending = NoAction /\ c.findings = NoFindings
      /\ c.progress = [next |-> 0, completed |-> [i \in Steps |-> None]]
      /\ c.convergence = [status |-> "ACTIVE", trees |-> {},
                          continueUsed |-> FALSE, continuePending |-> FALSE]
      /\ c.validation = NewValidation /\ c.github.status = "unknown"
      /\ w.run = "nothing"
  BY DEF Init, NewCycle, NoWork
<1>2. IsFiniteSet({}) /\ Cardinality({}) = 0
  BY FS_EmptySet
<1>3. CountedTrees(c.convergence)
  BY <1>1, <1>2, LimitAssumption DEF CountedTrees
<1>4. Completed(c) = {}
  BY <1>1 DEF Completed
<1>5. ~c.validation.green /\ ~GithubTerminal(c)
  BY <1>1 DEF NewValidation, GithubTerminal
<1>6. SoundFor(c, c.stage)
  BY <1>1, <1>3, <1>4, <1>5 DEF SoundFor, VerdictFits, FindingsAhead, Behind
<1>7. RoundFits(c)
  BY <1>1 DEF RoundFits, NoAction
<1> QED
  BY <1>1, <1>6, <1>7 DEF LInv, Sound, Idle

\* Most actions end with a sound document and no invocation, or leave that alone.
LEMMA StoredSound ==
  ASSUME LInv, Sound(c'),
         w' = NoWork \/ (w' = w /\ (Idle \/ c'.stage = c.stage))
  PROVE  LInv'
  BY NoWorkType DEF LInv, Idle

\* Starting the closure pass keeps the second invariant.
LEMMA RunCleanupSound ==
  ASSUME IInv, LInv, NEW s, Good(s), Sound(s), NEW by, RunCleanup(s, by),
         c.stage = "decision-required" => s.stage = "decision-required"
  PROVE  LInv'
<1>1. s.stage \in {"created", "retry-requested"} /\ c' = c
  BY DEF RunCleanup, DeslopShouldRun
<1>2. Sound(FollowHead(s))
  BY <1>1, MovedSound DEF FollowHead, IInv, Good
<1>3. w' = [run |-> "deslop", by |-> by, state |-> FollowHead(s)]
  BY DEF RunCleanup, Working
<1> QED
  BY <1>1, <1>2, <1>3 DEF LInv

\* A rerun (cleanup, launch, follow-up, or nothing to run) keeps the second invariant.
LEMMA RerunSound == ASSUME IInv, LInv, Rerun PROVE LInv'
<1> DEFINE s == Settle(c)
<1>1. /\ Idle /\ Good(c) /\ Sound(c) /\ head \in Heads /\ ~SettleRefused(c)
      /\ Good(s) /\ Sound(s)
      /\ c.stage = "decision-required" => s.stage = "decision-required"
  BY SettleGood, SettleSound, StoppedStays
     DEF IInv, LInv, Rerun, RerunCleanup, RerunLaunch, RerunFollowup, RerunIdle
<1>2. CASE RerunCleanup
  BY <1>1, <1>2, RunCleanupSound DEF RerunCleanup
<1>3. CASE RerunLaunch
  <2> DEFINE a == [kind |-> "collect-review-step", step |-> s.progress.next,
                   fix |-> s.pending.fix, head |-> head]
             saved == [SetStage(s, "running", a) EXCEPT !.round = LaunchedRound]
  <2>1. /\ CanLaunch(s) /\ c' = saved
        /\ w' = [run |-> "review", by |-> "rerun", state |-> saved]
    BY <1>3 DEF RerunLaunch, Working
  <2>2. Sound(saved)
    BY <1>1, <2>1, LaunchedSound
  <2>3. saved.stage = "running"
    BY <1>1 DEF SetStage, Good, Cycle
  <2> HIDE DEF saved
  <2> QED
    BY <2>1, <2>2, <2>3 DEF LInv
<1>4. CASE RerunFollowup
  <2> DEFINE t == [s EXCEPT !.pending.head = head, !.round = LaunchedRound]
  <2>1. /\ s.stage = "followup-pending" /\ c' = c
        /\ w' = [run |-> "followup", by |-> "rerun", state |-> t]
    BY <1>4 DEF RerunFollowup, Working
  <2> HIDE DEF s
  <2>2. /\ t.stage = s.stage /\ t.pending.step = s.pending.step /\ SameParts(s, t)
    BY <1>1 DEF Good, Cycle, Pending, SameParts
  <2> HIDE DEF t
  <2>3. SoundFor(t, t.stage)
    BY <1>1, <2>2, SamePartsSound DEF Sound
  <2>4. RoundFits(t)
    BY <1>1, <2>1, <2>2 DEF Sound, RoundFits, SameParts
  <2>5. c.stage # "decision-required"
    BY <1>1, <2>1
  <2> QED
    BY <1>1, <2>1, <2>3, <2>4, <2>5 DEF LInv, Sound
<1>5. CASE RerunIdle
  <2>1. Sound(c') /\ w' = w
    BY <1>1, <1>5, ResumeSound DEF RerunIdle
  <2> QED
    BY <1>1, <2>1, StoredSound
<1> QED
  BY <1>2, <1>3, <1>4, <1>5 DEF Rerun

\* The end of a closure pass keeps the second invariant; it is never refused.
LEMMA EndCleanupSound == ASSUME IInv, LInv, EndCleanup PROVE LInv'
<1>1. PICK done \in BOOLEAN, drifted \in {FALSE, HasBrief} :
        LET s == IF done THEN MarkDeslopDone(w.state, drifted, w.state.heads.head)
                 ELSE MarkDeslopFailed(w.state)
        IN  c' = IF w.by = "rerun" THEN Settle(s) ELSE s
  BY DEF EndCleanup
<1> DEFINE s == IF done THEN MarkDeslopDone(w.state, drifted, w.state.heads.head)
                ELSE MarkDeslopFailed(w.state)
<1>2. CleanupRuns(w.state) /\ Sound(w.state) /\ drifted \in BOOLEAN /\ head \in Heads
  BY ModeAssumption DEF EndCleanup, IInv, LInv
<1>3. Good(s) /\ Sound(s) /\ s.stage \in {"created", "retry-requested"}
  BY <1>2, CleanupEndsGood, CleanupEndsSound
<1> HIDE DEF s
<1>4. ~SettleRefused(s)
  BY <1>2, <1>3, RefusedRound
<1>5. Sound(c')
  BY <1>1, <1>2, <1>3, <1>4, SettleSound DEF s
<1> QED
  BY <1>5, StoredSound DEF EndCleanup

\* The answer of reviewers keeps the second invariant.
LEMMA ReviewersEndSound == ASSUME IInv, LInv, ReviewersEnd PROVE LInv'
<1>1. CASE \E a \in AnswersTo(c) : c.stage = "running" /\ c' = [c EXCEPT !.round = a] /\ w' = w
  <2>1. Sound(c') /\ c'.stage = c.stage
    BY <1>1, RoundSound DEF IInv, LInv, Good, Cycle
  <2> QED
    BY <1>1, <2>1, StoredSound
<1>2. CASE /\ w.run = "followup" /\ c' = c
           /\ \E a \in Answers : w' = [w EXCEPT !.state.round = a]
  <2>1. PICK a \in Answers : w' = [w EXCEPT !.state.round = a]
    BY <1>2
  <2> DEFINE t == [w.state EXCEPT !.round = a]
  <2>2. w' = [w EXCEPT !.state = t]
    BY <2>1
  <2>3. Sound(t)
    BY <1>2, RoundSound DEF IInv, LInv, FollowupRuns, Good
  <2> HIDE DEF t
  <2>4. w'.run = "followup" /\ w'.state = t
    BY <1>2, <2>2 DEF IInv, Work
  <2> QED
    BY <1>2, <2>3, <2>4 DEF LInv, Idle
<1> QED
  BY <1>1, <1>2 DEF ReviewersEnd

\* Reading the result of a round, refused or not, keeps the second invariant; the result of
\* a follow-up is never refused.
LEMMA FinishSound ==
  ASSUME IInv, LInv, FinishReview \/ FinishReviewRefused \/ EndFollowup \/ Crash
  PROVE  LInv'
<1>1. CASE FinishReview
  <2>1. Good(ReviewStepPending(c)) /\ Sound(ReviewStepPending(c))
    BY <1>1, ReviewPendingGood, ReviewPendingSound
       DEF FinishReview, IInv, LInv, Good, RoundNamed
  <2>2. Sound(c')
    BY <1>1, <2>1, SettleSound DEF FinishReview, IInv
  <2> QED
    BY <1>1, <2>2, StoredSound DEF FinishReview
<1>2. CASE EndFollowup
  <2> DEFINE s == FollowupReviewPending(w.state)
  <2>1. Good(s) /\ Sound(s) /\ s.pending.step = NoStep /\ head \in Heads
    BY <1>2, FollowupPendingGood, FollowupPendingSound DEF EndFollowup, IInv, LInv
  <2> HIDE DEF s
  <2>2. ~SettleRefused(s)
    BY <2>1, RefusedRound
  <2>3. Sound(c')
    BY <1>2, <2>1, <2>2, SettleSound DEF EndFollowup, s
  <2> QED
    BY <1>2, <2>3, StoredSound DEF EndFollowup
<1>3. CASE FinishReviewRefused \/ Crash
  <2>1. c' = c /\ w' = NoWork
    BY <1>3 DEF FinishReviewRefused, Crash
  <2> QED
    BY <2>1, StoredSound DEF LInv
<1> QED
  BY <1>1, <1>2, <1>3

\* Recovering a blocked arena round keeps the second invariant: its step is the next one.
LEMMA RecoverArenaSound == ASSUME IInv, LInv, RecoverArena PROVE LInv'
<1>1. /\ c.stage = "retry-requested" /\ c.pending.kind = "arena-blocked"
      /\ c.pending.head \in Heads /\ c.pending.step \in Steps
      /\ Good(c) /\ Sound(c) /\ head \in Heads
      /\ c.pending.step = c.progress.next
  BY NType DEF RecoverArena, IInv, LInv, Good, RoundNamed, Sound, RoundFits
<1> DEFINE s == SetStage([c EXCEPT !.progress.next = c.pending.step], "created",
                         [Act("run-review-step") EXCEPT !.fix = c.pending.fix])
<1>2. Good(s) /\ Sound(s) /\ s.stage = "created"
  BY <1>1, DismissedSound
<1>3. ASSUME NEW f \in AnswersTo(c)
      PROVE  Sound(ReviewStepPending([c EXCEPT !.round = f]))
  <2> DEFINE r == [c EXCEPT !.round = f]
  <2>1. Good(r) /\ Sound(r) /\ r.pending = c.pending
    BY <1>1, <1>3, RoundGood, RoundSound, AnswersType DEF Good
  <2> HIDE DEF r
  <2>2. Sound(ReviewStepPending(r))
    BY <1>1, <2>1, ReviewPendingSound
  <2> QED
    BY <2>2 DEF r
<1>4. c' = Settle(s) \/ \E f \in AnswersTo(c) : c' = ReviewStepPending([c EXCEPT !.round = f])
  BY DEF RecoverArena
<1> HIDE DEF s
<1>5. Sound(c')
  BY <1>1, <1>2, <1>3, <1>4, SettleSound, RefusedRound
<1> QED
  BY <1>5, StoredSound DEF RecoverArena

\* Grading an arena round keeps the second invariant.
LEMMA GradeSound == ASSUME IInv, LInv, Grade PROVE LInv'
<1> DEFINE f == [c.round EXCEPT !.needsGrade = FALSE]
<1>1. c \in Cycle /\ c' = [c EXCEPT !.round = f]
  BY DEF Grade, IInv, Good
<1> HIDE DEF f
<1>2. Sound(c') /\ c'.stage = c.stage
  BY <1>1, RoundSound DEF LInv, Cycle
<1> QED
  BY <1>2, StoredSound DEF Grade

\* --decision keeps the second invariant.
LEMMA DecideSound == ASSUME IInv, LInv, NEW d, Decide(d) PROVE LInv'
<1> DEFINE s == IF DeslopReady(c) THEN Resume(c) ELSE c
<1>1. /\ Good(s) /\ Sound(s)
      /\ c.stage = "decision-required" => s.stage = "decision-required"
  BY ResumeGood, ResumeSound, StoppedStays DEF IInv, LInv
<1>2. \/ RunCleanup(s, "decision")
      \/ /\ s.stage = "decision-pending" /\ ~DecisionRefused(s, d)
         /\ c' = RecordDecision(s, d) /\ w' = w /\ Idle
  BY DEF Decide
<1> HIDE DEF s
<1>3. CASE RunCleanup(s, "decision")
  BY <1>1, <1>3, RunCleanupSound
<1>4. CASE /\ s.stage = "decision-pending" /\ ~DecisionRefused(s, d)
           /\ c' = RecordDecision(s, d) /\ w' = w /\ Idle
  <2>1. Sound(c')
    BY <1>1, <1>4, DecisionSound
  <2> QED
    BY <1>4, <2>1, StoredSound
<1> QED
  BY <1>2, <1>3, <1>4

\* --github-result keeps the second invariant: the head called reviewed is the one the
\* verdict is for, and the findings of GitHub are findings of the signoff.
LEMMA GithubResultSound == ASSUME IInv, LInv, GithubResult PROVE LInv'
<1> DEFINE h == c.heads.reviewed
           recorded(result) == [c EXCEPT !.github = [status |-> result, head |-> h]]
           open == [recorded("findings") EXCEPT
                      !.findings = [head |-> h, step |-> LastCompleted(c), rerun |-> TRUE],
                      !.validation.green = FALSE]
           due == SetStage(open, "fix-pending", NoAction)
<1>1. /\ Good(c) /\ Sound(c) /\ c.stage = "review-green" /\ c \in Cycle
      /\ h \in Heads /\ Completed(c) # {} /\ ~DeslopTracked(c) /\ Signed(c)
  BY DEF GithubResult, IInv, LInv, Good, GreenWasReviewed, Sound, SoundFor
<1>2. ASSUME NEW result \in {"clean", "waived"}
      PROVE  Sound(recorded(result))
  <2> DEFINE r == recorded(result)
  <2>1. /\ r.stage = c.stage /\ r.pending = c.pending /\ r.progress = c.progress
        /\ r.findings = c.findings /\ r.convergence = c.convergence
        /\ r.heads = c.heads /\ r.deslop = c.deslop /\ r.validation = c.validation
        /\ r.github.head = h
    BY <1>1 DEF Cycle
  <2> HIDE DEF r
  <2>2. Completed(r) = Completed(c) /\ LastCompleted(r) = LastCompleted(c)
    BY <2>1 DEF Completed, LastCompleted
  <2>3. VerdictFits(r, "review-green")
    BY <1>1, <2>1 DEF VerdictFits, DeslopTracked
  <2>4. SoundFor(r, r.stage)
    BY <1>1, <2>1, <2>2, <2>3 DEF Sound, SoundFor, FindingsAhead, Behind, Signed
  <2>5. RoundFits(r)
    BY <1>1, <2>1 DEF Sound, RoundFits
  <2> QED
    BY <2>4, <2>5 DEF Sound, r
<1>3. Sound(RecordAcceptedFindingsHead(due, h))
  <2>1. LastCompleted(c) \in Steps
    BY <1>1, LastCompletedType
  <2>2. /\ recorded("findings") \in Cycle
        /\ recorded("findings").convergence = c.convergence
        /\ recorded("findings").deslop = c.deslop
        /\ recorded("findings").progress = c.progress
        /\ recorded("findings").github.status = "findings"
    BY <1>1 DEF Cycle, Github
  <2> HIDE DEF recorded
  <2>3. open \in Cycle /\ open.convergence = c.convergence /\ open.deslop = c.deslop
        /\ open.findings = [head |-> h, step |-> LastCompleted(c), rerun |-> TRUE]
        /\ open.progress = c.progress /\ ~open.validation.green
        /\ open.github.status = "findings"
    BY <1>1, <2>1, <2>2 DEF Cycle, Findings, Validation
  <2>4. c.convergence.status = "ACTIVE" /\ c.deslop.status \notin {"done", "failed"}
    BY <1>1 DEF Good, BudgetStage, CleanupHeld, Sound, SoundFor, Cycle, Convergence
  <2> HIDE DEF open
  <2>5. Kind(N - 1) # "arena" => LastCompleted(c) = N - 1
    <3>1. ASSUME Kind(N - 1) # "arena" PROVE N - 1 \in Completed(c)
      BY <1>1, <3>1, NType, HeadAssumption DEF Signed, Completed
    <3>2. \A j \in Completed(c) : j \in Int /\ j <= N - 1
      BY NType DEF Completed
    <3> QED
      BY <3>1, <3>2, LastIs, NType
  <2>6. FindingsAhead(open)
    BY <2>3, <2>5 DEF FindingsAhead
  <2>7. ~GithubTerminal(open) /\ Completed(open) = Completed(c)
    BY <2>3 DEF GithubTerminal, Completed
  <2>8. SoundFor(open, "fix-pending")
    BY <1>1, <2>3, <2>4, <2>6, <2>7 DEF Sound, SoundFor, VerdictFits, Behind
  <2>9. LET u == RecordAcceptedFindingsHead(SetStage(open, "fix-pending", NoAction), h)
        IN  Sound(u)
    <3> HIDE DEF h
    <3> QED
      BY <1>1, <2>1, <2>3, <2>4, <2>8, OpenedSound
  <2> QED
    BY <2>9
<1>4. /\ \/ \E result \in {"clean", "waived"} : c' = recorded(result)
         \/ c' = RecordAcceptedFindingsHead(due, h)
      /\ w' = w /\ Idle
  BY DEF GithubResult
<1> HIDE DEF recorded, due, h
<1>5. Sound(c')
  BY <1>2, <1>3, <1>4
<1> QED
  BY <1>4, <1>5, StoredSound

\* --deslop-done, and the commands that save the resumed document, keep the second invariant.
LEMMA ResumedSound == ASSUME IInv, LInv, SaveResumed \/ DeslopDone PROVE LInv'
<1>1. Sound(c') /\ w' = w /\ Idle
  BY ResumeSound, ClosedSound DEF SaveResumed, DeslopDone, IInv, LInv, Good
<1> QED
  BY <1>1, StoredSound

\* --full-suite and --ci keep the second invariant.
LEMMA RecordGatesSound == ASSUME IInv, LInv, RecordGates PROVE LInv'
<1>1. \E gates, note : c' = [c EXCEPT !.validation.gates = gates, !.validation.note = note]
  <2>1. PICK said \in [Gates -> Statuses \cup {"unsaid"}] :
          LET gates == [g \in Gates |-> IF said[g] = "unsaid"
                                       THEN c.validation.gates[g] ELSE said[g]]
          IN  c' = [c EXCEPT !.validation.gates = gates,
                             !.validation.note = WaiverNote(said, gates, @)]
    BY DEF RecordGates
  <2> DEFINE gates == [g \in Gates |-> IF said[g] = "unsaid"
                                      THEN c.validation.gates[g] ELSE said[g]]
             note == WaiverNote(said, gates, c.validation.note)
  <2>2. c' = [c EXCEPT !.validation.gates = gates, !.validation.note = note]
    BY <2>1 DEF IInv, Good, Cycle, Validation
  <2> HIDE DEF gates, note
  <2> QED
    BY <2>2
<1>2. c'.stage = c.stage /\ c'.pending = c.pending /\ SameParts(c, c')
  BY <1>1 DEF IInv, Good, Cycle, Validation, SameParts
<1>3. Sound(c')
  BY <1>2, StaysSound DEF LInv
<1> QED
  BY <1>3, StoredSound DEF RecordGates

\* --convergence-decision CONTINUE keeps the second invariant.
LEMMA ContinueSound == ASSUME IInv, LInv, Continue PROVE LInv'
<1> DEFINE s == [c EXCEPT !.convergence.status = "ACTIVE",
                          !.convergence.continueUsed = TRUE,
                          !.convergence.continuePending = TRUE]
           t == IF s.stage = "decision-required" /\ s.findings # NoFindings
                THEN SetStage(s, "fix-pending", NoAction) ELSE s
<1>1. Good(c) /\ Sound(c) /\ head \in Heads /\ w' = w /\ Idle
  BY DEF Continue, IInv, LInv
<1>2. CASE c' = Resume(c)
  BY <1>1, <1>2, ResumeSound, StoredSound
<1>3. CASE /\ c.convergence.status = "DECISION_REQUIRED" /\ ~c.convergence.continueUsed
           /\ c' = Resume(t)
  <2>1. Good(t) /\ Sound(t)
    BY <1>1, <1>3, ContinuedSound
  <2> HIDE DEF t
  <2> QED
    BY <1>1, <1>3, <2>1, ResumeSound, StoredSound
<1> QED
  BY <1>2, <1>3 DEF Continue

\* --contract-conflict and REPLAN or RESLICE keep the second invariant.
LEMMA StopSound == ASSUME IInv, LInv, ContractConflict \/ ReplanOrReslice PROVE LInv'
<1>1. CASE ContractConflict
  BY <1>1, RequireSound, StoredSound DEF ContractConflict, IInv, LInv
<1>2. CASE ReplanOrReslice
  <2> DEFINE s == [c EXCEPT !.convergence.status = "DECIDED"]
  <2>1. /\ c \in Cycle /\ Sound(c) /\ c.stage = "decision-required"
    BY <1>2 DEF ReplanOrReslice, IInv, LInv, Good, BudgetStage
  <2>2. /\ s \in Cycle /\ s.convergence.status = "DECIDED"
        /\ s.convergence.trees = c.convergence.trees
        /\ s.convergence.continueUsed = c.convergence.continueUsed
        /\ s.convergence.continuePending = c.convergence.continuePending
        /\ s.findings = c.findings /\ s.progress = c.progress
        /\ s.validation = c.validation /\ s.github = c.github
    BY <2>1 DEF Cycle, Convergence
  <2> HIDE DEF s
  <2>3. CountedTrees(s.convergence)
    BY <2>1, <2>2 DEF Sound, SoundFor, CountedTrees
  <2>4. ~GithubTerminal(s) /\ Completed(s) = Completed(c)
    BY <2>1, <2>2 DEF Sound, SoundFor, VerdictFits, GithubTerminal, Completed
  <2>5. SoundFor(s, "convergence-decided")
    BY <2>1, <2>2, <2>3, <2>4 DEF Sound, SoundFor, VerdictFits, FindingsAhead, Behind
  <2>6. IdleAction(NoAction) /\ "convergence-decided" \in IdleStages
    BY ActIdle DEF ActionKinds, IdleStages, Stages
  <2>7. Sound(c')
    BY <1>2, <2>2, <2>5, <2>6, SetStageSound DEF ReplanOrReslice, s
  <2> QED
    BY <1>2, <2>7, StoredSound DEF ReplanOrReslice
<1> QED
  BY <1>1, <1>2

\* Every step keeps the second invariant, given the first: one lemma per action.
LEMMA NextLInv == IInv /\ LInv /\ [Next]_vars => LInv'
<1> SUFFICES ASSUME IInv, LInv, [Next]_vars PROVE LInv'
  OBVIOUS
<1>1. CASE Advance
  BY <1>1, RerunSound, EndCleanupSound, ReviewersEndSound, FinishSound, RecoverArenaSound,
     GradeSound DEF Advance
<1>2. CASE Command
  BY <1>2, DecideSound, ResumedSound, GithubResultSound, RecordGatesSound, ContinueSound,
     StopSound DEF Command, DecideClean, DecideFindings
<1>3. CASE Git \/ UNCHANGED vars
  <2>1. c' = c /\ w' = w
    BY <1>3 DEF Git, Commit, Edit, Stash, vars
  <2> QED
    BY <2>1 DEF LInv, Idle
<1> QED
  BY <1>1, <1>2, <1>3 DEF Next

\* In every behaviour of the handlers the stored document and the one a cleanup or a
\* follow-up works on are sound, and nothing runs on a stopped cycle.
THEOREM LadderInvariant == Spec => [](IInv /\ LInv)
<1>1. Init => IInv /\ LInv
  BY InitIInv, InitLInv
<1>2. (IInv /\ LInv) /\ [Next]_vars => (IInv /\ LInv)'
  BY NextIInv, NextLInv
<1> QED
  BY <1>1, <1>2, PTL DEF Spec

\* The budget of trees with accepted findings: whatever rounds, crashes and commits, the cycle
\* is stopped at the limit, idle and with its findings open; CONTINUE grants one tree more.
THEOREM BudgetKept == Spec => []BudgetEnforced
<1>1. IInv /\ LInv => BudgetEnforced
  BY DEF IInv, LInv, Good, BudgetStage, FixHasFindings, Sound, SoundFor, CountedTrees,
         BudgetEnforced
<1> QED
  BY <1>1, LadderInvariant, PTL

\* A terminal GitHub verdict belongs to the head that was signed off, in a green cycle whose
\* closure pass is over.
THEOREM VerdictBelongs == Spec => []GithubForSignedOffHead
<1>1. LInv => GithubForSignedOffHead
  BY DEF LInv, Sound, SoundFor, VerdictFits, GithubForSignedOffHead
<1> QED
  BY <1>1, LadderInvariant, PTL

\* Green is signed off: the flag that can_advance_or_anchor reads is the stage, no finding is
\* open, and the newest completed step, the signoff, was completed at the reviewed head.  A
\* deep plan that ends in an arena round is left out: a blocked follow-up retried at step 0
\* turns it green with the completed step of an earlier head.
THEOREM GreenIsSigned ==
  ASSUME Kind(N - 1) # "arena" \/ ~Deep
  PROVE  Spec => []SignedOff
<1>1. IInv /\ LInv => SignedOff
  <2> SUFFICES ASSUME IInv, LInv PROVE SignedOff
    OBVIOUS
  <2>1. /\ c.validation.green <=> c.stage = "review-green"
        /\ c.stage = "review-green" => Signed(c) /\ Completed(c) # {} /\ c.heads.reviewed \in Heads
    BY DEF IInv, LInv, Good, GreenWasReviewed, Sound, SoundFor
  <2>2. ASSUME c.stage = "review-green", Kind(N - 1) # "arena"
        PROVE  LastCompleted(c) = N - 1
    <3>1. N - 1 \in Completed(c)
      BY <2>1, <2>2, NType, HeadAssumption DEF Signed, Completed
    <3>2. \A j \in Completed(c) : j \in Int /\ j <= N - 1
      BY NType DEF Completed
    <3> QED
      BY <3>1, <3>2, LastIs, NType
  <2>3. ASSUME c.stage = "review-green"
        PROVE  c.progress.completed[LastCompleted(c)] = c.heads.reviewed
    BY <2>1, <2>2, <2>3 DEF Signed
  <2> QED
    BY <2>1, <2>2, <2>3 DEF SignedOff, Signed
<1> QED
  BY <1>1, LadderInvariant, PTL

-----------------------------------------------------------------------------
(* What CONTINUE grants                                                    *)
(*                                                                         *)
(* From a document to the next, CONTINUE is never forgotten, and while it  *)
(* is pending a tree is counted only by stopping the cycle again.  A clean *)
(* verdict ends what is pending without counting a tree, and then the      *)
(* cycle has no round to decide on.                                        *)

Granted(s, r) ==
    /\ s.convergence.continueUsed => r.convergence.continueUsed
    /\ s.convergence.continuePending =>
         \/ r.convergence = s.convergence
         \/ r.convergence.status = "DECISION_REQUIRED"
         \/ /\ r.convergence.trees = s.convergence.trees
            /\ r.stage \in {"created", "review-green"}

\* Accepted findings are counted by stopping the cycle, while CONTINUE is pending.
LEMMA AcceptedGranted ==
  ASSUME NEW s \in Cycle, NEW h \in Heads
  PROVE  LET r == RecordAcceptedFindingsHead(s, h) IN
         /\ r \in Cycle
         /\ s.convergence.continueUsed => r.convergence.continueUsed
         /\ s.convergence.continuePending =>
              r.convergence = s.convergence \/ r.convergence.status = "DECISION_REQUIRED"
<1> DEFINE trees   == s.convergence.trees \cup {Tree[h]}
           counted == [s EXCEPT !.convergence.trees = trees,
                                !.convergence.continuePending = FALSE]
           required == [counted EXCEPT !.convergence.status = "DECISION_REQUIRED"]
           stopped == SetStage(required, "decision-required", Act("convergence-decision"))
<1>1. /\ counted \in Cycle /\ required \in Cycle
      /\ counted.convergence.status = s.convergence.status
      /\ counted.convergence.continueUsed = s.convergence.continueUsed
      /\ required.convergence.continueUsed = s.convergence.continueUsed
      /\ required.convergence.status = "DECISION_REQUIRED"
  <2>1. trees \in SUBSET {Tree[x] : x \in Heads}
    BY DEF Cycle, Convergence
  <2> HIDE DEF trees
  <2> QED
    BY <2>1 DEF Cycle, Convergence
<1> HIDE DEF counted, required
<1>2. stopped \in Cycle /\ stopped.convergence = required.convergence
  <2>1. Act("convergence-decision") \in Pending /\ "decision-required" \in Stages
    BY ActIdle DEF ActionKinds, IdleAction, Stages
  <2> QED
    BY <1>1, <2>1, SetStageType
<1> HIDE DEF stopped
<1>3. RequireConvergenceDecision(counted)
        = IF counted.convergence.status = "DECISION_REQUIRED" THEN counted ELSE stopped
  BY DEF RequireConvergenceDecision, required, stopped
<1>4. \/ RecordAcceptedFindingsHead(s, h) = s
      \/ RecordAcceptedFindingsHead(s, h) = RequireConvergenceDecision(counted)
      \/ /\ RecordAcceptedFindingsHead(s, h) = counted
         /\ ~s.convergence.continuePending
  BY DEF RecordAcceptedFindingsHead, counted
<1> QED
  BY <1>1, <1>2, <1>3, <1>4

\* A step counted as clean leads to a document whose convergence is the same.
LEMMA AdvancedTo ==
  ASSUME NEW s \in Cycle
  PROVE  /\ AdvanceOrGreen(s).convergence = s.convergence
         /\ AdvanceOrGreen(s).stage \in {"created", "review-green"}
         /\ AdvanceOrGreen(s).heads = s.heads /\ AdvanceOrGreen(s).findings = s.findings
         /\ AdvanceOrGreen(s).pending.fix = None /\ AdvanceOrGreen(s).pending.step = NoStep
<1>1. /\ [s EXCEPT !.validation.green = FALSE] \in Cycle
      /\ [s EXCEPT !.validation.green = TRUE] \in Cycle
  BY DEF Cycle, Validation
<1> QED
  BY <1>1 DEF AdvanceOrGreen, SetStage, Cycle, Act, NoAction

\* --decision findings counts a tree by stopping the cycle, while CONTINUE is pending.
LEMMA FindingsGranted ==
  ASSUME NEW s, Good(s), s.stage = "decision-pending", NEW d, d # "clean"
  PROVE  LET r == RecordDecision(s, d) IN
         /\ s.convergence.continueUsed => r.convergence.continueUsed
         /\ s.convergence.continuePending =>
              r.convergence = s.convergence \/ r.convergence.status = "DECISION_REQUIRED"
<1> DEFINE h == s.pending.head
           open1 == [s EXCEPT !.heads.reviewed = h,
                              !.findings = [head |-> h, step |-> s.pending.step,
                                            rerun |-> FALSE],
                              !.validation.green = FALSE]
           open2 == [s EXCEPT !.heads.followup = h,
                              !.findings = [head |-> h, step |-> s.findings.step,
                                            rerun |-> FALSE],
                              !.validation.green = FALSE]
<1>1. s \in Cycle /\ h \in Heads
  BY DEF Good, RoundNamed
<1>2. s.pending.step \in Steps \cup {NoStep} /\ s.findings.step \in Steps \cup {NoStep}
  BY <1>1 DEF Cycle, Pending, Findings
<1>3. \A o \in {open1, open2} : o \in Cycle /\ o.convergence = s.convergence
  <2> HIDE DEF h
  <2>1. open1 \in Cycle /\ open1.convergence = s.convergence
    BY <1>1, <1>2 DEF Cycle, ReviewHeads, Findings, Validation
  <2>2. open2 \in Cycle /\ open2.convergence = s.convergence
    BY <1>1, <1>2 DEF Cycle, ReviewHeads, Findings, Validation
  <2> QED
    BY <2>1, <2>2
<1> HIDE DEF open1, open2
<1>4. ASSUME NEW o \in {open1, open2}
      PROVE  LET r == WithFixAction(RecordAcceptedFindingsHead(
                          SetStage(o, "fix-pending", NoAction), h))
             IN  /\ s.convergence.continueUsed => r.convergence.continueUsed
                 /\ s.convergence.continuePending =>
                      \/ r.convergence = s.convergence
                      \/ r.convergence.status = "DECISION_REQUIRED"
  <2> DEFINE t == SetStage(o, "fix-pending", NoAction)
             u == RecordAcceptedFindingsHead(t, h)
  <2>1. t \in Cycle /\ t.convergence = s.convergence
    <3>1. NoAction \in Pending /\ "fix-pending" \in Stages
      BY ActIdle DEF ActionKinds, IdleAction, Stages
    <3> QED
      BY <1>3, <1>4, <3>1, SetStageType
  <2> HIDE DEF t
  <2>2. /\ u \in Cycle
        /\ s.convergence.continueUsed => u.convergence.continueUsed
        /\ s.convergence.continuePending =>
             \/ u.convergence = s.convergence
             \/ u.convergence.status = "DECISION_REQUIRED"
    BY <1>1, <2>1, AcceptedGranted
  <2> HIDE DEF u
  <2>3. WithFixAction(u).convergence = u.convergence
    BY <2>2 DEF WithFixAction, Cycle
  <2> QED
    BY <2>2, <2>3 DEF u, t
<1> QED
  BY <1>4 DEF RecordDecision, RecordFindingsDecision, RecordFollowupFindings, open1, open2, IsFollowup

\* --decision clean counts no tree, and the cycle has no round to decide on then.
LEMMA CleanGranted ==
  ASSUME NEW s, Good(s), s.stage = "decision-pending"
  PROVE  LET r == RecordDecision(s, "clean") IN
         /\ r.convergence.trees = s.convergence.trees
         /\ r.convergence.continueUsed = s.convergence.continueUsed
         /\ r.stage \in {"created", "review-green"}
<1>1. s \in Cycle /\ s.pending.head \in Heads
  BY DEF Good, RoundNamed
<1>2. ASSUME s.pending.step # NoStep
      PROVE  LET r == RecordCleanDecision(s) IN
             /\ r.convergence.trees = s.convergence.trees
             /\ r.convergence.continueUsed = s.convergence.continueUsed
             /\ r.stage \in {"created", "review-green"}
  <2> DEFINE h == s.pending.head
             i == s.pending.step
             decided == [s EXCEPT !.heads.reviewed = h,
                                  !.convergence.continuePending = FALSE]
             done == CompleteStep(decided, i, h)
             next == AdvanceAfterClean(done, i)
  <2>1. h \in Heads /\ i \in Steps
    BY <1>1, <1>2 DEF Cycle, Pending
  <2>2. /\ decided \in Cycle
        /\ decided.convergence.trees = s.convergence.trees
        /\ decided.convergence.continueUsed = s.convergence.continueUsed
    BY <1>1, <2>1 DEF Cycle, ReviewHeads, Convergence
  <2> HIDE DEF h, i, decided
  <2>3. done \in Cycle /\ Kept(decided, done)
    BY <2>1, <2>2, CompleteType, ProgressKept
  <2> HIDE DEF done
  <2>4. next \in Cycle /\ Kept(done, next)
    BY <2>1, <2>3, AdvanceType, ProgressKept
  <2> HIDE DEF next
  <2> QED
    BY <2>2, <2>3, <2>4, AdvancedTo DEF Kept, RecordCleanDecision, next, done, decided, h, i
<1>3. ASSUME s.pending.step = NoStep
      PROVE  LET r == RecordFollowupClean(s) IN
             /\ r.convergence.trees = s.convergence.trees
             /\ r.convergence.continueUsed = s.convergence.continueUsed
             /\ r.stage \in {"created", "review-green"}
  <2> DEFINE h == s.pending.head
             i == s.findings.step
             closed == [s EXCEPT !.heads.followup = h,
                                 !.convergence.continuePending = FALSE,
                                 !.findings = NoFindings]
             reset == [closed EXCEPT !.validation.green = FALSE]
             rewound == RewindStep(reset, i)
             done == CompleteStep(closed, i, h)
  <2>1. h \in Heads /\ i \in Steps
    BY <1>1, <1>3 DEF Good, RoundNamed, FindingsRecorded
  <2>2. /\ closed \in Cycle
        /\ closed.convergence.trees = s.convergence.trees
        /\ closed.convergence.continueUsed = s.convergence.continueUsed
    BY <1>1, <2>1 DEF Cycle, ReviewHeads, Convergence, Findings, NoFindings
  <2> HIDE DEF h, i, closed
  <2>3. reset \in Cycle /\ reset.convergence = closed.convergence
    BY <2>2 DEF Cycle, Validation
  <2> HIDE DEF reset
  <2>4. rewound \in Cycle /\ Kept(reset, rewound)
    BY <2>1, <2>3, RewindType, ProgressKept
  <2>5. done \in Cycle /\ Kept(closed, done)
    BY <2>1, <2>2, CompleteType, ProgressKept
  <2>6. Act("run-review-step") \in Pending /\ "created" \in Stages
    BY ActIdle DEF ActionKinds, IdleAction, Stages
  <2> HIDE DEF rewound, done
  <2>7. /\ SetStage(rewound, "created", Act("run-review-step")).convergence
             = rewound.convergence
        /\ SetStage(rewound, "created", Act("run-review-step")).stage = "created"
    BY <2>4, <2>6, SetStageType
  <2> QED
    BY <2>2, <2>3, <2>4, <2>5, <2>7, AdvancedTo
       DEF Kept, RecordFollowupClean, rewound, reset, done, closed, h, i
<1> QED
  BY <1>2, <1>3 DEF RecordDecision, IsFollowup

\* A fix changes no convergence.
LEMMA FixGranted ==
  ASSUME NEW s, FixDue(s), NEW h \in Heads
  PROVE  /\ MarkFixDetected(s, h).convergence = s.convergence
         /\ WithFixAction(s).convergence = s.convergence
<1> DEFINE fixed == [s EXCEPT !.heads.fix = h]
           f == fixed.findings
           closed == [fixed EXCEPT !.findings = NoFindings, !.validation.green = FALSE]
           again == IF FixedFindingsBudget(f.step)
                    THEN CompleteStep(closed, f.step, f.head)
                    ELSE RewindStep(closed, f.step)
           a == [Act("run-review-step") EXCEPT !.fix = f.head]
<1>1. s \in Cycle /\ s.findings.head \in Heads /\ s.findings.step \in Steps
  BY DEF FixDue, Good, FindingsRecorded
<1>2. fixed \in Cycle /\ fixed.convergence = s.convergence /\ fixed.findings = s.findings
  BY <1>1 DEF Cycle, ReviewHeads
<1> HIDE DEF fixed
<1>3. closed \in Cycle /\ closed.convergence = s.convergence
  BY <1>1, <1>2 DEF Cycle, Findings, NoFindings, Validation
<1> HIDE DEF closed
<1>4. again \in Cycle /\ Kept(closed, again)
  BY <1>1, <1>2, <1>3, CompleteType, RewindType, ProgressKept
<1>5. a \in Pending /\ Act("run-followup") \in Pending
      /\ "created" \in Stages /\ "followup-pending" \in Stages
  BY <1>1, <1>2, ActIdle DEF ActionKinds, IdleAction, Stages
<1> HIDE DEF again, a
<1>6. /\ SetStage(again, "created", a).convergence = s.convergence
      /\ SetStage(fixed, "followup-pending", Act("run-followup")).convergence = s.convergence
  BY <1>2, <1>3, <1>4, <1>5, SetStageType DEF Kept
<1>7. WithFixAction(s).convergence = s.convergence
  BY <1>1 DEF WithFixAction, Cycle
<1> QED
  BY <1>6, <1>7 DEF MarkFixDetected, MarkProfileFixReviewNeeded, again, closed, fixed, a

\* Resuming counts a tree only where a round awaits its decision, and takes the round away.
LEMMA ResumeGranted ==
  ASSUME NEW s, Good(s), Sound(s), head \in Heads
  PROVE  /\ Granted(s, Resume(s))
         /\ s.stage # "decision-pending" \/ Resume(s).stage = "decision-pending"
              => Resume(s).convergence = s.convergence
         /\ s.stage \in {"created", "review-green"}
              => Resume(s).stage \in {"created", "review-green"}
<1>0. s \in Cycle
  BY DEF Good
<1>1. ASSUME s.stage = "created"
      PROVE  /\ ResumeCreated(s).convergence = s.convergence
             /\ ResumeCreated(s).stage = "created"
  <2> DEFINE moved == [s EXCEPT !.heads.head = head, !.validation = NewValidation]
  <2>1. Good(moved) /\ moved.convergence = s.convergence /\ moved.stage = "created"
    BY <1>0, <1>1, MovedGood
  <2> HIDE DEF moved
  <2>2. /\ MarkDeslopClosed(moved, FALSE).convergence = moved.convergence
        /\ MarkDeslopClosed(moved, FALSE).stage = "created"
    BY <2>1 DEF MarkDeslopClosed, Good, Cycle
  <2> QED
    BY <1>1, <2>1, <2>2 DEF ResumeCreated, moved
<1>2. ASSUME s.stage = "decision-pending"
      PROVE  /\ Granted(s, ResumeDecision(s))
             /\ ResumeDecision(s).stage = "decision-pending"
                  => ResumeDecision(s).convergence = s.convergence
  <2> DEFINE moved == [s EXCEPT !.heads.head = head]
  <2>1. Good(moved) /\ Sound(moved) /\ moved.stage = "decision-pending"
        /\ moved.convergence = s.convergence
    BY <1>0, <1>2, MovedGood, MovedSound DEF Cycle
  <2> HIDE DEF moved
  <2> DEFINE due == RecordDecision(moved, "findings")
  <2>2. /\ FixDue(due) /\ Sound(due)
        /\ s.convergence.continueUsed => due.convergence.continueUsed
        /\ s.convergence.continuePending =>
             due.convergence = s.convergence \/ due.convergence.status = "DECISION_REQUIRED"
    BY <2>1, DecisionGood, DecisionSound, FindingsGranted DEF DecisionRefused
  <2> HIDE DEF due
  <2>3. /\ MarkFixDetected(due, head).convergence = due.convergence
        /\ MarkFixDetected(due, head).stage # "decision-pending"
    BY <2>2, FixGranted, FixDetectedSound
  <2> QED
    BY <1>2, <2>1, <2>2, <2>3 DEF ResumeDecision, Granted, moved, due
<1>3. ASSUME s.stage = "review-green"
      PROVE  /\ ResumeGreen(s).convergence = s.convergence
             /\ ResumeGreen(s).stage \in {"created", "review-green"}
  <2> DEFINE g == [status |-> "unknown", head |-> None]
             t == [s EXCEPT !.heads.head = head, !.github = g]
             reset == [t EXCEPT !.heads.fix = head, !.validation = NewValidation]
             rewound == RewindStep(reset, LastCompleted(t))
  <2>1. g \in Github /\ NewValidation \in Validation
    BY DEF Github, NewValidation, Validation, GateStatuses
  <2> HIDE DEF g
  <2>2. t \in Cycle /\ t.convergence = s.convergence /\ t.progress = s.progress
    BY <1>0, <2>1 DEF Cycle, ReviewHeads
  <2> HIDE DEF t
  <2>3. reset \in Cycle /\ reset.convergence = s.convergence
    BY <2>1, <2>2 DEF Cycle, ReviewHeads
  <2> HIDE DEF reset
  <2>4. LastCompleted(t) \in Steps
    BY <1>3, <2>2, LastCompletedType DEF Completed, Good, GreenWasReviewed
  <2>5. rewound \in Cycle /\ rewound.convergence = s.convergence
    BY <2>3, <2>4, RewindType, ProgressKept DEF Kept
  <2> HIDE DEF rewound
  <2>6. Act("run-review-step") \in Pending /\ "created" \in Stages
    BY ActIdle DEF ActionKinds, IdleAction, Stages
  <2>7. LET r == SetStage(rewound, "created", Act("run-review-step"))
        IN  r.convergence = s.convergence /\ r.stage = "created"
    BY <2>5, <2>6, SetStageType
  <2> QED
    BY <1>3, <2>7 DEF ResumeGreen, MarkLatestProfileStepRerunNeeded, rewound, reset, t, g
<1>4. ASSUME s.stage = "fix-pending"
      PROVE  ResumeFix(s).convergence = s.convergence
  <2> DEFINE moved == IF clean THEN [s EXCEPT !.heads.head = head] ELSE s
  <2>1. Good(moved) /\ moved.stage = "fix-pending" /\ moved.findings = s.findings
        /\ moved.convergence = s.convergence
    BY <1>0, <1>4, MovedGood DEF Cycle
  <2> HIDE DEF moved
  <2>2. FixDue(moved)
    BY <2>1, <1>4 DEF FixDue, Good, FixHasFindings
  <2> QED
    BY <2>1, <2>2, FixGranted DEF ResumeFix, moved
<1> QED
  BY <1>1, <1>2, <1>3, <1>4 DEF Resume, Granted

\* Retrying a round changes no convergence.
LEMMA RetryGranted ==
  ASSUME NEW s, Good(s)
  PROVE  /\ RetryBlocked(s).convergence = s.convergence
         /\ s.stage # "decision-pending" => RetryBlocked(s) = s
  BY DEF RetryBlocked, SetStage, Good, Cycle

\* The loop of an invocation counts at most one tree, and none unless a round awaits its
\* decision.
LEMMA SettleGranted ==
  ASSUME NEW s, Good(s), Sound(s), head \in Heads, ~SettleRefused(s)
  PROVE  /\ Granted(s, Settle(s))
         /\ s.stage # "decision-pending" => Settle(s).convergence = s.convergence
<1> DEFINE ready == ResumeAndRetry(s)
<1>1. ASSUME NEW t, Good(t), Sound(t)
      PROVE  /\ Good(ResumeAndRetry(t)) /\ Sound(ResumeAndRetry(t)) /\ Granted(t, ResumeAndRetry(t))
             /\ t.stage # "decision-pending" \/ ResumeAndRetry(t).stage = "decision-pending"
                  => ResumeAndRetry(t).convergence = t.convergence
             /\ ResumeAndRetry(t).stage = "decision-pending" => t.stage = "decision-pending"
             /\ t.stage \in {"created", "review-green"}
                  => ResumeAndRetry(t).stage \in {"created", "review-green"}
  <2>1. CASE ResumeAndRetry(t) = t
    BY <1>1, <2>1 DEF Granted
  <2>2. CASE ResumeAndRetry(t) = RetryBlocked(Resume(t))
    <3> DEFINE u == Resume(t)
    <3>1. /\ Good(u) /\ Sound(u) /\ Granted(t, u)
          /\ t.stage # "decision-pending" \/ u.stage = "decision-pending"
                  => u.convergence = t.convergence
          /\ t.stage \in {"created", "review-green"} => u.stage \in {"created", "review-green"}
          /\ u.stage = "decision-pending" => t.stage = "decision-pending"
      BY <1>1, ResumeGood, ResumeSound, ResumeGranted
    <3> HIDE DEF u
    <3>2. /\ Good(RetryBlocked(u)) /\ Sound(RetryBlocked(u))
          /\ RetryBlocked(u).convergence = u.convergence
          /\ u.stage # "decision-pending" => RetryBlocked(u) = u
          /\ RetryBlocked(u).stage = "decision-pending" => RetryBlocked(u) = u
      BY <3>1, RetryGood, RetrySound, RetryGranted
    <3> QED
      BY <2>2, <3>1, <3>2 DEF Granted, u
  <2> QED
    BY <2>1, <2>2 DEF ResumeAndRetry
<1>2. CASE ~AutoDecides(ready)
  BY <1>1, <1>2 DEF Settle
<1>3. CASE AutoDecides(ready)
  <2> DEFINE d == ready.round.verdict
             decided == RecordDecision(ready, d)
  <2>1. /\ Good(ready) /\ Sound(ready) /\ ready.stage = "decision-pending"
        /\ ready.convergence = s.convergence /\ s.stage = "decision-pending"
        /\ ~DecisionRefused(ready, d)
    BY <1>1, <1>3 DEF AutoDecides, SettleRefused
  <2> HIDE DEF ready
  <2>2. /\ Good(decided) /\ Sound(decided) /\ Granted(s, decided)
        /\ decided.stage # "decision-pending"
    <3>1. CASE d = "clean"
      BY <2>1, <3>1, DecisionGood, DecisionSound, CleanGranted DEF Granted
    <3>2. CASE d # "clean"
      BY <2>1, <3>2, DecisionGood, DecisionSound, FindingsGranted DEF Granted, FixDue
    <3> QED
      BY <3>1, <3>2
  <2> HIDE DEF decided
  <2>3. Settle(s) = ResumeAndRetry(decided)
    BY <1>3 DEF Settle, ready, decided
  <2>4. Granted(s, ResumeAndRetry(decided))
    BY <1>1, <2>2 DEF Granted
  <2> QED
    BY <2>1, <2>3, <2>4
<1> QED
  BY <1>2, <1>3

\* what a cleanup or a follow-up works on has not spent what CONTINUE granted
Unspent ==
    /\ w.run \in {"deslop", "followup"} =>
         /\ c.convergence.continueUsed => w.state.convergence.continueUsed
         /\ c.convergence.continuePending => w.state.convergence.trees = c.convergence.trees
    /\ w.run = "followup" /\ c.convergence.continuePending =>
         w.state.convergence = c.convergence

Ladder == IInv /\ LInv

\* what the next document of the cycle may have spent
StepGranted ==
    /\ c.convergence.continuePending /\ c'.convergence.trees # c.convergence.trees
         => c'.convergence.status = "DECISION_REQUIRED"
    /\ c.convergence.continueUsed => c'.convergence.continueUsed

\* A cleanup starts from a document that spent nothing.
LEMMA RunCleanupUnspent ==
  ASSUME Ladder, Unspent, NEW s, Good(s), Granted(c, s), NEW by, RunCleanup(s, by)
  PROVE  Unspent' /\ c' = c
<1>1. s.stage \in {"created", "retry-requested"} /\ c' = c /\ s \in Cycle
  BY DEF RunCleanup, DeslopShouldRun, Good
<1>2. FollowHead(s).convergence = s.convergence
  BY <1>1 DEF FollowHead, Cycle
<1>3. w' = [run |-> "deslop", by |-> by, state |-> FollowHead(s)]
  BY DEF RunCleanup, Working
<1>4. s.convergence.status # "DECISION_REQUIRED"
  BY <1>1 DEF Good, BudgetStage
<1> QED
  BY <1>1, <1>2, <1>3, <1>4 DEF Unspent, Granted

\* Once the invocation is over nothing is left unsaved.
LEMMA NothingUnspent ==
  ASSUME w'.run \in {"nothing", "review"}
  PROVE  Unspent'
  BY DEF Unspent

\* A rerun spends at most what CONTINUE granted, in the stored document and in the one it
\* works on.
LEMMA RerunGranted == ASSUME Ladder, Unspent, Rerun PROVE Unspent' /\ StepGranted
<1> DEFINE s == Settle(c)
<1>1. /\ Good(c) /\ Sound(c) /\ head \in Heads /\ ~SettleRefused(c) /\ w.run = "nothing"
      /\ Good(s) /\ Sound(s) /\ Granted(c, s)
      /\ c.stage # "decision-pending" => s.convergence = c.convergence
  BY SettleGood, SettleSound, SettleGranted
     DEF Ladder, IInv, LInv, Rerun, RerunCleanup, RerunLaunch, RerunFollowup, RerunIdle, Idle
<1>2. CASE RerunCleanup
  BY <1>1, <1>2, RunCleanupUnspent DEF RerunCleanup, StepGranted
<1>3. CASE RerunLaunch
  <2> DEFINE a == [kind |-> "collect-review-step", step |-> s.progress.next,
                   fix |-> s.pending.fix, head |-> head]
             saved == [SetStage(s, "running", a) EXCEPT !.round = LaunchedRound]
  <2>1. /\ c' = saved /\ w' = [run |-> "review", by |-> "rerun", state |-> saved]
    BY <1>3 DEF RerunLaunch, Working
  <2>2. saved.convergence = s.convergence
    BY <1>1 DEF SetStage, Good, Cycle
  <2> HIDE DEF saved, s
  <2> QED
    BY <1>1, <2>1, <2>2, NothingUnspent DEF Granted, StepGranted
<1>4. CASE RerunFollowup
  <2> DEFINE t == [s EXCEPT !.pending.head = head, !.round = LaunchedRound]
  <2>1. /\ s.stage = "followup-pending" /\ c' = c
        /\ w' = [run |-> "followup", by |-> "rerun", state |-> t]
    BY <1>4 DEF RerunFollowup, Working
  <2> HIDE DEF s
  <2>2. t.convergence = s.convergence
    BY <1>1 DEF Good, Cycle
  <2> HIDE DEF t
  <2>3. s.convergence.status # "DECISION_REQUIRED"
    BY <1>1, <2>1 DEF Good, BudgetStage
  <2> QED
    BY <1>1, <2>1, <2>2, <2>3 DEF Granted, Unspent, StepGranted
<1>5. CASE RerunIdle
  <2>1. c' = Resume(s) /\ w' = w
    BY <1>5 DEF RerunIdle
  <2>2. s.stage # "decision-pending" => Resume(s).convergence = s.convergence
    BY <1>1, ResumeGranted
  <2>3. s.stage = "decision-pending" => s.convergence = c.convergence
    <3>1. ASSUME NEW t, Good(t), Sound(t), ResumeAndRetry(t).stage = "decision-pending"
          PROVE  ResumeAndRetry(t).convergence = t.convergence /\ t.stage = "decision-pending"
      <4>1. CASE ResumeAndRetry(t) = t
        BY <3>1, <4>1
      <4>2. CASE ResumeAndRetry(t) = RetryBlocked(Resume(t))
        BY <3>1, <4>2, <1>1, ResumeGood, ResumeSound, ResumeGranted, RetrySound
      <4> QED
        BY <4>1, <4>2 DEF ResumeAndRetry
    <3>2. AutoDecides(ResumeAndRetry(c)) => s.stage # "decision-pending"
      <4> DEFINE ready == ResumeAndRetry(c)
                 d == ready.round.verdict
                 decided == RecordDecision(ready, d)
      <4> SUFFICES ASSUME AutoDecides(ready) PROVE s.stage # "decision-pending"
        OBVIOUS
      <4>1. Good(ready) /\ Sound(ready) /\ ready.stage = "decision-pending"
            /\ ~DecisionRefused(ready, d)
        BY <1>1, ResumeGood, ResumeSound, RetryGood, RetrySound
           DEF ResumeAndRetry, AutoDecides, SettleRefused
      <4> HIDE DEF ready
      <4>2. Good(decided) /\ Sound(decided) /\ decided.stage # "decision-pending"
        <5>1. CASE d = "clean"
          BY <4>1, <5>1, DecisionGood, DecisionSound, CleanGranted
        <5>2. CASE d # "clean"
          BY <4>1, <5>2, DecisionGood, DecisionSound DEF FixDue
        <5> QED
          BY <5>1, <5>2
      <4>3. s = ResumeAndRetry(decided)
        BY DEF Settle, ready
      <4> QED
        BY <3>1, <4>2, <4>3
    <3>3. ~AutoDecides(ResumeAndRetry(c)) => s = ResumeAndRetry(c)
      BY DEF Settle
    <3> QED
      BY <1>1, <3>1, <3>2, <3>3
  <2>4. Granted(s, Resume(s))
    BY <1>1, ResumeGranted
  <2> HIDE DEF s
  <2>5. StepGranted
    BY <1>1, <2>1, <2>2, <2>3, <2>4 DEF Granted, StepGranted
  <2> QED
    BY <1>1, <2>1, <2>5, NothingUnspent
<1> QED
  BY <1>2, <1>3, <1>4, <1>5 DEF Rerun

\* The end of a closure pass spends nothing: what it worked on counts no tree.
LEMMA EndCleanupGranted == ASSUME Ladder, Unspent, EndCleanup PROVE Unspent' /\ StepGranted
<1>1. PICK done \in BOOLEAN, drifted \in {FALSE, HasBrief} :
        LET s == IF done THEN MarkDeslopDone(w.state, drifted, w.state.heads.head)
                 ELSE MarkDeslopFailed(w.state)
        IN  c' = IF w.by = "rerun" THEN Settle(s) ELSE s
  BY DEF EndCleanup
<1> DEFINE s == IF done THEN MarkDeslopDone(w.state, drifted, w.state.heads.head)
                ELSE MarkDeslopFailed(w.state)
<1>2. CleanupRuns(w.state) /\ Sound(w.state) /\ drifted \in BOOLEAN /\ head \in Heads
      /\ w.run = "deslop"
  BY ModeAssumption DEF EndCleanup, Ladder, IInv, LInv
<1>3. Good(s) /\ Sound(s) /\ s.stage \in {"created", "retry-requested"}
  BY <1>2, CleanupEndsGood, CleanupEndsSound
<1>4. s.convergence = w.state.convergence
  BY <1>2 DEF MarkDeslopDone, MarkDeslopFailed, SetStage, CleanupRuns, Good, Cycle
<1> HIDE DEF s
<1>5. ~SettleRefused(s) /\ Settle(s).convergence = s.convergence
  BY <1>2, <1>3, RefusedRound, SettleGranted
<1>6. c'.convergence = w.state.convergence
  BY <1>1, <1>4, <1>5 DEF s
<1>7. w'.run = "nothing"
  BY NoWorkType DEF EndCleanup
<1> QED
  BY <1>2, <1>6, <1>7, NothingUnspent DEF Unspent, StepGranted

\* The result of a round spends at most what CONTINUE granted.
LEMMA FinishGranted ==
  ASSUME Ladder, Unspent, FinishReview \/ FinishReviewRefused \/ EndFollowup \/ Crash
  PROVE  Unspent' /\ StepGranted
<1>1. Unspent'
  BY NoWorkType, NothingUnspent DEF FinishReview, FinishReviewRefused, EndFollowup, Crash
<1>2. CASE FinishReview
  <2> DEFINE s == ReviewStepPending(c)
  <2>1. Good(s) /\ Sound(s) /\ head \in Heads
    BY <1>2, ReviewPendingGood, ReviewPendingSound
       DEF FinishReview, Ladder, IInv, LInv, Good, RoundNamed
  <2>2. s.convergence = c.convergence
    BY DEF ReviewStepPending, SetStage, Ladder, IInv, Good, Cycle
  <2> HIDE DEF s
  <2>3. ~SettleRefused(s) /\ c' = Settle(s)
    BY <1>2 DEF FinishReview, s
  <2> QED
    BY <1>1, <2>1, <2>2, <2>3, SettleGranted DEF Granted, StepGranted
<1>3. CASE EndFollowup
  <2> DEFINE s == FollowupReviewPending(w.state)
  <2>1. Good(s) /\ Sound(s) /\ s.pending.step = NoStep /\ head \in Heads /\ w.run = "followup"
    BY <1>3, FollowupPendingGood, FollowupPendingSound DEF EndFollowup, Ladder, IInv, LInv
  <2>2. s.convergence = w.state.convergence
    BY <1>3 DEF EndFollowup, FollowupReviewPending, Ladder, IInv, FollowupRuns, Good, Cycle
  <2> HIDE DEF s
  <2>3. ~SettleRefused(s) /\ c' = Settle(s)
    BY <1>3, <2>1, RefusedRound DEF EndFollowup, s
  <2>4. Granted(s, c')
    BY <2>1, <2>3, SettleGranted
  <2> QED
    BY <1>1, <2>1, <2>2, <2>4 DEF Granted, StepGranted, Unspent
<1>4. CASE FinishReviewRefused \/ Crash
  <2>1. c' = c
    BY <1>4 DEF FinishReviewRefused, Crash
  <2> QED
    BY <1>1, <2>1 DEF StepGranted
<1> QED
  BY <1>2, <1>3, <1>4

\* Recovering a blocked arena round changes no convergence.
LEMMA RecoverArenaGranted ==
  ASSUME Ladder, RecoverArena
  PROVE  c'.convergence = c.convergence
<1>1. /\ c.stage = "retry-requested" /\ c.pending.kind = "arena-blocked"
      /\ c.pending.head \in Heads /\ c.pending.step \in Steps
      /\ Good(c) /\ Sound(c) /\ head \in Heads
      /\ c.pending.step = c.progress.next
  BY NType DEF RecoverArena, Ladder, IInv, LInv, Good, RoundNamed, Sound, RoundFits
<1> DEFINE s == SetStage([c EXCEPT !.progress.next = c.pending.step], "created",
                         [Act("run-review-step") EXCEPT !.fix = c.pending.fix])
<1>2. Good(s) /\ Sound(s) /\ s.stage = "created" /\ s.convergence = c.convergence
  BY <1>1, DismissedSound
<1> HIDE DEF s
<1>3. ~SettleRefused(s) /\ Settle(s).convergence = c.convergence
  BY <1>1, <1>2, RefusedRound, SettleGranted
<1>4. \A f : ReviewStepPending([c EXCEPT !.round = f]).convergence = c.convergence
  <2> SUFFICES ASSUME NEW f
               PROVE  ReviewStepPending([c EXCEPT !.round = f]).convergence = c.convergence
    OBVIOUS
  <2> QED
    BY <1>1 DEF ReviewStepPending, SetStage, Good, Cycle
<1> QED
  BY <1>3, <1>4 DEF RecoverArena, s

\* --decision spends at most what CONTINUE granted.
LEMMA DecideGranted == ASSUME Ladder, Unspent, NEW d, Decide(d) PROVE Unspent' /\ StepGranted
<1> DEFINE s == IF DeslopReady(c) THEN Resume(c) ELSE c
<1>1. /\ Good(s) /\ Sound(s) /\ Granted(c, s)
      /\ s.stage = "decision-pending" => s.convergence = c.convergence
  BY ResumeGood, ResumeSound, ResumeGranted DEF Ladder, IInv, LInv, Granted
<1>2. \/ RunCleanup(s, "decision")
      \/ /\ s.stage = "decision-pending" /\ c' = RecordDecision(s, d)
         /\ w' = w /\ w.run = "nothing"
  BY DEF Decide, Idle
<1> HIDE DEF s
<1>3. CASE RunCleanup(s, "decision")
  BY <1>1, <1>3, RunCleanupUnspent DEF StepGranted
<1>4. CASE /\ s.stage = "decision-pending" /\ c' = RecordDecision(s, d)
           /\ w' = w /\ w.run = "nothing"
  <2>1. StepGranted
    <3>1. CASE d = "clean"
      BY <1>1, <1>4, <3>1, CleanGranted DEF StepGranted
    <3>2. CASE d # "clean"
      BY <1>1, <1>4, <3>2, FindingsGranted DEF StepGranted
    <3> QED
      BY <3>1, <3>2
  <2> QED
    BY <1>4, <2>1, NothingUnspent
<1> QED
  BY <1>2, <1>3, <1>4

\* The other commands and the reviewers spend at most what CONTINUE granted.
LEMMA CommandGranted ==
  ASSUME Ladder, Unspent,
         \/ SaveResumed \/ DeslopDone \/ GithubResult \/ RecordGates \/ ContractConflict
         \/ Continue \/ ReplanOrReslice
  PROVE  Unspent' /\ StepGranted
<1>1. /\ Good(c) /\ Sound(c) /\ c \in Cycle /\ head \in Heads
      /\ w' = w /\ w.run = "nothing"
  BY DEF Ladder, IInv, LInv, Good, Idle, SaveResumed, DeslopDone, GithubResult, RecordGates,
         ContractConflict, Continue, ReplanOrReslice
<1>2. Unspent'
  BY <1>1, NothingUnspent
<1>3. CASE SaveResumed \/ c' = Resume(c)
  BY <1>1, <1>2, <1>3, ResumeGood, ResumeGranted DEF SaveResumed, Granted, StepGranted
<1>4. CASE DeslopDone \/ RecordGates
  <2>1. c'.convergence = c.convergence
    BY <1>1, <1>4 DEF DeslopDone, RecordGates, MarkDeslopClosed, Cycle
  <2> QED
    BY <1>2, <2>1 DEF StepGranted
<1>5. CASE GithubResult
  <2> DEFINE h == c.heads.reviewed
             recorded(result) == [c EXCEPT !.github = [status |-> result, head |-> h]]
             open == [recorded("findings") EXCEPT
                        !.findings = [head |-> h, step |-> LastCompleted(c), rerun |-> TRUE],
                        !.validation.green = FALSE]
             due == SetStage(open, "fix-pending", NoAction)
  <2>1. h \in Heads /\ Completed(c) # {}
    BY <1>1, <1>5 DEF GithubResult, Good, GreenWasReviewed
  <2>2. \A result : recorded(result).convergence = c.convergence
    BY <1>1 DEF Cycle
  <2>3. LastCompleted(c) \in Steps
    BY <2>1, LastCompletedType
  <2>4. recorded("findings") \in Cycle
    BY <1>1, <2>1 DEF Cycle, Github
  <2>5. \/ c'.convergence = c.convergence
        \/ c' = RecordAcceptedFindingsHead(due, h)
    BY <1>5, <2>2 DEF GithubResult
  <2>6. open \in Cycle /\ open.convergence = c.convergence
    <3> HIDE DEF recorded, h
    <3> QED
      BY <2>1, <2>2, <2>3, <2>4 DEF Cycle, Findings, Validation
  <2> HIDE DEF open, h
  <2>7. due \in Cycle /\ due.convergence = c.convergence
    <3>1. NoAction \in Pending /\ "fix-pending" \in Stages
      BY ActIdle DEF ActionKinds, IdleAction, Stages
    <3> QED
      BY <2>6, <3>1, SetStageType
  <2> HIDE DEF due
  <2> QED
    BY <1>2, <2>1, <2>5, <2>7, AcceptedGranted DEF StepGranted
<1>6. CASE ContractConflict
  <2>1. /\ c'.convergence.trees = c.convergence.trees
        /\ c'.convergence.continueUsed = c.convergence.continueUsed
    BY <1>1, <1>6 DEF ContractConflict, RequireConvergenceDecision, SetStage, Cycle, Convergence
  <2> QED
    BY <1>2, <2>1 DEF StepGranted
<1>7. CASE Continue
  <2> DEFINE s == [c EXCEPT !.convergence.status = "ACTIVE",
                            !.convergence.continueUsed = TRUE,
                            !.convergence.continuePending = TRUE]
             t == IF s.stage = "decision-required" /\ s.findings # NoFindings
                  THEN SetStage(s, "fix-pending", NoAction) ELSE s
  <2>1. CASE c' = Resume(c)
    BY <1>3, <2>1
  <2>2. CASE /\ c.convergence.status = "DECISION_REQUIRED" /\ ~c.convergence.continueUsed
             /\ c' = Resume(t)
    <3>1. /\ Good(t) /\ Sound(t) /\ t.stage = "fix-pending"
          /\ t.convergence.trees = c.convergence.trees /\ t.convergence.continueUsed
      BY <1>1, <2>2, ContinuedSound
    <3> HIDE DEF t
    <3>2. c'.convergence = t.convergence
      BY <1>1, <2>2, <3>1, ResumeGranted
    <3> QED
      BY <1>2, <3>1, <3>2 DEF StepGranted
  <2> QED
    BY <1>7, <2>1, <2>2 DEF Continue
<1>8. CASE ReplanOrReslice
  <2>1. /\ c'.convergence.trees = c.convergence.trees
        /\ c'.convergence.continueUsed = c.convergence.continueUsed
    BY <1>1, <1>8 DEF ReplanOrReslice, SetStage, Cycle, Convergence
  <2> QED
    BY <1>2, <2>1 DEF StepGranted
<1> QED
  BY <1>2, <1>3, <1>4, <1>5, <1>6, <1>7, <1>8

\* Every step keeps what is unspent, and spends at most what CONTINUE granted.
LEMMA NextGranted == Ladder /\ Unspent /\ [Next]_vars => Unspent' /\ StepGranted
<1> SUFFICES ASSUME Ladder, Unspent, [Next]_vars PROVE Unspent' /\ StepGranted
  OBVIOUS
<1>1. CASE RecoverArena
  <2>1. w' = w /\ w.run = "nothing"
    BY <1>1 DEF RecoverArena, Idle
  <2> QED
    BY <1>1, <2>1, RecoverArenaGranted, NothingUnspent DEF StepGranted
<1>2. CASE ReviewersEnd
  <2>1. c'.convergence = c.convergence
    BY <1>2 DEF ReviewersEnd, Ladder, IInv, Good, Cycle
  <2>2. w'.run = w.run /\ (w.run = "followup" => w'.state.convergence = w.state.convergence)
    BY <1>2 DEF ReviewersEnd, Ladder, IInv, FollowupRuns, Good, Cycle, Work
  <2>3. w.run = "deslop" => w' = w
    BY <1>2 DEF ReviewersEnd
  <2> QED
    BY <2>1, <2>2, <2>3 DEF StepGranted, Unspent
<1>3. CASE Grade \/ Git \/ UNCHANGED vars
  <2>1. c'.convergence = c.convergence /\ w' = w
    BY <1>3 DEF Grade, Git, Commit, Edit, Stash, vars, Ladder, IInv, Good, Cycle
  <2> QED
    BY <2>1 DEF StepGranted, Unspent
<1>4. CASE Advance
  BY <1>1, <1>2, <1>3, <1>4, RerunGranted, EndCleanupGranted, FinishGranted DEF Advance
<1>5. CASE Command
  BY <1>5, DecideGranted, CommandGranted DEF Command, DecideClean, DecideFindings
<1> QED
  BY <1>3, <1>4, <1>5 DEF Next

\* A stopped cycle is left only by the caller's convergence decision.
LEMMA OnlyByCaller ==
  ASSUME Ladder, [Next]_vars, c.convergence.status = "DECISION_REQUIRED",
         c'.convergence.status # "DECISION_REQUIRED"
  PROVE  Continue \/ ReplanOrReslice
<1>1. /\ c.stage = "decision-required" /\ c \in Cycle /\ w.run = "nothing"
      /\ Resume(c) = c /\ Settle(c) = c
      /\ c.pending.kind # "arena-blocked" /\ c' # c
  BY StoppedStays DEF Ladder, IInv, LInv, Good, BudgetStage, RoundNamed, Idle
<1>2. ~Rerun
  BY <1>1 DEF Rerun, RerunCleanup, RerunLaunch, RerunFollowup, RerunIdle, RunCleanup,
         DeslopShouldRun, CanLaunch
<1>3. ~EndCleanup /\ ~ReviewersEnd /\ ~FinishReview /\ ~FinishReviewRefused /\ ~EndFollowup
      /\ ~Crash /\ ~RecoverArena /\ ~Grade
  BY <1>1 DEF EndCleanup, ReviewersEnd, FinishReview, FinishReviewRefused, EndFollowup, Crash,
         Idle, RecoverArena, Grade
<1>4. ~(\E d \in {"clean", "findings"} : Decide(d))
  BY <1>1 DEF Decide, RunCleanup, DeslopShouldRun
<1>5. ~SaveResumed /\ ~GithubResult /\ ~ContractConflict
  BY <1>1 DEF SaveResumed, GithubResult, ContractConflict
<1>6. ~DeslopDone /\ ~RecordGates
  <2>1. DeslopDone \/ RecordGates => c'.convergence = c.convergence
    BY <1>1 DEF DeslopDone, RecordGates, MarkDeslopClosed, Cycle
  <2> QED
    BY <2>1
<1>7. ~Git /\ ~UNCHANGED vars
  BY <1>1 DEF Git, Commit, Edit, Stash, vars
<1> QED
  BY <1>2, <1>3, <1>4, <1>5, <1>6, <1>7 DEF Next, Advance, Command, DecideClean, DecideFindings

\* CONTINUE grants one tree: while it is pending the next tree with accepted findings stops
\* the cycle again, it is used once, and nothing but the caller's convergence decision lets a
\* stopped cycle go on; also across a follow-up that runs on a document nobody saved.
THEOREM ContinueGrants == Spec => ContinueGrantsOneTree
<1>1. Init => Ladder /\ Unspent
  <2>1. Init => IInv /\ LInv
    BY InitIInv, InitLInv
  <2>2. Init => Unspent
    BY NoWorkType DEF Init, Unspent
  <2> QED
    BY <2>1, <2>2 DEF Ladder
<1>2. (Ladder /\ Unspent) /\ [Next]_vars => (Ladder /\ Unspent)'
  BY NextIInv, NextLInv, NextGranted DEF Ladder
<1>3. Ladder /\ Unspent /\ [Next]_vars =>
        [ /\ c.convergence.continuePending /\ c'.convergence.trees # c.convergence.trees
               => c'.convergence.status = "DECISION_REQUIRED"
          /\ c.convergence.continueUsed => c'.convergence.continueUsed
          /\ c.convergence.status = "DECISION_REQUIRED"
               /\ c'.convergence.status # "DECISION_REQUIRED"
               => Continue \/ ReplanOrReslice ]_vars
  BY NextGranted, OnlyByCaller DEF StepGranted
<1> QED
  BY <1>1, <1>2, <1>3, PTL DEF Spec, ContinueGrantsOneTree

-----------------------------------------------------------------------------
(***************************************************************************)
(* The history of the branch: which of two heads is the later one.  Age is *)
(* any numbering of the heads that no move of the caller decreases; what   *)
(* is proved about trees also assumes that a tree once left never comes    *)
(* back, and what is proved about commits, that no commit does.            *)
(*                                                                         *)
(* Aged is a predicate on one document and the current HEAD, beside Good   *)
(* and Sound, with a lemma per operator: no head the document names is     *)
(* later than HEAD, the trees on which findings were accepted are older    *)
(* than the head a round reviews, and a fix that waits for its round is    *)
(* not older than any of them.  Closed is a relation between a document    *)
(* and a later one: findings are closed by a follow-up of a later tree.    *)
(***************************************************************************)
CONSTANT Age


\* no move of the caller goes back
Grows == Age \in [Heads -> Nat] /\ \A m \in Moves : Age[m[1]] <= Age[m[2]]

\* heads of the same age have the same tree, and the other way round
TreesStay == \A g, h \in Heads : Tree[g] = Tree[h] <=> Age[g] = Age[h]

\* heads of the same age are the same
CommitsStay == \A g, h \in Heads : Age[g] = Age[h] => g = h

NotPast(x, y) == x # None => Age[x] <= Age[y]
Later(x, y) == TreesStay => Age[x] < Age[y]

\* the trees of v are older than that of x, or not newer
Before(v, x) == TreesStay => \A y \in Heads : Tree[y] \in v => Age[y] < Age[x]
UpTo(v, x) == TreesStay => \A y \in Heads : Tree[y] \in v => Age[y] <= Age[x]

\* nothing the document names is later than HEAD
Ordered(s, h) ==
    /\ NotPast(s.findings.head, h)
    /\ NotPast(s.pending.fix, h) /\ NotPast(s.pending.head, h)
    /\ NotPast(s.heads.reviewed, h) /\ NotPast(s.heads.fix, h)
    /\ NotPast(s.heads.followup, h) /\ NotPast(s.heads.head, h)

\* the heads besides the reviewed one that count as heads of the ladder
Identified(s, x) ==
    NotPast(s.heads.head, x) /\ NotPast(s.heads.fix, x) /\ NotPast(s.heads.followup, x)

InRound(s) ==
    \/ s.stage \in {"running", "decision-pending"}
    \/ s.pending.kind = "arena-blocked"
    \/ s.stage = "followup-pending" /\ s.pending.head # None

ToLaunch(s) == s.stage = "created" \/ s.pending.kind = "run-deslop"

\* a round reviews a head later than all trees with findings
RoundAged(s) ==
    /\ Before(s.convergence.trees, s.pending.head)
    /\ s.pending.fix # None => UpTo(s.convergence.trees, s.pending.fix)
    /\ ~(s.stage = "decision-pending" /\ s.round.blocked) => Identified(s, s.pending.head)
    /\ NotPast(s.findings.head, s.pending.head)
    /\ s.stage = "followup-pending" \/ s.pending.step = NoStep =>
         Later(s.findings.head, s.pending.head)

\* between rounds
WaitAged(s, h) ==
    /\ s.stage = "followup-pending" => s.pending.fix = None
    /\ s.stage \in {"fix-pending", "followup-pending", "decision-required"} =>
         UpTo(s.convergence.trees, s.findings.head)
    /\ ToLaunch(s) =>
         IF s.pending.fix = None THEN Before(s.convergence.trees, h)
         ELSE UpTo(s.convergence.trees, s.pending.fix)
    /\ s.stage = "review-green" =>
         Before(s.convergence.trees, s.heads.reviewed) /\ Identified(s, s.heads.reviewed)

Aged(s, h) == Ordered(s, h) /\ (InRound(s) => RoundAged(s)) /\ WaitAged(s, h)

\* findings of s are open in r, or newer ones, or a follow-up of a later tree closed them
Closed(s, r) ==
    Deep /\ TreesStay /\ s.findings # NoFindings =>
        IF r.findings # NoFindings
        THEN Age[s.findings.head] <= Age[r.findings.head]
        ELSE r.heads.followup # None /\ Age[s.findings.head] < Age[r.heads.followup]

\* where a document rests once its findings are closed, until a round is launched
Resting == {"created", "review-green"}

Closes(s, r) ==
    /\ Closed(s, r)
    /\ Deep /\ s.findings # NoFindings /\ r.findings = NoFindings => r.stage \in Resting

\* a resting document stays one, with its findings and its follow-up
Rests(s, r) ==
    s.stage \in Resting =>
        r.stage \in Resting /\ r.findings = s.findings
        /\ r.heads.followup = s.heads.followup

HInv ==
    /\ Aged(c, head)
    /\ w.run \in {"deslop", "followup"} => Aged(w.state, head) /\ Closed(c, w.state)
    /\ w.run = "deslop" => ToLaunch(w.state)

-----------------------------------------------------------------------------
(* Ages                                                                    *)

\* A head is not past itself or a later head, and nothing is past a missing one.
LEMMA NotPastFacts ==
  ASSUME Grows
  PROVE  /\ \A h : NotPast(None, h)
         /\ \A h \in Heads : NotPast(h, h)
         /\ \A x \in MaybeHead : \A g, h \in Heads : NotPast(x, g) /\ Age[g] <= Age[h]
              => NotPast(x, h)
         /\ \A x \in MaybeHead : \A g, h \in Heads : NotPast(x, g) /\ NotPast(g, h)
              => NotPast(x, h)
<1>1. \A x \in Heads : Age[x] \in Nat /\ x # None
  BY HeadAssumption DEF Grows
<1> QED
  BY <1>1 DEF NotPast

\* What is older than a head is older than a later one.
LEMMA BeforeFacts ==
  ASSUME Grows
  PROVE  /\ \A v : \A x \in Heads : Before(v, x) => UpTo(v, x)
         /\ \A v : \A x, y \in Heads : Before(v, x) /\ NotPast(x, y) => Before(v, y)
         /\ \A v, u : \A x \in Heads : u \subseteq v /\ UpTo(v, x) => UpTo(u, x)
<1>1. \A x \in Heads : Age[x] \in Nat /\ x # None
  BY HeadAssumption DEF Grows
<1>2. ASSUME NEW v, NEW x \in Heads, Before(v, x) PROVE UpTo(v, x)
  BY <1>1, <1>2 DEF Before, UpTo
<1>3. ASSUME NEW v, NEW x \in Heads, NEW y \in Heads, Before(v, x), NotPast(x, y)
      PROVE  Before(v, y)
  BY <1>1, <1>3 DEF Before, NotPast
<1>4. ASSUME NEW v, NEW u, NEW x \in Heads, u \subseteq v, UpTo(v, x) PROVE UpTo(u, x)
  BY <1>4 DEF UpTo
<1> QED
  BY <1>2, <1>3, <1>4

\* A tree that is accepted at the head of a round is the newest one.
LEMMA UpToAccepted ==
  ASSUME Grows, NEW v, NEW u, NEW x \in Heads, Before(v, x) \/ UpTo(v, x),
         u \subseteq v \cup {Tree[x]}
  PROVE  UpTo(u, x)
<1>1. \A y \in Heads : Age[y] \in Nat
  BY DEF Grows
<1>2. UpTo(v, x)
  BY BeforeFacts
<1>3. ASSUME TreesStay, NEW y \in Heads, Tree[y] \in u PROVE Age[y] <= Age[x]
  <2>1. Tree[y] \in v \/ Tree[y] = Tree[x]
    BY <1>3
  <2>2. Tree[y] = Tree[x] => Age[y] = Age[x]
    BY <1>3 DEF TreesStay
  <2>3. Tree[y] \in v => Age[y] <= Age[x]
    BY <1>2, <1>3 DEF UpTo
  <2> QED
    BY <1>1, <2>1, <2>2, <2>3
<1> QED
  BY <1>3 DEF UpTo

\* A committed fix is later than the findings it fixes, and than all that were accepted.
LEMMA FixIsLater ==
  ASSUME Grows, NEW x \in Heads, NEW y \in Heads, NotPast(x, y), Tree[x] # Tree[y]
  PROVE  /\ Later(x, y)
         /\ \A v : UpTo(v, x) => Before(v, y)
<1>1. \A z \in Heads : Age[z] \in Nat /\ z # None
  BY HeadAssumption DEF Grows
<1>2. TreesStay => Age[x] < Age[y]
  BY <1>1 DEF TreesStay, NotPast
<1>3. ASSUME NEW v, UpTo(v, x) PROVE Before(v, y)
  BY <1>1, <1>2, <1>3 DEF UpTo, Before
<1> QED
  BY <1>2, <1>3 DEF Later

\* As HEAD moves on, a document stays as it should be.
LEMMA AgedLater ==
  ASSUME Grows, NEW s \in Cycle, NEW g \in Heads, NEW h \in Heads, Age[g] <= Age[h],
         Aged(s, g)
  PROVE  Aged(s, h)
<1>1. /\ s.findings.head \in MaybeHead /\ s.pending.fix \in MaybeHead
      /\ s.pending.head \in MaybeHead /\ s.heads.reviewed \in MaybeHead
      /\ s.heads.fix \in MaybeHead /\ s.heads.followup \in MaybeHead
      /\ s.heads.head \in MaybeHead
  BY DEF Cycle, Findings, Pending, ReviewHeads
<1>2. Ordered(s, h)
  BY <1>1, NotPastFacts DEF Aged, Ordered
<1>3. NotPast(g, h)
  BY DEF NotPast
<1>4. WaitAged(s, h)
  BY <1>3, BeforeFacts DEF Aged, WaitAged
<1> QED
  BY <1>2, <1>4 DEF Aged

-----------------------------------------------------------------------------
(* Findings of one document and of a later one                             *)

\* A document with the same findings closes none.
LEMMA SameFindings ==
  ASSUME Grows, NEW s, Good(s), NEW r, r.findings = s.findings
  PROVE  Closes(s, r)
<1>1. s.findings # NoFindings => Age[s.findings.head] \in Nat
  BY DEF Good, FindingsRecorded, Grows
<1> QED
  BY <1>1 DEF Closes, Closed

\* Closing findings in two steps is closing them.
LEMMA ClosesOn ==
  ASSUME Grows, NEW s, Good(s), NEW r, Good(r), NEW t, Good(t), Closes(s, r), Closes(r, t),
         Rests(r, t)
  PROVE  Closes(s, t)
<1> SUFFICES ASSUME Deep, s.findings # NoFindings PROVE Closes(s, t)
  BY DEF Closes, Closed
<1>1. CASE r.findings = NoFindings
  BY <1>1 DEF Closes, Closed, Rests
<1>2. CASE r.findings # NoFindings
  <2>1. Age[s.findings.head] \in Nat /\ Age[r.findings.head] \in Nat
    BY <1>2 DEF Good, FindingsRecorded, Grows
  <2>2. t.findings # NoFindings => Age[t.findings.head] \in Nat
    BY DEF Good, FindingsRecorded, Grows
  <2>3. t.heads.followup # None => Age[t.heads.followup] \in Nat
    BY DEF Good, Cycle, ReviewHeads, Grows
  <2>4. t.findings = NoFindings => t.stage \in Resting
    BY <1>2 DEF Closes
  <2>5. ASSUME TreesStay
        PROVE  IF t.findings # NoFindings
               THEN Age[s.findings.head] <= Age[t.findings.head]
               ELSE t.heads.followup # None /\ Age[s.findings.head] < Age[t.heads.followup]
    <3>1. Age[s.findings.head] <= Age[r.findings.head]
      BY <1>2, <2>5 DEF Closes, Closed
    <3>2. IF t.findings # NoFindings
          THEN Age[r.findings.head] <= Age[t.findings.head]
          ELSE t.heads.followup # None /\ Age[r.findings.head] < Age[t.heads.followup]
      BY <1>2, <2>5 DEF Closes, Closed
    <3> QED
      BY <2>1, <2>2, <2>3, <3>1, <3>2
  <2> QED
    BY <2>4, <2>5 DEF Closes, Closed
<1> QED
  BY <1>1, <1>2

-----------------------------------------------------------------------------
(* Documents with the same heads, and documents put into another stage     *)

\* A document of the same stage, round, heads, findings and trees is as aged.
LEMMA StaysAged ==
  ASSUME NEW s, NEW t, NEW h, Aged(s, h),
         t.stage = s.stage, t.pending = s.pending, t.heads = s.heads,
         t.findings = s.findings, t.convergence.trees = s.convergence.trees,
         t.round.blocked = s.round.blocked \/ s.stage # "decision-pending"
  PROVE  Aged(t, h)
<1>1. Ordered(t, h)
  BY DEF Aged, Ordered
<1>2. InRound(t) => RoundAged(t)
  BY DEF Aged, InRound, RoundAged, Identified
<1>3. WaitAged(t, h)
  BY DEF Aged, WaitAged, ToLaunch, Identified
<1> QED
  BY <1>1, <1>2, <1>3 DEF Aged

\* nothing the document names outside its pending round is later than HEAD
HeadsOrdered(s, h) ==
    /\ NotPast(s.findings.head, h) /\ NotPast(s.heads.reviewed, h)
    /\ NotPast(s.heads.fix, h) /\ NotPast(s.heads.followup, h) /\ NotPast(s.heads.head, h)

\* An action without a round has no head.
Headless(a) == IdleAction(a) /\ a.head = None

\* Actions without a round name no head but that of a fix.
LEMMA ActHeadless ==
  ASSUME NEW k \in ActionKinds \ {"arena-blocked"}
  PROVE  /\ Headless(Act(k)) /\ Act(k).fix = None /\ Act(k).kind = k
         /\ Headless(NoAction) /\ NoAction.fix = None /\ NoAction.kind = "none"
         /\ \A f \in MaybeHead : /\ Headless([Act(k) EXCEPT !.fix = f])
                                 /\ [Act(k) EXCEPT !.fix = f].fix = f
                                 /\ [Act(k) EXCEPT !.fix = f].kind = k
  BY ActIdle DEF Headless, Act, NoAction

\* A document moved to a stage is aged, if the demands of that stage are met.
LEMMA SetStageAged ==
  ASSUME NEW s \in Cycle, NEW stage \in IdleStages, NEW a, Headless(a), NEW h,
         Grows, HeadsOrdered(s, h), NotPast(a.fix, h),
         stage = "followup-pending" => a.fix = None,
         stage \in {"fix-pending", "followup-pending", "decision-required"} =>
           UpTo(s.convergence.trees, s.findings.head),
         stage = "created" \/ a.kind = "run-deslop" =>
           IF a.fix = None THEN Before(s.convergence.trees, h)
           ELSE UpTo(s.convergence.trees, a.fix),
         stage = "review-green" =>
           Before(s.convergence.trees, s.heads.reviewed) /\ Identified(s, s.heads.reviewed)
  PROVE  LET r == SetStage(s, stage, a)
         IN  Aged(r, h) /\ r.findings = s.findings /\ r.heads = s.heads /\ r.stage = stage
             /\ r.convergence = s.convergence /\ r.pending = a
<1> DEFINE r == SetStage(s, stage, a)
<1>1. /\ r.stage = stage /\ r.pending = a /\ r.convergence = s.convergence
      /\ r.findings = s.findings /\ r.heads = s.heads
  BY SetStageType DEF IdleStages, IdleAction, Headless
<1> HIDE DEF r
<1>2. Ordered(r, h)
  BY <1>1, NotPastFacts DEF Ordered, HeadsOrdered, Headless
<1>3. ~InRound(r)
  BY <1>1 DEF InRound, Headless, IdleAction, IdleStages
<1>4. WaitAged(r, h)
  BY <1>1 DEF WaitAged, ToLaunch, Identified
<1> QED
  BY <1>1, <1>2, <1>3, <1>4 DEF Aged, r

-----------------------------------------------------------------------------
(* Decisions and fixes                                                     *)

\* Findings that were opened on a head are newer than those accepted before.
LEMMA OpenedAged ==
  ASSUME Grows, NEW s \in Cycle, NEW x \in Heads, NEW h \in Heads, HeadsOrdered(s, h),
         s.findings.head = x, Before(s.convergence.trees, x)
  PROVE  LET due == RecordAcceptedFindingsHead(SetStage(s, "fix-pending", NoAction), x)
         IN  /\ Aged(due, h) /\ due.findings = s.findings /\ due.heads = s.heads
             /\ Aged(WithFixAction(due), h)
             /\ WithFixAction(due).findings = s.findings /\ WithFixAction(due).heads = s.heads
<1> DEFINE t == SetStage(s, "fix-pending", NoAction)
           trees == t.convergence.trees \cup {Tree[x]}
           counted == [t EXCEPT !.convergence.trees = trees,
                                !.convergence.continuePending = FALSE]
           required == [counted EXCEPT !.convergence.status = "DECISION_REQUIRED"]
           stopped == SetStage(required, "decision-required", Act("convergence-decision"))
           due == RecordAcceptedFindingsHead(t, x)
<1>1. /\ NoAction \in Pending /\ Headless(NoAction) /\ NoAction.fix = None
      /\ NoAction.kind = "none" /\ "fix-pending" \in IdleStages /\ "fix-pending" \in Stages
      /\ Headless(Act("convergence-decision")) /\ Act("convergence-decision").fix = None
      /\ Act("convergence-decision").kind = "convergence-decision"
      /\ "decision-required" \in IdleStages
      /\ Headless(Act("fix-findings")) /\ Act("fix-findings").fix = None
      /\ Act("fix-findings").kind = "fix-findings"
  BY ActHeadless DEF ActionKinds, IdleAction, Headless, Stages, IdleStages
<1>2. UpTo(s.convergence.trees, x) /\ NotPast(None, h)
  BY BeforeFacts, NotPastFacts
<1>3. /\ t \in Cycle /\ Aged(t, h) /\ t.findings = s.findings /\ t.heads = s.heads
      /\ t.stage = "fix-pending" /\ t.convergence = s.convergence /\ t.pending = NoAction
  BY <1>1, <1>2, SetStageAged, SetStageType
<1> HIDE DEF t
<1>4. trees \in SUBSET {Tree[y] : y \in Heads}
  BY <1>3 DEF Cycle, Convergence
<1>5. UpTo(trees, x)
  BY <1>3, UpToAccepted
<1> HIDE DEF trees
<1>6. /\ counted \in Cycle /\ counted.stage = t.stage /\ counted.pending = t.pending
      /\ counted.heads = t.heads /\ counted.findings = t.findings
      /\ counted.round = t.round /\ counted.convergence.trees = trees
      /\ required \in Cycle /\ required.convergence.trees = trees
      /\ required.heads = t.heads /\ required.findings = t.findings
  BY <1>3, <1>4 DEF Cycle, Convergence
<1> HIDE DEF counted, required, stopped
<1>7. Aged(counted, h)
  <2>1. Ordered(counted, h)
    BY <1>3, <1>6 DEF Aged, Ordered
  <2>2. ~InRound(counted) /\ ~ToLaunch(counted)
    BY <1>1, <1>3, <1>6 DEF InRound, ToLaunch
  <2> QED
    BY <1>3, <1>5, <1>6, <2>1, <2>2 DEF Aged, WaitAged
<1>8. HeadsOrdered(required, h)
  BY <1>3, <1>6 DEF HeadsOrdered
<1>9. /\ Aged(stopped, h) /\ stopped.findings = s.findings /\ stopped.heads = s.heads
      /\ stopped.stage = "decision-required" /\ stopped.pending = Act("convergence-decision")
      /\ stopped \in Cycle
  <2>1. "decision-required" \in Stages /\ Act("convergence-decision") \in Pending
    BY <1>1 DEF IdleStages, Headless, IdleAction
  <2> DEFINE a == Act("convergence-decision")
  <2>2. /\ Headless(a) /\ NotPast(a.fix, h) /\ a.kind # "run-deslop"
        /\ UpTo(required.convergence.trees, required.findings.head)
        /\ required.findings = s.findings /\ required.heads = s.heads
    BY <1>1, <1>2, <1>3, <1>5, <1>6
  <2> HIDE DEF a
  <2>3. LET r == SetStage(required, "decision-required", a)
        IN  /\ Aged(r, h) /\ r.findings = required.findings /\ r.heads = required.heads
            /\ r.stage = "decision-required" /\ r.pending = a
    BY <1>1, <1>6, <1>8, <2>2, SetStageAged
  <2>4. stopped \in Cycle
    BY <1>6, <2>1, SetStageType DEF stopped
  <2> QED
    BY <2>2, <2>3, <2>4 DEF a, stopped
<1>10. due = t \/ due = counted \/ due = stopped
  BY DEF RecordAcceptedFindingsHead, RequireConvergenceDecision, due, counted, required, stopped,
         trees
<1>11. /\ Aged(due, h) /\ due.findings = s.findings /\ due.heads = s.heads /\ due \in Cycle
       /\ due.stage \in {"fix-pending", "decision-required"}
  BY <1>3, <1>6, <1>7, <1>9, <1>10
<1> HIDE DEF due
<1> DEFINE r == WithFixAction(due)
<1>12. /\ r.stage = due.stage /\ r.pending = Act("fix-findings") /\ r.heads = due.heads
       /\ r.findings = due.findings /\ r.convergence = due.convergence
  BY <1>11 DEF WithFixAction, Cycle
<1> HIDE DEF r
<1>13. Aged(r, h)
  <2>1. Ordered(r, h)
    BY <1>1, <1>2, <1>11, <1>12 DEF Aged, Ordered, Headless
  <2>2. ~InRound(r) /\ ~ToLaunch(r)
    BY <1>1, <1>11, <1>12 DEF InRound, ToLaunch
  <2> QED
    BY <1>1, <1>11, <1>12, <2>1, <2>2 DEF Aged, WaitAged
<1> QED
  BY <1>11, <1>12, <1>13 DEF r, due, t

\* a round that is being decided on, as the decision finds it
Decides(s, h) ==
    /\ Ordered(s, h)
    /\ Before(s.convergence.trees, s.pending.head)
    /\ NotPast(s.findings.head, s.pending.head)
    /\ s.pending.step = NoStep => Later(s.findings.head, s.pending.head)

\* --decision findings opens findings on the head of the round, which is later than those
\* that were open.
LEMMA FindingsAged ==
  ASSUME Grows, NEW s, Good(s), s.stage = "decision-pending", NEW h \in Heads, Decides(s, h),
         NEW d, d # "clean"
  PROVE  LET r == RecordDecision(s, d) IN Aged(r, h) /\ Closes(s, r)
<1> DEFINE x == s.pending.head
           open1 == [s EXCEPT !.heads.reviewed = x,
                              !.findings = [head |-> x, step |-> s.pending.step,
                                            rerun |-> FALSE],
                              !.validation.green = FALSE]
           open2 == [s EXCEPT !.heads.followup = x,
                              !.findings = [head |-> x, step |-> s.findings.step,
                                            rerun |-> FALSE],
                              !.validation.green = FALSE]
<1>1. s \in Cycle /\ x \in Heads
  BY DEF Good, RoundNamed
<1>2. s.pending.step \in Steps \cup {NoStep} /\ s.findings.step \in Steps \cup {NoStep}
  BY <1>1 DEF Cycle, Pending, Findings
<1> HIDE DEF x
<1>3. /\ open1 \in Cycle /\ open1.convergence = s.convergence /\ open1.findings.head = x
      /\ open1.heads = [s.heads EXCEPT !.reviewed = x]
  BY <1>1, <1>2 DEF Cycle, ReviewHeads, Findings, Validation
<1>4. /\ open2 \in Cycle /\ open2.convergence = s.convergence /\ open2.findings.head = x
      /\ open2.heads = [s.heads EXCEPT !.followup = x]
  BY <1>1, <1>2 DEF Cycle, ReviewHeads, Findings, Validation
<1> HIDE DEF open1, open2
<1>5. HeadsOrdered(open1, h) /\ HeadsOrdered(open2, h)
  <2>1. NotPast(x, h)
    BY DEF Decides, Ordered, x
  <2>2. s.heads \in ReviewHeads
    BY <1>1 DEF Cycle
  <2>3. HeadsOrdered(open1, h)
    BY <1>3, <2>1, <2>2 DEF Decides, Ordered, HeadsOrdered, ReviewHeads
  <2>4. HeadsOrdered(open2, h)
    BY <1>4, <2>1, <2>2 DEF Decides, Ordered, HeadsOrdered, ReviewHeads
  <2> QED
    BY <2>3, <2>4
<1>6. Before(s.convergence.trees, x)
  BY DEF Decides, x
<1>7. ASSUME NEW o \in {open1, open2}
      PROVE  LET r == WithFixAction(RecordAcceptedFindingsHead(
                          SetStage(o, "fix-pending", NoAction), x))
             IN  Aged(r, h) /\ r.findings.head = x
  <2>1. o \in Cycle /\ o.findings.head = x /\ HeadsOrdered(o, h)
        /\ Before(o.convergence.trees, x)
    BY <1>3, <1>4, <1>5, <1>6, <1>7
  <2> QED
    BY <1>1, <2>1, OpenedAged
<1> DEFINE r == RecordDecision(s, d)
<1>8. Aged(r, h) /\ r.findings.head = x
  BY <1>7 DEF RecordDecision, RecordFindingsDecision, RecordFollowupFindings, open1, open2,
              IsFollowup, x
<1> HIDE DEF r
<1>9. Closes(s, r)
  <2>1. r.findings # NoFindings
    BY <1>1, <1>8, HeadAssumption DEF NoFindings
  <2>2. s.findings # NoFindings => Age[s.findings.head] <= Age[x]
    BY HeadAssumption DEF Decides, NotPast, Good, FindingsRecorded, x
  <2> QED
    BY <1>8, <2>1, <2>2 DEF Closes, Closed
<1> QED
  BY <1>8, <1>9 DEF r

\* A step counted as clean leaves a green document whose reviewed head is the newest one of
\* the ladder, or one whose next round reviews a later head than all trees with findings.
LEMMA AdvancedAged ==
  ASSUME Grows, NEW s \in Cycle, NEW h \in Heads, NEW x \in Heads, NotPast(x, h),
         HeadsOrdered(s, h), Before(s.convergence.trees, x), s.heads.reviewed = x,
         Identified(s, x)
  PROVE  /\ Aged(AdvanceOrGreen(s), h)
         /\ Aged(SetStage(s, "created", Act("run-review-step")), h)
<1> DEFINE t(green) == [s EXCEPT !.validation.green = green]
<1>1. ASSUME NEW green \in BOOLEAN
      PROVE  /\ t(green) \in Cycle /\ t(green).findings = s.findings
             /\ t(green).heads = s.heads /\ t(green).convergence = s.convergence
  BY <1>1 DEF Cycle, Validation
<1>2. /\ Headless(NoAction) /\ NoAction.fix = None /\ NoAction.kind = "none"
      /\ Headless(Act("run-review-step")) /\ Act("run-review-step").fix = None
      /\ Act("run-review-step").kind = "run-review-step"
      /\ "created" \in IdleStages /\ "review-green" \in IdleStages
  BY ActHeadless DEF ActionKinds, IdleStages, Stages
<1>3. Before(s.convergence.trees, h) /\ NotPast(None, h)
  BY BeforeFacts, NotPastFacts
<1> HIDE DEF t
<1>4. ASSUME NEW u \in Cycle, u.findings = s.findings, u.heads = s.heads,
             u.convergence = s.convergence
      PROVE  /\ Aged(SetStage(u, "created", Act("run-review-step")), h)
             /\ Aged(SetStage(u, "review-green", NoAction), h)
  <2>1. HeadsOrdered(u, h) /\ Identified(u, x)
    BY <1>4 DEF HeadsOrdered, Identified
  <2>2. Aged(SetStage(u, "created", Act("run-review-step")), h)
    BY <1>2, <1>3, <1>4, <2>1, SetStageAged
  <2>3. Aged(SetStage(u, "review-green", NoAction), h)
    BY <1>2, <1>3, <1>4, <2>1, SetStageAged
  <2> QED
    BY <2>2, <2>3
<1> QED
  BY <1>1, <1>4 DEF AdvanceOrGreen, t

\* --decision clean on a profile round makes its head the newest of the ladder.
LEMMA CleanRoundAged ==
  ASSUME Grows, NEW s, Good(s), Sound(s), s.stage = "decision-pending", NEW h \in Heads,
         Aged(s, h), ~s.round.blocked, s.pending.step # NoStep
  PROVE  Aged(RecordCleanDecision(s), h)
<1> DEFINE x == s.pending.head
           i == s.pending.step
           decided == [s EXCEPT !.heads.reviewed = x,
                                !.convergence.continuePending = FALSE]
           done == CompleteStep(decided, i, x)
           next == AdvanceAfterClean(done, i)
<1>1. /\ s \in Cycle /\ x \in Heads /\ i \in Steps /\ NotPast(x, h)
      /\ Before(s.convergence.trees, x) /\ Identified(s, x) /\ HeadsOrdered(s, h)
  BY DEF Good, RoundNamed, Cycle, Pending, Aged, InRound, RoundAged, Ordered, HeadsOrdered
<1> HIDE DEF x, i
<1>2. /\ decided \in Cycle /\ decided.convergence.trees = s.convergence.trees
      /\ decided.findings = s.findings /\ decided.heads = [s.heads EXCEPT !.reviewed = x]
  BY <1>1 DEF Cycle, ReviewHeads, Convergence
<1> HIDE DEF decided
<1>3. done \in Cycle /\ Kept(decided, done)
  BY <1>1, <1>2, CompleteType, ProgressKept
<1> HIDE DEF done
<1>4. next \in Cycle /\ Kept(done, next)
  BY <1>1, <1>3, AdvanceType, ProgressKept
<1> HIDE DEF next
<1>5. /\ next.heads = [s.heads EXCEPT !.reviewed = x] /\ next.findings = s.findings
      /\ next.convergence.trees = s.convergence.trees
  BY <1>2, <1>3, <1>4 DEF Kept
<1>6. s.heads \in ReviewHeads
  BY <1>1 DEF Cycle
<1>7. HeadsOrdered(next, h) /\ Identified(next, x) /\ next.heads.reviewed = x
  BY <1>1, <1>5, <1>6 DEF HeadsOrdered, Identified, ReviewHeads
<1>8. Aged(AdvanceOrGreen(next), h)
  BY <1>1, <1>4, <1>5, <1>7, AdvancedAged
<1> QED
  BY <1>8 DEF RecordCleanDecision, next, done, decided, x, i

\* --decision clean on a follow-up round closes the findings by the later head it reviewed.
LEMMA CleanFollowupAged ==
  ASSUME Grows, NEW s, Good(s), Sound(s), s.stage = "decision-pending", NEW h \in Heads,
         Aged(s, h), ~s.round.blocked, s.pending.step = NoStep
  PROVE  LET r == RecordFollowupClean(s) IN Aged(r, h) /\ Closes(s, r)
<1> DEFINE x == s.pending.head
           i == s.findings.step
           closed == [s EXCEPT !.heads.followup = x,
                               !.convergence.continuePending = FALSE,
                               !.findings = NoFindings]
           reset == [closed EXCEPT !.validation.green = FALSE]
           rewound == RewindStep(reset, i)
           done == CompleteStep(closed, i, x)
           again == SetStage(rewound, "created", Act("run-review-step"))
<1>1. /\ s \in Cycle /\ x \in Heads /\ i \in Steps /\ NotPast(x, h)
      /\ Before(s.convergence.trees, x) /\ Identified(s, x) /\ HeadsOrdered(s, h)
      /\ s.heads.reviewed = x /\ Later(s.findings.head, x)
  BY DEF Good, RoundNamed, FindingsRecorded, Aged, InRound, RoundAged, Ordered, HeadsOrdered,
         Sound, RoundFits
<1> HIDE DEF x, i
<1>2. /\ closed \in Cycle /\ closed.convergence.trees = s.convergence.trees
      /\ closed.findings = NoFindings /\ closed.heads = [s.heads EXCEPT !.followup = x]
  BY <1>1 DEF Cycle, ReviewHeads, Convergence, Findings, NoFindings
<1> HIDE DEF closed
<1>3. /\ reset \in Cycle /\ reset.convergence = closed.convergence
      /\ reset.findings = closed.findings /\ reset.heads = closed.heads
  BY <1>2 DEF Cycle, Validation
<1> HIDE DEF reset
<1>4. rewound \in Cycle /\ Kept(reset, rewound)
  BY <1>1, <1>3, RewindType, ProgressKept
<1>5. done \in Cycle /\ Kept(closed, done)
  BY <1>1, <1>2, CompleteType, ProgressKept
<1> HIDE DEF rewound, done
<1>6. s.heads \in ReviewHeads /\ NotPast(None, h) /\ NotPast(x, x) /\ NoFindings.head = None
  BY <1>1, NotPastFacts DEF Cycle, NoFindings
<1>7. ASSUME NEW u \in Cycle, u.heads = closed.heads, u.findings = NoFindings,
             u.convergence = closed.convergence
      PROVE  /\ Aged(AdvanceOrGreen(u), h)
             /\ Aged(SetStage(u, "created", Act("run-review-step")), h)
  <2>1. HeadsOrdered(u, h) /\ Identified(u, x) /\ u.heads.reviewed = x
    BY <1>1, <1>2, <1>6, <1>7 DEF HeadsOrdered, Identified, ReviewHeads
  <2>2. Before(u.convergence.trees, x)
    BY <1>1, <1>2, <1>7
  <2> QED
    BY <1>1, <1>7, <2>1, <2>2, AdvancedAged
<1>8. Aged(again, h) /\ Aged(AdvanceOrGreen(done), h)
  BY <1>2, <1>3, <1>4, <1>5, <1>7 DEF Kept
<1>9. /\ again.findings = NoFindings /\ again.heads.followup = x /\ again.stage \in Resting
  <2>1. Act("run-review-step") \in Pending /\ "created" \in Stages
    BY ActIdle DEF ActionKinds, IdleAction, Stages
  <2>2. again.findings = rewound.findings /\ again.heads = rewound.heads
        /\ again.stage = "created"
    BY <1>4, <2>1, SetStageType
  <2> HIDE DEF again
  <2> QED
    BY <1>2, <1>3, <1>4, <1>6, <2>2 DEF Kept, Resting, ReviewHeads
<1>10. LET r == AdvanceOrGreen(done)
       IN  r.findings = NoFindings /\ r.heads.followup = x /\ r.stage \in Resting
  BY <1>2, <1>5, <1>6, AdvancedTo DEF Kept, Resting, ReviewHeads
<1> HIDE DEF again
<1>11. ASSUME NEW r, r.findings = NoFindings, r.heads.followup = x, r.stage \in Resting
       PROVE  Closes(s, r)
  BY <1>1, <1>11, HeadAssumption DEF Closes, Closed, Later
<1>12. RecordFollowupClean(s) \in {again, AdvanceOrGreen(done)}
  BY DEF RecordFollowupClean, again, rewound, reset, done, closed, x, i
<1> QED
  BY <1>8, <1>9, <1>10, <1>11, <1>12

\* Every decision that is not refused keeps a document aged, and closes findings only by a
\* follow-up.
LEMMA DecisionAged ==
  ASSUME Grows, NEW s, Good(s), Sound(s), s.stage = "decision-pending", NEW h \in Heads,
         Aged(s, h), ~s.round.blocked, NEW d, ~DecisionRefused(s, d)
  PROVE  LET r == RecordDecision(s, d) IN Aged(r, h) /\ Closes(s, r)
<1>1. CASE d # "clean"
  <2>1. Decides(s, h)
    BY DEF Decides, Aged, InRound, RoundAged
  <2> QED
    BY <1>1, <2>1, FindingsAged
<1>2. CASE d = "clean" /\ s.pending.step = NoStep
  BY <1>2, CleanFollowupAged DEF RecordDecision, IsFollowup
<1>3. CASE d = "clean" /\ s.pending.step # NoStep
  <2>1. Closes(s, RecordCleanDecision(s))
    BY <1>3 DEF DecisionRefused, IsFollowup, Closes, Closed
  <2> QED
    BY <1>3, <2>1, CleanRoundAged DEF RecordDecision, IsFollowup
<1> QED
  BY <1>1, <1>2, <1>3

\* A fix of open findings waits for its round, or its follow-up, with the head that had them.
LEMMA FixDetectedAged ==
  ASSUME Grows, NEW s, FixDue(s), NEW h \in Heads, Aged(s, h)
  PROVE  LET r == MarkFixDetected(s, h)
         IN  Aged(r, h) /\ Closes(s, r) /\ (s.stage \in Resting => r = s)
<1> DEFINE fixed == [s EXCEPT !.heads.fix = h]
           f == fixed.findings
           closed == [fixed EXCEPT !.findings = NoFindings, !.validation.green = FALSE]
           again == IF FixedFindingsBudget(f.step)
                    THEN CompleteStep(closed, f.step, f.head)
                    ELSE RewindStep(closed, f.step)
           a == [Act("run-review-step") EXCEPT !.fix = f.head]
           review == SetStage(again, "created", a)
           followup == SetStage(fixed, "followup-pending", Act("run-followup"))
<1>1. /\ s \in Cycle /\ s.findings.head \in Heads /\ s.findings.step \in Steps
      /\ UpTo(s.convergence.trees, s.findings.head) /\ NotPast(s.findings.head, h)
      /\ HeadsOrdered(s, h) /\ NotPast(h, h) /\ NotPast(None, h)
  BY NotPastFacts DEF FixDue, Good, FindingsRecorded, Aged, WaitAged, Ordered, HeadsOrdered
<1>2. /\ fixed \in Cycle /\ fixed.convergence = s.convergence /\ fixed.findings = s.findings
      /\ fixed.heads = [s.heads EXCEPT !.fix = h]
  BY <1>1 DEF Cycle, ReviewHeads
<1> HIDE DEF fixed
<1>3. /\ closed \in Cycle /\ closed.convergence = s.convergence /\ closed.heads = fixed.heads
      /\ closed.findings = NoFindings /\ NoFindings.head = None
  BY <1>1, <1>2 DEF Cycle, Findings, NoFindings, Validation
<1> HIDE DEF closed
<1>4. again \in Cycle /\ Kept(closed, again)
  BY <1>1, <1>2, <1>3, CompleteType, RewindType, ProgressKept
<1>5. /\ Headless(a) /\ a.fix = s.findings.head /\ a.kind = "run-review-step"
      /\ Headless(Act("run-followup")) /\ Act("run-followup").fix = None
      /\ Act("run-followup").kind = "run-followup"
      /\ "created" \in IdleStages /\ "followup-pending" \in IdleStages
  BY <1>1, <1>2, ActHeadless DEF ActionKinds, IdleStages, Stages
<1> HIDE DEF again, a
<1>6. HeadsOrdered(fixed, h) /\ HeadsOrdered(again, h)
  <2>1. s.heads \in ReviewHeads
    BY <1>1 DEF Cycle
  <2>2. HeadsOrdered(fixed, h)
    BY <1>1, <1>2, <2>1 DEF HeadsOrdered, ReviewHeads
  <2> QED
    BY <1>1, <1>3, <1>4, <2>2 DEF HeadsOrdered, Kept
<1>7. Aged(review, h)
  <2>1. /\ again.convergence = s.convergence /\ a.fix # None
        /\ UpTo(again.convergence.trees, a.fix) /\ NotPast(a.fix, h)
    BY <1>1, <1>3, <1>4, <1>5, HeadAssumption DEF Kept
  <2> QED
    BY <1>4, <1>5, <1>6, <2>1, SetStageAged
<1>8. Aged(followup, h) /\ followup.findings = s.findings
  <2>1. UpTo(fixed.convergence.trees, fixed.findings.head)
    BY <1>1, <1>2
  <2> QED
    BY <1>1, <1>2, <1>5, <1>6, <2>1, SetStageAged
<1> HIDE DEF review, followup
<1>9. /\ Closes(s, followup) /\ Closes(s, s)
  BY <1>8, SameFindings DEF FixDue
<1>10. ~Deep => Closes(s, review)
  BY DEF Closes, Closed
<1>11. MarkFixDetected(s, h) = IF s.convergence.status = "DECISION_REQUIRED" THEN s
                               ELSE IF Deep THEN followup ELSE review
  BY DEF MarkFixDetected, MarkProfileFixReviewNeeded, review, followup, again, closed, fixed, a
<1>12. s.stage \notin Resting
  BY DEF FixDue, Resting
<1> QED
  BY <1>7, <1>8, <1>9, <1>10, <1>11, <1>12

-----------------------------------------------------------------------------
(* What an invocation does first                                           *)

\* A document that follows HEAD stays aged, unless it is green or a round of another head
\* awaits its decision.
LEMMA MovedAged ==
  ASSUME Grows, NEW s \in Cycle, NEW h \in Heads, Aged(s, h), s.stage # "review-green",
         InRound(s) => s.pending.head = h \/ (s.stage = "decision-pending" /\ s.round.blocked),
         NEW t, t.stage = s.stage, t.pending = s.pending, t.findings = s.findings,
         t.convergence = s.convergence, t.round = s.round,
         t.heads = [s.heads EXCEPT !.head = h]
  PROVE  Aged(t, h)
<1>1. s.heads \in ReviewHeads /\ NotPast(h, h)
  BY NotPastFacts DEF Cycle
<1>2. /\ t.heads.head = h /\ t.heads.fix = s.heads.fix
      /\ t.heads.followup = s.heads.followup /\ t.heads.reviewed = s.heads.reviewed
  BY <1>1 DEF ReviewHeads
<1>3. Ordered(t, h)
  BY <1>1, <1>2 DEF Aged, Ordered
<1>4. InRound(t) => RoundAged(t)
  <2> SUFFICES ASSUME InRound(t) PROVE RoundAged(t)
    OBVIOUS
  <2>1. InRound(s) /\ RoundAged(s)
    BY DEF InRound, Aged
  <2>2. ~(t.stage = "decision-pending" /\ t.round.blocked) => Identified(t, t.pending.head)
    BY <1>1, <1>2, <2>1 DEF RoundAged, Identified
  <2> QED
    BY <2>1, <2>2 DEF RoundAged
<1>5. WaitAged(t, h)
  BY DEF Aged, WaitAged, ToLaunch
<1> QED
  BY <1>3, <1>4, <1>5 DEF Aged

\* Following HEAD changes nothing else, with or without forgetting what was validated.
LEMMA MovedParts ==
  ASSUME NEW s \in Cycle, NEW h \in Heads,
         NEW t \in {[s EXCEPT !.heads.head = h],
                    [s EXCEPT !.heads.head = h, !.validation = NewValidation]}
  PROVE  /\ t.stage = s.stage /\ t.pending = s.pending /\ t.findings = s.findings
         /\ t.convergence = s.convergence /\ t.round = s.round
         /\ t.heads = [s.heads EXCEPT !.head = h] /\ t.heads.followup = s.heads.followup
  BY DEF Cycle, ReviewHeads

\* A created cycle follows HEAD.
LEMMA ResumeCreatedAged ==
  ASSUME Grows, NEW s, Good(s), Sound(s), head \in Heads, Aged(s, head), s.stage = "created"
  PROVE  LET r == ResumeCreated(s)
         IN  /\ Aged(r, head) /\ r.findings = s.findings /\ r.stage = "created"
             /\ r.heads.followup = s.heads.followup
<1> DEFINE moved == [s EXCEPT !.heads.head = head, !.validation = NewValidation]
           r == MarkDeslopClosed(moved, FALSE)
<1>1. s \in Cycle /\ ~InRound(s)
  BY DEF Good, RoundNamed, InRound
<1>2. /\ moved.stage = s.stage /\ moved.pending = s.pending /\ moved.findings = s.findings
      /\ moved.convergence = s.convergence /\ moved.round = s.round
      /\ moved.heads = [s.heads EXCEPT !.head = head]
      /\ moved.heads.followup = s.heads.followup
  BY <1>1, MovedParts
<1>3. moved \in Cycle
  BY MovedGood DEF Good
<1> HIDE DEF moved
<1>4. Aged(moved, head)
  BY <1>1, <1>2, MovedAged
<1>5. /\ r.stage = moved.stage /\ r.pending = moved.pending /\ r.findings = moved.findings
      /\ r.convergence = moved.convergence /\ r.round = moved.round /\ r.heads = moved.heads
  BY <1>3 DEF MarkDeslopClosed, Cycle
<1> HIDE DEF r
<1>6. Aged(r, head)
  BY <1>4, <1>5, StaysAged
<1> QED
  BY <1>2, <1>4, <1>5, <1>6 DEF ResumeCreated, moved, r

\* A round that HEAD has left is decided as findings; their fix is HEAD.
LEMMA ResumeDecisionAged ==
  ASSUME Grows, NEW s, Good(s), Sound(s), head \in Heads, Aged(s, head),
         s.stage = "decision-pending"
  PROVE  LET r == ResumeDecision(s)
         IN  Aged(r, head) /\ Closes(s, r)
<1> DEFINE moved == [s EXCEPT !.heads.head = head]
           due == RecordDecision(moved, "findings")
<1>1. s \in Cycle
  BY DEF Good
<1>2. /\ Good(moved) /\ moved.stage = s.stage /\ moved.pending = s.pending
      /\ moved.findings = s.findings /\ moved.convergence = s.convergence
      /\ moved.round = s.round /\ moved.heads = [s.heads EXCEPT !.head = head]
  BY <1>1, MovedGood, MovedParts
<1> HIDE DEF moved
<1>3. Closes(s, s) /\ Closes(s, moved)
  BY <1>2, SameFindings
<1>4. ASSUME s.round.blocked \/ s.pending.head = head PROVE Aged(moved, head)
  BY <1>1, <1>2, <1>4, MovedAged
<1>5. Aged(MarkFixDetected(due, head), head) /\ Closes(s, MarkFixDetected(due, head))
  <2>1. Decides(moved, head)
    <3>1. s.heads \in ReviewHeads /\ NotPast(head, head)
      BY <1>1, NotPastFacts DEF Cycle
    <3>2. Ordered(moved, head)
      BY <1>2, <3>1 DEF Aged, Ordered, ReviewHeads
    <3> QED
      BY <1>2, <3>2 DEF Decides, Aged, InRound, RoundAged
  <2>2. FixDue(due) /\ Aged(due, head) /\ Closes(moved, due)
    BY <1>2, <2>1, DecisionGood, FindingsAged
  <2> HIDE DEF due
  <2>3. LET r == MarkFixDetected(due, head)
        IN  Aged(r, head) /\ Closes(due, r) /\ Good(r) /\ (due.stage \in Resting => r = due)
    BY <2>2, FixDetectedAged, FixDetectedGood
  <2>4. Closes(s, due)
    BY <1>2, <2>2 DEF Closes, Closed
  <2>5. Rests(due, MarkFixDetected(due, head))
    BY <2>2 DEF Rests, Resting, FixDue
  <2> QED
    BY <2>2, <2>3, <2>4, <2>5, ClosesOn DEF FixDue
<1> QED
  BY <1>3, <1>4, <1>5 DEF ResumeDecision, moved, due

\* A green cycle that HEAD has left goes back to a round of HEAD.
LEMMA ResumeGreenAged ==
  ASSUME Grows, NEW s, Good(s), Sound(s), head \in Heads, Aged(s, head),
         s.stage = "review-green"
  PROVE  LET r == ResumeGreen(s)
         IN  /\ Aged(r, head) /\ r.findings = s.findings /\ r.stage \in Resting
             /\ r.heads.followup = s.heads.followup
<1> DEFINE g == [status |-> "unknown", head |-> None]
           t == [s EXCEPT !.heads.head = head, !.github = g]
           reset == [t EXCEPT !.heads.fix = head, !.validation = NewValidation]
           rewound == RewindStep(reset, LastCompleted(t))
           r == SetStage(rewound, "created", Act("run-review-step"))
<1>1. /\ s \in Cycle /\ g \in Github /\ NewValidation \in Validation
      /\ s.heads.reviewed \in Heads /\ Before(s.convergence.trees, s.heads.reviewed)
      /\ NotPast(s.heads.reviewed, head) /\ NotPast(head, head) /\ NotPast(None, head)
      /\ HeadsOrdered(s, head) /\ s.heads \in ReviewHeads
  BY NotPastFacts DEF Good, GreenWasReviewed, Aged, WaitAged, Ordered, HeadsOrdered, Cycle,
         Github, NewValidation, Validation, GateStatuses
<1> HIDE DEF g
<1>2. /\ t \in Cycle /\ t.convergence = s.convergence /\ t.progress = s.progress
      /\ t.findings = s.findings /\ t.heads = [s.heads EXCEPT !.head = head]
  BY <1>1 DEF Cycle, ReviewHeads
<1> HIDE DEF t
<1>3. /\ reset \in Cycle /\ reset.convergence = s.convergence /\ reset.findings = s.findings
      /\ reset.heads = [t.heads EXCEPT !.fix = head]
  BY <1>1, <1>2 DEF Cycle, ReviewHeads
<1> HIDE DEF reset
<1>4. LastCompleted(t) \in Steps
  BY <1>2, LastCompletedType DEF Completed, Good, GreenWasReviewed
<1>5. /\ rewound \in Cycle /\ Kept(reset, rewound)
  BY <1>3, <1>4, RewindType, ProgressKept
<1> HIDE DEF rewound
<1>6. HeadsOrdered(rewound, head) /\ rewound.heads.followup = s.heads.followup
      /\ rewound.convergence = s.convergence /\ rewound.findings = s.findings
  BY <1>1, <1>2, <1>3, <1>5 DEF HeadsOrdered, Kept, ReviewHeads
<1>7. /\ Headless(Act("run-review-step")) /\ Act("run-review-step").fix = None
      /\ "created" \in IdleStages
  BY ActHeadless DEF ActionKinds, IdleStages, Stages
<1>8. Before(s.convergence.trees, head)
  BY <1>1, BeforeFacts
<1>9. Aged(r, head) /\ r.findings = rewound.findings /\ r.heads = rewound.heads
      /\ r.stage = "created"
  BY <1>1, <1>5, <1>6, <1>7, <1>8, SetStageAged
<1> HIDE DEF r
<1> QED
  BY <1>6, <1>9
     DEF ResumeGreen, MarkLatestProfileStepRerunNeeded, Resting, r, rewound, reset, t, g

\* Findings whose tree HEAD has left are fixed by HEAD.
LEMMA ResumeFixAged ==
  ASSUME Grows, NEW s, Good(s), Sound(s), head \in Heads, Aged(s, head),
         s.stage = "fix-pending"
  PROVE  LET r == ResumeFix(s)
         IN  Aged(r, head) /\ Closes(s, r)
<1> DEFINE moved == IF clean THEN [s EXCEPT !.heads.head = head] ELSE s
           r == WithFixAction(moved)
<1>1. s \in Cycle /\ ~InRound(s)
  BY DEF Good, RoundNamed, InRound
<1>2. Good(moved) /\ moved.stage = s.stage /\ moved.findings = s.findings /\ Aged(moved, head)
  <2> DEFINE t == [s EXCEPT !.heads.head = head]
  <2>1. /\ Good(t) /\ t.stage = s.stage /\ t.pending = s.pending
        /\ t.findings = s.findings /\ t.convergence = s.convergence
        /\ t.round = s.round /\ t.heads = [s.heads EXCEPT !.head = head]
    BY <1>1, MovedGood, MovedParts
  <2> HIDE DEF t
  <2>2. Aged(t, head)
    BY <1>1, <2>1, MovedAged
  <2> QED
    BY <2>1, <2>2 DEF t
<1> HIDE DEF moved
<1>3. FixDue(moved) /\ Closes(s, moved)
  BY <1>2, SameFindings DEF FixDue, Good, FixHasFindings
<1>4. Aged(MarkFixDetected(moved, head), head) /\ Closes(s, MarkFixDetected(moved, head))
  <2>1. Aged(MarkFixDetected(moved, head), head) /\ Closes(moved, MarkFixDetected(moved, head))
    BY <1>2, <1>3, FixDetectedAged
  <2> QED
    BY <1>2, <2>1 DEF Closes, Closed
<1>5. Aged(r, head) /\ Closes(s, r)
  <2>1. /\ Headless(Act("fix-findings")) /\ Act("fix-findings").fix = None
        /\ Act("fix-findings").kind = "fix-findings" /\ NotPast(None, head)
    BY ActHeadless, NotPastFacts DEF ActionKinds
  <2>2. /\ r.stage = moved.stage /\ r.pending = Act("fix-findings") /\ r.heads = moved.heads
        /\ r.findings = moved.findings /\ r.convergence = moved.convergence
    BY <1>2 DEF WithFixAction, Good, Cycle
  <2> HIDE DEF r
  <2>3. Ordered(r, head)
    BY <1>2, <2>1, <2>2 DEF Aged, Ordered, Headless
  <2>4. ~InRound(r) /\ ~ToLaunch(r)
    BY <1>2, <2>1, <2>2 DEF InRound, ToLaunch
  <2>5. Aged(r, head)
    BY <1>2, <2>2, <2>3, <2>4 DEF Aged, WaitAged
  <2> QED
    BY <1>2, <2>2, <2>5, SameFindings
<1> QED
  BY <1>4, <1>5 DEF ResumeFix, moved, r

\* _resume_progress keeps a document aged; it closes no finding in deep mode, and a resting
\* document rests.
LEMMA ResumeAged ==
  ASSUME Grows, NEW s, Good(s), Sound(s), head \in Heads, Aged(s, head)
  PROVE  LET r == Resume(s) IN Aged(r, head) /\ Closes(s, r) /\ Rests(s, r)
<1>1. CASE s.stage = "created"
  BY <1>1, ResumeCreatedAged, SameFindings DEF Resume, Rests, Resting
<1>2. CASE s.stage = "decision-pending"
  BY <1>2, ResumeDecisionAged DEF Resume, Rests, Resting
<1>3. CASE s.stage = "review-green"
  BY <1>3, ResumeGreenAged, SameFindings DEF Resume, Rests, Resting
<1>4. CASE s.stage = "fix-pending"
  BY <1>4, ResumeFixAged DEF Resume, Rests, Resting
<1>5. CASE s.stage \notin {"created", "decision-pending", "review-green", "fix-pending"}
  BY <1>5, SameFindings DEF Resume, Rests, Resting
<1> QED
  BY <1>1, <1>2, <1>3, <1>4, <1>5

\* A round that is run again reviews HEAD, or waits for the fix it was launched for.
LEMMA AgainAged ==
  ASSUME Grows, NEW s \in Cycle, NEW h \in Heads, Aged(s, h), InRound(s),
         s.pending.head \in Heads,
         NEW t \in Cycle, t.findings = s.findings, t.heads = s.heads,
         t.convergence = s.convergence
  PROVE  LET a == [Act("run-review-step") EXCEPT !.fix = s.pending.fix]
             r == SetStage(t, "created", a)
         IN  Aged(r, h) /\ r.findings = s.findings /\ r.heads = s.heads
<1> DEFINE a == [Act("run-review-step") EXCEPT !.fix = s.pending.fix]
<1>1. /\ s.pending.fix \in MaybeHead /\ NotPast(s.pending.fix, h) /\ NotPast(s.pending.head, h)
      /\ Before(s.convergence.trees, s.pending.head)
      /\ s.pending.fix # None => UpTo(s.convergence.trees, s.pending.fix)
  BY DEF Cycle, Pending, Aged, Ordered, RoundAged
<1>2. Before(s.convergence.trees, h)
  BY <1>1, BeforeFacts
<1>3. /\ Headless(a) /\ a.fix = s.pending.fix /\ "created" \in IdleStages
  BY <1>1, ActHeadless DEF ActionKinds, IdleStages, Stages
<1> HIDE DEF a
<1>4. HeadsOrdered(t, h)
  BY DEF HeadsOrdered, Aged, Ordered
<1>5. LET r == SetStage(t, "created", a)
      IN  Aged(r, h) /\ r.findings = t.findings /\ r.heads = t.heads
  BY <1>1, <1>2, <1>3, <1>4, SetStageAged
<1> QED
  BY <1>5 DEF a

\* Retrying a blocked round keeps a document aged.
LEMMA RetryAged ==
  ASSUME Grows, NEW s, Good(s), NEW h \in Heads, Aged(s, h)
  PROVE  LET r == RetryBlocked(s) IN Aged(r, h) /\ Closes(s, r) /\ Rests(s, r)
<1>1. CASE s.stage = "decision-pending" /\ s.round.blocked
  <2> DEFINE i == IF IsFollowup(s) THEN 0 ELSE s.pending.step
             t == [s EXCEPT !.progress.next = i]
             a == [Act("run-review-step") EXCEPT !.fix = s.pending.fix]
  <2>1. i \in 0 .. N /\ s \in Cycle /\ s.pending.head \in Heads /\ InRound(s)
    BY <1>1, NType DEF IsFollowup, Good, RoundNamed, Cycle, Pending, InRound
  <2> HIDE DEF i
  <2>2. t \in Cycle /\ t.findings = s.findings /\ t.heads = s.heads
        /\ t.convergence = s.convergence
    BY <2>1 DEF Cycle, Progress
  <2> HIDE DEF t
  <2>3. LET r == SetStage(t, "created", a)
        IN  Aged(r, h) /\ r.findings = s.findings /\ r.heads = s.heads
    BY <2>1, <2>2, AgainAged
  <2> QED
    BY <1>1, <2>3, SameFindings DEF RetryBlocked, Rests, Resting, t, i
<1>2. CASE ~(s.stage = "decision-pending" /\ s.round.blocked)
  BY <1>2, SameFindings DEF RetryBlocked, Rests
<1> QED
  BY <1>1, <1>2

\* Resuming and retrying keep a document aged; a round to decide on is left with its findings.
LEMMA ResumeAndRetryAged ==
  ASSUME Grows, NEW s, Good(s), Sound(s), head \in Heads, Aged(s, head)
  PROVE  LET r == ResumeAndRetry(s)
         IN  /\ Good(r) /\ Sound(r) /\ Aged(r, head) /\ Closes(s, r) /\ Rests(s, r)
             /\ r.stage = "decision-pending" => r.findings = s.findings
<1> DEFINE u == Resume(s)
           r == RetryBlocked(u)
<1>1. /\ Good(u) /\ Sound(u) /\ Aged(u, head) /\ Closes(s, u) /\ Rests(s, u)
      /\ u.stage = "decision-pending" => u.findings = s.findings
  BY ResumeGood, ResumeSound, ResumeAged
<1> HIDE DEF u
<1>2. /\ Good(r) /\ Sound(r) /\ Aged(r, head) /\ Closes(u, r) /\ Rests(u, r)
      /\ r.stage = "decision-pending" => r = u
  BY <1>1, RetryGood, RetrySound, RetryAged
<1> HIDE DEF r
<1>3. Closes(s, r) /\ Rests(s, r)
  BY <1>1, <1>2, ClosesOn DEF Rests
<1>4. Closes(s, s) /\ Rests(s, s)
  BY SameFindings DEF Rests
<1>5. ResumeAndRetry(s) \in {r, s}
  BY DEF ResumeAndRetry, r, u
<1> QED
  BY <1>1, <1>2, <1>3, <1>4, <1>5

\* The loop of an invocation keeps a document aged.
LEMMA SettleAged ==
  ASSUME Grows, NEW s, Good(s), Sound(s), head \in Heads, Aged(s, head), ~SettleRefused(s)
  PROVE  LET r == Settle(s) IN Aged(r, head) /\ Closes(s, r) /\ Rests(s, r)
<1> DEFINE ready == ResumeAndRetry(s)
           d == ready.round.verdict
           decided == RecordDecision(ready, d)
           r == ResumeAndRetry(decided)
<1>1. /\ Good(ready) /\ Sound(ready) /\ Aged(ready, head) /\ Closes(s, ready) /\ Rests(s, ready)
      /\ ready.stage = "decision-pending" => ready.findings = s.findings
  BY ResumeAndRetryAged
<1>2. AutoDecides(ready) => ~DecisionRefused(ready, d)
  BY DEF SettleRefused
<1> HIDE DEF ready, d
<1>3. ASSUME AutoDecides(ready)
      PROVE  Aged(r, head) /\ Closes(s, r) /\ Rests(s, r)
  <2>1. ready.stage = "decision-pending" /\ ~ready.round.blocked
    BY <1>3 DEF AutoDecides
  <2>2. Good(decided) /\ Sound(decided) /\ Aged(decided, head) /\ Closes(ready, decided)
    BY <1>1, <1>2, <1>3, <2>1, DecisionGood, DecisionSound, DecisionAged
  <2> HIDE DEF decided
  <2>3. Closes(s, decided)
    BY <1>1, <2>1, <2>2 DEF Closes, Closed
  <2>4. Good(r) /\ Aged(r, head) /\ Closes(decided, r) /\ Rests(decided, r)
    BY <2>2, ResumeAndRetryAged
  <2>5. Rests(s, r)
    BY <1>1, <2>1 DEF Rests, Resting
  <2> QED
    BY <2>2, <2>3, <2>4, <2>5, ClosesOn
<1>4. Settle(s) = IF AutoDecides(ready) THEN r ELSE ready
  BY DEF Settle, r, decided, d, ready
<1> QED
  BY <1>1, <1>3, <1>4

-----------------------------------------------------------------------------
(* The documents that handlers put together themselves                     *)

\* A launched round reviews HEAD, which is later than the findings it fixes.
LEMMA LaunchedAged ==
  ASSUME Grows, NEW s, Good(s), head \in Heads, Aged(s, head), CanLaunch(s),
         s.pending.fix # None => FixCommitted(s.pending.fix),
         NEW a, a = [kind |-> "collect-review-step", step |-> s.progress.next,
                     fix |-> s.pending.fix, head |-> head]
  PROVE  LET r == [SetStage(s, "running", a) EXCEPT !.round = LaunchedRound]
         IN  Aged(r, head) /\ r.findings = s.findings /\ r.heads = s.heads
<1> DEFINE r == [SetStage(s, "running", a) EXCEPT !.round = LaunchedRound]
<1>1. /\ r.stage = "running" /\ r.pending = a /\ r.convergence = s.convergence
      /\ r.findings = s.findings /\ r.heads = s.heads
  BY DEF SetStage, Good, Cycle
<1> HIDE DEF r
<1>2. /\ a.head = head /\ a.fix = s.pending.fix /\ a.kind = "collect-review-step"
      /\ a.step # NoStep
  <2>1. s.progress.next # NoStep
    BY NType DEF Good, Cycle, Progress
  <2> QED
    BY <2>1
<1>3. /\ s.pending.fix \in MaybeHead /\ ToLaunch(s) /\ NotPast(head, head)
      /\ NotPast(s.pending.fix, head)
  BY NotPastFacts DEF Good, Cycle, Pending, CanLaunch, ToLaunch, Aged, Ordered
<1>4. Before(s.convergence.trees, head)
  <2>1. CASE s.pending.fix = None
    BY <1>3, <2>1 DEF Aged, WaitAged
  <2>2. CASE s.pending.fix # None
    <3>1. UpTo(s.convergence.trees, s.pending.fix)
      BY <1>3, <2>2 DEF Aged, WaitAged
    <3> QED
      BY <1>3, <2>2, <3>1, FixIsLater DEF FixCommitted
  <2> QED
    BY <2>1, <2>2
<1>5. s.pending.fix # None => UpTo(s.convergence.trees, s.pending.fix)
  BY <1>3 DEF Aged, WaitAged
<1>6. Ordered(r, head)
  BY <1>1, <1>2, <1>3 DEF Aged, Ordered
<1>7. RoundAged(r)
  BY <1>1, <1>2, <1>4, <1>5 DEF RoundAged, Identified, Aged, Ordered
<1>8. WaitAged(r, head)
  BY <1>1, <1>2 DEF WaitAged, ToLaunch
<1> QED
  BY <1>1, <1>6, <1>7, <1>8 DEF Aged, r

\* A follow-up reviews HEAD, which is later than the findings it is about.
LEMMA FollowupAged ==
  ASSUME Grows, NEW s, Good(s), head \in Heads, Aged(s, head), s.stage = "followup-pending",
         FixCommitted(s.findings.head), NEW f
  PROVE  LET r == [s EXCEPT !.pending.head = head, !.round = f]
         IN  Aged(r, head) /\ r.findings = s.findings /\ r.heads = s.heads
<1> DEFINE r == [s EXCEPT !.pending.head = head, !.round = f]
<1>1. /\ r.stage = "followup-pending" /\ r.convergence = s.convergence
      /\ r.findings = s.findings /\ r.heads = s.heads
      /\ r.pending.head = head /\ r.pending.fix = s.pending.fix
      /\ r.pending.kind = s.pending.kind
  BY DEF Good, Cycle, Pending
<1> HIDE DEF r
<1>2. /\ s.findings.head \in Heads /\ UpTo(s.convergence.trees, s.findings.head)
      /\ NotPast(s.findings.head, head) /\ NotPast(head, head) /\ s.pending.fix = None
  BY NotPastFacts DEF Good, FixHasFindings, FindingsRecorded, Aged, WaitAged, Ordered
<1>3. Before(s.convergence.trees, head) /\ Later(s.findings.head, head)
  BY <1>2, FixIsLater DEF FixCommitted
<1>4. Ordered(r, head)
  BY <1>1, <1>2 DEF Aged, Ordered
<1>5. RoundAged(r)
  BY <1>1, <1>2, <1>3 DEF RoundAged, Identified, Aged, Ordered
<1>6. WaitAged(r, head)
  BY <1>1, <1>2 DEF WaitAged, ToLaunch, Aged
<1> QED
  BY <1>1, <1>4, <1>5, <1>6 DEF Aged, r

\* The result of a profile round is about the head it reviewed.
LEMMA ReviewPendingAged ==
  ASSUME Grows, NEW s, Good(s), s.stage = "running" \/ s.pending.kind = "arena-blocked",
         NEW h \in Heads, Aged(s, h)
  PROVE  LET r == ReviewStepPending(s)
         IN  Aged(r, h) /\ r.findings = s.findings /\ r.heads.followup = s.heads.followup
<1> DEFINE t == [s EXCEPT !.stage = "decision-pending",
                          !.pending.kind = "decision",
                          !.heads.reviewed = s.pending.head,
                          !.progress.next = s.pending.step]
           a == [s.pending EXCEPT !.kind = "arena-blocked"]
           u == SetStage(t, "retry-requested", a)
<1>1. /\ s \in Cycle /\ s.pending.step \in Steps /\ s.pending \in Pending
      /\ s.pending.head \in Heads /\ s.pending.step # NoStep /\ s.heads \in ReviewHeads
      /\ InRound(s) /\ NotPast(s.pending.head, h) /\ s.stage \in {"running", "retry-requested"}
  BY NType DEF Good, RoundNamed, Cycle, InRound, Aged, Ordered
<1>2. /\ t.stage = "decision-pending" /\ t.pending.step = s.pending.step
      /\ t.pending.kind = "decision" /\ t.pending.fix = s.pending.fix
      /\ t.pending.head = s.pending.head /\ t.round = s.round
      /\ t.heads = [s.heads EXCEPT !.reviewed = s.pending.head]
      /\ t.findings = s.findings /\ t.convergence = s.convergence
  BY <1>1 DEF Cycle, Pending, ReviewHeads
<1>3. /\ a.step = s.pending.step /\ a.kind = "arena-blocked" /\ a.fix = s.pending.fix
      /\ a.head = s.pending.head
  BY <1>1 DEF Pending
<1>4. /\ u.stage = "retry-requested" /\ u.pending = a
      /\ u.heads = [s.heads EXCEPT !.reviewed = s.pending.head]
      /\ u.findings = s.findings /\ u.convergence = s.convergence
  <2> HIDE DEF a
  <2> QED
    BY <1>1 DEF SetStage, Cycle, ReviewHeads
<1> HIDE DEF t, u, a
<1>5. ASSUME NEW r \in {t, u} PROVE Aged(r, h) /\ r.heads.followup = s.heads.followup
  <2>1. /\ r.pending.step = s.pending.step /\ r.pending.fix = s.pending.fix
        /\ r.pending.head = s.pending.head /\ r.findings = s.findings
        /\ r.convergence = s.convergence
        /\ r.heads = [s.heads EXCEPT !.reviewed = s.pending.head]
        /\ r.stage \in {"decision-pending", "retry-requested"}
        /\ r.pending.kind \in {"decision", "arena-blocked"} /\ InRound(r)
    BY <1>2, <1>3, <1>4, <1>5 DEF InRound
  <2>2. /\ r.heads.reviewed = s.pending.head /\ r.heads.head = s.heads.head
        /\ r.heads.fix = s.heads.fix /\ r.heads.followup = s.heads.followup
    BY <1>1, <2>1 DEF ReviewHeads
  <2>3. Ordered(r, h)
    BY <1>1, <2>1, <2>2 DEF Aged, Ordered
  <2>4. RoundAged(r)
    <3>1. RoundAged(s) /\ Identified(s, s.pending.head)
      BY <1>1 DEF Aged, RoundAged
    <3> QED
      BY <1>1, <2>1, <2>2, <3>1 DEF RoundAged, Identified
  <2>5. WaitAged(r, h)
    BY <2>1 DEF WaitAged, ToLaunch
  <2> QED
    BY <2>2, <2>3, <2>4, <2>5 DEF Aged
<1> QED
  BY <1>2, <1>4, <1>5 DEF ReviewStepPending, t, u, a

\* The result of a follow-up is about the head it reviewed.
LEMMA FollowupPendingAged ==
  ASSUME Grows, NEW s, FollowupRuns(s), NEW h \in Heads, Aged(s, h)
  PROVE  LET r == FollowupReviewPending(s) IN Aged(r, h) /\ r.findings = s.findings
<1> DEFINE x == s.pending.head
           a == [Act("decision") EXCEPT !.head = x]
           r == [s EXCEPT !.stage = "decision-pending", !.pending = a,
                          !.heads.reviewed = x, !.heads.followup = x]
<1>1. /\ a.head = x /\ a.step = NoStep /\ a.fix = None /\ a.kind = "decision"
  BY DEF Act, NoAction
<1>2. /\ s \in Cycle /\ s.stage = "followup-pending" /\ x \in Heads /\ x # None
      /\ s.heads \in ReviewHeads /\ NotPast(x, h) /\ NotPast(x, x) /\ NotPast(None, h)
      /\ RoundAged(s)
  BY HeadAssumption, NotPastFacts
     DEF FollowupRuns, Good, Cycle, Aged, Ordered, InRound
<1>3. /\ Before(s.convergence.trees, x) /\ Identified(s, x) /\ NotPast(s.findings.head, x)
      /\ Later(s.findings.head, x)
  BY <1>2 DEF RoundAged
<1> HIDE DEF a, x
<1>4. /\ r.stage = "decision-pending" /\ r.pending = a /\ r.findings = s.findings
      /\ r.heads = [s.heads EXCEPT !.reviewed = x, !.followup = x]
      /\ r.convergence = s.convergence
  BY <1>2 DEF Cycle, ReviewHeads
<1> HIDE DEF r
<1>5. /\ r.heads.reviewed = x /\ r.heads.followup = x /\ r.heads.head = s.heads.head
      /\ r.heads.fix = s.heads.fix
  BY <1>2, <1>4 DEF ReviewHeads
<1>6. Ordered(r, h)
  BY <1>1, <1>2, <1>4, <1>5 DEF Aged, Ordered
<1>7. RoundAged(r)
  BY <1>1, <1>2, <1>3, <1>4, <1>5 DEF RoundAged, Identified
<1>8. WaitAged(r, h)
  BY <1>1, <1>4 DEF WaitAged, ToLaunch
<1>9. Aged(r, h) /\ r.findings = s.findings
  BY <1>4, <1>6, <1>7, <1>8 DEF Aged
<1> QED
  BY <1>9 DEF FollowupReviewPending, r, a, x

\* The end of the closure pass leaves the round it came before to be launched.
LEMMA CleanupEndsAged ==
  ASSUME Grows, NEW s, CleanupRuns(s), ToLaunch(s), NEW h \in Heads, Aged(s, h),
         NEW drifted \in BOOLEAN
  PROVE  /\ LET r == MarkDeslopDone(s, drifted, s.heads.head)
            IN  Aged(r, h) /\ r.findings = s.findings /\ r.heads = s.heads
         /\ LET r == MarkDeslopFailed(s)
            IN  Aged(r, h) /\ r.findings = s.findings /\ r.heads = s.heads
<1> DEFINE t == [s EXCEPT !.deslop.status = "done", !.deslop.drifted = drifted,
                          !.deslop.head = s.heads.head]
           u == [s EXCEPT !.deslop.status = "failed"]
           a(kind) == [Act(kind) EXCEPT !.fix = s.pending.fix]
<1>1. /\ s \in Cycle /\ s.pending.fix \in MaybeHead /\ s.heads.head \in Heads
      /\ NotPast(s.pending.fix, h)
      /\ IF s.pending.fix = None THEN Before(s.convergence.trees, h)
         ELSE UpTo(s.convergence.trees, s.pending.fix)
  BY DEF CleanupRuns, Good, Cycle, Pending, ReviewHeads, Aged, Ordered, WaitAged
<1>2. /\ t \in Cycle /\ t.findings = s.findings /\ t.heads = s.heads
      /\ t.convergence = s.convergence
  BY <1>1 DEF Cycle, Deslop
<1>3. /\ u \in Cycle /\ u.findings = s.findings /\ u.heads = s.heads
      /\ u.convergence = s.convergence
  BY <1>1 DEF Cycle, Deslop
<1>4. HeadsOrdered(t, h) /\ HeadsOrdered(u, h)
  BY <1>2, <1>3 DEF HeadsOrdered, Aged, Ordered
<1> HIDE DEF t, u
<1>5. ASSUME NEW kind \in {"run-review-step", "run-deslop"}
      PROVE  Headless(a(kind)) /\ a(kind).fix = s.pending.fix
  BY <1>1, ActHeadless DEF ActionKinds
<1>6. {"created", "retry-requested"} \subseteq IdleStages
  BY DEF IdleStages, Stages
<1> HIDE DEF a
<1>7. LET r == SetStage(t, "created", a("run-review-step"))
      IN  Aged(r, h) /\ r.findings = s.findings /\ r.heads = s.heads
  BY <1>1, <1>2, <1>4, <1>5, <1>6, SetStageAged
<1>8. LET r == SetStage(u, "retry-requested", a("run-deslop"))
      IN  Aged(r, h) /\ r.findings = s.findings /\ r.heads = s.heads
  BY <1>1, <1>3, <1>4, <1>5, <1>6, SetStageAged
<1> QED
  BY <1>7, <1>8 DEF MarkDeslopDone, MarkDeslopFailed, t, u, a

-----------------------------------------------------------------------------
(* Every action preserves the third invariant and closes no findings unseen *)

\* what a step has to show
StepAged == HInv' /\ Closed(c, c')

\* Most actions end with an aged document that closes nothing unseen, and no invocation.
LEMMA StoredAged ==
  ASSUME Aged(c', head'), Closes(c, c'), w'.run \in {"nothing", "review"}
  PROVE  StepAged
  BY DEF HInv, StepAged, Closes

\* Starting the closure pass works on an aged document.
LEMMA RunCleanupAged ==
  ASSUME Grows, Ladder, NEW s, Good(s), Aged(s, head), Closes(c, s), NEW by,
         RunCleanup(s, by), HInv
  PROVE  StepAged
<1> DEFINE t == [s EXCEPT !.heads.head = head, !.validation = NewValidation]
<1>1. /\ ToLaunch(s) /\ ~InRound(s) /\ s.stage # "review-green" /\ s \in Cycle
      /\ head \in Heads /\ Good(c)
  BY DEF RunCleanup, DeslopShouldRun, ToLaunch, InRound, Good, RoundNamed, Ladder, IInv
<1>2. /\ t.stage = s.stage /\ t.pending = s.pending /\ t.findings = s.findings
      /\ t.convergence = s.convergence /\ t.round = s.round
      /\ t.heads = [s.heads EXCEPT !.head = head] /\ t.heads.followup = s.heads.followup
  BY <1>1, MovedParts
<1> HIDE DEF t
<1>3. Aged(t, head) /\ Closed(c, t) /\ ToLaunch(t)
  BY <1>1, <1>2, MovedAged DEF Closes, Closed, ToLaunch
<1>4. /\ w' = [run |-> "deslop", by |-> by, state |-> FollowHead(s)]
      /\ c' = c /\ head' = head
  BY DEF RunCleanup, Working
<1>5. FollowHead(s) \in {s, t}
  BY DEF FollowHead, t
<1>6. Aged(FollowHead(s), head) /\ Closed(c, FollowHead(s)) /\ ToLaunch(FollowHead(s))
  BY <1>1, <1>3, <1>5 DEF Closes
<1>7. Closed(c, c)
  BY <1>1, SameFindings DEF Closes
<1> QED
  BY <1>4, <1>6, <1>7 DEF HInv, StepAged

\* A rerun: its document, stored or worked on, is aged.
LEMMA RerunAged == ASSUME Grows, Ladder, HInv, Rerun PROVE StepAged
<1> DEFINE s == Settle(c)
<1>1. /\ Good(c) /\ Sound(c) /\ head \in Heads /\ ~SettleRefused(c) /\ w.run = "nothing"
      /\ Good(s) /\ Sound(s) /\ Aged(s, head) /\ Closes(c, s) /\ head' = head
  BY SettleGood, SettleSound, SettleAged
     DEF Ladder, IInv, LInv, HInv, Rerun, RerunCleanup, RunCleanup, RerunLaunch,
         RerunFollowup, RerunIdle, Idle
<1>2. CASE RerunCleanup
  BY <1>1, <1>2, RunCleanupAged DEF RerunCleanup
<1>3. CASE RerunLaunch
  <2> DEFINE a == [kind |-> "collect-review-step", step |-> s.progress.next,
                   fix |-> s.pending.fix, head |-> head]
             saved == [SetStage(s, "running", a) EXCEPT !.round = LaunchedRound]
  <2>1. /\ c' = saved /\ w' = [run |-> "review", by |-> "rerun", state |-> saved]
        /\ CanLaunch(s) /\ (s.pending.fix # None => FixCommitted(s.pending.fix))
    BY <1>3 DEF RerunLaunch, Working
  <2> HIDE DEF s
  <2>2. Aged(saved, head) /\ saved.findings = s.findings /\ saved.heads = s.heads
    BY <1>1, <2>1, LaunchedAged
  <2> HIDE DEF saved
  <2>3. Aged(c', head') /\ Closed(c, c')
    BY <1>1, <2>1, <2>2 DEF Closes, Closed
  <2>4. w'.run = "review"
    BY <2>1
  <2> QED
    BY <2>3, <2>4 DEF StepAged, HInv
<1>4. CASE RerunFollowup
  <2> DEFINE t == [s EXCEPT !.pending.head = head, !.round = LaunchedRound]
  <2>1. /\ s.stage = "followup-pending" /\ c' = c /\ FixCommitted(s.findings.head)
        /\ w' = [run |-> "followup", by |-> "rerun", state |-> t]
    BY <1>4 DEF RerunFollowup, Working
  <2> HIDE DEF s
  <2>2. Aged(t, head) /\ t.findings = s.findings /\ t.heads = s.heads
    BY <1>1, <2>1, FollowupAged
  <2> HIDE DEF t
  <2>3. Closed(c, t) /\ Closed(c, c)
    BY <1>1, <2>2, SameFindings DEF Closes, Closed
  <2>4. w'.run = "followup" /\ w'.state = t
    BY <2>1
  <2> QED
    BY <1>1, <2>1, <2>2, <2>3, <2>4 DEF StepAged, HInv
<1>5. CASE RerunIdle
  <2>1. c' = Resume(s) /\ w' = w
    BY <1>5 DEF RerunIdle
  <2> HIDE DEF s
  <2>2. /\ Good(Resume(s)) /\ Aged(Resume(s), head) /\ Closes(s, Resume(s))
        /\ Rests(s, Resume(s))
    BY <1>1, ResumeGood, ResumeAged
  <2>3. Closes(c, Resume(s))
    BY <1>1, <2>2, ClosesOn
  <2> QED
    BY <1>1, <2>1, <2>2, <2>3, StoredAged
<1> QED
  BY <1>2, <1>3, <1>4, <1>5 DEF Rerun

\* The end of a closure pass.
LEMMA EndCleanupAged == ASSUME Grows, Ladder, HInv, EndCleanup PROVE StepAged
<1>1. PICK done \in BOOLEAN, drifted \in {FALSE, HasBrief} :
        LET s == IF done THEN MarkDeslopDone(w.state, drifted, w.state.heads.head)
                 ELSE MarkDeslopFailed(w.state)
        IN  c' = IF w.by = "rerun" THEN Settle(s) ELSE s
  BY DEF EndCleanup
<1> DEFINE s == IF done THEN MarkDeslopDone(w.state, drifted, w.state.heads.head)
                ELSE MarkDeslopFailed(w.state)
<1>2. /\ CleanupRuns(w.state) /\ Sound(w.state) /\ drifted \in BOOLEAN /\ head \in Heads
      /\ w.run = "deslop" /\ ToLaunch(w.state) /\ Aged(w.state, head) /\ Closed(c, w.state)
      /\ Good(c) /\ head' = head /\ w' = NoWork
  BY ModeAssumption DEF EndCleanup, Ladder, IInv, LInv, HInv
<1>3. Good(s) /\ Sound(s) /\ s.stage \in {"created", "retry-requested"}
  BY <1>2, CleanupEndsGood, CleanupEndsSound
<1>4. Aged(s, head) /\ s.findings = w.state.findings /\ s.heads = w.state.heads
  BY <1>2, CleanupEndsAged
<1>5. c' = IF w.by = "rerun" THEN Settle(s) ELSE s
  BY <1>1
<1> HIDE DEF s
<1>6. ~SettleRefused(s)
  BY <1>2, <1>3, RefusedRound
<1>7. Aged(Settle(s), head) /\ Closes(s, Settle(s)) /\ Rests(s, Settle(s)) /\ Good(Settle(s))
  BY <1>2, <1>3, <1>4, <1>6, SettleAged, SettleGood
<1>8. Closed(c, s)
  BY <1>2, <1>4 DEF Closed
<1>9. Closed(c, Settle(s))
  <2>1. CASE s.findings = NoFindings
    <3>1. CASE s.stage \in Resting
      BY <1>7, <1>8, <3>1 DEF Rests, Closed
    <3>2. CASE s.stage = "retry-requested"
      <4>1. Settle(s) = s
        <5>1. Resume(s) = s /\ RetryBlocked(s) = s
          BY <3>2 DEF Resume, RetryBlocked
        <5>2. ResumeAndRetry(s) = s
          BY <5>1 DEF ResumeAndRetry
        <5> QED
          BY <3>2, <5>2 DEF Settle, AutoDecides
      <4> QED
        BY <1>8, <4>1
    <3> QED
      BY <1>3, <3>1, <3>2 DEF Resting
  <2>2. CASE s.findings # NoFindings
    <3> DEFINE r == Settle(s)
    <3>1. c.findings # NoFindings => Age[c.findings.head] \in Nat
      BY <1>2 DEF Good, FindingsRecorded, Grows
    <3>2. Age[s.findings.head] \in Nat
      BY <1>3, <2>2 DEF Good, FindingsRecorded, Grows
    <3>3. /\ r.findings # NoFindings => Age[r.findings.head] \in Nat
          /\ r.heads.followup # None => Age[r.heads.followup] \in Nat
      BY <1>7 DEF Good, FindingsRecorded, Cycle, ReviewHeads, Grows
    <3>4. Closed(s, r)
      BY <1>7 DEF Closes
    <3> HIDE DEF r
    <3>5. Closed(c, r)
      BY <1>8, <2>2, <3>1, <3>2, <3>3, <3>4 DEF Closed
    <3> QED
      BY <3>5 DEF r
  <2> QED
    BY <2>1, <2>2
<1>10. w'.run = "nothing"
  BY <1>2, NoWorkType
<1> QED
  BY <1>2, <1>4, <1>5, <1>7, <1>8, <1>9, <1>10 DEF StepAged, HInv

\* What reviewers write into the file of a round.
LEMMA ReviewersEndAged == ASSUME Grows, Ladder, HInv, ReviewersEnd PROVE StepAged
<1>1. CASE \E a \in AnswersTo(c) : c.stage = "running" /\ c' = [c EXCEPT !.round = a]
                                   /\ w' = w /\ head' = head
  <2>1. /\ c'.stage = c.stage /\ c'.pending = c.pending /\ c'.heads = c.heads
        /\ c'.findings = c.findings /\ c'.convergence = c.convergence
    BY <1>1 DEF Ladder, IInv, Good, Cycle
  <2>2. Aged(c', head')
    BY <1>1, <2>1, StaysAged DEF HInv
  <2>3. Closed(c, c')
    BY <2>1, SameFindings DEF Closes, Ladder, IInv
  <2>4. w.run \in {"deslop", "followup"} => Closed(c', w.state)
    BY <2>1 DEF HInv, Closed
  <2> QED
    BY <1>1, <2>2, <2>3, <2>4 DEF HInv, StepAged
<1>2. CASE /\ w.run = "followup" /\ c' = c /\ head' = head
           /\ \E a \in Answers : w' = [w EXCEPT !.state.round = a]
  <2>1. PICK a \in Answers : w' = [w EXCEPT !.state.round = a]
    BY <1>2
  <2> DEFINE t == [w.state EXCEPT !.round = a]
  <2>2. w' = [w EXCEPT !.state = t]
    BY <2>1
  <2>3. /\ t.stage = w.state.stage /\ t.pending = w.state.pending /\ t.heads = w.state.heads
        /\ t.findings = w.state.findings /\ t.convergence = w.state.convergence
        /\ w.state.stage = "followup-pending"
    BY <1>2 DEF Ladder, IInv, FollowupRuns, Good, Cycle
  <2> HIDE DEF t
  <2>4. Aged(t, head)
    BY <1>2, <2>3, StaysAged DEF HInv
  <2>5. Closed(c, t) /\ Closed(c, c)
    BY <1>2, <2>3, SameFindings DEF HInv, Closed, Closes, Ladder, IInv
  <2>6. w'.run = "followup" /\ w'.state = t
    BY <1>2, <2>2 DEF Ladder, IInv, Work
  <2> QED
    BY <1>2, <2>4, <2>5, <2>6 DEF HInv, StepAged
<1> QED
  BY <1>1, <1>2 DEF ReviewersEnd

\* Reading the result of a round, refused or not.
LEMMA FinishAged ==
  ASSUME Grows, Ladder, HInv, FinishReview \/ FinishReviewRefused \/ EndFollowup \/ Crash
  PROVE  StepAged
<1>1. /\ w'.run = "nothing" /\ head' = head /\ head \in Heads /\ Good(c) /\ Sound(c)
      /\ Aged(c, head)
  BY NoWorkType DEF FinishReview, FinishReviewRefused, EndFollowup, Crash, Ladder, IInv, LInv,
     HInv
<1>2. CASE FinishReview
  <2> DEFINE s == ReviewStepPending(c)
  <2>1. /\ Good(s) /\ Sound(s) /\ ~SettleRefused(s) /\ c' = Settle(s)
    BY <1>1, <1>2, ReviewPendingGood, ReviewPendingSound DEF FinishReview, Good, RoundNamed
  <2>2. Aged(s, head) /\ s.findings = c.findings
    BY <1>1, <1>2, ReviewPendingAged DEF FinishReview
  <2> HIDE DEF s
  <2>3. Aged(c', head) /\ Closes(s, c')
    BY <1>1, <2>1, <2>2, SettleAged
  <2>4. Closes(c, c')
    BY <2>2, <2>3 DEF Closes, Closed
  <2> QED
    BY <1>1, <2>3, <2>4, StoredAged
<1>3. CASE EndFollowup
  <2> DEFINE s == FollowupReviewPending(w.state)
  <2>0. /\ FollowupRuns(w.state) /\ Sound(w.state) /\ Aged(w.state, head)
        /\ Closed(c, w.state) /\ c' = Settle(s)
    BY <1>3 DEF EndFollowup, Ladder, IInv, LInv, HInv
  <2>1. Good(s) /\ Sound(s) /\ s.pending.step = NoStep
    BY <2>0, FollowupPendingGood, FollowupPendingSound
  <2>2. Aged(s, head) /\ s.findings = w.state.findings
    BY <1>1, <2>0, FollowupPendingAged
  <2>3. s.findings # NoFindings
    BY <2>0, <2>2 DEF FollowupRuns, Good, FixHasFindings
  <2> HIDE DEF s
  <2>4. ~SettleRefused(s)
    BY <1>1, <2>1, RefusedRound
  <2>5. Aged(c', head) /\ Closes(s, c')
    BY <1>1, <2>0, <2>1, <2>2, <2>4, SettleAged
  <2>6. Good(c')
    BY <1>1, <2>0, <2>1, SettleGood
  <2>7. Closed(c, c')
    <3>1. c.findings # NoFindings => Age[c.findings.head] \in Nat
      BY <1>1 DEF Good, FindingsRecorded, Grows
    <3>2. Age[s.findings.head] \in Nat
      BY <2>1, <2>3 DEF Good, FindingsRecorded, Grows
    <3>3. /\ c'.findings # NoFindings => Age[c'.findings.head] \in Nat
          /\ c'.heads.followup # None => Age[c'.heads.followup] \in Nat
      BY <2>6 DEF Good, FindingsRecorded, Cycle, ReviewHeads, Grows
    <3>4. Closed(s, c') /\ Closed(c, s)
      BY <2>0, <2>2, <2>3, <2>5 DEF Closes, Closed
    <3> QED
      BY <2>3, <3>1, <3>2, <3>3, <3>4 DEF Closed
  <2> QED
    BY <1>1, <2>5, <2>7 DEF StepAged, HInv
<1>4. CASE FinishReviewRefused \/ Crash
  <2>1. c' = c
    BY <1>4 DEF FinishReviewRefused, Crash
  <2> QED
    BY <1>1, <2>1, SameFindings, StoredAged
<1> QED
  BY <1>2, <1>3, <1>4

\* Recovering a blocked arena round: it is run again, or its replacement is decided on.
LEMMA RecoverArenaAged == ASSUME Grows, Ladder, HInv, RecoverArena PROVE StepAged
<1>1. /\ c.stage = "retry-requested" /\ c.pending.kind = "arena-blocked"
      /\ c.pending.head \in Heads /\ c.pending.step \in Steps /\ c \in Cycle
      /\ Good(c) /\ Sound(c) /\ head \in Heads /\ Aged(c, head) /\ InRound(c)
      /\ c.pending.step \in 0 .. N
      /\ w' = w /\ w.run = "nothing" /\ head' = head
  BY NType DEF RecoverArena, Ladder, IInv, LInv, HInv, Good, RoundNamed, InRound, Idle
<1> DEFINE t == [c EXCEPT !.progress.next = c.pending.step]
           s == SetStage(t, "created", [Act("run-review-step") EXCEPT !.fix = c.pending.fix])
<1>2. Good(s) /\ Sound(s) /\ s.stage = "created"
  BY <1>1, DismissedSound
<1>3. Aged(s, head) /\ s.findings = c.findings
  <2>1. /\ t \in Cycle /\ t.findings = c.findings /\ t.heads = c.heads
        /\ t.convergence = c.convergence
    BY <1>1 DEF Cycle, Progress
  <2> HIDE DEF t
  <2> QED
    BY <1>1, <2>1, AgainAged
<1>4. ASSUME NEW f \in AnswersTo(c)
      PROVE  LET r == ReviewStepPending([c EXCEPT !.round = f])
             IN  Aged(r, head) /\ r.findings = c.findings
  <2> DEFINE u == [c EXCEPT !.round = f]
  <2>1. Good(u) /\ u.stage = c.stage /\ u.pending = c.pending
    BY <1>1, <1>4, RoundGood, AnswersType
  <2>2. u.heads = c.heads /\ u.findings = c.findings /\ u.convergence = c.convergence
    BY <1>1 DEF Cycle
  <2> HIDE DEF u
  <2>3. Aged(u, head)
    BY <1>1, <2>1, <2>2, StaysAged
  <2>4. LET r == ReviewStepPending(u)
        IN  Aged(r, head) /\ r.findings = u.findings
    BY <1>1, <2>1, <2>3, ReviewPendingAged
  <2> QED
    BY <2>2, <2>4 DEF u
<1>5. c' = Settle(s) \/ \E f \in AnswersTo(c) : c' = ReviewStepPending([c EXCEPT !.round = f])
  BY DEF RecoverArena
<1> HIDE DEF s
<1>6. CASE c' = Settle(s)
  <2>1. ~SettleRefused(s)
    BY <1>1, <1>2, RefusedRound
  <2>2. Aged(c', head) /\ Closes(s, c')
    BY <1>1, <1>2, <1>3, <1>6, <2>1, SettleAged
  <2>3. Closes(c, c')
    BY <1>3, <2>2 DEF Closes, Closed
  <2> QED
    BY <1>1, <2>2, <2>3, StoredAged
<1>7. CASE \E f \in AnswersTo(c) : c' = ReviewStepPending([c EXCEPT !.round = f])
  <2>1. Aged(c', head) /\ c'.findings = c.findings
    BY <1>4, <1>7
  <2> QED
    BY <1>1, <2>1, SameFindings, StoredAged
<1> QED
  BY <1>5, <1>6, <1>7

\* --decision.
LEMMA DecideAged == ASSUME Grows, Ladder, HInv, NEW d, Decide(d) PROVE StepAged
<1> DEFINE s == IF DeslopReady(c) THEN Resume(c) ELSE c
<1>1. /\ Good(c) /\ Sound(c) /\ head \in Heads /\ Aged(c, head) /\ head' = head
      /\ w.run = "nothing"
  BY DEF Ladder, IInv, LInv, HInv, Decide, RunCleanup, Idle
<1>2. /\ Good(s) /\ Sound(s) /\ Aged(s, head) /\ Closes(c, s)
  BY <1>1, ResumeGood, ResumeSound, ResumeAged, SameFindings
<1>3. s.stage = "decision-pending" => s.findings = c.findings
  BY <1>1, ResumeSound
<1>4. \/ RunCleanup(s, "decision")
      \/ /\ s.stage = "decision-pending" /\ c' = RecordDecision(s, d) /\ w' = w
         /\ ~s.round.blocked /\ ~DecisionRefused(s, d)
  BY DEF Decide
<1> HIDE DEF s
<1>5. CASE RunCleanup(s, "decision")
  BY <1>2, <1>5, RunCleanupAged
<1>6. CASE /\ s.stage = "decision-pending" /\ c' = RecordDecision(s, d) /\ w' = w
           /\ ~s.round.blocked /\ ~DecisionRefused(s, d)
  <2>1. Aged(c', head) /\ Closes(s, c')
    BY <1>1, <1>2, <1>6, DecisionAged
  <2>2. Closes(c, c')
    BY <1>3, <1>6, <2>1 DEF Closes, Closed
  <2> QED
    BY <1>1, <1>6, <2>1, <2>2, StoredAged
<1> QED
  BY <1>4, <1>5, <1>6

\* --github-result: the findings of GitHub are on the head that was signed off.
LEMMA GithubResultAged == ASSUME Grows, Ladder, HInv, GithubResult PROVE StepAged
<1> DEFINE x == c.heads.reviewed
           recorded(result) == [c EXCEPT !.github = [status |-> result, head |-> x]]
           open == [recorded("findings") EXCEPT
                      !.findings = [head |-> x, step |-> LastCompleted(c), rerun |-> TRUE],
                      !.validation.green = FALSE]
           due == RecordAcceptedFindingsHead(SetStage(open, "fix-pending", NoAction), x)
<1>1. /\ c.stage = "review-green" /\ Good(c) /\ c \in Cycle /\ Completed(c) # {}
      /\ c.findings = NoFindings /\ head \in Heads /\ head' = head
      /\ w' = w /\ w.run = "nothing" /\ x \in Heads /\ Aged(c, head)
      /\ Before(c.convergence.trees, x)
  BY DEF GithubResult, Ladder, IInv, HInv, Good, GreenWasReviewed, Idle, Aged, WaitAged
<1>2. \/ \E result : c' = recorded(result)
      \/ c' = due
  BY DEF GithubResult
<1>3. \A result : Aged(recorded(result), head)
  <2> SUFFICES ASSUME NEW result PROVE Aged(recorded(result), head)
    OBVIOUS
  <2> DEFINE r == recorded(result)
  <2>1. /\ r.stage = c.stage /\ r.pending = c.pending /\ r.heads = c.heads
        /\ r.findings = c.findings /\ r.convergence = c.convergence /\ r.round = c.round
    BY <1>1 DEF Cycle
  <2> HIDE DEF recorded
  <2> QED
    BY <1>1, <2>1, StaysAged
<1>4. Aged(due, head)
  <2>1. LastCompleted(c) \in Steps
    BY <1>1, LastCompletedType
  <2>2. /\ recorded("findings") \in Cycle /\ recorded("findings").heads = c.heads
        /\ recorded("findings").convergence = c.convergence
    BY <1>1 DEF Cycle, Github
  <2> HIDE DEF recorded, x
  <2>3. /\ open \in Cycle /\ open.heads = c.heads /\ open.convergence = c.convergence
        /\ open.findings.head = x
    BY <1>1, <2>1, <2>2 DEF Cycle, Findings, Validation
  <2> HIDE DEF open
  <2>4. HeadsOrdered(open, head)
    <3>1. NotPast(x, head)
      BY <1>1 DEF Aged, Ordered, x
    <3> QED
      BY <1>1, <2>3, <3>1 DEF HeadsOrdered, Aged, Ordered
  <2> QED
    BY <1>1, <2>3, <2>4, OpenedAged
<1> HIDE DEF recorded, due
<1>5. Aged(c', head)
  BY <1>2, <1>3, <1>4
<1>6. Closes(c, c')
  BY <1>1 DEF Closes, Closed
<1> QED
  BY <1>1, <1>5, <1>6, StoredAged

\* The other commands of the caller.
LEMMA CommandAged ==
  ASSUME Grows, Ladder, HInv,
         \/ SaveResumed \/ DeslopDone \/ RecordGates \/ ContractConflict \/ Continue
         \/ ReplanOrReslice
  PROVE  StepAged
<1>1. /\ Good(c) /\ Sound(c) /\ c \in Cycle /\ head \in Heads /\ Aged(c, head)
      /\ HeadsOrdered(c, head) /\ NotPast(None, head)
      /\ w' = w /\ w.run = "nothing" /\ head' = head
  BY NotPastFacts
     DEF Ladder, IInv, LInv, HInv, Good, Idle, SaveResumed, DeslopDone, RecordGates,
         ContractConflict, Continue, ReplanOrReslice, Aged, Ordered, HeadsOrdered
<1>2. CASE c' = Resume(c)
  BY <1>1, <1>2, ResumeAged, StoredAged
<1>3. CASE DeslopDone \/ RecordGates
  <2>1. /\ c'.stage = c.stage /\ c'.pending = c.pending /\ c'.heads = c.heads
        /\ c'.findings = c.findings /\ c'.convergence = c.convergence /\ c'.round = c.round
    BY <1>1, <1>3 DEF DeslopDone, RecordGates, MarkDeslopClosed, Cycle
  <2> QED
    BY <1>1, <2>1, StaysAged, SameFindings, StoredAged
<1>4. ASSUME NEW s \in Cycle, NEW stage \in IdleStages, NEW a, Headless(a), a.fix = None,
             stage \notin {"created", "review-green"}, a.kind # "run-deslop",
             s.heads = c.heads, s.findings = c.findings,
             s.convergence.trees = c.convergence.trees,
             stage = "convergence-decided" \/ c.stage \in {"fix-pending", "decision-required"}
      PROVE  LET r == SetStage(s, stage, a) IN Aged(r, head) /\ Closes(c, r)
  <2>1. HeadsOrdered(s, head)
    BY <1>1, <1>4 DEF HeadsOrdered
  <2>2. stage # "convergence-decided" => UpTo(s.convergence.trees, s.findings.head)
    BY <1>1, <1>4 DEF Aged, WaitAged
  <2>3. LET r == SetStage(s, stage, a) IN Aged(r, head) /\ r.findings = c.findings
    BY <1>1, <1>4, <2>1, <2>2, SetStageAged
  <2> QED
    BY <1>1, <2>3, SameFindings
<1>5. /\ Headless(NoAction) /\ NoAction.fix = None /\ NoAction.kind = "none"
      /\ Headless(Act("convergence-decision")) /\ Act("convergence-decision").fix = None
      /\ Act("convergence-decision").kind = "convergence-decision"
      /\ {"fix-pending", "decision-required", "convergence-decided"} \subseteq IdleStages
  BY ActHeadless DEF ActionKinds, IdleStages, Stages
<1>6. CASE ContractConflict
  <2> DEFINE s == [c EXCEPT !.convergence.status = "DECISION_REQUIRED"]
  <2>1. /\ s \in Cycle /\ s.heads = c.heads /\ s.findings = c.findings
        /\ s.convergence.trees = c.convergence.trees
    BY <1>1 DEF Cycle, Convergence
  <2>2. c.stage = "fix-pending"
        /\ c' = SetStage(s, "decision-required", Act("convergence-decision"))
    BY <1>1, <1>6 DEF ContractConflict, RequireConvergenceDecision, Good, BudgetStage
  <2> HIDE DEF s
  <2>3. Aged(c', head) /\ Closes(c, c')
    BY <1>4, <1>5, <2>1, <2>2
  <2> QED
    BY <1>1, <2>3, StoredAged
<1>7. CASE Continue
  <2> DEFINE s == [c EXCEPT !.convergence.status = "ACTIVE",
                            !.convergence.continueUsed = TRUE,
                            !.convergence.continuePending = TRUE]
             t == IF s.stage = "decision-required" /\ s.findings # NoFindings
                  THEN SetStage(s, "fix-pending", NoAction) ELSE s
  <2>1. CASE /\ c.convergence.status = "DECISION_REQUIRED" /\ ~c.convergence.continueUsed
             /\ c' = Resume(t)
    <3>1. Good(t) /\ Sound(t)
      BY <1>1, <2>1, ContinuedSound
    <3>2. c.stage = "decision-required" /\ c.findings # NoFindings
      BY <1>1, <2>1 DEF Good, BudgetStage, FixHasFindings
    <3>3. /\ s \in Cycle /\ s.heads = c.heads /\ s.findings = c.findings
          /\ s.convergence.trees = c.convergence.trees /\ s.stage = c.stage
      BY <1>1 DEF Cycle, Convergence
    <3>4. t = SetStage(s, "fix-pending", NoAction)
      BY <3>2, <3>3
    <3> HIDE DEF s, t
    <3>5. Aged(t, head) /\ Closes(c, t) /\ t.stage = "fix-pending" /\ t.findings = c.findings
      <4>1. NoAction \in Pending /\ "fix-pending" \in Stages
        BY <1>5 DEF Headless, IdleAction, IdleStages
      <4> QED
        BY <1>4, <1>5, <3>2, <3>3, <3>4, <4>1, SetStageType
    <3>6. Aged(c', head) /\ Closes(t, c')
      BY <1>1, <2>1, <3>1, <3>5, ResumeAged
    <3>7. Closes(c, c')
      BY <3>5, <3>6 DEF Closes, Closed
    <3> QED
      BY <1>1, <3>6, <3>7, StoredAged
  <2> QED
    BY <1>2, <1>7, <2>1 DEF Continue
<1>8. CASE ReplanOrReslice
  <2> DEFINE s == [c EXCEPT !.convergence.status = "DECIDED"]
  <2>1. /\ s \in Cycle /\ s.heads = c.heads /\ s.findings = c.findings
        /\ s.convergence.trees = c.convergence.trees
    BY <1>1 DEF Cycle, Convergence
  <2>2. c' = SetStage(s, "convergence-decided", NoAction)
    BY <1>8 DEF ReplanOrReslice
  <2> HIDE DEF s
  <2>3. Aged(c', head) /\ Closes(c, c')
    BY <1>4, <1>5, <2>1, <2>2
  <2> QED
    BY <1>1, <2>3, StoredAged
<1> QED
  BY <1>2, <1>3, <1>6, <1>7, <1>8 DEF SaveResumed

\* A commit of the caller, on a branch that only grows; the rest of git; grading.
LEMMA GitAged ==
  ASSUME Grows, Ladder, HInv, Git \/ Grade \/ UNCHANGED vars
  PROVE  StepAged
<1>1. /\ Good(c) /\ c \in Cycle /\ head \in Heads /\ Aged(c, head) /\ Closed(c, c)
      /\ w.run = "deslop" => CleanupRuns(w.state)
      /\ w.run = "followup" => FollowupRuns(w.state)
  BY SameFindings DEF Ladder, IInv, HInv, Good, Closes
<1>2. CASE Commit
  <2>1. head' \in Heads /\ Age[head] <= Age[head'] /\ c' = c /\ w' = w
    BY <1>1, <1>2 DEF Commit, Grows
  <2>2. Aged(c, head')
    BY <1>1, <2>1, AgedLater
  <2>3. w.run \in {"deslop", "followup"} => Aged(w.state, head')
    BY <1>1, <2>1, AgedLater DEF HInv, CleanupRuns, FollowupRuns, Good
  <2> QED
    BY <1>1, <2>1, <2>2, <2>3 DEF HInv, StepAged
<1>3. CASE Edit \/ Stash \/ UNCHANGED vars
  <2>1. head' = head /\ c' = c /\ w' = w
    BY <1>3 DEF Edit, Stash, vars
  <2> QED
    BY <1>1, <2>1 DEF HInv, StepAged
<1>4. CASE Grade
  <2>1. /\ c'.stage = c.stage /\ c'.pending = c.pending /\ c'.heads = c.heads
        /\ c'.findings = c.findings /\ c'.convergence = c.convergence
        /\ c'.round.blocked = c.round.blocked /\ w' = w /\ head' = head
    BY <1>1, <1>4 DEF Grade, Cycle, RoundFile
  <2>2. Aged(c', head')
    BY <1>1, <2>1, StaysAged
  <2>3. /\ Closed(c, c')
        /\ w.run \in {"deslop", "followup"} => Closed(c', w.state)
    BY <1>1, <2>1 DEF Closed, HInv
  <2> QED
    BY <2>1, <2>2, <2>3 DEF HInv, StepAged
<1> QED
  BY <1>2, <1>3, <1>4 DEF Git

-----------------------------------------------------------------------------
(* The theorems                                                            *)

\* A new cycle is aged.
LEMMA InitHInv == ASSUME Grows PROVE Init => HInv
<1> SUFFICES ASSUME Init PROVE HInv
  OBVIOUS
<1>1. /\ c.stage = "created" /\ c.pending = NoAction /\ c.findings = NoFindings
      /\ c.heads = [head |-> FirstHead, reviewed |-> None, fix |-> None, followup |-> None]
      /\ c.convergence.trees = {} /\ w.run = "nothing" /\ head = FirstHead
  BY DEF Init, NewCycle, NoWork
<1>2. /\ NotPast(None, head) /\ NotPast(FirstHead, head) /\ Before({}, head)
      /\ NoAction.fix = None /\ NoAction.head = None /\ NoAction.kind = "none"
      /\ NoFindings.head = None
  BY <1>1, NotPastFacts, HeadAssumption DEF Before, NoAction, NoFindings
<1>3. Ordered(c, head)
  BY <1>1, <1>2 DEF Ordered
<1>4. ~InRound(c) /\ WaitAged(c, head)
  BY <1>1, <1>2 DEF InRound, WaitAged
<1> QED
  BY <1>1, <1>3, <1>4 DEF HInv, Aged

\* Every step keeps the third invariant, given the others, and closes findings only by a
\* follow-up of a later tree: one lemma per action.
LEMMA NextAged == ASSUME Grows, Ladder, HInv, [Next]_vars PROVE StepAged
<1>1. CASE Advance
  BY <1>1, RerunAged, EndCleanupAged, ReviewersEndAged, FinishAged, RecoverArenaAged, GitAged
     DEF Advance
<1>2. CASE Command
  BY <1>2, DecideAged, GithubResultAged, CommandAged
     DEF Command, DecideClean, DecideFindings
<1>3. CASE Git \/ UNCHANGED vars
  BY <1>3, GitAged
<1> QED
  BY <1>1, <1>2, <1>3 DEF Next

\* On a branch that only grows the stored document, and the one a cleanup or a follow-up works
\* on, are aged.
THEOREM HistoryInvariant == ASSUME Grows PROVE Spec => [](Ladder /\ HInv)
<1>1. Init => Ladder /\ HInv
  BY InitIInv, InitLInv, InitHInv DEF Ladder
<1>2. (Ladder /\ HInv) /\ [Next]_vars => (Ladder /\ HInv)'
  <2>1. Ladder /\ [Next]_vars => Ladder'
    BY NextIInv, NextLInv DEF Ladder
  <2>2. Ladder /\ HInv /\ [Next]_vars => HInv'
    BY NextAged DEF StepAged
  <2> QED
    BY <2>1, <2>2
<1> QED
  BY <1>1, <1>2, PTL DEF Spec

\* What is shown as done for HEAD was reviewed at HEAD: every head that counts as one of the
\* ladder is no later than the reviewed one, so on a branch that never comes back to a commit
\* HEAD is among them only where it is the reviewed one.
THEOREM DoneWasReviewed ==
  ASSUME Grows, CommitsStay
  PROVE  Spec => []DoneIsReviewed
<1>1. Ladder /\ HInv => DoneIsReviewed
  <2> SUFFICES ASSUME Ladder, HInv, LadderDone(c, head) PROVE c.heads.reviewed = head
    BY DEF DoneIsReviewed
  <2>1. /\ c.stage = "review-green" /\ c.heads.reviewed \in Heads /\ head \in Heads
        /\ head \in LadderHeads(c)
    BY DEF LadderDone, LadderInvalidated, Ladder, IInv, Good, GreenWasReviewed
  <2>2. NotPast(head, c.heads.reviewed)
    <3>1. Identified(c, c.heads.reviewed) /\ NotPast(c.heads.reviewed, c.heads.reviewed)
      BY <2>1, NotPastFacts DEF HInv, Aged, WaitAged
    <3> QED
      BY <2>1, <3>1 DEF LadderHeads, Identified
  <2>3. NotPast(c.heads.reviewed, head)
    BY DEF HInv, Aged, Ordered
  <2>4. Age[head] = Age[c.heads.reviewed]
    BY <2>1, <2>2, <2>3, HeadAssumption DEF NotPast, Grows
  <2> QED
    BY <2>1, <2>4 DEF CommitsStay
<1> QED
  BY <1>1, HistoryInvariant, PTL

\* A tree on which findings were accepted is never signed off, also as another commit, on a
\* branch that never comes back to a tree it has left.
THEOREM RejectedNeverGreen ==
  ASSUME Grows, TreesStay
  PROVE  Spec => []RejectedTreeNotGreen
<1>1. Ladder /\ HInv => RejectedTreeNotGreen
  <2> SUFFICES ASSUME Ladder, HInv, c.stage = "review-green",
                      Tree[c.heads.reviewed] \in c.convergence.trees
               PROVE  FALSE
    BY DEF RejectedTreeNotGreen
  <2>1. c.heads.reviewed \in Heads /\ Before(c.convergence.trees, c.heads.reviewed)
    BY DEF Ladder, IInv, Good, GreenWasReviewed, HInv, Aged, WaitAged
  <2> QED
    BY <2>1 DEF Before, Grows
<1> QED
  BY <1>1, HistoryInvariant, PTL

\* In deep mode findings are closed only by a follow-up review of a later tree than the one
\* they were found on, whatever crashes, retries and moves of HEAD come between.
THEOREM ClosedByFollowup ==
  ASSUME Deep, Grows, TreesStay
  PROVE  Spec => FindingsClosedByFollowup
<1>1. Ladder /\ HInv /\ [Next]_vars /\ (Ladder /\ HInv)' =>
        [ c.findings # NoFindings /\ c'.findings = NoFindings =>
            /\ c'.heads.followup # None
            /\ Tree[c'.heads.followup] # Tree[c.findings.head] ]_vars
  <2> SUFFICES ASSUME Ladder, HInv, [Next]_vars, Ladder', c.findings # NoFindings,
                      c'.findings = NoFindings
               PROVE  /\ c'.heads.followup # None
                      /\ Tree[c'.heads.followup] # Tree[c.findings.head]
    OBVIOUS
  <2>1. Closed(c, c')
    BY NextAged DEF StepAged
  <2>2. c'.heads.followup # None /\ Age[c.findings.head] < Age[c'.heads.followup]
    BY <2>1 DEF Closed
  <2>3. c.findings.head \in Heads /\ c'.heads.followup \in Heads
    BY <2>2 DEF Ladder, IInv, Good, FindingsRecorded, Cycle, ReviewHeads
  <2>4. Age[c.findings.head] # Age[c'.heads.followup]
    BY <2>2, <2>3 DEF Grows
  <2> QED
    BY <2>2, <2>3, <2>4 DEF TreesStay
<1> QED
  BY <1>1, HistoryInvariant, PTL DEF Spec, FindingsClosedByFollowup

=============================================================================
