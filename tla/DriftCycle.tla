------------------------------ MODULE DriftCycle ------------------------------
(***************************************************************************)
(* A review cycle while the base branch moves under it.                     *)
(*                                                                         *)
(* ReviewCycle leaves the merge base alone.  Here the branch is rebased     *)
(* onto, or merges, a base that went on, and somebody may have another      *)
(* branch checked out: a cycle then looks for the commit that makes the     *)
(* same changes as the one it reviewed, and rewrites its stored heads.      *)
(* The transitions of the document are those of ReviewCycle, for a profile  *)
(* with one signoff step; how an invocation resumes is modelled anew.       *)
(***************************************************************************)
EXTENDS GitBranch

CONSTANTS
    MaxLine,     \* bound: edits and merges of the branch
    Fast,        \* mode.effective = "fast": GitHub review is optional
    Limit,       \* DEFAULT_ACCEPTED_FINDINGS_LIMIT
    None         \* JSON null

ASSUME DriftAssumption ==
    /\ MaxLine \in Nat \ {0} /\ Fast \in BOOLEAN /\ Limit \in Nat \ {0}
    /\ Paths # {}

VARIABLES
    c,          \* the stored cycle: document, merge base and base drift
    w,          \* the unsaved cycle of an invocation that runs the closure pass
    tip,        \* the commit of the branch
    base,       \* the commit of the base branch
    elsewhere,  \* the base branch is checked out in the cycle's directory
    launched    \* history: the commit the newest round was launched on

vars == <<c, w, tip, base, elsewhere, launched>>
git == <<tip, base, elsewhere>>

Commits == [fork : BaseCommits, line : BoundedSeq(Step, MaxLine)]

ASSUME CommitAssumption == None \notin Commits

TreeOf == [h \in Commits |-> [p \in Paths |-> Blob(h, p)]]
FirstTip == Commit(BaseCommit(0), CHOOSE p \in Paths : TRUE)

HEAD == IF elsewhere THEN BaseCommit(base) ELSE tip

\* the steps of the frozen profile
Signoff == <<[kind |-> "signoff", rerun |-> TRUE, pool |-> 1]>>

Cycle == INSTANCE ReviewCycle WITH
    Heads <- Commits, FirstHead <- FirstTip, Tree <- TreeOf, Moves <- {},
    Deep <- FALSE, Plan <- Signoff, Cleanup <- ~Fast, HasBrief <- FALSE,
    AcceptedLimit <- Limit, Gates <- {}, Statuses <- {},
    c <- c.doc, w <- w, head <- HEAD, clean <- ~elsewhere

-----------------------------------------------------------------------------
(* Base drift                                                              *)

NoDrift == [equivalent |-> FALSE, from |-> None, to |-> None]

Moved(s) == s.mb # MergeBase(HEAD)

\* _base_drift_reviewed_head: the commit whose changes count as reviewed
DriftReviewedHead(d) ==
    LET stored == <<IF Cycle!DeslopOpen(d) THEN d.deslop.head ELSE None,
                    d.findings.head, d.pending.head, d.heads.reviewed, d.heads.head>>
    IN  stored[Min({k \in DOMAIN stored : stored[k] # None})]

\* mutant: a base that touches other files is enough
EquivalentByPaths(s, at) ==
    BaseDrift(s.mb, MergeBase(HEAD), DriftReviewedHead(s.doc), at).overlap = {}

\* _allowed_base_drift, for HEAD itself or for its parent
Equivalent(s, at) ==
    LET d == BaseDrift(s.mb, MergeBase(HEAD), DriftReviewedHead(s.doc), at)
    IN  d.overlap = {} /\ d.equivalent

\* mutant: HEAD itself is forgotten
EquivalentParent(s) ==
    IF HasParent(HEAD) /\ Equivalent(s, FirstParent(HEAD)) THEN FirstParent(HEAD) ELSE None

EquivalentReviewedHead(s) ==
    IF Equivalent(s, HEAD) THEN HEAD
    ELSE IF HasParent(HEAD) /\ Equivalent(s, FirstParent(HEAD)) THEN FirstParent(HEAD)
    ELSE None

DriftAllowed(s) ==
    BaseDrift(s.mb, MergeBase(HEAD), DriftReviewedHead(s.doc), HEAD).overlap = {}

\* _current_cycle_identity_if_compatible: the checkout, as far as the cycle may
\* follow it; drift is what _allowed_base_drift found out about a moved merge base
CompatibleAt(s, to) ==
    /\ ~elsewhere
    /\ Moved(s) =>
         /\ DriftAllowed(s)
         /\ s.doc.stage \in {"decision-pending", "fix-pending"} => to # None

Drifted(s, to) ==
    LET ok == CompatibleAt(s, to)
    IN  [compatible |-> ok,
         drift |-> IF Moved(s) /\ ok
                   THEN [equivalent |-> Equivalent(s, HEAD),
                         from |-> DriftReviewedHead(s.doc), to |-> to]
                   ELSE NoDrift]

Identity(s) == Drifted(s, EquivalentReviewedHead(s))

\* mutant: the round and the findings keep the old head
RewriteReviewedOnly(d, from, to) ==
    IF to # None /\ d.heads.reviewed = from THEN [d EXCEPT !.heads.reviewed = to] ELSE d

\* _with_equivalent_base_drift_review_head
Rewrite(d, from, to) ==
    LET New(h) == IF h = from THEN to ELSE h
    IN  IF to = None THEN d
        ELSE [d EXCEPT
               !.deslop.head = New(@), !.findings.head = New(@),
               !.pending.head = New(@), !.pending.fix = New(@),
               !.heads = [k \in DOMAIN @ |-> New(@[k])],
               !.progress.completed = [i \in DOMAIN @ |-> New(@[i])]]

\* _with_current_identity, then the rewriting
Follow(s, drift) ==
    LET at == [s EXCEPT !.doc.heads.head = HEAD, !.mb = MergeBase(HEAD),
                        !.drift = IF drift = NoDrift THEN @ ELSE drift]
    IN  [at EXCEPT !.doc = Rewrite(@, drift.from, drift.to)]

-----------------------------------------------------------------------------
(* The ladder, as shown for a commit                                       *)

EquivalentHead(s, h) ==
    IF s.drift.equivalent /\ h = s.drift.from THEN s.drift.to ELSE h

LadderHeads(s) == {EquivalentHead(s, h) : h \in Cycle!LadderHeads(s.doc)}

LadderInvalidated(s, h) ==
    \/ h \notin LadderHeads(s)
    \/ Cycle!GithubTerminal(s.doc) /\ EquivalentHead(s, s.doc.github.head) # h

LadderDone(s, h) ==
    /\ s.doc.stage = "review-green"
    /\ ~LadderInvalidated(s, h)
    /\ ~Cycle!DeslopTracked(s.doc)
    /\ \/ Fast /\ s.doc.github.status = "unknown"
       \/ Cycle!GithubTerminal(s.doc)

\* _github_pending_head_change_identity
SignoffOutdated(s, drift) ==
    \/ /\ s.doc.deslop.status # "skipped" \/ Cycle!GithubTerminal(s.doc)
       /\ s.doc.heads.reviewed # HEAD \/ Moved(s)
    \/ ~drift.equivalent /\ LadderInvalidated(s, HEAD)

-----------------------------------------------------------------------------
(* _resume_progress                                                        *)

ResumeCreated(s, id) ==
    LET moved == [Follow(s, id.drift) EXCEPT !.doc.validation = Cycle!NewValidation]
        fixed == DiffPaths(s.doc.deslop.head, HEAD) # {} /\ ~id.drift.equivalent
    IN  IF s.doc.deslop.status \in {"done", "closed"}
           /\ id.compatible /\ s.doc.heads.head # HEAD
        THEN [moved EXCEPT !.doc = IF Cycle!DeslopOpen(s.doc) /\ fixed
                                   THEN Cycle!MarkDeslopClosed(@, FALSE) ELSE @]
        ELSE s

ResumeDecision(s, id) ==
    IF ~id.compatible THEN s
    ELSE [Follow(s, id.drift) EXCEPT
            !.doc = IF id.drift.equivalent \/ @.round.blocked \/ @.pending.head = HEAD
                    THEN @
                    ELSE Cycle!MarkFixDetected(Cycle!RecordDecision(@, "findings"), HEAD)]

ResumeGreen(s, id) ==
    IF ~elsewhere /\ SignoffOutdated(s, id.drift)
    THEN [Follow(s, id.drift) EXCEPT
            !.doc = Cycle!MarkLatestProfileStepRerunNeeded(
                        [@ EXCEPT !.github = [status |-> "unknown", head |-> None]], HEAD)]
    ELSE s

\* any new commit of the branch is looked at, also one whose drift is not allowed
ResumeFix(s, id) ==
    IF id.compatible \/ (~elsewhere /\ s.doc.findings.head # HEAD)
    THEN [Follow(s, id.drift) EXCEPT
            !.doc = IF DiffPaths(@.findings.head, HEAD) # {} /\ ~id.drift.equivalent
                    THEN Cycle!MarkFixDetected(@, HEAD) ELSE Cycle!WithFixAction(@)]
    ELSE [s EXCEPT !.doc = Cycle!WithFixAction(@)]

ResumeAt(s, id) ==
    CASE s.doc.stage = "created"          -> ResumeCreated(s, id)
      [] s.doc.stage = "decision-pending" -> ResumeDecision(s, id)
      [] s.doc.stage = "review-green"     -> ResumeGreen(s, id)
      [] s.doc.stage = "fix-pending"      -> ResumeFix(s, id)
      [] OTHER                            -> s

Resume(s) == ResumeAt(s, Identity(s))

-----------------------------------------------------------------------------
(* The commands                                                            *)

\* The loop of _advance_without_decision, up to its expensive step.  Findings are
\* never open while a decision is pending, so a clean decision is not refused.
ResumeAndRetry(s) ==
    IF Cycle!DeslopReady(s.doc) \/ Cycle!DeslopOpen(s.doc)
    THEN [Resume(s) EXCEPT !.doc = Cycle!RetryBlocked(@)] ELSE s

AutoDecide(s) ==
    IF Cycle!AutoDecides(s.doc)
    THEN ResumeAndRetry([s EXCEPT !.doc = Cycle!RecordDecision(@, @.round.verdict)])
    ELSE s

Settle(s) == AutoDecide(ResumeAndRetry(s))

Idle == w = None
Save(s) == c' = s /\ UNCHANGED <<w, launched, git>>

\* _run_deslop_once follows HEAD and the merge base, and rewrites nothing
FollowHead(s) ==
    IF s.doc.heads.head = HEAD /\ ~Moved(s) THEN s
    ELSE [s EXCEPT !.doc.heads.head = HEAD, !.mb = MergeBase(HEAD),
                   !.doc.validation = Cycle!NewValidation]

RunCleanup(s, by) ==
    /\ Cycle!DeslopShouldRun(s.doc) /\ ~elsewhere
    /\ w' = [by |-> by, state |-> FollowHead(s)]
    /\ UNCHANGED <<c, launched, git>>

RerunCleanup == Idle /\ RunCleanup(Settle(c), "rerun")

\* _require_committed_fix_interdiff
FixCommitted(since) == DiffPaths(since, HEAD) # {}

\* The round is launched on whatever is checked out: _review_scope asks git for
\* HEAD and does not look at the branch.
Launch(s) ==
    /\ Cycle!CanLaunch(s.doc)
    /\ s.doc.pending.fix # None => FixCommitted(s.doc.pending.fix)
    /\ c' = [s EXCEPT !.doc =
               [Cycle!SetStage(@, "running",
                    [kind |-> "collect-review-step", step |-> @.progress.next,
                     fix |-> @.pending.fix, head |-> HEAD])
                EXCEPT !.round = Cycle!LaunchedRound]]
    /\ launched' = HEAD
    /\ UNCHANGED <<w, git>>

RerunLaunch == Idle /\ Launch(Settle(c))

NothingToRun(s) ==
    /\ s.doc.stage # "running"
    /\ ~(Cycle!DeslopShouldRun(s.doc) /\ ~elsewhere)
    /\ ~Cycle!CanLaunch(s.doc)
    /\ Save(Resume(s))

RerunIdle == Idle /\ NothingToRun(Settle(c))

EndCleanup ==
    /\ ~Idle
    /\ \E done \in BOOLEAN :
         LET s == [w.state EXCEPT
                     !.doc = IF done THEN Cycle!MarkDeslopDone(@, FALSE, @.heads.head)
                             ELSE Cycle!MarkDeslopFailed(@)]
         IN  \/ w.by = "rerun" /\ c' = Settle(s)
             \/ w.by = "decision" /\ c' = s
    /\ w' = None
    /\ UNCHANGED <<launched, git>>

Crash ==
    /\ ~Idle /\ w' = None
    /\ UNCHANGED <<c, launched, git>>

ReviewersEnd ==
    /\ c.doc.stage = "running" /\ c.doc.round.status = "running"
    /\ \E a \in Cycle!Answers : Save([c EXCEPT !.doc.round = a])

FinishReview ==
    /\ c.doc.stage = "running" /\ c.doc.round.status = "completed"
    /\ Save(Settle([c EXCEPT !.doc = Cycle!ReviewStepPending(@)]))

RecordOn(s, d) ==
    \/ RunCleanup(s, "decision")
    \/ /\ Cycle!DeslopReady(s.doc) /\ s.doc.stage = "decision-pending"
       /\ ~s.doc.round.blocked
       /\ Save([s EXCEPT !.doc = Cycle!RecordDecision(@, d)])

Decide(d) == Idle /\ RecordOn(IF Cycle!DeslopReady(c.doc) THEN Resume(c) ELSE c, d)

DecideClean == Decide("clean")
DecideFindings == Decide("findings")

\* what --deslop-done, --github-review, --github-result and a late --decision save
\* when there is something to resume
SaveResumed == Idle /\ \E s \in {Resume(c)} : s # c /\ Save(s)

DeslopDone ==
    /\ Idle /\ Cycle!DeslopOpen(c.doc)
    /\ Resume(c) = c /\ Identity(c).compatible
    /\ Save([c EXCEPT !.doc = Cycle!MarkDeslopClosed(@, FALSE)])

GithubResult ==
    /\ Idle /\ c.doc.stage = "review-green" /\ ~Cycle!DeslopTracked(c.doc)
    /\ Resume(c) = c
    /\ \E result \in {"clean", "findings"} :
         LET d == c.doc
             h == d.heads.reviewed
             recorded == [d EXCEPT !.github = [status |-> result, head |-> h]]
             open == [recorded EXCEPT
                        !.findings = [head |-> h, step |-> Cycle!LastCompleted(d),
                                      rerun |-> TRUE],
                        !.validation.green = FALSE]
         IN  Save([c EXCEPT !.doc =
                 IF result = "clean" THEN recorded
                 ELSE Cycle!RecordAcceptedFindingsHead(
                          Cycle!SetStage(open, "fix-pending", Cycle!NoAction), h)])

-----------------------------------------------------------------------------
(* git                                                                     *)

Checked(t, b, e) ==
    /\ tip' = t /\ base' = b /\ elsewhere' = e
    /\ UNCHANGED <<c, w, launched>>

CommitFix == /\ ~elsewhere /\ Len(tip.line) < MaxLine
             /\ \E p \in Paths : Checked(Commit(tip, p), base, FALSE)
RebaseBranch == /\ ~elsewhere /\ MergeBase(tip) < base
                /\ Checked(Rebase(tip, base), base, FALSE)
MergeBranch == /\ ~elsewhere /\ MergeBase(tip) < base /\ Len(tip.line) < MaxLine
               /\ Checked(Merge(tip, base), base, FALSE)
BaseMoves == base < MaxBase /\ Checked(tip, base + 1, elsewhere)
Checkout == Checked(tip, base, ~elsewhere)

-----------------------------------------------------------------------------

\* --skip-deslop leaves the closure pass out
Init ==
    /\ c \in {[doc |-> [Cycle!NewCycle EXCEPT !.deslop.status = d],
               mb |-> 0, drift |-> NoDrift] :
                d \in {"skipped"} \union IF Fast THEN {} ELSE {"tracked"}}
    /\ w = None
    /\ tip = FirstTip /\ base = 0 /\ elsewhere = FALSE
    /\ launched = None

Command == \/ RerunCleanup \/ RerunLaunch \/ RerunIdle \/ EndCleanup \/ Crash
           \/ ReviewersEnd \/ FinishReview \/ DecideClean \/ DecideFindings
           \/ SaveResumed \/ DeslopDone \/ GithubResult

Git == CommitFix \/ RebaseBranch \/ MergeBranch \/ BaseMoves \/ Checkout

Next == Command \/ Git

Spec == Init /\ [][Next]_vars

-----------------------------------------------------------------------------

HeadsOf(d) == {d.heads[k] : k \in DOMAIN d.heads} \union
              {d.progress.completed[i] : i \in DOMAIN d.progress.completed} \union
              {d.deslop.head, d.findings.head, d.pending.head, d.pending.fix,
               d.github.head}

StoredOK(s) ==
    /\ \A h \in HeadsOf(s.doc) \union {s.drift.from, s.drift.to} :
           h = None \/ h \in Commits
    /\ s.doc.stage \in Cycle!Stages /\ s.doc.pending.kind \in Cycle!ActionKinds
    /\ s.doc.heads.head # None
    /\ s.drift.equivalent => s.drift.to # None
    /\ s.mb \in BaseCommits

TypeOK ==
    /\ StoredOK(c)
    /\ w # None => StoredOK(w.state)
    /\ tip \in Commits /\ base \in BaseCommits
    /\ elsewhere \in BOOLEAN
    /\ launched = None \/ launched \in Commits

\* What the branch changes, as the diff against its merge base.
Changes(h) == Patch(BaseCommit(MergeBase(h)), h)

\* "done" is only shown for a commit that makes the changes the signoff was launched
\* on, however often its heads were rewritten in between and whatever was checked out
\* when a command ran.
DoneForItsPatch == LadderDone(c, HEAD) => Changes(HEAD) = Changes(launched)

\* A branch that was only moved to another base is no fix: it closes no findings and
\* no closure pass, and makes no findings out of a clean round.  Claimed while the
\* cycle has the merge base its commit was reviewed on: a round launched after a
\* rebase keeps the older one.
RebaseIsNoFix ==
    [][ LET d == c.doc
            Same(h) == c.mb = MergeBase(h) /\ Changes(h) = Changes(HEAD)
        IN  /\ d.findings # Cycle!NoFindings /\ c'.doc.findings = Cycle!NoFindings
                 => ~Same(d.findings.head)
            /\ Cycle!DeslopOpen(d) /\ ~Cycle!DeslopOpen(c'.doc)
                 => DeslopDone \/ ~Same(d.deslop.head)
            /\ d.round.verdict = "clean" /\ c'.doc.convergence # d.convergence
                 => DecideFindings \/ ~Same(d.pending.head) ]_vars

================================================================================
