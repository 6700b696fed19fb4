# Review-suite in TLA+

This directory models the review suite (`src/plugins/review-suite/scripts/`): a command
line that takes a branch through a *ladder* of model-run reviews, cleanup, signoff and
GitHub review. TLC checks small instances; TLAPS proves some of the results for every
value of the constants.

    tlc -workers 2 -config normal.cfg MCReviewCycle     # a run; see "Runs"
    tlapm ReviewCycleProofs.tla                          # proofs; one module of them per `*Proofs.tla`

## The system

All paths are below `src/plugins/review-suite/scripts/`; `core/` is `review_suite_core/`.

| Component | State it keeps | Operations | What is hard |
|---|---|---|---|
| cycle state machine, `core/orchestrator_state.py` | one JSON document per cycle: stage, pending action, progress through the profile's steps, open findings, reviewed heads, convergence budget, validation gates, GitHub verdict, closure pass | functions from document to document, one per transition | long legal sequences: skips, rewinds, budgets, a closure pass that must run exactly once, heads that move |
| driver, `review.py` | none of its own | `--id` reruns advance the cycle by at most one expensive step; `--decision`, `--deslop-done`, `--github-result`, gates, `--contract-conflict`, `--convergence-decision`, restarts | every handler resumes the stored state against HEAD and the merge base first; decisions are derived from verdicts or from head changes |
| step runner, `core/orchestrator_runner.py` | none | runs a cleanup, a review or arena step, a follow-up; collects a running round; recovers a blocked one | works for minutes on a document it read before; may die |
| store, `core/orchestrator_store.py` | cycle files, id index, lock files | save, load, allocate an id, reserve a successor | several processes, crash between two writes, whole-document saves |
| rounds, `review_suite_local.py` | a file per round, operational state with cooldowns | launch, retry for capacity, stop, collect, dismiss, grade | crash with reviewers running, retry limits, stale-round sweep against collectors, directory locks |
| arena, `review_suite_arena.py` and the selection half of `review_suite_local.py` | round files, the log of grades, champions and cooling variants | pick variants, reroll, grade, dismiss | selections overlap, rerolls of rerolls, ratings from ties |
| GitHub, `review_github.py` | none; comments of the pull request | find or post a request, poll for the answer | head moves, duplicate requests, old answers, timeouts |
| bootstrap, `review_suite_runtime_bootstrap.py` | copies of the runtime, leases | copy, promote, lease, clean up | launchers race without a lock |
| anchors, `core/workflow_state.py`, `review_followup.py` | anchors of reviewed commits per branch | record, inspect, choose the follow-up base | branch moves while a review runs, bounded history, rebases |

The rest (profiles and configuration, back ends, process runtime, costs, branch status,
output, standalone commands) parses, starts programs or reports; it keeps no state that a
later step depends on. `PROJECT.json` lists it too, with reasons.

How they interact: `review.py` loads a document from the store, passes it through
functions of the state machine, lets the runner do at most one expensive step (which
starts reviewers through the rounds module and reads their round files), and saves the
result. Which models review is the arena's choice. The caller, usually an agent, follows
the action the command printed: fixes and commits, decides, grades an arena round in
another program, or reruns. All scripts run from a copy the bootstrap made. The anchors are
a second record of what was reviewed, kept by the standalone commands.

## Correctness, by component

- State machine, driver and runner: the signoff is never skipped; cleanup comes before it,
  once, and never strands the cycle; findings stay open until a fix was reviewed; the
  budget of accepted findings is enforced; green, GitHub verdict, gates and "done" belong to
  the head that was signed off, also when the branch is rebased; the ladder always comes
  to rest where the caller has something to do.
- Store: an id names one cycle, no late save brings a superseded cycle back, a crashed
  reservation is taken up again, no lock is left behind.
- Rounds: a review once stored is kept, retries are bounded, failures and grades are counted
  once, every command ends.
- Arena: a round has different reviewers and stays gradable, the schedule of groups is used
  once, ratings are only moved between variants.
- GitHub: an answer is only taken for the head it fits; a needless request is not posted.
- Bootstrap: a runtime holds what its name says, and one in use stays whole.
- Anchors: the status asks for nothing only where HEAD was reviewed; follow-ups are bounded.

`PROJECT.json` lists the hazards with the line where each bites and the property about it.

## Modules

| Module | What it is |
|---|---|
| `ReviewCycle` | the state machine, the driver's commands, the runner's steps, the caller in git, on a fixed merge base |
| `MCReviewCycle` | plans of the shipped profiles and small branch histories for TLC |
| `FastRounds` | `ReviewCycle` with a history variable that counts rounds |
| `ReviewCycleProofs` | the theorems about `ReviewCycle`, in three parts, each on top of the one before |
| `DriftCycle`, `MCDriftCycle`, `DriftCycleProofs` | the same ladder while the base branch moves and another branch may be checked out; an `INSTANCE` of `ReviewCycle` whose heads are commits of `GitBranch` |
| `GitBranch` | what the scripts ask of git: merge base, diffs, patches, ancestors, base drift |
| `CycleStore`, `MCCycleStore` | the stored documents, their index and locks, under several invocations, restarts and crashes |
| `CycleRegistry` | what the store promises, without files, locks or processes; `CycleStore` implements it |
| `CycleStoreProofs` | the theorems about `CycleStore`, and that it implements `CycleRegistry` |
| `ReviewRound`, `MCReviewRound`, `ReviewRoundProofs` | one round, its reviewer processes, and the commands that work on it |
| `ArenaPool`, `MCArenaPool`, `ArenaPoolProofs` | selection, rerolls, cooldowns, grades and ratings |
| `GithubCycle`, `MCGithubCycle`, `GithubCycleProofs` | one run of `review_github.py` against the bot, other callers and pushes |
| `RuntimeBootstrap`, `MCRuntimeBootstrap`, `RuntimeBootstrapProofs` | launchers that copy, share and remove runtimes |
| `WorkflowAnchors`, `MCWorkflowAnchors`, `WorkflowAnchorsProofs` | review anchors of a branch; extends `GitBranch` |

Operators whose comment begins with "mutant" are wrong variants of the operator that
follows them: nothing uses them, and `PROJECT.json` names the property that fails when one
takes the place of the right operator.

### ReviewCycle and the code

The source writes a transition as a function from document to document and lets a handler
chain such functions; the module has an operator per function on one record `s` and an
action per handler that stores the composition. Operators keep the names of the functions.

| Variable | In the code |
|---|---|
| `c` | the stored document, with the file of the round it waits for (`c.round`) |
| `w` | the invocation at work: which expensive step it runs and the unsaved document it holds |
| `head` | `git rev-parse HEAD` |
| `clean` | `_current_cycle_identity_if_compatible` succeeds: right branch, no uncommitted change, merge base unchanged |

| Action | Handler |
|---|---|
| `RerunCleanup`, `RerunLaunch`, `RerunFollowup`, `RerunIdle` | `review.py --id`, up to its expensive step (`_advance_without_decision`, `run_one_expensive_step`) |
| `EndCleanup`, `FinishReview`, `FinishReviewRefused`, `EndFollowup` | the same invocation after the step; `FinishReview` is also a later one that collects the round |
| `ReviewersEnd` | the reviewers' processes write their answer |
| `Crash` | the invocation dies |
| `RecoverArena`, `Grade` | the arena back end ends a blocked round; the caller ranks one |
| `DecideClean`, `DecideFindings` | `--decision` (`_apply_decision`), which may run the cleanup instead |
| `SaveResumed`, `DeslopDone`, `GithubResult`, `RecordGates` | the handlers of those names in `main` |
| `ContractConflict`, `Continue`, `ReplanOrReslice` | `--contract-conflict`, `--convergence-decision` |
| `Commit`, `Edit`, `Stash` | the caller in git, at any time, also while an invocation works |

Every handler first calls `_resume_progress`, which compares the document with HEAD;
`Resume` is that function, stage by stage. `Settle` is the loop of
`_advance_without_decision` up to its expensive step: the six passes of the loop are at
most one automatic decision between two resumptions, since a decision never leaves a stage
in which another one is due. `SettleRefused` is the exception the loop may end with, after
which nothing is saved.

Abstractions:

- Lists of rounds and decisions, ids, notes, models and texts are left out. A completed step
  keeps the head it was reviewed at. `accepted_findings_heads`, which the source keys by
  tree, is a set of trees.
- An arena round that was dismissed counts like a graded one for the automatic decision.
- `retry_count` and the focused-validation status are recorded and never read.
- A moved merge base and a checkout on another branch are `~clean`; what the code does about
  them is in `DriftCycle`.
- Restarts end a cycle (`abort_cycle`) and start another; they are in `CycleStore`.
- The stages `blocked`, `crashed`, `local-green-handoff` and `dismissed` are entered by no
  command.
- One invocation runs at a time, which the code does not enforce for ordinary cycles;
  `CycleStore` has several.

### DriftCycle and the code

The transitions of the document are those of `ReviewCycle`; `Resume` is modelled anew, now
with the merge base. `Identity` is `_current_cycle_identity_if_compatible`: whether the cycle may follow the
checkout, and the drift of its merge base. `Follow` is `_with_current_identity` with the
rewriting of `_with_equivalent_base_drift_review_head`.

| Variable | In the code |
|---|---|
| `c` | the stored document, `identity.merge_base`, and `base_drift` |
| `w` | the unsaved document of an invocation that runs the closure pass |
| `tip`, `base`, `elsewhere` | the commit of the branch, of its base, and whether the base is what is checked out |
| `launched` | history: the commit the newest round was launched on |

The commands are those of `ReviewCycle`; `CommitFix`, `RebaseBranch`, `MergeBranch`,
`BaseMoves` and `Checkout` are the caller in git. Left to `ReviewCycle`: follow-ups, plans of
several steps, gates, convergence decisions, uncommitted changes, amended messages. A running round is collected
at any time, by whichever invocation comes, so there is no variable for the one that waits.
Commits never go back, the base is never behind the merge base, and the other branch is the
base branch.

### CycleStore and the code

`ReviewCycle` is what one document means; `CycleStore` is what its writers may do to each
other. A document is reduced to what they can lose: its stage (`pending` stands for all
stages that wait for the caller), its redirect, the number of rounds, a gate.

| Variable | In the code |
|---|---|
| `disk` | the file of each cycle |
| `ids`, `cycle_keys` | `index.json` |
| `cyclesLock`, `successorLock` | the lock files `orchestrator-cycles` and `successor-<key>` |
| `me` | per invocation: where it is, the copy it loaded, the source of a restart |
| `overwritten` | nothing: a history of the successors whose redirect a reservation wrote over, which no step reads |

| Action | Handler |
|---|---|
| `LoadRerun`, `LoadRecord`, `LoadRestart` | `main` with `--id`: nothing else; a gate or a decision; a restart |
| `Continue`, `Create` | `main` without `--id`: `_compatible_continuation_cycle`, else `create_cycle` |
| `TakeLock`, `Write` | `save_cycle`: lock, merge what is on disk, give an id; replace the file and unlock |
| `PrepareSuccessor`, `Reserve`, `Write`, `WriteSource` | `_create_successor_cycle`, `reserve_cycle_successor`, whose two writes are two steps |
| `Enter`, `Busy`, `Leave` | `_resume_reserved_successor` |
| `Launch`, `Collect`, `RoundEnds`, `NothingToRun` | `_advance_without_decision`, as far as it saves |
| `Crash`, `GiveUp` | a process dies, or times out, anywhere; the system drops its locks |

Abstractions: a round is started and answered in any time, so an invocation that works for
minutes interleaves with everything. Loads take no lock and are one step, since a file is
replaced as a whole; a save is two steps under the lock, with a crash in between. The index
has a lock of its own that is only taken inside a save, so an id is given in the step that
takes the outer lock. A brief restart's check that the brief is a new one is left out (two
restarts with different briefs prepare the same key), as is its check of the findings. The
one-second wait for the lock of a successor and the thirty-second wait for the others may
end at any time.

### ReviewRound and the code

A command reads the round file once, keeps the copy in memory and writes the whole copy back
after each thing it does; only the write is locked. `disk` is the file, `mem[i]` the copy,
`pc[i]` where command `i` is. `proc` is a reviewer process with the files it leaves,
`failures` the failure count of the variant in `operational_state.json`, `log` the records in
`runs.jsonl`, `rated` those the stored ratings were computed from.

| Action | Handler |
|---|---|
| `RunRound`, `LaunchReviewer`, `LaunchSaved`, `LaunchDone`, `LaunchFails` | `launch_round` |
| `Resume`, `CollectRun`, `StopReviewer`, `FinishCollect` | `collect_round_results` |
| `MarkRetry`, `ClearForRetry`, `CleanupFails`, `Relaunch`, `RelaunchSaved` | `_maybe_retry_capacity_run`: attempt stored, files deleted, process started, stored again |
| `ApplyCooldowns`, `StoreCompleted`, `WriteResult` | the end of the collection |
| `DismissRound`, `Sweep`, `WriteDismissed`, `SweepLeaves` | dismissal, and `cleanup_stale_ungraded_rounds` |
| `Grade`, `AppendRecord`, `GradePending`, `Refresh`, `GradeDone` | `_record_grade_result` |
| `Crash`, `CrashInLock`, `LockTimesOut` | a command dies; inside the lock, whose directory stays and times everybody out |

What a reviewer left behind is one of: nothing, a review, a capacity message, a truncated
stream; how its output is parsed is left out. Both reviewers have one variant, the
interesting case for cooldowns. A crash inside the lock leaves the file as it was. Rejected
duplicate references, `wait=False` and the anchors of the standalone commands are left out.

### ArenaPool and the code

| Variable | In the code |
|---|---|
| `rounds` | `rounds/*.json` in the order they were written; a reroll refers to its source |
| `log`, `op` | `runs.jsonl`; `operational_state.json` |
| `draft[c]`, `raced` | the round caller `c` selected and has not written; history: two selections overlapped |

| Action | Handler |
|---|---|
| `SampleSchedule`, `SampleBalanced`, `SamplePair`, `WriteRound` | `select_pair` for a configured pool (scheduled group, then the balanced one) and for a free pair; the write is a step of its own |
| `Complete`, `CooldownExpires` | reviewers end, blocked ones cool; the cooldown passes |
| `Reroll` | `cmd_reroll_slot`, `build_reroll_slot_payload` |
| `Grade`, `Dismiss` | `_record_grade_result`, `cmd_dismiss_round` |

Ratings are a function of the log, as in the code (`aggregate_records`). A random choice
among candidates is nondeterministic. The logistic curve of `expected_score` is a three-level
step that keeps its symmetry. `_select_champion_pair` and the branches for champion mode are
not reachable and not modelled; setup and reports are not either.

### GithubCycle and the code

Nothing is stored; `thread` is what GitHub shows, `run` what an invocation knows. Each call of
`gh` is a step, so that the bot, another caller and a push come between any two.

| Action | Handler |
|---|---|
| `Start`, `InspectThread` .. `InspectNothing` | `inspect_existing_cycle`, one action per outcome |
| `PostRequest`, `ResolveRequest`, `RequestNotFound` | `post_review_request` and the search for what was posted |
| `Poll`, `Collect`, `ResponseFound`, `Acknowledged`, `LookAgain`, `Sleep`, `TimeOut` | the loop of `run_review_cycle` |
| `Bot`, `OtherRequest`, `Push`, `Tick`, `GhFails` | the outside |

Answers are not edited after they were posted, `gh` fails only around the post, the bot gives
a +1 exactly when it has nothing to say, and no push falls into the second of a comment.

### RuntimeBootstrap and the code

| Action | Handler |
|---|---|
| `Launch`, `CopyPart`, `CopyFails`, `Staged`, `Promote`, `PromoteLate` | `ensure_runtime_copy`: copy item by item, read the key, rename |
| `LeaveRoot`, `CondemnRoot`, `ListRoot`, `RemoveEntry`, `RemoveRoot`, `RemoveFails` | `_cleanup_stale_runtime_roots`, entry by entry |
| `Exec`, `ActivateLease`, `Heartbeat`, `Finish`, `Kill` | the process that runs from the copy |
| `Update`, `Tick` | the plugin is updated part by part; time |

`roots[c]` is the directory named after content `c`. A content hash of the source is taken in
one step; the check of the metadata and the first heartbeat are one step.

### GitBranch, WorkflowAnchors and the code

A commit is the base commit it started from and the edits and merges since then; merge base,
diffs, patches and `merge_base_drift_scope` are computed from that.

| Variable | In the code |
|---|---|
| `head`, `tip`, `dirty`, `detached` | the checkout and the base branch |
| `files` | the stored histories, one per branch or detached HEAD |
| `job`, `seen`, `advised` | reviews under way; history: reviewed commits, follow-ups asked for since the last checkpoint |

| Action | Handler |
|---|---|
| `StartFollowup`, `StartFull`, `StartGithub` | `review_followup.py` (which consults `inspect_workflow_status`), a full review, a GitHub review |
| `Record`, `Abandon` | `record_review_anchor` after the review, on the HEAD and branch of then; the review fails |
| `CommitFile`, `EditFile`, `MergeOfBase`, `RebaseBranch`, `ResetBranch`, `BaseMoves`, `Detach` | the caller in git |

`Status` is `inspect_workflow_status`. Left out: worktree statistics, lane advice and same-tier
pressure, which inform and decide nothing. One base branch, never force-pushed and never
behind the merge base.

## Runs

`PROJECT.json` says in a sentence what each run shows.

| Run | Instance | Distinct states |
|---|---|---|
| `normal` | arena, arena, signoff; 4 heads, the second an amended message of the first; budget 2 | 113,164 |
| `deep` | review, arena, signoff with follow-ups; 4 heads; the shipped budget 3 | 674,276 |
| `fast` | signoff only; 3 heads; two gates, passed or waived | 28,188 |
| `live` | arena, signoff; 3 heads, the second an amended message of the first; no gates; fairness | 12,314 |
| `drift` | signoff and closure pass; two files, two base commits of which one touches a file the branch edits; two edits or merges; the shipped budget 3 | 1,253,640 |
| `store` | two invocations; a cycle and its two successors, whose digests share a prefix; one round each | 1,692,712 |
| `rounds` | two reviewers, one retry, three processes, one crash; one command, or two on a completed round; fairness | 344,487 |
| `arena` | four variants (two of one model, one retired), two groups; three rounds, two grades, one failure, one dismissal | 1,292,485 |
| `github` | two heads, two answers, one other request, three ticks, two requests of the invocation | 4,081,035 |
| `bootstrap` | three processes, two parts in two versions, one tick, one kill | 1,282,267 |
| `anchors` | two files, one base commit, three reviews, two moves of the branch, a history of two anchors | 122,076 |
| `blocked_followup` | as `deep`, smaller; ends with a counterexample | |

Further configurations are kept beside these and are run the same way. They pass:
`normal_more` (`FindingsAwaitFix`, `ProgressConsistent`, `CleanupClosedOnce`,
`LeavingGreenForgets`, `GreenBySignoff`), `deep_more` (`BudgetEnforced`,
`CleanupNeverStrands`, `GreenBySignoff`), `fast_more` (`WaiverHasNote`,
`LeavingGreenForgets`), `store_more` (`AbortedRedirects`, `RestartFollowsRedirect`), `chain`
(these, `SuccessorStartsOnce` and `KeepsRegistry`, where the successor of a cycle is restarted
in turn: 1,036,476 states), `rounds_more` (`StoppedIsNotReview`), `arena_more`
(`UnsupportedStaysOut`). Each of `amended_fix`, `fast_rounds`, `fast_reset`,
`fast_elsewhere`, `clean_moved`, `lost_gate`, `lost_redirect`, `unlocked_continue` and
`retried_timeout` ends with a counterexample, see below. `amended_fix` is `live` without its
third head.

Bounds of the `ReviewCycle` runs. Nothing in the module counts without limit: progress is
bounded by the plan, the budget by the number of trees, so the constants alone bound the
state space. Plans are the shipped ones (the optional arena rounds included), so skips over
a pool, rewinds and the cleanup before the last step all occur. Four heads allow three
fixes: with a budget of two that is the limit, the CONTINUE and the tree after it; with the
shipped three the limit itself is reached, and then a fix after CONTINUE. The amended
message gives two heads with one tree, which is what tells trees from heads; with the third
head of `live` a fix may follow the amended message or precede the next round. Two gates with
`passed` and `waived` are enough for a waiver to be added, replaced and outlived; `failed`
and `pending` behave like `unknown` towards every property. Histories only grow except in
`fast_reset`, where they may go back: there `DoneIsReviewed` fails, and
`RejectedTreeNotGreen` is only claimed without it. The deadlock check is on in these runs
and in `store`: a command can always be typed.

`drift`: the base commits touch a file the branch leaves alone and one it may change, so
drift with and without overlap, with an equal and with a different patch all occur, also for
HEAD's parent. Two edits (the first is there when the review starts) allow a fix before or
after a rebase. The third rejected tree ends a behaviour, since convergence decisions are left
to `ReviewCycle`; with a budget no behaviour reaches the properties hold as well (2,112,286
states), and so they do with one base commit and three edits (1,578,908). Nothing undoes a
commit, so behaviours end: the deadlock check is off.

`store` bounds the rounds of a cycle by `MaxRounds` (one: a round launched, lost or launched
again is what its properties tell apart) and gates to one cycle (`Gated`). Two invocations
are enough for every pair of steps to interleave; since crashes are steps, a third one that
died earlier is there too. A source with two possible successors is the smallest instance in
which two restarts disagree, and three digests with one short prefix make the first cycle
take the short id from the others. In `chain` the successor may be restarted in turn, at any
time, also before its source redirects to it; ids and gates are not asked about there, so
digests share no prefix and there is no gate. A reservation that writes a restarted successor
as it was before occurs in it, as `lost_redirect` shows on the same instance. `SYMMETRY` on the invocations is sound, as on the
processes of `bootstrap` and the callers of `arena`: none of these runs has a liveness
property, and no definition tells them apart.

`rounds`: one retry is the boundary between retrying and giving up; three processes are two
reviewers and a retry, or a relaunch after a crash. Two commands at once work on a completed
round, where a grade, a second grade, a dismissal and a sweep race; while a round runs there
is one command at a time, which may die and be followed by another. `RetryBudget` counts one
process more per crash; `CooldownCountsRound` leaves crashes out, because a command that dies
between counting the failures and storing the round makes the next one count them again.

`arena`: three rounds are a scheduled one, its reroll and a reroll of that, or both groups
and a balanced one. One failure gives a reroll its reason, two grades an order of updates. A
pool and free pairs are not mixed with overlapping selections. `GroupsOnce` says under which
circumstances it is claimed.

`github`: a page of two comments cuts off a third; two answers and two requests suffice for
an answer to be older than, newer than and between the requests. `bootstrap`: three processes
are the one that runs, the one that copies and the one that removes. `anchors`: limits of the
code (20 anchors, so many commits) are scaled down to one or two so that each is passed. With
two concurrent reviews (552,969 states) and with three moves (1.83 million) it passes too. Where
a run switches the deadlock check off, its bounds make every behaviour end.

Scope of properties. `LadderComesToRest` counts as rest a cycle whose rerun is refused until a
commit changes the tree (`FixWithoutChange`): in `amended_fix` the cycle gets there without
anybody having to fix anything. It is claimed where no follow-up exists, since a failed
follow-up may end in a cycle that refuses everything (`blocked_followup`). `FindingsAwaitFix`
is checked where no follow-up exists (`normal_more`) because in deep mode it fails: that is
the run `blocked_followup`.
`DoneIsReviewed` needs a history that only grows, see `fast_reset`; `DoneForItsPatch` needs
the closure pass or nobody on another branch, see `fast_elsewhere`. `RebaseIsNoFix` is
claimed while the document has the merge base its commit was judged on, see below.
`SuccessorStartsOnce` is claimed of the commands that take the lock of a successor; of all
commands it fails, see `unlocked_continue`. `SuccessorStartsOnce`, `AbortedRedirects` and
`RestartFollowsRedirect` say nothing of a successor from the moment a reservation has written
over its redirect (`overwritten`, see `lost_redirect`); of every other cycle they are claimed,
in chains of restarts too. `RedirectLoads`, `LocksAttended` and the refinement `KeepsRegistry` are claimed of all;
`CycleRegistry` has that write as its action `Repeat`, which needs an active cycle the
successor belongs to and can only give back a redirect to a cycle that is there, or none.

Fairness. `live`: strong fairness of each command the printed action asks for, since a caller
repeats a command until it gets through, and a crash or an edit gets in the way of an
attempt but not of all of them. Reviewers answer, and not always with a failure; the
cleanup, tried again and again, does not always fail. Nothing is assumed of crashes,
commits, edits, gates or convergence decisions, so no commit ever has to come that would
free a refused rerun. `Stash` is fair because every command then
refuses and tells the caller to commit or stash. `rounds`: weak fairness of the work of each
started command, whose waits are all bounded: by the timeout of the lock, and by the
deadlines of the reviewers, which the command itself enforces. Nothing is assumed of
reviewers, of new commands or of the clock.

## What the models show about the code

Counterexamples that contradict a document, a message or a sibling of the code:

- A failed follow-up review is retried as step 0 with its findings open, and when that
  review is clean the cycle refuses every rerun (`blocked_followup`).
- An amended message is taken for a fix when it is committed while a round awaits its grade or
  decision. The decision records findings, whatever the verdict, and compares commits
  (`_auto_record_pending_decision_fix`); the launch compares trees
  (`_require_committed_fix_interdiff`) and refuses every rerun until a commit changes the tree.
  A late `--decision` does not reach the round any more, and the printed action stays a bare
  `cmd`, of which `skills/review/SKILL.md` says "run `cmd` when present". In deep mode the
  follow-up is refused in the same way (`amended_fix`).
- In fast mode a rerun typed while another branch is checked out launches the signoff on that
  branch's commit; back on the cycle's branch it shows as done, because the stored identity
  head counts as reviewed. Only the closure pass, which fast mode lacks, refuses another
  branch (`fast_elsewhere`).
- The mark of a stopped reviewer survives its capacity retry, and the review of the second
  process is stored as timed out (`retried_timeout`).
- The two-round bound of fast mode is stored and never read (`fast_rounds`).
- A clean round is recorded as findings when HEAD moved while it ran, and uses up a head of
  the budget of caller-accepted findings (`clean_moved`).
- In fast mode the head the cycle was created on counts as reviewed for the ladder even if
  only a later commit was (`fast_reset`).
- A gate recorded while a review runs is overwritten when the review ends (`lost_gate`).
- A successor is continued without its lock by an invocation without `--id`
  (`unlocked_continue`).

Met while modelling, and left out of the claims above:

- Drift: a round launched after a rebase while the cycle is `created` keeps the older merge
  base in the document. The cycle is then never compatible again: head changes during a
  decision go unnoticed, `--deslop-done` is refused, and a further pure rebase is taken for a
  fix. The closure pass follows the merge base and rewrites no head. In normal mode an
  equivalent rebase after green repeats the signoff.
- Store: `reserve_cycle_successor` writes the successor without the merge that `save_cycle`
  does. If a reservation died after its first write, the successor it left was found and
  restarted in turn, and the first restart is then repeated from a copy of that successor
  read before, the redirect of the successor is overwritten, and its own restart may go on
  with a cycle nothing redirects to. TLC shows it in a trace of nineteen states
  (`lost_redirect`, the instance of `chain`).
- Rounds: a directory lock left behind makes each resume count the failures again; grading
  again with another placement adds a second record; the key `cooldown_until` is read and
  never written.
- Arena: the schedule of groups skips or repeats one after a dismissal, with overlapping
  selections, and for a round rerolled twice or graded beside its reroll; a retry of a
  configured round ignores cooldowns; a graded round can be rerolled.
- GitHub: items collected before a push are reported under the new head; a timeout drops
  answers that were still settling; an unnamed answer to an older commit counts for the new
  one when it is posted after the push.
- Bootstrap: on Linux the second of two promoters gets `OSError` from the rename and its
  launch fails; a runtime half removed, or without metadata, passes for a present one and is
  not cleaned again; a removal between check and lease makes a launch fail; the staging
  directory of a killed launcher stays.
- Anchors: an explicit `--since` passes the follow-up limit when the status is "none" or
  "base_changed"; a higher lane is forgotten when its anchor leaves the history of twenty;
  the merge base of a follow-up anchor is that of HEAD when it is recorded.

## Proofs

Each theorem holds for every value of the constants that satisfies the assumptions of its
module, which TLC evaluates on every run, and the hypotheses named below. An invariant that
a run checks is seldom inductive; the strengthened one was checked by TLC before it was
proved. A proof has one lemma per operator or action, and a theorem only composes them.

### ReviewCycle

Transitions are functions on documents, so an inductive invariant is a predicate on one
document that each operator is shown to keep; the lemma of an action composes those of the
operators its handler calls. The predicate is claimed of the stored document and of the one
a working invocation holds, since that is stored when the step ends.

First part of `ReviewCycleProofs` (predicate `Good`): `Invariance`, `TypeCorrect` (`TypeOK`),
`CleanupFirst` (`CleanupBeforeSignoff`), `CleanupKept` (`CleanupNeverStrands`). `Good` has,
beyond the type:

- `FindingsRecorded`, `FixHasFindings`: a stage that waits for a fix has findings with a head
  and a step; otherwise the fix would complete or rewind a step that does not exist.
- `RoundNamed`: a round that runs or awaits its decision has a head and, unless it is a
  follow-up, a step; a follow-up awaiting its decision has findings to close.
- `GreenWasReviewed`: a green cycle has a completed step, so that the step to repeat exists
  (`LastCompleted` chooses from a set that is not empty).
- `BudgetStage`: the decision-required status and stage come together, so no fix is detected
  while the budget is being decided.
- `CleanupHeld`: a cleanup that ended is held at the step before which it ran. This is what
  makes `SignoffAfterCleanup` inductive: without the step, a failed cleanup could be followed
  by a round of the signoff.

The two `CHOOSE`s (smallest and largest index) have witnesses by well-foundedness of the
naturals.

Second part (predicate `Sound`): `LadderInvariant`, `BudgetKept`
(`BudgetEnforced`), `VerdictBelongs` (`GithubForSignedOffHead`), `GreenIsSigned`
(`SignedOff`), `ContinueGrants` (`ContinueGrantsOneTree`).

- `CountedTrees` ties the number of rejected trees to status and CONTINUE: at most the limit,
  or one more after it was used. It needs that a tree is counted only when it is new and only
  while the cycle is active.
- `RoundFits`: the step of a pending round is the next one. `FindingsAhead`: open findings
  belong to a step that is not behind the next one, or to the signoff. Together they say why
  the step a cycle completes when it turns green is the newest (`Signed`).
- `VerdictFits` is needed of the unsaved document too: a verdict must not survive what a
  cleanup or follow-up does to the head that was signed off.
- `ContinueGrants` is an action property. Between two documents `Granted` says what CONTINUE
  becomes; `Unspent` says that a follow-up does not work on a copy in which the grant was
  spent already.

`GreenIsSigned` assumes that the plan does not end in an arena round or the cycle is not a
deep one. Without it the property is false: a blocked follow-up that is retried as step 0
(see `blocked_followup`) turns a deep cycle green with the completed step of an earlier head.
No shipped profile has such a plan.

Third part (predicate `Aged`): `HistoryInvariant`, `DoneWasReviewed`
(`DoneIsReviewed`), `RejectedNeverGreen` (`RejectedTreeNotGreen`), `ClosedByFollowup`
(`FindingsClosedByFollowup`). These three are false on a branch that comes back to an
earlier commit, as `fast_reset` shows, so they need to know which of two heads is later. The
part adds a constant `Age`, a number per head, and states what is assumed of it as a
hypothesis of each theorem:

- `Grows`: no move of the caller decreases the age.
- `TreesStay`: two heads have the same age exactly when they have the same tree, so a tree
  once left never comes back (`RejectedNeverGreen`, `ClosedByFollowup`).
- `CommitsStay`: two heads with the same age are the same (`DoneWasReviewed`).

The histories of `normal` and `deep` satisfy `Grows` and `TreesStay`, that of `fast` satisfies
`Grows` and `CommitsStay`, and so does any history without resets or reverts. `Aged` says
that no head a document names is later than HEAD (`Ordered`), that a round reviews a head later than every
rejected tree and not older than the fix it is for (`RoundAged`), and what must hold of a
document between rounds so that the next one does too (`WaitAged`). `Closed` relates two
documents: findings that are gone were closed by a follow-up of a later tree. It has to hold
between the stored document and an unsaved one, since a cleanup or a follow-up may close them
long before it is saved.

### DriftCycle

`DriftCycleProofs`: `DriftInvariant`, `DriftTypeOK`, `DriftDoneForItsPatch`
(`DoneForItsPatch`) and the action property `DriftRebaseIsNoFix`, for every set of files, every
base branch and every bound on the history; assumed are that there is a file and that `None`
is not a commit.

Three groups of lemmas come before the invariant.

- Git: two commits change the same exactly when they have the same number of edits of each
  file since their merge bases and, of an edited file, the same version below
  (`ChangesSame`). `Past` orders what the branch has been: a newer merge base, or the same
  one with more edits. Each command of the caller takes the tip forward in it, a commit
  that is past is the tip again only if it is the same (`PastSame`). So a head of the same
  merge base that changes the same *is* the reviewed commit, and one of another merge base
  is what the drift check recognises (`SameIsEquivalent`).
- The document: `Good` is its shape, and each operator of `ReviewCycle` that this ladder
  uses is shown to keep it. The ladder is an `INSTANCE` with commits for heads, so these
  lemmas are about the instance.
- Rewriting: an equivalent head changes what the head it stands for changes (`DriftOK`), so
  what replaces reviewed heads in the document keeps `Matches`, which ties a round that is
  asked, the signed-off head and the GitHub verdict's head to what the newest round was
  launched on, whichever of the stored places are rewritten.

`DriftInv` claims all this of the stored cycle and of the one a closure pass works on, and
that the head of a round that is asked was at the branch earlier, or is a base commit, which
changes nothing (`SeenBy`; a command run on the other branch launches such a round).

`DriftDoneForItsPatch` assumes that the cycle is not a fast one. Without a closure pass, and
done before any GitHub review, a fast cycle can sign off the commit of the base branch and
show as done on its own: the counterexample of `fast_elsewhere`.

### CycleStore

`CycleStoreProofs`: `StoreInvariance`, `StoreTypeCorrect` (`TypeOK`), `IdsStay`
(`IndexConsistent`), `NoDeadEnd` (`RedirectLoads`), `NoLockLeft` (`LocksAttended`).
The invariant has three parts. `StoreGood` is about files and index. `GoodCopy` is what one
invocation relies on when it goes on: the cycle it is about to write has an id, the source
of its restart and the successor it waits for are stored, and the redirect of its copy can
be loaded; the last is why a late save cannot create a dead end, although it overwrites most
of the file. `LocksGood` says where an invocation may be while it holds a lock, and that it
returns to releasing a successor's lock after a save. No step removes a document or an id
(`StoreGrows`), so an action disturbs no copy but its own (`OthersGood`), and each action
lemma shows the three parts one by one.

On top of it: `StoreLinks`, `SuccessorStarts` (`SuccessorStartsOnce`), `RedirectsAgree`
(`AbortedRedirects` and `RestartFollowsRedirect`) and `StoreKeepsRegistry` (`KeepsRegistry`:
the store implements `CycleRegistry`, step by step, under the refinement mapping `Registry`).
They hold for every `Restarts`, so also where successors are restarted in turn. What makes
them inductive is `LinksGood`: a copy knows no redirect but the one on disk (`Linked`); what
is about to be written has been merged with what is on disk, and the lock of the cycles keeps
that true until it is written (`Merging`, and `KeepsCycles` now in the other direction: who
writes holds the lock); a round that was launched is counted, so a waiting successor cannot
be taken for a new one (`Rounds`); the first round runs under the successor's lock, which
only its holder leaves (`FirstLocked`). The last is not obvious from the code, which on
leaving drops the lock without looking.

A reservation merges nothing. So the links say what they say of the cycles that are `Kept`,
that is, not in `overwritten`: a step either leaves a redirect on disk as it is or adds the
cycle to that set (`RedirectsStay`). A copy that a reservation is about to write need not
agree with the disk, but it is a document as it once was there: with a redirect it is
aborted, and the redirect, if the cycle is still kept, is the one on disk (`Prepared`). For
`StoreKeepsRegistry` nothing is left out: a write over a redirect is done under the lock of a
reservation whose source has no redirect, and so is a `Repeat` of an active cycle.

### ReviewRound, GithubCycle, RuntimeBootstrap

`ReviewRoundProofs`: `RoundInvariant`, `RoundTypeOK`, `RoundRetryBudget`,
`RoundCooldownCounts`, `RoundGradeIsCounted`, and the action property `RoundReviewKept`, for
any number of reviewers, commands, retries and crashes. `BudgetGood` accounts for
each start of a reviewer by an attempt of its stored run, by a command that died, or by the
start that is stored next. `CooldownGood` says, of the only command, which of the stored round
and its copy is still open where, and what the failure count is by then. `GradeGood` says at
which places a command has logged a grade that is not rated yet, and that otherwise log and
ratings differ only after a crash. `ReviewsGood`: the copy of the only command has every
stored review. `RoundTypeOK` needs that the failures counted stay within `MaxFailures`, which
holds because a collection counts at most one per reviewer; for that `RoundAssumption` says
that commands are finitely many and `MaxFailures` exceeds the number of reviewers.

`GithubCycleProofs`: `GithubInvariant`, `GithubTypeOK`, `GithubReportFits`
(`ReportFitsHead`), and the action properties `GithubNoRequestOnceSeen` and
`GithubAnsweredReused`, for any number of heads, comments and invocations. `ThreadGood` says
what a comment tells of the heads that were there when it was posted, `GotGood` and
`ReuseGood` what the invocation has read and may still rely on while the thread and the head
move on. The oldest and newest comment with a property exist by well-foundedness and
finiteness.

`RuntimeBootstrapProofs`: `BootstrapInvariant`, `BootstrapTypeOK`, `BootstrapNameMatches`
(`NameMatchesContent`), `BootstrapLeaseKeeps` (`LeaseKeepsRuntime`), for any number of
processes, parts and versions. `ProcGood` says what a launcher has at hand where it is: one
that promotes has staged exactly the content it names. `LeaseGood` says what keeps a runtime
whole: the lease is as young as can be and nobody has condemned the root.

### WorkflowAnchors and GitBranch

`WorkflowAnchorsProofs`: `AnchorsInvariant`, `AnchorsTypeOK`, `AnchorsNoneMeansReviewed`
(`NoneMeansReviewed`), `AnchorsFollowupsBounded` (`FollowupsBounded`), for any number of
reviews, files, commits and limits; the only bound assumed of the limits is that the history
is longer than the follow-ups and the checkpoint before them (`AnchorsAssumption`).
`FilesGood` says that every recorded anchor is a commit a reviewer was shown, which is what
`NoneMeansReviewed` needs where the anchor is HEAD. Where HEAD makes the changes of the anchor
on another base, `SamePatch` is needed as well: the merge base the code compares from is that
of the last full review, not the anchor's own, and two patches that agree seen from there also
agree seen from the commits' own merge bases, because a patch names the blobs of both sides.
`FollowupsGood` says that each follow-up the status asked for is in the history since the last
checkpoint, or under way; cutting the history keeps that count as long as it keeps the
checkpoint (`FollowupCounts`).

The lemmas about `GitBranch` say that the merge base is the newest base commit in a history,
what a commit, merge, rebase and reset do to it, and that an ancestor is a natural number of
commits behind. The edits a rebase keeps are a recursive function: that it exists and yields
edits is proved from the least length at which it would not.

### ArenaPool

`ArenaPoolProofs`: `ArenaInvariant`, `ArenaTypeCorrect` (`TypeOK`), `ArenaReviewersDiffer`
(`ReviewersDiffer`), `ArenaGroupsFull`, `ArenaRatingsBalance` (`RatingsBalance`),
`ArenaTurnInvariant`, `ArenaGroupsOnce` (`GroupsOnce`), for every roster, pool, schedule,
rating and number of callers, rounds and grades.

- `ArenaInv` says of each round, and of each selection a caller has made and not written
  yet, that its reviewers are eligible, differ and are at least two, as many as a group if it
  is of the pool (`Staffed`), and that the round it replaces is older and of the same pool
  (`Linked`). There are as many grades as graded rounds, of the pool and in all (`LogOK`),
  which bounds the log and turns the count of records into one of rounds. Nothing of this needs
  selections to be alone. What a selection returns is proved of every way to select: the schedule, the balanced one, the
  three modes for pairs, and a reroll.
- `RatingsBalance`: the sum over a finite set is a recursive function, which the prover knows
  nothing of until it is shown to exist; its laws follow from a smallest set that breaks
  them. What one reviewer of a pair gains the other loses, also with ties
  and whatever the weight, and all gains are computed from the ratings before the grade.
- `GroupsOnce`: the index of the next group is a count of records, and a record is a round
  that nothing rerolled or the newest of its rerolls. `TurnInv` states that this count is
  the number of rounds that replace none (`Roots`), by pairing each rerolled round with its
  replacement, and that the one selection under way has that index. The property, and so the
  theorem, leaves out pools on which selections overlapped or a round was dismissed, rerolled
  twice or graded besides its reroll: there the code does repeat or skip groups.

### Only model-checked

- `LadderComesToRest` and `CommandsEnd`: liveness is out of the prover's reach.
- The properties of the further configurations.

## Not modelled

- Profiles and configuration: pure parsing; the plans it resolves to are constants.
- Branch status, costs, rollouts, output: reports without state.
- Process runtime and back ends: they start external programs and read what these write; the
  outcomes are in `ReviewRound`.
- The standalone commands (`review_plan.py`, `review_deslop.py`, `review_t1.py`,
  `review_t3.py`): thin command lines around one reviewer.
- State pruning (`review_state_prune.py`): deletes settled rounds and cycles by age, the
  target of a redirect not excepted. Every modelled behaviour ends before anything is that
  old.
- In modelled components: the repair of legacy CONTINUE records, `wait=False`, rejected
  duplicate references, arena setup and reports, worktree statistics and same-tier pressure.

## Plan

1. Done: models of all components that keep state, and proofs about each of them. Every
   invariant and every action property that a passing run checks is stated by a theorem.
2. Pruning of settled cycles (`review_state_prune.py`) beside `CycleStore`.
