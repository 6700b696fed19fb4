------------------------------ MODULE ReviewRound ------------------------------
(***************************************************************************)
(* One review round: a JSON file that names the reviewers of a round, the   *)
(* reviewer processes started for it, and the commands that work on it.     *)
(*                                                                          *)
(* A command reads the round file once, keeps the copy in memory and writes *)
(* the whole copy back after each thing it does.  Only the write itself is  *)
(* locked, so what another command wrote meanwhile is overwritten.          *)
(* A command can die at any point; its reviewers live on.                   *)
(***************************************************************************)
EXTENDS Naturals, FiniteSets

CONSTANTS
    Slots,        \* reviewers of the round; all of one variant
    Invocations,  \* commands that may be in progress at the same time
    Scenarios,    \* bound: <<reviews the round starts with, commands that share it>>
    Marked,       \* slots whose back end marks an early exit for cooldown
    RetryLimit,   \* CAPACITY_RETRY_MAX_ATTEMPTS
    Ranks,        \* placements a caller may grade the round with
    MaxProcs,     \* bound: reviewer processes started
    MaxFailures,  \* bound: failures counted (one round adds at most one per slot)
    MaxCrashes,   \* bound: commands that die
    MaxDay,       \* bound: stale periods (24 h) that pass
    None

ASSUME RoundAssumption ==
    /\ IsFiniteSet(Slots) /\ Slots # {} /\ Marked \subseteq Slots
    /\ IsFiniteSet(Invocations)
    /\ RetryLimit \in Nat /\ MaxProcs \in Nat /\ MaxCrashes \in Nat
    /\ MaxFailures \in Nat /\ MaxFailures > Cardinality(Slots)
    /\ MaxDay \in Nat
    /\ None \notin Slots \union Ranks
    /\ \A c \in Scenarios : c[1] \subseteq Slots /\ c[2] \subseteq Invocations

VARIABLES
    disk,      \* the stored round
    mem,       \* mem[i]: the copy command i works on
    pc,        \* pc[i]: where command i is
    arg,       \* arg[i]: the slot it retries or the placement it grades with
    proc,      \* proc[p]: reviewer process p and its output files
    failures,  \* failure count of the variant in operational_state.json
    log,       \* log[r]: records with placement r in runs.jsonl
    rated,     \* the records the stored ratings were computed from
    day,       \* stale periods that have passed
    lockLeft,  \* the round's lock directory was left behind by a dead command
    crashes,   \* commands that died so far
    callers    \* the commands that share the round; never changes

vars == <<disk, mem, pc, arg, proc, failures, log, rated, day, lockLeft,
          crashes, callers>>
grading == <<log, rated>>

--------------------------------------------------------------------------------
(* The stored data.                                                         *)

Pids == 1..MaxProcs
BlockedStatus == {"capacity", "timeout", "died"}

\* pid is 0 while no process is named; files: the paths of its output are named.
Run == [status: {"none", "review"} \union BlockedStatus,
        tries: 0..RetryLimit, cleanup: BOOLEAN, stopped: BOOLEAN,
        pid: 0..MaxProcs, files: BOOLEAN]

Round == [status: {"sampled", "running", "completed", "cleanup_pending",
                   "dismissed"},
          runs: [Slots -> Run], graded: BOOLEAN, at: 0..MaxDay]

Process == [slot: Slots \union {None}, state: {"unborn", "alive", "dead"},
            left: {"nothing", "partial", "capacity", "review"},
            killed: BOOLEAN, files: BOOLEAN]

NewRun == [status |-> "none", tries |-> 0, cleanup |-> FALSE,
           stopped |-> FALSE, pid |-> 0, files |-> FALSE]
Unborn == [slot |-> None, state |-> "unborn", left |-> "nothing",
           killed |-> FALSE, files |-> FALSE]
Blank == [status |-> "sampled", runs |-> [s \in Slots |-> NewRun],
          graded |-> FALSE, at |-> 0]

Finalized(run) == run.status # "none"

\* _process_is_running: a run's process, as the operating system sees it.
Running(run) == run.pid # 0 /\ proc[run.pid].state = "alive"

LiveReviewer(round) ==
    \E s \in Slots : ~Finalized(round.runs[s]) /\ Running(round.runs[s])

\* What the reader finds in a run's output files: nothing once they are gone.
Output(run) ==
    IF run.files /\ run.pid # 0 /\ proc[run.pid].files
    THEN proc[run.pid].left ELSE "nothing"

\* _classify_review_result: text that was cut off cannot be told from a finished
\* review.
ClassifyOutput(run) ==
    CASE Output(run) \in {"review", "partial"} -> "review"
      [] Output(run) = "capacity" -> "capacity"
      [] OTHER -> "died"

\* mutant: the output alone decides.
OutputDecides(run) == ClassifyOutput(run)

\* classify_review_capture: a stop noted on the run outranks its output.
Classify(run) == IF run.stopped THEN "timeout" ELSE ClassifyOutput(run)

Captured(run) == [run EXCEPT !.status = Classify(run)]

HasBlocked(round) == \E s \in Slots : round.runs[s].status # "review"

\* Ungraded, nobody alive, and a whole stale period without a time stamp.
StaleUngraded(round) ==
    /\ round.status \in {"sampled", "running", "completed", "cleanup_pending"}
    /\ ~round.graded
    /\ ~LiveReviewer(round)
    /\ day > round.at

\* compact_round_payload_for_storage: a settled round names no output files.
Compact(round) ==
    IF round.status \in {"completed", "dismissed"}
    THEN [round EXCEPT !.runs =
            [s \in Slots |-> [round.runs[s] EXCEPT !.files = FALSE]]]
    ELSE round

\* The runs whose failure counts against the variant.
Cools(s, run) ==
    \/ run.status \in {"capacity", "timeout"}
    \/ run.status = "died" /\ s \in Marked
CoolingRuns(round) == {s \in Slots : Cools(s, round.runs[s])}

--------------------------------------------------------------------------------
(* Commands: begin, end, write.                                             *)

Begin(i, to, a) ==
    /\ i \in callers /\ pc[i] = "idle"
    /\ pc' = [pc EXCEPT ![i] = to]
    /\ mem' = [mem EXCEPT ![i] = disk]
    /\ arg' = [arg EXCEPT ![i] = a]
    /\ UNCHANGED callers

End(i) ==
    /\ pc' = [pc EXCEPT ![i] = "idle"]
    /\ mem' = [mem EXCEPT ![i] = Blank]
    /\ arg' = [arg EXCEPT ![i] = None]

Go(i, to) == pc' = [pc EXCEPT ![i] = to]

\* write_round: the whole copy replaces the file, under the round's lock.
Write(i, round) ==
    /\ ~lockLeft
    /\ disk' = Compact(round)
    /\ mem' = [mem EXCEPT ![i] = round]

WithoutOutput(p) == [p EXCEPT !.files = FALSE, !.left = "nothing"]

\* _cleanup_run_artifacts for every run of the copy.
DeleteOutputs(round) ==
    proc' = [p \in Pids |->
        IF \E s \in Slots : round.runs[s].pid = p /\ round.runs[s].files
        THEN WithoutOutput(proc[p]) ELSE proc[p]]

\* launch_captured_child_process: the next process, for slot s.
StartProcess(p, s) ==
    /\ proc[p].state = "unborn" /\ \A q \in 1..(p - 1) : proc[q].state # "unborn"
    /\ proc' = [proc EXCEPT ![p] = [slot |-> s, state |-> "alive",
                    left |-> "nothing", killed |-> FALSE, files |-> TRUE]]

Started(run, p) == [run EXCEPT !.pid = p, !.files = TRUE]

--------------------------------------------------------------------------------
(* Launching a sampled round.                                               *)

RunRound(i) ==
    /\ disk.status = "sampled"
    /\ Begin(i, "launch", None)
    /\ UNCHANGED <<disk, proc, failures, grading, day, lockLeft, crashes>>

\* The reviewers are started one after the other; finished runs are kept.
LaunchReviewer(i, s, p) ==
    /\ pc[i] = "launch"
    /\ ~Finalized(mem[i].runs[s]) /\ mem[i].runs[s].pid = 0
    /\ StartProcess(p, s)
    /\ mem' = [mem EXCEPT ![i].status = "running", ![i].at = day,
                          ![i].runs[s] = Started(@, p)]
    /\ Go(i, "launched")
    /\ UNCHANGED <<disk, arg, failures, grading, day, lockLeft, crashes, callers>>

LaunchSaved(i) ==
    /\ pc[i] = "launched"
    /\ Write(i, mem[i])
    /\ Go(i, "launch")
    /\ UNCHANGED <<arg, proc, failures, grading, day, lockLeft, crashes, callers>>

LaunchDone(i) ==
    /\ pc[i] = "launch"
    /\ \A s \in Slots : Finalized(mem[i].runs[s]) \/ mem[i].runs[s].pid # 0
    /\ Write(i, mem[i])
    /\ Go(i, "collect")
    /\ UNCHANGED <<arg, proc, failures, grading, day, lockLeft, crashes, callers>>

\* A reviewer that cannot be started raises: the command ends as it is.
LaunchFails(i) ==
    /\ pc[i] \in {"launch", "relaunch"}
    /\ End(i)
    /\ UNCHANGED <<disk, proc, failures, grading, day, lockLeft, crashes, callers>>

--------------------------------------------------------------------------------
(* Collecting a running round.                                              *)

\* A running round is collected; a completed one is annotated and written back.
Resume(i) ==
    /\ \/ disk.status = "running" /\ Begin(i, "collect", None)
       \/ disk.status = "completed" /\ Begin(i, "result", None)
    /\ UNCHANGED <<disk, proc, failures, grading, day, lockLeft, crashes>>

\* mutant: a run that has its result is collected again.
CollectedAgain(run) ==
    /\ ~Running(run)
    /\ run.cleanup \/ run.files

\* Dead, without a result, and with something to look at.
Collectable(run) ==
    /\ ~Finalized(run) /\ ~Running(run)
    /\ run.cleanup \/ run.files

WantsRetry(run) ==
    run.cleanup \/ (ClassifyOutput(run) = "capacity" /\ run.tries < RetryLimit)

\* Nothing is left to wait for; a run that was never started counts as settled.
Settled(run) == ~Running(run) /\ (Finalized(run) \/ ~(run.cleanup \/ run.files))

\* mutant: a pending attempt is counted again when it is resumed.
CountedAgain(run) == [run EXCEPT !.cleanup = TRUE, !.tries = @ + 1]

\* mutant: the attempt is never counted.
NeverCounted(run) == [run EXCEPT !.cleanup = TRUE]

\* The attempt is stored before anything is deleted; a pending one is not
\* counted again.
MarkedForRetry(run) ==
    [run EXCEPT !.cleanup = TRUE,
                !.tries = IF run.cleanup THEN @ ELSE @ + 1]

MarkRetry(i, s) ==
    /\ pc[i] = "collect"
    /\ Collectable(mem[i].runs[s]) /\ WantsRetry(mem[i].runs[s])
    /\ Write(i, [mem[i] EXCEPT !.runs[s] = MarkedForRetry(@)])
    /\ Go(i, "retry")
    /\ arg' = [arg EXCEPT ![i] = s]
    /\ UNCHANGED <<proc, failures, grading, day, lockLeft, crashes, callers>>

ClearForRetry(i) ==
    /\ pc[i] = "retry"
    /\ LET run == mem[i].runs[arg[i]] IN
        proc' = [p \in Pids |-> IF p = run.pid /\ run.files
                    THEN WithoutOutput(proc[p]) ELSE proc[p]]
    /\ mem' = [mem EXCEPT ![i].runs[arg[i]] =
                [@ EXCEPT !.cleanup = FALSE, !.pid = 0, !.files = FALSE]]
    /\ Go(i, "relaunch")
    /\ UNCHANGED <<disk, arg, failures, grading, day, lockLeft, crashes, callers>>

\* A file that cannot be deleted: the round is stored as it is, the command ends.
CleanupFails(i) ==
    /\ \/ pc[i] = "retry"
       \/ pc[i] = "collect" /\ \A s \in Slots : Settled(mem[i].runs[s])
    /\ ~lockLeft
    /\ disk' = mem[i]
    /\ End(i)
    /\ UNCHANGED <<proc, failures, grading, day, lockLeft, crashes, callers>>

Relaunch(i, p) ==
    /\ pc[i] = "relaunch"
    /\ StartProcess(p, arg[i])
    /\ mem' = [mem EXCEPT ![i].runs[arg[i]] = Started(@, p)]
    /\ Go(i, "relaunched")
    /\ UNCHANGED <<disk, arg, failures, grading, day, lockLeft, crashes, callers>>

RelaunchSaved(i) ==
    /\ pc[i] = "relaunched"
    /\ Write(i, mem[i])
    /\ Go(i, "collect")
    /\ arg' = [arg EXCEPT ![i] = None]
    /\ UNCHANGED <<proc, failures, grading, day, lockLeft, crashes, callers>>

CollectRun(i, s) ==
    /\ pc[i] = "collect"
    /\ Collectable(mem[i].runs[s]) /\ ~WantsRetry(mem[i].runs[s])
    /\ Write(i, [mem[i] EXCEPT !.runs[s] = Captured(@)])
    /\ UNCHANGED <<pc, arg, proc, failures, grading, day, lockLeft, crashes, callers>>

\* mutant: only a reviewer that was not retried is stopped.
StopFirstTry(i, s) ==
    /\ pc[i] = "collect"
    /\ Running(mem[i].runs[s]) /\ mem[i].runs[s].tries = 0
    /\ mem' = [mem EXCEPT ![i].runs[s].stopped = TRUE]
    /\ proc' = [proc EXCEPT ![mem[i].runs[s].pid] = [@ EXCEPT !.state = "dead", !.killed = TRUE]]
    /\ UNCHANGED <<disk, pc, arg, failures, grading, day, lockLeft, crashes, callers>>

\* Deadline, stall or hang: the reviewer is killed.  The reason of the first two
\* is noted on the command's copy only; what a hung one said is kept.
StopReviewer(i, s) ==
    /\ pc[i] = "collect"
    /\ Running(mem[i].runs[s])
    /\ \E hung \in BOOLEAN, left \in {"nothing", "partial", "capacity", "review"} :
        /\ hung <=> left = "review"
        /\ mem' = [mem EXCEPT ![i].runs[s].stopped = @ \/ ~hung]
        /\ proc' = [proc EXCEPT ![mem[i].runs[s].pid] =
                    [@ EXCEPT !.state = "dead", !.left = left, !.killed = ~hung]]
    /\ UNCHANGED <<disk, pc, arg, failures, grading, day, lockLeft, crashes, callers>>

\* Every run has a result: the output files go, and the copy is completed.
FinishCollect(i) ==
    /\ pc[i] = "collect"
    /\ \A s \in Slots : Settled(mem[i].runs[s])
    /\ DeleteOutputs(mem[i])
    /\ mem' = [mem EXCEPT ![i] =
        [@ EXCEPT !.status = "completed", !.at = day,
                  !.runs = [s \in Slots |->
                    [mem[i].runs[s] EXCEPT !.pid = 0, !.files = FALSE,
                        !.status = IF @ = "none" THEN "died" ELSE @]]]]
    /\ Go(i, "cooldown")
    /\ UNCHANGED <<disk, arg, failures, grading, day, lockLeft, crashes, callers>>

\* mutant: two failed runs of the round count once.
CountOnce(i) ==
    /\ pc[i] = "cooldown"
    /\ failures' = IF CoolingRuns(mem[i]) # {} THEN failures + 1 ELSE 0
    /\ Go(i, "store")
    /\ UNCHANGED <<disk, mem, arg, proc, grading, day, lockLeft, crashes, callers>>

\* Each failed run counts once; a round without one clears the count.
ApplyCooldowns(i) ==
    /\ pc[i] = "cooldown"
    /\ failures' = LET n == Cardinality(CoolingRuns(mem[i])) IN
            IF n > 0 THEN IF failures + n > MaxFailures THEN MaxFailures ELSE failures + n
            ELSE IF \E s \in Slots : mem[i].runs[s].status = "review"
                 THEN 0 ELSE failures
    /\ Go(i, "store")
    /\ UNCHANGED <<disk, mem, arg, proc, grading, day, lockLeft, crashes, callers>>

StoreCompleted(i) ==
    /\ pc[i] = "store"
    /\ Write(i, mem[i])
    /\ Go(i, "result")
    /\ UNCHANGED <<arg, proc, failures, grading, day, lockLeft, crashes, callers>>

\* The caller of the collection adds its hints and writes its copy once more.
WriteResult(i) ==
    /\ pc[i] = "result"
    /\ ~lockLeft
    /\ disk' = Compact(mem[i])
    /\ End(i)
    /\ UNCHANGED <<proc, failures, grading, day, lockLeft, crashes, callers>>

--------------------------------------------------------------------------------
(* Dismissal, by the caller or because the round is stale.                  *)

DismissRound(i) ==
    /\ disk.status # "dismissed" /\ ~disk.graded /\ ~LiveReviewer(disk)
    /\ Begin(i, "dismiss", None)
    /\ UNCHANGED <<disk, proc, failures, grading, day, lockLeft, crashes>>

\* The sweep looks at every round before it deals with the first stale one.
Sweep(i) ==
    /\ disk.status # "dismissed" /\ ~disk.graded
    /\ Begin(i, "sweep", None)
    /\ UNCHANGED <<disk, proc, failures, grading, day, lockLeft, crashes>>

Dismissing(i) ==
    \/ pc[i] = "dismiss"
    \/ pc[i] = "sweep" /\ StaleUngraded(mem[i])

\* The outputs go before the round is stored as dismissed; one that cannot be
\* deleted leaves it cleanup_pending.
WriteDismissed(i) ==
    /\ Dismissing(i)
    /\ ~lockLeft
    /\ \/ /\ DeleteOutputs(mem[i])
          /\ disk' = Compact([mem[i] EXCEPT !.status = "dismissed"])
       \/ /\ disk' = [mem[i] EXCEPT !.status = "cleanup_pending"]
          /\ UNCHANGED proc
    /\ End(i)
    /\ UNCHANGED <<failures, grading, day, lockLeft, crashes, callers>>

SweepLeaves(i) ==
    /\ pc[i] = "sweep" /\ ~StaleUngraded(mem[i])
    /\ End(i)
    /\ UNCHANGED <<disk, proc, failures, grading, day, lockLeft, crashes, callers>>

--------------------------------------------------------------------------------
(* Grading.                                                                 *)

\* build_record_from_grade: only a round all of whose reviewers answered.
Gradable(round) == round.status = "completed" /\ ~HasBlocked(round)

Grade(i, r) ==
    /\ Gradable(disk)
    /\ Begin(i, "append", r)
    /\ UNCHANGED <<disk, proc, failures, grading, day, lockLeft, crashes>>

\* append_record_if_new: the same placement of the round is not recorded twice.
AppendRecord(i) ==
    /\ pc[i] = "append"
    /\ log' = [log EXCEPT ![arg[i]] = IF @ = 0 THEN 1 ELSE @]
    /\ Go(i, "mark")
    /\ UNCHANGED <<disk, mem, arg, proc, failures, rated, day, lockLeft, crashes,
                   callers>>

\* mutant: the round is stored as graded before the ratings are recomputed.
GradedAtOnce(i) ==
    /\ pc[i] = "mark"
    /\ Write(i, [mem[i] EXCEPT !.graded = TRUE])
    /\ Go(i, "refresh")
    /\ UNCHANGED <<arg, proc, failures, grading, day, lockLeft, crashes, callers>>

GradePending(i) ==
    /\ pc[i] = "mark"
    /\ Write(i, mem[i])
    /\ Go(i, "refresh")
    /\ UNCHANGED <<arg, proc, failures, grading, day, lockLeft, crashes, callers>>

\* Ratings are recomputed from the whole log while it is locked.
Refresh(i) ==
    /\ pc[i] = "refresh"
    /\ rated' = log
    /\ Go(i, "graded")
    /\ UNCHANGED <<disk, mem, arg, proc, failures, log, day, lockLeft, crashes,
                   callers>>

GradeDone(i) ==
    /\ pc[i] = "graded"
    /\ ~lockLeft
    /\ disk' = Compact([mem[i] EXCEPT !.graded = TRUE])
    /\ End(i)
    /\ UNCHANGED <<proc, failures, grading, day, lockLeft, crashes, callers>>

--------------------------------------------------------------------------------
(* Reviewers, time, and commands that die.                                  *)

ReviewerExits(p) ==
    /\ proc[p].state = "alive"
    /\ \E left \in {"nothing", "capacity", "review"} :
        proc' = [proc EXCEPT ![p].state = "dead", ![p].left = left]
    /\ UNCHANGED <<disk, mem, pc, arg, failures, grading, day, lockLeft, crashes,
                   callers>>

DayPasses ==
    /\ day < MaxDay
    /\ day' = day + 1
    /\ UNCHANGED <<disk, mem, pc, arg, proc, failures, grading, lockLeft, crashes,
                   callers>>

Crash(i) ==
    /\ pc[i] # "idle" /\ crashes < MaxCrashes
    /\ crashes' = crashes + 1
    /\ End(i)
    /\ UNCHANGED <<disk, proc, failures, grading, day, lockLeft, callers>>

\* The points at which a command takes the round's lock.
AtWrite(i) ==
    \/ pc[i] \in {"launched", "relaunched", "store", "result", "mark", "graded"}
    \/ Dismissing(i)
    \/ pc[i] = "launch" /\ \A s \in Slots : mem[i].runs[s].pid # 0
    \/ pc[i] = "collect" /\ \E s \in Slots : Collectable(mem[i].runs[s])

\* Between mkdir and rmdir of the lock: nobody ever removes the directory.
CrashInLock(i) ==
    /\ AtWrite(i) /\ ~lockLeft /\ crashes < MaxCrashes
    /\ crashes' = crashes + 1
    /\ lockLeft' = TRUE
    /\ disk' = IF Dismissing(i) THEN [mem[i] EXCEPT !.status = "cleanup_pending"]
               ELSE disk
    /\ End(i)
    /\ UNCHANGED <<proc, failures, grading, day, callers>>

\* state_lock waits 30 s for the directory and raises.
LockTimesOut(i) ==
    /\ AtWrite(i) /\ lockLeft
    /\ End(i)
    /\ UNCHANGED <<disk, proc, failures, grading, day, lockLeft, crashes, callers>>

--------------------------------------------------------------------------------
(* A round as it was sampled, rerolled with some finished reviews kept, or   *)
(* completed with all of them.                                               *)
Init ==
    /\ \E c \in Scenarios :
        /\ disk = [Blank EXCEPT
                !.status = IF c[1] = Slots THEN "completed" ELSE "sampled",
                !.runs = [s \in Slots |->
                    IF s \in c[1] THEN [NewRun EXCEPT !.status = "review"]
                    ELSE NewRun]]
        /\ callers = c[2]
    /\ mem = [i \in Invocations |-> Blank]
    /\ pc = [i \in Invocations |-> "idle"]
    /\ arg = [i \in Invocations |-> None]
    /\ proc = [p \in Pids |-> Unborn]
    /\ failures = IF disk.status = "completed" THEN 0 ELSE 1
    /\ log = [r \in Ranks |-> 0] /\ rated = log
    /\ day = 0
    /\ lockLeft = FALSE
    /\ crashes = 0

Work(i) ==
    \/ \E s \in Slots, p \in Pids : LaunchReviewer(i, s, p)
    \/ LaunchSaved(i) \/ LaunchDone(i) \/ LaunchFails(i)
    \/ \E s \in Slots : MarkRetry(i, s) \/ CollectRun(i, s) \/ StopReviewer(i, s)
    \/ ClearForRetry(i) \/ CleanupFails(i)
    \/ \E p \in Pids : Relaunch(i, p)
    \/ RelaunchSaved(i)
    \/ FinishCollect(i) \/ ApplyCooldowns(i) \/ StoreCompleted(i) \/ WriteResult(i)
    \/ WriteDismissed(i) \/ SweepLeaves(i)
    \/ AppendRecord(i) \/ GradePending(i) \/ Refresh(i) \/ GradeDone(i)
    \/ LockTimesOut(i)

Command(i) ==
    \/ RunRound(i) \/ Resume(i) \/ DismissRound(i) \/ Sweep(i)
    \/ \E r \in Ranks : Grade(i, r)

Next ==
    \/ \E i \in Invocations : Command(i) \/ Work(i) \/ Crash(i) \/ CrashInLock(i)
    \/ \E p \in Pids : ReviewerExits(p)
    \/ DayPasses

Spec == Init /\ [][Next]_vars

(* A command that runs goes on: its waits are bounded by the lock's timeout  *)
(* and the reviewers' deadlines, which it enforces itself.                   *)
LiveSpec == Spec /\ \A i \in Invocations : WF_vars(Work(i))

--------------------------------------------------------------------------------
(* Properties.                                                              *)

\* The variables keep their types; stored attempts never pass the limit, also
\* when a command dies between storing one and starting the new process.
TypeOK ==
    /\ disk \in Round
    /\ mem \in [Invocations -> Round]
    /\ pc \in [Invocations -> {"idle", "launch", "launched", "collect", "retry",
            "relaunch", "relaunched", "cooldown", "store", "result", "dismiss",
            "sweep", "append", "mark", "refresh", "graded"}]
    /\ arg \in [Invocations -> Slots \union Ranks \union {None}]
    /\ proc \in [Pids -> Process]
    /\ failures \in 0..MaxFailures
    /\ log \in [Ranks -> Nat] /\ rated \in [Ranks -> Nat]
    /\ day \in 0..MaxDay /\ crashes \in 0..MaxCrashes
    /\ lockLeft \in BOOLEAN /\ callers \subseteq Invocations

Alone == Cardinality(callers) = 1

ProcsOf(s) == {p \in Pids : proc[p].slot = s}

\* collect_round_results: with one command at a time, a review that was stored
\* is kept by everything that follows: retries of the other reviewer, a crash
\* after its files were deleted, a resumed collection, a dismissal, a grade.
UsableReviewKept ==
    [][Alone => \A s \in Slots :
        disk.runs[s].status = "review" => disk'.runs[s].status = "review"]_vars

\* _maybe_retry_capacity_run: a reviewer is started once, once more per retry,
\* and once more for each command that died before it had stored the start:
\* a resumed retry is not a new one.
RetryBudget ==
    Alone /\ ~lockLeft => \A s \in Slots :
        Cardinality(ProcsOf(s)) <= 1 + RetryLimit + crashes

\* _reviewer_deadline_reason, _transport_stalled: unless a command died, what a
\* stopped reviewer had written is never stored as its review.
StoppedIsNotReview ==
    Alone /\ crashes = 0 => \A s \in Slots :
        LET run == disk.runs[s] IN
        run.status = "review" /\ run.pid # 0 => ~proc[run.pid].killed

\* _apply_capacity_cooldowns: unless a command died, each failed run of a stored
\* completed round was counted once on top of the earlier failure, and a round
\* without one cleared the count if it had a review.
CooldownCountsRound ==
    Alone /\ crashes = 0 /\ disk.status = "completed" =>
        failures = IF CoolingRuns(disk) # {} THEN 1 + Cardinality(CoolingRuns(disk))
                   ELSE IF \E s \in Slots : disk.runs[s].status = "review" THEN 0
                   ELSE 1

\* _record_grade_result: whatever grades, dismissals and write-backs overlap,
\* a placement is recorded once, a round is stored as graded only when the
\* ratings count it, and the ratings lag the log only behind a grade under way
\* or one that died.
GradeIsCounted ==
    /\ \A r \in Ranks : rated[r] <= log[r] /\ log[r] <= 1
    /\ disk.graded => \E r \in Ranks : rated[r] = 1
    /\ crashes = 0 /\ (\A i \in Invocations : pc[i] \notin {"mark", "refresh"})
        => rated = log

\* Every command ends: retries are bounded, reviewers are stopped, locks time
\* out, also when the round's lock was left behind.
CommandsEnd == \A i \in Invocations : pc[i] # "idle" ~> pc[i] = "idle"

\* "Reviewer timed out / transport stalled before a usable result was captured":
\* a run stored as timed out is one whose process was stopped.
TimeoutMeansStopped ==
    \A s \in Slots : LET run == disk.runs[s] IN
        run.status = "timeout" /\ run.pid # 0 => proc[run.pid].killed

================================================================================
