---------------------------- MODULE ReviewRoundProofs ----------------------------
(* Theorems about ReviewRound, for any number of reviewers, commands, retries,   *)
(* crashes and stale periods.  The inductive invariant has a part about every    *)
(* command and its copy of the round, and one part for each thing the round      *)
(* promises: the starts of a reviewer, the failures counted, the grade, the      *)
(* stored reviews.                                                               *)
EXTENDS ReviewRound, TLAPS, FiniteSetTheorems

Active(i) == pc[i] # "idle"

\* a run that has files to look at, or a retry to go on with, names its process
RunGood(run) == ~Finalized(run) /\ (run.cleanup \/ run.files) => run.pid # 0

\* a command that retries has marked, then cleared, a run without a result
RetryGood(i) ==
    /\ pc[i] \in {"retry", "relaunch", "relaunched"} =>
        /\ arg[i] \in Slots /\ ~Finalized(mem[i].runs[arg[i]])
        /\ pc[i] = "retry" => mem[i].runs[arg[i]].cleanup
        /\ pc[i] = "relaunch" => /\ ~mem[i].runs[arg[i]].cleanup
                                 /\ mem[i].runs[arg[i]].pid = 0
    /\ pc[i] \in {"append", "mark", "refresh"} => arg[i] \in Ranks

CommandsGood ==
    /\ \A i \in Invocations : Active(i) => i \in callers
    /\ \A i \in Invocations : RetryGood(i)
    /\ \A i \in Invocations, s \in Slots : RunGood(mem[i].runs[s])
    /\ \A s \in Slots : RunGood(disk.runs[s])
    /\ lockLeft => crashes > 0

\* the starts of a reviewer that its run accounts for
Starts(run) == IF run.pid # 0 /\ ~run.cleanup THEN 1 + run.tries ELSE run.tries

\* a process that was started is stored next
Unsaved == \E i \in callers : pc[i] \in {"launched", "relaunched"}

NoMoreThan(s, n) == Cardinality(ProcsOf(s)) <= n

\* the starts of a reviewer are those its stored run accounts for, one for each
\* command that died, and the one that is not stored yet
BudgetGood ==
    Alone /\ ~lockLeft => \A s \in Slots :
        /\ NoMoreThan(s, 1 + RetryLimit + crashes)
        /\ ~Finalized(disk.runs[s]) =>
              NoMoreThan(s, Starts(disk.runs[s]) + crashes + IF Unsaved THEN 1 ELSE 0)
        /\ \A i \in callers : Active(i) /\ ~Finalized(mem[i].runs[s]) =>
              NoMoreThan(s, Starts(mem[i].runs[s]) + crashes)

\* the failure count a completed round leaves behind
Counted(round) ==
    IF CoolingRuns(round) # {} THEN 1 + Cardinality(CoolingRuns(round))
    ELSE IF \E s \in Slots : round.runs[s].status = "review" THEN 0 ELSE 1

Open(round) == round.status \in {"sampled", "running"}
SameVerdicts(a, b) == \A s \in Slots : a.runs[s].status = b.runs[s].status

\* where the only command is, the stored round and its copy go together
StageGood(i) ==
    /\ pc[i] \in {"launch", "launched", "collect", "retry", "relaunch", "relaunched"}
           => Open(mem[i]) /\ Open(disk)
    /\ pc[i] \in {"cooldown", "store"} => mem[i].status = "completed" /\ Open(disk)
    /\ pc[i] = "store" => failures = Counted(mem[i])
    /\ pc[i] \in {"result", "append", "mark", "refresh", "graded"}
           => /\ mem[i].status = "completed" /\ disk.status = "completed"
              /\ SameVerdicts(mem[i], disk)

CooldownGood ==
    Alone /\ crashes = 0 =>
        /\ disk.status = "completed" => failures = Counted(disk)
        /\ Open(disk) /\ (\A i \in callers : pc[i] # "store") => failures = 1
        /\ \A i \in callers : StageGood(i)

SomeRated == \E r \in Ranks : rated[r] = 1

GradeGood ==
    /\ \A r \in Ranks : rated[r] <= log[r] /\ log[r] <= 1
    /\ disk.graded => SomeRated
    /\ \A i \in Invocations :
        /\ mem[i].graded => SomeRated
        /\ pc[i] \in {"mark", "refresh"} => log[arg[i]] = 1
        /\ pc[i] = "graded" => SomeRated
    /\ \/ crashes > 0
       \/ rated = log
       \/ \E i \in Invocations : pc[i] \in {"mark", "refresh"}

\* the copy of the only command has every review that is stored
ReviewsGood ==
    Alone => \A i \in callers, s \in Slots :
        Active(i) /\ disk.runs[s].status = "review" => mem[i].runs[s].status = "review"

IInv == TypeOK /\ CommandsGood /\ BudgetGood /\ CooldownGood /\ GradeGood /\ ReviewsGood

-----------------------------------------------------------------------------
(* Runs and rounds                                                          *)

\* The edits of a run keep its type; none takes a result back.
LEMMA RunEdits ==
  ASSUME NEW run \in Run
  PROVE  /\ Captured(run) \in Run /\ Finalized(Captured(run))
         /\ \A p \in Pids : /\ Started(run, p) \in Run
                            /\ Started(run, p).pid = p
                            /\ Started(run, p).status = run.status
                            /\ Started(run, p).tries = run.tries
                            /\ Started(run, p).cleanup = run.cleanup
         /\ [run EXCEPT !.cleanup = FALSE, !.pid = 0, !.files = FALSE] \in Run
         /\ [run EXCEPT !.files = FALSE] \in Run
         /\ \A b \in BOOLEAN : [run EXCEPT !.stopped = b] \in Run
         /\ [run EXCEPT !.pid = 0, !.files = FALSE,
                        !.status = IF @ = "none" THEN "died" ELSE @] \in Run
  <1>1. Classify(run) \in BlockedStatus \union {"review"}
    BY DEF Classify, ClassifyOutput, BlockedStatus
  <1>2. Captured(run) \in Run /\ Finalized(Captured(run))
    BY <1>1 DEF Captured, Run, Finalized, BlockedStatus
  <1>3. Pids \subseteq 0..MaxProcs
    BY RoundAssumption DEF Pids
  <1>4. 0 \in 0..MaxProcs
    BY RoundAssumption
  <1>5. QED
    BY <1>2, <1>3, <1>4 DEF Run, Started, BlockedStatus

\* A retry is marked at most RetryLimit times.
LEMMA RunMarked ==
  ASSUME NEW run \in Run, WantsRetry(run)
  PROVE  /\ MarkedForRetry(run) \in Run
         /\ MarkedForRetry(run).cleanup
         /\ MarkedForRetry(run).status = run.status
         /\ MarkedForRetry(run).pid = run.pid
         /\ MarkedForRetry(run).tries = IF run.cleanup THEN run.tries ELSE run.tries + 1
  <1> DEFINE n == IF run.cleanup THEN run.tries ELSE run.tries + 1
  <1>1. n \in 0..RetryLimit
    BY RoundAssumption DEF Run, WantsRetry
  <1>2. MarkedForRetry(run) = [run EXCEPT !.cleanup = TRUE, !.tries = n]
    BY DEF MarkedForRetry
  <1>3. QED
    BY <1>1, <1>2 DEF Run

\* A round whose runs, status, grade or time stamp are replaced.
LEMMA RoundEdits ==
  ASSUME NEW round \in Round
  PROVE  /\ \A s \in Slots : round.runs[s] \in Run
         /\ \A s \in Slots, run \in Run :
              /\ [round EXCEPT !.runs[s] = run] \in Round
              /\ [round EXCEPT !.runs[s] = run].status = round.status
              /\ [round EXCEPT !.runs[s] = run].graded = round.graded
              /\ \A t \in Slots : [round EXCEPT !.runs[s] = run].runs[t]
                                  = IF t = s THEN run ELSE round.runs[t]
         /\ \A st \in {"sampled", "running", "completed", "cleanup_pending", "dismissed"} :
              [round EXCEPT !.status = st] \in Round
         /\ [round EXCEPT !.graded = TRUE] \in Round
  BY DEF Round

\* Compacting a settled round drops the names of its files and nothing else.
LEMMA Compacted ==
  ASSUME NEW round \in Round
  PROVE  /\ Compact(round) \in Round
         /\ Compact(round).status = round.status
         /\ Compact(round).graded = round.graded
         /\ \A s \in Slots :
              /\ Compact(round).runs[s].status = round.runs[s].status
              /\ Compact(round).runs[s].pid = round.runs[s].pid
              /\ Compact(round).runs[s].tries = round.runs[s].tries
              /\ Compact(round).runs[s].cleanup = round.runs[s].cleanup
              /\ Compact(round).runs[s].files => round.runs[s].files
  <1>1. CASE round.status \in {"completed", "dismissed"}
    <2>1. \A s \in Slots : [round.runs[s] EXCEPT !.files = FALSE] \in Run
      BY RunEdits DEF Round
    <2>2. Compact(round) = [round EXCEPT !.runs =
                              [s \in Slots |-> [round.runs[s] EXCEPT !.files = FALSE]]]
      BY <1>1 DEF Compact
    <2>3. QED
      BY <2>1, <2>2 DEF Round, Run
  <1>2. CASE round.status \notin {"completed", "dismissed"}
    BY <1>2 DEF Compact
  <1>3. QED
    BY <1>1, <1>2

LEMMA BlankTyped ==
  /\ Blank \in Round /\ NewRun \in Run /\ Blank.graded = FALSE /\ Blank.status = "sampled"
  /\ \A s \in Slots : Blank.runs[s] = NewRun
  /\ NewRun.pid = 0 /\ ~NewRun.files /\ ~NewRun.cleanup /\ NewRun.tries = 0
  /\ NewRun.status = "none"
  <1>1. NewRun \in Run
    BY RoundAssumption DEF NewRun, Run
  <1>2. QED
    BY <1>1, RoundAssumption DEF NewRun, Blank, Round

-----------------------------------------------------------------------------
(* Types: one step per action                                               *)

LabelSet == {"idle", "launch", "launched", "collect", "retry", "relaunch", "relaunched",
             "cooldown", "store", "result", "dismiss", "sweep", "append", "mark",
             "refresh", "graded"}

\* what the commands keep to themselves, and what is stored
CopiesTyped ==
    /\ mem \in [Invocations -> Round]
    /\ pc \in [Invocations -> LabelSet]
    /\ arg \in [Invocations -> Slots \union Ranks \union {None}]
    /\ callers \subseteq Invocations
StoreTyped ==
    /\ disk \in Round /\ proc \in [Pids -> Process]
    /\ failures \in 0..MaxFailures
    /\ log \in [Ranks -> Nat] /\ rated \in [Ranks -> Nat]
    /\ day \in 0..MaxDay /\ crashes \in 0..MaxCrashes
    /\ lockLeft \in BOOLEAN

LEMMA Parted == TypeOK <=> CopiesTyped /\ StoreTyped
  BY DEF TypeOK, CopiesTyped, StoreTyped, LabelSet

LEMMA PartedNext == ASSUME CopiesTyped', StoreTyped' PROVE TypeOK'
  BY DEF TypeOK, CopiesTyped, StoreTyped, LabelSet

\* A step of command i leaves the other commands alone.
OnlyMoves(i, to, round) ==
    /\ mem' = [mem EXCEPT ![i] = round]
    /\ pc' = [pc EXCEPT ![i] = to]
    /\ \A j \in Invocations \ {i} : arg'[j] = arg[j]
    /\ callers' = callers

LEMMA MovesTyped ==
  ASSUME NEW i \in Invocations, NEW to \in LabelSet, NEW round \in Round, CopiesTyped,
         OnlyMoves(i, to, round),
         arg' \in [Invocations -> Slots \union Ranks \union {None}]
  PROVE  CopiesTyped'
  BY DEF CopiesTyped, OnlyMoves

\* How each helper moves the command it is used by.
LEMMA BeginMoves ==
  ASSUME NEW i \in Invocations, NEW to, NEW a \in Slots \union Ranks \union {None}, TypeOK,
         Begin(i, to, a)
  PROVE  /\ OnlyMoves(i, to, disk) /\ arg'[i] = a /\ i \in callers /\ pc[i] = "idle"
         /\ arg' \in [Invocations -> Slots \union Ranks \union {None}]
  BY DEF Begin, OnlyMoves, TypeOK

LEMMA EndMoves ==
  ASSUME NEW i \in Invocations, TypeOK, End(i), UNCHANGED callers
  PROVE  /\ OnlyMoves(i, "idle", Blank) /\ CopiesTyped'
  <1>1. /\ OnlyMoves(i, "idle", Blank)
        /\ arg' \in [Invocations -> Slots \union Ranks \union {None}]
    BY DEF End, OnlyMoves, TypeOK
  <1>2. QED
    BY <1>1, MovesTyped, Parted, BlankTyped DEF LabelSet

\* Deleting output files leaves every process where it is.
SameProcesses == \A p \in Pids : /\ proc'[p].slot = proc[p].slot
                                 /\ proc'[p].state = proc[p].state

LEMMA OutputGone ==
  ASSUME NEW p \in Process
  PROVE  /\ WithoutOutput(p) \in Process
         /\ WithoutOutput(p).slot = p.slot /\ WithoutOutput(p).state = p.state
  BY DEF WithoutOutput, Process

LEMMA DeletedOutputs ==
  ASSUME NEW round, TypeOK, DeleteOutputs(round)
  PROVE  proc' \in [Pids -> Process] /\ SameProcesses
  BY OutputGone DEF TypeOK, DeleteOutputs, SameProcesses

LEMMA ProcessStarted ==
  ASSUME NEW p \in Pids, NEW s \in Slots, TypeOK, StartProcess(p, s)
  PROVE  /\ proc' \in [Pids -> Process] /\ proc'[p].slot = s
         /\ \A q \in Pids \ {p} : proc'[q] = proc[q]
  <1>1. [slot |-> s, state |-> "alive", left |-> "nothing", killed |-> FALSE,
         files |-> TRUE] \in Process
    BY DEF Process
  <1>2. QED
    BY <1>1 DEF StartProcess, TypeOK

\* The commands begin with the stored round.
LEMMA CommandEffect ==
  ASSUME NEW i \in Invocations, TypeOK, Command(i)
  PROVE  /\ TypeOK'
         /\ \E to \in LabelSet : OnlyMoves(i, to, disk)
         /\ pc[i] = "idle" /\ i \in callers
         /\ UNCHANGED <<disk, proc, failures, log, rated, day, lockLeft, crashes>>
  <1>1. ASSUME NEW to \in LabelSet, NEW a \in Slots \union Ranks \union {None},
               Begin(i, to, a),
               UNCHANGED <<disk, proc, failures, grading, day, lockLeft, crashes>>
        PROVE  /\ TypeOK' /\ OnlyMoves(i, to, disk) /\ pc[i] = "idle" /\ i \in callers
               /\ UNCHANGED <<log, rated>>
    <2>1. /\ OnlyMoves(i, to, disk) /\ pc[i] = "idle" /\ i \in callers
          /\ arg' \in [Invocations -> Slots \union Ranks \union {None}]
      BY <1>1, BeginMoves
    <2>2. CopiesTyped'
      BY <2>1, MovesTyped, Parted DEF StoreTyped
    <2>3. UNCHANGED <<log, rated>>
      BY <1>1 DEF grading
    <2>4. QED
      BY <1>1, <2>1, <2>2, <2>3, Parted, PartedNext DEF StoreTyped
  <1>2. CASE RunRound(i)
    BY <1>1, <1>2 DEF RunRound, LabelSet, grading
  <1>3. CASE Resume(i)
    BY <1>1, <1>3 DEF Resume, LabelSet, grading
  <1>4. CASE DismissRound(i)
    BY <1>1, <1>4 DEF DismissRound, LabelSet, grading
  <1>5. CASE Sweep(i)
    BY <1>1, <1>5 DEF Sweep, LabelSet, grading
  <1>6. ASSUME NEW r \in Ranks, Grade(i, r) 
        PROVE  /\ TypeOK'
               /\ \E to \in LabelSet : OnlyMoves(i, to, disk)
               /\ pc[i] = "idle" /\ i \in callers
               /\ UNCHANGED <<disk, proc, failures, log, rated, day, lockLeft, crashes>>
    BY <1>1, <1>6 DEF Grade, LabelSet, grading
  <1>7. QED
    BY <1>2, <1>3, <1>4, <1>5, <1>6 DEF Command

LEMMA StepTyped ==
  ASSUME NEW i \in Invocations, NEW to \in LabelSet, NEW round \in Round, TypeOK,
         OnlyMoves(i, to, round),
         arg' \in [Invocations -> Slots \union Ranks \union {None}],
         StoreTyped'
  PROVE  TypeOK' /\ mem'[i] = round /\ pc'[i] = to
  <1>1. CopiesTyped'
    BY MovesTyped, Parted
  <1>2. mem'[i] = round /\ pc'[i] = to
    BY DEF OnlyMoves, TypeOK
  <1>3. QED
    BY <1>1, <1>2, PartedNext

\* A command that writes its copy and goes on.
Saves(i, to) ==
    /\ ~lockLeft /\ disk' = Compact(mem[i])
    /\ OnlyMoves(i, to, mem[i])
    /\ UNCHANGED <<proc, failures, log, rated, day, lockLeft, crashes>>

LEMMA SaveEffect ==
  ASSUME NEW i \in Invocations, NEW to \in LabelSet, TypeOK, Write(i, mem[i]), Go(i, to),
         arg' = arg \/ arg' = [arg EXCEPT ![i] = None],
         UNCHANGED <<proc, failures, grading, day, lockLeft, crashes, callers>>
  PROVE  TypeOK' /\ Saves(i, to)
  <1>1. mem[i] \in Round /\ Compact(mem[i]) \in Round
    BY Compacted DEF TypeOK
  <1>2. OnlyMoves(i, to, mem[i]) /\ arg' \in [Invocations -> Slots \union Ranks \union {None}]
    BY DEF TypeOK, OnlyMoves, Write, Go
  <1>3. UNCHANGED <<log, rated>> /\ disk' = Compact(mem[i]) /\ ~lockLeft
    BY DEF grading, Write
  <1>4. StoreTyped'
    BY <1>1, <1>3, Parted DEF StoreTyped
  <1>5. QED
    BY <1>1, <1>2, <1>3, <1>4, StepTyped DEF Saves

\* A command that ends, and what it leaves in the round file.
Leaves(i, round) ==
    /\ disk' = round
    /\ OnlyMoves(i, "idle", Blank)
    /\ UNCHANGED <<failures, log, rated, day>>

LEMMA EndEffect ==
  ASSUME NEW i \in Invocations, NEW round \in Round, TypeOK, End(i), disk' = round,
         UNCHANGED <<failures, grading, day, callers>>,
         proc' \in [Pids -> Process], lockLeft' \in BOOLEAN, crashes' \in 0..MaxCrashes
  PROVE  TypeOK' /\ Leaves(i, round)
  <1>1. UNCHANGED <<log, rated>>
    BY DEF grading
  <1>2. CopiesTyped' /\ OnlyMoves(i, "idle", Blank)
    BY EndMoves
  <1>3. StoreTyped'
    BY <1>1, Parted DEF StoreTyped
  <1>4. QED
    BY <1>1, <1>2, <1>3, PartedNext DEF Leaves

\* The rounds a command that ends may leave: the stored one, or its copy, as it is
\* (compacted or not), dismissed, waiting for its cleanup, or graded.
LEMMA LeftRounds ==
  ASSUME NEW i \in Invocations, TypeOK
  PROVE  /\ disk \in Round /\ mem[i] \in Round /\ Compact(mem[i]) \in Round
         /\ Compact([mem[i] EXCEPT !.status = "dismissed"]) \in Round
         /\ [mem[i] EXCEPT !.status = "cleanup_pending"] \in Round
         /\ Compact([mem[i] EXCEPT !.graded = TRUE]) \in Round
  BY Compacted, RoundEdits DEF TypeOK

\* what a command that ends with the round it found, alive or dead, keeps
SameRest == UNCHANGED <<proc, lockLeft, crashes>>

LEMMA EndQuiet ==
  ASSUME NEW i \in Invocations, TypeOK,
         LaunchFails(i) \/ SweepLeaves(i) \/ LockTimesOut(i)
  PROVE  TypeOK' /\ Leaves(i, disk) /\ SameRest
  <1>1. End(i) /\ UNCHANGED <<disk, proc, failures, grading, day, lockLeft, crashes, callers>>
    BY DEF LaunchFails, SweepLeaves, LockTimesOut
  <1>2. TypeOK' /\ Leaves(i, disk)
    BY <1>1, LeftRounds, EndEffect, Parted DEF StoreTyped
  <1>3. QED
    BY <1>1, <1>2 DEF SameRest

LEMMA CrashEffect ==
  ASSUME NEW i \in Invocations, TypeOK, Crash(i)
  PROVE  /\ TypeOK' /\ Leaves(i, disk) /\ UNCHANGED <<proc, lockLeft>>
         /\ crashes' = crashes + 1
  <1>1. crashes' \in 0..MaxCrashes
    BY RoundAssumption DEF Crash, TypeOK
  <1>2. TypeOK' /\ Leaves(i, disk)
    BY <1>1, LeftRounds, EndEffect, Parted DEF StoreTyped, Crash
  <1>3. QED
    BY <1>2 DEF Crash

LEMMA CrashInLockEffect ==
  ASSUME NEW i \in Invocations, TypeOK, CrashInLock(i)
  PROVE  /\ TypeOK' /\ UNCHANGED proc /\ lockLeft' = TRUE /\ crashes' = crashes + 1
         /\ \/ Leaves(i, disk)
            \/ Leaves(i, [mem[i] EXCEPT !.status = "cleanup_pending"]) /\ Dismissing(i)
  <1>1. crashes' \in 0..MaxCrashes /\ lockLeft' \in BOOLEAN /\ proc' \in [Pids -> Process]
    BY RoundAssumption DEF CrashInLock, TypeOK
  <1>2. disk' \in {disk, [mem[i] EXCEPT !.status = "cleanup_pending"]}
        /\ (disk' = disk \/ Dismissing(i))
    BY DEF CrashInLock
  <1>3. TypeOK' /\ Leaves(i, disk')
    BY <1>1, <1>2, LeftRounds, EndEffect DEF CrashInLock
  <1>4. QED
    BY <1>2, <1>3 DEF CrashInLock

LEMMA CleanupFailsEffect ==
  ASSUME NEW i \in Invocations, TypeOK, CleanupFails(i)
  PROVE  TypeOK' /\ Leaves(i, mem[i]) /\ SameRest
  BY LeftRounds, EndEffect, Parted DEF StoreTyped, CleanupFails, SameRest

LEMMA WriteResultEffect ==
  ASSUME NEW i \in Invocations, TypeOK, WriteResult(i)
  PROVE  TypeOK' /\ Leaves(i, Compact(mem[i])) /\ SameRest
  BY LeftRounds, EndEffect, Parted DEF StoreTyped, WriteResult, SameRest

LEMMA GradeDoneEffect ==
  ASSUME NEW i \in Invocations, TypeOK, GradeDone(i)
  PROVE  TypeOK' /\ Leaves(i, Compact([mem[i] EXCEPT !.graded = TRUE])) /\ SameRest
  BY LeftRounds, EndEffect, Parted DEF StoreTyped, GradeDone, SameRest

LEMMA WriteDismissedEffect ==
  ASSUME NEW i \in Invocations, TypeOK, WriteDismissed(i)
  PROVE  /\ TypeOK' /\ SameProcesses /\ UNCHANGED <<lockLeft, crashes>>
         /\ \/ Leaves(i, Compact([mem[i] EXCEPT !.status = "dismissed"]))
            \/ Leaves(i, [mem[i] EXCEPT !.status = "cleanup_pending"])
  <1>1. proc' \in [Pids -> Process] /\ SameProcesses
    BY DeletedOutputs DEF WriteDismissed, SameProcesses, TypeOK
  <1>2. lockLeft' \in BOOLEAN /\ crashes' \in 0..MaxCrashes
    BY DEF TypeOK, WriteDismissed
  <1>3. disk' \in {Compact([mem[i] EXCEPT !.status = "dismissed"]),
                  [mem[i] EXCEPT !.status = "cleanup_pending"]}
    BY DEF WriteDismissed
  <1>4. TypeOK' /\ Leaves(i, disk')
    BY <1>1, <1>2, <1>3, LeftRounds, EndEffect DEF WriteDismissed
  <1>5. QED
    BY <1>1, <1>3, <1>4 DEF WriteDismissed

\* A command that replaces the run of one slot in its copy.
Edits(i, to, s, run) ==
    /\ OnlyMoves(i, to, mem'[i]) /\ pc'[i] = to
    /\ mem'[i].graded = mem[i].graded
    /\ \A t \in Slots : mem'[i].runs[t] = IF t = s THEN run ELSE mem[i].runs[t]

\* A command that starts process p for slot s.
StartsOne(i, p, s) ==
    /\ proc'[p].slot = s /\ \A q \in Pids \ {p} : proc'[q] = proc[q]
    /\ UNCHANGED <<disk, failures, log, rated, day, lockLeft, crashes>>

LEMMA LaunchReviewerEffect ==
  ASSUME NEW i \in Invocations, NEW s \in Slots, NEW p \in Pids, TypeOK,
         LaunchReviewer(i, s, p)
  PROVE  /\ TypeOK' /\ StartsOne(i, p, s)
         /\ Edits(i, "launched", s, Started(mem[i].runs[s], p))
         /\ mem'[i].status = "running" /\ arg' = arg
  <1> DEFINE new == [mem[i] EXCEPT !.status = "running", !.at = day,
                                   !.runs[s] = Started(mem[i].runs[s], p)]
  <1>1. mem[i] \in Round /\ mem[i].runs[s] \in Run /\ Started(mem[i].runs[s], p) \in Run
        /\ day \in 0..MaxDay
    BY RoundEdits, RunEdits DEF TypeOK
  <1>2. new \in Round /\ new.graded = mem[i].graded /\ new.status = "running"
        /\ \A t \in Slots : new.runs[t] = IF t = s THEN Started(mem[i].runs[s], p)
                                        ELSE mem[i].runs[t]
    BY <1>1 DEF Round
  <1>3. /\ OnlyMoves(i, "launched", new) /\ arg' = arg
        /\ arg' \in [Invocations -> Slots \union Ranks \union {None}]
    BY DEF LaunchReviewer, Go, OnlyMoves, TypeOK
  <1>4. proc' \in [Pids -> Process] /\ StartsOne(i, p, s)
    BY ProcessStarted DEF LaunchReviewer, StartsOne, grading
  <1>5. StoreTyped'
    BY <1>4, Parted DEF StoreTyped, StartsOne
  <1>6. "launched" \in LabelSet
    BY DEF LabelSet
  <1> HIDE DEF new
  <1>7. TypeOK' /\ mem'[i] = new /\ pc'[i] = "launched"
    BY <1>2, <1>3, <1>5, <1>6, StepTyped
  <1>8. QED
    BY <1>2, <1>3, <1>4, <1>7 DEF Edits

LEMMA RelaunchEffect ==
  ASSUME NEW i \in Invocations, NEW p \in Pids, TypeOK, arg[i] \in Slots, Relaunch(i, p)
  PROVE  /\ TypeOK' /\ StartsOne(i, p, arg[i])
         /\ Edits(i, "relaunched", arg[i], Started(mem[i].runs[arg[i]], p))
         /\ mem'[i].status = mem[i].status /\ arg' = arg
  <1> DEFINE s == arg[i]
             run == Started(mem[i].runs[s], p)
             new == [mem[i] EXCEPT !.runs[s] = run]
  <1>1. mem[i] \in Round /\ mem[i].runs[s] \in Run /\ run \in Run
    BY RoundEdits, RunEdits DEF TypeOK
  <1>2. new \in Round /\ new.graded = mem[i].graded /\ new.status = mem[i].status
        /\ \A t \in Slots : new.runs[t] = IF t = s THEN run ELSE mem[i].runs[t]
    BY <1>1 DEF Round
  <1>3. /\ OnlyMoves(i, "relaunched", new) /\ arg' = arg
        /\ arg' \in [Invocations -> Slots \union Ranks \union {None}]
    BY DEF Relaunch, Go, OnlyMoves, TypeOK
  <1>4. proc' \in [Pids -> Process] /\ StartsOne(i, p, s)
    BY ProcessStarted DEF Relaunch, StartsOne, grading
  <1>5. StoreTyped'
    BY <1>4, Parted DEF StoreTyped, StartsOne
  <1>6. "relaunched" \in LabelSet
    BY DEF LabelSet
  <1> HIDE DEF new
  <1>7. TypeOK' /\ mem'[i] = new /\ pc'[i] = "relaunched"
    BY <1>2, <1>3, <1>5, <1>6, StepTyped
  <1>8. QED
    BY <1>2, <1>3, <1>4, <1>7 DEF Edits

\* A command that stores what it did to the run of slot s.
LEMMA StoredEdit ==
  ASSUME NEW i \in Invocations, NEW to \in LabelSet, NEW s \in Slots, NEW run \in Run, TypeOK,
         Write(i, [mem[i] EXCEPT !.runs[s] = run]), pc' = [pc EXCEPT ![i] = to],
         arg' = arg \/ arg' = [arg EXCEPT ![i] = s],
         UNCHANGED <<proc, failures, grading, day, lockLeft, crashes, callers>>
  PROVE  /\ TypeOK' /\ Edits(i, to, s, run) /\ mem'[i].status = mem[i].status
         /\ disk' = Compact(mem'[i]) /\ mem'[i] \in Round /\ ~lockLeft
         /\ UNCHANGED <<proc, failures, log, rated, day, lockLeft, crashes>>
  <1> DEFINE new == [mem[i] EXCEPT !.runs[s] = run]
  <1>1. mem[i] \in Round
    BY DEF TypeOK
  <1>2. /\ new \in Round /\ new.graded = mem[i].graded /\ new.status = mem[i].status
        /\ \A t \in Slots : new.runs[t] = IF t = s THEN run ELSE mem[i].runs[t]
    BY <1>1 DEF Round
  <1>3. OnlyMoves(i, to, new) /\ arg' \in [Invocations -> Slots \union Ranks \union {None}]
    BY DEF TypeOK, OnlyMoves, Write
  <1>4. UNCHANGED <<log, rated>> /\ disk' = Compact(new) /\ ~lockLeft
        /\ Compact(new) \in Round
    BY <1>2, Compacted DEF grading, Write
  <1>5. StoreTyped'
    BY <1>2, <1>4, Parted DEF StoreTyped
  <1> HIDE DEF new
  <1>6. TypeOK' /\ mem'[i] = new /\ pc'[i] = to
    BY <1>2, <1>3, <1>5, StepTyped
  <1>7. QED
    BY <1>2, <1>3, <1>4, <1>6 DEF Edits

LEMMA MarkRetryEffect ==
  ASSUME NEW i \in Invocations, NEW s \in Slots, TypeOK, MarkRetry(i, s)
  PROVE  /\ TypeOK' /\ Edits(i, "retry", s, MarkedForRetry(mem[i].runs[s]))
         /\ mem'[i].status = mem[i].status /\ arg' = [arg EXCEPT ![i] = s]
         /\ disk' = Compact(mem'[i]) /\ mem'[i] \in Round /\ ~lockLeft
         /\ UNCHANGED <<proc, failures, log, rated, day, lockLeft, crashes>>
  <1>1. mem[i].runs[s] \in Run
    BY RoundEdits DEF TypeOK
  <1>2. MarkedForRetry(mem[i].runs[s]) \in Run
    BY <1>1, RunMarked DEF MarkRetry
  <1>3. "retry" \in LabelSet
    BY DEF LabelSet
  <1>4. QED
    BY <1>2, <1>3, StoredEdit DEF MarkRetry, Go

LEMMA CollectRunEffect ==
  ASSUME NEW i \in Invocations, NEW s \in Slots, TypeOK, CollectRun(i, s)
  PROVE  /\ TypeOK' /\ Edits(i, "collect", s, Captured(mem[i].runs[s]))
         /\ mem'[i].status = mem[i].status /\ arg' = arg
         /\ disk' = Compact(mem'[i]) /\ mem'[i] \in Round /\ ~lockLeft
         /\ UNCHANGED <<proc, failures, log, rated, day, lockLeft, crashes>>
  <1>1. Captured(mem[i].runs[s]) \in Run
    BY RoundEdits, RunEdits DEF TypeOK
  <1>2. "collect" \in LabelSet /\ pc' = [pc EXCEPT ![i] = "collect"]
    BY DEF LabelSet, CollectRun, TypeOK
  <1>3. QED
    BY <1>1, <1>2, StoredEdit DEF CollectRun

\* A command that changes the run of slot s in its copy only.
LEMMA UnstoredEdit ==
  ASSUME NEW i \in Invocations, NEW to \in LabelSet, NEW s \in Slots, NEW run \in Run, TypeOK,
         mem' = [mem EXCEPT ![i].runs[s] = run], pc' = [pc EXCEPT ![i] = to],
         UNCHANGED <<disk, arg, failures, log, rated, day, lockLeft, crashes, callers>>,
         proc' \in [Pids -> Process]
  PROVE  /\ TypeOK' /\ Edits(i, to, s, run) /\ mem'[i].status = mem[i].status
  <1> DEFINE new == [mem[i] EXCEPT !.runs[s] = run]
  <1>1. mem[i] \in Round
    BY DEF TypeOK
  <1>2. /\ new \in Round /\ new.graded = mem[i].graded /\ new.status = mem[i].status
        /\ \A t \in Slots : new.runs[t] = IF t = s THEN run ELSE mem[i].runs[t]
    BY <1>1 DEF Round
  <1>3. OnlyMoves(i, to, new) /\ arg' \in [Invocations -> Slots \union Ranks \union {None}]
    BY DEF TypeOK, OnlyMoves
  <1>4. StoreTyped'
    BY Parted DEF StoreTyped
  <1> HIDE DEF new
  <1>5. TypeOK' /\ mem'[i] = new /\ pc'[i] = to
    BY <1>2, <1>3, <1>4, StepTyped
  <1>6. QED
    BY <1>2, <1>3, <1>5 DEF Edits

LEMMA ClearForRetryEffect ==
  ASSUME NEW i \in Invocations, TypeOK, arg[i] \in Slots, ClearForRetry(i)
  PROVE  /\ TypeOK' /\ mem'[i].status = mem[i].status /\ SameProcesses
         /\ Edits(i, "relaunch", arg[i], [mem[i].runs[arg[i]] EXCEPT
                    !.cleanup = FALSE, !.pid = 0, !.files = FALSE])
         /\ UNCHANGED <<disk, arg, failures, log, rated, day, lockLeft, crashes>>
  <1> DEFINE s == arg[i]
             run == [mem[i].runs[s] EXCEPT !.cleanup = FALSE, !.pid = 0, !.files = FALSE]
  <1>1. run \in Run
    BY RoundEdits, RunEdits DEF TypeOK
  <1>2. mem' = [mem EXCEPT ![i].runs[s] = run] /\ pc' = [pc EXCEPT ![i] = "relaunch"]
    BY DEF ClearForRetry, Go
  <1>3. proc' \in [Pids -> Process] /\ SameProcesses
    BY OutputGone DEF ClearForRetry, TypeOK, SameProcesses
  <1>4. "relaunch" \in LabelSet
    BY DEF LabelSet
  <1>5. UNCHANGED <<disk, arg, failures, log, rated, day, lockLeft, crashes, callers>>
    BY DEF ClearForRetry, grading
  <1> HIDE DEF run
  <1>6. TypeOK' /\ Edits(i, "relaunch", s, run) /\ mem'[i].status = mem[i].status
    BY <1>1, <1>2, <1>3, <1>4, <1>5, UnstoredEdit
  <1>7. QED
    BY <1>3, <1>5, <1>6 DEF run

\* A stopped run differs from what it was in its being noted as stopped only.
LEMMA StopReviewerEffect ==
  ASSUME NEW i \in Invocations, NEW s \in Slots, TypeOK, StopReviewer(i, s)
  PROVE  \E b \in BOOLEAN :
         /\ TypeOK' /\ mem'[i].status = mem[i].status
         /\ \A p \in Pids : proc'[p].slot = proc[p].slot
         /\ Edits(i, "collect", s, [mem[i].runs[s] EXCEPT !.stopped = b])
         /\ UNCHANGED <<disk, arg, failures, log, rated, day, lockLeft, crashes>>
  <1>1. mem[i].runs[s] \in Run
    BY RoundEdits DEF TypeOK
  <1>2. mem[i].runs[s].pid \in Pids
    BY <1>1, RoundAssumption DEF Run, StopReviewer, Running, Pids
  <1>3. PICK hung \in BOOLEAN, left \in {"nothing", "partial", "capacity", "review"} :
        /\ mem' = [mem EXCEPT ![i].runs[s].stopped = @ \/ ~hung]
        /\ proc' = [proc EXCEPT ![mem[i].runs[s].pid] =
                    [@ EXCEPT !.state = "dead", !.left = left, !.killed = ~hung]]
    BY DEF StopReviewer
  <1> DEFINE b == mem[i].runs[s].stopped \/ ~hung
             run == [mem[i].runs[s] EXCEPT !.stopped = b]
  <1>4. b \in BOOLEAN /\ run \in Run
    BY <1>1, RunEdits DEF Run
  <1>5. mem' = [mem EXCEPT ![i].runs[s] = run]
    BY <1>1, <1>3 DEF Run
  <1>6. /\ proc' \in [Pids -> Process]
        /\ \A p \in Pids : proc'[p].slot = proc[p].slot
    <2>1. proc[mem[i].runs[s].pid] \in Process
      BY <1>2 DEF TypeOK
    <2>2. [proc[mem[i].runs[s].pid] EXCEPT !.state = "dead", !.left = left,
                                           !.killed = ~hung] \in Process
      BY <1>3, <2>1 DEF Process
    <2>3. QED
      BY <1>2, <1>3, <2>1, <2>2 DEF TypeOK, Process
  <1>7. "collect" \in LabelSet /\ pc' = [pc EXCEPT ![i] = "collect"]
    BY DEF LabelSet, StopReviewer, TypeOK
  <1>8. UNCHANGED <<disk, arg, failures, log, rated, day, lockLeft, crashes, callers>>
    BY DEF StopReviewer, grading
  <1> HIDE DEF run
  <1>9. TypeOK' /\ Edits(i, "collect", s, run) /\ mem'[i].status = mem[i].status
    BY <1>4, <1>5, <1>6, <1>7, <1>8, UnstoredEdit
  <1>10. QED
    BY <1>4, <1>6, <1>8, <1>9 DEF run

\* A collected round is completed: every run has a result, and a result stays.
LEMMA FinishCollectEffect ==
  ASSUME NEW i \in Invocations, TypeOK, FinishCollect(i)
  PROVE  /\ TypeOK' /\ SameProcesses
         /\ OnlyMoves(i, "cooldown", mem'[i]) /\ pc'[i] = "cooldown"
         /\ mem'[i].status = "completed" /\ mem'[i].graded = mem[i].graded
         /\ \A s \in Slots : /\ Finalized(mem'[i].runs[s])
                             /\ Finalized(mem[i].runs[s]) =>
                                  mem'[i].runs[s].status = mem[i].runs[s].status
         /\ UNCHANGED <<disk, arg, failures, log, rated, day, lockLeft, crashes>>
  <1> DEFINE ended(s) == [mem[i].runs[s] EXCEPT !.pid = 0, !.files = FALSE,
                            !.status = IF @ = "none" THEN "died" ELSE @]
             runs == [s \in Slots |-> ended(s)]
             new == [mem[i] EXCEPT !.status = "completed", !.at = day, !.runs = runs]
  <1>1. mem[i] \in Round /\ day \in 0..MaxDay
    BY DEF TypeOK
  <1>2. \A s \in Slots : mem[i].runs[s] \in Run
    BY <1>1, RoundEdits
  <1>3. /\ runs \in [Slots -> Run]
        /\ \A s \in Slots : /\ Finalized(runs[s])
                            /\ Finalized(mem[i].runs[s]) =>
                                  runs[s].status = mem[i].runs[s].status
    BY <1>2, RunEdits DEF Run, Finalized
  <1>4. mem' = [mem EXCEPT ![i] = new]
    BY DEF FinishCollect
  <1> HIDE DEF runs
  <1>5. /\ new \in Round /\ new.status = "completed" /\ new.graded = mem[i].graded
        /\ new.runs = runs
    BY <1>1, <1>3 DEF Round
  <1>6. /\ OnlyMoves(i, "cooldown", new) /\ "cooldown" \in LabelSet
        /\ arg' \in [Invocations -> Slots \union Ranks \union {None}]
    BY <1>4 DEF FinishCollect, Go, OnlyMoves, TypeOK, LabelSet
  <1>7. proc' \in [Pids -> Process] /\ SameProcesses
    BY DeletedOutputs DEF FinishCollect
  <1>8. UNCHANGED <<disk, arg, failures, log, rated, day, lockLeft, crashes>>
    BY DEF FinishCollect, grading
  <1>9. StoreTyped'
    BY <1>7, <1>8, Parted DEF StoreTyped
  <1> HIDE DEF new
  <1>10. TypeOK' /\ mem'[i] = new /\ pc'[i] = "cooldown"
    BY <1>5, <1>6, <1>9, StepTyped
  <1>11. QED
    BY <1>3, <1>5, <1>6, <1>7, <1>8, <1>10

LEMMA CoolingCounted ==
  ASSUME NEW round
  PROVE  /\ IsFiniteSet(CoolingRuns(round)) /\ Cardinality(CoolingRuns(round)) \in Nat
         /\ Cardinality(CoolingRuns(round)) <= Cardinality(Slots) /\ Cardinality(Slots) \in Nat
         /\ Cardinality(CoolingRuns(round)) = 0 <=> CoolingRuns(round) = {}
  <1>1. CoolingRuns(round) \subseteq Slots
    BY DEF CoolingRuns
  <1>2. QED
    BY <1>1, FS_Subset, FS_CardinalityType, FS_EmptySet, RoundAssumption

LEMMA ApplyCooldownsEffect ==
  ASSUME NEW i \in Invocations, TypeOK, ApplyCooldowns(i)
  PROVE  /\ TypeOK' /\ OnlyMoves(i, "store", mem[i]) /\ pc'[i] = "store" /\ mem'[i] = mem[i]
         /\ UNCHANGED <<disk, arg, proc, log, rated, day, lockLeft, crashes>>
         /\ failures = 1 => failures' = Counted(mem[i])
  <1> DEFINE n == Cardinality(CoolingRuns(mem[i]))
  <1>1. n \in Nat /\ n <= Cardinality(Slots) /\ Cardinality(Slots) \in Nat
        /\ (n = 0 <=> CoolingRuns(mem[i]) = {})
    BY CoolingCounted
  <1>2. failures \in 0..MaxFailures /\ MaxFailures \in Nat /\ MaxFailures > Cardinality(Slots)
    BY RoundAssumption DEF TypeOK
  <1>3. failures' = IF n > 0 THEN IF failures + n > MaxFailures THEN MaxFailures ELSE failures + n
                    ELSE IF \E s \in Slots : mem[i].runs[s].status = "review"
                         THEN 0 ELSE failures
    BY DEF ApplyCooldowns
  <1>4. Counted(mem[i]) = IF CoolingRuns(mem[i]) # {} THEN 1 + n
                          ELSE IF \E s \in Slots : mem[i].runs[s].status = "review"
                               THEN 0 ELSE 1
    BY DEF Counted
  <1> HIDE DEF n
  <1>5. failures' \in 0..MaxFailures
    BY <1>1, <1>2, <1>3
  <1>6. failures = 1 => failures' = Counted(mem[i])
    BY <1>1, <1>2, <1>3, <1>4
  <1>7. UNCHANGED <<disk, arg, proc, log, rated, day, lockLeft, crashes>>
    BY DEF ApplyCooldowns, grading
  <1>8. /\ OnlyMoves(i, "store", mem[i]) /\ "store" \in LabelSet /\ mem[i] \in Round
        /\ arg' \in [Invocations -> Slots \union Ranks \union {None}]
    BY DEF ApplyCooldowns, Go, OnlyMoves, TypeOK, LabelSet
  <1>9. StoreTyped'
    BY <1>5, <1>7, Parted DEF StoreTyped
  <1>10. QED
    BY <1>6, <1>7, <1>8, <1>9, StepTyped

\* A record is appended once per placement.
LEMMA AppendRecordEffect ==
  ASSUME NEW i \in Invocations, TypeOK, arg[i] \in Ranks, AppendRecord(i)
  PROVE  /\ TypeOK' /\ OnlyMoves(i, "mark", mem[i]) /\ pc'[i] = "mark" /\ mem'[i] = mem[i]
         /\ UNCHANGED <<disk, arg, proc, failures, rated, day, lockLeft, crashes>>
         /\ \A r \in Ranks : log'[r] = IF r = arg[i] /\ log[r] = 0 THEN 1 ELSE log[r]
  <1>1. /\ log' \in [Ranks -> Nat]
        /\ \A r \in Ranks : log'[r] = IF r = arg[i] /\ log[r] = 0 THEN 1 ELSE log[r]
    BY DEF AppendRecord, TypeOK
  <1>2. UNCHANGED <<disk, arg, proc, failures, rated, day, lockLeft, crashes>>
    BY DEF AppendRecord
  <1>3. /\ OnlyMoves(i, "mark", mem[i]) /\ "mark" \in LabelSet /\ mem[i] \in Round
        /\ arg' \in [Invocations -> Slots \union Ranks \union {None}]
    BY DEF AppendRecord, Go, OnlyMoves, TypeOK, LabelSet
  <1>4. StoreTyped'
    BY <1>1, <1>2, Parted DEF StoreTyped
  <1>5. QED
    BY <1>1, <1>2, <1>3, <1>4, StepTyped

LEMMA RefreshEffect ==
  ASSUME NEW i \in Invocations, TypeOK, Refresh(i)
  PROVE  /\ TypeOK' /\ OnlyMoves(i, "graded", mem[i]) /\ pc'[i] = "graded" /\ mem'[i] = mem[i]
         /\ UNCHANGED <<disk, arg, proc, failures, log, day, lockLeft, crashes>>
         /\ rated' = log
  <1>1. UNCHANGED <<disk, arg, proc, failures, log, day, lockLeft, crashes>> /\ rated' = log
    BY DEF Refresh
  <1>2. /\ OnlyMoves(i, "graded", mem[i]) /\ "graded" \in LabelSet /\ mem[i] \in Round
        /\ arg' \in [Invocations -> Slots \union Ranks \union {None}]
    BY DEF Refresh, Go, OnlyMoves, TypeOK, LabelSet
  <1>3. StoreTyped'
    BY <1>1, Parted DEF StoreTyped
  <1>4. QED
    BY <1>1, <1>2, <1>3, StepTyped

\* Time, and reviewers that end by themselves, touch no command and no stored data.
Outside ==
    /\ UNCHANGED <<disk, mem, pc, arg, failures, log, rated, lockLeft, crashes, callers>>
    /\ \A p \in Pids : proc'[p].slot = proc[p].slot

LEMMA OutsideEffect ==
  ASSUME TypeOK, DayPasses \/ \E p \in Pids : ReviewerExits(p)
  PROVE  TypeOK' /\ Outside
  <1>1. CASE DayPasses
    <2>1. day' \in 0..MaxDay
      BY <1>1, RoundAssumption DEF DayPasses, TypeOK
    <2>2. QED
      BY <1>1, <2>1 DEF DayPasses, TypeOK, Outside, grading
  <1>2. ASSUME NEW p \in Pids, ReviewerExits(p) PROVE TypeOK' /\ Outside
    <2>1. PICK left \in {"nothing", "capacity", "review"} :
            proc' = [proc EXCEPT ![p].state = "dead", ![p].left = left]
      BY <1>2 DEF ReviewerExits
    <2>2. /\ proc' \in [Pids -> Process]
          /\ \A q \in Pids : proc'[q].slot = proc[q].slot
      BY <2>1 DEF TypeOK, Process
    <2>3. UNCHANGED <<disk, mem, pc, arg, failures, log, rated, lockLeft, crashes, callers, day>>
      BY <1>2 DEF ReviewerExits, grading
    <2>4. QED
      BY <2>2, <2>3 DEF TypeOK, Outside
  <1>3. QED
    BY <1>1, <1>2

\* The writes that change nothing in the copy.
LEMMA SavesOf ==
  ASSUME NEW i \in Invocations, TypeOK
  PROVE  /\ LaunchSaved(i) => TypeOK' /\ Saves(i, "launch") /\ arg' = arg
         /\ LaunchDone(i) => TypeOK' /\ Saves(i, "collect") /\ arg' = arg
         /\ RelaunchSaved(i) => TypeOK' /\ Saves(i, "collect")
         /\ StoreCompleted(i) => TypeOK' /\ Saves(i, "result") /\ arg' = arg
         /\ GradePending(i) => TypeOK' /\ Saves(i, "refresh") /\ arg' = arg
  <1>1. {"launch", "collect", "result", "refresh"} \subseteq LabelSet
    BY DEF LabelSet
  <1>2. QED
    BY <1>1, SaveEffect
    DEF LaunchSaved, LaunchDone, RelaunchSaved, StoreCompleted, GradePending

-----------------------------------------------------------------------------
(* What the commands rely on                                                *)

RunsGood(round) == \A s \in Slots : RunGood(round.runs[s])

\* A step of command i keeps what the commands rely on when it keeps what i does,
\* and leaves a good round stored.
LEMMA CommandsMove ==
  ASSUME NEW i \in Invocations, NEW to \in LabelSet, NEW round, NEW kept,
         TypeOK, CommandsGood, OnlyMoves(i, to, round), RunsGood(round),
         disk' = kept, RunsGood(kept),
         to # "idle" => i \in callers, RetryGood(i)', lockLeft' => crashes' > 0
  PROVE  CommandsGood'
  <1>1. \A j \in Invocations : Active(j)' => j \in callers'
    BY DEF CommandsGood, OnlyMoves, TypeOK, Active
  <1>2. \A j \in Invocations : RetryGood(j)'
    <2>1. ASSUME NEW j \in Invocations \ {i} PROVE RetryGood(j)'
      BY DEF CommandsGood, OnlyMoves, TypeOK, RetryGood
    <2>2. QED
      BY <2>1
  <1>3. \A j \in Invocations, s \in Slots : RunGood(mem'[j].runs[s])
    BY DEF CommandsGood, OnlyMoves, TypeOK, RunsGood
  <1>4. \A s \in Slots : RunGood(disk'.runs[s])
    BY DEF RunsGood
  <1>5. QED
    BY <1>1, <1>2, <1>3, <1>4 DEF CommandsGood, RunGood

\* A run that was started names its process.
LEMMA StartedGood ==
  ASSUME NEW run \in Run, NEW p \in Pids
  PROVE  RunGood(Started(run, p)) /\ (~Finalized(run) => ~Finalized(Started(run, p)))
  <1>1. p # 0
    BY RoundAssumption DEF Pids
  <1>2. Started(run, p).pid = p /\ Started(run, p).status = run.status
    BY RunEdits
  <1>3. QED
    BY <1>1, <1>2 DEF RunGood, Finalized

LEMMA GoodRounds ==
  ASSUME NEW i \in Invocations, TypeOK, CommandsGood
  PROVE  /\ RunsGood(mem[i]) /\ RunsGood(disk) /\ RunsGood(Blank)
         /\ RunsGood(Compact(mem[i]))
         /\ RunsGood(Compact([mem[i] EXCEPT !.status = "dismissed"]))
         /\ RunsGood([mem[i] EXCEPT !.status = "cleanup_pending"])
         /\ RunsGood(Compact([mem[i] EXCEPT !.graded = TRUE]))
  <1>1. RunsGood(mem[i]) /\ RunsGood(disk)
    BY DEF CommandsGood, RunsGood
  <1>2. RunsGood(Blank)
    BY BlankTyped DEF RunsGood, RunGood
  <1>3. ASSUME NEW round \in Round, RunsGood(round) PROVE RunsGood(Compact(round))
    BY <1>3, Compacted DEF RunsGood, RunGood, Finalized
  <1>4. mem[i] \in Round
    BY DEF TypeOK
  <1>5. /\ [mem[i] EXCEPT !.status = "dismissed"] \in Round
        /\ [mem[i] EXCEPT !.status = "cleanup_pending"] \in Round
        /\ [mem[i] EXCEPT !.graded = TRUE] \in Round
        /\ RunsGood([mem[i] EXCEPT !.status = "dismissed"])
        /\ RunsGood([mem[i] EXCEPT !.status = "cleanup_pending"])
        /\ RunsGood([mem[i] EXCEPT !.graded = TRUE])
    BY <1>1, <1>4 DEF Round, RunsGood
  <1>6. QED
    BY <1>1, <1>2, <1>3, <1>4, <1>5

\* Commands that end, whatever round they leave.
LEMMA CommandsEndGood ==
  ASSUME NEW i \in Invocations, NEW round, TypeOK, CommandsGood, Leaves(i, round),
         RunsGood(round), lockLeft' => crashes' > 0
  PROVE  CommandsGood'
  <1>1. OnlyMoves(i, "idle", Blank) /\ disk' = round /\ "idle" \in LabelSet
    BY DEF Leaves, LabelSet
  <1>2. RetryGood(i)'
    BY <1>1 DEF OnlyMoves, TypeOK, RetryGood
  <1>3. QED
    BY <1>1, <1>2, GoodRounds, CommandsMove

\* Commands that write their copy and go on.
LEMMA CommandsSaveGood ==
  ASSUME NEW i \in Invocations, NEW to \in LabelSet, TypeOK, CommandsGood, Saves(i, to),
         pc[i] # "idle", RetryGood(i)'
  PROVE  CommandsGood'
  <1>1. i \in callers /\ (lockLeft' => crashes' > 0)
    BY DEF CommandsGood, Active, Saves
  <1>2. QED
    BY <1>1, GoodRounds, CommandsMove DEF Saves

\* Commands that edit the run of one slot.
LEMMA CommandsEditGood ==
  ASSUME NEW i \in Invocations, NEW to \in LabelSet, NEW s \in Slots, NEW run, TypeOK,
         CommandsGood, Edits(i, to, s, run), mem'[i] \in Round, pc[i] # "idle", RunGood(run),
         disk' = disk \/ disk' = Compact(mem'[i]), RetryGood(i)',
         UNCHANGED <<lockLeft, crashes>>
  PROVE  CommandsGood'
  <1>1. i \in callers /\ (lockLeft' => crashes' > 0)
    BY DEF CommandsGood, Active
  <1>2. RunsGood(mem'[i])
    BY DEF Edits, RunsGood, CommandsGood
  <1>3. RunsGood(Compact(mem'[i]))
    BY <1>2, Compacted DEF RunsGood, RunGood, Finalized
  <1>4. RunsGood(disk')
    BY <1>3, GoodRounds
  <1>5. OnlyMoves(i, to, mem'[i])
    BY DEF Edits
  <1>6. QED
    BY <1>1, <1>2, <1>4, <1>5, CommandsMove

LEMMA CommandGood ==
  ASSUME NEW i \in Invocations, TypeOK, CommandsGood, Command(i)
  PROVE  CommandsGood'
  <1>1. /\ i \in callers
        /\ UNCHANGED <<disk, lockLeft, crashes>>
    BY CommandEffect
  <1>2. PICK to \in LabelSet : OnlyMoves(i, to, disk)
    BY CommandEffect
  <1>3. RetryGood(i)'
    <2>1. ASSUME NEW st, NEW a, Begin(i, st, a), st \notin {"retry", "relaunch", "relaunched"},
                 st \in {"append", "mark", "refresh"} => a \in Ranks
          PROVE  RetryGood(i)'
      BY <2>1 DEF Begin, TypeOK, RetryGood
    <2>2. QED
      BY <2>1 DEF Command, RunRound, Resume, DismissRound, Sweep, Grade
  <1>4. lockLeft' => crashes' > 0
    BY <1>1 DEF CommandsGood
  <1>5. QED
    BY <1>1, <1>2, <1>3, <1>4, GoodRounds, CommandsMove

LEMMA WorkGood ==
  ASSUME NEW i \in Invocations, TypeOK, CommandsGood, Work(i)
  PROVE  CommandsGood'
  <1>1. ASSUME NEW s \in Slots, NEW p \in Pids, LaunchReviewer(i, s, p) PROVE CommandsGood'
    <2>1. /\ TypeOK' /\ Edits(i, "launched", s, Started(mem[i].runs[s], p))
          /\ UNCHANGED <<disk, lockLeft, crashes>>
      BY <1>1, LaunchReviewerEffect DEF StartsOne
    <2>2. RunGood(Started(mem[i].runs[s], p)) /\ mem'[i] \in Round
      BY <2>1, StartedGood, RoundEdits DEF TypeOK
    <2>3. RetryGood(i)'
      BY <2>1 DEF Edits, RetryGood
    <2>4. pc[i] # "idle" /\ "launched" \in LabelSet
      BY <1>1 DEF LaunchReviewer, LabelSet
    <2>5. QED
      BY <2>1, <2>2, <2>3, <2>4, CommandsEditGood
  <1>2. ASSUME NEW s \in Slots, MarkRetry(i, s) PROVE CommandsGood'
    <2>1. /\ TypeOK' /\ Edits(i, "retry", s, MarkedForRetry(mem[i].runs[s]))
          /\ arg' = [arg EXCEPT ![i] = s]
          /\ disk' = Compact(mem'[i]) /\ mem'[i] \in Round
          /\ UNCHANGED <<lockLeft, crashes>>
      BY <1>2, MarkRetryEffect
    <2>2. mem[i].runs[s] \in Run /\ RunGood(mem[i].runs[s]) /\ Collectable(mem[i].runs[s])
          /\ WantsRetry(mem[i].runs[s])
      BY <1>2, RoundEdits DEF TypeOK, CommandsGood, MarkRetry
    <2>3. RunGood(MarkedForRetry(mem[i].runs[s])) /\ ~Finalized(MarkedForRetry(mem[i].runs[s]))
          /\ MarkedForRetry(mem[i].runs[s]).cleanup
      BY <2>2, RunMarked DEF RunGood, Collectable, Finalized
    <2>4. RetryGood(i)'
      BY <2>1, <2>3 DEF Edits, RetryGood, TypeOK, Finalized
    <2>5. pc[i] # "idle" /\ "retry" \in LabelSet
      BY <1>2 DEF MarkRetry, LabelSet
    <2>6. QED
      BY <2>1, <2>3, <2>4, <2>5, CommandsEditGood
  <1>3. ASSUME NEW s \in Slots, CollectRun(i, s) PROVE CommandsGood'
    <2>1. /\ TypeOK' /\ Edits(i, "collect", s, Captured(mem[i].runs[s]))
          /\ disk' = Compact(mem'[i]) /\ mem'[i] \in Round
          /\ UNCHANGED <<lockLeft, crashes>>
      BY <1>3, CollectRunEffect
    <2>2. RunGood(Captured(mem[i].runs[s]))
      BY RoundEdits, RunEdits DEF TypeOK, RunGood
    <2>3. RetryGood(i)' /\ pc[i] # "idle" /\ "collect" \in LabelSet
      BY <1>3, <2>1 DEF Edits, RetryGood, CollectRun, LabelSet
    <2>4. QED
      BY <2>1, <2>2, <2>3, CommandsEditGood
  <1>4. ASSUME NEW s \in Slots, StopReviewer(i, s) PROVE CommandsGood'
    <2>1. PICK b \in BOOLEAN :
            /\ TypeOK' /\ Edits(i, "collect", s, [mem[i].runs[s] EXCEPT !.stopped = b])
            /\ UNCHANGED <<disk, lockLeft, crashes>>
      BY <1>4, StopReviewerEffect
    <2>2. mem[i].runs[s] \in Run /\ RunGood(mem[i].runs[s]) /\ mem'[i] \in Round
      BY <2>1, RoundEdits DEF TypeOK, CommandsGood
    <2>3. RunGood([mem[i].runs[s] EXCEPT !.stopped = b])
      BY <2>2 DEF RunGood, Run, Finalized
    <2>4. RetryGood(i)' /\ pc[i] # "idle" /\ "collect" \in LabelSet
      BY <1>4, <2>1 DEF Edits, RetryGood, StopReviewer, LabelSet
    <2>5. QED
      BY <2>1, <2>2, <2>3, <2>4, CommandsEditGood
  <1>5. CASE ClearForRetry(i)
    <2> DEFINE s == arg[i]
               run == [mem[i].runs[s] EXCEPT !.cleanup = FALSE, !.pid = 0, !.files = FALSE]
    <2>1. s \in Slots /\ ~Finalized(mem[i].runs[s]) /\ pc[i] # "idle" /\ "relaunch" \in LabelSet
      BY <1>5 DEF ClearForRetry, CommandsGood, RetryGood, LabelSet
    <2>2. /\ TypeOK' /\ Edits(i, "relaunch", s, run) /\ arg' = arg
          /\ UNCHANGED <<disk, lockLeft, crashes>>
      BY <1>5, <2>1, ClearForRetryEffect
    <2>3. mem[i].runs[s] \in Run /\ mem'[i] \in Round
      BY <2>1, <2>2, RoundEdits DEF TypeOK
    <2>4. RunGood(run) /\ ~Finalized(run) /\ ~run.cleanup /\ run.pid = 0
      BY <2>1, <2>3 DEF RunGood, Run, Finalized
    <2> HIDE DEF run
    <2>5. RetryGood(i)'
      BY <2>1, <2>2, <2>4 DEF Edits, RetryGood, Finalized
    <2>6. QED
      BY <2>1, <2>2, <2>3, <2>4, <2>5, CommandsEditGood
  <1>6. ASSUME NEW p \in Pids, Relaunch(i, p) PROVE CommandsGood'
    <2> DEFINE s == arg[i]
               run == Started(mem[i].runs[s], p)
    <2>1. s \in Slots /\ ~Finalized(mem[i].runs[s]) /\ pc[i] # "idle" /\ "relaunched" \in LabelSet
      BY <1>6 DEF Relaunch, CommandsGood, RetryGood, LabelSet
    <2>2. /\ TypeOK' /\ Edits(i, "relaunched", s, run) /\ arg' = arg
          /\ UNCHANGED <<disk, lockLeft, crashes>>
      BY <1>6, <2>1, RelaunchEffect DEF StartsOne
    <2>3. mem[i].runs[s] \in Run /\ mem'[i] \in Round
      BY <2>1, <2>2, RoundEdits DEF TypeOK
    <2>4. RunGood(run) /\ ~Finalized(run)
      BY <2>1, <2>3, StartedGood
    <2> HIDE DEF run
    <2>5. RetryGood(i)'
      BY <2>1, <2>2, <2>4 DEF Edits, RetryGood, Finalized
    <2>6. QED
      BY <2>1, <2>2, <2>3, <2>4, <2>5, CommandsEditGood
  <1>7. CASE FinishCollect(i)
    <2>1. /\ TypeOK' /\ OnlyMoves(i, "cooldown", mem'[i]) /\ pc'[i] = "cooldown"
          /\ \A s \in Slots : Finalized(mem'[i].runs[s])
          /\ UNCHANGED <<disk, lockLeft, crashes>>
      BY <1>7, FinishCollectEffect
    <2>2. RunsGood(mem'[i])
      BY <2>1 DEF RunsGood, RunGood
    <2>3. RetryGood(i)'
      BY <2>1 DEF RetryGood
    <2>4. pc[i] = "collect"
      BY <1>7 DEF FinishCollect
    <2>5. i \in callers /\ (lockLeft' => crashes' > 0) /\ "cooldown" \in LabelSet
      BY <2>1, <2>4 DEF CommandsGood, Active, LabelSet
    <2>6. QED
      BY <2>1, <2>2, <2>3, <2>5, GoodRounds, CommandsMove
  <1>8. CASE ApplyCooldowns(i) \/ (AppendRecord(i) /\ arg[i] \in Ranks) \/ Refresh(i)
    <2>1. PICK to \in {"store", "mark", "graded"} :
            /\ OnlyMoves(i, to, mem[i]) /\ pc'[i] = to
            /\ to = "mark" => arg[i] \in Ranks
            /\ UNCHANGED <<disk, arg, lockLeft, crashes>>
      BY <1>8, ApplyCooldownsEffect, AppendRecordEffect, RefreshEffect
    <2>2. RetryGood(i)'
      BY <2>1 DEF RetryGood
    <2>3. i \in callers /\ (lockLeft' => crashes' > 0) /\ to \in LabelSet
      BY <1>8, <2>1
      DEF CommandsGood, Active, ApplyCooldowns, AppendRecord, Refresh, LabelSet
    <2>4. QED
      BY <2>1, <2>2, <2>3, GoodRounds, CommandsMove
  <1>9. CASE AppendRecord(i)
    BY <1>8, <1>9 DEF AppendRecord, CommandsGood, RetryGood
  <1>10. CASE LaunchSaved(i) \/ LaunchDone(i) \/ RelaunchSaved(i) \/ StoreCompleted(i)
               \/ GradePending(i)
    <2>1. PICK to \in {"launch", "collect", "result", "refresh"} :
            Saves(i, to) /\ (to = "refresh" => arg' = arg /\ pc[i] = "mark")
      BY <1>10, SavesOf DEF GradePending
    <2>2. pc'[i] = to /\ pc[i] # "idle" /\ to \in LabelSet
      BY <1>10, <2>1 DEF Saves, OnlyMoves, TypeOK, LabelSet, LaunchSaved, LaunchDone,
                         RelaunchSaved, StoreCompleted, GradePending
    <2>3. RetryGood(i)'
      BY <2>1, <2>2 DEF RetryGood, CommandsGood
    <2>4. QED
      BY <2>1, <2>2, <2>3, CommandsSaveGood
  <1>11. CASE LaunchFails(i) \/ SweepLeaves(i) \/ LockTimesOut(i)
    <2>1. Leaves(i, disk) /\ (lockLeft' => crashes' > 0)
      BY <1>11, EndQuiet DEF SameRest, CommandsGood
    <2>2. QED
      BY <2>1, GoodRounds, CommandsEndGood
  <1>12. CASE CleanupFails(i) \/ WriteResult(i) \/ GradeDone(i)
    <2>1. PICK round \in {mem[i], Compact(mem[i]), Compact([mem[i] EXCEPT !.graded = TRUE])} :
            Leaves(i, round)
      BY <1>12, CleanupFailsEffect, WriteResultEffect, GradeDoneEffect
    <2>2. lockLeft' => crashes' > 0
      BY <1>12, CleanupFailsEffect, WriteResultEffect, GradeDoneEffect DEF SameRest, CommandsGood
    <2>3. QED
      BY <2>1, <2>2, GoodRounds, CommandsEndGood
  <1>13. CASE WriteDismissed(i)
    <2>1. PICK round \in {Compact([mem[i] EXCEPT !.status = "dismissed"]),
                          [mem[i] EXCEPT !.status = "cleanup_pending"]} :
            Leaves(i, round)
      BY <1>13, WriteDismissedEffect
    <2>2. lockLeft' => crashes' > 0
      BY <1>13, WriteDismissedEffect DEF CommandsGood
    <2>3. QED
      BY <2>1, <2>2, GoodRounds, CommandsEndGood
  <1>14. QED
    BY <1>1, <1>2, <1>3, <1>4, <1>5, <1>6, <1>7, <1>8, <1>9, <1>10, <1>11, <1>12, <1>13
    DEF Work

LEMMA CrashesCounted == ASSUME TypeOK PROVE crashes \in Nat
  BY RoundAssumption DEF TypeOK

LEMMA CrashGood ==
  ASSUME NEW i \in Invocations, TypeOK, CommandsGood, Crash(i) \/ CrashInLock(i)
  PROVE  CommandsGood'
  <1>1. crashes \in Nat /\ crashes' = crashes + 1
    BY CrashEffect, CrashInLockEffect, CrashesCounted
  <1>2. PICK round \in {disk, [mem[i] EXCEPT !.status = "cleanup_pending"]} : Leaves(i, round)
    BY CrashEffect, CrashInLockEffect
  <1>3. crashes' > 0
    BY <1>1
  <1>4. RunsGood(round)
    BY <1>2, GoodRounds
  <1>5. QED
    BY <1>2, <1>3, <1>4, CommandsEndGood

LEMMA OutsideGood == ASSUME TypeOK, CommandsGood, Outside PROVE CommandsGood'
  BY DEF CommandsGood, Outside, Active, RetryGood, RunGood, Finalized

-----------------------------------------------------------------------------
(* The starts of a reviewer                                                 *)

\* what BudgetGood says of slot s when i is the only command
BudgetAt(i, s) ==
    /\ NoMoreThan(s, 1 + RetryLimit + crashes)
    /\ ~Finalized(disk.runs[s]) => NoMoreThan(s, Starts(disk.runs[s]) + crashes
                    + IF pc[i] \in {"launched", "relaunched"} THEN 1 ELSE 0)
    /\ Active(i) /\ ~Finalized(mem[i].runs[s]) =>
          NoMoreThan(s, Starts(mem[i].runs[s]) + crashes)

\* One command at a time is one and the same.
LEMMA AloneIsOne ==
  ASSUME TypeOK
  PROVE  Alone <=> \E i \in Invocations : callers = {i}
  <1>1. IsFiniteSet(callers)
    BY FS_Subset, RoundAssumption DEF TypeOK
  <1>2. ASSUME Alone PROVE \E i \in Invocations : callers = {i}
    BY <1>1, <1>2, FS_Singleton DEF Alone, TypeOK
  <1>3. ASSUME NEW i \in Invocations, callers = {i} PROVE Alone
    BY <1>3, FS_Singleton DEF Alone
  <1>4. QED
    BY <1>2, <1>3

LEMMA BudgetIsAt ==
  ASSUME NEW i \in Invocations, TypeOK, callers = {i}
  PROVE  BudgetGood <=> (~lockLeft => \A s \in Slots : BudgetAt(i, s))
  BY AloneIsOne DEF BudgetGood, BudgetAt, Unsaved

LEMMA PidsFinite == IsFiniteSet(1..MaxProcs)
  <1>1. 1 \in Int /\ MaxProcs \in Int
    BY RoundAssumption
  <1>2. QED
    BY <1>1, FS_Interval, Zenon

LEMMA CountsTyped ==
  ASSUME TypeOK, NEW s
  PROVE  IsFiniteSet(ProcsOf(s)) /\ Cardinality(ProcsOf(s)) \in Nat /\ crashes \in Nat
  <1>1. ProcsOf(s) \subseteq 1..MaxProcs
    BY DEF ProcsOf, Pids
  <1>2. IsFiniteSet(1..MaxProcs)
    BY PidsFinite
  <1>3. QED
    BY <1>1, <1>2, FS_Subset, FS_CardinalityType, CrashesCounted

LEMMA PrimedCounts ==
  ASSUME NEW s PROVE IsFiniteSet(ProcsOf(s)') /\ Cardinality(ProcsOf(s)') \in Nat
  <1>1. ProcsOf(s)' \subseteq 1..MaxProcs
    BY DEF ProcsOf, Pids
  <1>2. IsFiniteSet(1..MaxProcs)
    BY PidsFinite
  <1>3. QED
    BY <1>1, <1>2, FS_Subset, FS_CardinalityType

LEMMA StartsTyped ==
  ASSUME NEW run \in Run PROVE Starts(run) \in Nat /\ Starts(run) <= 1 + RetryLimit
  BY RoundAssumption DEF Run, Starts

\* Starting a run that names no process adds one to its account.
LEMMA StartCounts ==
  ASSUME NEW run \in Run, NEW p \in Pids, run.pid = 0, ~run.cleanup
  PROVE  Starts(Started(run, p)) = 1 + Starts(run)
  <1>1. p # 0
    BY RoundAssumption DEF Pids
  <1>2. /\ Started(run, p).pid = p /\ Started(run, p).tries = run.tries
        /\ Started(run, p).cleanup = run.cleanup
    BY RunEdits
  <1>3. QED
    BY <1>1, <1>2 DEF Starts

\* Nobody is started when the processes keep their slots.
LEMMA SameCounts ==
  ASSUME \A p \in Pids : proc'[p].slot = proc[p].slot, NEW s
  PROVE  Cardinality(ProcsOf(s))' = Cardinality(ProcsOf(s))
  <1>1. ProcsOf(s)' = ProcsOf(s)
    BY DEF ProcsOf
  <1>2. QED
    BY <1>1

\* A start adds one process to its slot and none to another one.
LEMMA OneMore ==
  ASSUME NEW i, NEW p \in Pids, NEW s \in Slots, TypeOK, StartsOne(i, p, s)
  PROVE  /\ Cardinality(ProcsOf(s))' <= Cardinality(ProcsOf(s)) + 1
         /\ \A t \in Slots \ {s} : Cardinality(ProcsOf(t))' <= Cardinality(ProcsOf(t))
  <1>1. \A t : IsFiniteSet(ProcsOf(t)) /\ Cardinality(ProcsOf(t)) \in Nat
    BY CountsTyped
  <1>2. ProcsOf(s)' \subseteq ProcsOf(s) \union {p}
    BY DEF ProcsOf, StartsOne
  <1>3. IsFiniteSet(ProcsOf(s) \union {p})
        /\ Cardinality(ProcsOf(s) \union {p}) <= Cardinality(ProcsOf(s)) + 1
    BY <1>1, FS_AddElement
  <1>4. Cardinality(ProcsOf(s)') <= Cardinality(ProcsOf(s)) + 1
    <2>1. Cardinality(ProcsOf(s)') <= Cardinality(ProcsOf(s) \union {p})
          /\ Cardinality(ProcsOf(s)') \in Nat /\ Cardinality(ProcsOf(s) \union {p}) \in Nat
      BY <1>2, <1>3, FS_Subset, FS_CardinalityType
    <2>2. QED
      BY <1>1, <1>3, <2>1
  <1>5. ASSUME NEW t \in Slots \ {s} PROVE Cardinality(ProcsOf(t)') <= Cardinality(ProcsOf(t))
    <2>1. ProcsOf(t)' \subseteq ProcsOf(t)
      BY DEF ProcsOf, StartsOne
    <2>2. QED
      BY <1>1, <2>1, FS_Subset
  <1>6. QED
    BY <1>4, <1>5

\* the starts of a run without a result are those of the stored run, or those of
\* the run in the command's copy
Accounted(i, s, run) ==
    ~Finalized(run) =>
        \/ /\ pc[i] \notin {"launched", "relaunched"} /\ ~Finalized(disk.runs[s])
           /\ Starts(run) = Starts(disk.runs[s])
        \/ /\ Active(i) /\ ~Finalized(mem[i].runs[s])
           /\ Starts(run) = Starts(mem[i].runs[s])

\* A step that starts no process keeps the budget when what it stores and what it
\* keeps in its copy account for the same starts as before.
LEMMA BudgetSame ==
  ASSUME NEW i \in Invocations, NEW s \in Slots, TypeOK, BudgetAt(i, s),
         \A p \in Pids : proc'[p].slot = proc[p].slot, crashes' = crashes,
         disk'.runs[s] \in Run, mem'[i].runs[s] \in Run,
         Accounted(i, s, disk'.runs[s]),
         pc'[i] # "idle" => Accounted(i, s, mem'[i].runs[s])
  PROVE  BudgetAt(i, s)'
  <1>1. Cardinality(ProcsOf(s))' = Cardinality(ProcsOf(s))
        /\ Cardinality(ProcsOf(s)) \in Nat /\ crashes \in Nat
    BY SameCounts, CountsTyped
  <1>2. /\ ~Finalized(disk'.runs[s]) => NoMoreThan(s, Starts(disk'.runs[s]) + crashes)
        /\ pc'[i] # "idle" /\ ~Finalized(mem'[i].runs[s]) =>
              NoMoreThan(s, Starts(mem'[i].runs[s]) + crashes)
    <2>1. Starts(disk'.runs[s]) \in Nat /\ Starts(mem'[i].runs[s]) \in Nat
      BY StartsTyped
    <2>2. QED
      BY <1>1, <2>1 DEF BudgetAt, Accounted, NoMoreThan
  <1>3. Starts(disk'.runs[s]) \in Nat /\ Starts(mem'[i].runs[s]) \in Nat
    BY StartsTyped
  <1>4. /\ NoMoreThan(s, 1 + RetryLimit + crashes)'
        /\ ~Finalized(disk'.runs[s]) =>
              Cardinality(ProcsOf(s))' <= Starts(disk'.runs[s]) + crashes'
                    + IF pc'[i] \in {"launched", "relaunched"} THEN 1 ELSE 0
        /\ pc'[i] # "idle" /\ ~Finalized(mem'[i].runs[s]) =>
              Cardinality(ProcsOf(s))' <= Starts(mem'[i].runs[s]) + crashes'
    BY <1>1, <1>2, <1>3 DEF BudgetAt, NoMoreThan
  <1>5. QED
    BY <1>4 DEF BudgetAt, NoMoreThan, Active, Finalized, Starts

\* A step that starts a process is paid for by its run, before it is stored.
LEMMA BudgetMore ==
  ASSUME NEW i \in Invocations, NEW s \in Slots, NEW t \in Slots, NEW p \in Pids, TypeOK,
         BudgetAt(i, s), StartsOne(i, p, t), pc[i] \notin {"launched", "relaunched"},
         pc'[i] \in {"launched", "relaunched"}, Active(i),
         mem'[i].runs[s] \in Run, disk.runs[s] \in Run, mem[i].runs[s] \in Run,
         s # t => mem'[i].runs[s] = mem[i].runs[s],
         s = t => /\ ~Finalized(mem[i].runs[s])
                  /\ Starts(mem'[i].runs[s]) = 1 + Starts(mem[i].runs[s])
  PROVE  BudgetAt(i, s)'
  <1>1. /\ Cardinality(ProcsOf(s)) \in Nat /\ crashes \in Nat /\ crashes' = crashes
        /\ Cardinality(ProcsOf(s))' <= Cardinality(ProcsOf(s)) + 1
        /\ s # t => Cardinality(ProcsOf(s))' <= Cardinality(ProcsOf(s))
        /\ disk' = disk
    <2>1. /\ Cardinality(ProcsOf(t))' <= Cardinality(ProcsOf(t)) + 1
          /\ s # t => Cardinality(ProcsOf(s))' <= Cardinality(ProcsOf(s))
      BY OneMore
    <2>2. Cardinality(ProcsOf(s)) \in Nat /\ crashes \in Nat
      BY CountsTyped
    <2>3. crashes' = crashes /\ disk' = disk
      BY DEF StartsOne
    <2>4. s # t => Cardinality(ProcsOf(s))' <= Cardinality(ProcsOf(s)) + 1
      <3>1. IsFiniteSet(ProcsOf(s)') /\ Cardinality(ProcsOf(s)') \in Nat
        BY PrimedCounts
      <3>2. QED
        BY <2>1, <2>2, <3>1
    <2>5. QED
      BY <2>1, <2>2, <2>3, <2>4
  <1>2. /\ Starts(mem[i].runs[s]) \in Nat
        /\ Starts(mem'[i].runs[s]) \in Nat /\ Starts(mem'[i].runs[s]) <= 1 + RetryLimit
        /\ Starts(disk.runs[s]) \in Nat
    BY StartsTyped
  <1>3. IsFiniteSet(ProcsOf(s)') /\ Cardinality(ProcsOf(s)') \in Nat
    BY PrimedCounts
  <1>4. ~Finalized(mem'[i].runs[s]) =>
            Cardinality(ProcsOf(s)') <= Starts(mem'[i].runs[s]) + crashes
    BY <1>1, <1>2, <1>3 DEF BudgetAt, NoMoreThan
  <1>5. Cardinality(ProcsOf(s)') <= 1 + RetryLimit + crashes
    BY <1>1, <1>2, <1>3, RoundAssumption DEF BudgetAt, NoMoreThan
  <1>6. ~Finalized(disk.runs[s]) =>
            Cardinality(ProcsOf(s)') <= Starts(disk.runs[s]) + crashes + 1
    BY <1>1, <1>2, <1>3 DEF BudgetAt, NoMoreThan
  <1>7. QED
    BY <1>1, <1>4, <1>5, <1>6 DEF BudgetAt, NoMoreThan, Active, Finalized, Starts

\* Compacting, dismissing and grading a round leave the account of its runs alone.
SameAccount(a, b) ==
    \A s \in Slots : /\ a.runs[s].status = b.runs[s].status
                    /\ Starts(a.runs[s]) = Starts(b.runs[s])

LEMMA LeftAccounts ==
  ASSUME NEW i \in Invocations, TypeOK
  PROVE  /\ SameAccount(mem[i], mem[i]) /\ SameAccount(Compact(mem[i]), mem[i])
         /\ SameAccount(Compact([mem[i] EXCEPT !.status = "dismissed"]), mem[i])
         /\ SameAccount([mem[i] EXCEPT !.status = "cleanup_pending"], mem[i])
         /\ SameAccount(Compact([mem[i] EXCEPT !.graded = TRUE]), mem[i])
  <1>1. ASSUME NEW round \in Round PROVE SameAccount(Compact(round), round)
    BY Compacted DEF SameAccount, Starts
  <1>2. mem[i] \in Round
    BY DEF TypeOK
  <1>3. /\ [mem[i] EXCEPT !.status = "dismissed"] \in Round
        /\ [mem[i] EXCEPT !.graded = TRUE] \in Round
        /\ [mem[i] EXCEPT !.status = "dismissed"].runs = mem[i].runs
        /\ [mem[i] EXCEPT !.status = "cleanup_pending"].runs = mem[i].runs
        /\ [mem[i] EXCEPT !.graded = TRUE].runs = mem[i].runs
    BY <1>2 DEF Round
  <1>4. QED
    BY <1>1, <1>2, <1>3 DEF SameAccount

\* A command that ends and leaves the stored round, or one with the account of its copy.
LEMMA BudgetEnd ==
  ASSUME NEW i \in Invocations, NEW round, NEW s \in Slots, TypeOK, TypeOK', BudgetAt(i, s),
         Leaves(i, round), \A p \in Pids : proc'[p].slot = proc[p].slot, crashes' = crashes,
         \/ round = disk /\ pc[i] \notin {"launched", "relaunched"}
         \/ SameAccount(round, mem[i]) /\ Active(i)
  PROVE  BudgetAt(i, s)'
  <1>1. disk' = round /\ pc'[i] = "idle"
    BY DEF Leaves, OnlyMoves, TypeOK
  <1>2. disk'.runs[s] \in Run /\ mem'[i].runs[s] \in Run
    BY RoundEdits DEF TypeOK
  <1>3. Accounted(i, s, disk'.runs[s])
    BY <1>1 DEF Accounted, SameAccount, Finalized
  <1>4. QED
    BY <1>1, <1>2, <1>3, BudgetSame

LEMMA BudgetSave ==
  ASSUME NEW i \in Invocations, NEW to, NEW s \in Slots, TypeOK, TypeOK', BudgetAt(i, s),
         Saves(i, to), Active(i)
  PROVE  BudgetAt(i, s)'
  <1>1. /\ disk' = Compact(mem[i]) /\ mem'[i] = mem[i] /\ crashes' = crashes
        /\ \A p \in Pids : proc'[p].slot = proc[p].slot
    BY DEF Saves, OnlyMoves, TypeOK
  <1>2. disk'.runs[s] \in Run /\ mem'[i].runs[s] \in Run
    BY RoundEdits DEF TypeOK
  <1>3. Accounted(i, s, disk'.runs[s]) /\ Accounted(i, s, mem'[i].runs[s])
    BY <1>1, LeftAccounts DEF Accounted, SameAccount, Finalized
  <1>4. QED
    BY <1>1, <1>2, <1>3, BudgetSame

\* A command that replaces a run by one that accounts for as many starts.
LEMMA BudgetEdit ==
  ASSUME NEW i \in Invocations, NEW to, NEW s \in Slots, NEW t \in Slots, NEW run,
         TypeOK, TypeOK', BudgetAt(i, s), Edits(i, to, t, run), Active(i),
         pc[i] \notin {"launched", "relaunched"},
         disk' = disk \/ disk' = Compact(mem'[i]), crashes' = crashes,
         \A p \in Pids : proc'[p].slot = proc[p].slot,
         ~Finalized(run) => /\ ~Finalized(mem[i].runs[t])
                            /\ Starts(run) = Starts(mem[i].runs[t])
  PROVE  BudgetAt(i, s)'
  <1>1. mem'[i].runs[s] = IF s = t THEN run ELSE mem[i].runs[s]
    BY DEF Edits
  <1>2. disk'.runs[s] \in Run /\ mem'[i].runs[s] \in Run /\ mem'[i] \in Round
    BY RoundEdits DEF TypeOK
  <1>3. Accounted(i, s, mem'[i].runs[s])
    BY <1>1 DEF Accounted
  <1>4. Accounted(i, s, disk'.runs[s])
    <2>1. CASE disk' = disk
      BY <2>1 DEF Accounted
    <2>2. CASE disk' = Compact(mem'[i])
      <3>1. /\ disk'.runs[s].status = mem'[i].runs[s].status
            /\ Starts(disk'.runs[s]) = Starts(mem'[i].runs[s])
        BY <1>2, <2>2, Compacted DEF Starts
      <3>2. QED
        BY <1>3, <3>1 DEF Accounted, Finalized
    <2>3. QED
      BY <2>1, <2>2
  <1>5. QED
    BY <1>2, <1>3, <1>4, BudgetSame

\* Commands at work keep the budget while no lock is left behind.
LEMMA BudgetWork ==
  ASSUME NEW i \in Invocations, NEW s \in Slots, TypeOK, TypeOK', CommandsGood, ~lockLeft,
         BudgetAt(i, s), Work(i)
  PROVE  BudgetAt(i, s)'
  <1> USE DEF Active
  <1>1. /\ mem[i].runs[s] \in Run /\ disk.runs[s] \in Run /\ mem'[i].runs[s] \in Run
        /\ mem'[i] \in Round
    BY RoundEdits DEF TypeOK
  <1>2. ASSUME NEW t \in Slots, NEW p \in Pids, LaunchReviewer(i, t, p) PROVE BudgetAt(i, s)'
    <2>1. /\ StartsOne(i, p, t) /\ Edits(i, "launched", t, Started(mem[i].runs[t], p))
      BY <1>2, LaunchReviewerEffect
    <2>2. pc[i] = "launch" /\ ~Finalized(mem[i].runs[t]) /\ mem[i].runs[t].pid = 0
      BY <1>2 DEF LaunchReviewer
    <2>3. mem[i].runs[t] \in Run /\ ~mem[i].runs[t].cleanup
      BY <2>2, RoundEdits DEF TypeOK, CommandsGood, RunGood
    <2>4. Starts(Started(mem[i].runs[t], p)) = 1 + Starts(mem[i].runs[t])
      BY <2>2, <2>3, StartCounts
    <2>5. pc'[i] = "launched" /\ mem'[i].runs[s] = IF s = t THEN Started(mem[i].runs[t], p)
                                                  ELSE mem[i].runs[s]
      BY <2>1 DEF Edits
    <2>6. QED
      BY <1>1, <2>1, <2>2, <2>4, <2>5, BudgetMore
  <1>3. ASSUME NEW p \in Pids, Relaunch(i, p) PROVE BudgetAt(i, s)'
    <2> DEFINE t == arg[i]
    <2>1. t \in Slots /\ pc[i] = "relaunch" /\ ~Finalized(mem[i].runs[t])
          /\ ~mem[i].runs[t].cleanup
      BY <1>3 DEF Relaunch, CommandsGood, RetryGood
    <2>2. StartsOne(i, p, t) /\ Edits(i, "relaunched", t, Started(mem[i].runs[t], p))
      BY <1>3, <2>1, RelaunchEffect
    <2>3. mem[i].runs[t] \in Run
      BY <2>1, RoundEdits DEF TypeOK
    <2>4. mem[i].runs[t].pid = 0
      BY <1>3 DEF Relaunch, CommandsGood, RetryGood
    <2>5. Starts(Started(mem[i].runs[t], p)) = 1 + Starts(mem[i].runs[t])
      BY <2>1, <2>3, <2>4, StartCounts
    <2>6. pc'[i] = "relaunched" /\ mem'[i].runs[s] = IF s = t THEN Started(mem[i].runs[t], p)
                                                    ELSE mem[i].runs[s]
      BY <2>2 DEF Edits
    <2>7. QED
      BY <1>1, <2>1, <2>2, <2>5, <2>6, BudgetMore
  <1>4. ASSUME NEW t \in Slots, MarkRetry(i, t) PROVE BudgetAt(i, s)'
    <2>1. /\ Edits(i, "retry", t, MarkedForRetry(mem[i].runs[t]))
          /\ disk' = Compact(mem'[i]) /\ UNCHANGED <<proc, crashes>>
      BY <1>4, MarkRetryEffect
    <2>2. mem[i].runs[t] \in Run /\ RunGood(mem[i].runs[t]) /\ Collectable(mem[i].runs[t])
          /\ WantsRetry(mem[i].runs[t]) /\ pc[i] = "collect"
      BY <1>4, RoundEdits DEF TypeOK, CommandsGood, MarkRetry
    <2>3. /\ Starts(MarkedForRetry(mem[i].runs[t])) = Starts(mem[i].runs[t])
          /\ ~Finalized(mem[i].runs[t])
      <3>1. mem[i].runs[t].pid # 0 /\ ~Finalized(mem[i].runs[t])
        BY <2>2 DEF RunGood, Collectable
      <3>2. mem[i].runs[t].tries \in Nat /\ mem[i].runs[t].cleanup \in BOOLEAN
        BY <2>2, RoundAssumption DEF Run
      <3>3. QED
        BY <2>2, <3>1, <3>2, RunMarked DEF Starts
    <2>4. QED
      BY <2>1, <2>2, <2>3, BudgetEdit
  <1>5. ASSUME NEW t \in Slots, CollectRun(i, t) PROVE BudgetAt(i, s)'
    <2>1. /\ Edits(i, "collect", t, Captured(mem[i].runs[t]))
          /\ disk' = Compact(mem'[i]) /\ UNCHANGED <<proc, crashes>>
      BY <1>5, CollectRunEffect
    <2>2. Finalized(Captured(mem[i].runs[t])) /\ pc[i] = "collect"
      BY <1>5, RoundEdits, RunEdits DEF TypeOK, CollectRun
    <2>3. QED
      BY <2>1, <2>2, BudgetEdit
  <1>6. ASSUME NEW t \in Slots, StopReviewer(i, t) PROVE BudgetAt(i, s)'
    <2>1. PICK b \in BOOLEAN :
            /\ Edits(i, "collect", t, [mem[i].runs[t] EXCEPT !.stopped = b])
            /\ \A p \in Pids : proc'[p].slot = proc[p].slot
            /\ UNCHANGED <<disk, crashes>>
      BY <1>6, StopReviewerEffect
    <2>2. mem[i].runs[t] \in Run /\ pc[i] = "collect"
      BY <1>6, RoundEdits DEF TypeOK, StopReviewer
    <2> DEFINE run == [mem[i].runs[t] EXCEPT !.stopped = b]
    <2>3. Starts(run) = Starts(mem[i].runs[t]) /\ run.status = mem[i].runs[t].status
      BY <2>2 DEF Starts, Run
    <2> HIDE DEF run
    <2>4. QED
      BY <2>1, <2>2, <2>3, BudgetEdit DEF Finalized, run
  <1>7. CASE ClearForRetry(i)
    <2> DEFINE t == arg[i]
               run == [mem[i].runs[t] EXCEPT !.cleanup = FALSE, !.pid = 0, !.files = FALSE]
    <2>1. t \in Slots /\ ~Finalized(mem[i].runs[t]) /\ pc[i] = "retry"
      BY <1>7 DEF ClearForRetry, CommandsGood, RetryGood
    <2>2. /\ Edits(i, "relaunch", t, run) /\ SameProcesses /\ UNCHANGED <<disk, crashes>>
      BY <1>7, <2>1, ClearForRetryEffect
    <2>3. mem[i].runs[t] \in Run /\ mem[i].runs[t].cleanup
      BY <2>1, RoundEdits DEF TypeOK, CommandsGood, RetryGood
    <2>4. Starts(run) = Starts(mem[i].runs[t])
      BY <2>3 DEF Starts, Run
    <2> HIDE DEF run
    <2>5. QED
      BY <2>1, <2>2, <2>4, BudgetEdit DEF SameProcesses
  <1>8. CASE FinishCollect(i)
    <2>1. /\ Finalized(mem'[i].runs[s]) /\ SameProcesses /\ UNCHANGED <<disk, crashes>>
      BY <1>8, FinishCollectEffect
    <2>2. pc[i] = "collect"
      BY <1>8 DEF FinishCollect
    <2>3. QED
      BY <1>1, <2>1, <2>2, BudgetSame DEF Accounted, SameProcesses
  <1>9. CASE ApplyCooldowns(i) \/ AppendRecord(i) \/ Refresh(i)
    <2>1. mem'[i] = mem[i] /\ pc[i] \in {"cooldown", "append", "refresh"}
          /\ UNCHANGED <<disk, proc, crashes>>
      BY <1>9 DEF ApplyCooldowns, AppendRecord, Refresh
    <2>2. QED
      BY <1>1, <2>1, BudgetSame DEF Accounted
  <1>10. CASE LaunchSaved(i) \/ LaunchDone(i) \/ RelaunchSaved(i) \/ StoreCompleted(i)
               \/ GradePending(i)
    <2>1. PICK to \in {"launch", "collect", "result", "refresh"} : Saves(i, to)
      BY <1>10, SavesOf
    <2>2. pc[i] # "idle"
      BY <1>10 DEF LaunchSaved, LaunchDone, RelaunchSaved, StoreCompleted, GradePending
    <2>3. QED
      BY <2>1, <2>2, BudgetSave
  <1>11. CASE LaunchFails(i) \/ SweepLeaves(i) \/ LockTimesOut(i)
    <2>1. Leaves(i, disk) /\ UNCHANGED <<proc, crashes>>
      BY <1>11, EndQuiet DEF SameRest
    <2>2. pc[i] \notin {"launched", "relaunched"}
      BY <1>11 DEF LaunchFails, SweepLeaves, LockTimesOut
    <2>3. QED
      BY <2>1, <2>2, BudgetEnd
  <1>12. CASE CleanupFails(i) \/ WriteResult(i) \/ GradeDone(i)
    <2>1. PICK round \in {mem[i], Compact(mem[i]), Compact([mem[i] EXCEPT !.graded = TRUE])} :
            Leaves(i, round) /\ UNCHANGED <<proc, crashes>>
      BY <1>12, CleanupFailsEffect, WriteResultEffect, GradeDoneEffect DEF SameRest
    <2>2. pc[i] # "idle"
      BY <1>12 DEF CleanupFails, WriteResult, GradeDone
    <2>3. SameAccount(round, mem[i])
      BY LeftAccounts
    <2>4. QED
      BY <2>1, <2>2, <2>3, BudgetEnd
  <1>13. CASE WriteDismissed(i)
    <2>1. PICK round \in {Compact([mem[i] EXCEPT !.status = "dismissed"]),
                          [mem[i] EXCEPT !.status = "cleanup_pending"]} :
            Leaves(i, round) /\ SameProcesses /\ UNCHANGED crashes
      BY <1>13, WriteDismissedEffect
    <2>2. pc[i] # "idle"
      BY <1>13 DEF WriteDismissed, Dismissing
    <2>3. SameAccount(round, mem[i])
      BY LeftAccounts
    <2>4. QED
      BY <2>1, <2>2, <2>3, BudgetEnd DEF SameProcesses
  <1>14. QED
    BY <1>2, <1>3, <1>4, <1>5, <1>6, <1>7, <1>8, <1>9, <1>10, <1>11, <1>12, <1>13
    DEF Work

\* A command that dies pays for the start it may not have stored.
LEMMA BudgetCrash ==
  ASSUME NEW i \in Invocations, NEW s \in Slots, TypeOK, BudgetAt(i, s), Crash(i)
  PROVE  BudgetAt(i, s)'
  <1>1. /\ disk' = disk /\ pc'[i] = "idle" /\ crashes' = crashes + 1 /\ UNCHANGED proc
    BY CrashEffect DEF Leaves, OnlyMoves, TypeOK
  <1>2. Cardinality(ProcsOf(s))' = Cardinality(ProcsOf(s))
        /\ Cardinality(ProcsOf(s)) \in Nat /\ crashes \in Nat
    BY <1>1, SameCounts, CountsTyped
  <1>3. disk.runs[s] \in Run /\ Starts(disk.runs[s]) \in Nat
    BY RoundEdits, StartsTyped DEF TypeOK
  <1>4. QED
    BY <1>1, <1>2, <1>3, RoundAssumption DEF BudgetAt, NoMoreThan, Active, Finalized, Starts

LEMMA BudgetCommand ==
  ASSUME NEW i \in Invocations, NEW s \in Slots, TypeOK, TypeOK', BudgetAt(i, s), Command(i)
  PROVE  BudgetAt(i, s)'
  <1>1. /\ pc[i] = "idle" /\ mem'[i] = disk /\ UNCHANGED <<disk, proc, crashes>>
    BY CommandEffect DEF OnlyMoves, TypeOK
  <1>2. disk'.runs[s] \in Run /\ mem'[i].runs[s] \in Run
    BY RoundEdits DEF TypeOK
  <1>3. QED
    BY <1>1, <1>2, BudgetSame DEF Accounted

-----------------------------------------------------------------------------
(* The reviews that are stored                                              *)

\* the copy of command i has the stored review of slot s
HasReview(i, s) ==
    Active(i) /\ disk.runs[s].status = "review" => mem[i].runs[s].status = "review"

ReviewStays(s) == disk.runs[s].status = "review" => disk'.runs[s].status = "review"

\* A command that ends with the stored round or with its copy takes no review back.
LEMMA ReviewsEnd ==
  ASSUME NEW i \in Invocations, NEW round, NEW s \in Slots, TypeOK, HasReview(i, s),
         Leaves(i, round), round = disk \/ (SameAccount(round, mem[i]) /\ Active(i))
  PROVE  HasReview(i, s)' /\ ReviewStays(s)
  BY DEF HasReview, Leaves, OnlyMoves, TypeOK, SameAccount, Active, ReviewStays

\* Neither does one that edits a run that has no result, or keeps its status.
LEMMA ReviewsEdit ==
  ASSUME NEW i \in Invocations, NEW to, NEW s \in Slots, NEW t \in Slots, NEW run,
         TypeOK', HasReview(i, s), Active(i), Edits(i, to, t, run),
         disk' = disk \/ disk' = Compact(mem'[i]),
         mem[i].runs[t].status = "review" => run.status = "review"
  PROVE  HasReview(i, s)' /\ ReviewStays(s)
  <1>1. disk.runs[s].status = "review" => mem'[i].runs[s].status = "review"
    BY DEF HasReview, Edits
  <1>2. Compact(mem'[i]).runs[s].status = mem'[i].runs[s].status
    BY Compacted DEF TypeOK
  <1>3. ReviewStays(s)
    BY <1>1, <1>2 DEF ReviewStays
  <1>4. disk'.runs[s].status = "review" => mem'[i].runs[s].status = "review"
    BY <1>1, <1>2
  <1>5. QED
    BY <1>3, <1>4 DEF HasReview

LEMMA ReviewsWork ==
  ASSUME NEW i \in Invocations, NEW s \in Slots, TypeOK, TypeOK', CommandsGood, HasReview(i, s),
         Work(i)
  PROVE  HasReview(i, s)' /\ ReviewStays(s)
  <1> USE DEF Active
  <1>1. ASSUME NEW t \in Slots, NEW p \in Pids, LaunchReviewer(i, t, p)
        PROVE  HasReview(i, s)' /\ ReviewStays(s)
    <2>1. /\ Edits(i, "launched", t, Started(mem[i].runs[t], p)) /\ disk' = disk
          /\ pc[i] # "idle"
      BY <1>1, LaunchReviewerEffect DEF StartsOne, LaunchReviewer
    <2>2. Started(mem[i].runs[t], p).status = mem[i].runs[t].status
      BY RoundEdits, RunEdits DEF TypeOK
    <2>3. QED
      BY <2>1, <2>2, ReviewsEdit
  <1>2. ASSUME NEW p \in Pids, Relaunch(i, p) PROVE HasReview(i, s)' /\ ReviewStays(s)
    <2>1. arg[i] \in Slots /\ pc[i] # "idle"
      BY <1>2 DEF Relaunch, CommandsGood, RetryGood
    <2>2. Edits(i, "relaunched", arg[i], Started(mem[i].runs[arg[i]], p)) /\ disk' = disk
      BY <1>2, <2>1, RelaunchEffect DEF StartsOne
    <2>3. Started(mem[i].runs[arg[i]], p).status = mem[i].runs[arg[i]].status
      BY <2>1, RoundEdits, RunEdits DEF TypeOK
    <2>4. QED
      BY <2>1, <2>2, <2>3, ReviewsEdit
  <1>3. ASSUME NEW t \in Slots, MarkRetry(i, t) PROVE HasReview(i, s)' /\ ReviewStays(s)
    <2>1. /\ Edits(i, "retry", t, MarkedForRetry(mem[i].runs[t]))
          /\ disk' = Compact(mem'[i]) /\ pc[i] # "idle"
      BY <1>3, MarkRetryEffect DEF MarkRetry
    <2>2. MarkedForRetry(mem[i].runs[t]).status = mem[i].runs[t].status
      BY <1>3, RoundEdits, RunMarked DEF TypeOK, MarkRetry
    <2>3. QED
      BY <2>1, <2>2, ReviewsEdit
  <1>4. ASSUME NEW t \in Slots, CollectRun(i, t) PROVE HasReview(i, s)' /\ ReviewStays(s)
    <2>1. /\ Edits(i, "collect", t, Captured(mem[i].runs[t]))
          /\ disk' = Compact(mem'[i]) /\ pc[i] # "idle"
      BY <1>4, CollectRunEffect DEF CollectRun
    <2>2. mem[i].runs[t].status = "none"
      BY <1>4 DEF CollectRun, Collectable, Finalized
    <2>3. QED
      BY <2>1, <2>2, ReviewsEdit
  <1>5. ASSUME NEW t \in Slots, StopReviewer(i, t) PROVE HasReview(i, s)' /\ ReviewStays(s)
    <2>1. PICK b \in BOOLEAN :
            /\ Edits(i, "collect", t, [mem[i].runs[t] EXCEPT !.stopped = b]) /\ disk' = disk
      BY <1>5, StopReviewerEffect
    <2>2. mem[i].runs[t] \in Run /\ pc[i] # "idle"
      BY <1>5, RoundEdits DEF TypeOK, StopReviewer
    <2> DEFINE run == [mem[i].runs[t] EXCEPT !.stopped = b]
    <2>3. run.status = mem[i].runs[t].status
      BY <2>2 DEF Run
    <2> HIDE DEF run
    <2>4. QED
      BY <2>1, <2>2, <2>3, ReviewsEdit DEF run
  <1>6. CASE ClearForRetry(i)
    <2> DEFINE t == arg[i]
               run == [mem[i].runs[t] EXCEPT !.cleanup = FALSE, !.pid = 0, !.files = FALSE]
    <2>1. t \in Slots /\ pc[i] # "idle"
      BY <1>6 DEF ClearForRetry, CommandsGood, RetryGood
    <2>2. Edits(i, "relaunch", t, run) /\ disk' = disk
      BY <1>6, <2>1, ClearForRetryEffect
    <2>3. mem[i].runs[t] \in Run
      BY <2>1, RoundEdits DEF TypeOK
    <2>4. run.status = mem[i].runs[t].status
      BY <2>3 DEF Run
    <2> HIDE DEF run
    <2>5. QED
      BY <2>1, <2>2, <2>4, ReviewsEdit
  <1>7. CASE FinishCollect(i)
    <2>1. /\ disk' = disk
          /\ Finalized(mem[i].runs[s]) => mem'[i].runs[s].status = mem[i].runs[s].status
      BY <1>7, FinishCollectEffect
    <2>2. pc[i] # "idle"
      BY <1>7 DEF FinishCollect
    <2>3. QED
      BY <2>1, <2>2 DEF HasReview, ReviewStays, Finalized
  <1>8. CASE ApplyCooldowns(i) \/ AppendRecord(i) \/ Refresh(i)
    <2>1. mem'[i] = mem[i] /\ pc[i] # "idle" /\ disk' = disk
      BY <1>8 DEF ApplyCooldowns, AppendRecord, Refresh
    <2>2. QED
      BY <2>1 DEF HasReview, ReviewStays
  <1>9. CASE LaunchSaved(i) \/ LaunchDone(i) \/ RelaunchSaved(i) \/ StoreCompleted(i)
               \/ GradePending(i)
    <2>1. PICK to \in {"launch", "collect", "result", "refresh"} : Saves(i, to)
      BY <1>9, SavesOf
    <2>2. pc[i] # "idle"
      BY <1>9 DEF LaunchSaved, LaunchDone, RelaunchSaved, StoreCompleted, GradePending
    <2>3. disk' = Compact(mem[i]) /\ mem'[i] = mem[i]
          /\ Compact(mem[i]).runs[s].status = mem[i].runs[s].status
      BY <2>1, Compacted DEF Saves, OnlyMoves, TypeOK
    <2>4. QED
      BY <2>2, <2>3 DEF HasReview, ReviewStays
  <1>10. CASE LaunchFails(i) \/ SweepLeaves(i) \/ LockTimesOut(i)
    BY <1>10, EndQuiet, ReviewsEnd
  <1>11. CASE CleanupFails(i) \/ WriteResult(i) \/ GradeDone(i)
    <2>1. PICK round \in {mem[i], Compact(mem[i]), Compact([mem[i] EXCEPT !.graded = TRUE])} :
            Leaves(i, round)
      BY <1>11, CleanupFailsEffect, WriteResultEffect, GradeDoneEffect
    <2>2. pc[i] # "idle"
      BY <1>11 DEF CleanupFails, WriteResult, GradeDone
    <2>3. SameAccount(round, mem[i])
      BY LeftAccounts
    <2>4. QED
      BY <2>1, <2>2, <2>3, ReviewsEnd
  <1>12. CASE WriteDismissed(i)
    <2>1. PICK round \in {Compact([mem[i] EXCEPT !.status = "dismissed"]),
                          [mem[i] EXCEPT !.status = "cleanup_pending"]} : Leaves(i, round)
      BY <1>12, WriteDismissedEffect
    <2>2. pc[i] # "idle"
      BY <1>12 DEF WriteDismissed, Dismissing
    <2>3. SameAccount(round, mem[i])
      BY LeftAccounts
    <2>4. QED
      BY <2>1, <2>2, <2>3, ReviewsEnd
  <1>13. QED
    BY <1>1, <1>2, <1>3, <1>4, <1>5, <1>6, <1>7, <1>8, <1>9, <1>10, <1>11, <1>12
    DEF Work

LEMMA ReviewsCrash ==
  ASSUME NEW i \in Invocations, NEW s \in Slots, TypeOK, HasReview(i, s),
         Crash(i) \/ CrashInLock(i)
  PROVE  HasReview(i, s)' /\ ReviewStays(s)
  <1>1. Leaves(i, disk) \/ (Leaves(i, [mem[i] EXCEPT !.status = "cleanup_pending"])
                            /\ Dismissing(i))
    BY CrashEffect, CrashInLockEffect
  <1>2. Dismissing(i) => Active(i)
    BY DEF Dismissing, Active
  <1>3. SameAccount([mem[i] EXCEPT !.status = "cleanup_pending"], mem[i])
    BY LeftAccounts
  <1>4. QED
    BY <1>1, <1>2, <1>3, ReviewsEnd

LEMMA ReviewsCommand ==
  ASSUME NEW i \in Invocations, NEW s \in Slots, TypeOK, Command(i)
  PROVE  HasReview(i, s)' /\ ReviewStays(s)
  <1>1. mem'[i] = disk /\ disk' = disk
    BY CommandEffect DEF OnlyMoves, TypeOK
  <1>2. QED
    BY <1>1 DEF HasReview, ReviewStays

-----------------------------------------------------------------------------
(* Every step                                                               *)

\* A command that does something is in progress, or begins.
LEMMA WorkActive ==
  ASSUME NEW i \in Invocations, TypeOK, Work(i)
  PROVE  pc[i] # "idle"
  <1>1. CASE FinishCollect(i)
    BY <1>1 DEF FinishCollect
  <1>2. CASE ClearForRetry(i) \/ \E p \in Pids : Relaunch(i, p)
    BY <1>2 DEF ClearForRetry, Relaunch
  <1>3. CASE \E s \in Slots : MarkRetry(i, s) \/ CollectRun(i, s) \/ StopReviewer(i, s)
    BY <1>3 DEF MarkRetry, CollectRun, StopReviewer
  <1>4. CASE \E s \in Slots, p \in Pids : LaunchReviewer(i, s, p)
    BY <1>4 DEF LaunchReviewer
  <1>5. CASE LaunchSaved(i) \/ LaunchDone(i) \/ LaunchFails(i) \/ RelaunchSaved(i)
             \/ CleanupFails(i)
    BY <1>5 DEF LaunchSaved, LaunchDone, LaunchFails, RelaunchSaved, CleanupFails
  <1>6. CASE ApplyCooldowns(i) \/ StoreCompleted(i) \/ WriteResult(i) \/ WriteDismissed(i)
             \/ SweepLeaves(i)
    BY <1>6 DEF ApplyCooldowns, StoreCompleted, WriteResult, WriteDismissed, SweepLeaves,
                Dismissing
  <1>7. CASE AppendRecord(i) \/ GradePending(i) \/ Refresh(i) \/ GradeDone(i)
             \/ LockTimesOut(i)
    BY <1>7 DEF AppendRecord, GradePending, Refresh, GradeDone, LockTimesOut, AtWrite,
                Dismissing
  <1>8. QED
    BY <1>1, <1>2, <1>3, <1>4, <1>5, <1>6, <1>7 DEF Work

\* Working commands keep the types, the lock as it is, and die of nothing.
LEMMA WorkTyped ==
  ASSUME NEW i \in Invocations, TypeOK, CommandsGood, Work(i)
  PROVE  TypeOK' /\ UNCHANGED <<lockLeft, crashes, callers>>
  <1> DEFINE Kept == UNCHANGED <<lockLeft, crashes, callers>>
  <1>1. ASSUME NEW s \in Slots, NEW p \in Pids, LaunchReviewer(i, s, p) PROVE TypeOK' /\ Kept
    BY <1>1, LaunchReviewerEffect DEF StartsOne, Edits, OnlyMoves
  <1>2. ASSUME NEW p \in Pids, Relaunch(i, p) PROVE TypeOK' /\ Kept
    <2>1. arg[i] \in Slots
      BY <1>2 DEF Relaunch, CommandsGood, RetryGood
    <2>2. QED
      BY <1>2, <2>1, RelaunchEffect DEF StartsOne, Edits, OnlyMoves
  <1>3. ASSUME NEW s \in Slots, MarkRetry(i, s) PROVE TypeOK' /\ Kept
    BY <1>3, MarkRetryEffect DEF Edits, OnlyMoves
  <1>4. ASSUME NEW s \in Slots, CollectRun(i, s) PROVE TypeOK' /\ Kept
    BY <1>4, CollectRunEffect DEF Edits, OnlyMoves
  <1>5. ASSUME NEW s \in Slots, StopReviewer(i, s) PROVE TypeOK' /\ Kept
    BY <1>5, StopReviewerEffect DEF Edits, OnlyMoves
  <1>6. CASE ClearForRetry(i)
    <2>1. arg[i] \in Slots
      BY <1>6 DEF ClearForRetry, CommandsGood, RetryGood
    <2>2. QED
      BY <1>6, <2>1, ClearForRetryEffect DEF Edits, OnlyMoves
  <1>7. CASE FinishCollect(i)
    BY <1>7, FinishCollectEffect DEF OnlyMoves
  <1>8. CASE ApplyCooldowns(i) \/ Refresh(i)
    BY <1>8, ApplyCooldownsEffect, RefreshEffect DEF OnlyMoves
  <1>9. CASE AppendRecord(i)
    <2>1. arg[i] \in Ranks
      BY <1>9 DEF AppendRecord, CommandsGood, RetryGood
    <2>2. QED
      BY <1>9, <2>1, AppendRecordEffect DEF OnlyMoves
  <1>10. CASE LaunchSaved(i) \/ LaunchDone(i) \/ RelaunchSaved(i) \/ StoreCompleted(i)
               \/ GradePending(i)
    BY <1>10, SavesOf DEF Saves, OnlyMoves
  <1>11. CASE LaunchFails(i) \/ SweepLeaves(i) \/ LockTimesOut(i)
    BY <1>11, EndQuiet DEF Leaves, OnlyMoves, SameRest
  <1>12. CASE CleanupFails(i) \/ WriteResult(i) \/ GradeDone(i)
    BY <1>12, CleanupFailsEffect, WriteResultEffect, GradeDoneEffect
    DEF Leaves, OnlyMoves, SameRest
  <1>13. CASE WriteDismissed(i)
    BY <1>13, WriteDismissedEffect DEF Leaves, OnlyMoves
  <1>14. QED
    BY <1>1, <1>2, <1>3, <1>4, <1>5, <1>6, <1>7, <1>8, <1>9, <1>10, <1>11, <1>12, <1>13
    DEF Work

\* what command i may do next
Acts(i) == Command(i) \/ Work(i) \/ Crash(i) \/ CrashInLock(i)

LEMMA ActsTyped ==
  ASSUME NEW i \in Invocations, TypeOK, CommandsGood, Acts(i)
  PROVE  /\ TypeOK' /\ CommandsGood' /\ i \in callers /\ callers' = callers
         /\ ~lockLeft' => ~lockLeft
         /\ crashes' = 0 => crashes = 0 /\ (Command(i) \/ Work(i))
  <1>1. CASE Command(i)
    BY <1>1, CommandEffect, CommandGood DEF OnlyMoves
  <1>2. CASE Work(i)
    BY <1>2, WorkTyped, WorkGood, WorkActive DEF CommandsGood, Active
  <1>3. CASE Crash(i)
    <2>1. /\ TypeOK' /\ Leaves(i, disk) /\ UNCHANGED lockLeft /\ crashes' = crashes + 1
      BY <1>3, CrashEffect
    <2>2. i \in callers /\ crashes \in Nat
      BY <1>3, CrashesCounted DEF Crash, CommandsGood, Active
    <2>3. QED
      BY <1>3, <2>1, <2>2, CrashGood DEF Leaves, OnlyMoves
  <1>4. CASE CrashInLock(i)
    <2>1. /\ TypeOK' /\ lockLeft' = TRUE /\ crashes' = crashes + 1 /\ callers' = callers
      BY <1>4, CrashInLockEffect DEF Leaves, OnlyMoves
    <2>2. pc[i] # "idle" /\ crashes \in Nat
      BY <1>4, CrashesCounted DEF CrashInLock, AtWrite, Dismissing
    <2>3. QED
      BY <1>4, <2>1, <2>2, CrashGood DEF CommandsGood, Active
  <1>5. QED
    BY <1>1, <1>2, <1>3, <1>4 DEF Acts

\* BudgetGood after a step, for its only command.
LEMMA BudgetIsAtNext ==
  ASSUME NEW i \in Invocations, callers' = {i}, \A s \in Slots : BudgetAt(i, s)'
  PROVE  BudgetGood'
  BY DEF BudgetGood, BudgetAt, Unsaved

LEMMA BudgetActs ==
  ASSUME NEW i \in Invocations, TypeOK, CommandsGood, BudgetGood, Acts(i)
  PROVE  BudgetGood'
  <1>1. /\ TypeOK' /\ i \in callers /\ callers' = callers /\ (~lockLeft' => ~lockLeft)
    BY ActsTyped
  <1>2. CASE ~Alone' \/ lockLeft'
    BY <1>2 DEF BudgetGood
  <1>3. CASE Alone' /\ ~lockLeft'
    <2>1. Alone
      BY <1>1, <1>3 DEF Alone
    <2>2. callers = {i}
      BY <1>1, <2>1, AloneIsOne
    <2>3. ASSUME NEW s \in Slots PROVE BudgetAt(i, s)'
      <3>1. BudgetAt(i, s)
        BY <1>1, <1>3, <2>2, BudgetIsAt
      <3>2. ~CrashInLock(i)
        BY <1>3, CrashInLockEffect
      <3>3. QED
        BY <1>1, <1>3, <3>1, <3>2, BudgetCommand, BudgetWork, BudgetCrash DEF Acts
    <2>4. QED
      BY <1>1, <2>2, <2>3, BudgetIsAtNext
  <1>4. QED
    BY <1>2, <1>3

\* Time, and reviewers that end, start nobody.
LEMMA BudgetOutside ==
  ASSUME TypeOK, BudgetGood, Outside
  PROVE  BudgetGood'
  <1>1. \A s \in Slots : Cardinality(ProcsOf(s))' = Cardinality(ProcsOf(s))
    BY SameCounts DEF Outside
  <1>2. \A s \in Slots : \A n, m : NoMoreThan(s, n) /\ n = m => Cardinality(ProcsOf(s))' <= m
    BY <1>1 DEF NoMoreThan
  <1>3. UNCHANGED <<disk, mem, pc, lockLeft, crashes, callers>>
    BY DEF Outside
  <1>4. QED
    BY <1>1, <1>3 DEF BudgetGood, NoMoreThan, Alone, Unsaved, Starts, Finalized, Active

-----------------------------------------------------------------------------
(* The failures of a completed round                                        *)

\* what CooldownGood says when i is the only command and none has died
CooldownAt(i) ==
    /\ disk.status = "completed" => failures = Counted(disk)
    /\ Open(disk) /\ pc[i] # "store" => failures = 1
    /\ StageGood(i)

LEMMA CooldownIsAt ==
  ASSUME NEW i, callers = {i}, crashes = 0, CooldownGood, Alone
  PROVE  CooldownAt(i)
  BY DEF CooldownGood, CooldownAt

LEMMA CooldownIsAtNext ==
  ASSUME NEW i, callers' = {i}, CooldownAt(i)'
  PROVE  CooldownGood'
  BY DEF CooldownGood, CooldownAt

\* The failures are those of the verdicts.
LEMMA SameCounted ==
  ASSUME NEW a, NEW b, SameVerdicts(a, b)
  PROVE  Counted(a) = Counted(b)
  <1>1. CoolingRuns(a) = CoolingRuns(b)
    BY DEF CoolingRuns, Cools, SameVerdicts
  <1>2. (\E s \in Slots : a.runs[s].status = "review")
           <=> (\E s \in Slots : b.runs[s].status = "review")
    BY DEF SameVerdicts
  <1>3. QED
    BY <1>1, <1>2 DEF Counted

\* A command that ends and leaves the round as it is, as its copy, or out of collection.
LEMMA CooldownEnd ==
  ASSUME NEW i \in Invocations, NEW round, TypeOK, CooldownAt(i), Leaves(i, round),
         \/ round = disk /\ pc[i] # "store"
         \/ ~Open(round) /\ round.status # "completed"
         \/ Open(round) /\ Open(disk) /\ pc[i] # "store"
         \/ round.status = "completed" /\ disk.status = "completed" /\ SameVerdicts(round, disk)
  PROVE  CooldownAt(i)'
  <1>1. pc'[i] = "idle" /\ failures' = failures /\ disk' = round
    BY DEF Leaves, OnlyMoves, TypeOK
  <1>2. SameVerdicts(round, disk) => Counted(round) = Counted(disk)
    BY SameCounted
  <1>3. Counted(disk)' = Counted(round)
    BY <1>1 DEF Counted, CoolingRuns, Cools
  <1>4. StageGood(i)'
    BY <1>1 DEF StageGood
  <1>5. QED
    BY <1>1, <1>2, <1>3, <1>4 DEF CooldownAt, Open

\* A command that goes on collecting an open round.
LEMMA CooldownOpen ==
  ASSUME NEW i \in Invocations, TypeOK, CooldownAt(i), Open(disk), pc[i] # "store",
         pc'[i] \in {"launch", "launched", "collect", "retry", "relaunch", "relaunched"},
         Open(mem'[i]), Open(disk'), failures' = failures
  PROVE  CooldownAt(i)'
  BY DEF CooldownAt, StageGood, Open

\* A command that edits the run of one slot of an open round.
LEMMA CooldownEdit ==
  ASSUME NEW i \in Invocations, NEW to, NEW s \in Slots, NEW run, TypeOK, TypeOK',
         CooldownAt(i), Edits(i, to, s, run),
         pc[i] \in {"launch", "launched", "collect", "retry", "relaunch", "relaunched"},
         to \in {"launch", "launched", "collect", "retry", "relaunch", "relaunched"},
         mem'[i].status \in {mem[i].status, "running"},
         disk' = disk \/ disk' = Compact(mem'[i]), failures' = failures
  PROVE  CooldownAt(i)'
  <1>1. Open(mem[i]) /\ Open(disk)
    BY DEF CooldownAt, StageGood
  <1>2. Open(mem'[i])
    BY <1>1 DEF Open
  <1>3. Compact(mem'[i]).status = mem'[i].status
    BY Compacted DEF TypeOK
  <1>4. Open(disk')
    BY <1>1, <1>2, <1>3 DEF Open
  <1>5. QED
    BY <1>1, <1>2, <1>4, CooldownOpen DEF Edits

\* A command that goes on with the copy it has written, or read, of a completed round.
LEMMA CooldownCompleted ==
  ASSUME NEW i \in Invocations, CooldownAt(i),
         mem'[i].status = "completed", disk'.status = "completed",
         SameVerdicts(mem'[i], disk'), failures = Counted(disk'), failures' = failures,
         pc'[i] \in {"result", "append", "mark", "refresh", "graded"}
  PROVE  CooldownAt(i)'
  <1>1. Counted(disk)' = Counted(disk')
    BY DEF Counted, CoolingRuns, Cools
  <1>2. SameVerdicts(mem[i], disk)'
    BY DEF SameVerdicts
  <1>3. QED
    BY <1>1, <1>2 DEF CooldownAt, StageGood, Open

LEMMA CooldownCommand ==
  ASSUME NEW i \in Invocations, TypeOK, CooldownAt(i), Command(i)
  PROVE  CooldownAt(i)'
  <1>1. /\ mem'[i] = disk /\ disk' = disk /\ failures' = failures /\ pc[i] = "idle"
    BY CommandEffect DEF OnlyMoves, TypeOK
  <1>2. CASE RunRound(i)
    <2>1. pc'[i] = "launch" /\ Open(disk)
      BY <1>2 DEF RunRound, Begin, TypeOK, Open
    <2>2. QED
      BY <1>1, <2>1, CooldownOpen
  <1>3. CASE Resume(i)
    <2>1. \/ pc'[i] = "collect" /\ Open(disk)
          \/ pc'[i] = "result" /\ disk.status = "completed"
      BY <1>3 DEF Resume, Begin, TypeOK, Open
    <2>2. SameVerdicts(disk, disk)
      BY DEF SameVerdicts
    <2>3. disk.status = "completed" => failures = Counted(disk)
      BY DEF CooldownAt
    <2>4. QED
      BY <1>1, <2>1, <2>2, <2>3, CooldownOpen, CooldownCompleted
  <1>4. CASE DismissRound(i) \/ Sweep(i)
    <2>1. pc'[i] \in {"dismiss", "sweep"}
      BY <1>4 DEF DismissRound, Sweep, Begin, TypeOK
    <2>2. Counted(disk)' = Counted(disk)
      BY <1>1 DEF Counted, CoolingRuns, Cools
    <2>3. StageGood(i)'
      BY <2>1 DEF StageGood
    <2>4. QED
      BY <1>1, <2>1, <2>2, <2>3 DEF CooldownAt, Open
  <1>5. ASSUME NEW r \in Ranks, Grade(i, r) PROVE CooldownAt(i)'
    <2>1. pc'[i] = "append" /\ disk.status = "completed"
      BY <1>5 DEF Grade, Begin, TypeOK, Gradable
    <2>2. SameVerdicts(disk, disk) /\ failures = Counted(disk)
      BY <2>1 DEF SameVerdicts, CooldownAt
    <2>3. QED
      BY <1>1, <2>1, <2>2, CooldownCompleted
  <1>6. QED
    BY <1>2, <1>3, <1>4, <1>5 DEF Command

\* Compacting and grading keep the verdicts and the status; dismissing closes the round.
LEMMA LeftVerdicts ==
  ASSUME NEW i \in Invocations, TypeOK
  PROVE  /\ SameVerdicts(Compact(mem[i]), mem[i]) /\ Compact(mem[i]).status = mem[i].status
         /\ SameVerdicts(mem[i], Compact(mem[i]))
         /\ LET round == Compact([mem[i] EXCEPT !.graded = TRUE]) IN
              SameVerdicts(round, mem[i]) /\ round.status = mem[i].status
         /\ Compact([mem[i] EXCEPT !.status = "dismissed"]).status = "dismissed"
         /\ [mem[i] EXCEPT !.status = "cleanup_pending"].status = "cleanup_pending"
  <1>1. ASSUME NEW round \in Round
        PROVE  /\ SameVerdicts(Compact(round), round) /\ SameVerdicts(round, Compact(round))
               /\ Compact(round).status = round.status
    BY Compacted DEF SameVerdicts
  <1>2. mem[i] \in Round
    BY DEF TypeOK
  <1>3. LET round == [mem[i] EXCEPT !.graded = TRUE] IN
          round \in Round /\ round.runs = mem[i].runs /\ round.status = mem[i].status
    BY <1>2 DEF Round
  <1>4. /\ [mem[i] EXCEPT !.status = "dismissed"] \in Round
        /\ [mem[i] EXCEPT !.status = "dismissed"].status = "dismissed"
        /\ [mem[i] EXCEPT !.status = "cleanup_pending"].status = "cleanup_pending"
    BY <1>2 DEF Round
  <1>5. QED
    BY <1>1, <1>2, <1>3, <1>4 DEF SameVerdicts

LEMMA CooldownWork ==
  ASSUME NEW i \in Invocations, TypeOK, TypeOK', CommandsGood, ~lockLeft, CooldownAt(i), Work(i)
  PROVE  CooldownAt(i)'
  <1>1. ASSUME NEW s \in Slots, NEW p \in Pids, LaunchReviewer(i, s, p) PROVE CooldownAt(i)'
    <2>1. /\ Edits(i, "launched", s, Started(mem[i].runs[s], p)) /\ mem'[i].status = "running"
          /\ disk' = disk /\ failures' = failures /\ pc[i] = "launch"
      BY <1>1, LaunchReviewerEffect DEF StartsOne, LaunchReviewer
    <2>2. QED
      BY <2>1, CooldownEdit
  <1>2. ASSUME NEW p \in Pids, Relaunch(i, p) PROVE CooldownAt(i)'
    <2>1. arg[i] \in Slots /\ pc[i] = "relaunch"
      BY <1>2 DEF Relaunch, CommandsGood, RetryGood
    <2>2. /\ Edits(i, "relaunched", arg[i], Started(mem[i].runs[arg[i]], p))
          /\ mem'[i].status = mem[i].status /\ disk' = disk /\ failures' = failures
      BY <1>2, <2>1, RelaunchEffect DEF StartsOne
    <2>3. QED
      BY <2>1, <2>2, CooldownEdit
  <1>3. ASSUME NEW s \in Slots, MarkRetry(i, s) PROVE CooldownAt(i)'
    <2>1. /\ Edits(i, "retry", s, MarkedForRetry(mem[i].runs[s]))
          /\ mem'[i].status = mem[i].status /\ disk' = Compact(mem'[i]) /\ failures' = failures
          /\ pc[i] = "collect"
      BY <1>3, MarkRetryEffect DEF MarkRetry
    <2>2. QED
      BY <2>1, CooldownEdit
  <1>4. ASSUME NEW s \in Slots, CollectRun(i, s) PROVE CooldownAt(i)'
    <2>1. /\ Edits(i, "collect", s, Captured(mem[i].runs[s]))
          /\ mem'[i].status = mem[i].status /\ disk' = Compact(mem'[i]) /\ failures' = failures
          /\ pc[i] = "collect"
      BY <1>4, CollectRunEffect DEF CollectRun
    <2>2. QED
      BY <2>1, CooldownEdit
  <1>5. ASSUME NEW s \in Slots, StopReviewer(i, s) PROVE CooldownAt(i)'
    <2>1. PICK b \in BOOLEAN :
            /\ Edits(i, "collect", s, [mem[i].runs[s] EXCEPT !.stopped = b])
            /\ mem'[i].status = mem[i].status /\ disk' = disk /\ failures' = failures
      BY <1>5, StopReviewerEffect
    <2>2. pc[i] = "collect"
      BY <1>5 DEF StopReviewer
    <2>3. QED
      BY <2>1, <2>2, CooldownEdit
  <1>6. CASE ClearForRetry(i)
    <2>1. arg[i] \in Slots /\ pc[i] = "retry"
      BY <1>6 DEF ClearForRetry, CommandsGood, RetryGood
    <2>2. /\ Edits(i, "relaunch", arg[i], [mem[i].runs[arg[i]] EXCEPT
                        !.cleanup = FALSE, !.pid = 0, !.files = FALSE])
          /\ mem'[i].status = mem[i].status /\ disk' = disk /\ failures' = failures
      BY <1>6, <2>1, ClearForRetryEffect
    <2>3. QED
      BY <2>1, <2>2, CooldownEdit
  <1>7. CASE FinishCollect(i)
    <2>1. pc[i] = "collect"
      BY <1>7 DEF FinishCollect
    <2>2. /\ pc'[i] = "cooldown" /\ mem'[i].status = "completed"
          /\ disk' = disk /\ failures' = failures
      BY <1>7, FinishCollectEffect
    <2>3. QED
      BY <2>1, <2>2 DEF CooldownAt, StageGood, Open
  <1>8. CASE ApplyCooldowns(i)
    <2>1. /\ pc'[i] = "store" /\ mem'[i] = mem[i] /\ disk' = disk /\ pc[i] = "cooldown"
          /\ failures = 1 => failures' = Counted(mem[i])
      BY <1>8, ApplyCooldownsEffect DEF ApplyCooldowns
    <2>2. failures = 1 /\ mem[i].status = "completed" /\ Open(disk)
      BY <2>1 DEF CooldownAt, StageGood
    <2>3. Counted(mem[i])' = Counted(mem[i])
      BY <2>1 DEF Counted, CoolingRuns, Cools
    <2>4. QED
      BY <2>1, <2>2, <2>3 DEF CooldownAt, StageGood, Open
  <1>9. CASE StoreCompleted(i) \/ GradePending(i)
    <2>1. PICK to \in {"result", "refresh"} : Saves(i, to)
      BY <1>9, SavesOf
    <2>2. /\ disk' = Compact(mem[i]) /\ mem'[i] = mem[i] /\ failures' = failures /\ pc'[i] = to
          /\ pc[i] \in {"store", "mark"}
      BY <1>9, <2>1 DEF Saves, OnlyMoves, TypeOK, StoreCompleted, GradePending
    <2>3. mem[i].status = "completed" /\ failures = Counted(mem[i])
      <3>1. CASE pc[i] = "store"
        BY <3>1 DEF CooldownAt, StageGood
      <3>2. CASE pc[i] = "mark"
        BY <3>2, SameCounted DEF CooldownAt, StageGood
      <3>3. QED
        BY <2>2, <3>1, <3>2
    <2>4. SameVerdicts(mem[i], Compact(mem[i])) /\ Compact(mem[i]).status = mem[i].status
          /\ Counted(mem[i]) = Counted(Compact(mem[i]))
      BY LeftVerdicts, SameCounted
    <2>5. QED
      BY <2>1, <2>2, <2>3, <2>4, CooldownCompleted
  <1>10. CASE LaunchSaved(i) \/ LaunchDone(i) \/ RelaunchSaved(i)
    <2>1. PICK to \in {"launch", "collect"} : Saves(i, to)
      BY <1>10, SavesOf
    <2>2. /\ disk' = Compact(mem[i]) /\ mem'[i] = mem[i] /\ failures' = failures /\ pc'[i] = to
          /\ pc[i] \in {"launched", "launch", "relaunched"}
      BY <1>10, <2>1 DEF Saves, OnlyMoves, TypeOK, LaunchSaved, LaunchDone, RelaunchSaved
    <2>3. Open(mem[i]) /\ Open(disk) /\ Compact(mem[i]).status = mem[i].status
      BY <2>2, LeftVerdicts DEF CooldownAt, StageGood
    <2>4. Open(disk')
      BY <2>2, <2>3 DEF Open
    <2>5. QED
      BY <2>1, <2>2, <2>3, <2>4, CooldownOpen
  <1>11. CASE LaunchFails(i) \/ SweepLeaves(i) \/ LockTimesOut(i)
    <2>1. Leaves(i, disk)
      BY <1>11, EndQuiet
    <2>2. pc[i] # "store"
      BY <1>11 DEF LaunchFails, SweepLeaves, LockTimesOut
    <2>3. QED
      BY <2>1, <2>2, CooldownEnd
  <1>12. CASE CleanupFails(i)
    <2>1. Leaves(i, mem[i]) /\ pc[i] \in {"retry", "collect"}
      BY <1>12, CleanupFailsEffect DEF CleanupFails
    <2>2. Open(mem[i]) /\ Open(disk)
      BY <2>1 DEF CooldownAt, StageGood
    <2>3. QED
      BY <2>1, <2>2, CooldownEnd
  <1>13. CASE WriteResult(i) \/ GradeDone(i)
    <2>1. PICK round \in {Compact(mem[i]), Compact([mem[i] EXCEPT !.graded = TRUE])} :
            Leaves(i, round)
      BY <1>13, WriteResultEffect, GradeDoneEffect
    <2>2. pc[i] \in {"result", "graded"}
      BY <1>13 DEF WriteResult, GradeDone
    <2>3. mem[i].status = "completed" /\ disk.status = "completed" /\ SameVerdicts(mem[i], disk)
      BY <2>2 DEF CooldownAt, StageGood
    <2>4. SameVerdicts(round, mem[i]) /\ round.status = mem[i].status
      BY LeftVerdicts
    <2>5. SameVerdicts(round, disk)
      BY <2>3, <2>4 DEF SameVerdicts
    <2>6. QED
      BY <2>1, <2>3, <2>4, <2>5, CooldownEnd
  <1>14. CASE WriteDismissed(i)
    <2>1. PICK round \in {Compact([mem[i] EXCEPT !.status = "dismissed"]),
                          [mem[i] EXCEPT !.status = "cleanup_pending"]} : Leaves(i, round)
      BY <1>14, WriteDismissedEffect
    <2>2. round.status \in {"dismissed", "cleanup_pending"}
      BY LeftVerdicts
    <2>3. ~Open(round) /\ round.status # "completed"
      BY <2>2 DEF Open
    <2>4. QED
      BY <2>1, <2>3, CooldownEnd
  <1>15. CASE AppendRecord(i) \/ Refresh(i)
    <2>1. pc[i] \in {"append", "refresh"}
      BY <1>15 DEF AppendRecord, Refresh
    <2>2. arg[i] \in Ranks \/ Refresh(i)
      BY <1>15 DEF CommandsGood, RetryGood, AppendRecord
    <2>3. /\ mem'[i] = mem[i] /\ disk' = disk /\ failures' = failures
          /\ pc'[i] \in {"mark", "graded"}
      BY <1>15, <2>2, AppendRecordEffect, RefreshEffect
    <2>4. /\ mem[i].status = "completed" /\ disk.status = "completed"
          /\ SameVerdicts(mem[i], disk) /\ failures = Counted(disk)
      BY <2>1 DEF CooldownAt, StageGood
    <2>5. QED
      BY <2>3, <2>4, CooldownCompleted
  <1>16. QED
    BY <1>1, <1>2, <1>3, <1>4, <1>5, <1>6, <1>7, <1>8, <1>9, <1>10, <1>11, <1>12, <1>13,
       <1>14, <1>15
    DEF Work

LEMMA CooldownActs ==
  ASSUME NEW i \in Invocations, TypeOK, CommandsGood, CooldownGood, Acts(i)
  PROVE  CooldownGood'
  <1>1. /\ TypeOK' /\ i \in callers /\ callers' = callers
        /\ crashes' = 0 => crashes = 0 /\ (Command(i) \/ Work(i))
    BY ActsTyped
  <1>2. CASE ~(Alone' /\ crashes' = 0)
    BY <1>2 DEF CooldownGood
  <1>3. CASE Alone' /\ crashes' = 0
    <2>1. Alone /\ crashes = 0 /\ ~lockLeft
      BY <1>1, <1>3 DEF Alone, CommandsGood
    <2>2. callers = {i}
      BY <1>1, <2>1, AloneIsOne
    <2>3. CooldownAt(i)
      BY <2>1, <2>2, CooldownIsAt
    <2>4. CooldownAt(i)'
      BY <1>1, <1>3, <2>1, <2>3, CooldownCommand, CooldownWork
    <2>5. QED
      BY <1>1, <2>2, <2>4, CooldownIsAtNext
  <1>4. QED
    BY <1>2, <1>3

LEMMA CooldownOutside ==
  ASSUME TypeOK, CooldownGood, Outside
  PROVE  CooldownGood'
  BY DEF Outside, CooldownGood, Alone, StageGood, Counted, CoolingRuns, Cools, Open, SameVerdicts

-----------------------------------------------------------------------------
(* The grade                                                                *)

\* A step that neither records nor rates anything.
LEMMA GradeQuiet ==
  ASSUME NEW i \in Invocations, NEW to, NEW round, TypeOK, GradeGood, OnlyMoves(i, to, round),
         UNCHANGED <<log, rated>>, crashes' = crashes \/ crashes' > 0,
         disk'.graded => disk.graded \/ mem[i].graded \/ pc[i] = "graded",
         round.graded => disk.graded \/ mem[i].graded,
         to \in {"mark", "refresh"} => pc[i] \in {"mark", "refresh"} /\ arg'[i] = arg[i],
         to # "graded",
         pc[i] \in {"mark", "refresh"} => to \in {"mark", "refresh"} \/ crashes' > 0
  PROVE  GradeGood'
  <1>1. SomeRated' <=> SomeRated
    BY DEF SomeRated
  <1>2. /\ \A j \in Invocations \ {i} : /\ mem'[j] = mem[j] /\ pc'[j] = pc[j]
                                        /\ arg'[j] = arg[j]
        /\ mem'[i] = round /\ pc'[i] = to
    BY DEF OnlyMoves, TypeOK
  <1>3. disk'.graded => SomeRated'
    BY <1>1 DEF GradeGood
  <1>4. ASSUME NEW j \in Invocations
        PROVE  /\ mem'[j].graded => SomeRated'
               /\ pc'[j] \in {"mark", "refresh"} => log'[arg'[j]] = 1
               /\ pc'[j] = "graded" => SomeRated'
    <2>1. CASE j = i
      BY <1>1, <1>2, <2>1 DEF GradeGood
    <2>2. CASE j # i
      BY <1>1, <1>2, <2>2 DEF GradeGood
    <2>3. QED
      BY <2>1, <2>2
  <1>5. \/ crashes' > 0
        \/ rated' = log'
        \/ \E j \in Invocations : pc'[j] \in {"mark", "refresh"}
    <2>1. CASE crashes > 0 \/ rated = log
      BY <2>1 DEF GradeGood
    <2>2. ASSUME NEW j \in Invocations, pc[j] \in {"mark", "refresh"}
          PROVE  crashes' > 0 \/ \E k \in Invocations : pc'[k] \in {"mark", "refresh"}
      BY <1>2, <2>2
    <2>3. QED
      BY <2>1, <2>2 DEF GradeGood
  <1>6. QED
    BY <1>3, <1>4, <1>5 DEF GradeGood

\* The rounds a command leaves or copies are graded when its copy is, or by it.
LEMMA LeftGrades ==
  ASSUME NEW i \in Invocations, TypeOK
  PROVE  /\ Compact(mem[i]).graded = mem[i].graded /\ Blank.graded = FALSE
         /\ Compact([mem[i] EXCEPT !.status = "dismissed"]).graded = mem[i].graded
         /\ [mem[i] EXCEPT !.status = "cleanup_pending"].graded = mem[i].graded
  <1>1. mem[i] \in Round
    BY DEF TypeOK
  <1>2. /\ [mem[i] EXCEPT !.status = "dismissed"] \in Round
        /\ [mem[i] EXCEPT !.status = "dismissed"].graded = mem[i].graded
        /\ [mem[i] EXCEPT !.status = "cleanup_pending"].graded = mem[i].graded
    BY <1>1 DEF Round
  <1>3. QED
    BY <1>1, <1>2, Compacted, BlankTyped

LEMMA GradeEnd ==
  ASSUME NEW i \in Invocations, NEW round, TypeOK, GradeGood, Leaves(i, round),
         crashes' = crashes \/ crashes' > 0,
         round.graded => disk.graded \/ mem[i].graded \/ pc[i] = "graded",
         pc[i] \in {"mark", "refresh"} => crashes' > 0
  PROVE  GradeGood'
  <1>1. /\ OnlyMoves(i, "idle", Blank) /\ UNCHANGED <<log, rated>> /\ disk' = round
    BY DEF Leaves
  <1>2. ~Blank.graded
    BY BlankTyped
  <1>3. QED
    BY <1>1, <1>2, GradeQuiet

LEMMA GradeEdit ==
  ASSUME NEW i \in Invocations, NEW to, NEW s \in Slots, NEW run, TypeOK, TypeOK', GradeGood,
         Edits(i, to, s, run), UNCHANGED <<log, rated, crashes>>,
         disk' = disk \/ disk' = Compact(mem'[i]),
         pc[i] \notin {"mark", "refresh"}, to \notin {"mark", "refresh", "graded"}
  PROVE  GradeGood'
  <1>1. OnlyMoves(i, to, mem'[i]) /\ mem'[i].graded = mem[i].graded
    BY DEF Edits
  <1>2. Compact(mem'[i]).graded = mem'[i].graded
    BY Compacted DEF TypeOK
  <1>3. QED
    BY <1>1, <1>2, GradeQuiet

LEMMA GradeCommand ==
  ASSUME NEW i \in Invocations, TypeOK, GradeGood, Command(i)
  PROVE  GradeGood'
  <1>1. /\ UNCHANGED <<disk, log, rated, crashes>> /\ pc[i] = "idle"
    BY CommandEffect
  <1>2. PICK to \in LabelSet : OnlyMoves(i, to, disk)
    BY CommandEffect
  <1>3. pc'[i] \in {"launch", "collect", "result", "dismiss", "sweep", "append"}
    BY DEF Command, RunRound, Resume, DismissRound, Sweep, Grade, Begin, TypeOK
  <1>4. pc'[i] = to
    BY <1>2 DEF OnlyMoves, TypeOK
  <1>5. QED
    BY <1>1, <1>2, <1>3, <1>4, GradeQuiet

LEMMA GradeWork ==
  ASSUME NEW i \in Invocations, TypeOK, TypeOK', CommandsGood, GradeGood, Work(i)
  PROVE  GradeGood'
  <1>1. ASSUME NEW s \in Slots, NEW p \in Pids, LaunchReviewer(i, s, p) PROVE GradeGood'
    <2>1. /\ Edits(i, "launched", s, Started(mem[i].runs[s], p))
          /\ UNCHANGED <<disk, log, rated, crashes>> /\ pc[i] = "launch"
      BY <1>1, LaunchReviewerEffect DEF StartsOne, LaunchReviewer
    <2>2. QED
      BY <2>1, GradeEdit
  <1>2. ASSUME NEW p \in Pids, Relaunch(i, p) PROVE GradeGood'
    <2>1. arg[i] \in Slots /\ pc[i] = "relaunch"
      BY <1>2 DEF Relaunch, CommandsGood, RetryGood
    <2>2. /\ Edits(i, "relaunched", arg[i], Started(mem[i].runs[arg[i]], p))
          /\ UNCHANGED <<disk, log, rated, crashes>>
      BY <1>2, <2>1, RelaunchEffect DEF StartsOne
    <2>3. QED
      BY <2>1, <2>2, GradeEdit
  <1>3. ASSUME NEW s \in Slots, MarkRetry(i, s) PROVE GradeGood'
    <2>1. /\ Edits(i, "retry", s, MarkedForRetry(mem[i].runs[s]))
          /\ disk' = Compact(mem'[i]) /\ UNCHANGED <<log, rated, crashes>> /\ pc[i] = "collect"
      BY <1>3, MarkRetryEffect DEF MarkRetry
    <2>2. QED
      BY <2>1, GradeEdit
  <1>4. ASSUME NEW s \in Slots, CollectRun(i, s) PROVE GradeGood'
    <2>1. /\ Edits(i, "collect", s, Captured(mem[i].runs[s]))
          /\ disk' = Compact(mem'[i]) /\ UNCHANGED <<log, rated, crashes>> /\ pc[i] = "collect"
      BY <1>4, CollectRunEffect DEF CollectRun
    <2>2. QED
      BY <2>1, GradeEdit
  <1>5. ASSUME NEW s \in Slots, StopReviewer(i, s) PROVE GradeGood'
    <2>1. PICK b \in BOOLEAN :
            /\ Edits(i, "collect", s, [mem[i].runs[s] EXCEPT !.stopped = b])
            /\ UNCHANGED <<disk, log, rated, crashes>>
      BY <1>5, StopReviewerEffect
    <2>2. pc[i] = "collect"
      BY <1>5 DEF StopReviewer
    <2>3. QED
      BY <2>1, <2>2, GradeEdit
  <1>6. CASE ClearForRetry(i)
    <2>1. arg[i] \in Slots /\ pc[i] = "retry"
      BY <1>6 DEF ClearForRetry, CommandsGood, RetryGood
    <2>2. /\ Edits(i, "relaunch", arg[i], [mem[i].runs[arg[i]] EXCEPT
                        !.cleanup = FALSE, !.pid = 0, !.files = FALSE])
          /\ UNCHANGED <<disk, log, rated, crashes>>
      BY <1>6, <2>1, ClearForRetryEffect
    <2>3. QED
      BY <2>1, <2>2, GradeEdit
  <1>7. CASE FinishCollect(i)
    <2>1. pc[i] = "collect"
      BY <1>7 DEF FinishCollect
    <2>2. /\ OnlyMoves(i, "cooldown", mem'[i]) /\ mem'[i].graded = mem[i].graded
          /\ UNCHANGED <<disk, log, rated, crashes>>
      BY <1>7, FinishCollectEffect
    <2>3. QED
      BY <2>1, <2>2, GradeQuiet
  <1>8. CASE ApplyCooldowns(i)
    <2>1. /\ OnlyMoves(i, "store", mem[i]) /\ UNCHANGED <<disk, log, rated, crashes>>
          /\ pc[i] = "cooldown"
      BY <1>8, ApplyCooldownsEffect DEF ApplyCooldowns
    <2>2. QED
      BY <2>1, GradeQuiet
  <1>9. CASE LaunchSaved(i) \/ LaunchDone(i) \/ RelaunchSaved(i) \/ StoreCompleted(i)
    <2>1. PICK to \in {"launch", "collect", "result"} : Saves(i, to)
      BY <1>9, SavesOf
    <2>2. pc[i] \in {"launch", "launched", "relaunched", "store"}
      BY <1>9 DEF LaunchSaved, LaunchDone, RelaunchSaved, StoreCompleted
    <2>3. /\ OnlyMoves(i, to, mem[i]) /\ UNCHANGED <<log, rated, crashes>>
          /\ disk' = Compact(mem[i])
      BY <2>1 DEF Saves
    <2>4. QED
      BY <2>1, <2>2, <2>3, LeftGrades, GradeQuiet
  <1>10. CASE GradePending(i)
    <2>1. /\ Saves(i, "refresh") /\ arg' = arg /\ pc[i] = "mark"
      BY <1>10, SavesOf DEF GradePending
    <2>2. /\ OnlyMoves(i, "refresh", mem[i]) /\ UNCHANGED <<log, rated, crashes>>
          /\ disk' = Compact(mem[i])
      BY <2>1 DEF Saves
    <2>3. QED
      BY <2>1, <2>2, LeftGrades, GradeQuiet
  <1>11. CASE LaunchFails(i) \/ SweepLeaves(i)
    <2>1. Leaves(i, disk) /\ crashes' = crashes
      BY <1>11, EndQuiet DEF SameRest
    <2>2. pc[i] \notin {"mark", "refresh"}
      BY <1>11 DEF LaunchFails, SweepLeaves
    <2>3. QED
      BY <2>1, <2>2, GradeEnd
  <1>12. CASE LockTimesOut(i)
    <2>1. Leaves(i, disk) /\ crashes' = crashes
      BY <1>12, EndQuiet DEF SameRest
    <2>2. crashes > 0
      BY <1>12 DEF LockTimesOut, CommandsGood
    <2>3. QED
      BY <2>1, <2>2, GradeEnd
  <1>13. CASE CleanupFails(i) \/ WriteResult(i)
    <2>1. PICK round \in {mem[i], Compact(mem[i])} : Leaves(i, round) /\ crashes' = crashes
      BY <1>13, CleanupFailsEffect, WriteResultEffect DEF SameRest
    <2>2. pc[i] \in {"retry", "collect", "result"}
      BY <1>13 DEF CleanupFails, WriteResult
    <2>3. QED
      BY <2>1, <2>2, LeftGrades, GradeEnd
  <1>14. CASE GradeDone(i)
    <2>1. PICK round : Leaves(i, round) /\ crashes' = crashes
      BY <1>14, GradeDoneEffect DEF SameRest
    <2>2. pc[i] = "graded"
      BY <1>14 DEF GradeDone
    <2>3. QED
      BY <2>1, <2>2, GradeEnd
  <1>15. CASE WriteDismissed(i)
    <2>1. PICK round \in {Compact([mem[i] EXCEPT !.status = "dismissed"]),
                          [mem[i] EXCEPT !.status = "cleanup_pending"]} :
            Leaves(i, round) /\ crashes' = crashes
      BY <1>15, WriteDismissedEffect
    <2>2. pc[i] \in {"dismiss", "sweep"}
      BY <1>15 DEF WriteDismissed, Dismissing
    <2>3. QED
      BY <2>1, <2>2, LeftGrades, GradeEnd
  <1>16. CASE AppendRecord(i)
    <2>1. arg[i] \in Ranks /\ pc[i] = "append"
      BY <1>16 DEF AppendRecord, CommandsGood, RetryGood
    <2>2. /\ OnlyMoves(i, "mark", mem[i]) /\ UNCHANGED <<disk, arg, rated, crashes>>
          /\ \A r \in Ranks : log'[r] = IF r = arg[i] /\ log[r] = 0 THEN 1 ELSE log[r]
      BY <1>16, <2>1, AppendRecordEffect
    <2>3. /\ \A r \in Ranks : /\ log[r] \in Nat /\ rated[r] \in Nat
                              /\ rated[r] <= log[r] /\ log[r] <= 1
      BY DEF GradeGood, TypeOK
    <2>4. /\ \A r \in Ranks : log'[r] <= 1 /\ rated'[r] <= log'[r]
          /\ \A r \in Ranks : log[r] = 1 => log'[r] = 1
          /\ log'[arg[i]] = 1
      BY <2>1, <2>2, <2>3
    <2>5. SomeRated' <=> SomeRated
      BY <2>2 DEF SomeRated
    <2>6. /\ \A j \in Invocations : mem'[j] = mem[j] /\ arg'[j] = arg[j]
          /\ \A j \in Invocations \ {i} : pc'[j] = pc[j]
          /\ pc'[i] = "mark"
      BY <2>2 DEF OnlyMoves, TypeOK
    <2>7. ASSUME NEW j \in Invocations
          PROVE  /\ mem'[j].graded => SomeRated'
                 /\ pc'[j] \in {"mark", "refresh"} => log'[arg'[j]] = 1
                 /\ pc'[j] = "graded" => SomeRated'
      <3>1. CASE j = i
        BY <2>4, <2>5, <2>6, <3>1 DEF GradeGood
      <3>2. CASE j # i
        <4>1. pc[j] \in {"mark", "refresh"} => arg[j] \in Ranks
          BY DEF CommandsGood, RetryGood
        <4>2. QED
          BY <2>4, <2>5, <2>6, <3>2, <4>1 DEF GradeGood
      <3>3. QED
        BY <3>1, <3>2
    <2>8. disk'.graded => SomeRated'
      BY <2>2, <2>5 DEF GradeGood
    <2>9. QED
      BY <2>4, <2>6, <2>7, <2>8 DEF GradeGood
  <1>17. CASE Refresh(i)
    <2>1. pc[i] = "refresh" /\ arg[i] \in Ranks
      BY <1>17 DEF Refresh, CommandsGood, RetryGood
    <2>2. /\ OnlyMoves(i, "graded", mem[i]) /\ UNCHANGED <<disk, arg, log, crashes>>
          /\ rated' = log
      BY <1>17, RefreshEffect
    <2>3. SomeRated'
      BY <2>1, <2>2 DEF SomeRated, GradeGood
    <2>4. /\ \A j \in Invocations : mem'[j] = mem[j] /\ arg'[j] = arg[j]
          /\ \A j \in Invocations \ {i} : pc'[j] = pc[j]
          /\ pc'[i] = "graded"
      BY <2>2 DEF OnlyMoves, TypeOK
    <2>5. \A r \in Ranks : rated'[r] <= log'[r] /\ log'[r] <= 1
      BY <2>2 DEF GradeGood, TypeOK
    <2>6. QED
      BY <2>2, <2>3, <2>4, <2>5 DEF GradeGood
  <1>18. QED
    BY <1>1, <1>2, <1>3, <1>4, <1>5, <1>6, <1>7, <1>8, <1>9, <1>10, <1>11, <1>12, <1>13,
       <1>14, <1>15, <1>16, <1>17
    DEF Work

LEMMA GradeActs ==
  ASSUME NEW i \in Invocations, TypeOK, CommandsGood, GradeGood, Acts(i)
  PROVE  GradeGood'
  <1>1. TypeOK'
    BY ActsTyped
  <1>2. CASE Crash(i) \/ CrashInLock(i)
    <2>1. crashes \in Nat /\ crashes' = crashes + 1
      BY <1>2, CrashEffect, CrashInLockEffect, CrashesCounted
    <2>2. PICK round \in {disk, [mem[i] EXCEPT !.status = "cleanup_pending"]} : Leaves(i, round)
      BY <1>2, CrashEffect, CrashInLockEffect
    <2>3. crashes' > 0
      BY <2>1
    <2>4. QED
      BY <2>2, <2>3, LeftGrades, GradeEnd
  <1>3. QED
    BY <1>1, <1>2, GradeCommand, GradeWork DEF Acts

LEMMA GradeOutside ==
  ASSUME GradeGood, Outside
  PROVE  GradeGood'
  BY DEF Outside, GradeGood, SomeRated

-----------------------------------------------------------------------------
(* The stored reviews, for every step of a command that is alone            *)

LEMMA ReviewsActs ==
  ASSUME NEW i \in Invocations, TypeOK, CommandsGood, ReviewsGood, Acts(i)
  PROVE  ReviewsGood' /\ (Alone => \A s \in Slots : ReviewStays(s))
  <1>1. TypeOK' /\ i \in callers /\ callers' = callers
    BY ActsTyped
  <1>2. Alone' <=> Alone
    BY <1>1 DEF Alone
  <1>3. ASSUME Alone, NEW s \in Slots
        PROVE  callers = {i} /\ HasReview(i, s)' /\ ReviewStays(s)
    <2>1. callers = {i}
      BY <1>1, <1>3, AloneIsOne
    <2>2. HasReview(i, s)
      BY <1>1, <1>3 DEF ReviewsGood, HasReview
    <2>3. QED
      BY <1>1, <2>1, <2>2, ReviewsCommand, ReviewsWork, ReviewsCrash DEF Acts
  <1>4. QED
    BY <1>1, <1>2, <1>3 DEF ReviewsGood, HasReview, Active

LEMMA ReviewsOutside ==
  ASSUME ReviewsGood, Outside
  PROVE  ReviewsGood' /\ \A s \in Slots : ReviewStays(s)
  BY DEF Outside, ReviewsGood, Alone, Active, ReviewStays

-----------------------------------------------------------------------------
(* The inductive invariant                                                  *)

\* A round starts with the given reviews and no process.
LEMMA InitDisk ==
  ASSUME Init
  PROVE  /\ disk \in Round /\ ~disk.graded /\ disk.status \in {"sampled", "completed"}
         /\ \A s \in Slots : /\ disk.runs[s].status \in {"none", "review"}
                             /\ disk.runs[s].pid = 0 /\ ~disk.runs[s].files
                             /\ ~disk.runs[s].cleanup /\ disk.runs[s].tries = 0
         /\ disk.status = "completed" => \A s \in Slots : disk.runs[s].status = "review"
         /\ callers \subseteq Invocations
  <1> DEFINE given == [NewRun EXCEPT !.status = "review"]
  <1>1. PICK c \in Scenarios :
          /\ disk = [Blank EXCEPT
                !.status = IF c[1] = Slots THEN "completed" ELSE "sampled",
                !.runs = [s \in Slots |-> IF s \in c[1] THEN given ELSE NewRun]]
          /\ callers = c[2]
    BY DEF Init
  <1>2. /\ given \in Run /\ given.status = "review" /\ given.pid = 0 /\ ~given.files
        /\ ~given.cleanup /\ given.tries = 0
    BY BlankTyped DEF Run
  <1> HIDE DEF given
  <1> DEFINE runs == [s \in Slots |-> IF s \in c[1] THEN given ELSE NewRun]
             st == IF c[1] = Slots THEN "completed" ELSE "sampled"
  <1>3. runs \in [Slots -> Run] /\ \A s \in Slots : runs[s] = IF s \in c[1] THEN given ELSE NewRun
    BY <1>2, BlankTyped
  <1>4. st \in {"sampled", "completed"} /\ (st = "completed" => c[1] = Slots)
    OBVIOUS
  <1>5. disk = [Blank EXCEPT !.status = st, !.runs = runs]
    BY <1>1
  <1> HIDE DEF runs, st
  <1>6. /\ disk \in Round /\ disk.runs = runs /\ disk.status = st /\ disk.graded = Blank.graded
    BY <1>3, <1>4, <1>5, BlankTyped DEF Round
  <1>7. QED
    BY <1>1, <1>2, <1>3, <1>4, <1>6, BlankTyped, RoundAssumption

LEMMA InitGood == Init => IInv
  <1> SUFFICES ASSUME Init PROVE IInv
    OBVIOUS
  <1>1. /\ mem = [i \in Invocations |-> Blank] /\ pc = [i \in Invocations |-> "idle"]
        /\ arg = [i \in Invocations |-> None] /\ proc = [p \in Pids |-> Unborn]
        /\ failures = IF disk.status = "completed" THEN 0 ELSE 1
        /\ log = [r \in Ranks |-> 0] /\ rated = log /\ day = 0 /\ lockLeft = FALSE
        /\ crashes = 0
    BY DEF Init
  <1>2. TypeOK
    <2>1. CopiesTyped
      BY <1>1, InitDisk, BlankTyped DEF CopiesTyped, LabelSet
    <2>2. Unborn \in Process
      BY DEF Unborn, Process
    <2>3. failures \in 0..MaxFailures
      BY <1>1, RoundAssumption, FS_CardinalityType
    <2>4. StoreTyped
      <3>1. log \in [Ranks -> Nat] /\ rated \in [Ranks -> Nat]
        BY <1>1
      <3>2. proc \in [Pids -> Process]
        BY <1>1, <2>2
      <3>3. day = 0 /\ crashes = 0
        BY <1>1
      <3>4. day \in 0..MaxDay /\ crashes \in 0..MaxCrashes
        BY <3>3, RoundAssumption
      <3>5. disk \in Round /\ lockLeft \in BOOLEAN
        BY <1>1, InitDisk
      <3>6. QED
        BY <2>3, <3>1, <3>2, <3>4, <3>5 DEF StoreTyped
    <2>5. QED
      BY <2>1, <2>4, Parted
  <1>3. CommandsGood
    BY <1>1, InitDisk, BlankTyped DEF CommandsGood, Active, RetryGood, RunGood
  <1>4. BudgetGood
    <2>1. ASSUME NEW s \in Slots PROVE Cardinality(ProcsOf(s)) = 0
      <3>1. ProcsOf(s) = {}
        BY <1>1, RoundAssumption DEF ProcsOf, Unborn
      <3>2. QED
        BY <3>1, FS_EmptySet
    <2>2. \A s \in Slots : Starts(disk.runs[s]) = 0
      BY InitDisk DEF Starts
    <2>3. QED
      BY <1>1, <1>2, <2>1, <2>2, RoundAssumption
      DEF BudgetGood, NoMoreThan, Active, TypeOK, Unsaved
  <1>5. CooldownGood
    <2>1. disk.status = "completed" => Counted(disk) = 0
      <3>1. SUFFICES ASSUME disk.status = "completed" PROVE Counted(disk) = 0
        OBVIOUS
      <3>2. CoolingRuns(disk) = {}
        BY <3>1, InitDisk DEF CoolingRuns, Cools
      <3>3. \E s \in Slots : disk.runs[s].status = "review"
        BY <3>1, InitDisk, RoundAssumption
      <3>4. QED
        BY <3>2, <3>3 DEF Counted
    <2>2. \A i \in callers : StageGood(i)
      BY <1>1, InitDisk DEF StageGood
    <2>3. QED
      BY <1>1, <2>1, <2>2 DEF CooldownGood, Open
  <1>6. GradeGood
    BY <1>1, InitDisk, BlankTyped DEF GradeGood
  <1>7. ReviewsGood
    BY <1>1, InitDisk DEF ReviewsGood, Active
  <1>8. QED
    BY <1>2, <1>3, <1>4, <1>5, <1>6, <1>7 DEF IInv

\* A step keeps the invariant and, when one command is alone, the stored reviews.
LEMMA StepGood ==
  ASSUME IInv, [Next]_vars
  PROVE  IInv' /\ (Alone => \A s \in Slots : ReviewStays(s))
  <1>1. ASSUME NEW i \in Invocations, Acts(i)
        PROVE  IInv' /\ (Alone => \A s \in Slots : ReviewStays(s))
    BY <1>1, ActsTyped, BudgetActs, CooldownActs, GradeActs, ReviewsActs DEF IInv
  <1>2. ASSUME DayPasses \/ \E p \in Pids : ReviewerExits(p)
        PROVE  IInv' /\ (Alone => \A s \in Slots : ReviewStays(s))
    <2>1. TypeOK' /\ Outside
      BY <1>2, OutsideEffect DEF IInv
    <2>2. QED
      BY <2>1, OutsideGood, BudgetOutside, CooldownOutside, GradeOutside, ReviewsOutside DEF IInv
  <1>3. CASE UNCHANGED vars
    <2>1. UNCHANGED <<disk, mem, pc, arg, proc, failures, log, rated, day, lockLeft, crashes, callers>>
      BY <1>3 DEF vars
    <2>2. Outside /\ TypeOK'
      BY <2>1 DEF Outside, IInv, TypeOK
    <2>3. QED
      BY <2>2, OutsideGood, BudgetOutside, CooldownOutside, GradeOutside, ReviewsOutside DEF IInv
  <1>4. QED
    BY <1>1, <1>2, <1>3 DEF Next, Acts

\* collect_round, grade_round, dismiss_round: every step of every command, reviewer
\* and crash keeps the inductive invariant, which implies the properties below.
THEOREM RoundInvariant == Spec => []IInv
  <1>1. IInv /\ [Next]_vars => IInv'
    BY StepGood
  <1>2. QED
    BY InitGood, <1>1, PTL DEF Spec

\* The variables keep their types: however commands, crashes and reviewers
\* interleave, the attempts stored for a reviewer never pass CAPACITY_RETRY_MAX_ATTEMPTS.
THEOREM RoundTypeOK == Spec => []TypeOK
  <1>1. IInv => TypeOK
    BY DEF IInv
  <1>2. QED
    BY <1>1, RoundInvariant, PTL

\* _maybe_retry_capacity_run: when one command works on the round at a time, a
\* reviewer is started once, once more per retry, and once more for each command
\* that died, for any number of reviewers, retries and crashes.
THEOREM RoundRetryBudget == Spec => []RetryBudget
  <1>1. IInv => RetryBudget
    BY DEF IInv, BudgetGood, NoMoreThan, RetryBudget
  <1>2. QED
    BY <1>1, RoundInvariant, PTL

\* _apply_capacity_cooldowns: when one command works on the round at a time and
\* none has died, a stored completed round was counted once per failed run.
THEOREM RoundCooldownCounts == Spec => []CooldownCountsRound
  <1>1. IInv => CooldownCountsRound
    BY DEF IInv, CooldownGood, Counted, CooldownCountsRound
  <1>2. QED
    BY <1>1, RoundInvariant, PTL

\* _record_grade_result: whatever commands overlap and die, a placement is recorded
\* once, a graded round is rated, and the ratings lag the log only behind a grade
\* that is under way or died.
THEOREM RoundGradeIsCounted == Spec => []GradeIsCounted
  <1>1. IInv => GradeIsCounted
    BY DEF IInv, GradeGood, SomeRated, GradeIsCounted
  <1>2. QED
    BY <1>1, RoundInvariant, PTL

\* collect_round_results: with one command at a time, a review that was stored
\* stays stored, whatever is retried, resumed, dismissed, graded or dies after it.
THEOREM RoundReviewKept == Spec => UsableReviewKept
  <1>1. IInv /\ [Next]_vars =>
          [Alone => \A s \in Slots :
             disk.runs[s].status = "review" => disk'.runs[s].status = "review"]_vars
    BY StepGood DEF ReviewStays
  <1>2. QED
    BY <1>1, RoundInvariant, PTL DEF Spec, UsableReviewKept

==================================================================================
