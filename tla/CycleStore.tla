------------------------------ MODULE CycleStore ------------------------------
(***************************************************************************)
(* The store of review cycles (review_suite_core/orchestrator_store.py)    *)
(* under several invocations of review.py at once.                         *)
(*                                                                         *)
(* An invocation loads a document without a lock, works on its copy for    *)
(* milliseconds or for the minutes a review takes, and saves the copy      *)
(* under the lock of the cycles.  A restart reserves a successor: it       *)
(* writes the successor and then the redirect of its source, and a crash   *)
(* may come in between.  Only the first advance of a successor takes a     *)
(* lock of its own.  What a document means is left to ReviewCycle; here it *)
(* is what its writers can lose or overwrite.                              *)
(***************************************************************************)
EXTENDS Naturals, Sequences

CONSTANTS
    Procs,          \* invocations of review.py
    Keys,           \* cycle keys: digests of identity and restart token
    Fresh,          \* the keys of cycles that are created without a restart
    Mode,           \* per key, the mode of the cycle
    Restarts,       \* per key, the keys of the cycles a restart of it may create
    Ids,            \* public ids
    Candidates,     \* per key, the prefixes of its digest, shortest first
    MaxRounds,      \* bound: review rounds of a cycle
    Gated,          \* bound: the cycles a gate is recorded for
    None

ASSUME KeysAssumption ==
    /\ Fresh \subseteq Keys /\ DOMAIN Mode = Keys
    /\ Restarts \in [Keys -> SUBSET Keys]
    /\ \A k \in Keys : k \notin Restarts[k]
    /\ None \notin Keys /\ None \notin Ids /\ None \notin Procs

\* the last candidate is the whole digest, which no other key has
ASSUME CandidatesAssumption ==
    /\ Candidates \in [Keys -> Seq(Ids)]
    /\ \A k \in Keys : \E n \in DOMAIN Candidates[k] :
         \A j \in Keys \ {k} : \A m \in DOMAIN Candidates[j] :
           Candidates[j][m] # Candidates[k][n]

ASSUME BoundsAssumption == MaxRounds \in Nat /\ Gated \subseteq Keys

-----------------------------------------------------------------------------

Stages == {"created", "running", "pending", "aborted"}

\* a stored document; `pending` stands for the stages that wait for the caller
Doc == [stage : Stages, redirect : Keys \cup {None}, rounds : 0 .. MaxRounds,
        gate : BOOLEAN]
NoDoc == [stage |-> "absent"]
NewDoc == [stage |-> "created", redirect |-> None, rounds |-> 0, gate |-> FALSE]

Steps == {"idle", "restart", "reserve", "queue", "ready", "work", "save", "write",
          "source", "leave"}

\* an invocation: where it is, its copy of the document of `key`, the source of a
\* restart, and what follows the save it is about
Invocation == [at : Steps, cmd : {"rerun", "continue", "record", "restart"},
               key : Keys \cup {None}, source : Keys \cup {None},
               doc : Doc, launched : BOOLEAN,
               after : {"idle", "work", "leave", "source"}]
NoInvocation == [at |-> "idle", cmd |-> "rerun", key |-> None, source |-> None,
                 doc |-> NewDoc, launched |-> FALSE, after |-> "idle"]

VARIABLES
    disk,           \* the file of each cycle
    ids,            \* index.json, ids: the key of a public id
    cycle_keys,     \* index.json, cycle_keys: the public id of a key
    cyclesLock,     \* who holds the lock "orchestrator-cycles"
    successorLock,  \* who holds "successor-<key>"
    me,             \* the invocations
    overwritten     \* history, for the properties only: the successors whose own
                    \* redirect the reservation of a restart has written over

store == <<disk, ids, cycle_keys, overwritten>>
locks == <<cyclesLock, successorLock>>
vars == <<store, locks, me>>

IsSuccessor(k) == \E s \in Keys : k \in Restarts[s]
Startable(d) == d.stage \in {"created", "running"}
Superseded(d) == d # NoDoc /\ d.redirect # None
HoldsSuccessor(p) == \E k \in Keys : successorLock[k] = p

Goes(p, to) == me' = [me EXCEPT ![p] = to]
Saving(v, d, after) == [v EXCEPT !.at = "save", !.doc = d, !.after = after]

-----------------------------------------------------------------------------
(* Loading: index and file are read without a lock                          *)

Loads(p, k) == me[p].at = "idle" /\ cycle_keys[k] # None /\ disk[k] # NoDoc

\* mutant: a successor that nobody runs yet needs no lock
LocksRunning(k, d) == IsSuccessor(k) /\ d.stage = "running"

NeedsLock(k, d) == IsSuccessor(k) /\ Startable(d)

\* review.py --id <id>
LoadRerun(p, k) ==
    /\ Loads(p, k)
    /\ Goes(p, [NoInvocation EXCEPT
                  !.key = k, !.doc = disk[k],
                  !.at = IF NeedsLock(k, disk[k]) THEN "queue" ELSE "ready"])
    /\ UNCHANGED <<store, locks>>

\* --full-suite, --ci, in any stage; --decision, while one is due
LoadRecord(p, k) ==
    /\ Loads(p, k)
    /\ \/ /\ k \in Gated
          /\ Goes(p, Saving([NoInvocation EXCEPT !.cmd = "record", !.key = k],
                            [disk[k] EXCEPT !.gate = TRUE], "idle"))
       \/ /\ disk[k].stage = "pending"
          /\ Goes(p, Saving([NoInvocation EXCEPT !.cmd = "record", !.key = k],
                            [disk[k] EXCEPT !.stage = "created"], "idle"))
    /\ UNCHANGED <<store, locks>>

\* --restart-mode, --restart-brief (which also wants a stage between rounds)
LoadRestart(p, k, t) ==
    /\ Loads(p, k) /\ t \in Restarts[k] /\ disk[k].redirect = None
    /\ Goes(p, [NoInvocation EXCEPT !.at = "restart", !.cmd = "restart",
                                    !.key = t, !.source = k])
    /\ UNCHANGED <<store, locks>>

Active(k) == disk[k] # NoDoc /\ ~Superseded(disk[k])

\* without --id: the active cycle of this checkout and mode, unless there are several;
\* a successor too, and its lock is not taken
Continue(p, k) ==
    /\ me[p].at = "idle" /\ Active(k)
    /\ \A j \in Keys : Active(j) /\ Mode[j] = Mode[k] => j = k
    /\ Goes(p, [NoInvocation EXCEPT !.at = "ready", !.cmd = "continue", !.key = k,
                                    !.doc = disk[k]])
    /\ UNCHANGED <<store, locks>>

\* and when there is none, the cycle of this commit, new or superseded
Create(p, k) ==
    /\ me[p].at = "idle" /\ k \in Fresh
    /\ \A j \in Keys : Mode[j] = Mode[k] => ~Active(j)
    /\ Goes(p, [NoInvocation EXCEPT
                  !.at = "ready", !.cmd = "continue", !.key = k,
                  !.doc = IF disk[k] = NoDoc THEN NewDoc ELSE disk[k]])
    /\ UNCHANGED <<store, locks>>

\* _create_successor_cycle takes a successor that is stored already
PrepareSuccessor(p) ==
    /\ me[p].at = "restart"
    /\ Goes(p, [me[p] EXCEPT !.at = "reserve",
                             !.doc = IF disk[me[p].key] = NoDoc THEN NewDoc
                                     ELSE disk[me[p].key]])
    /\ UNCHANGED <<store, locks>>

-----------------------------------------------------------------------------
(* Saving                                                                   *)

\* mutant: the late save of a superseded cycle
SavesAsLoaded(d, stored) == d

\* mutant: the redirect stays, the stage comes from the copy
KeepsRedirect(d, stored) ==
    IF Superseded(stored) THEN [d EXCEPT !.redirect = stored.redirect] ELSE d

\* save_cycle: a redirect on disk, and the stage that goes with it, stay
Merged(d, stored) ==
    IF Superseded(stored)
    THEN [d EXCEPT !.stage = stored.stage, !.redirect = stored.redirect]
    ELSE d

\* mutant: the shortest prefix, whosever it is
TakesShortest(i, k) == i = Candidates[k][1]

\* the first prefix of the digest that is free
Allots(i, k) ==
    \E n \in DOMAIN Candidates[k] :
        /\ i = Candidates[k][n] /\ ids[i] = None
        /\ \A m \in 1 .. n - 1 : ids[Candidates[k][m]] # None

\* public_id_for_cycle_key, in the index's own lock, which nobody takes outside a save
Names(k) ==
    \/ /\ cycle_keys[k] # None
       /\ ids' = [ids EXCEPT ![cycle_keys[k]] = k]
       /\ UNCHANGED cycle_keys
    \/ /\ cycle_keys[k] = None
       /\ \E i \in Ids :
            /\ Allots(i, k)
            /\ ids' = [ids EXCEPT ![i] = k]
            /\ cycle_keys' = [cycle_keys EXCEPT ![k] = i]

TakeLock(p) ==
    /\ me[p].at = "save" /\ cyclesLock = None
    /\ cyclesLock' = p
    /\ Names(me[p].key)
    /\ Goes(p, [me[p] EXCEPT !.at = "write", !.doc = Merged(@, disk[me[p].key])])
    /\ UNCHANGED <<disk, successorLock, overwritten>>

\* the copy a reservation writes was read before the successor was restarted in turn
WritesOver(v) ==
    /\ v.after = "source" /\ Superseded(disk[v.key])
    /\ v.doc.redirect # disk[v.key].redirect

\* _atomic_write_json; a reservation merges nothing and goes on with its source
Write(p) ==
    /\ me[p].at = "write"
    /\ disk' = [disk EXCEPT ![me[p].key] = me[p].doc]
    /\ overwritten' = overwritten \cup (IF WritesOver(me[p]) THEN {me[p].key} ELSE {})
    /\ cyclesLock' = IF me[p].after = "source" THEN p ELSE None
    /\ Goes(p, IF me[p].after = "idle" THEN NoInvocation
               ELSE [me[p] EXCEPT !.at = me[p].after])
    /\ UNCHANGED <<ids, cycle_keys, successorLock>>

-----------------------------------------------------------------------------
(* Reserving a successor                                                    *)

\* mutant: the source is not read again under the lock
SeenFree(stored) == None

\* the successor a source has by now
RedirectOf(stored) == IF Superseded(stored) THEN stored.redirect ELSE None

Reserve(p) ==
    /\ me[p].at = "reserve" /\ cyclesLock = None
    /\ LET chosen == RedirectOf(disk[me[p].source])
       IN  \/ /\ chosen = None
              /\ cyclesLock' = p
              /\ Names(me[p].key)
              /\ Goes(p, [me[p] EXCEPT !.at = "write", !.after = "source"])
           \/ /\ chosen = me[p].key
              /\ Goes(p, [me[p] EXCEPT !.at = "queue", !.doc = disk[me[p].key]])
              /\ UNCHANGED <<ids, cycle_keys, cyclesLock>>
           \/ /\ chosen \notin {None, me[p].key}
              /\ Goes(p, NoInvocation)
              /\ UNCHANGED <<ids, cycle_keys, cyclesLock>>
    /\ UNCHANGED <<disk, successorLock, overwritten>>

\* mutant: the public id is stored where the key belongs
NamesSuccessor(v) == cycle_keys[v.key]

\* mutant: the cycle redirects to itself
NamesSource(v) == v.source

Target(v) == v.key

WriteSource(p) ==
    /\ me[p].at = "source"
    /\ disk' = [disk EXCEPT ![me[p].source].stage = "aborted",
                            ![me[p].source].redirect = Target(me[p])]
    /\ cyclesLock' = None
    /\ Goes(p, [me[p] EXCEPT !.at = "queue"])
    /\ UNCHANGED <<ids, cycle_keys, successorLock, overwritten>>

\* _resume_reserved_successor reads the successor again under its lock
Enter(p) ==
    /\ me[p].at = "queue"
    /\ LET k == me[p].key
           v == [me[p] EXCEPT !.doc = disk[k]]
       IN  IF ~Startable(me[p].doc)
           THEN Goes(p, NoInvocation) /\ UNCHANGED successorLock
           ELSE /\ successorLock[k] = None
                /\ IF Startable(disk[k])
                   THEN /\ successorLock' = [successorLock EXCEPT ![k] = p]
                        /\ Goes(p, [v EXCEPT !.at = "ready"])
                   ELSE /\ Goes(p, IF v.cmd = "rerun" THEN Saving(v, v.doc, "idle")
                                   ELSE NoInvocation)
                        /\ UNCHANGED successorLock
    /\ UNCHANGED <<store, cyclesLock>>

\* after a second: "The successor review is already advancing"
Busy(p) ==
    /\ me[p].at = "queue" /\ Startable(me[p].doc)
    /\ successorLock[me[p].key] # None
    /\ Goes(p, NoInvocation)
    /\ UNCHANGED <<store, locks>>

\* the lock goes; review.py --id saves what it got once more
Leave(p) ==
    /\ me[p].at = "leave"
    /\ successorLock' = [successorLock EXCEPT ![me[p].key] = None]
    /\ Goes(p, IF me[p].cmd = "rerun" THEN Saving(me[p], me[p].doc, "idle")
               ELSE NoInvocation)
    /\ UNCHANGED <<store, cyclesLock>>

-----------------------------------------------------------------------------
(* Advancing                                                                *)

AfterAdvance(p) == IF HoldsSuccessor(p) THEN "leave" ELSE "idle"

\* reviewers are started, then the running round is saved
Launch(p) ==
    /\ me[p].at = "ready"
    /\ me[p].doc.stage \in {"created", "pending"} /\ me[p].doc.rounds < MaxRounds
    /\ Goes(p, [Saving(me[p], [me[p].doc EXCEPT !.stage = "running",
                                                !.rounds = @ + 1], "work")
                  EXCEPT !.launched = TRUE])
    /\ UNCHANGED <<store, locks>>

\* a round somebody launched before
Collect(p) ==
    /\ me[p].at = "ready" /\ me[p].doc.stage = "running"
    /\ Goes(p, [me[p] EXCEPT !.at = "work"])
    /\ UNCHANGED <<store, locks>>

NothingToRun(p) ==
    /\ me[p].at = "ready" /\ me[p].doc.stage # "running"
    /\ Goes(p, Saving(me[p], me[p].doc, AfterAdvance(p)))
    /\ UNCHANGED <<store, locks>>

RoundEnds(p) ==
    /\ me[p].at = "work"
    /\ Goes(p, [Saving(me[p], [me[p].doc EXCEPT !.stage = "pending"],
                       AfterAdvance(p)) EXCEPT !.launched = FALSE])
    /\ UNCHANGED <<store, locks>>

-----------------------------------------------------------------------------
(* An invocation ends early; the system drops its file locks                *)

\* mutant: what a process locked stays locked
StaysLocked(holder, p) == holder

Dropped(holder, p) == IF holder = p THEN None ELSE holder

Ends(p) ==
    /\ cyclesLock' = Dropped(cyclesLock, p)
    /\ successorLock' = [k \in Keys |-> Dropped(successorLock[k], p)]
    /\ Goes(p, NoInvocation)
    /\ UNCHANGED store

Crash(p) == me[p].at # "idle" /\ Ends(p)

\* TimeoutError, after thirty seconds of somebody else's lock
GiveUp(p) == me[p].at \in {"save", "reserve"} /\ cyclesLock # None /\ Ends(p)

-----------------------------------------------------------------------------

Init ==
    /\ disk = [k \in Keys |-> NoDoc]
    /\ ids = [i \in Ids |-> None]
    /\ cycle_keys = [k \in Keys |-> None]
    /\ cyclesLock = None
    /\ successorLock = [k \in Keys |-> None]
    /\ me = [p \in Procs |-> NoInvocation]
    /\ overwritten = {}

Command(p) == \E k \in Keys :
    \/ LoadRerun(p, k) \/ LoadRecord(p, k) \/ Continue(p, k) \/ Create(p, k)
    \/ \E t \in Keys : LoadRestart(p, k, t)

Save(p) == TakeLock(p) \/ Write(p)

Restart(p) == PrepareSuccessor(p) \/ Reserve(p) \/ WriteSource(p)

Advance(p) == Enter(p) \/ Leave(p) \/ Launch(p) \/ Collect(p) \/ NothingToRun(p)
                \/ RoundEnds(p)

Next == \E p \in Procs :
    \/ Command(p) \/ Save(p) \/ Restart(p) \/ Advance(p) \/ Busy(p) \/ Crash(p)
    \/ GiveUp(p)

Spec == Init /\ [][Next]_vars

-----------------------------------------------------------------------------

\* Every file, index entry, lock and copy has the shape the commands expect; a redirect
\* in particular is the key of a cycle, never its public id.
TypeOK ==
    /\ disk \in [Keys -> Doc \cup {NoDoc}]
    /\ ids \in [Ids -> Keys \cup {None}]
    /\ cycle_keys \in [Keys -> Ids \cup {None}]
    /\ cyclesLock \in Procs \cup {None}
    /\ successorLock \in [Keys -> Procs \cup {None}]
    /\ me \in [Procs -> Invocation]
    /\ overwritten \subseteq Keys

\* Every stored cycle has a public id, and the two halves of the index agree: no id
\* is taken from the cycle it was given to, by whatever prefix two digests share.
IndexConsistent ==
    /\ \A k \in Keys : disk[k] # NoDoc => cycle_keys[k] # None
    /\ \A k \in Keys : cycle_keys[k] # None => ids[cycle_keys[k]] = k

\* A cycle redirects to a successor that a restart of it may create and that can be
\* loaded: no crash between the two writes of a reservation leaves a dead end.
RedirectLoads ==
    \A k \in Keys : disk[k] # NoDoc /\ disk[k].redirect # None =>
        disk[k].redirect \in Restarts[k] /\ disk[disk[k].redirect] # NoDoc

\* A cycle redirects exactly when it is aborted, whatever copies of it are saved late:
\* no command goes on with a superseded cycle, and none stops at one without a redirect.
\* Not of a restarted successor that the reservation of its own restart wrote over.
AbortedRedirects ==
    \A k \in Keys : disk[k] # NoDoc /\ k \notin overwritten =>
        (disk[k].stage = "aborted" <=> disk[k].redirect # None)

\* A restart that goes on to advance a cycle advances the one its source redirects to,
\* whoever reserved it: of two restarts with different targets one is refused.
\* Not of the restart of a successor that was written over.
RestartFollowsRedirect ==
    \A p \in Procs :
        me[p].cmd = "restart" /\ me[p].at \in {"queue", "ready", "work", "leave"}
          /\ me[p].source \notin overwritten
          => disk[me[p].source].redirect = me[p].key

\* the successor whose first round an invocation has launched and not ended
FirstRoundOf(p) ==
    IF me[p].launched /\ me[p].doc.rounds = 1 /\ IsSuccessor(me[p].key)
    THEN me[p].key ELSE None

\* However many restarts and reruns with --id race, and whoever dies in between, no two
\* of them run the first round of a successor at a time.  Not of a successor that was
\* written over, which starts anew from the copy its reservation had.
SuccessorStartsOnce ==
    \A p, q \in Procs :
        FirstRoundOf(p) # None /\ FirstRoundOf(p) = FirstRoundOf(q)
          /\ FirstRoundOf(p) \notin overwritten
          /\ "continue" \notin {me[p].cmd, me[q].cmd} => p = q

\* The same of all commands: "The successor review is already advancing; retry this id
\* after the active command finishes" is what a second one gets.
OneFirstRound ==
    \A p, q \in Procs :
        FirstRoundOf(p) # None /\ FirstRoundOf(p) = FirstRoundOf(q) => p = q

\* No order of crashes leaves a lock behind, and no two invocations wait for each
\* other: who holds the lock of the cycles is about to write and waits for nobody, and
\* who holds the lock of a successor is advancing that successor.
LocksAttended ==
    /\ cyclesLock # None => me[cyclesLock].at \in {"write", "source"}
    /\ \A k \in Keys : successorLock[k] # None =>
         LET holder == me[successorLock[k]]
         IN  /\ holder.key = k
             /\ holder.at \in {"ready", "work", "save", "write", "leave"}

\* A gate that was recorded while a review runs stays recorded when the review ends:
\* "Start any required slow checks after dispatch and track their final status"
\* (skills/review/SKILL.md).
GateKept == [][ \A k \in Keys : disk[k] # NoDoc /\ disk[k].gate => disk'[k].gate ]_vars

\* A redirect stays.  It does not where a successor was restarted in turn.
RedirectStays ==
    [][ \A k \in Keys : Superseded(disk[k]) => disk'[k].redirect = disk[k].redirect ]_vars

Registry == INSTANCE CycleRegistry WITH
    life <- [k \in Keys |-> IF disk[k] = NoDoc THEN "absent"
                            ELSE IF disk[k].redirect # None THEN "superseded"
                            ELSE "active"],
    name <- [k \in Keys |-> IF disk[k] = NoDoc THEN None ELSE cycle_keys[k]],
    successor <- [k \in Keys |-> IF disk[k] = NoDoc THEN None ELSE disk[k].redirect]

\* The store keeps the promise of CycleRegistry: ids for good, redirects too, both of
\* cycles that are there; no late save brings a superseded cycle back.  Only the
\* repeated restart of an active cycle may write its successor as it was before.
KeepsRegistry == Registry!Spec
=============================================================================
