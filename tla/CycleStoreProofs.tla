--------------------------- MODULE CycleStoreProofs ---------------------------
(* Theorems about CycleStore, for any number of invocations, cycles, restarts   *)
(* and rounds.  The inductive invariant has a part about the store, one about   *)
(* each invocation (GoodCopy) and one about the locks; an action is shown to    *)
(* keep them one by one.  The last part adds what a copy knows of the document  *)
(* on disk (Linked), of every cycle but those a reservation wrote over, and     *)
(* shows that the store implements CycleRegistry.                               *)
EXTENDS CycleStore, TLAPS

Named(k) == cycle_keys[k] # None
Stored(k) == disk[k] # NoDoc

\* an invocation on its way from one restart to the redirect of its source
Reserving(v) == \/ v.at \in {"restart", "reserve", "source"}
                \/ v.at = "write" /\ v.after = "source"

\* what an invocation relies on in the store when it goes on
GoodCopy(v) ==
    /\ v \in Invocation
    /\ v.at # "idle" => v.key \in Keys
    /\ Reserving(v) => /\ v.source \in Keys /\ Stored(v.source)
                       /\ v.key \in Restarts[v.source]
    /\ v.at = "save" => v.after # "source"
    /\ v.at = "write" => Named(v.key)
    /\ v.at \in {"queue", "source"} => Stored(v.key)
    /\ v.doc.redirect # None => /\ v.key \in Keys
                                /\ v.doc.redirect \in Restarts[v.key]
                                /\ Stored(v.doc.redirect)

StoreTyped ==
    /\ disk \in [Keys -> Doc \cup {NoDoc}]
    /\ ids \in [Ids -> Keys \cup {None}]
    /\ cycle_keys \in [Keys -> Ids \cup {None}]
    /\ overwritten \subseteq Keys

StoreGood == StoreTyped /\ IndexConsistent /\ RedirectLoads

CopiesGood == me \in [Procs -> Invocation] /\ \A p \in Procs : GoodCopy(me[p])

\* where an invocation may be while it holds a lock
KeepsCycles(v) == v.at \in {"write", "source"}
KeepsSuccessor(v, k) ==
    /\ v.key = k
    /\ v.at \in {"ready", "work", "save", "write", "leave"}
    /\ v.at \in {"save", "write"} => v.after \in {"work", "leave"}

LocksGood ==
    /\ cyclesLock \in Procs \cup {None}
    /\ successorLock \in [Keys -> Procs \cup {None}]
    /\ cyclesLock # None => KeepsCycles(me[cyclesLock])
    /\ \A k \in Keys : successorLock[k] # None => KeepsSuccessor(me[successorLock[k]], k)

IInv == StoreGood /\ CopiesGood /\ LocksGood

-----------------------------------------------------------------------------
(* Steps in general                                                         *)

\* a stored document is not the missing one
LEMMA DocStored == ASSUME NEW d \in Doc PROVE d # NoDoc
  BY DEF Doc, NoDoc, Stages

\* what the commands change in a document leaves its redirect alone
LEMMA EditedDoc ==
  ASSUME NEW d \in Doc
  PROVE  /\ [d EXCEPT !.gate = TRUE] \in Doc
         /\ [d EXCEPT !.gate = TRUE].redirect = d.redirect
         /\ \A st \in Stages : /\ [d EXCEPT !.stage = st] \in Doc
                               /\ [d EXCEPT !.stage = st].redirect = d.redirect
BY DEF Doc

\* an invocation that has not loaded anything relies on nothing
LEMMA IdleGood == GoodCopy(NoInvocation) /\ NoInvocation \in Invocation /\ NewDoc \in Doc
  BY KeysAssumption, BoundsAssumption
  DEF GoodCopy, NoInvocation, Invocation, Steps, NewDoc, Doc, Stages, Reserving

\* the store loses no document and no id
StoreGrows == \A k \in Keys : (Stored(k) => Stored(k)') /\ (Named(k) => Named(k)')

OnlyMoves(p) == /\ me' \in [Procs -> Invocation]
                /\ \A q \in Procs \ {p} : me'[q] = me[q]

\* A step of one invocation that loses nothing from the store disturbs no other copy.
LEMMA OthersGood ==
  ASSUME CopiesGood, NEW p \in Procs, OnlyMoves(p), GoodCopy(me[p])', StoreGrows
  PROVE  CopiesGood'
<1>1. ASSUME NEW q \in Procs PROVE GoodCopy(me[q])'
  <2>1. CASE q = p
    BY <2>1
  <2>2. CASE q # p
    <3>1. me'[q] = me[q] /\ GoodCopy(me[q])
      BY <2>2 DEF CopiesGood, OnlyMoves
    <3>. QED
      BY <3>1, KeysAssumption DEF GoodCopy, Reserving, Stored, Named, StoreGrows
  <2>. QED
    BY <2>1, <2>2
<1>. QED
  BY <1>1 DEF CopiesGood, OnlyMoves

\* A step that changes the place of one invocation only leaves the store as good as it was.
LEMMA StoreKept ==
  ASSUME StoreGood, UNCHANGED store
  PROVE  StoreGood' /\ StoreGrows
BY DEF StoreGood, StoreTyped, IndexConsistent, RedirectLoads, StoreGrows, store, Stored, Named

\* The locks are still attended when each of them is free, or left with another
\* invocation, or with the one that moves to a place where it may hold it.
LEMMA LocksKept ==
  ASSUME LocksGood, NEW p \in Procs, OnlyMoves(p),
         \/ cyclesLock' = None
         \/ cyclesLock' = p /\ KeepsCycles(me'[p])
         \/ cyclesLock' = cyclesLock /\ cyclesLock # p,
         successorLock' \in [Keys -> Procs \cup {None}],
         \A k \in Keys :
           \/ successorLock'[k] = None
           \/ successorLock'[k] = p /\ KeepsSuccessor(me'[p], k)
           \/ successorLock'[k] = successorLock[k] /\ successorLock[k] # p
  PROVE  LocksGood'
BY KeysAssumption DEF LocksGood, OnlyMoves, KeepsCycles, KeepsSuccessor

\* An invocation that is neither in a write nor in an advance holds no lock.
LEMMA HoldsNothing ==
  ASSUME LocksGood, NEW p \in Procs
  PROVE  /\ ~KeepsCycles(me[p]) => cyclesLock # p
         /\ \A k \in Keys : ~KeepsSuccessor(me[p], k) => successorLock[k] # p
BY KeysAssumption DEF LocksGood

\* Replacing one invocation by another one moves only that.
LEMMA GoesMoves ==
  ASSUME CopiesGood, NEW p \in Procs, NEW v \in Invocation, Goes(p, v)
  PROVE  OnlyMoves(p) /\ me'[p] = v
BY DEF CopiesGood, Goes, OnlyMoves

\* A step that changes neither store nor locks keeps the invariant when what it makes of
\* its invocation is good and keeps the locks it has.
LEMMA MoveKeeps ==
  ASSUME IInv, NEW p \in Procs, OnlyMoves(p), UNCHANGED <<store, locks>>,
         GoodCopy(me'[p]),
         cyclesLock = p => KeepsCycles(me'[p]),
         \A k \in Keys : successorLock[k] = p => KeepsSuccessor(me'[p], k)
  PROVE  IInv'
<1>1. StoreGood' /\ StoreGrows
  BY StoreKept DEF IInv
<1>2. GoodCopy(me[p])'
  BY DEF GoodCopy, Reserving, Stored, Named, store
<1>3. CopiesGood'
  BY <1>1, <1>2, OthersGood DEF IInv
<1>4. LocksGood'
  <2>1. cyclesLock' = cyclesLock /\ successorLock' = successorLock
    BY DEF locks
  <2>. QED
    BY <2>1, LocksKept DEF IInv, LocksGood
<1>. QED
  BY <1>1, <1>3, <1>4 DEF IInv

\* A stored document is a good copy to start from.
LEMMA LoadedGood ==
  ASSUME IInv, NEW k \in Keys, Stored(k)
  PROVE  /\ disk[k] \in Doc
         /\ disk[k].redirect # None => /\ disk[k].redirect \in Restarts[k]
                                       /\ disk[k].redirect \in Keys
                                       /\ Stored(disk[k].redirect)
BY KeysAssumption DEF IInv, StoreGood, StoreTyped, RedirectLoads, Stored

-----------------------------------------------------------------------------
(* Commands                                                                 *)

LEMMA LoadRerunKeeps ==
  ASSUME IInv, NEW p \in Procs, NEW k \in Keys, LoadRerun(p, k)
  PROVE  IInv'
<1> DEFINE v == [NoInvocation EXCEPT
                  !.key = k, !.doc = disk[k],
                  !.at = IF NeedsLock(k, disk[k]) THEN "queue" ELSE "ready"]
<1>1. Stored(k) /\ me[p].at = "idle" /\ Goes(p, v) /\ UNCHANGED <<store, locks>>
  BY DEF LoadRerun, Loads, Stored
<1>2. v \in Invocation /\ GoodCopy(v)
  BY <1>1, LoadedGood, IdleGood
  DEF GoodCopy, NoInvocation, Invocation, Steps, Reserving
<1>3. OnlyMoves(p) /\ me'[p] = v
  BY <1>1, <1>2, GoesMoves DEF IInv
<1>4. cyclesLock # p /\ \A j \in Keys : successorLock[j] # p
  BY <1>1, HoldsNothing DEF IInv, KeepsCycles, KeepsSuccessor
<1>. QED
  BY <1>1, <1>2, <1>3, <1>4, MoveKeeps

LEMMA LoadRecordKeeps ==
  ASSUME IInv, NEW p \in Procs, NEW k \in Keys, LoadRecord(p, k)
  PROVE  IInv'
<1>1. Stored(k) /\ me[p].at = "idle" /\ UNCHANGED <<store, locks>>
  BY DEF LoadRecord, Loads, Stored
<1>2. PICK d \in Doc : /\ Goes(p, Saving([NoInvocation EXCEPT !.cmd = "record", !.key = k],
                                        d, "idle"))
                       /\ d.redirect = disk[k].redirect
  <2>1. disk[k] \in Doc
    BY <1>1, LoadedGood
  <2>2. /\ [disk[k] EXCEPT !.gate = TRUE] \in Doc
        /\ [disk[k] EXCEPT !.gate = TRUE].redirect = disk[k].redirect
    BY <2>1, EditedDoc
  <2>3. /\ [disk[k] EXCEPT !.stage = "created"] \in Doc
        /\ [disk[k] EXCEPT !.stage = "created"].redirect = disk[k].redirect
    BY <2>1, EditedDoc DEF Stages
  <2>. QED
    BY <2>2, <2>3 DEF LoadRecord
<1> DEFINE v == Saving([NoInvocation EXCEPT !.cmd = "record", !.key = k], d, "idle")
<1>3. v \in Invocation /\ GoodCopy(v)
  BY <1>1, <1>2, LoadedGood, IdleGood
  DEF GoodCopy, NoInvocation, Invocation, Steps, Reserving, Saving
<1>4. OnlyMoves(p) /\ me'[p] = v
  BY <1>2, <1>3, GoesMoves DEF IInv
<1>5. cyclesLock # p /\ \A j \in Keys : successorLock[j] # p
  BY <1>1, HoldsNothing DEF IInv, KeepsCycles, KeepsSuccessor
<1>. QED
  BY <1>1, <1>3, <1>4, <1>5, MoveKeeps

LEMMA LoadRestartKeeps ==
  ASSUME IInv, NEW p \in Procs, NEW k \in Keys, NEW t \in Keys, LoadRestart(p, k, t)
  PROVE  IInv'
<1> DEFINE v == [NoInvocation EXCEPT !.at = "restart", !.cmd = "restart",
                                    !.key = t, !.source = k]
<1>1. /\ Stored(k) /\ t \in Restarts[k] /\ me[p].at = "idle" /\ Goes(p, v)
      /\ UNCHANGED <<store, locks>>
  BY DEF LoadRestart, Loads, Stored
<1>2. v \in Invocation /\ GoodCopy(v)
  BY <1>1, IdleGood DEF GoodCopy, NoInvocation, NewDoc, Invocation, Steps, Reserving
<1>3. OnlyMoves(p) /\ me'[p] = v
  BY <1>1, <1>2, GoesMoves DEF IInv
<1>4. cyclesLock # p /\ \A j \in Keys : successorLock[j] # p
  BY <1>1, HoldsNothing DEF IInv, KeepsCycles, KeepsSuccessor
<1>. QED
  BY <1>1, <1>2, <1>3, <1>4, MoveKeeps

LEMMA ContinueOrCreateKeeps ==
  ASSUME IInv, NEW p \in Procs, NEW k \in Keys, Continue(p, k) \/ Create(p, k)
  PROVE  IInv'
<1>1. PICK d \in Doc :
        /\ Goes(p, [NoInvocation EXCEPT !.at = "ready", !.cmd = "continue", !.key = k, !.doc = d])
        /\ d.redirect # None => d.redirect \in Restarts[k] /\ Stored(d.redirect)
  <2>1. NewDoc.redirect = None
    BY DEF NewDoc
  <2>2. CASE Stored(k)
    BY <2>2, LoadedGood DEF Continue, Create, Active, Stored
  <2>3. CASE ~Stored(k)
    BY <2>1, <2>3, IdleGood DEF Continue, Create, Active, Stored
  <2>. QED
    BY <2>2, <2>3
<1> DEFINE v == [NoInvocation EXCEPT !.at = "ready", !.cmd = "continue", !.key = k, !.doc = d]
<1>2. me[p].at = "idle" /\ UNCHANGED <<store, locks>>
  BY DEF Continue, Create
<1>3. v \in Invocation /\ GoodCopy(v)
  BY <1>1, IdleGood DEF GoodCopy, NoInvocation, Invocation, Steps, Reserving
<1>4. OnlyMoves(p) /\ me'[p] = v
  BY <1>1, <1>3, GoesMoves DEF IInv
<1>5. cyclesLock # p /\ \A j \in Keys : successorLock[j] # p
  BY <1>2, HoldsNothing DEF IInv, KeepsCycles, KeepsSuccessor
<1>. QED
  BY <1>2, <1>3, <1>4, <1>5, MoveKeeps

LEMMA PrepareSuccessorKeeps ==
  ASSUME IInv, NEW p \in Procs, PrepareSuccessor(p)
  PROVE  IInv'
<1> DEFINE u == me[p]
           d == IF disk[u.key] = NoDoc THEN NewDoc ELSE disk[u.key]
           v == [u EXCEPT !.at = "reserve", !.doc = d]
<1>1. u.at = "restart" /\ Goes(p, v) /\ UNCHANGED <<store, locks>>
  BY DEF PrepareSuccessor
<1>2. u \in Invocation /\ GoodCopy(u) /\ u.key \in Keys
  BY <1>1 DEF IInv, CopiesGood, GoodCopy
<1>3. d \in Doc /\ (d.redirect # None => d.redirect \in Restarts[u.key] /\ Stored(d.redirect))
  BY <1>2, LoadedGood, IdleGood DEF Stored, NewDoc
<1> HIDE DEF d
<1>4. v \in Invocation
  BY <1>2, <1>3 DEF Invocation, Steps
<1>5. GoodCopy(v)
  BY <1>1, <1>2, <1>3, <1>4 DEF GoodCopy, Reserving, Invocation
<1>6. OnlyMoves(p) /\ me'[p] = v
  BY <1>1, <1>4, GoesMoves DEF IInv
<1>7. cyclesLock # p /\ \A j \in Keys : successorLock[j] # p
  BY <1>1, HoldsNothing DEF IInv, KeepsCycles, KeepsSuccessor
<1>. QED
  BY <1>1, <1>5, <1>6, <1>7, MoveKeeps

-----------------------------------------------------------------------------
(* Saving                                                                   *)

\* A cycle that is saved has an id afterwards, the ids of the others stay, and the two
\* halves of the index still agree: the new id was nobody's.
LEMMA NamesKeepsStore ==
  ASSUME StoreGood, NEW k \in Keys, Names(k), UNCHANGED <<disk, overwritten>>
  PROVE  StoreGood' /\ StoreGrows /\ Named(k)'
<1>1. /\ ids \in [Ids -> Keys \cup {None}]
      /\ cycle_keys \in [Keys -> Ids \cup {None}]
      /\ \A j \in Keys : cycle_keys[j] # None => ids[cycle_keys[j]] = j
  BY DEF StoreGood, StoreTyped, IndexConsistent
<1>2. /\ ids' \in [Ids -> Keys \cup {None}]
      /\ cycle_keys' \in [Keys -> Ids \cup {None}]
      /\ \A j \in Keys : cycle_keys'[j] # None => ids'[cycle_keys'[j]] = j
      /\ \A j \in Keys : cycle_keys[j] # None => cycle_keys'[j] # None
      /\ cycle_keys'[k] # None
  <2>1. CASE cycle_keys[k] # None
    BY <1>1, <2>1 DEF Names
  <2>2. CASE cycle_keys[k] = None
    <3>1. PICK i \in Ids : /\ ids[i] = None
                           /\ ids' = [ids EXCEPT ![i] = k]
                           /\ cycle_keys' = [cycle_keys EXCEPT ![k] = i]
      BY <2>2 DEF Names, Allots
    <3>2. \A j \in Keys : cycle_keys[j] # i
      BY <1>1, <3>1, KeysAssumption
    <3>. QED
      BY <1>1, <2>2, <3>1, <3>2, KeysAssumption
  <2>. QED
    BY <2>1, <2>2
<1>3. IndexConsistent'
  BY <1>2 DEF StoreGood, IndexConsistent
<1>. QED
  BY <1>2, <1>3 DEF StoreGood, StoreTyped, RedirectLoads, StoreGrows, Stored, Named

\* What save_cycle writes redirects, if at all, to a cycle that is there.
LEMMA MergedGood ==
  ASSUME IInv, NEW k \in Keys, NEW d \in Doc,
         d.redirect # None => d.redirect \in Restarts[k] /\ Stored(d.redirect)
  PROVE  /\ Merged(d, disk[k]) \in Doc
         /\ Merged(d, disk[k]).redirect # None =>
              Merged(d, disk[k]).redirect \in Restarts[k] /\ Stored(Merged(d, disk[k]).redirect)
<1>1. CASE Superseded(disk[k])
  <2>1. Stored(k)
    BY <1>1 DEF Superseded, Stored
  <2>2. /\ disk[k].stage \in Stages
        /\ disk[k].redirect \in Restarts[k] /\ disk[k].redirect \in Keys
        /\ Stored(disk[k].redirect)
    BY <1>1, <2>1, LoadedGood DEF Superseded, Doc
  <2>3. Merged(d, disk[k]) = [d EXCEPT !.stage = disk[k].stage, !.redirect = disk[k].redirect]
    BY <1>1 DEF Merged
  <2>. QED
    BY <2>2, <2>3 DEF Doc
<1>2. CASE ~Superseded(disk[k])
  BY <1>2 DEF Merged
<1>. QED
  BY <1>1, <1>2

LEMMA TakeLockKeeps ==
  ASSUME IInv, NEW p \in Procs, TakeLock(p)
  PROVE  IInv'
<1> DEFINE u == me[p]
           d == Merged(u.doc, disk[u.key])
           v == [u EXCEPT !.at = "write", !.doc = d]
<1>1. /\ u.at = "save" /\ cyclesLock' = p /\ Names(u.key)
      /\ UNCHANGED <<disk, successorLock, overwritten>>
      /\ u \in Invocation /\ GoodCopy(u) /\ u.key \in Keys /\ u.doc \in Doc
  BY DEF TakeLock, IInv, CopiesGood, GoodCopy, Invocation
<1>2. Goes(p, v)
  BY <1>1 DEF TakeLock, Invocation
<1>3. d \in Doc /\ (d.redirect # None => d.redirect \in Restarts[u.key] /\ Stored(d.redirect))
  BY <1>1, MergedGood DEF GoodCopy
<1> HIDE DEF d
<1>4. v \in Invocation /\ v.key = u.key /\ v.at = "write" /\ v.after = u.after /\ v.doc = d
  BY <1>1, <1>3 DEF Invocation, Steps
<1>5. PICK k \in Keys : k = u.key
  BY <1>1
<1>6. StoreGood' /\ StoreGrows /\ Named(k)'
  BY <1>1, <1>5, NamesKeepsStore DEF IInv
<1>7. OnlyMoves(p) /\ me'[p] = v
  BY <1>2, <1>4, GoesMoves DEF IInv
<1>8. GoodCopy(me[p])'
  BY <1>1, <1>3, <1>4, <1>5, <1>6, <1>7, KeysAssumption
  DEF GoodCopy, Reserving, StoreGrows, Stored, Named
<1>9. CopiesGood'
  BY <1>6, <1>7, <1>8, OthersGood DEF IInv
<1>10. LocksGood'
  <2>1. KeepsCycles(v)
    BY <1>4 DEF KeepsCycles
  <2>2. \A j \in Keys : successorLock[j] = p => KeepsSuccessor(v, j)
    BY <1>1, <1>4, KeysAssumption DEF IInv, LocksGood, KeepsSuccessor
  <2>. QED
    BY <1>1, <1>7, <2>1, <2>2, LocksKept DEF IInv, LocksGood
<1>. QED
  BY <1>6, <1>9, <1>10 DEF IInv

\* A document whose redirect can be loaded keeps the store good, once the cycle has an id.
LEMMA WrittenKeepsStore ==
  ASSUME StoreGood, NEW k \in Keys, NEW d \in Doc, Named(k),
         d.redirect # None => d.redirect \in Restarts[k] /\ Stored(d.redirect),
         disk' = [disk EXCEPT ![k] = d], UNCHANGED <<ids, cycle_keys>>,
         overwritten' \subseteq overwritten \cup {k}
  PROVE  StoreGood' /\ StoreGrows /\ Stored(k)'
<1>1. d # NoDoc
  BY DocStored
<1>2. disk' \in [Keys -> Doc \cup {NoDoc}] /\ disk'[k] = d
  BY DEF StoreGood, StoreTyped
<1>3. \A j \in Keys : Stored(j) => disk'[j] # NoDoc
  BY <1>1, <1>2 DEF StoreGood, StoreTyped, Stored
<1>4. RedirectLoads'
  <2>1. ASSUME NEW j \in Keys, disk'[j] # NoDoc, disk'[j].redirect # None
        PROVE  disk'[j].redirect \in Restarts[j] /\ disk'[disk'[j].redirect] # NoDoc
    <3>1. CASE j = k
      BY <1>2, <1>3, <2>1, <3>1, KeysAssumption
    <3>2. CASE j # k
      <4>1. disk'[j] = disk[j]
        BY <3>2 DEF StoreGood, StoreTyped
      <4>2. disk[j].redirect \in Restarts[j] /\ Stored(disk[j].redirect)
        BY <2>1, <4>1 DEF StoreGood, RedirectLoads, Stored
      <4>. QED
        BY <1>3, <4>1, <4>2, KeysAssumption
    <3>. QED
      BY <3>1, <3>2
  <2>. QED
    BY <2>1 DEF RedirectLoads
<1>5. IndexConsistent'
  <2>1. ASSUME NEW j \in Keys, disk'[j] # NoDoc PROVE cycle_keys[j] # None
    BY <2>1 DEF StoreGood, StoreTyped, IndexConsistent, Named
  <2>. QED
    BY <2>1 DEF StoreGood, IndexConsistent
<1>. QED
  BY <1>1, <1>2, <1>3, <1>4, <1>5 DEF StoreGood, StoreTyped, StoreGrows, Stored, Named

LEMMA WriteKeeps ==
  ASSUME IInv, NEW p \in Procs, Write(p)
  PROVE  IInv'
<1> DEFINE u == me[p]
           v == IF u.after = "idle" THEN NoInvocation ELSE [u EXCEPT !.at = u.after]
<1>1. /\ u.at = "write" /\ Goes(p, v) /\ UNCHANGED <<ids, cycle_keys, successorLock>>
      /\ cyclesLock' = IF u.after = "source" THEN p ELSE None
      /\ disk' = [disk EXCEPT ![u.key] = u.doc]
      /\ overwritten' \subseteq overwritten \cup {u.key}
      /\ u \in Invocation /\ GoodCopy(u) /\ u.key \in Keys /\ u.doc \in Doc
  BY DEF Write, IInv, CopiesGood, GoodCopy, Invocation
<1>2. PICK k \in Keys : k = u.key
  BY <1>1
<1>3. StoreGood' /\ StoreGrows /\ Stored(k)'
  BY <1>1, <1>2, WrittenKeepsStore DEF IInv, GoodCopy
<1>4. v \in Invocation
  BY <1>1, IdleGood DEF Invocation, Steps
<1>5. OnlyMoves(p) /\ me'[p] = v
  BY <1>1, <1>4, GoesMoves DEF IInv
<1>6. GoodCopy(me[p])'
  <2>1. CASE u.after = "idle"
    <3>1. v = NoInvocation
      BY <2>1
    <3>. QED
      BY <3>1, <1>4, <1>5, IdleGood DEF GoodCopy, NoInvocation, NewDoc, Reserving
  <2>2. CASE u.after # "idle"
    <3>1. /\ v.at = u.after /\ v.key = k /\ v.source = u.source /\ v.doc = u.doc
          /\ u.after \in {"work", "leave", "source"}
      BY <1>1, <1>2, <2>2 DEF Invocation
    <3>. QED
      BY <1>1, <1>2, <1>3, <1>4, <1>5, <3>1, KeysAssumption
      DEF GoodCopy, Reserving, StoreGrows, Stored, Named
  <2>. QED
    BY <2>1, <2>2
<1>7. CopiesGood'
  BY <1>3, <1>5, <1>6, OthersGood DEF IInv
<1>8. LocksGood'
  <2>1. u.after = "source" => KeepsCycles(v)
    BY <1>1 DEF KeepsCycles, Invocation
  <2>2. \A j \in Keys : successorLock[j] = p => KeepsSuccessor(v, j)
    BY <1>1, KeysAssumption DEF IInv, LocksGood, KeepsSuccessor, Invocation
  <2>. QED
    BY <1>1, <1>5, <2>1, <2>2, LocksKept DEF IInv, LocksGood
<1>. QED
  BY <1>3, <1>7, <1>8 DEF IInv

-----------------------------------------------------------------------------
(* Reserving and resuming a successor                                       *)

LEMMA ReserveKeeps ==
  ASSUME IInv, NEW p \in Procs, Reserve(p)
  PROVE  IInv'
<1> DEFINE u == me[p]
           chosen == RedirectOf(disk[u.source])
<1>1. /\ u.at = "reserve" /\ u \in Invocation /\ GoodCopy(u) /\ u.key \in Keys
      /\ u.source \in Keys /\ Stored(u.source)
      /\ UNCHANGED <<disk, successorLock, overwritten>>
  BY DEF Reserve, IInv, CopiesGood, GoodCopy, Reserving
<1>2. PICK k \in Keys : k = u.key
  BY <1>1
<1>3. cyclesLock # p /\ \A j \in Keys : successorLock[j] # p
  BY <1>1, HoldsNothing DEF IInv, KeepsCycles, KeepsSuccessor
<1>4. CASE chosen = None
  <2> DEFINE v == [u EXCEPT !.at = "write", !.after = "source"]
  <2>1. cyclesLock' = p /\ Names(u.key) /\ Goes(p, v)
    BY <1>2, <1>4, KeysAssumption DEF Reserve
  <2>2. StoreGood' /\ StoreGrows /\ Named(k)'
    BY <1>1, <1>2, <2>1, NamesKeepsStore DEF IInv
  <2>3. /\ v \in Invocation /\ v.key = k /\ v.at = "write" /\ v.doc = u.doc
        /\ v.source = u.source
    BY <1>1, <1>2 DEF Invocation, Steps
  <2>4. OnlyMoves(p) /\ me'[p] = v
    BY <2>1, <2>3, GoesMoves DEF IInv
  <2>5. GoodCopy(me[p])'
    BY <1>1, <1>2, <2>2, <2>3, <2>4, KeysAssumption
    DEF GoodCopy, Reserving, StoreGrows, Stored, Named
  <2>6. CopiesGood'
    BY <2>2, <2>4, <2>5, OthersGood DEF IInv
  <2>7. LocksGood'
    BY <1>1, <1>3, <2>1, <2>3, <2>4, LocksKept DEF IInv, LocksGood, KeepsCycles
  <2>. QED
    BY <2>2, <2>6, <2>7 DEF IInv
<1>5. CASE chosen # None
  <2>1. UNCHANGED <<store, locks>>
    BY <1>1, <1>5 DEF Reserve, store, locks
  <2>2. \/ Goes(p, NoInvocation)
        \/ chosen = u.key /\ Goes(p, [u EXCEPT !.at = "queue", !.doc = disk[u.key]])
    BY <1>5 DEF Reserve
  <2>3. CASE Goes(p, NoInvocation)
    <3>1. OnlyMoves(p) /\ me'[p] = NoInvocation
      BY <2>3, GoesMoves, IdleGood DEF IInv
    <3>. QED
      BY <1>3, <2>1, <3>1, IdleGood, MoveKeeps
  <2>4. CASE chosen = u.key /\ Goes(p, [u EXCEPT !.at = "queue", !.doc = disk[u.key]])
    <3> DEFINE v == [u EXCEPT !.at = "queue", !.doc = disk[u.key]]
    <3>1. Stored(u.key)
      BY <1>1, <1>5, <2>4 DEF RedirectOf, Superseded, IInv, StoreGood, RedirectLoads, Stored
    <3>2. /\ disk[u.key] \in Doc
          /\ disk[u.key].redirect # None =>
               disk[u.key].redirect \in Restarts[u.key] /\ Stored(disk[u.key].redirect)
      BY <1>1, <3>1, LoadedGood
    <3>3. v \in Invocation /\ GoodCopy(v)
      BY <1>1, <3>1, <3>2 DEF GoodCopy, Reserving, Invocation, Steps
    <3>4. OnlyMoves(p) /\ me'[p] = v
      BY <2>4, <3>3, GoesMoves DEF IInv
    <3>. QED
      BY <1>3, <2>1, <3>3, <3>4, MoveKeeps
  <2>. QED
    BY <2>2, <2>3, <2>4
<1>. QED
  BY <1>4, <1>5

LEMMA WriteSourceKeeps ==
  ASSUME IInv, NEW p \in Procs, WriteSource(p)
  PROVE  IInv'
<1> DEFINE u == me[p]
           d == [disk[u.source] EXCEPT !.stage = "aborted", !.redirect = u.key]
           v == [u EXCEPT !.at = "queue"]
<1>1. /\ u.at = "source" /\ u \in Invocation /\ GoodCopy(u) /\ u.key \in Keys
      /\ u.source \in Keys /\ Stored(u.source) /\ u.key \in Restarts[u.source]
      /\ Stored(u.key) /\ Goes(p, v) /\ cyclesLock' = None
      /\ UNCHANGED <<ids, cycle_keys, successorLock, overwritten>>
  BY DEF WriteSource, IInv, CopiesGood, GoodCopy, Reserving
<1>2. disk[u.source] \in Doc
  BY <1>1, LoadedGood
<1>3. d \in Doc /\ d.redirect = u.key
  BY <1>1, <1>2 DEF Doc, Stages
<1>4. disk' = [disk EXCEPT ![u.source] = d]
  BY <1>1 DEF WriteSource, Target, IInv, StoreGood, StoreTyped
<1> HIDE DEF d
<1>5. Named(u.source)
  BY <1>1 DEF IInv, StoreGood, IndexConsistent, Named, Stored
<1>6. StoreGood' /\ StoreGrows
  BY <1>1, <1>3, <1>4, <1>5, WrittenKeepsStore DEF IInv
<1>7. v \in Invocation /\ v.at = "queue" /\ v.key = u.key /\ v.doc = u.doc
  BY <1>1 DEF Invocation, Steps
<1>8. OnlyMoves(p) /\ me'[p] = v
  BY <1>1, <1>7, GoesMoves DEF IInv
<1>9. GoodCopy(me[p])'
  BY <1>1, <1>6, <1>7, <1>8, KeysAssumption DEF GoodCopy, Reserving, StoreGrows, Stored, Named
<1>10. CopiesGood'
  BY <1>6, <1>8, <1>9, OthersGood DEF IInv
<1>11. \A j \in Keys : successorLock[j] # p
  BY <1>1, HoldsNothing DEF IInv, KeepsSuccessor
<1>12. LocksGood'
  BY <1>1, <1>8, <1>11, LocksKept DEF IInv, LocksGood
<1>. QED
  BY <1>6, <1>10, <1>12 DEF IInv

\* An invocation that ends, for whatever reason, leaves nothing locked.
LEMMA EndsKeeps ==
  ASSUME IInv, NEW p \in Procs, Ends(p)
  PROVE  IInv'
<1>1. OnlyMoves(p) /\ me'[p] = NoInvocation
  BY GoesMoves, IdleGood DEF IInv, Ends
<1>2. StoreGood' /\ StoreGrows
  BY StoreKept DEF IInv, Ends
<1>3. GoodCopy(me[p])'
  BY <1>1, IdleGood DEF GoodCopy, NoInvocation, NewDoc, Reserving
<1>4. CopiesGood'
  BY <1>1, <1>2, <1>3, OthersGood DEF IInv
<1>5. LocksGood'
  BY <1>1, LocksKept DEF IInv, LocksGood, Ends, Dropped
<1>. QED
  BY <1>2, <1>4, <1>5 DEF IInv

LEMMA EnterKeeps ==
  ASSUME IInv, NEW p \in Procs, Enter(p)
  PROVE  IInv'
<1> DEFINE u == me[p]
           d == disk[u.key]
           w == [u EXCEPT !.doc = d]
<1>1. /\ u.at = "queue" /\ u \in Invocation /\ GoodCopy(u) /\ u.key \in Keys
      /\ Stored(u.key) /\ UNCHANGED <<store, cyclesLock>>
  BY DEF Enter, IInv, CopiesGood, GoodCopy
<1>2. d \in Doc /\ (d.redirect # None => d.redirect \in Restarts[u.key] /\ Stored(d.redirect))
  BY <1>1, LoadedGood
<1>3. cyclesLock # p /\ \A j \in Keys : successorLock[j] # p
  BY <1>1, HoldsNothing DEF IInv, KeepsCycles, KeepsSuccessor
<1>4. \/ Goes(p, NoInvocation) /\ UNCHANGED successorLock
      \/ Goes(p, Saving(w, d, "idle")) /\ UNCHANGED successorLock
      \/ Goes(p, [w EXCEPT !.at = "ready"]) /\ successorLock' = [successorLock EXCEPT ![u.key] = p]
  BY <1>1, <1>2 DEF Enter, Invocation
<1>5. CASE Goes(p, NoInvocation) /\ UNCHANGED successorLock
  <2>1. OnlyMoves(p) /\ me'[p] = NoInvocation /\ UNCHANGED <<store, locks>>
    BY <1>1, <1>5, GoesMoves, IdleGood DEF IInv, locks
  <2>. QED
    BY <1>3, <2>1, IdleGood, MoveKeeps
<1>6. CASE Goes(p, Saving(w, d, "idle")) /\ UNCHANGED successorLock
  <2>1. Saving(w, d, "idle") \in Invocation /\ GoodCopy(Saving(w, d, "idle"))
    BY <1>1, <1>2 DEF GoodCopy, Reserving, Invocation, Steps, Saving
  <2>2. OnlyMoves(p) /\ me'[p] = Saving(w, d, "idle") /\ UNCHANGED <<store, locks>>
    BY <1>1, <1>6, <2>1, GoesMoves DEF IInv, locks
  <2>. QED
    BY <1>3, <2>1, <2>2, MoveKeeps
<1>7. CASE Goes(p, [w EXCEPT !.at = "ready"])
             /\ successorLock' = [successorLock EXCEPT ![u.key] = p]
  <2> DEFINE v == [w EXCEPT !.at = "ready"]
  <2>1. v \in Invocation /\ v.at = "ready" /\ v.key = u.key /\ v.doc = d
    BY <1>1, <1>2 DEF Invocation, Steps
  <2>2. OnlyMoves(p) /\ me'[p] = v
    BY <1>7, <2>1, GoesMoves DEF IInv
  <2>3. StoreGood' /\ StoreGrows
    BY <1>1, StoreKept DEF IInv
  <2>4. GoodCopy(me[p])'
    BY <1>1, <1>2, <2>1, <2>2, <2>3, KeysAssumption
    DEF GoodCopy, Reserving, StoreGrows, Stored, Named
  <2>5. CopiesGood'
    BY <2>2, <2>3, <2>4, OthersGood DEF IInv
  <2>6. LocksGood'
    <3>1. KeepsSuccessor(v, u.key)
      BY <2>1 DEF KeepsSuccessor
    <3>2. successorLock' \in [Keys -> Procs \cup {None}]
      BY <1>7 DEF IInv, LocksGood
    <3>3. \A j \in Keys : \/ successorLock'[j] = p /\ j = u.key
                          \/ successorLock'[j] = successorLock[j]
      BY <1>7 DEF IInv, LocksGood
    <3>. QED
      BY <1>1, <1>3, <2>2, <3>1, <3>2, <3>3, LocksKept DEF IInv
  <2>. QED
    BY <2>3, <2>5, <2>6 DEF IInv
<1>. QED
  BY <1>4, <1>5, <1>6, <1>7

LEMMA BusyKeeps ==
  ASSUME IInv, NEW p \in Procs, Busy(p)
  PROVE  IInv'
<1>1. OnlyMoves(p) /\ me'[p] = NoInvocation /\ UNCHANGED <<store, locks>>
  BY GoesMoves, IdleGood DEF IInv, Busy
<1>2. cyclesLock # p /\ \A j \in Keys : successorLock[j] # p
  BY HoldsNothing DEF Busy, IInv, KeepsCycles, KeepsSuccessor
<1>. QED
  BY <1>1, <1>2, IdleGood, MoveKeeps

LEMMA LeaveKeeps ==
  ASSUME IInv, NEW p \in Procs, Leave(p)
  PROVE  IInv'
<1> DEFINE u == me[p]
           v == IF u.cmd = "rerun" THEN Saving(u, u.doc, "idle") ELSE NoInvocation
<1>1. /\ u.at = "leave" /\ u \in Invocation /\ GoodCopy(u) /\ u.key \in Keys
      /\ Goes(p, v) /\ successorLock' = [successorLock EXCEPT ![u.key] = None]
      /\ UNCHANGED <<store, cyclesLock>>
  BY DEF Leave, IInv, CopiesGood, GoodCopy
<1>2. v \in Invocation /\ GoodCopy(v)
  <2>1. CASE u.cmd = "rerun"
    <3>1. v = Saving(u, u.doc, "idle") /\ u.doc \in Doc
      BY <1>1, <2>1 DEF Invocation
    <3>2. v \in Invocation /\ v.at = "save" /\ v.after = "idle" /\ v.key = u.key /\ v.doc = u.doc
      BY <1>1, <3>1 DEF Invocation, Steps, Saving
    <3>. QED
      BY <1>1, <3>2 DEF GoodCopy, Reserving
  <2>2. CASE u.cmd # "rerun"
    BY <2>2, IdleGood
  <2>. QED
    BY <2>1, <2>2
<1> HIDE DEF v
<1>3. OnlyMoves(p) /\ me'[p] = v
  BY <1>1, <1>2, GoesMoves DEF IInv
<1>4. StoreGood' /\ StoreGrows
  BY <1>1, StoreKept DEF IInv
<1>5. GoodCopy(me[p])'
  BY <1>1, <1>2, <1>3 DEF GoodCopy, Reserving, Stored, Named, store
<1>6. CopiesGood'
  BY <1>3, <1>4, <1>5, OthersGood DEF IInv
<1>7. LocksGood'
  <2>1. cyclesLock # p
    BY <1>1, HoldsNothing DEF IInv, KeepsCycles
  <2>2. \A j \in Keys : successorLock[j] = p => j = u.key
    BY KeysAssumption DEF IInv, LocksGood, KeepsSuccessor
  <2>. QED
    BY <1>1, <1>3, <2>1, <2>2, LocksKept DEF IInv, LocksGood
<1>. QED
  BY <1>4, <1>6, <1>7 DEF IInv

-----------------------------------------------------------------------------
(* Advancing                                                                *)

\* A step between `ready` and the end of a round saves or goes on, and keeps the lock.
LEMMA AdvanceKeeps ==
  ASSUME IInv, NEW p \in Procs, Launch(p) \/ Collect(p) \/ NothingToRun(p) \/ RoundEnds(p)
  PROVE  IInv'
<1> DEFINE u == me[p]
<1>1. /\ u.at \in {"ready", "work"} /\ u \in Invocation /\ GoodCopy(u) /\ u.key \in Keys
      /\ u.doc \in Doc /\ UNCHANGED <<store, locks>>
  BY DEF Launch, Collect, NothingToRun, RoundEnds, IInv, CopiesGood, GoodCopy, Invocation
<1>2. AfterAdvance(p) \in {"leave", "idle"}
  BY DEF AfterAdvance
<1>3. cyclesLock # p
  BY <1>1, HoldsNothing DEF IInv, KeepsCycles
<1>4. \A j \in Keys : successorLock[j] = p => u.key = j /\ AfterAdvance(p) = "leave"
  BY KeysAssumption DEF IInv, LocksGood, KeepsSuccessor, AfterAdvance, HoldsSuccessor
<1>5. ASSUME NEW d \in Doc, d.redirect = u.doc.redirect, NEW b \in BOOLEAN,
             NEW a \in {"work", "leave", "idle"},
             a # "work" => a = AfterAdvance(p),
             Goes(p, [Saving(u, d, a) EXCEPT !.launched = b])
      PROVE  IInv'
  <2> DEFINE v == [Saving(u, d, a) EXCEPT !.launched = b]
  <2>1. v \in Invocation /\ v.at = "save" /\ v.after = a /\ v.key = u.key /\ v.doc = d
    BY <1>1, <1>5 DEF Invocation, Steps, Saving
  <2>2. GoodCopy(v)
    BY <1>1, <1>5, <2>1 DEF GoodCopy, Reserving
  <2>3. OnlyMoves(p) /\ me'[p] = v
    BY <1>5, <2>1, GoesMoves DEF IInv
  <2>4. \A j \in Keys : successorLock[j] = p => KeepsSuccessor(v, j)
    BY <1>4, <1>5, <2>1 DEF KeepsSuccessor
  <2>. QED
    BY <1>1, <1>3, <2>2, <2>3, <2>4, MoveKeeps
<1>6. CASE Launch(p)
  <2>1. [u.doc EXCEPT !.stage = "running", !.rounds = @ + 1] \in Doc
    <3>1. u.doc.rounds \in 0 .. MaxRounds /\ u.doc.rounds < MaxRounds
      BY <1>1, <1>6 DEF Launch, Doc
    <3>2. u.doc.rounds + 1 \in 0 .. MaxRounds
      BY <3>1, BoundsAssumption
    <3>. QED
      BY <1>1, <3>2 DEF Doc, Stages
  <2>2. [u.doc EXCEPT !.stage = "running", !.rounds = @ + 1].redirect = u.doc.redirect
    BY <1>1 DEF Doc
  <2>. QED
    BY <1>5, <1>6, <2>1, <2>2 DEF Launch
<1>7. CASE Collect(p)
  <2> DEFINE v == [u EXCEPT !.at = "work"]
  <2>1. v \in Invocation /\ v.at = "work" /\ v.key = u.key /\ v.doc = u.doc
    BY <1>1 DEF Invocation, Steps
  <2>2. GoodCopy(v)
    BY <1>1, <2>1 DEF GoodCopy, Reserving
  <2>3. OnlyMoves(p) /\ me'[p] = v
    BY <1>7, <2>1, GoesMoves DEF IInv, Collect
  <2>4. \A j \in Keys : successorLock[j] = p => KeepsSuccessor(v, j)
    BY <1>4, <2>1 DEF KeepsSuccessor
  <2>. QED
    BY <1>1, <1>3, <2>2, <2>3, <2>4, MoveKeeps
<1>8. CASE NothingToRun(p)
  <2>1. Saving(u, u.doc, AfterAdvance(p))
          = [Saving(u, u.doc, AfterAdvance(p)) EXCEPT !.launched = u.launched]
    BY <1>1 DEF Saving, Invocation
  <2>2. u.launched \in BOOLEAN
    BY <1>1 DEF Invocation
  <2>. QED
    BY <1>1, <1>2, <1>5, <1>8, <2>1, <2>2 DEF NothingToRun
<1>9. CASE RoundEnds(p)
  <2>1. /\ [u.doc EXCEPT !.stage = "pending"] \in Doc
        /\ [u.doc EXCEPT !.stage = "pending"].redirect = u.doc.redirect
    BY <1>1, EditedDoc DEF Stages
  <2>. QED
    BY <1>2, <1>5, <1>9, <2>1 DEF RoundEnds
<1>. QED
  BY <1>6, <1>7, <1>8, <1>9

-----------------------------------------------------------------------------
(* The theorems                                                             *)

LEMMA InitInv == Init => IInv
<1> SUFFICES ASSUME Init PROVE IInv
  OBVIOUS
<1>1. StoreGood
  BY KeysAssumption DEF Init, StoreGood, StoreTyped, IndexConsistent, RedirectLoads
<1>2. CopiesGood
  BY IdleGood DEF Init, CopiesGood
<1>3. LocksGood
  BY DEF Init, LocksGood
<1>. QED
  BY <1>1, <1>2, <1>3 DEF IInv

LEMMA StutterKeeps == ASSUME IInv, UNCHANGED vars PROVE IInv'
<1>1. /\ disk' = disk /\ ids' = ids /\ cycle_keys' = cycle_keys /\ overwritten' = overwritten
      /\ cyclesLock' = cyclesLock /\ successorLock' = successorLock /\ me' = me
  BY DEF vars, store, locks
<1>2. StoreGood'
  BY <1>1 DEF IInv, StoreGood, StoreTyped, IndexConsistent, RedirectLoads
<1>3. CopiesGood'
  BY <1>1 DEF IInv, CopiesGood, GoodCopy, Reserving, Stored, Named
<1>4. LocksGood'
  BY <1>1 DEF IInv, LocksGood, KeepsCycles, KeepsSuccessor
<1>. QED
  BY <1>2, <1>3, <1>4 DEF IInv

LEMMA NextKeeps == ASSUME IInv, Next PROVE IInv'
<1>1. PICK p \in Procs :
        Command(p) \/ Save(p) \/ Restart(p) \/ Advance(p) \/ Busy(p) \/ Crash(p) \/ GiveUp(p)
  BY DEF Next
<1>2. CASE Command(p)
  BY <1>2, LoadRerunKeeps, LoadRecordKeeps, ContinueOrCreateKeeps, LoadRestartKeeps DEF Command
<1>3. CASE Save(p)
  BY <1>3, TakeLockKeeps, WriteKeeps DEF Save
<1>4. CASE Restart(p)
  BY <1>4, PrepareSuccessorKeeps, ReserveKeeps, WriteSourceKeeps DEF Restart
<1>5. CASE Advance(p)
  BY <1>5, EnterKeeps, LeaveKeeps, AdvanceKeeps DEF Advance
<1>6. CASE Busy(p)
  BY <1>6, BusyKeeps
<1>7. CASE Crash(p) \/ GiveUp(p)
  BY <1>7, EndsKeeps DEF Crash, GiveUp
<1>. QED
  BY <1>1, <1>2, <1>3, <1>4, <1>5, <1>6, <1>7

\* The inductive invariant holds of every reachable state.
THEOREM StoreInvariance == Spec => []IInv
<1>1. IInv /\ [Next]_vars => IInv'
  BY NextKeeps, StutterKeeps
<1>. QED
  BY InitInv, <1>1, PTL DEF Spec

\* Files, index, locks and copies keep their shape (save_cycle, reserve_cycle_successor,
\* public_id_for_cycle_key): a command never takes a missing document for a stored one.
THEOREM StoreTypeCorrect == Spec => []TypeOK
<1>1. IInv => TypeOK
  BY DEF IInv, TypeOK, StoreGood, StoreTyped, CopiesGood, LocksGood
<1>. QED
  BY StoreInvariance, <1>1, PTL

\* The index stays consistent (public_id_for_cycle_key), however many prefixes of the
\* digests coincide: an id names one cycle for good.
THEOREM IdsStay == Spec => []IndexConsistent
<1>1. IInv => IndexConsistent
  BY DEF IInv, StoreGood
<1>. QED
  BY StoreInvariance, <1>1, PTL

\* A redirect can be followed (reserve_cycle_successor), wherever a process dies.
THEOREM NoDeadEnd == Spec => []RedirectLoads
<1>1. IInv => RedirectLoads
  BY DEF IInv, StoreGood
<1>. QED
  BY StoreInvariance, <1>1, PTL

\* Who holds a lock is on its way to release it (orchestrator_store_lock): nothing is left
\* locked and nobody waits in a circle.
THEOREM NoLockLeft == Spec => []LocksAttended
<1>1. IInv => LocksAttended
  BY KeysAssumption DEF IInv, LocksGood, LocksAttended, KeepsCycles, KeepsSuccessor
<1>. QED
  BY StoreInvariance, <1>1, PTL

-----------------------------------------------------------------------------
(* What a copy knows of the document on disk                                *)
(*                                                                          *)
(* reserve_cycle_successor writes the successor as it was read before the   *)
(* lock was taken.  That overwrites the redirect of a successor which was   *)
(* restarted itself meanwhile; `overwritten` has the cycles this happened   *)
(* to, and the links hold of all others.                                    *)

Kept(k) == k \notin overwritten
Spared(k) == k \notin overwritten'     \* in this step as well

\* a round that was launched is counted
Counted(d) == d.stage \in {"running", "pending"} => d.rounds # 0

RedirectsTo(k, t) == k \in Keys /\ Stored(k) /\ disk[k].redirect = t

\* a copy knows no redirect but the one on disk; a restart goes on with the successor its
\* source redirects to
Linked(v) ==
    /\ v.doc.redirect # None => /\ Stored(v.key)
                                /\ Kept(v.key) => RedirectsTo(v.key, v.doc.redirect)
    /\ v.doc.stage = "aborted" /\ Kept(v.key) => v.doc.redirect # None
    /\ v.cmd = "restart" /\ ~Reserving(v) =>
         /\ v.key # None /\ v.source \in Keys
         /\ Kept(v.source) => RedirectsTo(v.source, v.key)

\* what a save is about to write was merged with what is on disk; a reservation writes a
\* document as it was on disk
InSource(v) == v.at = "source" \/ (v.at = "write" /\ v.after = "source")
Prepared(v) == v.at = "reserve" \/ (v.at = "write" /\ v.after = "source")
Merging(v) ==
    /\ InSource(v) => disk[v.source].redirect = None
    /\ v.at = "write" /\ v.after # "source" /\ Superseded(disk[v.key]) =>
         v.doc.stage = disk[v.key].stage /\ v.doc.redirect = disk[v.key].redirect
    /\ Prepared(v) /\ Kept(v.key) /\ v.doc.redirect # None => v.doc.stage = "aborted"

\* where a round is under way, it is in the copy
InRound(v) == v.at = "work" \/ (v.at \in {"save", "write"} /\ v.after = "work")
Rounds(v) ==
    /\ v.launched => InRound(v)
    /\ IsSuccessor(v.key) /\ Kept(v.key) =>
         Counted(v.doc) /\ (InRound(v) => v.doc.rounds # 0)

\* the first round of a successor is run under its lock, which is left by its holder
Leaving(v) == v.at = "leave" \/ (v.at \in {"save", "write"} /\ v.after = "leave")
FirstLocked(p, v) ==
    /\ Leaving(v) => successorLock[v.key] = p
    /\ v.cmd # "continue" /\ IsSuccessor(v.key) /\ Kept(v.key) =>
         /\ v.at = "ready" /\ Startable(v.doc) => successorLock[v.key] = p
         /\ v.launched /\ v.doc.rounds = 1 => successorLock[v.key] = p

CopyLinked(v) == Linked(v) /\ Merging(v) /\ Rounds(v)

DiskLinked ==
    /\ AbortedRedirects
    /\ \A k \in Keys : IsSuccessor(k) /\ Stored(k) /\ Kept(k) => Counted(disk[k])

LinksGood ==
    /\ DiskLinked
    /\ \A p \in Procs : /\ CopyLinked(me[p]) /\ FirstLocked(p, me[p])
                        /\ KeepsCycles(me[p]) => cyclesLock = p

Links == IInv /\ LinksGood

\* documents stay, and a redirect on disk is for good unless it is written over now
RedirectsStay ==
    \A k \in Keys : Stored(k) =>
        /\ Stored(k)'
        /\ disk[k].redirect # None /\ Spared(k) => disk'[k].redirect = disk[k].redirect

\* An invocation that has not loaded anything says nothing of the store.
LEMMA IdleLinked == CopyLinked(NoInvocation)
  BY KeysAssumption
  DEF CopyLinked, Linked, Merging, Rounds, NoInvocation, NewDoc, InSource, Prepared, InRound,
      Counted, IsSuccessor, Reserving

LEMMA SuccessorIsKey == ASSUME NEW k, IsSuccessor(k) PROVE k \in Keys
  BY KeysAssumption DEF IsSuccessor

\* A step of one invocation keeps the links when its own copy stays linked and it writes
\* only under the lock of the cycles, and no redirect away.
LEMMA LinksKept ==
  ASSUME Links, NEW p \in Procs, OnlyMoves(p), DiskLinked', RedirectsStay,
         overwritten \subseteq overwritten',
         UNCHANGED disk \/ KeepsCycles(me[p]),
         CopyLinked(me[p])', FirstLocked(p, me[p])', KeepsCycles(me'[p]) => cyclesLock' = p,
         \A q \in Procs \ {p} : /\ cyclesLock = q => cyclesLock' = q
                                /\ \A k \in Keys : successorLock[k] = q => successorLock'[k] = q
  PROVE  LinksGood'
<1>1. ASSUME NEW q \in Procs, q # p
      PROVE  CopyLinked(me[q])' /\ FirstLocked(q, me[q])' /\ (KeepsCycles(me'[q]) => cyclesLock' = q)
  <2> DEFINE v == me[q]
  <2>1. me'[q] = v /\ CopyLinked(v) /\ FirstLocked(q, me[q]) /\ (KeepsCycles(v) => cyclesLock = q)
    BY <1>1 DEF OnlyMoves, Links, LinksGood
  <2>2. Linked(me[q])'
    <3>1. ASSUME NEW k \in Keys, NEW t, t # None, Spared(k), Kept(k) => RedirectsTo(k, t)
          PROVE  RedirectsTo(k, t)'
      BY <3>1 DEF RedirectsTo, RedirectsStay, Stored, Kept, Spared
    <3>2. Linked(v)
      BY <2>1 DEF CopyLinked
    <3>3. v.doc.redirect # None => v.key \in Keys /\ disk'[v.key] # NoDoc
      BY <3>2, KeysAssumption DEF Linked, RedirectsStay, Stored, Links, IInv, CopiesGood, GoodCopy
    <3>4. /\ v.doc.redirect # None /\ Spared(v.key) => RedirectsTo(me[q].key, me[q].doc.redirect)'
          /\ v.cmd = "restart" /\ ~Reserving(v) /\ Spared(v.source)
               => RedirectsTo(me[q].source, me[q].key)'
      BY <2>1, <3>1, <3>2, <3>3 DEF Linked
    <3>5. v.doc.stage = "aborted" /\ Spared(v.key) => v.doc.redirect # None
      BY <3>2 DEF Linked, Kept, Spared
    <3> QED
      BY <2>1, <3>2, <3>3, <3>4, <3>5 DEF Linked, Reserving, Stored, Kept, Spared
  <2>3. Merging(me[q])'
    <3>1. CASE KeepsCycles(v)
      <4>1. cyclesLock = q /\ (KeepsCycles(me[p]) => cyclesLock = p)
        BY <2>1, <3>1 DEF Links, LinksGood
      <4>2. disk' = disk
        BY <1>1, <4>1
      <4> QED
        BY <2>1, <4>2 DEF CopyLinked, Merging, InSource, Prepared, Kept
    <3>2. CASE ~KeepsCycles(v)
      BY <2>1, <3>2 DEF CopyLinked, Merging, InSource, Prepared, Kept, KeepsCycles
    <3> QED
      BY <3>1, <3>2
  <2>4. Rounds(me[q])'
    BY <2>1 DEF CopyLinked, Rounds, InRound, Kept
  <2>5. Leaving(v) => v.key \in Keys
    BY DEF Leaving, Links, IInv, CopiesGood, GoodCopy
  <2>6. FirstLocked(q, me[q])'
    BY <1>1, <2>1, <2>5, SuccessorIsKey DEF FirstLocked, Leaving, Kept
  <2> QED
    BY <1>1, <2>1, <2>2, <2>3, <2>4, <2>6 DEF CopyLinked
<1> QED
  BY <1>1 DEF LinksGood

LEMMA GoesOnly ==
  ASSUME IInv, IInv', NEW p \in Procs, NEW v, Goes(p, v)
  PROVE  OnlyMoves(p) /\ me'[p] = v /\ v \in Invocation
BY DEF IInv, CopiesGood, Goes, OnlyMoves

\* A step that leaves documents and locks alone keeps the links when its copy stays linked.
LEMMA LinkedMove ==
  ASSUME Links, IInv', NEW p \in Procs, NEW v, Goes(p, v),
         UNCHANGED <<disk, cyclesLock, successorLock, overwritten>>,
         CopyLinked(v), FirstLocked(p, v), ~KeepsCycles(v)
  PROVE  LinksGood'
<1>1. OnlyMoves(p) /\ me'[p] = v
  BY GoesOnly DEF Links
<1>2. DiskLinked' /\ RedirectsStay
  BY DEF Links, LinksGood, DiskLinked, AbortedRedirects, RedirectsStay, Stored, Kept, Spared
<1>3. CopyLinked(me[p])'
  BY <1>1 DEF CopyLinked, Linked, Merging, Rounds, RedirectsTo, Stored, Kept
<1>4. FirstLocked(p, me[p])'
  BY <1>1 DEF FirstLocked, Kept
<1> QED
  BY <1>1, <1>2, <1>3, <1>4, LinksKept

\* A copy of a document as it is on disk, or of a new one, is linked where no round is run.
LEMMA LoadedLinked ==
  ASSUME Links, NEW v, v.key \in Keys,
         v.doc = IF Stored(v.key) THEN disk[v.key] ELSE NewDoc,
         ~InRound(v), ~KeepsCycles(v), ~v.launched,
         v.cmd = "restart" /\ ~Reserving(v) =>
           v.source \in Keys /\ (Kept(v.source) => RedirectsTo(v.source, v.key))
  PROVE  CopyLinked(v)
<1>1. Linked(v)
  BY KeysAssumption
  DEF Linked, Links, LinksGood, DiskLinked, AbortedRedirects, Stored, RedirectsTo, NewDoc, Kept
<1>2. Merging(v)
  BY DEF Merging, InSource, Prepared, KeepsCycles, Links, LinksGood, DiskLinked,
         AbortedRedirects, Stored, NewDoc, Kept
<1>3. Rounds(v)
  BY DEF Rounds, Counted, Links, LinksGood, DiskLinked, NewDoc
<1> QED
  BY <1>1, <1>2, <1>3 DEF CopyLinked

LEMMA LoadLinks ==
  ASSUME Links, IInv', NEW p \in Procs, NEW k \in Keys,
         LoadRerun(p, k) \/ Continue(p, k) \/ Create(p, k)
  PROVE  LinksGood'
<1>1. UNCHANGED <<disk, cyclesLock, successorLock, overwritten>>
  BY DEF LoadRerun, Continue, Create, store, locks
<1>2. PICK v : /\ Goes(p, v) /\ v.key = k /\ ~v.launched /\ v.at \in {"queue", "ready"}
               /\ v.doc = IF Stored(k) THEN disk[k] ELSE NewDoc
               /\ v.cmd # "restart"
               /\ v.cmd # "continue" => v.at = IF NeedsLock(k, v.doc) THEN "queue" ELSE "ready"
  <2>1. CASE LoadRerun(p, k)
    <3> DEFINE v == [NoInvocation EXCEPT
                  !.key = k, !.doc = disk[k],
                  !.at = IF NeedsLock(k, disk[k]) THEN "queue" ELSE "ready"]
    <3>1. Goes(p, v) /\ Stored(k)
      BY <2>1 DEF LoadRerun, Loads, Stored
    <3>2. /\ v.key = k /\ ~v.launched /\ v.doc = disk[k] /\ v.cmd = "rerun"
          /\ v.at = IF NeedsLock(k, disk[k]) THEN "queue" ELSE "ready"
      BY DEF NoInvocation
    <3> HIDE DEF v
    <3> QED
      BY <3>1, <3>2
  <2>2. CASE Continue(p, k) \/ Create(p, k)
    <3> DEFINE d == IF Stored(k) THEN disk[k] ELSE NewDoc
               v == [NoInvocation EXCEPT !.at = "ready", !.cmd = "continue", !.key = k, !.doc = d]
    <3>1. Goes(p, v)
      BY <2>2 DEF Continue, Create, Active, Stored
    <3>2. v.key = k /\ ~v.launched /\ v.doc = d /\ v.cmd = "continue" /\ v.at = "ready"
      BY DEF NoInvocation
    <3> HIDE DEF v
    <3> QED
      BY <3>1, <3>2
  <2> QED
    BY <2>1, <2>2
<1>3. CopyLinked(v)
  BY <1>2, LoadedLinked DEF InRound, KeepsCycles
<1>4. FirstLocked(p, v)
  BY <1>2 DEF FirstLocked, Leaving, NeedsLock
<1> QED
  BY <1>1, <1>2, <1>3, <1>4, LinkedMove DEF KeepsCycles

LEMMA LoadRecordLinks ==
  ASSUME Links, IInv', NEW p \in Procs, NEW k \in Keys, LoadRecord(p, k)
  PROVE  LinksGood'
<1>1. UNCHANGED <<disk, cyclesLock, successorLock, overwritten>> /\ Stored(k)
  BY DEF LoadRecord, Loads, Stored, store, locks
<1>2. PICK d : /\ Goes(p, Saving([NoInvocation EXCEPT !.cmd = "record", !.key = k], d, "idle"))
               /\ \/ d = [disk[k] EXCEPT !.gate = TRUE]
                  \/ disk[k].stage = "pending" /\ d = [disk[k] EXCEPT !.stage = "created"]
  BY DEF LoadRecord
<1>3. disk[k] \in Doc
  BY <1>1, LoadedGood DEF Links
<1>4. /\ d.redirect = disk[k].redirect /\ d.rounds = disk[k].rounds
      /\ d.stage = disk[k].stage \/ d.stage = "created"
      /\ d.stage = "aborted" => disk[k].stage = "aborted"
  BY <1>2, <1>3 DEF Doc
<1> DEFINE v == Saving([NoInvocation EXCEPT !.cmd = "record", !.key = k], d, "idle")
<1>5. v.key = k /\ v.cmd = "record" /\ ~v.launched /\ v.doc = d /\ v.at = "save" /\ v.after = "idle"
  BY DEF NoInvocation, Saving
<1> HIDE DEF v
<1>6. Linked(v)
  BY <1>1, <1>4, <1>5
  DEF Linked, Links, LinksGood, DiskLinked, AbortedRedirects, RedirectsTo, Stored, Kept
<1>7. Merging(v) /\ Rounds(v)
  BY <1>1, <1>4, <1>5
  DEF Merging, InSource, Prepared, Kept, Rounds, InRound, Counted, Links, LinksGood, DiskLinked
<1>8. FirstLocked(p, v) /\ ~KeepsCycles(v)
  BY <1>5 DEF FirstLocked, Leaving, KeepsCycles
<1> QED
  BY <1>1, <1>2, <1>6, <1>7, <1>8, LinkedMove DEF CopyLinked, v

LEMMA RestartLinks ==
  ASSUME Links, IInv', NEW p \in Procs,
         PrepareSuccessor(p) \/ \E k, t \in Keys : LoadRestart(p, k, t)
  PROVE  LinksGood'
<1>1. UNCHANGED <<disk, cyclesLock, successorLock, overwritten>>
  BY DEF PrepareSuccessor, LoadRestart, store, locks
<1>2. CASE PrepareSuccessor(p)
  <2> DEFINE u == me[p]
             d == IF Stored(u.key) THEN disk[u.key] ELSE NewDoc
             v == [u EXCEPT !.at = "reserve", !.doc = d]
  <2>1. u.at = "restart" /\ Goes(p, v)
    BY <1>2 DEF PrepareSuccessor, Stored
  <2>2. u \in Invocation /\ u.key \in Keys /\ Rounds(u)
    BY <2>1 DEF Links, LinksGood, CopyLinked, IInv, CopiesGood, GoodCopy
  <2>3. ~u.launched
    BY <2>1, <2>2 DEF Rounds, InRound
  <2>4. v.at = "reserve" /\ v.doc = d /\ v.key = u.key /\ v.launched = u.launched
    BY <2>2 DEF Invocation
  <2> HIDE DEF v
  <2>5. CopyLinked(v) /\ FirstLocked(p, v) /\ ~KeepsCycles(v)
    BY <2>2, <2>3, <2>4, LoadedLinked DEF Reserving, FirstLocked, Leaving, InRound, KeepsCycles
  <2> QED
    BY <1>1, <2>1, <2>5, LinkedMove
<1>3. CASE \E k, t \in Keys : LoadRestart(p, k, t)
  <2>1. PICK k \in Keys, t \in Keys : LoadRestart(p, k, t)
    BY <1>3
  <2> DEFINE v == [NoInvocation EXCEPT !.at = "restart", !.cmd = "restart",
                                       !.key = t, !.source = k]
  <2>2. Goes(p, v)
    BY <2>1 DEF LoadRestart
  <2>3. /\ v.at = "restart" /\ v.doc = NewDoc /\ ~v.launched
    BY DEF NoInvocation
  <2> HIDE DEF v
  <2>4. CopyLinked(v) /\ FirstLocked(p, v) /\ ~KeepsCycles(v)
    BY <2>3 DEF CopyLinked, Linked, Merging, InSource, Prepared, Rounds, InRound, Counted, NewDoc,
                Reserving, FirstLocked, Leaving, KeepsCycles
  <2> QED
    BY <1>1, <2>2, <2>4, LinkedMove
<1> QED
  BY <1>2, <1>3

\* What save_cycle is about to write has the redirect on disk, and the stage with it.
LEMMA MergedLinked ==
  ASSUME Links, NEW u \in Invocation, u.key \in Keys, CopyLinked(u), u.at = "save",
         u.after # "source",
         NEW v \in Invocation, v.at = "write", v.after = u.after, v.key = u.key,
         v.source = u.source, v.cmd = u.cmd, v.launched = u.launched,
         v.doc = Merged(u.doc, disk[u.key])
  PROVE  CopyLinked(v) /\ v.doc.rounds = u.doc.rounds
<1>1. CASE Superseded(disk[u.key])
  <2>1. Stored(u.key) /\ disk[u.key].redirect # None
    BY <1>1 DEF Superseded, Stored
  <2>2. /\ v.doc.stage = disk[u.key].stage /\ v.doc.redirect = disk[u.key].redirect
        /\ v.doc.rounds = u.doc.rounds
    BY <1>1 DEF Merged, Invocation, Doc
  <2>3. Kept(u.key) => disk[u.key].stage = "aborted"
    BY <2>1 DEF Links, LinksGood, DiskLinked, AbortedRedirects, Stored, Kept
  <2>4. Linked(v)
    BY <2>1, <2>2 DEF CopyLinked, Linked, Reserving, RedirectsTo
  <2>5. Merging(v) /\ Rounds(v)
    BY <2>2, <2>3 DEF CopyLinked, Merging, InSource, Prepared, Rounds, InRound, Counted
  <2> QED
    BY <2>2, <2>4, <2>5 DEF CopyLinked
<1>2. CASE ~Superseded(disk[u.key])
  <2>1. v.doc = u.doc
    BY <1>2 DEF Merged
  <2> QED
    BY <1>2, <2>1 DEF CopyLinked, Linked, Reserving, Merging, InSource, Prepared, Rounds, InRound
<1> QED
  BY <1>1, <1>2

LEMMA TakeLockLinks ==
  ASSUME Links, IInv', NEW p \in Procs, TakeLock(p)
  PROVE  LinksGood'
<1> DEFINE u == me[p]
           v == [u EXCEPT !.at = "write", !.doc = Merged(u.doc, disk[u.key])]
<1>1. /\ u.at = "save" /\ cyclesLock = None /\ cyclesLock' = p
      /\ UNCHANGED <<disk, successorLock, overwritten>>
      /\ u \in Invocation /\ u.key \in Keys /\ u.after # "source"
      /\ CopyLinked(u) /\ FirstLocked(p, u)
  BY DEF TakeLock, Links, LinksGood, IInv, CopiesGood, GoodCopy
<1>2. Goes(p, v)
  BY <1>1 DEF TakeLock, Invocation
<1>3. OnlyMoves(p) /\ me'[p] = v /\ v \in Invocation
  BY <1>2, GoesOnly DEF Links
<1>4. /\ v.at = "write" /\ v.after = u.after /\ v.key = u.key /\ v.source = u.source
      /\ v.cmd = u.cmd /\ v.launched = u.launched /\ v.doc = Merged(u.doc, disk[u.key])
  BY <1>1 DEF Invocation
<1> HIDE DEF u, v
<1>5. CopyLinked(v) /\ v.doc.rounds = u.doc.rounds
  BY <1>1, <1>3, <1>4, MergedLinked
<1>6. FirstLocked(p, v)
  BY <1>1, <1>4, <1>5 DEF FirstLocked, Leaving
<1>7. DiskLinked' /\ RedirectsStay
  BY <1>1 DEF Links, LinksGood, DiskLinked, AbortedRedirects, RedirectsStay, Stored, Kept, Spared
<1>8. CopyLinked(me[p])' /\ FirstLocked(p, me[p])'
  BY <1>1, <1>3, <1>5, <1>6
     DEF CopyLinked, Linked, Merging, Rounds, RedirectsTo, Stored, FirstLocked, Kept
<1>9. \A q \in Procs \ {p} : cyclesLock # q
  BY <1>1, KeysAssumption
<1> QED
  BY <1>1, <1>3, <1>7, <1>8, <1>9, LinksKept

LEMMA WriteLinks ==
  ASSUME Links, IInv', NEW p \in Procs, Write(p)
  PROVE  LinksGood'
<1> DEFINE u == me[p]
           v == IF u.after = "idle" THEN NoInvocation ELSE [u EXCEPT !.at = u.after]
<1>1. /\ u.at = "write" /\ Goes(p, v) /\ UNCHANGED successorLock
      /\ cyclesLock' = IF u.after = "source" THEN p ELSE None
      /\ disk' = [disk EXCEPT ![u.key] = u.doc]
      /\ overwritten' = overwritten \cup (IF WritesOver(u) THEN {u.key} ELSE {})
      /\ u \in Invocation /\ GoodCopy(u) /\ u.key \in Keys /\ u.doc \in Doc
      /\ CopyLinked(u) /\ FirstLocked(p, u) /\ cyclesLock = p
  BY DEF Write, Links, LinksGood, IInv, CopiesGood, GoodCopy, Invocation, KeepsCycles
<1>2. OnlyMoves(p) /\ me'[p] = v /\ v \in Invocation
  BY <1>1, GoesOnly DEF Links
<1>3. /\ disk'[u.key] = u.doc /\ \A j \in Keys : j # u.key => disk'[j] = disk[j]
      /\ u.doc # NoDoc
  BY <1>1, DocStored DEF Links, IInv, StoreGood, StoreTyped
<1>4. \A k : Spared(k) => Kept(k)
  BY <1>1 DEF Kept, Spared
<1>5. Superseded(disk[u.key]) /\ Spared(u.key) => u.doc.redirect = disk[u.key].redirect
  <2>1. CASE u.after = "source"
    BY <1>1, <2>1 DEF WritesOver, Spared
  <2>2. CASE u.after # "source"
    BY <1>1, <2>2 DEF CopyLinked, Merging
  <2> QED
    BY <2>1, <2>2
<1>6. RedirectsStay
  BY <1>3, <1>5 DEF RedirectsStay, Superseded, Stored, Spared
<1>7. DiskLinked'
  <2>1. Spared(u.key) => (u.doc.stage = "aborted" => u.doc.redirect # None)
    BY <1>1, <1>4 DEF CopyLinked, Linked
  <2>2. ASSUME Spared(u.key), u.doc.redirect # None PROVE u.doc.stage = "aborted"
    <3>1. Kept(u.key) /\ RedirectsTo(u.key, u.doc.redirect)
      BY <1>1, <1>4, <2>2 DEF CopyLinked, Linked
    <3>2. CASE u.after = "source"
      BY <1>1, <2>2, <3>1, <3>2 DEF CopyLinked, Merging, Prepared
    <3>3. CASE u.after # "source"
      BY <1>1, <2>2, <3>1, <3>3
         DEF CopyLinked, Merging, Superseded, RedirectsTo, Stored, Kept, Links, LinksGood,
             DiskLinked, AbortedRedirects
    <3> QED
      BY <3>2, <3>3
  <2>3. AbortedRedirects'
    BY <1>3, <1>4, <2>1, <2>2 DEF Links, LinksGood, DiskLinked, AbortedRedirects, Kept, Spared
  <2>4. \A k \in Keys : IsSuccessor(k) /\ Stored(k)' /\ Spared(k) => Counted(disk[k])'
    BY <1>1, <1>3, <1>4 DEF Links, LinksGood, DiskLinked, CopyLinked, Rounds, Stored, Counted
  <2> QED
    BY <2>3, <2>4 DEF DiskLinked, Kept, Spared
<1>8. CopyLinked(me[p])' /\ FirstLocked(p, me[p])' /\ (KeepsCycles(v) => cyclesLock' = p)
  <2>1. CASE u.after = "idle"
    <3>1. v = NoInvocation
      BY <2>1
    <3> HIDE DEF v
    <3> QED
      BY <1>2, <3>1, KeysAssumption
         DEF CopyLinked, Linked, Merging, Rounds, NoInvocation, NewDoc, InSource, Prepared,
             InRound, Counted, IsSuccessor, Reserving, FirstLocked, Leaving, KeepsCycles
  <2>2. CASE u.after # "idle"
    <3>1. /\ v.at = u.after /\ v.after = u.after /\ v.key = u.key /\ v.source = u.source
          /\ v.doc = u.doc /\ v.cmd = u.cmd /\ v.launched = u.launched
          /\ u.after \in {"work", "leave", "source"}
      BY <1>1, <2>2 DEF Invocation
    <3> HIDE DEF v
    <3>2. Linked(me[p])'
      <4>1. RedirectsTo(me[p].key, me[p].doc.redirect)'
        BY <1>1, <1>2, <1>3, <3>1 DEF RedirectsTo, Stored
      <4>2. v.doc.stage = "aborted" /\ Spared(v.key) => v.doc.redirect # None
        BY <1>1, <1>4, <3>1 DEF CopyLinked, Linked
      <4>3. v.cmd = "restart" /\ ~Reserving(v) =>
              /\ v.key # None /\ v.source \in Keys
              /\ Spared(v.source) => RedirectsTo(me[p].source, me[p].key)'
        <5> SUFFICES ASSUME v.cmd = "restart", ~Reserving(v)
                     PROVE  /\ v.key # None /\ v.source \in Keys
                            /\ Spared(v.source) => RedirectsTo(me[p].source, me[p].key)'
          OBVIOUS
        <5>1. /\ v.key # None /\ v.source \in Keys
              /\ Kept(v.source) => RedirectsTo(v.source, v.key)
          BY <1>1, <3>1 DEF CopyLinked, Linked, Reserving
        <5>2. Spared(v.source) /\ RedirectsTo(v.source, v.key) =>
                RedirectsTo(me[p].source, me[p].key)'
          BY <1>2, <1>6, <5>1 DEF RedirectsTo, RedirectsStay, Stored
        <5> QED
          BY <1>4, <5>1, <5>2
      <4> QED
        BY <1>2, <4>1, <4>2, <4>3 DEF Linked, RedirectsTo, Stored, Reserving, Kept, Spared
    <3>3. Merging(me[p])'
      <4>1. u.after = "source" => u.source \in Keys /\ u.source # u.key
                                  /\ disk[u.source].redirect = None
        BY <1>1, KeysAssumption DEF GoodCopy, Reserving, CopyLinked, Merging, InSource
      <4> QED
        BY <1>2, <1>3, <3>1, <4>1 DEF Merging, InSource, Prepared
    <3>4. Rounds(me[p])' /\ FirstLocked(p, me[p])'
      BY <1>1, <1>2, <1>4, <3>1
         DEF CopyLinked, Rounds, InRound, FirstLocked, Leaving, Kept, Spared
    <3> QED
      BY <1>1, <3>1, <3>2, <3>3, <3>4 DEF CopyLinked, KeepsCycles
  <2> QED
    BY <2>1, <2>2
<1>9. \A q \in Procs \ {p} : cyclesLock # q
  BY <1>1
<1>10. overwritten \subseteq overwritten'
  BY <1>1
<1> HIDE DEF v
<1> QED
  BY <1>1, <1>2, <1>6, <1>7, <1>8, <1>9, <1>10, LinksKept DEF KeepsCycles

\* An invocation that gives up without a lock is linked.
LEMMA IdleLinks ==
  ASSUME Links, IInv', NEW p \in Procs, Goes(p, NoInvocation),
         UNCHANGED <<disk, cyclesLock, successorLock, overwritten>>
  PROVE  LinksGood'
<1>1. ~KeepsCycles(NoInvocation) /\ FirstLocked(p, NoInvocation)
  BY DEF NoInvocation, KeepsCycles, FirstLocked, Leaving
<1> QED
  BY <1>1, IdleLinked, LinkedMove

LEMMA ReserveLinks ==
  ASSUME Links, IInv', NEW p \in Procs, Reserve(p)
  PROVE  LinksGood'
<1> DEFINE u == me[p]
           chosen == RedirectOf(disk[u.source])
<1>1. /\ u.at = "reserve" /\ cyclesLock = None
      /\ UNCHANGED <<disk, successorLock, overwritten>>
      /\ u \in Invocation /\ GoodCopy(u) /\ u.key \in Keys /\ u.source \in Keys
      /\ Stored(u.source) /\ u.key \in Restarts[u.source]
      /\ CopyLinked(u) /\ ~u.launched
  BY DEF Reserve, Links, LinksGood, IInv, CopiesGood, GoodCopy, Reserving, CopyLinked, Rounds, InRound
<1>2. CASE chosen = None
  <2> DEFINE v == [u EXCEPT !.at = "write", !.after = "source"]
  <2>1. cyclesLock' = p /\ Goes(p, v)
    BY <1>1, <1>2, KeysAssumption DEF Reserve
  <2>2. OnlyMoves(p) /\ me'[p] = v /\ v \in Invocation
    BY <2>1, GoesOnly DEF Links
  <2>3. /\ v.at = "write" /\ v.after = "source" /\ v.key = u.key /\ v.source = u.source
        /\ v.doc = u.doc /\ ~v.launched
    BY <1>1 DEF Invocation
  <2> HIDE DEF v
  <2>4. disk[u.source].redirect = None
    BY <1>1, <1>2 DEF RedirectOf, Superseded, Stored
  <2>5. Linked(me[p])'
    BY <1>1, <2>2, <2>3 DEF CopyLinked, Linked, Reserving, RedirectsTo, Stored, Kept
  <2>6. Merging(me[p])'
    BY <1>1, <2>2, <2>3, <2>4 DEF CopyLinked, Merging, InSource, Prepared, Kept
  <2>7. Rounds(me[p])' /\ FirstLocked(p, me[p])' /\ KeepsCycles(v)
    BY <1>1, <2>2, <2>3
       DEF CopyLinked, Rounds, InRound, FirstLocked, Leaving, KeepsCycles, Kept
  <2>8. DiskLinked' /\ RedirectsStay
    BY <1>1 DEF Links, LinksGood, DiskLinked, AbortedRedirects, RedirectsStay, Stored, Kept, Spared
  <2>9. \A q \in Procs \ {p} : cyclesLock # q
    BY <1>1, KeysAssumption
  <2> QED
    BY <1>1, <2>1, <2>2, <2>5, <2>6, <2>7, <2>8, <2>9, LinksKept DEF CopyLinked
<1>3. CASE chosen # None
  <2>1. UNCHANGED <<disk, cyclesLock, successorLock, overwritten>>
    BY <1>1, <1>3 DEF Reserve
  <2>2. \/ Goes(p, NoInvocation)
        \/ chosen = u.key /\ Goes(p, [u EXCEPT !.at = "queue", !.doc = disk[u.key]])
    BY <1>3 DEF Reserve
  <2>3. CASE Goes(p, NoInvocation)
    BY <2>1, <2>3, IdleLinks
  <2>4. CASE chosen = u.key /\ Goes(p, [u EXCEPT !.at = "queue", !.doc = disk[u.key]])
    <3> DEFINE v == [u EXCEPT !.at = "queue", !.doc = disk[u.key]]
    <3>1. RedirectsTo(u.source, u.key) /\ Stored(u.key) /\ u.key # None
      BY <1>1, <1>3, <2>4 DEF RedirectOf, Superseded, RedirectsTo, Links, IInv, StoreGood,
            RedirectLoads, Stored
    <3>2. /\ v.at = "queue" /\ v.doc = disk[u.key] /\ v.key = u.key /\ v.source = u.source
          /\ ~v.launched
      BY <1>1 DEF Invocation
    <3> HIDE DEF v
    <3>3. CopyLinked(v)
      BY <1>1, <3>1, <3>2, LoadedLinked DEF InRound, KeepsCycles
    <3>4. FirstLocked(p, v) /\ ~KeepsCycles(v)
      BY <3>2 DEF FirstLocked, Leaving, KeepsCycles
    <3> QED
      BY <2>1, <2>4, <3>3, <3>4, LinkedMove DEF v
  <2> QED
    BY <2>2, <2>3, <2>4
<1> QED
  BY <1>2, <1>3

LEMMA WriteSourceLinks ==
  ASSUME Links, IInv', NEW p \in Procs, WriteSource(p)
  PROVE  LinksGood'
<1> DEFINE u == me[p]
           d == [disk[u.source] EXCEPT !.stage = "aborted", !.redirect = u.key]
           v == [u EXCEPT !.at = "queue"]
<1>1. /\ u.at = "source" /\ u \in Invocation /\ GoodCopy(u) /\ u.key \in Keys
      /\ u.source \in Keys /\ Stored(u.source)
      /\ Goes(p, v) /\ cyclesLock' = None /\ UNCHANGED <<successorLock, overwritten>>
      /\ CopyLinked(u) /\ KeepsCycles(u) /\ cyclesLock = p /\ ~u.launched
  BY DEF WriteSource, Links, LinksGood, IInv, CopiesGood, GoodCopy, Reserving, KeepsCycles,
         CopyLinked, Rounds, InRound
<1>2. disk[u.source] \in Doc
  BY <1>1, LoadedGood DEF Links
<1>3. d.stage = "aborted" /\ d.redirect = u.key /\ u.key # None /\ d # NoDoc
  BY <1>1, <1>2, KeysAssumption DEF Doc, NoDoc
<1>4. disk' = [disk EXCEPT ![u.source] = d]
  BY <1>1 DEF WriteSource, Target, Links, IInv, StoreGood, StoreTyped
<1> HIDE DEF d
<1>5. disk'[u.source] = d /\ \A j \in Keys : j # u.source => disk'[j] = disk[j]
  BY <1>1, <1>4 DEF Links, IInv, StoreGood, StoreTyped
<1>6. RedirectsStay
  BY <1>1, <1>3, <1>5 DEF RedirectsStay, Stored, CopyLinked, Merging, InSource
<1>7. DiskLinked'
  BY <1>1, <1>3, <1>5
  DEF Links, LinksGood, DiskLinked, AbortedRedirects, Stored, Counted, Kept
<1>8. OnlyMoves(p) /\ me'[p] = v /\ v \in Invocation
  BY <1>1, GoesOnly DEF Links
<1>9. /\ v.at = "queue" /\ v.key = u.key /\ v.source = u.source /\ v.doc = u.doc
      /\ ~v.launched
  BY <1>1 DEF Invocation
<1> HIDE DEF v
<1>10. Linked(me[p])'
  <2>1. RedirectsTo(me[p].source, me[p].key)'
    BY <1>1, <1>3, <1>5, <1>8, <1>9 DEF RedirectsTo, Stored
  <2>2. v.doc.redirect # None =>
          /\ disk'[v.key] # NoDoc
          /\ Kept(v.key) => disk'[v.key].redirect = v.doc.redirect
    BY <1>1, <1>6, <1>9
       DEF CopyLinked, Linked, RedirectsTo, RedirectsStay, Stored, Kept, Spared
  <2>3. v.doc.stage = "aborted" /\ Kept(v.key) => v.doc.redirect # None
    BY <1>1, <1>9 DEF CopyLinked, Linked
  <2> QED
    BY <1>1, <1>3, <1>8, <1>9, <2>1, <2>2, <2>3 DEF Linked, RedirectsTo, Stored, Kept
<1>11. Merging(me[p])' /\ Rounds(me[p])' /\ FirstLocked(p, me[p])' /\ ~KeepsCycles(v)
  BY <1>1, <1>8, <1>9 DEF CopyLinked, Merging, InSource, Prepared, Rounds, InRound, FirstLocked,
        Leaving, KeepsCycles, Kept
<1>12. \A q \in Procs \ {p} : cyclesLock # q
  BY <1>1
<1> QED
  BY <1>1, <1>6, <1>7, <1>8, <1>10, <1>11, <1>12, LinksKept DEF CopyLinked

LEMMA EnterLinks ==
  ASSUME Links, IInv', NEW p \in Procs, Enter(p)
  PROVE  LinksGood'
<1> DEFINE u == me[p]
           d == disk[u.key]
           w == [u EXCEPT !.doc = d]
<1>1. /\ u.at = "queue" /\ u \in Invocation /\ u.key \in Keys /\ Stored(u.key)
      /\ UNCHANGED <<disk, cyclesLock, overwritten>> /\ CopyLinked(u) /\ ~u.launched
      /\ cyclesLock # p
  BY HoldsNothing
  DEF Enter, Links, LinksGood, IInv, CopiesGood, GoodCopy, CopyLinked, Rounds, InRound, store,
         KeepsCycles
<1>2. u.cmd = "restart" =>
        u.source \in Keys /\ (Kept(u.source) => RedirectsTo(u.source, u.key))
  BY <1>1 DEF CopyLinked, Linked, Reserving
<1>3. \/ Goes(p, NoInvocation) /\ UNCHANGED successorLock
      \/ /\ u.cmd = "rerun" /\ Goes(p, Saving(w, d, "idle")) /\ UNCHANGED successorLock
      \/ /\ Goes(p, [w EXCEPT !.at = "ready"]) /\ successorLock[u.key] = None
         /\ successorLock' = [successorLock EXCEPT ![u.key] = p]
  BY <1>1 DEF Enter, Invocation
<1>4. CASE Goes(p, NoInvocation) /\ UNCHANGED successorLock
  BY <1>1, <1>4, IdleLinks
<1>5. CASE u.cmd = "rerun" /\ Goes(p, Saving(w, d, "idle")) /\ UNCHANGED successorLock
  <2> DEFINE v == Saving(w, d, "idle")
  <2>1. /\ v.at = "save" /\ v.after = "idle" /\ v.doc = d /\ v.key = u.key /\ ~v.launched
        /\ v.cmd = "rerun"
    BY <1>1, <1>5 DEF Invocation, Saving
  <2> HIDE DEF v
  <2>2. CopyLinked(v)
    BY <1>1, <2>1, LoadedLinked DEF InRound, KeepsCycles
  <2>3. FirstLocked(p, v) /\ ~KeepsCycles(v)
    BY <2>1 DEF FirstLocked, Leaving, KeepsCycles
  <2> QED
    BY <1>1, <1>5, <2>2, <2>3, LinkedMove DEF v
<1>6. CASE /\ Goes(p, [w EXCEPT !.at = "ready"]) /\ successorLock[u.key] = None
           /\ successorLock' = [successorLock EXCEPT ![u.key] = p]
  <2> DEFINE v == [w EXCEPT !.at = "ready"]
  <2>1. /\ v.at = "ready" /\ v.doc = d /\ v.key = u.key /\ v.source = u.source
        /\ ~v.launched /\ v.cmd = u.cmd
    BY <1>1 DEF Invocation
  <2> HIDE DEF v
  <2>2. OnlyMoves(p) /\ me'[p] = v
    BY <1>6, GoesOnly DEF Links, v
  <2>3. CopyLinked(v)
    BY <1>1, <1>2, <2>1, LoadedLinked DEF InRound, KeepsCycles
  <2>4. CopyLinked(me[p])'
    BY <1>1, <2>2, <2>3 DEF CopyLinked, Linked, Merging, Rounds, RedirectsTo, Stored, Kept
  <2>5. /\ successorLock'[u.key] = p
        /\ \A k \in Keys : k # u.key => successorLock'[k] = successorLock[k]
    BY <1>1, <1>6 DEF Links, IInv, LocksGood
  <2>6. FirstLocked(p, me[p])'
    BY <1>1, <2>1, <2>2, <2>5 DEF FirstLocked, Leaving, Kept
  <2>7. DiskLinked' /\ RedirectsStay
    BY <1>1 DEF Links, LinksGood, DiskLinked, AbortedRedirects, RedirectsStay, Stored, Kept, Spared
  <2>8. \A q \in Procs \ {p}, k \in Keys : successorLock[k] = q => successorLock'[k] = q
    BY <1>6, <2>5, KeysAssumption
  <2>9. ~KeepsCycles(v)
    BY <2>1 DEF KeepsCycles
  <2> QED
    BY <1>1, <2>2, <2>4, <2>6, <2>7, <2>8, <2>9, LinksKept
<1> QED
  BY <1>3, <1>4, <1>5, <1>6

LEMMA LeaveLinks ==
  ASSUME Links, IInv', NEW p \in Procs, Leave(p)
  PROVE  LinksGood'
<1> DEFINE u == me[p]
           v == IF u.cmd = "rerun" THEN Saving(u, u.doc, "idle") ELSE NoInvocation
<1>1. /\ u.at = "leave" /\ u \in Invocation /\ u.key \in Keys /\ Goes(p, v)
      /\ successorLock' = [successorLock EXCEPT ![u.key] = None]
      /\ UNCHANGED <<disk, cyclesLock, overwritten>> /\ CopyLinked(u) /\ ~u.launched
      /\ successorLock[u.key] = p
  BY DEF Leave, Links, LinksGood, IInv, CopiesGood, GoodCopy, CopyLinked, Rounds, InRound,
         FirstLocked, Leaving, store
<1>2. OnlyMoves(p) /\ me'[p] = v
  BY <1>1, GoesOnly DEF Links
<1>3. CopyLinked(v) /\ ~KeepsCycles(v) /\ ~Leaving(v) /\ v.at # "ready" /\ ~v.launched
  <2>1. CASE u.cmd = "rerun"
    <3>1. /\ v.at = "save" /\ v.after = "idle" /\ v.doc = u.doc /\ v.key = u.key
          /\ ~v.launched /\ v.cmd = "rerun"
      BY <1>1, <2>1 DEF Invocation, Saving
    <3> HIDE DEF v
    <3> QED
      BY <1>1, <3>1
         DEF CopyLinked, Linked, Merging, InSource, Prepared, Rounds, InRound, KeepsCycles, Leaving
  <2>2. CASE u.cmd # "rerun"
    <3>1. v = NoInvocation
      BY <2>2
    <3> HIDE DEF v
    <3> QED
      BY <3>1, IdleLinked DEF NoInvocation, KeepsCycles, Leaving
  <2> QED
    BY <2>1, <2>2
<1> HIDE DEF v
<1>4. CopyLinked(me[p])'
  BY <1>1, <1>2, <1>3 DEF CopyLinked, Linked, Merging, Rounds, RedirectsTo, Stored, Kept
<1>5. FirstLocked(p, me[p])'
  BY <1>2, <1>3 DEF FirstLocked, Leaving
<1>6. DiskLinked' /\ RedirectsStay
  BY <1>1 DEF Links, LinksGood, DiskLinked, AbortedRedirects, RedirectsStay, Stored, Kept, Spared
<1>7. \A q \in Procs \ {p}, k \in Keys : successorLock[k] = q => successorLock'[k] = q
  BY <1>1 DEF Links, IInv, LocksGood
<1> QED
  BY <1>1, <1>2, <1>3, <1>4, <1>5, <1>6, <1>7, LinksKept

\* A step between `ready` and the end of a round keeps the redirect its copy knows, counts
\* the round, and leaves the lock to be left.
LEMMA AdvanceLinks ==
  ASSUME Links, IInv', NEW p \in Procs,
         Launch(p) \/ Collect(p) \/ NothingToRun(p) \/ RoundEnds(p)
  PROVE  LinksGood'
<1> DEFINE u == me[p]
<1>1. /\ u.at \in {"ready", "work"} /\ u \in Invocation /\ u.key \in Keys /\ u.doc \in Doc
      /\ UNCHANGED <<disk, cyclesLock, successorLock, overwritten>>
      /\ CopyLinked(u) /\ FirstLocked(p, u) /\ u.doc.rounds \in Nat
  BY BoundsAssumption
     DEF Launch, Collect, NothingToRun, RoundEnds, Links, LinksGood, IInv, CopiesGood, GoodCopy,
         Invocation, Doc, store, locks
<1>2. AfterAdvance(p) \in {"leave", "idle"}
      /\ (AfterAdvance(p) = "leave" => successorLock[u.key] = p)
  BY KeysAssumption DEF AfterAdvance, HoldsSuccessor, Links, IInv, LocksGood, KeepsSuccessor
<1>3. u.at = "ready" => ~u.launched
  BY <1>1 DEF CopyLinked, Rounds, InRound
<1>4. CASE Launch(p)
  <2> DEFINE d == [u.doc EXCEPT !.stage = "running", !.rounds = @ + 1]
             v == [Saving(u, d, "work") EXCEPT !.launched = TRUE]
  <2>1. Goes(p, v) /\ u.at = "ready" /\ u.doc.stage \in {"created", "pending"}
    BY <1>4 DEF Launch
  <2>2. d.stage = "running" /\ d.rounds = u.doc.rounds + 1 /\ d.redirect = u.doc.redirect
    BY <1>1 DEF Doc
  <2> HIDE DEF d
  <2>3. /\ v.at = "save" /\ v.after = "work" /\ v.doc = d /\ v.key = u.key
        /\ v.source = u.source /\ v.cmd = u.cmd /\ v.launched
    BY <1>1 DEF Invocation, Saving
  <2> HIDE DEF v
  <2>4. Linked(v)
    BY <1>1, <2>1, <2>2, <2>3 DEF CopyLinked, Linked, Reserving
  <2>5. d.rounds # 0
    BY <1>1, <2>2
  <2>6. Merging(v) /\ Rounds(v) /\ ~KeepsCycles(v)
    BY <2>2, <2>3, <2>5 DEF Merging, InSource, Prepared, Rounds, InRound, Counted, KeepsCycles
  <2>7. FirstLocked(p, v)
    <3>1. ASSUME v.cmd # "continue", IsSuccessor(v.key), Kept(v.key), v.doc.rounds = 1
          PROVE  successorLock[v.key] = p
      <4>1. u.doc.rounds = 0
        BY <1>1, <2>2, <2>3, <3>1
      <4>2. Startable(u.doc)
        BY <1>1, <2>1, <2>3, <3>1, <4>1 DEF CopyLinked, Rounds, Counted, Startable
      <4> QED
        BY <1>1, <2>1, <2>3, <3>1, <4>2 DEF FirstLocked
    <3> QED
      BY <2>3, <3>1 DEF FirstLocked, Leaving
  <2> QED
    BY <1>1, <2>1, <2>4, <2>6, <2>7, LinkedMove DEF CopyLinked
<1>5. CASE Collect(p)
  <2> DEFINE v == [u EXCEPT !.at = "work"]
  <2>1. Goes(p, v) /\ u.at = "ready" /\ u.doc.stage = "running"
    BY <1>5 DEF Collect
  <2>2. /\ v.at = "work" /\ v.doc = u.doc /\ v.key = u.key /\ v.source = u.source
        /\ v.cmd = u.cmd /\ ~v.launched
    BY <1>1, <1>3, <2>1 DEF Invocation
  <2> HIDE DEF v
  <2>3. CopyLinked(v) /\ FirstLocked(p, v) /\ ~KeepsCycles(v)
    BY <1>1, <2>1, <2>2 DEF CopyLinked, Linked, Reserving, Merging, InSource, Prepared, Rounds,
       InRound, Counted, FirstLocked, Leaving, KeepsCycles
  <2> QED
    BY <1>1, <2>1, <2>3, LinkedMove
<1>6. ASSUME NEW d, d.redirect = u.doc.redirect, d.rounds = u.doc.rounds,
             d.stage = "aborted" => u.doc.stage = "aborted",
             IsSuccessor(u.key) /\ Kept(u.key) => Counted(d),
             NEW v, Goes(p, v), v.at = "save", v.after = AfterAdvance(p), v.doc = d,
             v.key = u.key, v.source = u.source, v.cmd = u.cmd, ~v.launched
      PROVE  LinksGood'
  <2>1. CopyLinked(v) /\ FirstLocked(p, v) /\ ~KeepsCycles(v)
    BY <1>1, <1>2, <1>6 DEF CopyLinked, Linked, Reserving, Merging, InSource, Prepared, Rounds,
       InRound, FirstLocked, Leaving, KeepsCycles
  <2> QED
    BY <1>1, <1>6, <2>1, LinkedMove
<1>7. CASE NothingToRun(p)
  <2> DEFINE v == Saving(u, u.doc, AfterAdvance(p))
  <2>1. Goes(p, v) /\ u.at = "ready"
    BY <1>7 DEF NothingToRun
  <2>2. /\ v.at = "save" /\ v.after = AfterAdvance(p) /\ v.doc = u.doc /\ v.key = u.key
        /\ v.source = u.source /\ v.cmd = u.cmd /\ ~v.launched
    BY <1>1, <1>3, <2>1 DEF Invocation, Saving
  <2> HIDE DEF v
  <2>3. IsSuccessor(u.key) /\ Kept(u.key) => Counted(u.doc)
    BY <1>1 DEF CopyLinked, Rounds
  <2> QED
    BY <1>6, <2>1, <2>2, <2>3
<1>8. CASE RoundEnds(p)
  <2> DEFINE d == [u.doc EXCEPT !.stage = "pending"]
             v == [Saving(u, d, AfterAdvance(p)) EXCEPT !.launched = FALSE]
  <2>1. Goes(p, v) /\ u.at = "work"
    BY <1>8 DEF RoundEnds
  <2>2. d.stage = "pending" /\ d.rounds = u.doc.rounds /\ d.redirect = u.doc.redirect
    BY <1>1 DEF Doc
  <2> HIDE DEF d
  <2>3. /\ v.at = "save" /\ v.after = AfterAdvance(p) /\ v.doc = d /\ v.key = u.key
        /\ v.source = u.source /\ v.cmd = u.cmd /\ ~v.launched
    BY <1>1 DEF Invocation, Saving
  <2> HIDE DEF v
  <2>4. IsSuccessor(u.key) /\ Kept(u.key) => Counted(d)
    BY <1>1, <2>1, <2>2 DEF CopyLinked, Rounds, InRound, Counted
  <2> QED
    BY <1>6, <2>1, <2>2, <2>3, <2>4
<1> QED
  BY <1>4, <1>5, <1>7, <1>8

LEMMA EndsLinks ==
  ASSUME Links, IInv', NEW p \in Procs, Ends(p)
  PROVE  LinksGood'
<1>1. OnlyMoves(p) /\ me'[p] = NoInvocation /\ UNCHANGED <<disk, overwritten>>
  BY GoesOnly DEF Links, Ends, store
<1>2. CopyLinked(me[p])'
  BY <1>1, IdleLinked DEF CopyLinked, Linked, Merging, Rounds, RedirectsTo, Stored, Kept
<1>3. FirstLocked(p, me[p])' /\ ~KeepsCycles(NoInvocation)
  BY <1>1 DEF FirstLocked, Leaving, KeepsCycles, NoInvocation, Kept
<1>4. DiskLinked' /\ RedirectsStay
  BY <1>1 DEF Links, LinksGood, DiskLinked, AbortedRedirects, RedirectsStay, Stored, Kept, Spared
<1>5. \A q \in Procs \ {p} : /\ cyclesLock = q => cyclesLock' = q
                             /\ \A k \in Keys : successorLock[k] = q => successorLock'[k] = q
  BY DEF Ends, Dropped
<1> QED
  BY <1>1, <1>2, <1>3, <1>4, <1>5, LinksKept

LEMMA InitLinks == Init => LinksGood
<1> SUFFICES ASSUME Init PROVE LinksGood
  OBVIOUS
<1>1. DiskLinked
  BY DEF Init, DiskLinked, AbortedRedirects, Stored
<1>2. ASSUME NEW p \in Procs
      PROVE  CopyLinked(me[p]) /\ FirstLocked(p, me[p]) /\ ~KeepsCycles(me[p])
  BY IdleLinked DEF Init, NoInvocation, FirstLocked, Leaving, KeepsCycles
<1> QED
  BY <1>1, <1>2 DEF LinksGood

LEMMA StutterLinks == ASSUME Links, UNCHANGED vars PROVE LinksGood'
BY DEF vars, store, locks, Links, LinksGood, DiskLinked, AbortedRedirects, CopyLinked, Linked,
       Merging, Rounds, FirstLocked, RedirectsTo, Stored, Kept

LEMMA NextLinks == ASSUME Links, IInv', Next PROVE LinksGood'
<1>1. PICK p \in Procs :
        Command(p) \/ Save(p) \/ Restart(p) \/ Advance(p) \/ Busy(p) \/ Crash(p) \/ GiveUp(p)
  BY DEF Next
<1>2. CASE Command(p)
  BY <1>2, LoadLinks, LoadRecordLinks, RestartLinks DEF Command
<1>3. CASE Save(p)
  BY <1>3, TakeLockLinks, WriteLinks DEF Save
<1>4. CASE Restart(p)
  BY <1>4, RestartLinks, ReserveLinks, WriteSourceLinks DEF Restart
<1>5. CASE Advance(p)
  BY <1>5, EnterLinks, LeaveLinks, AdvanceLinks DEF Advance
<1>6. CASE Busy(p)
  BY <1>6, IdleLinks DEF Busy, store, locks
<1>7. CASE Crash(p) \/ GiveUp(p)
  BY <1>7, EndsLinks DEF Crash, GiveUp
<1> QED
  BY <1>1, <1>2, <1>3, <1>4, <1>5, <1>6, <1>7

\* What a copy knows of the document on disk: whatever is restarted, and in whatever order,
\* a copy that is saved late knows no redirect but the one on disk, and whoever advances a
\* successor before its first round holds its lock (save_cycle, reserve_cycle_successor,
\* _resume_reserved_successor).  Of a successor a reservation wrote over it says less.
THEOREM StoreLinks == Spec => []Links
<1>1. Init => Links
  BY InitInv, InitLinks DEF Links
<1>2. Links /\ [Next]_vars => Links'
  <2>1. Links /\ [Next]_vars => IInv'
    BY NextKeeps, StutterKeeps DEF Links
  <2>2. Links /\ IInv' /\ [Next]_vars => LinksGood'
    BY NextLinks, StutterLinks
  <2> QED
    BY <2>1, <2>2 DEF Links
<1> QED
  BY <1>1, <1>2, PTL DEF Spec

\* The first round of a successor (_resume_reserved_successor) is run by one invocation at a
\* time: whatever restarts and reruns with --id race and whichever of them die, the one that
\* has launched it holds the lock of the successor.  A successor that a reservation wrote
\* over starts anew.
THEOREM SuccessorStarts == Spec => []SuccessorStartsOnce
<1>1. Links => SuccessorStartsOnce
  <2> SUFFICES ASSUME Links, NEW p \in Procs, NEW q \in Procs,
                      FirstRoundOf(p) # None, FirstRoundOf(p) = FirstRoundOf(q),
                      FirstRoundOf(p) \notin overwritten,
                      "continue" \notin {me[p].cmd, me[q].cmd}
               PROVE  p = q
    BY DEF SuccessorStartsOnce
  <2>1. \A r \in {p, q} : me[r].launched /\ me[r].doc.rounds = 1 /\ IsSuccessor(me[r].key)
                          /\ me[r].key = FirstRoundOf(p)
    BY DEF FirstRoundOf
  <2>2. successorLock[FirstRoundOf(p)] = p
    BY <2>1 DEF Links, LinksGood, FirstLocked, Kept
  <2>3. successorLock[FirstRoundOf(p)] = q
    BY <2>1 DEF Links, LinksGood, FirstLocked, Kept
  <2> QED
    BY <2>2, <2>3
<1> QED
  BY <1>1, StoreLinks, PTL

\* A cycle redirects exactly when it is aborted, and a restart that goes on to advance a
\* cycle advances the one its source redirects to (reserve_cycle_successor), whatever copies
\* are saved late: of every cycle but a restarted successor that the reservation of its own
\* restart wrote over.
THEOREM RedirectsAgree == Spec => [](AbortedRedirects /\ RestartFollowsRedirect)
<1>1. Links => AbortedRedirects
  BY DEF Links, LinksGood, DiskLinked
<1>2. Links => RestartFollowsRedirect
  BY DEF Links, LinksGood, CopyLinked, Linked, Reserving, RedirectsTo, RestartFollowsRedirect,
         Kept
<1> QED
  BY <1>1, <1>2, StoreLinks, PTL

-----------------------------------------------------------------------------
(* The store implements the registry                                        *)

NamesStay == \A k \in Keys : Named(k) => cycle_keys'[k] = cycle_keys[k]

\* Documents change only where a save ends; a cycle keeps its id.
LEMMA OnlyWrites ==
  ASSUME Links, [Next]_vars
  PROVE  \/ UNCHANGED disk /\ NamesStay
         \/ \E p \in Procs : Write(p) \/ WriteSource(p)
<1>1. CASE UNCHANGED vars
  BY <1>1 DEF vars, store, NamesStay
<1>2. ASSUME NEW k \in Keys, Names(k) PROVE NamesStay
  BY <1>2 DEF Names, NamesStay, Named, Links, IInv, StoreGood, StoreTyped
<1>3. CASE Next
  <2>1. PICK p \in Procs :
          Command(p) \/ Save(p) \/ Restart(p) \/ Advance(p) \/ Busy(p) \/ Crash(p) \/ GiveUp(p)
    BY <1>3 DEF Next
  <2>2. CASE TakeLock(p) \/ Reserve(p)
    <3>1. me[p].key \in Keys /\ UNCHANGED disk
      BY <2>2 DEF TakeLock, Reserve, Links, IInv, CopiesGood, GoodCopy
    <3>2. Names(me[p].key) \/ UNCHANGED cycle_keys
      BY <2>2 DEF TakeLock, Reserve
    <3> QED
      BY <1>2, <3>1, <3>2 DEF NamesStay
  <2>3. CASE Command(p) \/ PrepareSuccessor(p) \/ Advance(p) \/ Busy(p) \/ Crash(p) \/ GiveUp(p)
    <3>1. UNCHANGED store
      BY <2>3 DEF Command, LoadRerun, LoadRecord, Continue, Create, LoadRestart,
         PrepareSuccessor, Advance, Enter, Leave, Launch, Collect, NothingToRun, RoundEnds, Busy,
         Crash, GiveUp, Ends
    <3> QED
      BY <3>1 DEF store, NamesStay
  <2> QED
    BY <2>1, <2>2, <2>3 DEF Save, Restart
<1> QED
  BY <1>1, <1>3

\* A save makes a cycle appear under its id or changes nothing the registry knows; a
\* reservation may write an active cycle's successor as it was before that was restarted.
LEMMA WriteAppears ==
  ASSUME Links, Links', NEW p \in Procs, Write(p)
  PROVE  Registry!Next \/ UNCHANGED Registry!vars
<1> DEFINE u == me[p]
<1>1. /\ u.at = "write" /\ UNCHANGED cycle_keys
      /\ disk' = [disk EXCEPT ![u.key] = u.doc]
      /\ u.key \in Keys /\ u.doc \in Doc /\ Named(u.key)
      /\ CopyLinked(u) /\ GoodCopy(u)
  BY DEF Write, Links, LinksGood, IInv, CopiesGood, GoodCopy, Invocation
<1>2. /\ disk'[u.key] = u.doc /\ \A j \in Keys : j # u.key => disk'[j] = disk[j]
      /\ u.doc # NoDoc
  BY <1>1, DocStored DEF Links, IInv, StoreGood, StoreTyped
<1>3. CASE Stored(u.key)
  <2>1. PICK k \in Keys, t \in Keys \cup {None} : k = u.key /\ t = u.doc.redirect
    BY <1>1 DEF Doc
  <2>2. /\ disk[k] # NoDoc /\ disk'[k] # NoDoc /\ disk'[k].redirect = t
        /\ \A j \in Keys : j # k => disk'[j] = disk[j]
        /\ cycle_keys' = cycle_keys
        /\ t # None => t \in Restarts[k] /\ disk[t] # NoDoc
    BY <1>1, <1>2, <1>3, <2>1 DEF GoodCopy, Stored
  <2>3. \A j \in Keys :
          /\ (IF disk'[j] = NoDoc THEN "absent"
              ELSE IF disk'[j].redirect # None THEN "superseded" ELSE "active")
               = IF j = k THEN IF t # None THEN "superseded" ELSE "active"
                 ELSE IF disk[j] = NoDoc THEN "absent"
                 ELSE IF disk[j].redirect # None THEN "superseded" ELSE "active"
          /\ (IF disk'[j] = NoDoc THEN None ELSE cycle_keys'[j])
               = IF disk[j] = NoDoc THEN None ELSE cycle_keys[j]
          /\ (IF disk'[j] = NoDoc THEN None ELSE disk'[j].redirect)
               = IF j = k THEN t ELSE IF disk[j] = NoDoc THEN None ELSE disk[j].redirect
    BY <2>2
  <2>4. CASE t = disk[k].redirect
    <3>1. \A j \in Keys : /\ disk'[j] = NoDoc <=> disk[j] = NoDoc
                          /\ disk[j] # NoDoc => disk'[j].redirect = disk[j].redirect
      BY <2>2, <2>4
    <3> QED
      BY <1>1, <3>1 DEF Registry!vars
  <2>5. CASE disk[k].redirect = None /\ t # None
    <3>1. Registry!Supersede(k, t)
      BY <2>2, <2>3, <2>5 DEF Registry!Supersede
    <3> QED
      BY <2>1, <2>5, <3>1 DEF Registry!Next
  <2>6. CASE disk[k].redirect # None /\ t # disk[k].redirect
    <3>1. u.after = "source"
      BY <1>1, <2>1, <2>2, <2>6 DEF CopyLinked, Merging, Superseded
    <3>2. PICK s \in Keys : /\ s # k /\ k \in Restarts[s] /\ disk[s] # NoDoc
                            /\ disk[s].redirect = None
      BY <1>1, <2>1, <3>1, KeysAssumption
         DEF GoodCopy, Reserving, CopyLinked, Merging, InSource, Stored
    <3>3. Registry!Repeat(s, k, t)
      BY <2>2, <2>3, <2>6, <3>2 DEF Registry!Repeat
    <3> QED
      BY <3>3 DEF Registry!Next
  <2> QED
    BY <2>4, <2>5, <2>6
<1>4. CASE ~Stored(u.key)
  <2>1. u.doc.redirect = None
    BY <1>1, <1>4 DEF CopyLinked, Linked
  <2>2. PICK k \in Keys, i \in Ids : k = u.key /\ i = cycle_keys[k]
    BY <1>1 DEF Named, Links, IInv, StoreGood, StoreTyped
  <2>3. \A j \in Keys : (IF disk[j] = NoDoc THEN None ELSE cycle_keys[j]) # i
    BY <1>1, <1>4, <2>2, KeysAssumption
       DEF Links, IInv, StoreGood, IndexConsistent, Stored, Named
  <2>4. /\ disk[k] = NoDoc /\ disk'[k] # NoDoc /\ disk'[k].redirect = None
        /\ \A j \in Keys : j # k => disk'[j] = disk[j]
        /\ cycle_keys' = cycle_keys /\ cycle_keys[k] = i
    BY <1>1, <1>2, <1>4, <2>1, <2>2 DEF Stored
  <2>5. Registry!Appear(k, i)
    <3>1. \A j \in Keys :
            /\ (IF disk'[j] = NoDoc THEN "absent"
                ELSE IF disk'[j].redirect # None THEN "superseded" ELSE "active")
                 = IF j = k THEN "active"
                   ELSE IF disk[j] = NoDoc THEN "absent"
                   ELSE IF disk[j].redirect # None THEN "superseded" ELSE "active"
            /\ (IF disk'[j] = NoDoc THEN None ELSE cycle_keys'[j])
                 = IF j = k THEN i ELSE IF disk[j] = NoDoc THEN None ELSE cycle_keys[j]
            /\ (IF disk'[j] = NoDoc THEN None ELSE disk'[j].redirect)
                 = IF disk[j] = NoDoc THEN None ELSE disk[j].redirect
      BY <2>4
    <3> QED
      BY <2>3, <2>4, <3>1 DEF Registry!Appear
  <2> QED
    BY <2>5 DEF Registry!Next
<1> QED
  BY <1>3, <1>4

\* The second write of a reservation supersedes an active cycle by one that is there.
LEMMA SourceSupersedes ==
  ASSUME Links, Links', NEW p \in Procs, WriteSource(p)
  PROVE  Registry!Next
<1> DEFINE u == me[p]
<1>1. /\ u.at = "source" /\ UNCHANGED cycle_keys
      /\ u.key \in Keys /\ u.source \in Keys /\ Stored(u.source) /\ Stored(u.key)
      /\ u.key \in Restarts[u.source] /\ disk[u.source].redirect = None
  BY DEF WriteSource, Links, LinksGood, IInv, CopiesGood, GoodCopy, Reserving, CopyLinked,
         Merging, InSource
<1>2. PICK k \in Keys, t \in Keys : k = u.source /\ t = u.key
  BY <1>1
<1>3. disk[k] \in Doc
  BY <1>1, <1>2, LoadedGood DEF Links
<1>4. /\ disk[k] # NoDoc /\ disk[k].redirect = None /\ disk[t] # NoDoc /\ t \in Restarts[k]
      /\ t # None
  BY <1>1, <1>2, KeysAssumption DEF Stored
<1>5. /\ disk'[k].redirect = t /\ disk'[k] # NoDoc
      /\ \A j \in Keys : j # k => disk'[j] = disk[j]
      /\ cycle_keys' = cycle_keys
  <2>1. disk' = [disk EXCEPT ![k] = [disk[k] EXCEPT !.stage = "aborted", !.redirect = t]]
    BY <1>2 DEF WriteSource, Target, Links, IInv, StoreGood, StoreTyped
  <2>2. [disk[k] EXCEPT !.stage = "aborted", !.redirect = t] \in Doc
    BY <1>3 DEF Doc, Stages
  <2> QED
    BY <1>1, <1>3, <2>1, <2>2, DocStored DEF Links, IInv, StoreGood, StoreTyped, Doc
<1>6. Registry!Supersede(k, t)
  <2>1. \A j \in Keys :
          /\ (IF disk'[j] = NoDoc THEN "absent"
              ELSE IF disk'[j].redirect # None THEN "superseded" ELSE "active")
               = IF j = k THEN "superseded"
                 ELSE IF disk[j] = NoDoc THEN "absent"
                 ELSE IF disk[j].redirect # None THEN "superseded" ELSE "active"
          /\ (IF disk'[j] = NoDoc THEN None ELSE cycle_keys'[j])
               = IF disk[j] = NoDoc THEN None ELSE cycle_keys[j]
          /\ (IF disk'[j] = NoDoc THEN None ELSE disk'[j].redirect)
               = IF j = k THEN t ELSE IF disk[j] = NoDoc THEN None ELSE disk[j].redirect
    BY <1>4, <1>5
  <2> QED
    BY <1>4, <2>1 DEF Registry!Supersede
<1> QED
  BY <1>6 DEF Registry!Next

\* The files, the index and the locks of the store implement the registry: a cycle appears
\* once, under an id that is its own for good, and it is superseded by a cycle that is there
\* and for good, whatever copies are saved late and whoever dies (save_cycle,
\* reserve_cycle_successor).  What the repeated restart of an active cycle may do to its
\* successor is the registry's action Repeat.
THEOREM StoreKeepsRegistry == Spec => KeepsRegistry
<1>1. Init => Registry!Init
  BY DEF Init, Registry!Init
<1>2. Links /\ Links' /\ [Next]_vars => [Registry!Next]_(Registry!vars)
  <2> SUFFICES ASSUME Links, Links', [Next]_vars
               PROVE  Registry!Next \/ UNCHANGED Registry!vars
    OBVIOUS
  <2>1. CASE UNCHANGED disk /\ NamesStay
    <3>1. \A j \in Keys : disk'[j] = disk[j] /\ (disk[j] # NoDoc => cycle_keys'[j] = cycle_keys[j])
      BY <2>1 DEF NamesStay, Named, Links, IInv, StoreGood, IndexConsistent
    <3> QED
      BY <3>1 DEF Registry!vars
  <2> QED
    BY <2>1, OnlyWrites, WriteAppears, SourceSupersedes
<1> QED
  BY <1>1, <1>2, StoreLinks, PTL DEF Spec, KeepsRegistry, Registry!Spec

=============================================================================
