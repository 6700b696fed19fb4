------------------------- MODULE RuntimeBootstrapProofs -------------------------
(* Theorems about RuntimeBootstrap, for any number of processes, parts,         *)
(* versions and kills and any retirement and lease ages.  The inductive         *)
(* invariant has a part about every process, one about the directories and one  *)
(* about the leases; each action is shown to keep them one by one.              *)
EXTENDS RuntimeBootstrap, TLAPS

\* what a process has at hand where it is
ProcGood(p) ==
    /\ pc[p] \in {"promote", "clean", "condemn", "remove", "started", "running"}
           => target[p] \in Content
    /\ pc[p] = "promote" => staging[p] = target[p]
    /\ pc[p] \in {"idle", "copy", "promote"} => todo[p] = {}
    /\ IF pc[p] \in {"condemn", "remove"} THEN doomed[p].root \in Content
       ELSE doomed[p] = Nothing
    /\ p \in leased => pc[p] = "running"

\* what a guarded lease keeps away: the root is whole, the lease in it is as
\* young as can be, and nobody is removing the root
LeaseGood(p) ==
    /\ Whole(roots[target[p]])
    /\ roots[target[p]].leases[p] = now
    /\ ~Removing(target[p])

LeasesGood == \A p \in guarded : LeaseGood(p)

IInv == /\ TypeOK
        /\ NameMatchesContent
        /\ \A p \in Procs : ProcGood(p)
        /\ LeasesGood

-----------------------------------------------------------------------------
(* Steps in general                                                         *)

\* the types of what the processes keep for themselves
LocalTyped ==
    /\ pc \in [Procs -> {"idle", "copy", "promote", "clean", "condemn", "remove",
                         "started", "running", "ended"}]
    /\ staging \in [Procs -> [Parts -> Versions \union {None}]]
    /\ target \in [Procs -> Content \union {None}]
    /\ todo \in [Procs -> SUBSET Content]
    /\ doomed \in [Procs -> [root: Content \union {None},
            entries: SUBSET (Parts \union {Metadata} \union Procs)]]
    /\ leased \subseteq Procs /\ guarded \subseteq leased

\* the launch never has the root it will run from on its list
Spared(p) == target[p] # None => target[p] \notin todo[p] \union {doomed[p].root}

OutsideTyped == installed \in Content /\ now \in Time /\ kills \in 0..MaxKills
RootsGood == roots \in [Content -> Root] /\ NameMatchesContent
LocalGood == LocalTyped /\ \A p \in Procs : ProcGood(p) /\ Spared(p)

\* a step of p leaves what the others have alone
OnlyMoves(p) ==
    /\ pc' = [pc EXCEPT ![p] = pc'[p]]
    /\ staging' = [staging EXCEPT ![p] = staging'[p]]
    /\ target' = [target EXCEPT ![p] = target'[p]]
    /\ todo' = [todo EXCEPT ![p] = todo'[p]]
    /\ doomed' = [doomed EXCEPT ![p] = doomed'[p]]
    /\ leased' \subseteq leased \union {p} /\ leased \subseteq leased' \union {p}
    /\ guarded' \subseteq guarded \union {p}

\* the files of a directory and its being there
SameFiles(c) == roots'[c].dir = roots[c].dir /\ roots'[c].files = roots[c].files

\* The parts of the invariant are those of the type invariant and the rest.
LEMMA Parted == IInv <=> OutsideTyped /\ RootsGood /\ LocalGood /\ LeasesGood
  BY DEF IInv, TypeOK, OutsideTyped, RootsGood, LocalGood, LocalTyped, Spared

\* A step of one process keeps what is said of each process when it keeps what
\* is said of that one.
LEMMA OneMoves ==
  ASSUME NEW p \in Procs, LocalGood, LocalTyped', OnlyMoves(p), ProcGood(p)', Spared(p)'
  PROVE  LocalGood'
  BY DEF LocalGood, LocalTyped, OnlyMoves, ProcGood, Spared

\* A lease stays good in a root whose files, and whose lease of that process,
\* are left alone, while nobody starts to remove the root.
LEMMA LeaseKept ==
  ASSUME NEW q \in Procs, LeaseGood(q), target'[q] = target[q], now' = now,
         SameFiles(target[q]),
         roots'[target[q]].leases[q] = roots[target[q]].leases[q],
         Removing(target[q])' => Removing(target[q])
  PROVE  LeaseGood(q)'
  BY DEF LeaseGood, SameFiles, Whole, Removing

\* A guarded lease is a fresh one, in a directory that is not empty.
LEMMA GuardedRoot ==
  ASSUME IInv, NEW q \in guarded
  PROVE  /\ q \in Procs /\ target[q] \in Content /\ pc[q] = "running"
         /\ roots[target[q]].dir
         /\ ~Empty(roots[target[q]])
         /\ HasActiveLease(roots[target[q]])
         /\ Fresh(roots[target[q]].leases[q])
  <1>1. q \in Procs /\ q \in leased /\ pc[q] = "running" /\ target[q] \in Content
    BY DEF IInv, TypeOK, ProcGood
  <1>2. LeaseGood(q)
    BY DEF IInv, LeasesGood
  <1>3. now \in Nat /\ now # None
    BY BootstrapAssumption DEF IInv, TypeOK, Time
  <1>4. Fresh(roots[target[q]].leases[q])
    BY <1>2, <1>3, BootstrapAssumption DEF LeaseGood, Fresh
  <1>5. QED
    BY <1>1, <1>2, <1>4, BootstrapAssumption DEF LeaseGood, Whole, Empty, HasActiveLease

\* A step of p that leaves the directories alone and starts no removal keeps the
\* leases of the others.
LEMMA RootsAlone ==
  ASSUME NEW p \in Procs, IInv, OnlyMoves(p), UNCHANGED <<roots, now>>,
         p \in guarded' => p \in guarded /\ target'[p] = target[p],
         doomed'[p].root \in {None, doomed[p].root}
  PROVE  LeasesGood'
  <1> SUFFICES ASSUME NEW q \in guarded' PROVE LeaseGood(q)'
    BY DEF LeasesGood
  <1>1. q \in guarded /\ q \in Procs /\ target[q] \in Content
    BY GuardedRoot DEF OnlyMoves, IInv, TypeOK
  <1>2. LeaseGood(q)
    BY <1>1 DEF IInv, LeasesGood
  <1>3. target'[q] = target[q]
    BY <1>1 DEF OnlyMoves, IInv, TypeOK
  <1>4. target[q] # None
    BY <1>1, BootstrapAssumption
  <1>5. Removing(target[q])' => Removing(target[q])
    BY <1>1, <1>3, <1>4 DEF Removing, OnlyMoves, IInv, TypeOK
  <1>6. QED
    BY <1>1, <1>2, <1>3, <1>5, LeaseKept DEF SameFiles

\* A process that stops has nothing left.
LEMMA Stopped ==
  ASSUME NEW p \in Procs, IInv, Stop(p)
  PROVE  LocalGood' /\ OnlyMoves(p) /\ p \notin guarded' /\ doomed'[p].root = None
  <1>1. LocalGood
    BY Parted
  <1>2. NotCopied \in [Parts -> Versions \union {None}]
    BY DEF NotCopied
  <1>3. Nothing \in [root: Content \union {None},
                     entries: SUBSET (Parts \union {Metadata} \union Procs)]
        /\ Nothing.root = None
    BY DEF Nothing
  <1>4. LocalTyped' /\ OnlyMoves(p)
    BY <1>1, <1>2, <1>3 DEF LocalGood, LocalTyped, Stop, Go, OnlyMoves
  <1>5. ProcGood(p)' /\ Spared(p)'
    BY <1>1 DEF LocalGood, LocalTyped, Stop, Go, ProcGood, Spared
  <1>6. QED
    BY <1>1, <1>3, <1>4, <1>5, OneMoves DEF Stop, LocalGood, LocalTyped

-----------------------------------------------------------------------------
(* The launcher: one lemma per action                                       *)

\* An action of p that touches no directory and starts no removal keeps the
\* invariant when it keeps what is said of p.
LEMMA QuietStep ==
  ASSUME NEW p \in Procs, IInv, OnlyMoves(p), UNCHANGED <<outside, roots>>,
         LocalTyped', ProcGood(p)', Spared(p)',
         p \in guarded' => p \in guarded /\ target'[p] = target[p],
         doomed'[p].root \in {None, doomed[p].root}
  PROVE  IInv'
  <1>1. LeasesGood'
    BY RootsAlone DEF outside
  <1>2. LocalGood'
    BY Parted, OneMoves
  <1>3. OutsideTyped' /\ RootsGood'
    BY Parted DEF outside, OutsideTyped, RootsGood, NameMatchesContent
  <1>4. QED
    BY <1>1, <1>2, <1>3, Parted
       DEF IInv, TypeOK, OutsideTyped, RootsGood, LocalGood, LocalTyped, Spared

\* A process that has taken no lease yet is not guarded.
LEMMA NotRunning ==
  ASSUME NEW p \in Procs, IInv, pc[p] # "running"
  PROVE  p \notin guarded /\ p \notin leased
  BY DEF IInv, TypeOK, ProcGood

\* The roots to look at are directories of other content.
LEMMA OthersTyped ==
  ASSUME NEW c \in Content
  PROVE  Others(c) \subseteq Content /\ c \notin Others(c)
  BY DEF Others, Listed

\* A launch that goes on with root c looks at the others.
LEMMA Used ==
  ASSUME NEW p \in Procs, NEW c \in Content, LocalGood, Use(p, c),
         doomed[p] = Nothing, p \notin leased,
         staging' \in {staging, [staging EXCEPT ![p] = NotCopied]},
         UNCHANGED <<doomed, leased, guarded>>
  PROVE  LocalTyped' /\ OnlyMoves(p) /\ ProcGood(p)' /\ Spared(p)'
  <1>1. Others(c) \in SUBSET Content /\ c \notin Others(c)
    BY OthersTyped
  <1>2. NotCopied \in [Parts -> Versions \union {None}]
    BY DEF NotCopied
  <1>3. staging' \in [Procs -> [Parts -> Versions \union {None}]]
        /\ staging' = [staging EXCEPT ![p] = staging'[p]]
    <2>1. CASE staging' = staging
      BY <2>1 DEF LocalGood, LocalTyped
    <2>2. CASE staging' = [staging EXCEPT ![p] = NotCopied]
      BY <1>2, <2>2 DEF LocalGood, LocalTyped
    <2>3. QED
      BY <2>1, <2>2
  <1>4. LocalTyped'
    BY <1>1, <1>3 DEF LocalGood, LocalTyped, Use, Go
  <1>5. OnlyMoves(p)
    BY <1>3 DEF LocalGood, LocalTyped, Use, Go, OnlyMoves
  <1>6. pc'[p] = "clean" /\ target'[p] = c /\ todo'[p] = Others(c)
        /\ doomed'[p] = Nothing
    BY DEF LocalGood, LocalTyped, Use, Go
  <1>7. ProcGood(p)' /\ Spared(p)'
    BY <1>1, <1>6, BootstrapAssumption DEF ProcGood, Spared, Nothing
  <1>8. QED
    BY <1>4, <1>5, <1>7

LEMMA LaunchStep == ASSUME NEW p \in Procs, IInv, Launch(p) PROVE IInv'
  <1>1. LocalGood /\ installed \in Content /\ p \notin guarded /\ p \notin leased
        /\ doomed[p] = Nothing
    BY Parted, NotRunning DEF Launch, OutsideTyped, LocalGood, ProcGood
  <1>2. CASE Use(p, installed)
    BY <1>1, <1>2, Used, QuietStep DEF Launch
  <1>3. CASE ~Use(p, installed)
    <2>1. LocalTyped' /\ OnlyMoves(p)
      BY <1>1, <1>3 DEF LocalGood, LocalTyped, Launch, Go, OnlyMoves
    <2>2. ProcGood(p)' /\ Spared(p)'
      BY <1>1, <1>3 DEF LocalGood, LocalTyped, Launch, Go, ProcGood, Spared
    <2>3. QED
      BY <1>1, <2>1, <2>2, QuietStep DEF Launch
  <1>4. QED
    BY <1>2, <1>3

LEMMA CopyPartStep ==
  ASSUME NEW p \in Procs, NEW part \in Parts, IInv, CopyPart(p, part) PROVE IInv'
  <1>1. LocalGood /\ p \notin guarded /\ p \notin leased
        /\ installed[part] \in Versions
    BY Parted, NotRunning DEF CopyPart, OutsideTyped, Content
  <1>2. LocalTyped' /\ OnlyMoves(p)
    BY <1>1 DEF LocalGood, LocalTyped, CopyPart, OnlyMoves
  <1>3. ProcGood(p)' /\ Spared(p)'
    BY <1>1 DEF LocalGood, LocalTyped, CopyPart, ProcGood, Spared
  <1>4. QED
    BY <1>1, <1>2, <1>3, QuietStep DEF CopyPart

LEMMA StopStep ==
  ASSUME NEW p \in Procs, IInv, Stop(p), UNCHANGED <<outside, roots>> PROVE IInv'
  <1>1. LocalGood' /\ OnlyMoves(p) /\ p \notin guarded' /\ doomed'[p].root = None
    BY Stopped
  <1>2. QED
    BY <1>1, QuietStep DEF LocalGood

LEMMA StagedStep == ASSUME NEW p \in Procs, IInv, Staged(p) PROVE IInv'
  <1>1. LocalGood /\ p \notin guarded /\ p \notin leased
    BY Parted, NotRunning DEF Staged
  <1>2. StagedKey(p) \in Content
    <2>1. staging[p] \in [Parts -> Versions \union {None}]
      BY <1>1 DEF LocalGood, LocalTyped
    <2>2. \A part \in Parts : staging[p][part] \in Versions
      BY <2>1 DEF Staged
    <2>3. QED
      BY <2>1, <2>2 DEF StagedKey, Content
  <1>3. CASE Use(p, StagedKey(p))
    <2>1. staging' = [staging EXCEPT ![p] = NotCopied] \/ staging' = staging
      BY DEF Staged
    <2>2. doomed[p] = Nothing
      BY <1>1 DEF Staged, LocalGood, ProcGood
    <2>3. QED
      BY <1>1, <1>2, <1>3, <2>1, <2>2, Used, QuietStep DEF Staged
  <1>4. CASE ~Use(p, StagedKey(p))
    <2>1. /\ pc[p] = "copy" /\ pc' = [pc EXCEPT ![p] = "promote"]
          /\ target' = [target EXCEPT ![p] = StagedKey(p)]
          /\ UNCHANGED <<outside, roots, staging, todo, doomed, leased, guarded>>
      BY <1>4 DEF Staged, Go
    <2>2. LocalTyped'
      BY <1>1, <1>2, <2>1 DEF LocalGood, LocalTyped
    <2>3. OnlyMoves(p)
      BY <1>1, <1>2, <2>1 DEF LocalGood, LocalTyped, OnlyMoves
    <2>4. ProcGood(p)' /\ Spared(p)'
      BY <1>1, <1>2, <2>1, BootstrapAssumption
      DEF LocalGood, LocalTyped, ProcGood, Spared, Nothing, StagedKey
    <2>5. QED
      BY <1>1, <2>1, <2>2, <2>3, <2>4, QuietStep
  <1>5. QED
    BY <1>3, <1>4

LEMMA PromoteLateStep == ASSUME NEW p \in Procs, IInv, PromoteLate(p) PROVE IInv'
  <1>1. CASE Stop(p)
    BY <1>1, StopStep DEF PromoteLate
  <1>2. CASE ~Stop(p)
    <2>1. LocalGood /\ p \notin guarded /\ p \notin leased /\ target[p] \in Content
      BY Parted, NotRunning DEF PromoteLate, LocalGood, ProcGood
    <2>2. doomed[p] = Nothing
      BY <2>1 DEF PromoteLate, LocalGood, ProcGood
    <2>3. Use(p, target[p]) /\ UNCHANGED <<doomed, leased, guarded, outside, roots>>
          /\ staging' = [staging EXCEPT ![p] = NotCopied]
      BY <1>2 DEF PromoteLate
    <2>4. QED
      BY <2>1, <2>2, <2>3, Used, QuietStep
  <1>3. QED
    BY <1>1, <1>2

LEMMA ListRootStep == ASSUME NEW p \in Procs, IInv, ListRoot(p) PROVE IInv'
  <1>1. LocalGood /\ p \notin guarded /\ p \notin leased /\ doomed[p].root \in Content
    BY Parted, NotRunning DEF ListRoot, LocalGood, ProcGood
  <1>2. roots[doomed[p].root].files \union Leases(roots[doomed[p].root])
          \subseteq Parts \union {Metadata} \union Procs
    BY <1>1, Parted DEF RootsGood, Root, Leases
  <1>3. LocalTyped' /\ OnlyMoves(p)
    BY <1>1, <1>2 DEF LocalGood, LocalTyped, ListRoot, Go, OnlyMoves
  <1>4. ProcGood(p)' /\ Spared(p)' /\ doomed'[p].root = doomed[p].root
    BY <1>1 DEF LocalGood, LocalTyped, ListRoot, Go, ProcGood, Spared
  <1>5. QED
    BY <1>1, <1>3, <1>4, QuietStep DEF ListRoot

LEMMA RemoveFailsStep == ASSUME NEW p \in Procs, IInv, RemoveFails(p) PROVE IInv'
  <1>1. LocalGood /\ pc[p] \in {"condemn", "remove"} /\ p \notin guarded /\ p \notin leased
    BY Parted, NotRunning DEF RemoveFails, Obstructed
  <1>2. Nothing \in [root: Content \union {None},
                     entries: SUBSET (Parts \union {Metadata} \union Procs)]
        /\ Nothing.root = None
    BY DEF Nothing
  <1>3. LocalTyped' /\ OnlyMoves(p)
    BY <1>1, <1>2 DEF LocalGood, LocalTyped, RemoveFails, Go, OnlyMoves
  <1>4. ProcGood(p)' /\ Spared(p)' /\ doomed'[p].root = None
    BY <1>1, <1>2, BootstrapAssumption
    DEF LocalGood, LocalTyped, RemoveFails, Go, ProcGood, Spared
  <1>5. QED
    BY <1>1, <1>3, <1>4, QuietStep DEF RemoveFails

LEMMA ExecStep == ASSUME NEW p \in Procs, IInv, Exec(p) PROVE IInv'
  <1>1. CASE Stop(p)
    BY <1>1, StopStep DEF Exec
  <1>2. CASE ~Stop(p)
    <2>1. LocalGood /\ p \notin guarded /\ p \notin leased
      BY Parted, NotRunning DEF Exec
    <2>2. LocalTyped' /\ OnlyMoves(p)
      BY <1>2, <2>1 DEF LocalGood, LocalTyped, Exec, Go, OnlyMoves
    <2>3. ProcGood(p)' /\ Spared(p)'
      BY <1>2, <2>1 DEF LocalGood, LocalTyped, Exec, Go, ProcGood, Spared
    <2>4. QED
      BY <1>2, <2>1, <2>2, <2>3, QuietStep DEF Exec
  <1>3. QED
    BY <1>1, <1>2

-----------------------------------------------------------------------------
(* The actions that change a directory                                      *)

\* An action of p that changes directories keeps the invariant when it keeps what
\* is said of p and of the directories, and the files and the lease every other
\* guarded process relies on.
LEMMA RootStep ==
  ASSUME NEW p \in Procs, IInv, OnlyMoves(p), UNCHANGED outside,
         RootsGood', LocalTyped', ProcGood(p)', Spared(p)',
         \A q \in guarded : /\ SameFiles(target[q])
                            /\ q # p => roots'[target[q]].leases[q]
                                          = roots[target[q]].leases[q]
                            /\ doomed'[p].root = target[q]
                                   => doomed[p].root = target[q],
         p \in guarded' => LeaseGood(p)'
  PROVE  IInv'
  <1>1. LocalGood'
    BY Parted, OneMoves
  <1>2. OutsideTyped'
    BY Parted DEF outside, OutsideTyped
  <1>3. ASSUME NEW q \in guarded', q # p PROVE LeaseGood(q)'
    <2>1. q \in guarded /\ q \in Procs /\ target[q] \in Content
      BY <1>3, GuardedRoot DEF OnlyMoves, IInv, TypeOK
    <2>2. LeaseGood(q)
      BY <2>1 DEF IInv, LeasesGood
    <2>3. target'[q] = target[q] /\ now' = now
      BY <1>3, <2>1 DEF OnlyMoves, IInv, TypeOK, outside
    <2>4. Removing(target[q])' => Removing(target[q])
      BY <2>1, <2>3 DEF Removing, OnlyMoves, IInv, TypeOK
    <2>5. QED
      BY <1>3, <2>1, <2>2, <2>3, <2>4, LeaseKept
  <1>4. LeasesGood'
    BY <1>3 DEF LeasesGood
  <1>5. QED
    BY <1>1, <1>2, <1>4, Parted
       DEF IInv, TypeOK, OutsideTyped, RootsGood, LocalGood, LocalTyped, Spared

\* Deleting the stale leases of a directory changes no file and no fresh lease.
LEMMA StaleOnesGo ==
  ASSUME NEW r \in Root
  PROVE  /\ WithoutStaleLeases(r) \in Root
         /\ WithoutStaleLeases(r).dir = r.dir
         /\ WithoutStaleLeases(r).files = r.files
         /\ WithoutStaleLeases(r).holds = r.holds
         /\ \A q \in Procs : Fresh(r.leases[q])
               => WithoutStaleLeases(r).leases[q] = r.leases[q]
  BY DEF WithoutStaleLeases, Root

\* Writing or deleting one lease changes no file and no other lease.
LEMMA LeaseWritten ==
  ASSUME NEW r \in Root, NEW p \in Procs, NEW t \in Time \union {None}
  PROVE  /\ [r EXCEPT !.leases[p] = t] \in Root
         /\ [r EXCEPT !.leases[p] = t].dir = r.dir
         /\ [r EXCEPT !.leases[p] = t].files = r.files
         /\ [r EXCEPT !.leases[p] = t].holds = r.holds
         /\ [r EXCEPT !.leases[p] = t].leases[p] = t
         /\ \A q \in Procs \ {p} : [r EXCEPT !.leases[p] = t].leases[q] = r.leases[q]
  BY DEF Root

LEMMA PromoteStep == ASSUME NEW p \in Procs, IInv, Promote(p) PROVE IInv'
  <1> DEFINE c == target[p]
             new == [NoRoot EXCEPT !.dir = TRUE, !.files = Parts \union {Metadata},
                                   !.holds = staging[p], !.created = now]
  <1>1. LocalGood /\ RootsGood /\ p \notin guarded /\ p \notin leased
        /\ c \in Content /\ staging[p] = c /\ todo[p] = {} /\ doomed[p] = Nothing
    BY Parted, NotRunning DEF Promote, LocalGood, ProcGood
  <1>2. new \in Root /\ new.holds = c
    BY <1>1, Parted DEF NoRoot, Root, OutsideTyped
  <1>3. RootsGood'
    BY <1>1, <1>2 DEF RootsGood, Promote, NameMatchesContent
  <1>4. \A q \in guarded : target[q] # c
    BY GuardedRoot DEF Promote
  <1>5. \A q \in guarded : SameFiles(target[q])
                          /\ roots'[target[q]].leases[q] = roots[target[q]].leases[q]
    BY <1>1, <1>4, GuardedRoot DEF RootsGood, Promote, SameFiles
  <1>6. NotCopied \in [Parts -> Versions \union {None}]
        /\ Others(c) \in SUBSET Content /\ c \notin Others(c)
    BY <1>1, OthersTyped DEF NotCopied
  <1>7. LocalTyped' /\ OnlyMoves(p)
    BY <1>1, <1>6 DEF LocalGood, LocalTyped, Promote, Go, OnlyMoves
  <1>8. pc'[p] = "clean" /\ target'[p] = c /\ todo'[p] = Others(c)
        /\ doomed'[p] = Nothing
    BY <1>1 DEF LocalGood, LocalTyped, Promote, Go
  <1>9. ProcGood(p)' /\ Spared(p)'
    BY <1>1, <1>6, <1>8, BootstrapAssumption DEF ProcGood, Spared, Nothing, Promote
  <1>10. QED
    BY <1>1, <1>3, <1>5, <1>7, <1>8, <1>9, RootStep DEF Promote

LEMMA LeaveRootStep ==
  ASSUME NEW p \in Procs, NEW c \in Content, IInv, LeaveRoot(p, c) PROVE IInv'
  <1>1. LocalGood /\ RootsGood /\ roots[c] \in Root /\ p \notin guarded
    BY Parted, NotRunning DEF RootsGood, LeaveRoot
  <1>2. roots' = [roots EXCEPT ![c] =
            IF Metadata \in roots[c].files /\ ~HasActiveLease(roots[c])
            THEN WithoutStaleLeases(roots[c]) ELSE roots[c]]
    BY <1>1 DEF LeaveRoot, RootsGood
  <1>3. RootsGood'
    BY <1>1, <1>2, StaleOnesGo DEF RootsGood, NameMatchesContent
  <1>4. ASSUME NEW q \in guarded
        PROVE  SameFiles(target[q])
               /\ roots'[target[q]].leases[q] = roots[target[q]].leases[q]
    BY <1>1, <1>2, <1>4, GuardedRoot, StaleOnesGo DEF RootsGood, SameFiles
  <1>5. LocalTyped' /\ OnlyMoves(p)
    BY <1>1 DEF LocalGood, LocalTyped, LeaveRoot, OnlyMoves
  <1>6. ProcGood(p)' /\ Spared(p)'
    BY <1>1 DEF LocalGood, LocalTyped, LeaveRoot, ProcGood, Spared
  <1>7. QED
    BY <1>1, <1>3, <1>4, <1>5, <1>6, RootStep DEF LeaveRoot

LEMMA CondemnRootStep ==
  ASSUME NEW p \in Procs, NEW c \in Content, IInv, CondemnRoot(p, c) PROVE IInv'
  <1>1. LocalGood /\ RootsGood /\ roots[c] \in Root /\ p \notin guarded /\ p \notin leased
    BY Parted, NotRunning DEF RootsGood, CondemnRoot
  <1>2. roots' = [roots EXCEPT ![c] = WithoutStaleLeases(roots[c])]
    BY <1>1 DEF CondemnRoot, RootsGood
  <1>3. RootsGood'
    BY <1>1, <1>2, StaleOnesGo DEF RootsGood, NameMatchesContent
  <1>4. \A q \in guarded : target[q] # c
    BY GuardedRoot DEF CondemnRoot, Removable
  <1>5. ASSUME NEW q \in guarded
        PROVE  SameFiles(target[q])
               /\ roots'[target[q]].leases[q] = roots[target[q]].leases[q]
    BY <1>1, <1>2, <1>4, <1>5, GuardedRoot DEF RootsGood, SameFiles
  <1>6. [root |-> c, entries |-> {}] \in [root: Content \union {None},
                     entries: SUBSET (Parts \union {Metadata} \union Procs)]
    OBVIOUS
  <1>7. LocalTyped' /\ OnlyMoves(p)
    BY <1>1, <1>6 DEF LocalGood, LocalTyped, CondemnRoot, Go, OnlyMoves
  <1>8. ProcGood(p)' /\ Spared(p)' /\ doomed'[p].root = c
    BY <1>1 DEF LocalGood, LocalTyped, CondemnRoot, Go, ProcGood, Spared
  <1>9. QED
    BY <1>1, <1>3, <1>4, <1>5, <1>7, <1>8, RootStep DEF CondemnRoot

\* What is being removed is no guarded root.
LEMMA NotGuardedRoot ==
  ASSUME IInv, NEW p \in Procs
  PROVE  \A q \in guarded : target[q] # doomed[p].root
  BY DEF IInv, LeasesGood, LeaseGood, Removing

LEMMA RemoveEntryStep ==
  ASSUME NEW p \in Procs, NEW e \in Parts \union {Metadata} \union Procs, IInv,
         RemoveEntry(p, e)
  PROVE  IInv'
  <1> DEFINE c == doomed[p].root
  <1>1. LocalGood /\ RootsGood /\ p \notin guarded /\ c \in Content /\ roots[c] \in Root
    BY Parted, NotRunning DEF RootsGood, RemoveEntry, LocalGood, ProcGood
  <1>2. /\ \A d \in Content \ {c} : roots'[d] = roots[d]
        /\ roots'[c].files = roots[c].files \ {e} /\ roots'[c].holds = roots[c].holds
    BY <1>1 DEF RemoveEntry, RootsGood, Root
  <1>3. roots' \in [Content -> Root]
    <2>1. [q \in Procs |-> IF q = e THEN None ELSE roots[c].leases[q]]
            \in [Procs -> Time \union {None}]
      BY <1>1 DEF Root
    <2>2. QED
      BY <1>1, <2>1 DEF RemoveEntry, RootsGood, Root
  <1>4. RootsGood'
    BY <1>1, <1>2, <1>3 DEF RootsGood, NameMatchesContent
  <1>5. ASSUME NEW q \in guarded
        PROVE  SameFiles(target[q])
               /\ roots'[target[q]].leases[q] = roots[target[q]].leases[q]
    BY <1>2, <1>5, GuardedRoot, NotGuardedRoot DEF SameFiles
  <1>6. doomed[p] \in [root: Content \union {None},
                       entries: SUBSET (Parts \union {Metadata} \union Procs)]
    BY <1>1 DEF LocalGood, LocalTyped
  <1>7. LocalTyped' /\ OnlyMoves(p)
    BY <1>1, <1>6 DEF LocalGood, LocalTyped, RemoveEntry, OnlyMoves
  <1>8. ProcGood(p)' /\ Spared(p)' /\ doomed'[p].root = c
    BY <1>1, <1>6 DEF LocalGood, LocalTyped, RemoveEntry, ProcGood, Spared
  <1>9. QED
    BY <1>1, <1>4, <1>5, <1>7, <1>8, RootStep DEF RemoveEntry

LEMMA RemoveRootStep == ASSUME NEW p \in Procs, IInv, RemoveRoot(p) PROVE IInv'
  <1> DEFINE c == doomed[p].root
  <1>1. LocalGood /\ RootsGood /\ p \notin guarded /\ p \notin leased /\ c \in Content
    BY Parted, NotRunning DEF RootsGood, RemoveRoot, LocalGood, ProcGood
  <1>2. NoRoot \in Root /\ NoRoot.files = {}
    BY BootstrapAssumption DEF NoRoot, Root, Time
  <1>3. RootsGood'
    BY <1>1, <1>2 DEF RemoveRoot, RootsGood, NameMatchesContent
  <1>4. ASSUME NEW q \in guarded
        PROVE  SameFiles(target[q])
               /\ roots'[target[q]].leases[q] = roots[target[q]].leases[q]
    BY <1>1, <1>4, GuardedRoot, NotGuardedRoot DEF RootsGood, SameFiles, RemoveRoot
  <1>5. Nothing \in [root: Content \union {None},
                     entries: SUBSET (Parts \union {Metadata} \union Procs)]
        /\ Nothing.root = None
    BY DEF Nothing
  <1>6. LocalTyped' /\ OnlyMoves(p)
    BY <1>1, <1>5 DEF LocalGood, LocalTyped, RemoveRoot, Go, OnlyMoves
  <1>7. ProcGood(p)' /\ Spared(p)' /\ doomed'[p].root = None
    BY <1>1, <1>5, BootstrapAssumption
    DEF LocalGood, LocalTyped, RemoveRoot, Go, ProcGood, Spared
  <1>8. \A q \in guarded : target[q] # None
    BY GuardedRoot, BootstrapAssumption
  <1>9. QED
    BY <1>1, <1>3, <1>4, <1>6, <1>7, <1>8, RootStep DEF RemoveRoot

LEMMA ActivateLeaseStep == ASSUME NEW p \in Procs, IInv, ActivateLease(p) PROVE IInv'
  <1> DEFINE c == target[p]
  <1>1. LocalGood /\ RootsGood /\ p \notin guarded /\ p \notin leased /\ c \in Content
        /\ roots[c] \in Root /\ now \in Time \union {None}
    BY Parted, NotRunning DEF RootsGood, ActivateLease, LocalGood, ProcGood, OutsideTyped
  <1>2. LocalTyped' /\ OnlyMoves(p)
    BY <1>1 DEF LocalGood, LocalTyped, ActivateLease, Go, OnlyMoves
  <1>3. ProcGood(p)' /\ Spared(p)' /\ doomed'[p].root = doomed[p].root
        /\ target' = target
    BY <1>1 DEF LocalGood, LocalTyped, ActivateLease, Go, ProcGood, Spared
  <1>4. CASE Metadata \notin roots[c].files
    <2>1. roots' = roots /\ guarded' = guarded
      BY <1>4 DEF ActivateLease
    <2>2. QED
      BY <1>1, <1>2, <1>3, <2>1, QuietStep DEF ActivateLease
  <1>5. CASE Metadata \in roots[c].files
    <2>1. roots' = [roots EXCEPT ![c] = [roots[c] EXCEPT !.leases[p] = now]]
      BY <1>5 DEF ActivateLease
    <2>2. RootsGood'
      BY <1>1, <2>1, LeaseWritten DEF RootsGood, NameMatchesContent
    <2>3. ASSUME NEW q \in guarded
          PROVE  SameFiles(target[q])
                 /\ roots'[target[q]].leases[q] = roots[target[q]].leases[q]
      BY <1>1, <2>1, <2>3, GuardedRoot, LeaseWritten DEF RootsGood, SameFiles
    <2>4. ASSUME p \in guarded' PROVE LeaseGood(p)'
      <3>1. Whole(roots[c]) /\ ~Removing(c)
        BY <1>1, <1>5, <2>4 DEF ActivateLease
      <3>2. roots'[c] = [roots[c] EXCEPT !.leases[p] = now]
        BY <1>1, <2>1 DEF RootsGood
      <3>3. roots'[c].leases[p] = now /\ SameFiles(c)
        BY <1>1, <3>2 DEF SameFiles, Root
      <3>4. QED
        BY <1>3, <3>1, <3>3
        DEF LeaseGood, Whole, Removing, ActivateLease, outside, SameFiles
    <2>5. QED
      BY <1>1, <1>2, <1>3, <2>2, <2>3, <2>4, RootStep DEF ActivateLease
  <1>6. QED
    BY <1>4, <1>5

LEMMA HeartbeatStep == ASSUME NEW p \in Procs, IInv, Heartbeat(p) PROVE IInv'
  <1> DEFINE c == target[p]
  <1>1. LocalGood /\ RootsGood /\ c \in Content /\ roots[c] \in Root
        /\ now \in Time \union {None}
    BY Parted DEF RootsGood, Heartbeat, LocalGood, ProcGood, OutsideTyped
  <1>2. roots' = [roots EXCEPT ![c] = [roots[c] EXCEPT !.leases[p] = now]]
    BY DEF Heartbeat
  <1>3. RootsGood'
    BY <1>1, <1>2, LeaseWritten DEF RootsGood, NameMatchesContent
  <1>4. ASSUME NEW q \in guarded
        PROVE  /\ SameFiles(target[q])
               /\ q # p => roots'[target[q]].leases[q] = roots[target[q]].leases[q]
    BY <1>1, <1>2, <1>4, GuardedRoot, LeaseWritten DEF RootsGood, SameFiles
  <1>5. LocalTyped' /\ OnlyMoves(p)
    BY <1>1 DEF LocalGood, LocalTyped, Heartbeat, OnlyMoves
  <1>6. ProcGood(p)' /\ Spared(p)'
    BY <1>1 DEF LocalGood, LocalTyped, Heartbeat, ProcGood, Spared
  <1>7. ASSUME p \in guarded' PROVE LeaseGood(p)'
    <2>1. LeaseGood(p)
      BY <1>7 DEF Heartbeat, IInv, LeasesGood
    <2>2. roots'[c].leases[p] = now /\ Whole(roots'[c])
      BY <1>1, <1>2, <2>1, LeaseWritten DEF RootsGood, Whole, LeaseGood
    <2>3. QED
      BY <2>1, <2>2 DEF LeaseGood, Whole, Removing, Heartbeat, outside
  <1>8. UNCHANGED outside /\ doomed'[p].root = doomed[p].root
    BY DEF Heartbeat
  <1>9. \A q \in guarded :
          /\ SameFiles(target[q])
          /\ q # p => roots'[target[q]].leases[q] = roots[target[q]].leases[q]
          /\ doomed'[p].root = target[q] => doomed[p].root = target[q]
    BY <1>4, <1>8
  <1>10. QED
    BY <1>3, <1>5, <1>6, <1>7, <1>8, <1>9, RootStep

LEMMA FinishStep == ASSUME NEW p \in Procs, IInv, Finish(p) PROVE IInv'
  <1> DEFINE c == target[p]
  <1>1. LocalGood /\ RootsGood /\ c \in Content /\ roots[c] \in Root
    BY Parted DEF RootsGood, Finish, LocalGood, ProcGood
  <1>2. LocalGood' /\ OnlyMoves(p) /\ p \notin guarded' /\ doomed'[p].root = None
    BY Stopped DEF Finish
  <1>3. None \in Time \union {None}
    OBVIOUS
  <1>4. \/ roots' = roots
        \/ roots' = [roots EXCEPT ![c] = [roots[c] EXCEPT !.leases[p] = None]]
    BY DEF Finish
  <1>5. RootsGood' /\ \A q \in guarded :
            /\ SameFiles(target[q])
            /\ q # p => roots'[target[q]].leases[q] = roots[target[q]].leases[q]
    <2>1. CASE roots' = roots
      BY <1>1, <2>1 DEF RootsGood, NameMatchesContent, SameFiles
    <2>2. CASE roots' = [roots EXCEPT ![c] = [roots[c] EXCEPT !.leases[p] = None]]
      <3>1. RootsGood'
        BY <1>1, <1>3, <2>2, LeaseWritten DEF RootsGood, NameMatchesContent
      <3>2. ASSUME NEW q \in guarded
            PROVE  /\ SameFiles(target[q])
                   /\ q # p => roots'[target[q]].leases[q] = roots[target[q]].leases[q]
        BY <1>1, <1>3, <2>2, <3>2, GuardedRoot, LeaseWritten DEF RootsGood, SameFiles
      <3>3. QED
        BY <3>1, <3>2
    <2>3. QED
      BY <1>4, <2>1, <2>2
  <1>6. \A q \in guarded : target[q] # None
    BY GuardedRoot, BootstrapAssumption
  <1>7. UNCHANGED outside
    BY DEF Finish
  <1>8. LocalTyped' /\ ProcGood(p)' /\ Spared(p)'
    BY <1>2 DEF LocalGood
  <1>9. \A q \in guarded :
          /\ SameFiles(target[q])
          /\ q # p => roots'[target[q]].leases[q] = roots[target[q]].leases[q]
          /\ doomed'[p].root = target[q] => doomed[p].root = target[q]
    BY <1>2, <1>5, <1>6
  <1>10. QED
    BY <1>2, <1>5, <1>7, <1>8, <1>9, RootStep

-----------------------------------------------------------------------------
(* The outside                                                              *)

LEMMA KillStep == ASSUME NEW p \in Procs, IInv, Kill(p) PROVE IInv'
  <1>1. LocalGood' /\ OnlyMoves(p) /\ p \notin guarded' /\ doomed'[p].root = None
    BY Stopped DEF Kill
  <1>2. LeasesGood'
    BY <1>1, RootsAlone DEF Kill
  <1>3. OutsideTyped' /\ RootsGood'
    BY Parted, BootstrapAssumption
    DEF Kill, OutsideTyped, RootsGood, NameMatchesContent
  <1>4. QED
    BY <1>1, <1>2, <1>3
    DEF IInv, TypeOK, OutsideTyped, RootsGood, LocalGood, LocalTyped, Spared

LEMMA UpdateStep == ASSUME NEW part \in Parts, IInv, Update(part) PROVE IInv'
  <1>1. installed' \in Content
    BY BootstrapAssumption DEF IInv, TypeOK, Update, Content, Versions
  <1>2. QED
    BY <1>1 DEF IInv, TypeOK, Update, NameMatchesContent, ProcGood, LeasesGood, LeaseGood,
                Removing

LEMMA TickStep == ASSUME IInv, Tick PROVE IInv'
  <1>1. LocalGood /\ RootsGood /\ now + 1 \in Time
    BY Parted, BootstrapAssumption DEF OutsideTyped, Tick, Time
  <1>2. ASSUME NEW c \in Content
        PROVE  /\ roots'[c] \in Root /\ SameFiles(c) /\ roots'[c].holds = roots[c].holds
               /\ \A q \in leased : target[q] = c /\ roots[c].dir
                      => roots'[c].leases[q] = now + 1
    <2>1. roots[c] \in Root
      BY <1>1 DEF RootsGood
    <2>2. roots'[c] = [roots[c] EXCEPT !.leases =
            [p \in Procs |-> IF p \in leased /\ target[p] = c /\ roots[c].dir
                             THEN now + 1 ELSE @[p]]]
      BY DEF Tick
    <2>3. roots'[c].leases = [p \in Procs |->
            IF p \in leased /\ target[p] = c /\ roots[c].dir
            THEN now + 1 ELSE roots[c].leases[p]]
      BY <2>1, <2>2 DEF Root
    <2>4. roots'[c].leases \in [Procs -> Time \union {None}]
      BY <1>1, <2>1, <2>3 DEF Root
    <2>5. leased \subseteq Procs
      BY <1>1 DEF LocalGood, LocalTyped
    <2>6. roots'[c] \in Root /\ SameFiles(c) /\ roots'[c].holds = roots[c].holds
      BY <2>1, <2>2, <2>4 DEF Root, SameFiles
    <2>7. QED
      BY <2>3, <2>5, <2>6
  <1>3. RootsGood'
    BY <1>1, <1>2 DEF Tick, RootsGood, NameMatchesContent, SameFiles
  <1>4. ASSUME NEW q \in guarded' PROVE LeaseGood(q)'
    <2>1. q \in guarded /\ q \in leased /\ target[q] \in Content /\ roots[target[q]].dir
          /\ LeaseGood(q) /\ target' = target /\ doomed' = doomed /\ now' = now + 1
      BY GuardedRoot DEF Tick, IInv, TypeOK, LeasesGood
    <2>2. roots'[target[q]].leases[q] = now + 1 /\ SameFiles(target[q])
      BY <1>2, <2>1
    <2>3. QED
      BY <2>1, <2>2 DEF LeaseGood, SameFiles, Whole, Removing
  <1>5. LocalGood' /\ OutsideTyped'
    BY <1>1, Parted DEF Tick, LocalGood, LocalTyped, ProcGood, Spared, OutsideTyped
  <1>6. QED
    BY <1>3, <1>4, <1>5
    DEF IInv, TypeOK, OutsideTyped, RootsGood, LocalGood, LocalTyped, Spared, LeasesGood

-----------------------------------------------------------------------------
(* The theorems                                                             *)

LEMMA InitGood == Init => IInv
  <1> SUFFICES ASSUME Init PROVE IInv
    OBVIOUS
  <1>1. OutsideTyped
    BY BootstrapAssumption DEF Init, OutsideTyped, Content, Versions, Time
  <1>2. NoRoot \in Root /\ NoRoot.files = {}
    BY BootstrapAssumption DEF NoRoot, Root, Time
  <1>3. RootsGood
    BY <1>2 DEF Init, RootsGood, NameMatchesContent
  <1>4. NotCopied \in [Parts -> Versions \union {None}]
    BY DEF NotCopied
  <1>5. Nothing \in [root: Content \union {None},
                     entries: SUBSET (Parts \union {Metadata} \union Procs)]
    BY DEF Nothing
  <1>6. LocalTyped
    BY <1>4, <1>5 DEF Init, LocalTyped
  <1>7. \A p \in Procs : ProcGood(p) /\ Spared(p)
    BY DEF Init, ProcGood, Spared
  <1>8. LeasesGood
    BY DEF Init, LeasesGood
  <1>9. QED
    BY <1>1, <1>3, <1>6, <1>7, <1>8, Parted DEF LocalGood

LEMMA StepGood == IInv /\ [Next]_vars => IInv'
  <1> SUFFICES ASSUME IInv, [Next]_vars PROVE IInv'
    OBVIOUS
  <1>1. ASSUME NEW p \in Procs,
               \/ Launch(p) \/ CopyFails(p) \/ Staged(p) \/ Promote(p) \/ PromoteLate(p)
               \/ ListRoot(p) \/ RemoveRoot(p) \/ RemoveFails(p) \/ Exec(p)
               \/ ActivateLease(p) \/ Heartbeat(p) \/ Finish(p) \/ Kill(p)
        PROVE  IInv'
    BY <1>1, LaunchStep, StopStep, StagedStep, PromoteStep, PromoteLateStep, ListRootStep,
       RemoveRootStep, RemoveFailsStep, ExecStep, ActivateLeaseStep, HeartbeatStep,
       FinishStep, KillStep
    DEF CopyFails
  <1>2. ASSUME NEW p \in Procs, NEW part \in Parts, CopyPart(p, part) PROVE IInv'
    BY <1>2, CopyPartStep
  <1>3. ASSUME NEW p \in Procs, NEW c \in Content, LeaveRoot(p, c) \/ CondemnRoot(p, c)
        PROVE  IInv'
    BY <1>3, LeaveRootStep, CondemnRootStep
  <1>4. ASSUME NEW p \in Procs, NEW e \in Parts \union {Metadata} \union Procs,
               RemoveEntry(p, e)
        PROVE  IInv'
    BY <1>4, RemoveEntryStep
  <1>5. ASSUME NEW part \in Parts, Update(part) PROVE IInv'
    BY <1>5, UpdateStep
  <1>6. CASE Tick
    BY <1>6, TickStep
  <1>7. CASE UNCHANGED vars
    BY <1>7 DEF vars, IInv, TypeOK, NameMatchesContent, ProcGood, LeasesGood, LeaseGood,
                Removing, Spared
  <1>8. QED
    BY <1>1, <1>2, <1>3, <1>4, <1>5, <1>6, <1>7 DEF Next

\* A run of launches, updates, kills and cleanups keeps the inductive invariant.
THEOREM BootstrapInvariant == Spec => []IInv
  <1>1. QED
    BY InitGood, StepGood, PTL DEF Spec

\* ensure_runtime_copy and _cleanup_stale_runtime_roots keep the types of the model,
\* and a cleanup never has the root it was called for on its list.
THEOREM BootstrapTypeOK == Spec => []TypeOK
  <1>1. IInv => TypeOK
    BY DEF IInv
  <1>2. QED
    BY <1>1, BootstrapInvariant, PTL

\* ensure_runtime_copy: a runtime directory holds the content it is named after,
\* however many launches race each other and the installer.
THEOREM BootstrapNameMatches == Spec => []NameMatchesContent
  <1>1. IInv => NameMatchesContent
    BY DEF IInv
  <1>2. QED
    BY <1>1, BootstrapInvariant, PTL

\* _runtime_has_active_lease: a process that leased a whole runtime while nobody was
\* removing it keeps its files, whatever the ages, the cleanups and the kills.
THEOREM BootstrapLeaseKeeps == Spec => []LeaseKeepsRuntime
  <1>1. IInv => LeaseKeepsRuntime
    BY DEF IInv, LeasesGood, LeaseGood, LeaseKeepsRuntime
  <1>2. QED
    BY <1>1, BootstrapInvariant, PTL

=================================================================================
