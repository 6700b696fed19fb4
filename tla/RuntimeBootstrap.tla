---------------------------- MODULE RuntimeBootstrap ----------------------------
(***************************************************************************)
(* How a script of the installed plugin gets a private copy of itself to    *)
(* run from: a directory named after the content it holds, shared by every  *)
(* process that runs this content, and removed by the launch of another one *)
(* when it is old and nobody holds a lease on it.  Launches share nothing   *)
(* but the file system, and take no lock.                                   *)
(***************************************************************************)
EXTENDS Naturals, FiniteSets

CONSTANTS
    Procs,       \* processes, one launch each; a launcher becomes what it launches
    Parts,       \* RUNTIME_ITEMS
    Script,      \* the part that holds the script
    MaxVersion,  \* bound: versions of a part
    Windows,     \* whether a rename onto a directory raises FileExistsError
    Retire,      \* RUNTIME_RETIRE_AFTER_SECONDS, in ticks
    LeaseStale,  \* RUNTIME_LEASE_STALE_AFTER_SECONDS, in ticks
    MaxTime,     \* bound: ticks
    MaxKills,    \* bound: processes killed
    None

Versions == 1..MaxVersion
Content == [Parts -> Versions]  \* a content hash stands for the content
Time == 0..MaxTime

ASSUME BootstrapAssumption ==
    /\ IsFiniteSet(Parts) /\ Script \in Parts /\ MaxVersion \in Nat \ {0}
    /\ Retire \in Nat /\ LeaseStale \in Nat \ {0} /\ MaxTime \in Nat /\ MaxKills \in Nat
    /\ Windows \in BOOLEAN
    /\ None \notin Content \union Time \union Versions

VARIABLES
    installed,  \* the plugin in the installation cache
    roots,      \* roots[c]: the directory named after content c
    pc,         \* pc[p]: where process p is
    staging,    \* staging[p]: its temporary copy; None for a part not copied yet
    target,     \* target[p]: the root it will run from
    todo,       \* todo[p]: roots its cleanup has still to look at
    doomed,     \* doomed[p]: the root it removes and the entries it has listed
    leased,     \* processes whose heartbeat thread runs
    guarded,    \* leased processes no removal was under way for at the lease
    now, kills

vars == <<installed, roots, pc, staging, target, todo, doomed, leased, guarded,
          now, kills>>
outside == <<installed, now, kills>>

--------------------------------------------------------------------------------
(* Directories.                                                             *)

Metadata == "runtime_metadata.json"

\* files: the entries that are there; holds: what the copied parts contain.
NoRoot == [dir |-> FALSE, files |-> {}, holds |-> None, created |-> 0,
           leases |-> [p \in Procs |-> None]]
Root == [dir: BOOLEAN, files: SUBSET (Parts \union {Metadata}),
         holds: Content \union {None}, created: Time,
         leases: [Procs -> Time \union {None}]]

Nothing == [root |-> None, entries |-> {}]
NotCopied == [part \in Parts |-> None]

Leases(root) == {p \in Procs : root.leases[p] # None}
Empty(root) == root.files = {} /\ Leases(root) = {}
Whole(root) == root.dir /\ Parts \subseteq root.files

Fresh(at) == at # None /\ now - at < LeaseStale

\* mutant: the comparison of the age is turned round.
HasStaleLease(root) == \E p \in Leases(root) : ~Fresh(root.leases[p])

\* _runtime_has_active_lease
HasActiveLease(root) == \E p \in Procs : Fresh(root.leases[p])

\* Stale leases are deleted by the one who finds no fresh one.
WithoutStaleLeases(root) ==
    [root EXCEPT !.leases = [p \in Procs |-> IF Fresh(@[p]) THEN @[p] ELSE None]]

\* _cleanup_stale_runtime_roots: complete, unleased and old.
Removable(root) ==
    /\ Metadata \in root.files
    /\ ~HasActiveLease(root)
    /\ now - root.created >= Retire

--------------------------------------------------------------------------------
(* The launcher.                                                            *)

Go(p, to) == pc' = [pc EXCEPT ![p] = to]

\* What a process had made for itself is of no use to another one.
Stop(p) ==
    /\ Go(p, "ended")
    /\ staging' = [staging EXCEPT ![p] = NotCopied]
    /\ target' = [target EXCEPT ![p] = None]
    /\ todo' = [todo EXCEPT ![p] = {}]
    /\ doomed' = [doomed EXCEPT ![p] = Nothing]
    /\ leased' = leased \ {p}
    /\ guarded' = guarded \ {p}

Listed == {c \in Content : roots[c].dir}

\* mutant: the cleanup does not spare the root it was called for.
OthersAndOwn(c) == Listed

\* The roots a launch that runs from c looks at.
Others(c) == Listed \ {c}

\* ensure_runtime_copy returns c once the other roots were looked at.
Use(p, c) ==
    /\ target' = [target EXCEPT ![p] = c]
    /\ todo' = [todo EXCEPT ![p] = Others(c)]
    /\ Go(p, "clean")

\* The directory of the installed content is used as it stands if there is one.
Launch(p) ==
    /\ pc[p] = "idle"
    /\ IF roots[installed].dir
       THEN Use(p, installed)
       ELSE Go(p, "copy") /\ UNCHANGED <<target, todo>>
    /\ UNCHANGED <<outside, roots, staging, doomed, leased, guarded>>

CopyPart(p, part) ==
    /\ pc[p] = "copy" /\ staging[p][part] = None
    /\ staging' = [staging EXCEPT ![p][part] = installed[part]]
    /\ UNCHANGED <<outside, roots, pc, target, todo, doomed, leased, guarded>>

\* Anything that raises before the promotion removes the copy and ends the launch.
CopyFails(p) ==
    /\ pc[p] \in {"copy", "promote"}
    /\ Stop(p)
    /\ UNCHANGED <<outside, roots>>

\* mutant: the copy goes by what the installation holds, not by what was copied.
KeyOfSource(p) == installed

\* The copy is hashed again: the plugin may have been updated meanwhile.
StagedKey(p) == staging[p]

Staged(p) ==
    /\ pc[p] = "copy" /\ \A part \in Parts : staging[p][part] # None
    /\ IF roots[StagedKey(p)].dir
       THEN /\ staging' = [staging EXCEPT ![p] = NotCopied]
            /\ Use(p, StagedKey(p))
       ELSE /\ target' = [target EXCEPT ![p] = StagedKey(p)]
            /\ Go(p, "promote")
            /\ UNCHANGED <<staging, todo>>
    /\ UNCHANGED <<outside, roots, doomed, leased, guarded>>

\* _promote_temp_runtime: the rename is atomic.
Promote(p) ==
    /\ pc[p] = "promote"
    /\ ~roots[target[p]].dir \/ (~Windows /\ Empty(roots[target[p]]))
    /\ roots' = [roots EXCEPT ![target[p]] =
            [NoRoot EXCEPT !.dir = TRUE, !.files = Parts \union {Metadata},
                           !.holds = staging[p], !.created = now]]
    /\ staging' = [staging EXCEPT ![p] = NotCopied]
    /\ todo' = [todo EXCEPT ![p] = Others(target[p])]
    /\ Go(p, "clean")
    /\ UNCHANGED <<outside, target, doomed, leased, guarded>>

\* Another launch was faster.  Windows says so; elsewhere the rename onto a
\* directory that is not empty is an OSError of another kind, which is raised.
PromoteLate(p) ==
    /\ pc[p] = "promote" /\ roots[target[p]].dir
    /\ \/ /\ Windows
          /\ staging' = [staging EXCEPT ![p] = NotCopied]
          /\ Use(p, target[p])
          /\ UNCHANGED <<doomed, leased, guarded>>
       \/ /\ ~Windows /\ ~Empty(roots[target[p]])
          /\ Stop(p)
    /\ UNCHANGED <<outside, roots>>

--------------------------------------------------------------------------------
(* Cleanup of old roots.                                                    *)

LeaveRoot(p, c) ==
    /\ pc[p] = "clean" /\ c \in todo[p]
    /\ ~Removable(roots[c])
    /\ roots' = [roots EXCEPT ![c] =
            IF Metadata \in @.files /\ ~HasActiveLease(@)
            THEN WithoutStaleLeases(@) ELSE @]
    /\ todo' = [todo EXCEPT ![p] = @ \ {c}]
    /\ UNCHANGED <<outside, pc, staging, target, doomed, leased, guarded>>

CondemnRoot(p, c) ==
    /\ pc[p] = "clean" /\ c \in todo[p]
    /\ Removable(roots[c])
    /\ roots' = [roots EXCEPT ![c] = WithoutStaleLeases(@)]
    /\ todo' = [todo EXCEPT ![p] = @ \ {c}]
    /\ doomed' = [doomed EXCEPT ![p] = [root |-> c, entries |-> {}]]
    /\ Go(p, "condemn")
    /\ UNCHANGED <<outside, staging, target, leased, guarded>>

\* An entry that another cleanup has removed, or one that was added.
Obstructed(p) ==
    LET root == roots[doomed[p].root] IN
    \/ pc[p] = "condemn" /\ ~root.dir
    \/ pc[p] = "remove" /\ doomed[p].entries \ (root.files \union Leases(root)) # {}
    \/ pc[p] = "remove" /\ doomed[p].entries = {} /\ ~Empty(root)

\* shutil.rmtree lists the directory, unlinks what it has listed, and removes
\* the directory: a lease that was added meanwhile keeps it.
ListRoot(p) ==
    /\ pc[p] = "condemn" /\ ~Obstructed(p)
    /\ doomed' = [doomed EXCEPT ![p].entries =
                    roots[doomed[p].root].files \union Leases(roots[doomed[p].root])]
    /\ Go(p, "remove")
    /\ UNCHANGED <<outside, roots, staging, target, todo, leased, guarded>>

RemoveEntry(p, e) ==
    /\ pc[p] = "remove" /\ ~Obstructed(p) /\ e \in doomed[p].entries
    /\ roots' = [roots EXCEPT
            ![doomed[p].root].files = @ \ {e},
            ![doomed[p].root].leases = [q \in Procs |-> IF q = e THEN None ELSE @[q]]]
    /\ doomed' = [doomed EXCEPT ![p].entries = @ \ {e}]
    /\ UNCHANGED <<outside, pc, staging, target, todo, leased, guarded>>

RemoveRoot(p) ==
    /\ pc[p] = "remove" /\ ~Obstructed(p) /\ doomed[p].entries = {}
    /\ roots' = [roots EXCEPT ![doomed[p].root] = NoRoot]
    /\ doomed' = [doomed EXCEPT ![p] = Nothing]
    /\ Go(p, "clean")
    /\ UNCHANGED <<outside, staging, target, todo, leased, guarded>>

\* The OSError is swallowed, whatever was removed so far.
RemoveFails(p) ==
    /\ Obstructed(p)
    /\ doomed' = [doomed EXCEPT ![p] = Nothing]
    /\ Go(p, "clean")
    /\ UNCHANGED <<outside, roots, staging, target, todo, leased, guarded>>

--------------------------------------------------------------------------------
(* The launched process.                                                    *)

Exec(p) ==
    /\ pc[p] = "clean" /\ todo[p] = {}
    /\ IF Script \in roots[target[p]].files
       THEN Go(p, "started")
            /\ UNCHANGED <<staging, target, todo, doomed, leased, guarded>>
       ELSE Stop(p)
    /\ UNCHANGED <<outside, roots>>

Removing(c) == \E q \in Procs : doomed[q].root = c

\* _activate_runtime_lease: only in a directory that has its metadata.
ActivateLease(p) ==
    /\ pc[p] = "started"
    /\ IF Metadata \in roots[target[p]].files
       THEN /\ roots' = [roots EXCEPT ![target[p]].leases[p] = now]
            /\ leased' = leased \union {p}
            /\ guarded' = IF Whole(roots[target[p]]) /\ ~Removing(target[p])
                          THEN guarded \union {p} ELSE guarded
       ELSE UNCHANGED <<roots, leased, guarded>>
    /\ Go(p, "running")
    /\ UNCHANGED <<outside, staging, target, todo, doomed>>

\* A lease that was deleted is written again, while its directory is there.
Heartbeat(p) ==
    /\ p \in leased
    /\ roots[target[p]].dir /\ roots[target[p]].leases[p] # now
    /\ roots' = [roots EXCEPT ![target[p]].leases[p] = now]
    /\ UNCHANGED <<outside, pc, staging, target, todo, doomed, leased, guarded>>

\* The lease is unlinked at exit.
Finish(p) ==
    /\ pc[p] = "running"
    /\ roots' = IF p \in leased THEN [roots EXCEPT ![target[p]].leases[p] = None]
                ELSE roots
    /\ Stop(p)
    /\ UNCHANGED outside

--------------------------------------------------------------------------------
(* The outside: updates of the installation, kills, and time.               *)

\* The installer replaces the parts one after the other.
Update(part) ==
    /\ installed[part] < MaxVersion
    /\ installed' = [installed EXCEPT ![part] = @ + 1]
    /\ UNCHANGED <<roots, pc, staging, target, todo, doomed, leased, guarded, now,
                   kills>>

Kill(p) ==
    /\ pc[p] \notin {"idle", "ended"}
    /\ kills < MaxKills
    /\ kills' = kills + 1
    /\ Stop(p)
    /\ UNCHANGED <<installed, roots, now>>

\* A tick is at least 10 minutes: every heartbeat thread came round once.
Tick ==
    /\ now < MaxTime
    /\ \A p \in leased : roots[target[p]].dir => roots[target[p]].leases[p] = now
    /\ now' = now + 1
    /\ roots' = [c \in Content |-> [roots[c] EXCEPT !.leases =
            [p \in Procs |-> IF p \in leased /\ target[p] = c /\ roots[c].dir
                             THEN now + 1 ELSE @[p]]]]
    /\ UNCHANGED <<installed, pc, staging, target, todo, doomed, leased, guarded,
                   kills>>

Init ==
    /\ installed = [part \in Parts |-> 1]
    /\ roots = [c \in Content |-> NoRoot]
    /\ pc = [p \in Procs |-> "idle"]
    /\ staging = [p \in Procs |-> NotCopied]
    /\ target = [p \in Procs |-> None]
    /\ todo = [p \in Procs |-> {}]
    /\ doomed = [p \in Procs |-> Nothing]
    /\ leased = {} /\ guarded = {}
    /\ now = 0 /\ kills = 0

Next ==
    \/ \E p \in Procs :
        \/ Launch(p)
        \/ \E part \in Parts : CopyPart(p, part)
        \/ CopyFails(p) \/ Staged(p) \/ Promote(p) \/ PromoteLate(p)
        \/ \E c \in Content : LeaveRoot(p, c) \/ CondemnRoot(p, c)
        \/ ListRoot(p)
        \/ \E e \in Parts \union {Metadata} \union Procs : RemoveEntry(p, e)
        \/ RemoveRoot(p) \/ RemoveFails(p)
        \/ Exec(p) \/ ActivateLease(p) \/ Heartbeat(p) \/ Finish(p) \/ Kill(p)
    \/ \E part \in Parts : Update(part)
    \/ Tick

Spec == Init /\ [][Next]_vars

--------------------------------------------------------------------------------
(* Properties.                                                              *)

\* The variables keep their types; a cleanup never has the root it was called
\* for among the roots to look at or to remove.
TypeOK ==
    /\ installed \in Content
    /\ roots \in [Content -> Root]
    /\ pc \in [Procs -> {"idle", "copy", "promote", "clean", "condemn", "remove",
                         "started", "running", "ended"}]
    /\ staging \in [Procs -> [Parts -> Versions \union {None}]]
    /\ target \in [Procs -> Content \union {None}]
    /\ todo \in [Procs -> SUBSET Content]
    /\ doomed \in [Procs -> [root: Content \union {None},
            entries: SUBSET (Parts \union {Metadata} \union Procs)]]
    /\ leased \subseteq Procs /\ guarded \subseteq leased
    /\ now \in Time /\ kills \in 0..MaxKills
    /\ \A p \in Procs : target[p] # None =>
        target[p] \notin todo[p] \union {doomed[p].root}

\* ensure_runtime_copy: what a runtime directory holds is the content it is
\* named after, although the plugin is updated file by file under the copy and
\* launches race each other.
NameMatchesContent ==
    \A c \in Content : roots[c].files # {} => roots[c].holds = c

\* _runtime_has_active_lease: a process that leased a whole runtime which nobody
\* was removing keeps every file of it for as long as it runs, also past the
\* retirement age and with launches of other versions cleaning up.
LeaseKeepsRuntime == \A p \in guarded : Whole(roots[target[p]])

================================================================================
