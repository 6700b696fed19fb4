---------------------------- MODULE CycleRegistry ----------------------------
(* What the store of review cycles promises, without files, locks or processes: *)
(* a cycle gets a public id when it appears, for good and for itself alone, and *)
(* it is superseded by a cycle that exists, and for good.  The exception is a    *)
(* successor that was restarted in turn while the cycle it succeeds is active:   *)
(* a repeated restart of that one may write the successor as it was before.      *)

CONSTANTS
    Keys,           \* cycle keys
    Ids,            \* public ids
    Restarts,       \* per key, the keys of the cycles a restart of it may create
    None

VARIABLES
    life,           \* absent, active or superseded
    name,           \* the public id of a cycle
    successor       \* the cycle a superseded one redirects to

vars == <<life, name, successor>>

Init ==
    /\ life = [k \in Keys |-> "absent"]
    /\ name = [k \in Keys |-> None]
    /\ successor = [k \in Keys |-> None]

Appear(k, i) ==
    /\ life[k] = "absent"
    /\ \A j \in Keys : name[j] # i
    /\ life' = [life EXCEPT ![k] = "active"]
    /\ name' = [name EXCEPT ![k] = i]
    /\ UNCHANGED successor

Supersede(k, t) ==
    /\ life[k] = "active" /\ life[t] # "absent" /\ t \in Restarts[k]
    /\ life' = [life EXCEPT ![k] = "superseded"]
    /\ successor' = [successor EXCEPT ![k] = t]
    /\ UNCHANGED name

\* the successor k of the active cycle s gets an older redirect back, or none
Repeat(s, k, t) ==
    /\ life[s] = "active" /\ k \in Restarts[s] /\ life[k] = "superseded"
    /\ t = None \/ (t \in Restarts[k] /\ life[t] # "absent")
    /\ life' = [life EXCEPT ![k] = IF t = None THEN "active" ELSE "superseded"]
    /\ successor' = [successor EXCEPT ![k] = t]
    /\ UNCHANGED name

Next == \/ \E k \in Keys, i \in Ids : Appear(k, i)
        \/ \E k, t \in Keys : Supersede(k, t)
        \/ \E s, k \in Keys, t \in Keys \cup {None} : Repeat(s, k, t)

Spec == Init /\ [][Next]_vars
=============================================================================
