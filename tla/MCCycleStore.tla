----------------------------- MODULE MCCycleStore -----------------------------
(* Instances of CycleStore for TLC: one cycle of a checkout, its restart in a   *)
(* stricter mode and its restart with a new brief, or one restarted in turn.    *)
EXTENDS CycleStore, TLC

RootAndSuccessors == {"root", "deep", "brief"}
RootOnly == {"root"}
RestartsOfRoot == [k \in Keys |-> IF k = "root" THEN Keys \ {"root"} ELSE {}]

\* the restart is restarted in turn
RestartsInTurn == [k \in Keys |-> CASE k = "root" -> {"deep"} [] k = "deep" -> {"brief"}
                                     [] k = "brief" -> {}]

ModeOf == [k \in Keys |-> IF k = "deep" THEN "deep" ELSE "normal"]

\* invocations differ in nothing but their name
ProcsAlike == Permutations(Procs)

\* all digests share their first eight digits
Digest == [k \in Keys |-> CASE k = "root" -> "rvw_1" [] k = "deep" -> "rvw_2"
                              [] k = "brief" -> "rvw_3"]
SharedPrefix == [k \in Keys |-> <<"rvw", Digest[k]>>]
SomeIds == {"rvw"} \cup {Digest[k] : k \in Keys}

\* where ids and gates are not what is asked about
OwnPrefix == [k \in Keys |-> <<Digest[k]>>]
OwnIds == {Digest[k] : k \in Keys}
NoGates == {}
=============================================================================
