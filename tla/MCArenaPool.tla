------------------------------ MODULE MCArenaPool ------------------------------
(* The instance of ArenaPool that TLC checks.                                *)
EXTENDS ArenaPool, TLC

MCVariants == {"v1", "v2", "v3", "v4"}
MCModel == [v \in MCVariants |-> IF v \in {"v1", "v2"} THEN "m1" ELSE v]
MCCandidates == <<"v1", "v2", "v3">>
MCGroups == <<<<"v1", "v2">>, <<"v1", "v3">>>>
MCRetired == {"v4"}
MCRatio == <<7, 10>>

CallersAlike == Permutations(Callers)

================================================================================
