--------------------------- MODULE MCRuntimeBootstrap ---------------------------
(* The instance of RuntimeBootstrap that TLC checks.                         *)
EXTENDS RuntimeBootstrap, TLC

ProcsAlike == Permutations(Procs)

================================================================================
