---- MODULE MCDriftCycle ----
(* Two base commits, the second of which changes a file the branch may change too. *)
EXTENDS DriftCycle

Touches == [b \in 1..2 |-> IF b = 1 THEN {"doc"} ELSE {"app"}]

====
