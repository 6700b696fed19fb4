---------------------------- MODULE MCReviewCycle ----------------------------
(* Instances of ReviewCycle for TLC: the plans of the shipped profiles, with the *)
(* optional arena rounds, and small histories of the branch.                     *)
EXTENDS ReviewCycle

Step(kind, rerun) == [kind |-> kind, rerun |-> rerun, pool |-> 1]

FastPlan == <<Step("signoff", FALSE)>>
NormalPlan == <<Step("arena", FALSE), Step("signoff", TRUE)>>
ArenasPlan == <<Step("arena", FALSE), Step("arena", FALSE), Step("signoff", TRUE)>>
DeepPlan == <<Step("signoff", TRUE), Step("arena", FALSE), Step("signoff", TRUE)>>

\* a branch that only grows, by one to three commits
OneCommit == {<<"h1", "h2">>}
TwoCommits == OneCommit \cup {<<"h2", "h3">>}
ThreeCommits == TwoCommits \cup {<<"h3", "h4">>}

\* git reset may also take it back
Resets == TwoCommits \cup {<<"h2", "h1">>, <<"h3", "h2">>, <<"h3", "h1">>}

\* every commit changes the tree; or h2 only amends the message of h1
OwnTree == [h \in Heads |-> h]
Amended == [h \in Heads |-> IF h = "h2" THEN "h1" ELSE h]
=============================================================================
