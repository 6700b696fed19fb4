----------------------------- MODULE FastRounds ------------------------------
(* Counts the local rounds of a ladder: ReviewCycle with a history variable.    *)
(* A round counts once its reviewers gave an answer that was not blocked; a new *)
(* ladder starts where the cycle was green.                                     *)
EXTENDS MCReviewCycle

VARIABLE rounds

AnsweredRound == c.stage = "running" /\ c'.stage # "running" /\ ~c.round.blocked

CountRounds == rounds' = IF c.stage = "review-green" THEN 0
                         ELSE IF AnsweredRound THEN rounds + 1 ELSE rounds

RoundsSpec == /\ Init /\ rounds = 0
              /\ [][Next /\ CountRounds]_<<vars, rounds>>

\* "fast: ... at most two local rounds": the round budget of the shipped profile
\* (max_review_rounds = 2), which _profile_step_max_review_rounds reads.
AtMostTwoRounds == Fast => rounds <= 2
=============================================================================
