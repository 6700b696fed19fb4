----------------------------- MODULE MCReviewRound -----------------------------
EXTENDS ReviewRound, TLC
\* One command at a time on a round of two reviewers; two on a completed one.
OneOrTwo == LET i == CHOOSE j \in Invocations : TRUE
                s == CHOOSE t \in Slots : TRUE
            IN {<<{}, {i}>>, <<{s}, {i}>>, <<Slots, Invocations>>}
================================================================================
