-------------------------- MODULE MCReviewDecision --------------------------
(* Values for the constants of ReviewDecision.                             *)
EXTENDS ReviewDecision, TLC

CONSTANTS pg1, pg2, d1, d2, h1, h2

Interchangeable == Permutations({pg1, pg2}) \cup Permutations({d1, d2})
                   \cup Permutations({h1, h2})
=============================================================================
