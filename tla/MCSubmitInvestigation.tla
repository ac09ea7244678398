----------------------- MODULE MCSubmitInvestigation -----------------------
(* Values for the constants of SubmitInvestigation.                        *)
EXTENDS SubmitInvestigation, TLC

CONSTANTS c1, c2, p1, p2, h1, h2, i1, i2

Interchangeable == Permutations({c1, c2}) \cup Permutations({p1, p2})
                   \cup Permutations({h1, h2}) \cup Permutations({i1, i2})
=============================================================================
