-------------------------- MODULE MCCreateIncident --------------------------
(* Values for the constants of CreateIncident.                             *)
EXTENDS CreateIncident

CONSTANTS k1, k2, p1, p2, n1, n2, n3, h1, h2, h3
=============================================================================
