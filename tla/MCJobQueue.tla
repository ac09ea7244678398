----------------------------- MODULE MCJobQueue -----------------------------
(* Values for the constants of JobQueue.                                   *)
EXTENDS JobQueue, TLC

CONSTANTS i1, w1, w2

(* One job for both workers.                                               *)
ServeOne == [w \in {w1, w2} |-> {i1}]

(* The clock of w2 runs ahead of w1's.                                     *)
Ahead == w1 :> 0 @@ w2 :> 1
=============================================================================
