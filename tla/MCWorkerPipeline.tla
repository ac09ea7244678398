-------------------------- MODULE MCWorkerPipeline --------------------------
(* Values for the constants of WorkerPipeline.                             *)
EXTENDS WorkerPipeline, TLC

CONSTANTS i1, w1, w2, log1, rate1, span1, span2, t1, t2

ServeOne == [w \in {w1, w2} |-> {i1}]
Exact == [w \in {w1, w2} |-> 0]
Ahead == w1 :> 0 @@ w2 :> 1

SignalOf == log1 :> "LOG" @@ rate1 :> "RATE" @@ span1 :> "TRACE" @@ span2 :> "TRACE"
TraceIdOf == log1 :> t1 @@ rate1 :> NULL @@ span1 :> t1 @@ span2 :> t2

(* Nothing; everything a MEDIUM hypothesis needs; a trace that matches no  *)
(* log line.                                                               *)
Found == {{}, {log1, rate1, span1}, {log1, rate1, span2}}
=============================================================================
