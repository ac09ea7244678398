-------------------------- MODULE TelemetryCapture --------------------------
(* What an investigation captures of a system like InventoryCall           *)
(* (backend/telemetry_gateway.py, collect_evidence and the format checks   *)
(* of save_evidence in backend/evidence_pipeline.py).  Log lines, counters *)
(* and spans reach Loki, Prometheus and Jaeger late, and a capture asks    *)
(* one after the other.  As each may lag behind by any amount, a capture   *)
(* is a function of one state and of how much had arrived when asked.      *)
EXTENDS InventoryCall, SequencesExt

CONSTANTS
  MaxPerSignal,   \* MAX_PER_SIGNAL
  MaxNoise,       \* bound on lines that are not about a call
  MaxLag,         \* bound on how many lines Loki is behind
  MaxAmiss        \* bound on what is amiss with one capture

ASSUME CaptureAssumption == MaxPerSignal \in Nat \ {0} /\ MaxAmiss \in Nat

vars == inventoryVars

Init == InventoryInit

(* Any other line of the API: no request, no trace, an event and perhaps a *)
(* status the pipeline does not know; none at the last instant, which only *)
(* bounds the model.                                                       *)
NoiseLines == {n \in DOMAIN lines : lines[n].call = NULL}
Noise(status) ==
  /\ clock < MaxTime /\ Cardinality(NoiseLines) < MaxNoise
  /\ lines' = Append(lines, Line(API, NULL, "unknown", status))
  /\ UNCHANGED <<clock, mode, call, served, spans>>

Next == InventoryNext \/ \E status \in {500, 999} : Noise(status)

Spec == Init /\ [][Next]_vars

-----------------------------------------------------------------------------
(* A query: a service and a window, how many lines and spans had arrived,  *)
(* the order in which a backend happens to return streams or traces, and   *)
(* whether the exporter sent the last line twice.  A fine start has digits *)
(* below a millisecond: it is just after the instant start.                *)
Queries == [service: {API}, start: 0..MaxTime, end: 1..MaxTime, fine: BOOLEAN,
            order: BOOLEAN, twice: BOOLEAN, loki: {n \in 0..Len(lines) : Len(lines) <= n + MaxLag},
            prometheus: {0, Len(lines)}, jaeger: {0, Len(spans)}]

In(q, t) == t <= q.end /\ IF q.fine THEN q.start < t ELSE q.start <= t
Cut(s) == SubSeq(s, 1, IF Len(s) < MaxPerSignal THEN Len(s) ELSE MaxPerSignal)
Swap(q, s, t) == IF q.order THEN s \o t ELSE t \o s

(* The elements of s at positions K, in their order.                       *)
Nth(K, n) == CHOOSE k \in K : Cardinality(K \cap (1..(k - 1))) = n - 1
Kept(s, K) == [n \in 1..Cardinality(K) |-> s[Nth(K, n)]]

(* Loki: the service's lines from start to before end, newest first in     *)
(* each stream.                                                            *)
Wanted(q) == {n \in 1..q.loki : /\ lines[n].service = q.service
                                /\ In(q, lines[n].at) /\ lines[n].at < q.end}

(* Backends that lag, a fine start, a repeated line.                       *)
Amiss(q) == {f \in {"loki", "prometheus"} : q[f] < Len(lines)}
            \cup {f \in {"jaeger"} : q[f] < Len(spans)}
            \cup {f \in {"fine", "twice"} : q[f]}

Windows == {q \in Queries : /\ q.start < q.end /\ Cardinality(Amiss(q)) <= MaxAmiss
                            /\ q.twice => q.loki \in Wanted(q)}

LogRows(q) ==
  LET failures == {n \in Wanted(q) : lines[n].event = "dependency_call_failed"}
      again == IF q.twice THEN << lines[q.loki] >> ELSE <<>>
  IN  Swap(q, Reverse(Kept(lines, failures)), Reverse(Kept(lines, Wanted(q) \ failures))) \o again

(* The streams are merged by time, rows of one time as they came, before   *)
(* the limit cuts.  Mutant: oldest first.                                  *)
OlderAhead(rows, k) ==
  {j \in DOMAIN rows : rows[j].at < rows[k].at \/ (rows[j].at = rows[k].at /\ j < k)}

Ahead(rows, k) ==
  {j \in DOMAIN rows : rows[j].at > rows[k].at \/ (rows[j].at = rows[k].at /\ j < k)}

Newest(rows) ==
  [n \in DOMAIN rows |-> rows[CHOOSE k \in DOMAIN rows : Cardinality(Ahead(rows, k)) = n - 1]]

QueryLogs(q) == Cut(Newest(LogRows(q)))

(* Prometheus: a sample per step once a matching request was counted; the  *)
(* first ones are kept.  It reads the start in whole milliseconds.         *)
Counted(q, metric, t) ==
  Cardinality({n \in 1..q.prometheus : /\ lines[n].service = q.service /\ lines[n].at <= t
                                     /\ lines[n].event = "request_completed"
                                     /\ metric = "error_rate" => lines[n].status >= 500})

QueryMetrics(q, metric) ==
  LET times == [k \in 1..(q.end - q.start + 1) |-> q.start + k - 1]
      steps == Kept(times, {k \in DOMAIN times : Counted(q, metric, times[k]) > 0})
  IN  Cut([k \in DOMAIN steps |->
             [metric |-> metric, at |-> steps[k], value |-> Counted(q, metric, steps[k])]])

(* Jaeger: all spans of the traces with a span of the service in the       *)
(* window; the first ones are kept.                                        *)
Traced(q) == {n \in 1..q.jaeger : \E m \in 1..q.jaeger : /\ spans[m].call = spans[n].call
                                                         /\ spans[m].service = q.service
                                                         /\ In(q, spans[m].at)}
SpanRows(q) ==
  LET rows == Kept(spans, Traced(q)) IN IF q.order THEN rows ELSE Reverse(rows)

QueryTraces(q) == Cut(SpanRows(q))

-----------------------------------------------------------------------------
(* collect_evidence.  A reference of a log line is its time and a digest   *)
(* of its text, request and trace.                                         *)
KnownEvents == {"request_completed", "dependency_call_started",
                "dependency_call_failed", "dependency_call_completed"}

StatusOf(s) == IF s \in 100..599 THEN s ELSE NULL

LogRecord(q, r) ==
  [kind |-> "LOG", service |-> q.service, at |-> r.at, trace |-> r.call,
   summary |-> << IF r.event \in KnownEvents THEN r.event ELSE "log_event", StatusOf(r.status) >>,
   ref |-> << r.at, r.event, r.call >>]
MetricRecord(q, r) ==
  [kind |-> "METRIC", service |-> q.service, at |-> r.at, trace |-> NULL,
   summary |-> << r.metric, r.value >>, ref |-> << r.metric, r.at >>]
SpanRecord(r) ==
  [kind |-> "TRACE", service |-> r.service, at |-> r.at, trace |-> r.call,
   summary |-> << "Trace span observed" >>, ref |-> << r.service, r.call >>]

(* Spans outside the window are dropped after the cut.                     *)
Records(q) ==
  LET logs == QueryLogs(q)  answer == QueryTraces(q)
      traces == Kept(answer, {k \in DOMAIN answer : In(q, answer[k].at)})
      samples == QueryMetrics(q, "request_rate") \o QueryMetrics(q, "error_rate")
  IN  [k \in DOMAIN logs |-> LogRecord(q, logs[k])]
      \o [k \in DOMAIN samples |-> MetricRecord(q, samples[k])]
      \o [k \in DOMAIN traces |-> SpanRecord(traces[k])]

Source(r) == << r.kind, r.service, r.ref >>

(* Mutants: the later record replaces the earlier one; a repeated row is   *)
(* taken for a conflict.                                                   *)
NeverConflict(rs) == FALSE
RepeatsConflict(rs) == Cardinality({Source(rs[i]) : i \in DOMAIN rs}) # Len(rs)

Conflict(rs) == Cardinality({Source(r) : r \in ToSet(rs)}) # Cardinality(ToSet(rs))

Unique(rs) == {rs[i] : i \in {n \in DOMAIN rs : \A m \in (n + 1)..Len(rs) :
                                Source(rs[m]) # Source(rs[n])}}

(* A log row or a sample always gives a record, a span only in the window. *)
Gaps(found) ==
  LET traced(kind) == {r.trace : r \in {x \in found : x.kind = kind}} \ {NULL} IN
  {"CHANGE_FEED_NOT_CONFIGURED"}
  \cup {g \in {"NO_LOGS"} : ~\E r \in found : r.kind = "LOG"}
  \cup {g \in {"NO_REQUEST_RATE"} : ~\E r \in found : r.summary[1] = "request_rate"}
  \cup {g \in {"NO_TRACES"} : ~\E r \in found : r.kind = "TRACE"}
  \cup {g \in {"NO_LOG_TRACE_OVERLAP"} : /\ traced("LOG") # {} /\ traced("TRACE") # {}
                                         /\ traced("LOG") \cap traced("TRACE") = {}}

(* A log line or a sample before the start or after the end is an error.   *)
Outside(q, rs) == \E r \in ToSet(rs) : ~In(q, r.at)

CollectEvidence(q) ==
  LET rs == Records(q)  found == Unique(rs) IN
  IF Outside(q, rs) \/ Conflict(rs) THEN [error |-> TRUE]
  ELSE [error |-> FALSE, records |-> found, gaps |-> Gaps(found)]

(* What save_evidence checks again before it stores a batch.               *)
Savable(q, batch) ==
  /\ Cardinality(batch.records) <= 4 * MaxPerSignal
  /\ \A r \in batch.records :
       /\ In(q, r.at)
       /\ r.kind = "LOG" => r.summary[2] \in 100..599 \cup {NULL}
       /\ r.kind = "METRIC" => r.summary[2] >= 0
       /\ r.kind = "TRACE" => r.trace # NULL

-----------------------------------------------------------------------------
(* A capture fails only for lines that say different things with one time, *)
(* text, request and trace, or because requests were counted before a      *)
(* start with digits that Prometheus drops: then every attempt fails.      *)
(* Otherwise, however late, reordered or repeated telemetry arrives, it    *)
(* succeeds, and what it returns can be stored.                            *)
Contradiction == \E m, n \in NoiseLines : /\ lines[m].at = lines[n].at
                                          /\ StatusOf(lines[m].status) # StatusOf(lines[n].status)

EarlySample(q) == q.fine /\ Counted(q, "request_rate", q.start) > 0

CaptureAccepted ==
  \A q \in Windows :
    LET batch == CollectEvidence(q) IN
    IF batch.error THEN Contradiction \/ EarlySample(q)
    ELSE ~EarlySample(q) /\ Savable(q, batch)

(* "Stable order and IDs make an interrupted capture safe to retry": when  *)
(* the limits cut nothing, a second capture of the same telemetry gives    *)
(* the same evidence and gaps, or fails again, whatever order the backends *)
(* answer in.                                                              *)
Uncut(q) == Len(LogRows(q)) <= MaxPerSignal /\ Len(SpanRows(q)) <= MaxPerSignal

RetryStable ==
  \A q \in Windows :
    LET p == [q EXCEPT !.order = ~q.order, !.twice = FALSE] IN
    q.order /\ Uncut(q) => CollectEvidence(q) = CollectEvidence(p)

(* A failed call is in the evidence, with its trace and as a server error, *)
(* as soon as its lines have arrived, unless the limit was filled by lines *)
(* that are not older.  Its outcome was logged before its answer: that     *)
(* record alone is missing if the window starts, or the limit cuts,        *)
(* between the two.                                                        *)
FailureLeavesEvidence ==
  \A q \in {w \in Windows : w.prometheus = Len(lines) /\ w.jaeger = Len(spans)} :
    LET rows == LogRows(q)  batch == CollectEvidence(q)
        Fits(n) == Cardinality({j \in DOMAIN rows : rows[j].at >= lines[n].at}) <= MaxPerSignal
        Recorded(n) == \E r \in batch.records :
            /\ r.kind = "LOG" /\ r.trace = lines[n].call /\ r.summary[1] = lines[n].event
            /\ lines[n].event = "request_completed" => r.summary[2] >= 500
        Failures == {n \in Wanted(q) : /\ lines[n].call # NULL
                                       /\ lines[n].event = "request_completed"
                                       /\ lines[n].status >= 500}
    IN  \A n \in Failures :
          ~batch.error =>
            /\ Fits(n) => Recorded(n)
            /\ \E m \in DOMAIN lines :
                 /\ lines[m].call = lines[n].call /\ lines[m].event = "dependency_call_failed"
                 /\ In(q, lines[m].at) /\ Fits(m) => Recorded(m)
=============================================================================
