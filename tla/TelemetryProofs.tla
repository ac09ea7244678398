-------------------------- MODULE TelemetryProofs ---------------------------
(* Proofs about a call of the demo system and about what a capture makes   *)
(* of the telemetry it leaves, for any calls, time-outs, limits and noise. *)
EXTENDS TelemetryCapture, SequenceTheorems, FunctionTheorems, FiniteSetTheorems, TLAPS

Event == KnownEvents \cup {"unknown"}
Told == {NULL, 200, 500, 502, 503, 504, 999}

LogLine == [service : {API, Dependency}, call : Call \cup {NULL}, event : Event,
            status : Told, at : Nat]
TraceSpan == [service : {API, Dependency}, call : Call, at : Nat]

CallState == [pc : {"NEW", "CALLING", "CONCLUDED", "ANSWERED"}, since : Nat,
              status : {NULL, 200, 502, 503, 504}]

Types ==
  /\ clock \in Nat /\ mode \in Mode
  /\ call \in [Call -> CallState]
  /\ served \in [Call -> Serving \cup {NULL}]
  /\ lines \in Seq(LogLine) /\ spans \in Seq(TraceSpan)

(* A call waits no longer than its time-out, and the dependency replies as *)
(* its mode was when it took the call, and not before it has slept.        *)
InTime(c) ==
  /\ call[c].pc = "CALLING" => call[c].since <= clock /\ clock <= call[c].since + Timeout
  /\ served[c] # NULL =>
       /\ call[c].pc # "NEW"
       /\ call[c].pc = "CALLING" => call[c].since <= served[c].since
       /\ served[c].reply = 500 => served[c].mode = "ERROR"
       /\ served[c].reply = 200 => /\ served[c].mode # "ERROR"
                                   /\ served[c].mode = "LATENCY" => clock >= served[c].since + Sleep
  /\ call[c].status \in {200, 502} => served[c] # NULL
  /\ call[c].status = 200 => served[c].mode = "NORMAL"
  /\ call[c].status = 502 => served[c].mode = "ERROR"
  /\ call[c].pc \in {"NEW", "CALLING"} => call[c].status = NULL

(* The API's lines about a call: none, the start, the start and the        *)
(* outcome, or these and the answer, not older than the outcome.           *)
Mine(c) == {n \in DOMAIN lines : lines[n].call = c /\ lines[n].service = API}

Outcome(c) == IF call[c].status = 200 THEN "dependency_call_completed" ELSE "dependency_call_failed"

Begun(c, k) == lines[k].event = "dependency_call_started"
Concluded(c, k, n) == k < n /\ Begun(c, k) /\ lines[n].event = Outcome(c)

Story(c, k, n, m) ==
  /\ Mine(c) = {k, n, m} /\ Concluded(c, k, n) /\ n < m
  /\ lines[m].event = "request_completed" /\ lines[m].status = call[c].status
  /\ lines[n].at <= lines[m].at

LinesFit(c) ==
  /\ call[c].pc = "NEW" => Mine(c) = {}
  /\ call[c].pc = "CALLING" => \E k \in DOMAIN lines : Mine(c) = {k} /\ Begun(c, k)
  /\ call[c].pc \in {"CONCLUDED", "ANSWERED"} => call[c].status # NULL
  /\ call[c].pc = "CONCLUDED" =>
       \E k, n \in DOMAIN lines : Mine(c) = {k, n} /\ Concluded(c, k, n) /\ lines[n].at <= clock
  /\ call[c].pc = "ANSWERED" => \E k, n, m \in DOMAIN lines : Story(c, k, n, m)

(* Each service ends one span for a call, when it has replied.             *)
Ended(s) ==
  IF s.service = API THEN call[s.call].pc = "ANSWERED"
  ELSE served[s.call] # NULL /\ served[s.call].reply # NULL

SpansFit ==
  /\ \A n \in DOMAIN spans : Ended(spans[n])
  /\ \A m, n \in DOMAIN spans :
       spans[m].call = spans[n].call /\ spans[m].service = spans[n].service => m = n

TelemetryInv == Types /\ (\A c \in Call : InTime(c) /\ LinesFit(c)) /\ SpansFit

-----------------------------------------------------------------------------
(* The types *)

LEMMA AppendFacts ==
  ASSUME NEW S, NEW s \in Seq(S), NEW e \in S
  PROVE  /\ Append(s, e) \in Seq(S) /\ Len(Append(s, e)) = Len(s) + 1
         /\ \A n \in DOMAIN s : Append(s, e)[n] = s[n]
         /\ Append(s, e)[Len(s) + 1] = e
         /\ DOMAIN Append(s, e) = 1..(Len(s) + 1) /\ DOMAIN s = 1..Len(s)
<1> QED OBVIOUS

Grown ==
  /\ Len(lines) <= Len(lines') /\ \A n \in DOMAIN lines : lines'[n] = lines[n]
  /\ DOMAIN lines = 1..Len(lines) /\ DOMAIN lines' = 1..Len(lines')

(* What an action that writes a line does to them.                         *)
LEMMA LineWritten ==
  ASSUME Types, NEW l \in LogLine, lines' = Append(lines, l)
  PROVE  /\ lines' \in Seq(LogLine) /\ Grown
         /\ Len(lines') = Len(lines) + 1 /\ lines'[Len(lines) + 1] = l
<1> QED BY AppendFacts DEF Types, Grown

LEMMA LineTyped ==
  ASSUME Types, NEW service \in {API, Dependency}, NEW c \in Call \cup {NULL},
         NEW event \in Event, NEW status \in Told
  PROVE  /\ Line(service, c, event, status) \in LogLine
         /\ Line(service, c, event, status).service = service
         /\ Line(service, c, event, status).call = c
         /\ Line(service, c, event, status).event = event
         /\ Line(service, c, event, status).status = status
         /\ Line(service, c, event, status).at = clock
<1> QED BY DEF Types, LogLine, Line

LEMMA SpanTyped ==
  ASSUME NEW service \in {API, Dependency}, NEW c \in Call, NEW at \in Nat
  PROVE  /\ Span(service, c, at) \in TraceSpan
         /\ Span(service, c, at).service = service /\ Span(service, c, at).call = c
<1> QED BY DEF TraceSpan, Span

(* A call whose state no step touches, and about which the API writes      *)
(* nothing, keeps its lines.                                               *)
LEMMA StoryGoesOn ==
  ASSUME Types, Grown, NEW c \in Call, LinesFit(c), call'[c] = call[c], clock' \in Nat, clock <= clock',
         \A n \in (Len(lines) + 1)..Len(lines') : ~(lines'[n].call = c /\ lines'[n].service = API)
  PROVE  LinesFit(c)'
<1>1. Len(lines) \in Nat /\ Len(lines') \in Nat /\ DOMAIN lines \subseteq DOMAIN lines'
  BY DEF Types, Grown
<1>2. Mine(c)' = Mine(c)
  BY <1>1 DEF Mine, Grown
<1>3. \A k, n \in DOMAIN lines : /\ Begun(c, k) => Begun(c, k)'
                                 /\ Concluded(c, k, n) => Concluded(c, k, n)'
  BY DEF Begun, Concluded, Outcome, Grown
<1>4. CASE call[c].pc \notin {"CONCLUDED", "ANSWERED"}
  BY <1>1, <1>2, <1>3, <1>4 DEF LinesFit
<1>5. CASE call[c].pc = "CONCLUDED"
  <2>1. PICK k \in DOMAIN lines, n \in DOMAIN lines :
               Mine(c) = {k, n} /\ Concluded(c, k, n) /\ lines[n].at <= clock
    BY <1>5 DEF LinesFit
  <2>2. lines[n].at \in Nat /\ clock \in Nat /\ lines'[n] = lines[n]
    <3>1. lines[n] \in LogLine
      BY DEF Types
    <3> QED BY <3>1 DEF Types, LogLine, Grown
  <2>3. lines'[n].at <= clock'
    BY <2>1, <2>2
  <2> QED BY <1>1, <1>2, <1>3, <1>5, <2>1, <2>3 DEF LinesFit
<1>6. CASE call[c].pc = "ANSWERED"
  <2>1. PICK k \in DOMAIN lines, n \in DOMAIN lines, m \in DOMAIN lines : Story(c, k, n, m)
    BY <1>6 DEF LinesFit
  <2>2. lines'[n] = lines[n] /\ lines'[m] = lines[m]
    BY DEF Grown
  <2>3. Story(c, k, n, m)'
    BY <1>2, <1>3, <2>1, <2>2 DEF Story
  <2> QED BY <1>1, <1>6, <2>1, <2>3 DEF LinesFit
<1> QED BY <1>4, <1>5, <1>6

LEMMA NothingWritten ==
  ASSUME Types, UNCHANGED lines
  PROVE  Grown /\ (Len(lines) + 1)..Len(lines') = {}
<1> QED BY DEF Types, Grown

LEMMA SpanCalls ==
  ASSUME Types
  PROVE  \A n \in DOMAIN spans : spans[n] \in TraceSpan /\ spans[n].call \in Call
<1>1. \A n \in DOMAIN spans : spans[n] \in TraceSpan
  BY DEF Types
<1> QED BY <1>1 DEF TraceSpan

LEMMA SpanEnded ==
  ASSUME Types, SpansFit, NEW s \in TraceSpan, spans' = Append(spans, s), Ended(s)',
         \A n \in DOMAIN spans : /\ Ended(spans[n]) => Ended(spans[n])'
                                 /\ ~(spans[n].call = s.call /\ spans[n].service = s.service)
  PROVE  spans' \in Seq(TraceSpan) /\ SpansFit'
<1>0. PICK k : k = Len(spans) + 1
  OBVIOUS
<1>1. /\ spans' \in Seq(TraceSpan) /\ k \notin DOMAIN spans
      /\ DOMAIN spans' = DOMAIN spans \cup {k}
      /\ spans'[k] = s /\ \A n \in DOMAIN spans : spans'[n] = spans[n]
  BY <1>0, AppendFacts DEF Types
<1>2. \A n \in DOMAIN spans' : Ended(spans[n])'
  <2>1. ASSUME NEW n \in DOMAIN spans PROVE Ended(spans[n])'
    BY DEF SpansFit
  <2>2. Ended(spans[k])'
    BY <1>1 DEF Ended
  <2> QED BY <1>1, <2>1, <2>2
<1>3. ASSUME NEW m \in DOMAIN spans', NEW n \in DOMAIN spans',
             spans'[m].call = spans'[n].call, spans'[m].service = spans'[n].service
      PROVE  m = n
  BY <1>1, <1>3 DEF SpansFit
<1> QED BY <1>1, <1>2, <1>3 DEF SpansFit

LEMMA NoSpanEnded ==
  ASSUME Types, SpansFit, UNCHANGED spans, \A n \in DOMAIN spans : Ended(spans[n]) => Ended(spans[n])'
  PROVE  SpansFit'
<1> QED BY DEF SpansFit, Ended

-----------------------------------------------------------------------------
(* One lemma per action *)

LEMMA ReceiveInv ==
  ASSUME TelemetryInv, NEW c \in Call, Receive(c)
  PROVE  TelemetryInv'
<1> USE DEF TelemetryInv
<1>0. InTime(c) /\ LinesFit(c)
  OBVIOUS
<1>1. /\ call[c].pc = "NEW" /\ served[c] = NULL
      /\ call'[c] = [pc |-> "CALLING", since |-> clock, status |-> NULL]
      /\ call' \in [Call -> CallState]
      /\ \A d \in Call : d # c => call'[d] = call[d]
  <2>1. call[c].pc = "NEW" /\ served[c] = NULL /\ call[c].status = NULL
    BY <1>0 DEF Receive, InTime
  <2>2. call[c] \in CallState /\ call \in [Call -> CallState] /\ clock \in Nat
    BY DEF Types
  <2>3. PICK e : e = [call[c] EXCEPT !.pc = "CALLING", !.since = clock]
    OBVIOUS
  <2>4. e = [pc |-> "CALLING", since |-> clock, status |-> NULL]
    BY <2>1, <2>2, <2>3 DEF CallState
  <2>5. call' = [call EXCEPT ![c] = e]
    BY <2>2, <2>3 DEF Receive
  <2>6. e \in CallState
    BY <2>2, <2>4 DEF CallState
  <2> QED BY <2>1, <2>2, <2>4, <2>5, <2>6
<1>2. PICK l : l = Line(API, c, "dependency_call_started", NULL)
  OBVIOUS
<1>3. l \in LogLine /\ l.call = c /\ l.service = API /\ l.event = "dependency_call_started"
  BY <1>2, LineTyped DEF Event, KnownEvents, Told
<1>4. /\ lines' \in Seq(LogLine) /\ Grown
      /\ Len(lines') = Len(lines) + 1 /\ lines'[Len(lines) + 1] = l
  BY <1>2, <1>3, LineWritten DEF Receive
<1>5. Types'
  BY <1>1, <1>4 DEF Receive, Types
<1>6. \A d \in Call : InTime(d)'
  BY <1>1, InventoryAssumption DEF Receive, InTime, Types
<1>7. \A d \in Call : LinesFit(d)'
  <2>1. \A d \in Call : d # c => LinesFit(d)'
    BY <1>1, <1>3, <1>4, StoryGoesOn DEF Types, Receive
  <2>1a. PICK k : k = Len(lines) + 1
    OBVIOUS
  <2>2. k \in DOMAIN lines' /\ lines'[k] = l /\ Mine(c)' = {k}
    <3>1. Mine(c) = {} /\ Len(lines) \in Nat
      BY <1>0, <1>1 DEF LinesFit, Types
    <3>2. DOMAIN lines' = DOMAIN lines \cup {k} /\ lines'[k] = l
      BY <1>4, <2>1a, <3>1 DEF Grown
    <3>3. \A n \in DOMAIN lines : lines'[n] = lines[n]
      BY <1>4 DEF Grown
    <3> QED BY <1>3, <3>1, <3>2, <3>3 DEF Mine
  <2>3. LinesFit(c)'
    BY <1>1, <1>3, <2>2 DEF LinesFit, Begun
  <2> QED BY <2>1, <2>3
<1>8. SpansFit'
  <2>1. \A n \in DOMAIN spans : spans[n].call \in Call
    BY SpanCalls
  <2>2. UNCHANGED <<served, spans>>
    BY DEF Receive
  <2>3. ASSUME NEW n \in DOMAIN spans, Ended(spans[n]) PROVE Ended(spans[n])'
    BY <1>1, <2>1, <2>2, <2>3 DEF Ended
  <2> QED BY <2>2, <2>3, NoSpanEnded
<1> QED BY <1>5, <1>6, <1>7, <1>8

LEMMA TakeCallInv ==
  ASSUME TelemetryInv, NEW c \in Call, TakeCall(c)
  PROVE  TelemetryInv'
<1> USE DEF TelemetryInv
<1>1. /\ call[c].pc # "NEW" /\ served[c] = NULL
      /\ served'[c] = [mode |-> mode, since |-> clock, reply |-> NULL]
      /\ served'[c] \in Serving /\ served' \in [Call -> Serving \cup {NULL}]
      /\ \A d \in Call : d # c => served'[d] = served[d]
  BY DEF TakeCall, Types, Serving
<1>2. Types'
  BY <1>1 DEF TakeCall, Types
<1>3. \A d \in Call : InTime(d)'
  BY <1>1, InventoryAssumption DEF TakeCall, InTime, Types
<1>4. \A d \in Call : LinesFit(d)'
  BY NothingWritten, StoryGoesOn DEF TakeCall, Types
<1>5. SpansFit'
  BY <1>1, NoSpanEnded DEF TakeCall, Ended, Types, TraceSpan
<1> QED BY <1>2, <1>3, <1>4, <1>5

LEMMA ReplyInv ==
  ASSUME TelemetryInv, NEW c \in Call, Reply(c)
  PROVE  TelemetryInv'
<1>0. Types /\ SpansFit /\ InTime(c) /\ \A d \in Call : InTime(d) /\ LinesFit(d)
  BY DEF TelemetryInv
<1>1. PICK code \in {200, 500} :
        /\ code = 500 <=> served[c].mode = "ERROR"
        /\ served' = [served EXCEPT ![c].reply = code]
        /\ lines' = Append(lines, Line(Dependency, c, "request_completed", code))
  <2>1. CASE served[c].mode = "ERROR"
    BY <2>1 DEF Reply, ModeOf
  <2>2. CASE served[c].mode # "ERROR"
    BY <2>2 DEF Reply, ModeOf
  <2> QED BY <2>1, <2>2
<1>2. /\ served[c] \in Serving /\ served[c] # NULL /\ served[c].reply = NULL
      /\ served[c].mode = "LATENCY" => clock >= served[c].since + Sleep
  BY <1>0 DEF Types, Reply, ModeOf
<1>3. /\ served'[c] \in Serving /\ served'[c] # NULL
      /\ served'[c].mode = served[c].mode /\ served'[c].since = served[c].since
      /\ served'[c].reply = code
      /\ served' \in [Call -> Serving \cup {NULL}]
      /\ \A d \in Call : d # c => served'[d] = served[d]
  <2>1. PICK e : e = [served[c] EXCEPT !.reply = code]
    OBVIOUS
  <2>2. /\ e \in Serving /\ e.mode = served[c].mode
        /\ e.since = served[c].since /\ e.reply = code
    BY <1>2, <2>1 DEF Serving
  <2>3. served' = [served EXCEPT ![c] = e] /\ served \in [Call -> Serving \cup {NULL}]
    BY <1>0, <1>1, <2>1 DEF Types
  <2> QED BY <2>2, <2>3, InventoryAssumption
<1>4. PICK l : l = Line(Dependency, c, "request_completed", code)
  OBVIOUS
<1>5. l \in LogLine /\ l.call = c /\ l.service = Dependency
  BY <1>0, <1>4, LineTyped DEF Event, KnownEvents, Told
<1>6. /\ lines' \in Seq(LogLine) /\ Grown
      /\ Len(lines') = Len(lines) + 1 /\ lines'[Len(lines) + 1] = l
  BY <1>0, <1>1, <1>4, <1>5, LineWritten
<1>7. PICK s : s = Span(Dependency, c, served[c].since)
  OBVIOUS
<1>8. s \in TraceSpan /\ s.service = Dependency /\ s.call = c
  BY <1>2, <1>7, SpanTyped DEF Serving
<1>9. spans' \in Seq(TraceSpan) /\ SpansFit'
  <2>1. Ended(s)'
    BY <1>1, <1>3, <1>8, InventoryAssumption DEF Ended, API, Dependency
  <2>2. ASSUME NEW n \in DOMAIN spans
        PROVE  /\ Ended(spans[n])'
               /\ ~(spans[n].call = s.call /\ spans[n].service = s.service)
    <3>1. spans[n].call \in Call /\ Ended(spans[n])
      BY <1>0, SpanCalls DEF SpansFit
    <3>2. ~(spans[n].call = c /\ spans[n].service = Dependency)
      BY <1>2, <3>1 DEF Ended, API, Dependency
    <3>3. spans'[n] = spans[n]
      BY <1>0, <1>7, <1>8, AppendFacts DEF Reply, Types
    <3>4. call' = call
      BY DEF Reply
    <3>5. spans[n].service # API => served'[spans[n].call] # NULL /\ served'[spans[n].call].reply # NULL
      BY <1>1, <1>3, <3>1, InventoryAssumption DEF Ended
    <3> QED BY <1>8, <3>1, <3>2, <3>3, <3>4, <3>5 DEF Ended
  <2>3. spans' = Append(spans, s)
    BY <1>7 DEF Reply
  <2> QED BY <1>0, <1>8, <2>1, <2>2, <2>3, SpanEnded
<1>10. Types'
  BY <1>0, <1>3, <1>6, <1>9 DEF Reply, Types
<1>11. \A d \in Call : InTime(d)'
  <2>1. UNCHANGED <<clock, call>>
    BY DEF Reply
  <2>2. ASSUME NEW d \in Call, d # c PROVE InTime(d)'
    BY <1>0, <1>3, <2>1, <2>2 DEF InTime
  <2>3. InTime(c)'
    BY <1>0, <1>1, <1>2, <1>3, <2>1 DEF InTime
  <2> QED BY <2>2, <2>3
<1>12. \A d \in Call : LinesFit(d)'
  <2>1. call' = call /\ Len(lines) \in Nat /\ clock' = clock /\ clock \in Nat
    BY <1>0 DEF Reply, Types
  <2>2. \A n \in (Len(lines) + 1)..Len(lines') : lines'[n].service # API
    BY <1>5, <1>6, <2>1 DEF API, Dependency
  <2> QED BY <1>0, <1>6, <2>1, <2>2, StoryGoesOn
<1> QED BY <1>9, <1>10, <1>11, <1>12 DEF TelemetryInv

Moved(f, c, pc, status) == [f EXCEPT ![c].pc = pc, ![c].status = status]

LEMMA CallMoves ==
  ASSUME NEW f \in [Call -> CallState], NEW c \in Call, NEW pc \in {"CONCLUDED", "ANSWERED"},
         NEW status \in {NULL, 200, 502, 503, 504}
  PROVE  /\ Moved(f, c, pc, status)[c].pc = pc
         /\ Moved(f, c, pc, status)[c].since = f[c].since
         /\ Moved(f, c, pc, status)[c].status = status
         /\ Moved(f, c, pc, status) \in [Call -> CallState]
         /\ \A d \in Call : d # c => Moved(f, c, pc, status)[d] = f[d]
<1>1. f[c] \in CallState
  OBVIOUS
<1>2. PICK g : g = [f EXCEPT ![c].pc = pc]
  OBVIOUS
<1>3. /\ g[c].pc = pc /\ g[c].since = f[c].since /\ g \in [Call -> CallState]
      /\ \A d \in Call : d # c => g[d] = f[d]
  BY <1>1, <1>2 DEF CallState
<1>4. Moved(f, c, pc, status) = [g EXCEPT ![c].status = status]
  BY <1>2 DEF Moved
<1>5. g[c] \in CallState
  BY <1>3
<1> QED BY <1>1, <1>3, <1>4, <1>5 DEF CallState

(* The three ways a call ends: what is written depends on status, and a    *)
(* status that tells the mode needs a reply in that mode.                  *)
LEMMA ConcludeInv ==
  ASSUME TelemetryInv, NEW c \in Call,
         NEW event \in Event, NEW code \in {NULL, 200, 500}, NEW status \in {200, 502, 503, 504},
         Conclude(c, event, code, status),
         event = IF status = 200 THEN "dependency_call_completed" ELSE "dependency_call_failed",
         status \in {200, 502} => served[c] # NULL,
         status = 200 => served[c].mode = "NORMAL",
         status = 502 => served[c].mode = "ERROR"
  PROVE  TelemetryInv'
<1>0. /\ Types /\ SpansFit /\ InTime(c) /\ LinesFit(c) /\ \A d \in Call : InTime(d) /\ LinesFit(d)
      /\ call[c].pc = "CALLING" /\ UNCHANGED <<clock, mode, served, spans>> /\ clock \in Nat
  BY DEF TelemetryInv, Conclude, Types
<1>1. /\ call'[c].pc = "CONCLUDED" /\ call'[c].since = call[c].since /\ call'[c].status = status
      /\ call' \in [Call -> CallState]
      /\ \A d \in Call : d # c => call'[d] = call[d]
  <2>1. call' = Moved(call, c, "CONCLUDED", status)
    BY DEF Conclude, Moved
  <2> QED BY <1>0, <2>1, CallMoves DEF Types
<1>2. PICK l : l = Line(API, c, event, code)
  OBVIOUS
<1>3. l \in LogLine /\ l.call = c /\ l.service = API /\ l.event = event /\ l.at = clock
  <2>1. code \in Told /\ API \in {API, Dependency}
    BY DEF Told
  <2> QED BY <1>0, <1>2, <2>1, LineTyped
<1>4. /\ lines' \in Seq(LogLine) /\ Grown /\ Len(lines') = Len(lines) + 1
      /\ lines'[Len(lines) + 1] = l
  BY <1>0, <1>2, <1>3, LineWritten DEF Conclude
<1>5. Types'
  BY <1>0, <1>1, <1>4 DEF Types
<1>6. \A d \in Call : InTime(d)'
  <2>1. ASSUME NEW d \in Call, d # c PROVE InTime(d)'
    BY <1>0, <1>1, <2>1 DEF InTime
  <2>2. InTime(c)'
    BY <1>0, <1>1 DEF InTime
  <2> QED BY <2>1, <2>2
<1>7. \A d \in Call : LinesFit(d)'
  <2>1. PICK n : n = Len(lines) + 1
    OBVIOUS
  <2>2. /\ n \in Nat /\ DOMAIN lines = 1..(n - 1) /\ DOMAIN lines' = 1..n
        /\ lines'[n] = l /\ \A i \in DOMAIN lines : lines'[i] = lines[i]
    BY <1>0, <1>4, <2>1 DEF Types, Grown
  <2>3. ASSUME NEW d \in Call, d # c PROVE LinesFit(d)'
    <3>1. \A i \in (Len(lines) + 1)..Len(lines') : lines'[i].call # d
      BY <1>3, <1>4, <2>1, <2>2, <2>3
    <3> QED BY <1>0, <1>1, <1>4, <2>3, <3>1, StoryGoesOn
  <2>4. PICK k \in DOMAIN lines : Mine(c) = {k} /\ Begun(c, k)
    BY <1>0 DEF LinesFit
  <2>5. Mine(c)' = {k, n}
    <3>1. Mine(c)' \subseteq {k, n}
      BY <2>2, <2>4 DEF Mine
    <3>2. {k, n} \subseteq Mine(c)'
      BY <1>3, <2>2, <2>4 DEF Mine
    <3> QED BY <3>1, <3>2
  <2>6. Concluded(c, k, n)' /\ lines'[n].at <= clock'
    BY <1>0, <1>1, <1>3, <2>2, <2>4 DEF Concluded, Begun, Outcome
  <2>7. LinesFit(c)'
    BY <1>1, <2>2, <2>5, <2>6, InventoryAssumption DEF LinesFit
  <2> QED BY <2>3, <2>7
<1>8. SpansFit'
  <2>1. \A n \in DOMAIN spans : spans[n].call \in Call
    BY <1>0, SpanCalls
  <2>2. ASSUME NEW n \in DOMAIN spans, Ended(spans[n]) PROVE Ended(spans[n])'
    BY <1>0, <1>1, <2>1, <2>2 DEF Ended
  <2> QED BY <1>0, <2>2, NoSpanEnded
<1> QED BY <1>5, <1>6, <1>7, <1>8 DEF TelemetryInv

LEMMA AnsweredInv ==
  ASSUME TelemetryInv, NEW c \in Call, Answer(c)
  PROVE  TelemetryInv'
<1>0. /\ Types /\ SpansFit /\ InTime(c) /\ LinesFit(c) /\ \A d \in Call : InTime(d) /\ LinesFit(d)
      /\ call[c].pc = "CONCLUDED" /\ UNCHANGED <<clock, mode, served>> /\ clock \in Nat
      /\ call[c] \in CallState /\ call[c].status # NULL
  BY DEF TelemetryInv, Answer, Types, LinesFit
<1>1. /\ call'[c].pc = "ANSWERED" /\ call'[c].since = call[c].since /\ call'[c].status = call[c].status
      /\ call' \in [Call -> CallState]
      /\ \A d \in Call : d # c => call'[d] = call[d]
  <2>1. PICK e : e = [call[c] EXCEPT !.pc = "ANSWERED"]
    OBVIOUS
  <2>2. e \in CallState /\ e.pc = "ANSWERED" /\ e.since = call[c].since /\ e.status = call[c].status
    BY <1>0, <2>1 DEF CallState
  <2>3. call' = [call EXCEPT ![c] = e] /\ call \in [Call -> CallState]
    BY <1>0, <2>1 DEF Answer, Types
  <2> QED BY <2>2, <2>3
<1>2. PICK l : l = Line(API, c, "request_completed", call[c].status)
  OBVIOUS
<1>3. /\ l \in LogLine /\ l.call = c /\ l.service = API /\ l.event = "request_completed"
      /\ l.status = call[c].status /\ l.at = clock
  <2>1. "request_completed" \in Event /\ call[c].status \in Told /\ API \in {API, Dependency}
    BY <1>0 DEF Event, KnownEvents, Told, CallState
  <2> QED BY <1>0, <1>2, <2>1, LineTyped
<1>4. /\ lines' \in Seq(LogLine) /\ Grown /\ Len(lines') = Len(lines) + 1
      /\ lines'[Len(lines) + 1] = l
  BY <1>0, <1>2, <1>3, LineWritten DEF Answer
<1>5. PICK s : s = Span(API, c, call[c].since)
  OBVIOUS
<1>6. s \in TraceSpan /\ s.service = API /\ s.call = c
  BY <1>0, <1>5, SpanTyped DEF CallState
<1>7. spans' \in Seq(TraceSpan) /\ SpansFit'
  <2>1. spans' = Append(spans, s)
    BY <1>5 DEF Answer
  <2>2. Ended(s)'
    BY <1>1, <1>6 DEF Ended
  <2>3. ASSUME NEW n \in DOMAIN spans
        PROVE  /\ Ended(spans[n])'
               /\ ~(spans[n].call = s.call /\ spans[n].service = s.service)
    <3>1. spans[n].call \in Call /\ Ended(spans[n])
      BY <1>0, SpanCalls DEF SpansFit
    <3>2. ~(spans[n].call = c /\ spans[n].service = API)
      BY <1>0, <3>1 DEF Ended
    <3>3. spans'[n] = spans[n]
      BY <1>0, <1>6, <2>1, AppendFacts DEF Types
    <3> QED BY <1>0, <1>1, <1>6, <3>1, <3>2, <3>3 DEF Ended
  <2> QED BY <1>0, <1>6, <2>1, <2>2, <2>3, SpanEnded
<1>8. Types'
  BY <1>0, <1>1, <1>4, <1>7 DEF Types
<1>9. \A d \in Call : InTime(d)'
  <2>1. ASSUME NEW d \in Call, d # c PROVE InTime(d)'
    BY <1>0, <1>1, <2>1 DEF InTime
  <2>2. InTime(c)'
    BY <1>0, <1>1 DEF InTime
  <2> QED BY <2>1, <2>2
<1>10. \A d \in Call : LinesFit(d)'
  <2>1. PICK m : m = Len(lines) + 1
    OBVIOUS
  <2>2. /\ m \in Nat /\ DOMAIN lines = 1..(m - 1) /\ DOMAIN lines' = 1..m
        /\ lines'[m] = l /\ \A i \in DOMAIN lines : lines'[i] = lines[i]
    BY <1>0, <1>4, <2>1 DEF Types, Grown
  <2>3. ASSUME NEW d \in Call, d # c PROVE LinesFit(d)'
    <3>1. \A i \in (Len(lines) + 1)..Len(lines') : lines'[i].call # d
      BY <1>3, <1>4, <2>1, <2>2, <2>3
    <3> QED BY <1>0, <1>1, <1>4, <2>3, <3>1, StoryGoesOn
  <2>4. PICK k \in DOMAIN lines, n \in DOMAIN lines :
               Mine(c) = {k, n} /\ Concluded(c, k, n) /\ lines[n].at <= clock
    BY <1>0 DEF LinesFit
  <2>5. Mine(c)' = {k, n, m}
    <3>1. Mine(c)' \subseteq {k, n, m}
      BY <2>2, <2>4 DEF Mine
    <3>2. {k, n, m} \subseteq Mine(c)'
      BY <1>3, <2>2, <2>4 DEF Mine
    <3> QED BY <3>1, <3>2
  <2>6. Concluded(c, k, n)'
    BY <1>1, <2>2, <2>4 DEF Concluded, Begun, Outcome
  <2>7. Story(c, k, n, m)'
    BY <1>1, <1>3, <2>2, <2>4, <2>5, <2>6 DEF Story
  <2>8. LinesFit(c)'
    BY <1>0, <1>1, <2>2, <2>7 DEF LinesFit
  <2> QED BY <2>3, <2>8
<1> QED BY <1>7, <1>8, <1>9, <1>10 DEF TelemetryInv

LEMMA RespondInv ==
  ASSUME TelemetryInv, NEW c \in Call, Respond(c)
  PROVE  TelemetryInv'
<1>1. /\ Types /\ InTime(c) /\ call[c].pc = "CALLING" /\ served[c] # NULL
      /\ served[c] \in Serving
  BY DEF TelemetryInv, Types, Respond, Conclude
<1>2. CASE served[c].reply = 200 /\ Conclude(c, "dependency_call_completed", 200, 200)
  <2>1. served[c].mode = "NORMAL"
    <3>1. /\ clock \in Nat /\ call[c].since \in Nat /\ served[c].since \in Nat /\ served[c].mode \in Mode
      BY <1>1 DEF Types, CallState, Serving
    <3>2. /\ clock <= call[c].since + Timeout /\ call[c].since <= served[c].since
          /\ served[c].mode # "ERROR"
          /\ served[c].mode = "LATENCY" => clock >= served[c].since + Sleep
      BY <1>1, <1>2 DEF InTime
    <3>3. Timeout \in Nat /\ Sleep \in Nat /\ Timeout < Sleep
      BY InventoryAssumption
    <3>4. served[c].mode # "LATENCY"
      BY <3>1, <3>2, <3>3
    <3> QED BY <3>1, <3>2, <3>4 DEF Mode
  <2> QED BY <1>1, <1>2, <2>1, ConcludeInv DEF Event, KnownEvents
<1>3. CASE served[c].reply = 500 /\ Conclude(c, "dependency_call_failed", 500, 502)
  <2>1. served[c].mode = "ERROR"
    BY <1>1, <1>3 DEF InTime
  <2> QED BY <1>1, <1>3, <2>1, ConcludeInv DEF Event, KnownEvents
<1> QED BY <1>2, <1>3 DEF Respond

LEMMA GaveUpInv ==
  ASSUME TelemetryInv, NEW c \in Call, TimeOut(c) \/ Unreachable(c)
  PROVE  TelemetryInv'
<1>1. PICK status \in {503, 504} : Conclude(c, "dependency_call_failed", NULL, status)
  BY DEF TimeOut, Unreachable
<1> QED BY <1>1, ConcludeInv DEF Event, KnownEvents

(* What writes no line about a call and answers none.                      *)
LEMMA OtherInv ==
  ASSUME TelemetryInv, UNCHANGED <<call, served, spans>>,
         clock' \in Nat, mode' \in Mode, clock' = clock \/ (clock' = clock + 1 /\ \A c \in Call : ~Due(c)),
         lines' \in Seq(LogLine), Grown,
         \A n \in (Len(lines) + 1)..Len(lines') : lines'[n].call = NULL
  PROVE  TelemetryInv'
<1>0. Types /\ SpansFit /\ \A d \in Call : InTime(d) /\ LinesFit(d)
  BY DEF TelemetryInv
<1>1. Types'
  BY <1>0 DEF Types
<1>2. SpansFit'
  BY <1>0, NoSpanEnded DEF Ended
<1>3. ASSUME NEW c \in Call PROVE InTime(c)'
  <2>1. /\ call[c].since \in Nat /\ clock \in Nat /\ Timeout \in Nat /\ Sleep \in Nat
        /\ served[c] # NULL => served[c].since \in Nat
    BY <1>0, InventoryAssumption DEF Types, CallState, Serving
  <2>2. call[c].pc = "CALLING" => clock' <= call[c].since + Timeout /\ call[c].since <= clock'
    BY <1>0, <2>1 DEF InTime, Due
  <2> QED BY <1>0, <2>1, <2>2 DEF InTime
<1>4. \A c \in Call : LinesFit(c)'
  <2>1. clock \in Nat /\ clock <= clock'
    BY <1>0 DEF Types
  <2> QED BY <1>0, <2>1, StoryGoesOn, InventoryAssumption
<1> QED BY <1>1, <1>2, <1>3, <1>4 DEF TelemetryInv

LEMMA TelemetryInit == Init => TelemetryInv
<1>1. SUFFICES ASSUME Init PROVE TelemetryInv
  OBVIOUS
<1>2. Types
  BY <1>1 DEF Init, InventoryInit, Types, CallState, Mode
<1>3. ASSUME NEW c \in Call PROVE InTime(c) /\ LinesFit(c)
  BY <1>1, InventoryAssumption DEF Init, InventoryInit, InTime, LinesFit, Mine
<1>4. SpansFit
  BY <1>1 DEF Init, InventoryInit, SpansFit
<1> QED BY <1>2, <1>3, <1>4 DEF TelemetryInv

LEMMA TelemetryStep == TelemetryInv /\ [Next]_vars => TelemetryInv'
<1>1. SUFFICES ASSUME TelemetryInv, [Next]_vars PROVE TelemetryInv'
  OBVIOUS
<1>2. Types
  BY <1>1 DEF TelemetryInv
<1>3. CASE \E c \in Call : \/ Receive(c) \/ TakeCall(c) \/ Reply(c)
                           \/ Respond(c) \/ TimeOut(c) \/ Unreachable(c) \/ Answer(c)
  BY <1>1, <1>3, ReceiveInv, TakeCallInv, ReplyInv, RespondInv, GaveUpInv, AnsweredInv
<1>4. CASE UNCHANGED lines /\ UNCHANGED <<call, served, spans>> /\ mode' \in Mode
           /\ (clock' = clock \/ (clock' = clock + 1 /\ \A c \in Call : ~Due(c)))
  <2>1. Grown /\ (Len(lines) + 1)..Len(lines') = {} /\ lines' \in Seq(LogLine) /\ clock' \in Nat
    BY <1>2, <1>4, NothingWritten DEF Types
  <2> QED BY <1>1, <1>4, <2>1, OtherInv
<1>5. ASSUME NEW status \in {500, 999}, Noise(status) PROVE TelemetryInv'
  <2>1. PICK l : l = Line(API, NULL, "unknown", status)
    OBVIOUS
  <2>2. l \in LogLine /\ l.call = NULL
    BY <1>2, <2>1, LineTyped DEF Event, Told
  <2>3. lines' = Append(lines, l)
    BY <1>5, <2>1 DEF Noise
  <2>4. /\ lines' \in Seq(LogLine) /\ Grown
        /\ Len(lines') = Len(lines) + 1 /\ lines'[Len(lines) + 1] = l
    BY <1>2, <2>2, <2>3, LineWritten
  <2>5. \A n \in (Len(lines) + 1)..Len(lines') : lines'[n].call = NULL
    BY <1>2, <2>2, <2>4 DEF Types
  <2>6. UNCHANGED <<call, served, spans>> /\ clock' \in Nat /\ mode' \in Mode /\ clock' = clock
    BY <1>2, <1>5 DEF Noise, Types
  <2> QED BY <1>1, <2>4, <2>5, <2>6, OtherInv
<1>6. CASE \E m \in Mode : SetMode(m)
  BY <1>4, <1>6 DEF SetMode
<1>7. CASE Tick
  BY <1>2, <1>4, <1>7 DEF Tick, Types
<1>8. CASE UNCHANGED vars
  BY <1>2, <1>4, <1>8 DEF vars, inventoryVars, Types
<1> QED BY <1>1, <1>3, <1>5, <1>6, <1>7, <1>8 DEF Next, InventoryNext

(* A call answered in time, its lines and its spans fit together at every  *)
(* moment, whatever the mode is switched to meanwhile.                     *)
THEOREM TelemetryInvariant == Spec => []TelemetryInv
<1> QED BY TelemetryInit, TelemetryStep, PTL DEF Spec

LEMMA AnswersFit == TelemetryInv => AnswerTrue
<1>1. SUFFICES ASSUME TelemetryInv, NEW c \in Call, call[c].pc = "ANSWERED"
               PROVE  /\ call[c].status = 200 => served[c].mode = "NORMAL"
                      /\ call[c].status = 502 => served[c].mode = "ERROR"
                      /\ LET mine == {n \in DOMAIN lines : lines[n].call = c /\ lines[n].service = API}
                             outcome == {n \in mine : lines[n].event \in {"dependency_call_failed",
                                                                          "dependency_call_completed"}}
                             told == {n \in mine : lines[n].event = "request_completed"}
                         IN  /\ Cardinality(outcome) = 1
                             /\ {lines[n].status : n \in told} = {call[c].status}
                             /\ \A n \in outcome :
                                  lines[n].event = "dependency_call_completed" <=> call[c].status = 200
  BY DEF AnswerTrue
<1>2. Types /\ InTime(c) /\ LinesFit(c)
  BY <1>1 DEF TelemetryInv
<1>3. PICK k \in DOMAIN lines, n \in DOMAIN lines, m \in DOMAIN lines : Story(c, k, n, m)
  BY <1>1, <1>2 DEF LinesFit
<1> DEFINE mine == {i \in DOMAIN lines : lines[i].call = c /\ lines[i].service = API}
           outcome == {i \in mine : lines[i].event \in {"dependency_call_failed", "dependency_call_completed"}}
           told == {i \in mine : lines[i].event = "request_completed"}
<1>5. mine = {k, n, m}
  BY <1>3 DEF Story, Mine
<1> HIDE DEF mine
<1>6. outcome = {n} /\ told = {m}
  BY <1>3, <1>5 DEF Story, Concluded, Begun, Outcome
<1>7. Cardinality(outcome) = 1
  BY <1>6, FS_Singleton
<1>8. {lines[i].status : i \in told} = {call[c].status}
  BY <1>3, <1>6 DEF Story
<1>9. \A i \in outcome : lines[i].event = "dependency_call_completed" <=> call[c].status = 200
  BY <1>3, <1>6 DEF Story, Concluded, Outcome
<1> QED BY <1>1, <1>2, <1>7, <1>8, <1>9 DEF InTime, mine

(* What a caller is told is what happened: 200 and 502 tell the mode the   *)
(* dependency was in when it took the call, and the log has one outcome    *)
(* for the call that says the same.                                        *)
THEOREM AnswersAreTrue == Spec => []AnswerTrue
<1> QED BY TelemetryInvariant, AnswersFit, PTL

-----------------------------------------------------------------------------
(* Sequences, of whatever elements.                                        *)

Sequence(s) == s \in Seq(ToSet(s))

LEMMA IsSequence ==
  ASSUME NEW n \in Nat, NEW f, NEW S, f \in [1..n -> S]
  PROVE  /\ Sequence(f) /\ Len(f) = n /\ DOMAIN f = 1..n
         /\ \A x : x \in ToSet(f) <=> \E k \in 1..n : x = f[k]
<1>1. DOMAIN f = 1..n
  OBVIOUS
<1>2. \A x : x \in ToSet(f) <=> \E k \in 1..n : x = f[k]
  BY <1>1 DEF ToSet
<1>3. PICK T : T = ToSet(f)
  OBVIOUS
<1>4. f \in [1..n -> T]
  BY <1>1, <1>2, <1>3
<1>5. f \in Seq(T) /\ Len(f) = n
  BY <1>4
<1> QED BY <1>1, <1>2, <1>3, <1>5 DEF Sequence

LEMMA Positions ==
  ASSUME NEW s, Sequence(s)
  PROVE  /\ Len(s) \in Nat /\ DOMAIN s = 1..Len(s) /\ IsFiniteSet(DOMAIN s)
         /\ Cardinality(DOMAIN s) = Len(s)
         /\ \A n \in DOMAIN s : s[n] \in ToSet(s)
         /\ s \in [1..Len(s) -> ToSet(s)]
<1>1. Len(s) \in Nat /\ DOMAIN s = 1..Len(s) /\ s \in [1..Len(s) -> ToSet(s)]
  BY LenProperties DEF Sequence
<1>2. IsFiniteSet(1..Len(s)) /\ Cardinality(1..Len(s)) = Len(s)
  BY <1>1, FS_Interval
<1> QED BY <1>1, <1>2 DEF ToSet

LEMMA Joined ==
  ASSUME NEW s, NEW t, Sequence(s), Sequence(t)
  PROVE  /\ Sequence(s \o t) /\ Len(s \o t) = Len(s) + Len(t)
         /\ ToSet(s \o t) = ToSet(s) \cup ToSet(t)
<1> DEFINE S == ToSet(s) \cup ToSet(t)
           u == s \o t
<1>1. s \in Seq(S) /\ t \in Seq(S)
  <2>1. ToSet(s) \subseteq S /\ ToSet(t) \subseteq S
    OBVIOUS
  <2> QED BY <2>1, SeqMonotonic DEF Sequence
<1> HIDE DEF S
<1>2. /\ u \in Seq(S) /\ Len(u) = Len(s) + Len(t)
      /\ \A i \in 1..(Len(s) + Len(t)) : u[i] = IF i <= Len(s) THEN s[i] ELSE t[i - Len(s)]
  BY <1>1, ConcatProperties
<1>3. Len(s) \in Nat /\ Len(t) \in Nat /\ DOMAIN s = 1..Len(s) /\ DOMAIN t = 1..Len(t)
  BY Positions
<1> HIDE DEF u
<1>4. u \in [1..(Len(s) + Len(t)) -> S]
  BY <1>2, <1>3
<1>5. Sequence(u)
  <2>1. Len(s) + Len(t) \in Nat
    BY <1>3
  <2> QED BY <2>1, <1>4, IsSequence
<1>6. ToSet(u) \subseteq ToSet(s) \cup ToSet(t)
  <2>1. ASSUME NEW i \in 1..(Len(s) + Len(t)) PROVE u[i] \in ToSet(s) \cup ToSet(t)
    <3>1. CASE i <= Len(s)
      BY <1>2, <1>3, <3>1 DEF ToSet
    <3>2. CASE i > Len(s)
      <4>1. i - Len(s) \in 1..Len(t) /\ u[i] = t[i - Len(s)]
        BY <1>2, <1>3, <3>2
      <4> QED BY <1>3, <4>1 DEF ToSet
    <3> QED BY <1>3, <3>1, <3>2
  <2> QED BY <1>4, <2>1 DEF ToSet
<1>7. ToSet(s) \subseteq ToSet(u)
  BY <1>2, <1>3, <1>4 DEF ToSet
<1>8. ToSet(t) \subseteq ToSet(u)
  <2>1. ASSUME NEW j \in 1..Len(t) PROVE t[j] \in ToSet(u)
    <3>1. j + Len(s) \in 1..(Len(s) + Len(t)) /\ u[j + Len(s)] = t[j]
      BY <1>2, <1>3
    <3> QED BY <1>4, <3>1 DEF ToSet
  <2> QED BY <1>3, <2>1 DEF ToSet
<1> QED BY <1>2, <1>5, <1>6, <1>7, <1>8 DEF u

LEMMA Reversed ==
  ASSUME NEW s, Sequence(s)
  PROVE  /\ Sequence(Reverse(s)) /\ Len(Reverse(s)) = Len(s)
         /\ ToSet(Reverse(s)) = ToSet(s)
<1> DEFINE u == Reverse(s)
           n == Len(s)
<1>1. n \in Nat /\ DOMAIN s = 1..n /\ \A i \in 1..n : s[i] \in ToSet(s)
  BY Positions
<1>2. \A i \in 1..n : (n - i) + 1 \in 1..n /\ n - ((n - i) + 1) + 1 = i
  BY <1>1
<1>3. u \in [1..n -> ToSet(s)] /\ \A i \in 1..n : u[i] = s[(n - i) + 1]
  BY <1>1, <1>2 DEF Reverse
<1> HIDE DEF u, n
<1>4. ToSet(s) \subseteq ToSet(u)
  <2>1. ASSUME NEW i \in 1..n PROVE s[i] \in ToSet(u)
    <3>1. (n - i) + 1 \in 1..n /\ u[(n - i) + 1] = s[i]
      BY <1>2, <1>3
    <3> QED BY <1>3, <3>1 DEF ToSet
  <2> QED BY <1>1, <2>1 DEF ToSet
<1>5. ToSet(u) \subseteq ToSet(s)
  BY <1>3 DEF ToSet
<1> QED BY <1>1, <1>3, <1>4, <1>5, IsSequence DEF u, n

LEMMA CutFacts ==
  ASSUME NEW s, Sequence(s)
  PROVE  /\ Sequence(Cut(s)) /\ Len(Cut(s)) <= MaxPerSignal
         /\ ToSet(Cut(s)) \subseteq ToSet(s)
         /\ Len(s) <= MaxPerSignal => Cut(s) = s
         /\ \A n \in 1..Len(s) : n <= MaxPerSignal => s[n] \in ToSet(Cut(s))
<1> DEFINE u == Cut(s)
           m == IF Len(s) < MaxPerSignal THEN Len(s) ELSE MaxPerSignal
<1>1. /\ Len(s) \in Nat /\ DOMAIN s = 1..Len(s) /\ \A i \in 1..Len(s) : s[i] \in ToSet(s)
      /\ s \in Seq(ToSet(s)) /\ MaxPerSignal \in Nat
  BY Positions, CaptureAssumption DEF Sequence
<1>2. m \in Nat /\ m <= Len(s) /\ m <= MaxPerSignal
  BY <1>1
<1>3. u \in [1..m -> ToSet(s)] /\ \A i \in 1..m : u[i] = s[i]
  <2>1. PICK k \in Nat : k = m /\ k <= Len(s)
    BY <1>2
  <2>2. \A i \in 1..k : s[i] \in ToSet(s)
    <3>1. Len(s) \in Nat /\ k <= Len(s) /\ \A i \in 1..Len(s) : s[i] \in ToSet(s)
      BY <1>1, <2>1
    <3> QED BY <3>1
  <2>3. /\ SubSeq(s, 1, k) \in Seq(ToSet(s)) /\ Len(SubSeq(s, 1, k)) = IF 1 <= k THEN k - 1 + 1 ELSE 0
        /\ \A i \in 1..(k - 1 + 1) : SubSeq(s, 1, k)[i] = s[1 + i - 1]
    BY <2>2, SubSeqProperties
  <2>4. Len(SubSeq(s, 1, k)) = k /\ \A i \in 1..k : SubSeq(s, 1, k)[i] = s[i]
    BY <2>3
  <2>5. SubSeq(s, 1, k) \in [1..k -> ToSet(s)]
    BY <2>3, <2>4, LenProperties
  <2> QED BY <2>1, <2>4, <2>5 DEF Cut
<1>4. Len(s) <= MaxPerSignal => u = s
  <2>1. Len(s) <= MaxPerSignal => m = Len(s)
    <3>1. Len(s) \in Nat /\ MaxPerSignal \in Nat
      BY <1>1
    <3> QED BY <3>1
  <2> QED BY <1>1, <2>1, SubSeqFull DEF Cut
<1>5. \A n \in 1..Len(s) : n <= MaxPerSignal => n \in 1..m
  BY <1>1
<1> HIDE DEF u, m
<1>6. Sequence(u) /\ Len(u) = m /\ \A i \in 1..m : u[i] \in ToSet(u)
  BY <1>2, <1>3, IsSequence
<1>7. ToSet(u) \subseteq ToSet(s)
  BY <1>3 DEF ToSet
<1>8. \A n \in 1..Len(s) : n <= MaxPerSignal => s[n] \in ToSet(u)
  BY <1>3, <1>5, <1>6
<1> QED BY <1>2, <1>4, <1>6, <1>7, <1>8 DEF u

(* Where i is before j when it is in ahead[j], the elements have the ranks *)
(* 0 to one less than their number: each rank is somebody's.               *)
LEMMA Ranked ==
  ASSUME NEW K, IsFiniteSet(K), NEW ahead \in [K -> SUBSET K],
         \A i \in K : i \notin ahead[i],
         \A i, j \in K : i \in ahead[j] => ahead[i] \subseteq ahead[j],
         \A i, j \in K : i = j \/ i \in ahead[j] \/ j \in ahead[i]
  PROVE  /\ \A k \in K : Cardinality(ahead[k]) + 1 \in 1..Cardinality(K)
         /\ \A n \in 1..Cardinality(K) : \E k \in K : Cardinality(ahead[k]) = n - 1
         /\ \A i, j \in K : Cardinality(ahead[i]) = Cardinality(ahead[j]) => i = j
<1> DEFINE rank == [k \in K |-> Cardinality(ahead[k]) + 1]
           N == Cardinality(K)
<1>1. N \in Nat
  BY FS_CardinalityType
<1>2. \A k \in K : IsFiniteSet(ahead[k]) /\ Cardinality(ahead[k]) \in Nat
  <2>1. \A k \in K : ahead[k] \in SUBSET K
    OBVIOUS
  <2>2. ASSUME NEW k \in K PROVE IsFiniteSet(ahead[k])
    BY <2>1, FS_Subset
  <2> QED BY <2>2, FS_CardinalityType
<1>3. ASSUME NEW k \in K PROVE Cardinality(ahead[k]) < N
  <2>1. ahead[k] \in SUBSET K /\ ahead[k] # K
    OBVIOUS
  <2>2. Cardinality(ahead[k]) <= N /\ (N = Cardinality(ahead[k]) => K = ahead[k])
    BY <2>1, FS_Subset
  <2> QED BY <1>1, <1>2, <2>1, <2>2
<1>4. ASSUME NEW i \in K, NEW j \in K, i \in ahead[j]
      PROVE  Cardinality(ahead[i]) # Cardinality(ahead[j])
  <2>1. ahead[i] \in SUBSET ahead[j] /\ ahead[i] # ahead[j]
    BY <1>4
  <2> QED BY <1>2, <2>1, FS_Subset
<1>5. \A i, j \in K : Cardinality(ahead[i]) = Cardinality(ahead[j]) => i = j
  BY <1>4
<1>6. rank \in [K -> 1..N]
  BY <1>1, <1>2, <1>3
<1>7. \A i, j \in K : rank[i] = rank[j] => i = j
  BY <1>2, <1>5
<1> HIDE DEF N, rank
<1>8. rank \in Injection(K, 1..N)
  BY <1>6, <1>7, Fun_IsInj
<1>9. IsFiniteSet(1..N) /\ Cardinality(1..N) = N
  BY <1>1, FS_Interval
<1>10. rank \in Surjection(K, 1..N)
  BY <1>8, <1>9, FS_Injection DEF N
<1>11. \A n \in 1..N : \E k \in K : rank[k] = n
  BY <1>10 DEF Surjection
<1>12. \A n \in 1..N : \E k \in K : Cardinality(ahead[k]) = n - 1
  BY <1>1, <1>2, <1>11 DEF rank
<1> QED BY <1>1, <1>2, <1>3, <1>5, <1>12 DEF N

LEMMA KeptFacts ==
  ASSUME NEW s, Sequence(s), NEW K \in SUBSET DOMAIN s
  PROVE  /\ Sequence(Kept(s, K)) /\ Len(Kept(s, K)) = Cardinality(K)
         /\ Cardinality(K) \in Nat /\ Cardinality(K) <= Len(s)
         /\ ToSet(Kept(s, K)) = {s[k] : k \in K}
<1> DEFINE N == Cardinality(K)
           u == Kept(s, K)
           ahead == [k \in K |-> K \cap (1..(k - 1))]
<1>1. /\ Len(s) \in Nat /\ DOMAIN s = 1..Len(s)
      /\ IsFiniteSet(K) /\ N \in Nat /\ N <= Len(s) /\ K \subseteq Nat
  <2>1. /\ Len(s) \in Nat /\ DOMAIN s = 1..Len(s) /\ IsFiniteSet(DOMAIN s)
        /\ Cardinality(DOMAIN s) = Len(s)
    BY Positions
  <2>2. IsFiniteSet(K) /\ N <= Len(s)
    BY <2>1, FS_Subset
  <2>3. N \in Nat
    BY <2>2, FS_CardinalityType
  <2>4. K \subseteq Nat
    BY <2>1
  <2> QED BY <2>1, <2>2, <2>3, <2>4
<1>2. /\ \A n \in 1..N : \E k \in K : Cardinality(ahead[k]) = n - 1
      /\ \A k \in K : Cardinality(ahead[k]) + 1 \in 1..N
      /\ \A i, j \in K : Cardinality(ahead[i]) = Cardinality(ahead[j]) => i = j
  <2>1. ahead \in [K -> SUBSET K]
    OBVIOUS
  <2>2. \A i \in K : i \notin ahead[i]
    BY <1>1
  <2>3. \A i, j \in K : i \in ahead[j] => ahead[i] \subseteq ahead[j]
    BY <1>1
  <2>4. \A i, j \in K : i = j \/ i \in ahead[j] \/ j \in ahead[i]
    <3>1. SUFFICES ASSUME NEW i \in K, NEW j \in K PROVE i = j \/ i \in ahead[j] \/ j \in ahead[i]
      OBVIOUS
    <3>2. i \in Nat /\ j \in Nat /\ 1 <= i /\ 1 <= j
      BY <1>1
    <3>3. i = j \/ i \in 1..(j - 1) \/ j \in 1..(i - 1)
      BY <3>2
    <3> QED BY <3>3
  <2> HIDE DEF ahead
  <2> QED BY <1>1, <2>1, <2>2, <2>3, <2>4, Ranked
<1>3. \A n \in 1..N : Nth(K, n) \in K /\ Cardinality(ahead[Nth(K, n)]) = n - 1
  BY <1>2 DEF Nth
<1>4. \A k \in K : \E n \in 1..N : Nth(K, n) = k
  <2>1. SUFFICES ASSUME NEW k \in K PROVE \E n \in 1..N : Nth(K, n) = k
    OBVIOUS
  <2>2. PICK n \in 1..N : n = Cardinality(ahead[k]) + 1
    BY <1>2
  <2>3. Cardinality(ahead[k]) \in Nat /\ n \in Nat
    <3>1. ahead[k] \in SUBSET K
      OBVIOUS
    <3>2. IsFiniteSet(ahead[k])
      BY <1>1, <3>1, FS_Subset
    <3> QED BY <1>1, <3>2, FS_CardinalityType
  <2>4. Nth(K, n) \in K /\ Cardinality(ahead[Nth(K, n)]) = n - 1
    BY <1>3
  <2> HIDE DEF ahead
  <2>5. Cardinality(ahead[Nth(K, n)]) = Cardinality(ahead[k])
    BY <2>2, <2>3, <2>4
  <2> QED BY <1>2, <2>4, <2>5
<1>5. DOMAIN u = 1..N /\ \A n \in 1..N : u[n] = s[Nth(K, n)]
  BY DEF Kept
<1>6. u = [n \in 1..N |-> u[n]]
  BY DEF Kept
<1> HIDE DEF N, u, ahead
<1>7. u \in [1..N -> ToSet(u)]
  BY <1>5, <1>6 DEF ToSet
<1>8. Sequence(u) /\ Len(u) = N
  BY <1>1, <1>7, IsSequence
<1>9. ToSet(u) \subseteq {s[k] : k \in K}
  BY <1>3, <1>5 DEF ToSet
<1>10. {s[k] : k \in K} \subseteq ToSet(u)
  <2>1. ASSUME NEW k \in K PROVE s[k] \in ToSet(u)
    <3>1. PICK n \in 1..N : Nth(K, n) = k
      BY <1>4
    <3> QED BY <1>5, <3>1 DEF ToSet
  <2> QED BY <2>1
<1> QED BY <1>1, <1>8, <1>9, <1>10 DEF u, N

LEMMA FirstKept ==
  ASSUME NEW s, Sequence(s), NEW K \in SUBSET DOMAIN s, 1 \in K
  PROVE  1 <= Cardinality(K) /\ Kept(s, K)[1] = s[1]
<1>1. K \subseteq Nat /\ IsFiniteSet(K) /\ Cardinality(K) \in Nat
  <2>1. Len(s) \in Nat /\ DOMAIN s = 1..Len(s) /\ IsFiniteSet(DOMAIN s)
    BY Positions
  <2>2. IsFiniteSet(K)
    BY <2>1, FS_Subset
  <2> QED BY <2>1, <2>2, FS_CardinalityType
<1>2. Cardinality(K) # 0
  BY <1>1, FS_EmptySet
<1>3. \A k \in K : Cardinality(K \cap (1..(k - 1))) = 0 <=> k = 1
  <2>1. SUFFICES ASSUME NEW k \in K PROVE Cardinality(K \cap (1..(k - 1))) = 0 <=> k = 1
    OBVIOUS
  <2>2. IsFiniteSet(K \cap (1..(k - 1)))
    BY <1>1, FS_Subset
  <2>3. K \cap (1..(k - 1)) = {} <=> k = 1
    <3>1. k \in Nat /\ k \in DOMAIN s /\ k >= 1
      <4>1. Len(s) \in Nat /\ DOMAIN s = 1..Len(s)
        BY Positions
      <4> QED BY <4>1
    <3>2. CASE k = 1
      BY <3>2
    <3>3. CASE k # 1
      BY <3>1, <3>3
    <3> QED BY <3>2, <3>3
  <2> QED BY <2>2, <2>3, FS_EmptySet
<1>4. Nth(K, 1) = 1
  <2>1. \A k \in K : Cardinality(K \cap (1..(k - 1))) = 1 - 1 <=> k = 1
    BY <1>3
  <2>2. \E k \in K : Cardinality(K \cap (1..(k - 1))) = 1 - 1
    BY <2>1
  <2>3. Nth(K, 1) \in K /\ Cardinality(K \cap (1..(Nth(K, 1) - 1))) = 1 - 1
    BY <2>2 DEF Nth
  <2> QED BY <2>1, <2>3
<1>5. 1 \in 1..Cardinality(K)
  BY <1>1, <1>2
<1> QED BY <1>4, <1>5 DEF Kept

(* Sorting keeps the rows, and puts each at one more than the number of    *)
(* rows ahead of it.                                                       *)
LEMMA NewestFacts ==
  ASSUME NEW rows, Sequence(rows), \A k \in DOMAIN rows : rows[k].at \in Nat
  PROVE  /\ Sequence(Newest(rows)) /\ Len(Newest(rows)) = Len(rows)
         /\ ToSet(Newest(rows)) = ToSet(rows)
         /\ \A k \in DOMAIN rows : /\ Cardinality(Ahead(rows, k)) + 1 \in 1..Len(rows)
                                   /\ Newest(rows)[Cardinality(Ahead(rows, k)) + 1] = rows[k]
<1> DEFINE K == DOMAIN rows
           N == Len(rows)
           ahead == [k \in K |-> Ahead(rows, k)]
           u == Newest(rows)
           pos(n) == CHOOSE k \in K : Cardinality(ahead[k]) = n - 1
<1>1. N \in Nat /\ K = 1..N /\ IsFiniteSet(K) /\ Cardinality(K) = N
  BY Positions
<1>2. /\ \A n \in 1..N : \E k \in K : Cardinality(ahead[k]) = n - 1
      /\ \A k \in K : Cardinality(ahead[k]) + 1 \in 1..N
      /\ \A i, j \in K : Cardinality(ahead[i]) = Cardinality(ahead[j]) => i = j
  <2>0. \A k \in K : k \in Nat
    BY <1>1
  <2>1. ahead \in [K -> SUBSET K]
    BY DEF Ahead
  <2>2. \A i \in K : i \notin ahead[i]
    BY <2>0 DEF Ahead
  <2>3. \A i, j \in K : i \in ahead[j] => ahead[i] \subseteq ahead[j]
    <3>1. SUFFICES ASSUME NEW i \in K, NEW j \in K, i \in Ahead(rows, j), NEW m \in Ahead(rows, i)
                   PROVE  m \in Ahead(rows, j)
      BY DEF Ahead
    <3>2. m \in K /\ m \in Nat /\ i \in Nat /\ j \in Nat
      BY <2>0, <3>1 DEF Ahead
    <3>3. rows[m].at \in Nat /\ rows[i].at \in Nat /\ rows[j].at \in Nat
      BY <3>2
    <3>4. /\ rows[i].at > rows[j].at \/ (rows[i].at = rows[j].at /\ i < j)
          /\ rows[m].at > rows[i].at \/ (rows[m].at = rows[i].at /\ m < i)
      BY <3>1 DEF Ahead
    <3>5. rows[m].at > rows[j].at \/ (rows[m].at = rows[j].at /\ m < j)
      BY <3>2, <3>3, <3>4
    <3> QED BY <3>2, <3>5 DEF Ahead
  <2>4. \A i, j \in K : i = j \/ i \in ahead[j] \/ j \in ahead[i]
    BY <2>0 DEF Ahead
  <2> HIDE DEF ahead, K
  <2>5. /\ \A n \in 1..Cardinality(K) : \E k \in K : Cardinality(ahead[k]) = n - 1
        /\ \A k \in K : Cardinality(ahead[k]) + 1 \in 1..Cardinality(K)
        /\ \A i, j \in K : Cardinality(ahead[i]) = Cardinality(ahead[j]) => i = j
    <3>1. IsFiniteSet(K)
      BY <1>1
    <3> QED BY <3>1, <2>1, <2>2, <2>3, <2>4, Ranked
  <2> QED BY <1>1, <2>5
<1>3. \A n \in 1..N : u[n] = rows[pos(n)]
  BY <1>1 DEF Newest
<1>4. DOMAIN u = 1..N /\ u = [n \in 1..N |-> u[n]]
  BY <1>1 DEF Newest
<1>5. \A n \in 1..N : pos(n) \in K /\ Cardinality(ahead[pos(n)]) = n - 1
  <2> HIDE DEF ahead, K
  <2> QED BY <1>2
<1>6. ASSUME NEW k \in K
      PROVE  /\ Cardinality(ahead[k]) + 1 \in 1..N
             /\ u[Cardinality(ahead[k]) + 1] = rows[k]
  <2>1. PICK n \in 1..N : n = Cardinality(ahead[k]) + 1
    BY <1>2
  <2>2. Cardinality(ahead[k]) \in Nat /\ n \in Nat
    <3>1. ahead[k] \in SUBSET K
      BY DEF Ahead
    <3>2. IsFiniteSet(ahead[k])
      BY <1>1, <3>1, FS_Subset
    <3> QED BY <1>1, <3>2, FS_CardinalityType
  <2>3. pos(n) \in K /\ Cardinality(ahead[pos(n)]) = n - 1
    BY <1>5
  <2> HIDE DEF ahead, K, pos
  <2>4. Cardinality(ahead[pos(n)]) = Cardinality(ahead[k])
    BY <2>1, <2>2, <2>3
  <2>5. pos(n) = k
    BY <1>2, <2>3, <2>4
  <2> QED BY <1>3, <2>1, <2>5
<1> HIDE DEF u, pos
<1>7. u \in [1..N -> ToSet(u)]
  BY <1>4 DEF ToSet
<1>8. Sequence(u) /\ Len(u) = N
  BY <1>1, <1>7, IsSequence
<1>9. ToSet(u) \subseteq ToSet(rows)
  <2>1. \A n \in 1..N : u[n] \in ToSet(rows)
    BY <1>3, <1>5 DEF ToSet
  <2> QED BY <1>4, <2>1 DEF ToSet
<1>10. ToSet(rows) \subseteq ToSet(u)
  <2>1. ASSUME NEW k \in K PROVE rows[k] \in ToSet(u)
    <3>1. PICK n \in 1..N : u[n] = rows[k]
      BY <1>6
    <3> QED BY <1>4, <3>1 DEF ToSet
  <2> QED BY <2>1 DEF ToSet
<1> QED BY <1>1, <1>6, <1>8, <1>9, <1>10 DEF u

-----------------------------------------------------------------------------
(* What the backends answer                                                *)

LEMMA WindowFacts ==
  ASSUME Types, NEW q \in Windows
  PROVE  /\ q.service = API /\ q.order \in BOOLEAN /\ q.twice \in BOOLEAN /\ q.fine \in BOOLEAN
         /\ q.start \in Nat /\ q.end \in Nat /\ q.start < q.end
         /\ q.loki \in 0..Len(lines) /\ q.prometheus \in 0..Len(lines) /\ q.jaeger \in 0..Len(spans)
         /\ Wanted(q) \subseteq DOMAIN lines /\ Traced(q) \subseteq DOMAIN spans
         /\ q.twice => q.loki \in Wanted(q)
<1>1. q \in Queries /\ q.start < q.end /\ (q.twice => q.loki \in Wanted(q))
  BY DEF Windows
<1>2. /\ q.service = API /\ q.order \in BOOLEAN /\ q.twice \in BOOLEAN /\ q.fine \in BOOLEAN
      /\ q.start \in 0..MaxTime /\ q.end \in 1..MaxTime
      /\ q.loki \in 0..Len(lines) /\ q.prometheus \in {0, Len(lines)} /\ q.jaeger \in {0, Len(spans)}
  BY <1>1 DEF Queries
<1>3. Len(lines) \in Nat /\ DOMAIN lines = 1..Len(lines) /\ Len(spans) \in Nat /\ DOMAIN spans = 1..Len(spans)
  BY DEF Types
<1>4. MaxTime \in Nat
  BY InventoryAssumption
<1>5. q.prometheus \in 0..Len(lines) /\ q.jaeger \in 0..Len(spans) /\ q.start \in Nat /\ q.end \in Nat
  BY <1>2, <1>3, <1>4
<1>6. Wanted(q) \subseteq DOMAIN lines
  BY <1>2, <1>3 DEF Wanted
<1>7. Traced(q) \subseteq DOMAIN spans
  BY <1>5, <1>3 DEF Traced
<1> QED BY <1>1, <1>2, <1>5, <1>6, <1>7

LEMMA LineFacts ==
  ASSUME Types
  PROVE  /\ Sequence(lines) /\ Sequence(spans)
         /\ \A n \in DOMAIN lines : lines[n] \in LogLine /\ lines[n].at \in Nat
         /\ \A n \in DOMAIN spans : spans[n] \in TraceSpan /\ spans[n].call \in Call
<1>1. lines \in Seq(LogLine) /\ spans \in Seq(TraceSpan)
  BY DEF Types
<1>2. Len(lines) \in Nat /\ lines \in [1..Len(lines) -> LogLine]
  BY <1>1, LenProperties
<1>3. Len(spans) \in Nat /\ spans \in [1..Len(spans) -> TraceSpan]
  BY <1>1, LenProperties
<1>4. \A n \in DOMAIN lines : lines[n] \in LogLine
  BY <1>2
<1>5. \A n \in DOMAIN lines : lines[n].at \in Nat
  BY <1>4 DEF LogLine
<1> QED BY <1>2, <1>3, <1>4, <1>5, IsSequence, SpanCalls

Failures(q) == {n \in Wanted(q) : lines[n].event = "dependency_call_failed"}

LEMMA LogRowsFacts ==
  ASSUME Types, NEW q \in Windows
  PROVE  /\ Sequence(LogRows(q)) /\ ToSet(LogRows(q)) = {lines[n] : n \in Wanted(q)}
         /\ Len(LogRows(q)) = Cardinality(Failures(q)) + Cardinality(Wanted(q) \ Failures(q))
                                + (IF q.twice THEN 1 ELSE 0)
         /\ Cardinality(Failures(q)) + Cardinality(Wanted(q) \ Failures(q)) \in Nat
<1> DEFINE F == Failures(q)
           G == Wanted(q) \ Failures(q)
           a == Reverse(Kept(lines, F))
           b == Reverse(Kept(lines, G))
           again == IF q.twice THEN << lines[q.loki] >> ELSE <<>>
<1>0. /\ Wanted(q) \subseteq DOMAIN lines
      /\ q.twice => q.loki \in Wanted(q)
      /\ Sequence(lines) /\ q.twice \in BOOLEAN /\ q.order \in BOOLEAN
  BY WindowFacts, LineFacts
<1>1. F \in SUBSET DOMAIN lines /\ G \in SUBSET DOMAIN lines /\ F \cup G = Wanted(q)
  <2>1. Wanted(q) \subseteq DOMAIN lines
    BY <1>0
  <2>2. F \subseteq Wanted(q)
    BY DEF Failures
  <2> HIDE DEF F
  <2>3. G = Wanted(q) \ F
    BY DEF F
  <2> QED BY <2>1, <2>2, <2>3
<1> HIDE DEF F, G
<1>2. /\ Sequence(a) /\ Len(a) = Cardinality(F) /\ Cardinality(F) \in Nat
      /\ ToSet(a) = {lines[n] : n \in F}
  BY <1>0, <1>1, KeptFacts, Reversed
<1>3. /\ Sequence(b) /\ Len(b) = Cardinality(G) /\ Cardinality(G) \in Nat
      /\ ToSet(b) = {lines[n] : n \in G}
  BY <1>0, <1>1, KeptFacts, Reversed
<1> HIDE DEF a, b
<1>4. /\ Sequence(Swap(q, a, b)) /\ Len(Swap(q, a, b)) = Len(a) + Len(b)
      /\ ToSet(Swap(q, a, b)) = ToSet(a) \cup ToSet(b)
  <2>1. Sequence(a \o b) /\ Len(a \o b) = Len(a) + Len(b) /\ ToSet(a \o b) = ToSet(a) \cup ToSet(b)
    BY <1>2, <1>3, Joined
  <2>2. Sequence(b \o a) /\ Len(b \o a) = Len(b) + Len(a) /\ ToSet(b \o a) = ToSet(b) \cup ToSet(a)
    BY <1>2, <1>3, Joined
  <2>3. Len(a) + Len(b) = Len(b) + Len(a)
    BY <1>2, <1>3
  <2> QED BY <2>1, <2>2, <2>3 DEF Swap
<1>5. ToSet(Swap(q, a, b)) = {lines[n] : n \in Wanted(q)}
  BY <1>1, <1>2, <1>3, <1>4
<1>6. /\ Sequence(again) /\ Len(again) = (IF q.twice THEN 1 ELSE 0)
      /\ ToSet(again) \subseteq {lines[n] : n \in Wanted(q)}
  <2>1. CASE q.twice
    <3>1. again \in [1..1 -> {lines[q.loki]}] /\ q.loki \in Wanted(q)
      BY <1>0, <2>1
    <3> HIDE DEF again
    <3>2. Sequence(again) /\ Len(again) = 1 /\ \A x : x \in ToSet(again) <=> \E k \in 1..1 : x = again[k]
      BY <3>1, IsSequence
    <3>3. ToSet(again) \subseteq {lines[n] : n \in Wanted(q)}
      BY <3>1, <3>2
    <3> QED BY <2>1, <3>2, <3>3
  <2>2. CASE ~q.twice
    <3>1. again = <<>> /\ DOMAIN again = {}
      BY <2>2
    <3> HIDE DEF again
    <3> QED BY <2>2, <3>1 DEF Sequence, ToSet
  <2> QED BY <2>1, <2>2
<1> HIDE DEF again
<1>7. LogRows(q) = Swap(q, a, b) \o again
  BY DEF LogRows, Failures, F, G, a, b, again
<1>8. /\ Sequence(LogRows(q)) /\ Len(LogRows(q)) = Len(Swap(q, a, b)) + Len(again)
      /\ ToSet(LogRows(q)) = ToSet(Swap(q, a, b)) \cup ToSet(again)
  BY <1>4, <1>6, <1>7, Joined
<1>9. ToSet(LogRows(q)) = {lines[n] : n \in Wanted(q)}
  BY <1>5, <1>6, <1>8
<1>10. Len(LogRows(q)) = Cardinality(F) + Cardinality(G) + (IF q.twice THEN 1 ELSE 0)
  BY <1>2, <1>3, <1>4, <1>6, <1>8
<1> QED BY <1>2, <1>3, <1>8, <1>9, <1>10 DEF F, G

LEMMA LogsFacts ==
  ASSUME Types, NEW q \in Windows
  PROVE  /\ Sequence(QueryLogs(q)) /\ Len(QueryLogs(q)) <= MaxPerSignal
         /\ ToSet(QueryLogs(q)) \subseteq {lines[n] : n \in Wanted(q)}
         /\ Len(LogRows(q)) <= MaxPerSignal => ToSet(QueryLogs(q)) = {lines[n] : n \in Wanted(q)}
         /\ \A k \in DOMAIN LogRows(q) :
              Cardinality(Ahead(LogRows(q), k)) < MaxPerSignal => LogRows(q)[k] \in ToSet(QueryLogs(q))
<1> DEFINE rows == LogRows(q)
<1>1. Sequence(rows) /\ ToSet(rows) = {lines[n] : n \in Wanted(q)}
  BY LogRowsFacts
<1>2. \A k \in DOMAIN rows : rows[k].at \in Nat
  <2>1. \A n \in Wanted(q) : lines[n].at \in Nat
    BY WindowFacts, LineFacts
  <2>2. \A k \in DOMAIN rows : rows[k] \in ToSet(rows)
    BY <1>1, Positions
  <2> QED BY <1>1, <2>1, <2>2
<1> HIDE DEF rows
<1>3. /\ Sequence(Newest(rows)) /\ Len(Newest(rows)) = Len(rows)
      /\ ToSet(Newest(rows)) = ToSet(rows)
      /\ \A k \in DOMAIN rows : /\ Cardinality(Ahead(rows, k)) + 1 \in 1..Len(rows)
                                /\ Newest(rows)[Cardinality(Ahead(rows, k)) + 1] = rows[k]
  BY <1>1, <1>2, NewestFacts
<1>4. QueryLogs(q) = Cut(Newest(rows))
  BY DEF QueryLogs, rows
<1>5. /\ Sequence(QueryLogs(q)) /\ Len(QueryLogs(q)) <= MaxPerSignal
      /\ ToSet(QueryLogs(q)) \subseteq ToSet(rows)
      /\ Len(rows) <= MaxPerSignal => ToSet(QueryLogs(q)) = ToSet(rows)
      /\ \A n \in 1..Len(rows) : n <= MaxPerSignal => Newest(rows)[n] \in ToSet(QueryLogs(q))
  BY <1>3, <1>4, CutFacts
<1>6. ASSUME NEW k \in DOMAIN rows, Cardinality(Ahead(rows, k)) < MaxPerSignal
      PROVE  rows[k] \in ToSet(QueryLogs(q))
  <2>1. PICK n \in 1..Len(rows) : n = Cardinality(Ahead(rows, k)) + 1 /\ Newest(rows)[n] = rows[k]
    BY <1>3
  <2>2. IsFiniteSet(Ahead(rows, k)) /\ Cardinality(Ahead(rows, k)) \in Nat
    <3>1. IsFiniteSet(DOMAIN rows) /\ Ahead(rows, k) \in SUBSET DOMAIN rows
      BY <1>1, Positions DEF Ahead
    <3> QED BY <3>1, FS_Subset, FS_CardinalityType
  <2>3. n <= MaxPerSignal
    BY <1>6, <2>1, <2>2, CaptureAssumption
  <2> QED BY <1>5, <2>1, <2>3
<1> QED BY <1>1, <1>5, <1>6 DEF rows

LEMMA MetricsFacts ==
  ASSUME Types, NEW q \in Windows, NEW metric
  PROVE  /\ Sequence(QueryMetrics(q, metric)) /\ Len(QueryMetrics(q, metric)) <= MaxPerSignal
         /\ \A r \in ToSet(QueryMetrics(q, metric)) :
              \E t \in q.start..q.end :
                /\ r = [metric |-> metric, at |-> t, value |-> Counted(q, metric, t)]
                /\ Counted(q, metric, t) > 0
         /\ Counted(q, metric, q.start) > 0 => \E r \in ToSet(QueryMetrics(q, metric)) : r.at = q.start
<1> DEFINE n == q.end - q.start + 1
           times == [k \in 1..n |-> q.start + k - 1]
           K == {k \in DOMAIN times : Counted(q, metric, times[k]) > 0}
           steps == Kept(times, K)
           samples == [k \in DOMAIN steps |->
                         [metric |-> metric, at |-> steps[k], value |-> Counted(q, metric, steps[k])]]
<1>1. n \in Nat /\ 1 <= n /\ q.start \in Nat /\ q.end \in Nat
  BY WindowFacts
<1>2. times \in [1..n -> q.start..q.end] /\ DOMAIN times = 1..n
  BY <1>1
<1>3. Sequence(times) /\ K \in SUBSET DOMAIN times
  BY <1>1, <1>2, IsSequence
<1>4. Sequence(steps) /\ ToSet(steps) = {times[k] : k \in K}
  <2> HIDE DEF times, K
  <2> QED BY <1>3, KeptFacts
<1>5. \A t \in ToSet(steps) : t \in q.start..q.end /\ Counted(q, metric, t) > 0
  <2>1. \A k \in K : times[k] \in q.start..q.end /\ Counted(q, metric, times[k]) > 0
    BY <1>1
  <2> HIDE DEF times, K, steps
  <2> QED BY <1>4, <2>1
<1>5a. Counted(q, metric, q.start) > 0 => 1 <= Len(steps) /\ steps[1] = q.start
  <2>1. SUFFICES ASSUME Counted(q, metric, q.start) > 0 PROVE 1 <= Len(steps) /\ steps[1] = q.start
    OBVIOUS
  <2>2. 1 \in 1..n
    BY <1>1
  <2>3. times[1] = q.start + 1 - 1 /\ q.start + 1 - 1 = q.start
    BY <1>1, <2>2
  <2>4. 1 \in K /\ times[1] = q.start
    BY <1>2, <2>1, <2>2, <2>3
  <2> HIDE DEF times, K
  <2>5. 1 <= Cardinality(K) /\ Kept(times, K)[1] = times[1] /\ Len(Kept(times, K)) = Cardinality(K)
    BY <1>3, <2>4, FirstKept, KeptFacts
  <2> QED BY <2>4, <2>5
<1>6. Len(steps) \in Nat /\ DOMAIN steps = 1..Len(steps) /\ \A k \in DOMAIN steps : steps[k] \in ToSet(steps)
  <2> HIDE DEF steps
  <2> QED BY <1>4, Positions
<1> HIDE DEF steps
<1>7. Sequence(samples) /\ \A x : x \in ToSet(samples) <=> \E k \in 1..Len(steps) : x = samples[k]
  <2>1. samples \in [1..Len(steps) -> ToSet(samples)]
    BY <1>6 DEF ToSet
  <2> HIDE DEF samples
  <2> QED BY <1>6, <2>1, IsSequence
<1>8. QueryMetrics(q, metric) = Cut(samples)
  BY DEF QueryMetrics, steps
<1>9. ASSUME NEW r \in ToSet(samples)
      PROVE  \E t \in q.start..q.end :
               /\ r = [metric |-> metric, at |-> t, value |-> Counted(q, metric, t)]
               /\ Counted(q, metric, t) > 0
  <2>1. PICK k \in 1..Len(steps) : r = samples[k]
    BY <1>7
  <2> QED BY <1>5, <1>6, <2>1
<1>10. 1 <= Len(steps) => 1 \in 1..Len(samples) /\ samples[1].at = steps[1]
  <2>1. DOMAIN samples = 1..Len(steps) /\ Len(samples) = Len(steps)
    <3>1. DOMAIN samples = 1..Len(steps)
      BY <1>6
    <3> HIDE DEF samples
    <3> QED BY <1>6, <1>7, <3>1, Positions
  <2> QED BY <1>6, <2>1
<1> HIDE DEF samples
<1>11. /\ Sequence(Cut(samples)) /\ Len(Cut(samples)) <= MaxPerSignal
       /\ ToSet(Cut(samples)) \subseteq ToSet(samples)
       /\ \A k \in 1..Len(samples) : k <= MaxPerSignal => samples[k] \in ToSet(Cut(samples))
  BY <1>7, CutFacts
<1>12. 1 <= MaxPerSignal
  BY CaptureAssumption
<1> QED BY <1>5a, <1>8, <1>9, <1>10, <1>11, <1>12

LEMMA TracesFacts ==
  ASSUME Types, NEW q \in Windows
  PROVE  /\ Sequence(SpanRows(q)) /\ Len(SpanRows(q)) = Cardinality(Traced(q))
         /\ Sequence(QueryTraces(q)) /\ Len(QueryTraces(q)) <= MaxPerSignal
         /\ ToSet(QueryTraces(q)) \subseteq {spans[n] : n \in Traced(q)}
         /\ Len(SpanRows(q)) <= MaxPerSignal => ToSet(QueryTraces(q)) = {spans[n] : n \in Traced(q)}
<1>1. Traced(q) \in SUBSET DOMAIN spans /\ Sequence(spans)
  BY WindowFacts, LineFacts
<1>2. PICK rows : rows = Kept(spans, Traced(q))
  OBVIOUS
<1>3. Sequence(rows) /\ Len(rows) = Cardinality(Traced(q)) /\ ToSet(rows) = {spans[n] : n \in Traced(q)}
  BY <1>1, <1>2, KeptFacts
<1>4. /\ Sequence(Reverse(rows)) /\ Len(Reverse(rows)) = Cardinality(Traced(q))
      /\ ToSet(Reverse(rows)) = {spans[n] : n \in Traced(q)}
  BY <1>3, Reversed
<1>5. SpanRows(q) = IF q.order THEN rows ELSE Reverse(rows)
  BY <1>2 DEF SpanRows
<1>6. /\ Sequence(SpanRows(q)) /\ Len(SpanRows(q)) = Cardinality(Traced(q))
      /\ ToSet(SpanRows(q)) = {spans[n] : n \in Traced(q)}
  BY <1>3, <1>4, <1>5
<1> QED BY <1>6, CutFacts DEF QueryTraces

-----------------------------------------------------------------------------
(* The records a capture makes of the answers                              *)

LogRecords(q) == {LogRecord(q, r) : r \in ToSet(QueryLogs(q))}
Samples(q, metric) == {MetricRecord(q, r) : r \in ToSet(QueryMetrics(q, metric))}
SpanRecords(q) == {SpanRecord(r) : r \in {x \in ToSet(QueryTraces(q)) : In(q, x.at)}}

LEMMA RecordsFacts ==
  ASSUME Types, NEW q \in Windows
  PROVE  /\ Sequence(Records(q)) /\ Len(Records(q)) <= 4 * MaxPerSignal
         /\ ToSet(Records(q)) = LogRecords(q) \cup Samples(q, "request_rate")
                                  \cup Samples(q, "error_rate") \cup SpanRecords(q)
<1> DEFINE logs == QueryLogs(q)
           answer == QueryTraces(q)
           K == {k \in DOMAIN answer : In(q, answer[k].at)}
           traces == Kept(answer, K)
           rate == QueryMetrics(q, "request_rate")
           errors == QueryMetrics(q, "error_rate")
           samples == rate \o errors
           A == [k \in DOMAIN logs |-> LogRecord(q, logs[k])]
           B == [k \in DOMAIN samples |-> MetricRecord(q, samples[k])]
           C == [k \in DOMAIN traces |-> SpanRecord(traces[k])]
<1>1. /\ Sequence(logs) /\ Len(logs) <= MaxPerSignal
      /\ Sequence(answer) /\ Len(answer) <= MaxPerSignal
  BY LogsFacts, TracesFacts
<1>2. /\ Sequence(rate) /\ Len(rate) <= MaxPerSignal /\ Sequence(errors) /\ Len(errors) <= MaxPerSignal
  BY MetricsFacts
<1>3. Records(q) = A \o B \o C
  BY DEF Records
<1> HIDE DEF logs, answer, rate, errors
<1>4. /\ Sequence(traces) /\ Len(traces) <= Len(answer)
      /\ ToSet(traces) = {answer[k] : k \in K}
  <2>1. K \in SUBSET DOMAIN answer
    OBVIOUS
  <2> HIDE DEF K
  <2> QED BY <1>1, <2>1, KeptFacts
<1>5. ToSet(traces) = {x \in ToSet(answer) : In(q, x.at)}
  BY <1>4 DEF ToSet
<1>6. /\ Sequence(samples) /\ Len(samples) = Len(rate) + Len(errors)
      /\ ToSet(samples) = ToSet(rate) \cup ToSet(errors)
  BY <1>2, Joined
<1>7. /\ Len(logs) \in Nat /\ DOMAIN logs = 1..Len(logs)
      /\ Len(samples) \in Nat /\ DOMAIN samples = 1..Len(samples)
      /\ Len(traces) \in Nat /\ DOMAIN traces = 1..Len(traces)
      /\ Len(answer) \in Nat /\ Len(rate) \in Nat /\ Len(errors) \in Nat
  <2> HIDE DEF samples, traces
  <2> QED BY <1>1, <1>2, <1>4, <1>6, Positions
<1> HIDE DEF traces, samples
<1>8. Sequence(A) /\ Len(A) = Len(logs) /\ ToSet(A) = {LogRecord(q, r) : r \in ToSet(logs)}
  <2>1. A \in [1..Len(logs) -> ToSet(A)]
    BY <1>7 DEF ToSet
  <2>2. ToSet(A) = {LogRecord(q, r) : r \in ToSet(logs)}
    BY DEF ToSet
  <2> HIDE DEF A
  <2> QED BY <1>7, <2>1, <2>2, IsSequence
<1>9. Sequence(B) /\ Len(B) = Len(samples) /\ ToSet(B) = {MetricRecord(q, r) : r \in ToSet(samples)}
  <2>1. B \in [1..Len(samples) -> ToSet(B)]
    BY <1>7 DEF ToSet
  <2>2. ToSet(B) = {MetricRecord(q, r) : r \in ToSet(samples)}
    BY DEF ToSet
  <2> HIDE DEF B
  <2> QED BY <1>7, <2>1, <2>2, IsSequence
<1>10. Sequence(C) /\ Len(C) = Len(traces) /\ ToSet(C) = {SpanRecord(r) : r \in ToSet(traces)}
  <2>1. C \in [1..Len(traces) -> ToSet(C)]
    BY <1>7 DEF ToSet
  <2>2. ToSet(C) = {SpanRecord(r) : r \in ToSet(traces)}
    BY DEF ToSet
  <2> HIDE DEF C
  <2> QED BY <1>7, <2>1, <2>2, IsSequence
<1> HIDE DEF A, B, C
<1>11. Sequence(A \o B) /\ Len(A \o B) = Len(A) + Len(B) /\ ToSet(A \o B) = ToSet(A) \cup ToSet(B)
  BY <1>8, <1>9, Joined
<1>12. /\ Sequence(Records(q)) /\ Len(Records(q)) = Len(A \o B) + Len(C)
       /\ ToSet(Records(q)) = ToSet(A \o B) \cup ToSet(C)
  BY <1>3, <1>10, <1>11, Joined
<1>13. Len(Records(q)) <= 4 * MaxPerSignal
  <2>1. Len(Records(q)) = Len(logs) + (Len(rate) + Len(errors)) + Len(traces)
    BY <1>6, <1>8, <1>9, <1>10, <1>11, <1>12
  <2>2. /\ Len(logs) <= MaxPerSignal /\ Len(rate) <= MaxPerSignal /\ Len(errors) <= MaxPerSignal
        /\ Len(traces) <= Len(answer) /\ Len(answer) <= MaxPerSignal
    BY <1>1, <1>2, <1>4
  <2> QED BY <1>7, <2>1, <2>2, CaptureAssumption
<1>14. ToSet(B) = Samples(q, "request_rate") \cup Samples(q, "error_rate")
  BY <1>6, <1>9 DEF Samples, rate, errors
<1>15. ToSet(A) = LogRecords(q)
  BY <1>8 DEF LogRecords, logs
<1>16. ToSet(C) = SpanRecords(q)
  BY <1>5, <1>10 DEF SpanRecords, answer
<1> QED BY <1>11, <1>12, <1>13, <1>14, <1>15, <1>16

LEMMA SmallestNat ==
  ASSUME NEW D \in SUBSET Nat, D # {}
  PROVE  \E d \in D : \A e \in D : d <= e
<1> DEFINE below == OpToRel(<, Nat)
<1>1. \A p : p \in below <=> p \in Nat \X Nat /\ p[1] < p[2]
  BY DEF OpToRel
<1>2. IsWellFoundedOn(below, Nat)
  BY NatLessThanWellFounded
<1> HIDE DEF below
<1>3. PICK d \in D : \A e \in D : << e, d >> \notin below
  BY <1>2, WFMin
<1>4. ASSUME NEW e \in D PROVE ~(e < d)
  BY <1>1, <1>3
<1> QED BY <1>4

LEMMA LastOne ==
  ASSUME NEW n \in Nat, NEW S \in SUBSET (1..n), S # {}
  PROVE  \E m \in S : \A k \in S : k <= m
<1>1. PICK D : D = {n - k : k \in S}
  OBVIOUS
<1>2. D \in SUBSET Nat /\ D # {}
  <2>1. \A k \in S : n - k \in Nat
    <3>1. \A k \in 1..n : n - k \in Nat
      OBVIOUS
    <3> QED BY <3>1
  <2> QED BY <1>1, <2>1
<1>3. PICK d \in D : \A e \in D : d <= e
  BY <1>2, SmallestNat
<1>4. PICK m \in S : d = n - m
  BY <1>1
<1>5. ASSUME NEW k \in S PROVE k <= m
  <2>1. n - m <= n - k
    BY <1>1, <1>3, <1>4
  <2> QED BY <2>1
<1> QED BY <1>5

(* Without a conflict the dictionary holds every record once.              *)
LEMMA UniqueFacts ==
  ASSUME NEW rs, Sequence(rs)
  PROVE  /\ Unique(rs) \subseteq ToSet(rs)
         /\ IsFiniteSet(Unique(rs)) /\ Cardinality(Unique(rs)) <= Len(rs)
         /\ ~Conflict(rs) => Unique(rs) = ToSet(rs)
         /\ (\A x, y \in ToSet(rs) : Source(x) = Source(y) => x = y) => ~Conflict(rs)
<1> DEFINE S == ToSet(rs)
           T == {Source(r) : r \in S}
           key == [r \in S |-> Source(r)]
<1>1. /\ Len(rs) \in Nat /\ DOMAIN rs = 1..Len(rs) /\ IsFiniteSet(DOMAIN rs)
      /\ Cardinality(DOMAIN rs) = Len(rs) /\ rs \in [1..Len(rs) -> S]
  BY Positions
<1>2. IsFiniteSet(S) /\ Cardinality(S) <= Len(rs) /\ Cardinality(S) \in Nat
  <2>1. rs \in Surjection(DOMAIN rs, S)
    BY <1>1 DEF Surjection, ToSet
  <2>2. IsFiniteSet(S) /\ Cardinality(S) <= Cardinality(DOMAIN rs)
    BY <1>1, <2>1, FS_Surjection
  <2> QED BY <1>1, <2>2, FS_CardinalityType
<1>3. key \in Surjection(S, T)
  BY DEF Surjection
<1>4. Unique(rs) \subseteq S
  BY <1>1 DEF Unique, ToSet
<1>5. IsFiniteSet(Unique(rs)) /\ Cardinality(Unique(rs)) <= Len(rs)
  <2>1. IsFiniteSet(Unique(rs)) /\ Cardinality(Unique(rs)) <= Cardinality(S)
    BY <1>2, <1>4, FS_Subset
  <2>2. Cardinality(Unique(rs)) \in Nat
    BY <2>1, FS_CardinalityType
  <2> QED BY <1>1, <1>2, <2>1, <2>2
<1>6. Conflict(rs) <=> Cardinality(T) # Cardinality(S)
  BY DEF Conflict
<1>7. Cardinality(T) = Cardinality(S) <=> key \in Injection(S, T)
  <2> HIDE DEF S, T, key
  <2> QED BY <1>2, <1>3, FS_Surjection
<1>8. key \in Injection(S, T) <=> \A x, y \in S : Source(x) = Source(y) => x = y
  <2>1. key \in [S -> T] /\ \A x \in S : key[x] = Source(x)
    OBVIOUS
  <2> HIDE DEF S, T, key
  <2>2. key \in Injection(S, T) <=> \A x, y \in S : key[x] = key[y] => x = y
    BY <2>1, Fun_IsInj, Fun_InjectionProperties
  <2> QED BY <2>1, <2>2
<1> HIDE DEF S, T, key
<1>9. ASSUME ~Conflict(rs) PROVE S \subseteq Unique(rs)
  <2>1. \A x, y \in S : Source(x) = Source(y) => x = y
    BY <1>6, <1>7, <1>8, <1>9
  <2>2. SUFFICES ASSUME NEW k \in 1..Len(rs) PROVE rs[k] \in Unique(rs)
    BY <1>1 DEF S, ToSet
  <2> DEFINE same == {n \in 1..Len(rs) : Source(rs[n]) = Source(rs[k])}
  <2>3. PICK n \in same : \A m \in same : m <= n
    <3>1. same \in SUBSET (1..Len(rs)) /\ same # {}
      OBVIOUS
    <3> HIDE DEF same
    <3> QED BY <1>1, <3>1, LastOne
  <2>4. \A m \in (n + 1)..Len(rs) : Source(rs[m]) # Source(rs[n])
    BY <1>1, <2>3
  <2>5. rs[n] = rs[k]
    BY <1>1, <2>1
  <2>6. rs[n] \in Unique(rs)
    BY <1>1, <2>4 DEF Unique
  <2> QED BY <2>5, <2>6
<1> QED BY <1>4, <1>5, <1>6, <1>7, <1>8, <1>9 DEF S

(* The API writes each line about a call once.                             *)
LEMMA LinesOnce ==
  ASSUME TelemetryInv, NEW m \in DOMAIN lines, NEW n \in DOMAIN lines, NEW c \in Call,
         lines[m].service = API, lines[n].service = API, lines[m].call = c, lines[n].call = c,
         lines[m].event = lines[n].event
  PROVE  m = n
<1>1. /\ Types /\ LinesFit(c) /\ m \in Mine(c) /\ n \in Mine(c)
      /\ call[c].pc \in {"NEW", "CALLING", "CONCLUDED", "ANSWERED"}
  BY DEF TelemetryInv, Mine, Types, CallState
<1>2. CASE call[c].pc \in {"NEW", "CALLING"}
  BY <1>1, <1>2 DEF LinesFit
<1>3. CASE call[c].pc = "CONCLUDED"
  <2>1. PICK k \in DOMAIN lines, i \in DOMAIN lines : Mine(c) = {k, i} /\ Concluded(c, k, i)
    BY <1>1, <1>3 DEF LinesFit
  <2> QED BY <1>1, <2>1 DEF Concluded, Begun, Outcome
<1>4. CASE call[c].pc = "ANSWERED"
  <2>1. PICK k \in DOMAIN lines, i \in DOMAIN lines, j \in DOMAIN lines : Story(c, k, i, j)
    BY <1>1, <1>4 DEF LinesFit
  <2>2. /\ m \in {k, i, j} /\ n \in {k, i, j}
        /\ lines[k].event = "dependency_call_started"
        /\ lines[i].event \in {"dependency_call_completed", "dependency_call_failed"}
        /\ lines[j].event = "request_completed"
    BY <1>1, <2>1 DEF Story, Concluded, Begun, Outcome
  <2> QED BY <2>2
<1> QED BY <1>1, <1>2, <1>3, <1>4

LEMMA SameLogSource ==
  ASSUME TelemetryInv, NEW q \in Windows, NEW x \in LogRecords(q), NEW y \in LogRecords(q),
         x.ref = y.ref, x # y
  PROVE  Contradiction
<1>1. Types /\ Wanted(q) \subseteq DOMAIN lines /\ q.service = API
  BY WindowFacts DEF TelemetryInv
<1>2. PICK m \in Wanted(q), n \in Wanted(q) : x = LogRecord(q, lines[m]) /\ y = LogRecord(q, lines[n])
  <2>1. ToSet(QueryLogs(q)) \subseteq {lines[i] : i \in Wanted(q)}
    BY <1>1, LogsFacts
  <2> QED BY <2>1 DEF LogRecords
<1>3. m \in DOMAIN lines /\ n \in DOMAIN lines /\ lines[m].service = API /\ lines[n].service = API
  BY <1>1 DEF Wanted
<1>4. /\ lines[m].at = lines[n].at /\ lines[m].event = lines[n].event
      /\ lines[m].call = lines[n].call
  BY <1>2 DEF LogRecord
<1>5. StatusOf(lines[m].status) # StatusOf(lines[n].status)
  BY <1>2, <1>4 DEF LogRecord
<1>6. lines[m].call \in Call \cup {NULL}
  BY <1>1, <1>3, LineFacts DEF LogLine
<1>7. lines[m].call \notin Call
  BY <1>3, <1>4, <1>5, LinesOnce
<1>8. m \in NoiseLines /\ n \in NoiseLines
  BY <1>3, <1>4, <1>6, <1>7 DEF NoiseLines
<1> QED BY <1>4, <1>5, <1>8 DEF Contradiction

LEMMA SameSampleSource ==
  ASSUME Types, NEW q \in Windows, NEW j, NEW k,
         NEW x \in Samples(q, j), NEW y \in Samples(q, k), x.ref = y.ref
  PROVE  x = y
<1>1. PICK s \in q.start..q.end :
        x = MetricRecord(q, [metric |-> j, at |-> s, value |-> Counted(q, j, s)])
  BY MetricsFacts DEF Samples
<1>2. PICK t \in q.start..q.end :
        y = MetricRecord(q, [metric |-> k, at |-> t, value |-> Counted(q, k, t)])
  BY MetricsFacts DEF Samples
<1>3. j = k /\ s = t
  BY <1>1, <1>2 DEF MetricRecord
<1> QED BY <1>1, <1>2, <1>3

LEMMA SameSpanSource ==
  ASSUME TelemetryInv, NEW q \in Windows, NEW x \in SpanRecords(q), NEW y \in SpanRecords(q),
         x.ref = y.ref
  PROVE  x = y
<1>1. Types /\ SpansFit /\ Traced(q) \subseteq DOMAIN spans
  BY WindowFacts DEF TelemetryInv
<1>2. PICK m \in Traced(q), n \in Traced(q) : x = SpanRecord(spans[m]) /\ y = SpanRecord(spans[n])
  <2>1. ToSet(QueryTraces(q)) \subseteq {spans[i] : i \in Traced(q)}
    BY <1>1, TracesFacts
  <2> QED BY <2>1 DEF SpanRecords
<1>3. spans[m].service = spans[n].service /\ spans[m].call = spans[n].call
  BY <1>2 DEF SpanRecord
<1>4. m = n
  BY <1>1, <1>3 DEF SpansFit
<1> QED BY <1>2, <1>4

LEMMA KindFacts ==
  ASSUME NEW q
  PROVE  /\ \A x \in LogRecords(q) : x.kind = "LOG"
         /\ \A metric : \A x \in Samples(q, metric) : x.kind = "METRIC"
         /\ \A x \in SpanRecords(q) : x.kind = "TRACE"
<1>1. \A x \in LogRecords(q) : x.kind = "LOG"
  BY DEF LogRecords, LogRecord
<1>2. \A metric : \A x \in Samples(q, metric) : x.kind = "METRIC"
  BY DEF Samples, MetricRecord
<1>3. \A x \in SpanRecords(q) : x.kind = "TRACE"
  <2>1. \A r : SpanRecord(r).kind = "TRACE"
    BY DEF SpanRecord
  <2> QED BY <2>1 DEF SpanRecords
<1> QED BY <1>1, <1>2, <1>3

LEMMA ConflictsContradict ==
  ASSUME TelemetryInv, NEW q \in Windows, Conflict(Records(q))
  PROVE  Contradiction
<1>1. Types
  BY DEF TelemetryInv
<1>2. /\ Sequence(Records(q))
      /\ ToSet(Records(q)) = LogRecords(q) \cup Samples(q, "request_rate")
                               \cup Samples(q, "error_rate") \cup SpanRecords(q)
  BY <1>1, RecordsFacts
<1>3. PICK x \in ToSet(Records(q)), y \in ToSet(Records(q)) : Source(x) = Source(y) /\ x # y
  BY <1>2, UniqueFacts
<1>4. x.kind = y.kind /\ x.ref = y.ref
  BY <1>3 DEF Source
<1> DEFINE L == LogRecords(q)
           M == Samples(q, "request_rate") \cup Samples(q, "error_rate")
           R == SpanRecords(q)
<1>5. (x \in L /\ y \in L) \/ (x \in M /\ y \in M) \/ (x \in R /\ y \in R)
  <2>1. /\ x \in L \cup M \cup R /\ y \in L \cup M \cup R
        /\ \A z \in L : z.kind = "LOG"
        /\ \A z \in M : z.kind = "METRIC"
        /\ \A z \in R : z.kind = "TRACE"
    BY <1>2, KindFacts
  <2> HIDE DEF L, M, R
  <2> QED BY <1>4, <2>1
<1>6. CASE x \in L /\ y \in L
  BY <1>3, <1>4, <1>6, SameLogSource
<1>7. CASE x \in M /\ y \in M
  BY <1>1, <1>3, <1>4, <1>7, SameSampleSource
<1>8. CASE x \in R /\ y \in R
  BY <1>3, <1>4, <1>8, SameSpanSource
<1> QED BY <1>5, <1>6, <1>7, <1>8

(* What save_evidence asks of a record beside its time.                    *)
Sound(r) ==
  /\ r.kind = "LOG" => r.summary[2] \in 100..599 \cup {NULL}
  /\ r.kind = "METRIC" => r.summary[2] >= 0
  /\ r.kind = "TRACE" => r.trace # NULL

LEMMA RecordsSound ==
  ASSUME Types, NEW q \in Windows, NEW r \in ToSet(Records(q))
  PROVE  /\ Sound(r)
         /\ In(q, r.at) \/ \E metric : /\ r.at = q.start /\ q.fine
                                       /\ Counted(q, metric, q.start) > 0
<1>1. r \in LogRecords(q) \/ r \in Samples(q, "request_rate")
        \/ r \in Samples(q, "error_rate") \/ r \in SpanRecords(q)
  BY RecordsFacts
<1>2. CASE r \in LogRecords(q)
  <2>1. ToSet(QueryLogs(q)) \subseteq {lines[i] : i \in Wanted(q)}
    BY LogsFacts
  <2>2. PICK n \in Wanted(q) : r = LogRecord(q, lines[n])
    BY <1>2, <2>1 DEF LogRecords
  <2>3. In(q, lines[n].at)
    BY DEF Wanted
  <2>4. r.kind = "LOG" /\ r.at = lines[n].at /\ r.summary[2] = StatusOf(lines[n].status)
    BY <2>2 DEF LogRecord
  <2>5. r.summary[2] \in 100..599 \cup {NULL}
    BY <2>4 DEF StatusOf
  <2> QED BY <2>3, <2>4, <2>5 DEF Sound
<1>3. ASSUME NEW metric, r \in Samples(q, metric)
      PROVE  /\ Sound(r)
             /\ In(q, r.at) \/ (r.at = q.start /\ q.fine /\ Counted(q, metric, q.start) > 0)
  <2>1. PICK t \in q.start..q.end :
          /\ r = MetricRecord(q, [metric |-> metric, at |-> t, value |-> Counted(q, metric, t)])
          /\ Counted(q, metric, t) > 0
    BY <1>3, MetricsFacts DEF Samples
  <2>2. r.kind = "METRIC" /\ r.at = t /\ r.summary[2] = Counted(q, metric, t)
    BY <2>1 DEF MetricRecord
  <2>3. Counted(q, metric, t) \in Nat
    <3>1. q.prometheus \in Nat
      <4>1. Len(lines) \in Nat
        BY DEF Types
      <4> QED BY <4>1, WindowFacts
    <3>2. IsFiniteSet(1..q.prometheus)
      BY <3>1, FS_Interval
    <3>3. \A n \in SUBSET (1..q.prometheus) : IsFiniteSet(n) /\ Cardinality(n) \in Nat
      BY <3>2, FS_Subset, FS_CardinalityType
    <3> QED BY <3>3 DEF Counted
  <2>4. In(q, t) \/ (q.fine /\ t = q.start)
    BY WindowFacts DEF In
  <2> QED BY <2>1, <2>2, <2>3, <2>4 DEF Sound
<1>4. CASE r \in SpanRecords(q)
  <2>1. ToSet(QueryTraces(q)) \subseteq {spans[n] : n \in Traced(q)} /\ Traced(q) \subseteq DOMAIN spans
    BY TracesFacts, WindowFacts
  <2>2. PICK n \in DOMAIN spans : r = SpanRecord(spans[n]) /\ In(q, spans[n].at)
    BY <1>4, <2>1 DEF SpanRecords
  <2>3. spans[n].call \in Call
    BY LineFacts
  <2>4. r.kind = "TRACE" /\ r.at = spans[n].at /\ r.trace = spans[n].call
    BY <2>2 DEF SpanRecord
  <2> QED BY <2>2, <2>3, <2>4, InventoryAssumption DEF Sound
<1> QED BY <1>1, <1>2, <1>3, <1>4

(* Every request counted as an error is counted as a request.              *)
LEMMA CountedBoth ==
  ASSUME Types, NEW q \in Windows, NEW metric, NEW t, Counted(q, metric, t) > 0
  PROVE  Counted(q, "request_rate", t) > 0
<1> DEFINE S(kind) == {n \in 1..q.prometheus : /\ lines[n].service = q.service /\ lines[n].at <= t
                                              /\ lines[n].event = "request_completed"
                                              /\ kind = "error_rate" => lines[n].status >= 500}
<1>1. \A kind : Counted(q, kind, t) = Cardinality(S(kind))
  BY DEF Counted
<1>2. ASSUME NEW kind PROVE IsFiniteSet(S(kind)) /\ Cardinality(S(kind)) \in Nat
  <2>1. q.prometheus \in Nat
    <3>1. Len(lines) \in Nat
      BY DEF Types
    <3> QED BY <3>1, WindowFacts
  <2>2. IsFiniteSet(1..q.prometheus) /\ S(kind) \in SUBSET (1..q.prometheus)
    BY <2>1, FS_Interval
  <2> HIDE DEF S
  <2>3. IsFiniteSet(S(kind))
    BY <2>2, FS_Subset
  <2> QED BY <2>3, FS_CardinalityType
<1>3. S(metric) \subseteq S("request_rate")
  OBVIOUS
<1> HIDE DEF S
<1>4. S(metric) # {}
  <2>1. Cardinality(S(metric)) # 0
    BY <1>1, <1>2
  <2> QED BY <1>2, <2>1, FS_EmptySet
<1>5. Cardinality(S("request_rate")) # 0
  BY <1>2, <1>3, <1>4, FS_EmptySet
<1> QED BY <1>1, <1>2, <1>5

(* A record lies outside the window only if it is the sample at a start    *)
(* whose digits Prometheus drops, and then always.                         *)
LEMMA OutsideIsEarly ==
  ASSUME Types, NEW q \in Windows
  PROVE  Outside(q, Records(q)) <=> EarlySample(q)
<1>1. ASSUME Outside(q, Records(q)) PROVE EarlySample(q)
  <2>1. PICK r \in ToSet(Records(q)) : ~In(q, r.at)
    BY <1>1 DEF Outside
  <2>2. PICK metric : q.fine /\ Counted(q, metric, q.start) > 0
    BY <2>1, RecordsSound
  <2> QED BY <2>2, CountedBoth DEF EarlySample
<1>2. ASSUME EarlySample(q) PROVE Outside(q, Records(q))
  <2>1. PICK x \in ToSet(QueryMetrics(q, "request_rate")) : x.at = q.start
    BY <1>2, MetricsFacts DEF EarlySample
  <2>2. PICK r : r = MetricRecord(q, x)
    OBVIOUS
  <2>3. r \in ToSet(Records(q))
    BY <2>2, RecordsFacts DEF Samples
  <2>4. r.at = q.start
    BY <2>1, <2>2 DEF MetricRecord
  <2>5. ~In(q, q.start)
    BY <1>2, WindowFacts DEF EarlySample, In
  <2> QED BY <2>3, <2>4, <2>5 DEF Outside
<1> QED BY <1>1, <1>2

LEMMA CapturesFit == TelemetryInv => CaptureAccepted
<1>1. SUFFICES ASSUME TelemetryInv, NEW q \in Windows
               PROVE  IF CollectEvidence(q).error THEN Contradiction \/ EarlySample(q)
                      ELSE ~EarlySample(q) /\ Savable(q, CollectEvidence(q))
  BY DEF CaptureAccepted
<1>2. Types
  BY <1>1 DEF TelemetryInv
<1> DEFINE rs == Records(q)
<1>3. /\ Sequence(rs) /\ Len(rs) <= 4 * MaxPerSignal
      /\ Outside(q, rs) <=> EarlySample(q)
  BY <1>2, RecordsFacts, OutsideIsEarly
<1>4. CASE Outside(q, rs) \/ Conflict(rs)
  <2>1. CollectEvidence(q).error
    BY <1>4 DEF CollectEvidence
  <2> QED BY <1>1, <1>3, <1>4, <2>1, ConflictsContradict
<1>5. CASE ~Outside(q, rs) /\ ~Conflict(rs)
  <2>1. ~CollectEvidence(q).error /\ CollectEvidence(q).records = Unique(rs)
    BY <1>5 DEF CollectEvidence
  <2>2. \A r \in Unique(rs) : Sound(r) /\ In(q, r.at)
    BY <1>2, <1>3, <1>5, UniqueFacts, RecordsSound DEF Outside
  <2>3. Cardinality(Unique(rs)) <= 4 * MaxPerSignal
    <3>1. Cardinality(Unique(rs)) <= Len(rs) /\ IsFiniteSet(Unique(rs))
      BY <1>3, UniqueFacts
    <3>2. Cardinality(Unique(rs)) \in Nat /\ Len(rs) \in Nat
      BY <1>3, <3>1, FS_CardinalityType, Positions
    <3> QED BY <1>3, <3>1, <3>2, CaptureAssumption
  <2>4. Savable(q, CollectEvidence(q))
    BY <2>1, <2>2, <2>3 DEF Savable, Sound
  <2> QED BY <1>3, <1>5, <2>1, <2>4
<1> QED BY <1>4, <1>5

(* However late, repeated or reordered telemetry arrives, a capture fails  *)
(* only for lines that contradict each other, or (and then every time) for *)
(* a sample at a start that is not a whole millisecond; otherwise what it  *)
(* returns can be stored.                                                  *)
THEOREM CapturesAreAccepted == Spec => []CaptureAccepted
<1> QED BY TelemetryInvariant, CapturesFit, PTL

-----------------------------------------------------------------------------
(* A second capture of the same telemetry                                  *)

Again(q) == [q EXCEPT !.order = ~q.order, !.twice = FALSE]

LEMMA AgainFacts ==
  ASSUME Types, NEW q \in Windows
  PROVE  /\ Again(q) \in Windows
         /\ Again(q).service = q.service /\ Again(q).start = q.start /\ Again(q).end = q.end
         /\ Again(q).fine = q.fine
         /\ Again(q).prometheus = q.prometheus /\ ~Again(q).twice
         /\ Wanted(Again(q)) = Wanted(q) /\ Traced(Again(q)) = Traced(q)
<1> DEFINE p == Again(q)
<1>1. q \in Queries
  BY DEF Windows
<1>2. p \in Queries
  BY <1>1 DEF Queries, Again
<1>3. /\ p.service = q.service /\ p.start = q.start /\ p.end = q.end /\ p.loki = q.loki
      /\ p.fine = q.fine
      /\ p.prometheus = q.prometheus /\ p.jaeger = q.jaeger /\ p.twice = FALSE
  BY <1>1 DEF Queries, Again
<1> HIDE DEF p
<1>4. Wanted(p) = Wanted(q)
  BY <1>3 DEF Wanted, In
<1>5. Traced(p) = Traced(q)
  BY <1>3 DEF Traced, In
<1>6. Cardinality(Amiss(p)) <= MaxAmiss
  <2>1. Amiss(p) \subseteq Amiss(q)
    BY <1>3 DEF Amiss
  <2>2. IsFiniteSet(Amiss(q))
    <3>1. Amiss(q) \subseteq {"loki", "prometheus", "jaeger", "fine", "twice"}
      BY DEF Amiss
    <3>2. /\ IsFiniteSet({"loki"} \cup {"prometheus"}) /\ IsFiniteSet({"fine"} \cup {"twice"})
          /\ IsFiniteSet({"jaeger"})
      BY FS_Singleton, FS_Union
    <3>3. IsFiniteSet((({"loki"} \cup {"prometheus"}) \cup {"jaeger"}) \cup ({"fine"} \cup {"twice"}))
      <4>1. IsFiniteSet(({"loki"} \cup {"prometheus"}) \cup {"jaeger"})
        BY <3>2, FS_Union
      <4> QED BY <3>2, <4>1, FS_Union
    <3>4. Amiss(q) \subseteq ((({"loki"} \cup {"prometheus"}) \cup {"jaeger"}) \cup ({"fine"} \cup {"twice"}))
      BY <3>1
    <3> QED BY <3>3, <3>4, FS_Subset
  <2>3. Cardinality(Amiss(p)) <= Cardinality(Amiss(q)) /\ Cardinality(Amiss(p)) \in Nat
        /\ Cardinality(Amiss(q)) \in Nat
    BY <2>1, <2>2, FS_Subset, FS_CardinalityType
  <2> QED BY <2>3, CaptureAssumption DEF Windows
<1>7. p \in Windows
  BY <1>2, <1>3, <1>4, <1>6 DEF Windows
<1> QED BY <1>3, <1>4, <1>5, <1>7 DEF p

Times(q) == [k \in 1..(q.end - q.start + 1) |-> q.start + k - 1]
CountedAt(q, metric) == {k \in DOMAIN Times(q) : Counted(q, metric, Times(q)[k]) > 0}
Steps(q, metric) == Kept(Times(q), CountedAt(q, metric))

LEMMA SameSamples ==
  ASSUME NEW p, NEW q, NEW metric, p.service = q.service, p.start = q.start, p.end = q.end,
         p.prometheus = q.prometheus
  PROVE  Samples(p, metric) = Samples(q, metric)
<1>1. ASSUME NEW t PROVE Counted(p, metric, t) = Counted(q, metric, t)
  BY DEF Counted
<1>2. Times(p) = Times(q)
  BY DEF Times
<1>3. CountedAt(p, metric) = CountedAt(q, metric)
  BY <1>1, <1>2 DEF CountedAt
<1>4. Steps(p, metric) = Steps(q, metric)
  BY <1>2, <1>3 DEF Steps
<1> DEFINE taken(w) == [k \in DOMAIN Steps(w, metric) |->
                          [metric |-> metric, at |-> Steps(w, metric)[k],
                           value |-> Counted(w, metric, Steps(w, metric)[k])]]
<1>5. taken(p) = taken(q)
  BY <1>1, <1>4
<1>6. QueryMetrics(p, metric) = Cut(taken(p)) /\ QueryMetrics(q, metric) = Cut(taken(q))
  BY DEF QueryMetrics, Steps, CountedAt, Times
<1> HIDE DEF taken
<1>7. QueryMetrics(p, metric) = QueryMetrics(q, metric)
  BY <1>5, <1>6
<1>8. \A r : MetricRecord(p, r) = MetricRecord(q, r)
  BY DEF MetricRecord
<1> QED BY <1>7, <1>8 DEF Samples

(* What a capture returns depends on the set of its records only.          *)
LEMMA SameRecordsSameEvidence ==
  ASSUME NEW p, NEW q, Sequence(Records(p)), Sequence(Records(q)),
         ToSet(Records(p)) = ToSet(Records(q)), \A t : In(p, t) <=> In(q, t)
  PROVE  CollectEvidence(p) = CollectEvidence(q)
<1>1. /\ Conflict(Records(p)) <=> Conflict(Records(q))
      /\ Outside(p, Records(p)) <=> Outside(q, Records(q))
  BY DEF Conflict, Outside
<1>2. CASE Outside(q, Records(q)) \/ Conflict(Records(q))
  BY <1>1, <1>2 DEF CollectEvidence
<1>3. CASE ~Outside(q, Records(q)) /\ ~Conflict(Records(q))
  <2>1. Unique(Records(p)) = Unique(Records(q))
    BY <1>1, <1>3, UniqueFacts
  <2> QED BY <1>1, <1>3, <2>1 DEF CollectEvidence
<1> QED BY <1>2, <1>3

LEMMA RetriesFit == TelemetryInv => RetryStable
<1>1. SUFFICES ASSUME TelemetryInv, NEW q \in Windows, Uncut(q)
               PROVE  CollectEvidence(q) = CollectEvidence(Again(q))
  BY DEF RetryStable, Again
<1>2. Types
  BY <1>1 DEF TelemetryInv
<1> DEFINE p == Again(q)
<1>3. /\ p \in Windows
      /\ p.service = q.service /\ p.start = q.start /\ p.end = q.end
      /\ p.prometheus = q.prometheus /\ ~p.twice /\ p.fine = q.fine
      /\ Wanted(p) = Wanted(q) /\ Traced(p) = Traced(q)
  BY <1>2, AgainFacts
<1> HIDE DEF p
<1>3a. \A t : In(p, t) <=> In(q, t)
  BY <1>3 DEF In
<1>4. Len(LogRows(p)) <= MaxPerSignal /\ Len(LogRows(q)) <= MaxPerSignal
  <2>1. Failures(p) = Failures(q)
    BY <1>3 DEF Failures
  <2>2. PICK n \in Nat : n = Cardinality(Failures(q)) + Cardinality(Wanted(q) \ Failures(q))
    BY <1>2, LogRowsFacts
  <2>3. Len(LogRows(p)) = n + (IF p.twice THEN 1 ELSE 0) /\ Len(LogRows(q)) = n + (IF q.twice THEN 1 ELSE 0)
    BY <1>2, <1>3, <2>1, <2>2, LogRowsFacts
  <2>4. Len(LogRows(q)) <= MaxPerSignal
    BY <1>1 DEF Uncut
  <2> QED BY <1>3, <2>3, <2>4, CaptureAssumption
<1>5. Len(SpanRows(p)) <= MaxPerSignal /\ Len(SpanRows(q)) <= MaxPerSignal
  BY <1>1, <1>2, <1>3, TracesFacts DEF Uncut
<1>6. LogRecords(p) = LogRecords(q)
  <2>1. ToSet(QueryLogs(p)) = ToSet(QueryLogs(q))
    BY <1>2, <1>3, <1>4, LogsFacts
  <2>2. \A r : LogRecord(p, r) = LogRecord(q, r)
    BY <1>3 DEF LogRecord
  <2> QED BY <2>1, <2>2 DEF LogRecords
<1>7. SpanRecords(p) = SpanRecords(q)
  <2>1. ToSet(QueryTraces(p)) = ToSet(QueryTraces(q))
    BY <1>2, <1>3, <1>5, TracesFacts
  <2> QED BY <1>3a, <2>1 DEF SpanRecords
<1>8. \A metric : Samples(p, metric) = Samples(q, metric)
  BY <1>3, SameSamples
<1>9. ToSet(Records(p)) = ToSet(Records(q)) /\ Sequence(Records(p)) /\ Sequence(Records(q))
  BY <1>2, <1>3, <1>6, <1>7, <1>8, RecordsFacts
<1> QED BY <1>3a, <1>9, SameRecordsSameEvidence DEF p

(* When the limits cut nothing, a capture that is made again finds the     *)
(* same evidence and gaps, or fails again.                                 *)
THEOREM RetriesAreStable == Spec => []RetryStable
<1> QED BY TelemetryInvariant, RetriesFit, PTL

-----------------------------------------------------------------------------
(* A failed call shows in the evidence                                     *)

(* A row is not cut when all that are as new fit the limit.                *)
LEMMA RowKept ==
  ASSUME Types, NEW q \in Windows, NEW j \in DOMAIN LogRows(q),
         Cardinality({i \in DOMAIN LogRows(q) : LogRows(q)[i].at >= LogRows(q)[j].at}) <= MaxPerSignal
  PROVE  LogRecord(q, LogRows(q)[j]) \in LogRecords(q)
<1> DEFINE rows == LogRows(q)
           D == {i \in DOMAIN rows : rows[i].at >= rows[j].at}
<1>1. Sequence(rows) /\ ToSet(rows) = {lines[n] : n \in Wanted(q)}
  BY LogRowsFacts
<1>2. \A i \in DOMAIN rows : rows[i].at \in Nat
  <2>1. \A n \in Wanted(q) : lines[n].at \in Nat
    BY WindowFacts, LineFacts
  <2>2. \A i \in DOMAIN rows : rows[i] \in ToSet(rows)
    BY <1>1, Positions
  <2> QED BY <1>1, <2>1, <2>2
<1>3. IsFiniteSet(D) /\ Cardinality(D) \in Nat /\ Cardinality(D) <= MaxPerSignal
  <2>1. IsFiniteSet(DOMAIN rows) /\ D \in SUBSET DOMAIN rows
    BY <1>1, Positions
  <2>2. IsFiniteSet(D)
    BY <2>1, FS_Subset
  <2> QED BY <2>2, FS_CardinalityType
<1>4. Ahead(rows, j) \in SUBSET (D \ {j}) /\ j \in D
  <2>1. j \in D
    BY <1>2
  <2>2. ASSUME NEW i \in Ahead(rows, j) PROVE i \in D /\ i # j
    <3>1. /\ i \in DOMAIN rows /\ rows[i].at \in Nat /\ rows[j].at \in Nat
          /\ rows[i].at > rows[j].at \/ (rows[i].at = rows[j].at /\ i < j)
      BY <1>2 DEF Ahead
    <3>2. DOMAIN rows \subseteq Nat
      <4>1. Len(rows) \in Nat /\ DOMAIN rows = 1..Len(rows)
        BY <1>1, Positions
      <4> QED BY <4>1
    <3> QED BY <3>1, <3>2
  <2> QED BY <2>1, <2>2
<1> HIDE DEF D, rows
<1>5. Cardinality(Ahead(rows, j)) < MaxPerSignal
  <2>1. IsFiniteSet(D \ {j}) /\ Cardinality(D \ {j}) = Cardinality(D) - 1
    BY <1>3, <1>4, FS_RemoveElement
  <2>2. /\ IsFiniteSet(Ahead(rows, j))
        /\ Cardinality(Ahead(rows, j)) <= Cardinality(D \ {j})
    BY <1>4, <2>1, FS_Subset
  <2>3. Cardinality(Ahead(rows, j)) \in Nat
    BY <2>2, FS_CardinalityType
  <2> QED BY <1>3, <2>1, <2>2, <2>3, CaptureAssumption
<1>6. rows[j] \in ToSet(QueryLogs(q))
  BY <1>5, LogsFacts DEF rows
<1> QED BY <1>6 DEF LogRecords, rows

Newer(q, t) == {j \in DOMAIN LogRows(q) : LogRows(q)[j].at >= t}
Recorded(batch, n) ==
  \E r \in batch.records :
    /\ r.kind = "LOG" /\ r.trace = lines[n].call /\ r.summary[1] = lines[n].event
    /\ lines[n].event = "request_completed" => r.summary[2] >= 500

LEMMA LineRecorded ==
  ASSUME Types, NEW q \in Windows, ~CollectEvidence(q).error, NEW n \in Wanted(q),
         lines[n].event \in KnownEvents,
         lines[n].event = "request_completed" => lines[n].status \in {502, 503, 504},
         Cardinality(Newer(q, lines[n].at)) <= MaxPerSignal
  PROVE  Recorded(CollectEvidence(q), n)
<1>1. LogRecords(q) \subseteq CollectEvidence(q).records
  <2>1. Sequence(Records(q)) /\ LogRecords(q) \subseteq ToSet(Records(q))
    BY RecordsFacts
  <2>2. ~Conflict(Records(q)) /\ CollectEvidence(q).records = Unique(Records(q))
    BY DEF CollectEvidence
  <2> QED BY <2>1, <2>2, UniqueFacts
<1>2. PICK j \in DOMAIN LogRows(q) : LogRows(q)[j] = lines[n]
  <2>1. ToSet(LogRows(q)) = {lines[m] : m \in Wanted(q)}
    BY LogRowsFacts
  <2> QED BY <2>1 DEF ToSet
<1>3. LogRecord(q, lines[n]) \in CollectEvidence(q).records
  <2>1. LogRecord(q, LogRows(q)[j]) \in LogRecords(q)
    BY <1>2, RowKept DEF Newer
  <2> QED BY <1>1, <1>2, <2>1
<1>4. /\ LogRecord(q, lines[n]).kind = "LOG" /\ LogRecord(q, lines[n]).trace = lines[n].call
      /\ LogRecord(q, lines[n]).summary[1] = lines[n].event
      /\ LogRecord(q, lines[n]).summary[2] = StatusOf(lines[n].status)
  BY DEF LogRecord
<1>5. lines[n].event = "request_completed" => StatusOf(lines[n].status) >= 500
  BY DEF StatusOf
<1> QED BY <1>3, <1>4, <1>5 DEF Recorded

LEMMA FailuresFit == TelemetryInv => FailureLeavesEvidence
<1>1. SUFFICES ASSUME TelemetryInv, NEW q \in Windows, ~CollectEvidence(q).error, NEW n \in Wanted(q),
                      lines[n].call # NULL, lines[n].event = "request_completed",
                      lines[n].status >= 500
               PROVE  /\ Cardinality(Newer(q, lines[n].at)) <= MaxPerSignal
                           => Recorded(CollectEvidence(q), n)
                      /\ \E m \in DOMAIN lines :
                           /\ lines[m].call = lines[n].call /\ lines[m].event = "dependency_call_failed"
                           /\ In(q, lines[m].at) /\ Cardinality(Newer(q, lines[m].at)) <= MaxPerSignal
                                => Recorded(CollectEvidence(q), m)
  BY DEF FailureLeavesEvidence, Newer, Recorded
<1>2. Types /\ Wanted(q) \subseteq DOMAIN lines /\ q.service = API
  BY <1>1, WindowFacts DEF TelemetryInv
<1>3. n \in DOMAIN lines /\ lines[n].service = API /\ lines[n].call \in Call
  BY <1>1, <1>2, LineFacts DEF LogLine, Wanted
<1>4. PICK c \in Call : c = lines[n].call
  BY <1>3
<1>5. /\ n \in Mine(c) /\ LinesFit(c) /\ call[c].pc \in {"NEW", "CALLING", "CONCLUDED", "ANSWERED"}
      /\ call[c].status \in {NULL, 200, 502, 503, 504}
  BY <1>1, <1>2, <1>3, <1>4 DEF Mine, TelemetryInv, Types, CallState
<1>6. call[c].pc = "ANSWERED"
  <2>1. call[c].pc \notin {"NEW", "CALLING"}
    BY <1>1, <1>5 DEF LinesFit, Begun
  <2>2. call[c].pc # "CONCLUDED"
    BY <1>1, <1>5 DEF LinesFit, Concluded, Begun, Outcome
  <2> QED BY <1>5, <2>1, <2>2
<1>7. PICK s \in DOMAIN lines, m \in DOMAIN lines, i \in DOMAIN lines : Story(c, s, m, i)
  BY <1>5, <1>6 DEF LinesFit
<1>8. n = i /\ lines[n].status \in {502, 503, 504} /\ lines[m].event = "dependency_call_failed"
  <2>1. n \in {s, m, i}
    BY <1>5, <1>7 DEF Story
  <2>2. n = i
    BY <1>1, <1>7, <2>1 DEF Story, Concluded, Begun, Outcome
  <2>3. lines[n].status = call[c].status /\ call[c].status # NULL
    BY <1>5, <1>6, <1>7, <2>2 DEF Story, LinesFit
  <2>4. call[c].status \in {502, 503, 504}
    BY <1>1, <1>5, <2>3
  <2> QED BY <1>7, <2>2, <2>3, <2>4 DEF Story, Concluded, Outcome
<1>9. lines[m].call = c /\ lines[m].service = API
  BY <1>7 DEF Story, Mine
<1>10. ASSUME In(q, lines[m].at), Cardinality(Newer(q, lines[m].at)) <= MaxPerSignal
       PROVE  Recorded(CollectEvidence(q), m)
  <2>1. m \in 1..q.loki /\ lines[m].at < q.end
    <3>1. /\ m \in Nat /\ 1 <= m /\ q.loki \in Nat /\ q.end \in Nat /\ n \in Nat
          /\ lines[m].at \in Nat /\ lines[n].at \in Nat
      BY <1>2, <1>3, WindowFacts, LineFacts DEF Types
    <3>2. n <= q.loki /\ lines[n].at < q.end
      BY DEF Wanted
    <3>3. m < n /\ lines[m].at <= lines[n].at
      BY <1>7, <1>8 DEF Story
    <3> QED BY <3>1, <3>2, <3>3
  <2>2. m \in Wanted(q)
    BY <1>2, <1>9, <1>10, <2>1 DEF Wanted
  <2> QED BY <1>1, <1>2, <1>8, <1>10, <2>2, LineRecorded DEF KnownEvents
<1>11. Cardinality(Newer(q, lines[n].at)) <= MaxPerSignal => Recorded(CollectEvidence(q), n)
  BY <1>1, <1>2, <1>8, LineRecorded DEF KnownEvents
<1> QED BY <1>4, <1>8, <1>9, <1>10, <1>11

(* A failed call is in the evidence as a server error, with its trace,     *)
(* when its lines have arrived and newer ones leave room for them; its     *)
(* outcome too, unless the window starts after it.                         *)
THEOREM FailuresLeaveEvidence == Spec => []FailureLeavesEvidence
<1> QED BY TelemetryInvariant, FailuresFit, PTL
=============================================================================
