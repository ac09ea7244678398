--------------------------- MODULE InventoryCall ----------------------------
(* The demo system an operator investigates: GET /inventory of the product *)
(* API (backend/main.py) calls the dependency service with a time-out      *)
(* (dependency_client.py), while an operator switches the dependency's     *)
(* mode (dependency_service/main.py).  Both services log each request they *)
(* answer (telemetry/request_logging.py) and trace it.                     *)
EXTENDS Integers, Sequences, FiniteSets

CONSTANTS
  Call,      \* requests to /inventory, each with its own request and trace id
  Timeout,   \* dependency_timeout_seconds
  Sleep,     \* how long the dependency sleeps in latency mode
  MaxTime,   \* bound on the clock
  NULL

Mode == {"NORMAL", "LATENCY", "ERROR"}
Serving == [mode : Mode, since : Nat, reply : {NULL, 200, 500}]

ASSUME InventoryAssumption == /\ {Timeout, Sleep, MaxTime} \subseteq Nat
                              /\ Timeout < Sleep
                              /\ NULL \notin Call \cup Nat \cup Serving

VARIABLES
  clock,
  mode,      \* _current_mode of the dependency service
  call,      \* what the API does for each call
  served,    \* what the dependency does for each call
  lines,     \* log lines, in the order written
  spans      \* spans, in the order they end

inventoryVars == <<clock, mode, call, served, lines, spans>>

API == "incident-demo-api"
Dependency == "dependency-service"

Line(service, c, event, status) ==
  [service |-> service, call |-> c, event |-> event, status |-> status, at |-> clock]
Span(service, c, start) == [service |-> service, call |-> c, at |-> start]

InventoryInit ==
  /\ clock = 0 /\ mode = "NORMAL"
  /\ call = [c \in Call |-> [pc |-> "NEW", since |-> 0, status |-> NULL]]
  /\ served = [c \in Call |-> NULL]
  /\ lines = <<>> /\ spans = <<>>

-----------------------------------------------------------------------------
(* The route asks the dependency; the request may take its time.           *)
Receive(c) ==
  /\ call[c].pc = "NEW"
  /\ call' = [call EXCEPT ![c].pc = "CALLING", ![c].since = clock]
  /\ lines' = Append(lines, Line(API, c, "dependency_call_started", NULL))
  /\ UNCHANGED <<clock, mode, served, spans>>

(* get_data starts, perhaps when the API has already given up.             *)
TakeCall(c) ==
  /\ call[c].pc # "NEW" /\ served[c] = NULL
  /\ served' = [served EXCEPT ![c] = [mode |-> mode, since |-> clock, reply |-> NULL]]
  /\ UNCHANGED <<clock, mode, call, lines, spans>>

(* The mode is read once, before the sleep.                                *)
(* Mutant: it is read again afterwards.                                    *)
ModeNow(c) == mode

ModeOf(c) == served[c].mode

Reply(c) ==
  /\ served[c] # NULL /\ served[c].reply = NULL
  /\ ModeOf(c) = "LATENCY" => clock >= served[c].since + Sleep
  /\ LET code == IF ModeOf(c) = "ERROR" THEN 500 ELSE 200 IN
     /\ served' = [served EXCEPT ![c].reply = code]
     /\ lines' = Append(lines, Line(Dependency, c, "request_completed", code))
  /\ spans' = Append(spans, Span(Dependency, c, served[c].since))
  /\ UNCHANGED <<clock, mode, call>>

(* fetch_dependency_data logs the outcome and the route turns it into a    *)
(* status.                                                                 *)
Conclude(c, event, code, status) ==
  /\ call[c].pc = "CALLING"
  /\ call' = [call EXCEPT ![c].pc = "CONCLUDED", ![c].status = status]
  /\ lines' = Append(lines, Line(API, c, event, code))
  /\ UNCHANGED <<clock, mode, served, spans>>

Respond(c) ==
  /\ served[c] # NULL
  /\ \/ served[c].reply = 200 /\ Conclude(c, "dependency_call_completed", 200, 200)
     \/ served[c].reply = 500 /\ Conclude(c, "dependency_call_failed", 500, 502)

Due(c) == call[c].pc = "CALLING" /\ clock >= call[c].since + Timeout
TimeOut(c) == Due(c) /\ Conclude(c, "dependency_call_failed", NULL, 504)

(* Connection refused, broken, or not made in time.                        *)
Unreachable(c) == Conclude(c, "dependency_call_failed", NULL, 503)

(* The response or the exception has come up through the route, perhaps    *)
(* after a while: the middleware logs its status and the span ends.        *)
Answer(c) ==
  /\ call[c].pc = "CONCLUDED"
  /\ call' = [call EXCEPT ![c].pc = "ANSWERED"]
  /\ lines' = Append(lines, Line(API, c, "request_completed", call[c].status))
  /\ spans' = Append(spans, Span(API, c, call[c].since))
  /\ UNCHANGED <<clock, mode, served>>

(* POST /control/mode, which is not logged; left out once no call is left  *)
(* that could notice.                                                      *)
SetMode(m) ==
  /\ {c \in Call : served[c] # NULL /\ served[c].reply # NULL} # Call
  /\ mode' = m
  /\ UNCHANGED <<clock, call, served, lines, spans>>

(* A timer of the API's event loop fires when it is due.                   *)
Tick ==
  /\ clock < MaxTime /\ \A c \in Call : ~Due(c)
  /\ clock' = clock + 1
  /\ UNCHANGED <<mode, call, served, lines, spans>>

InventoryNext ==
  \/ \E c \in Call : \/ Receive(c) \/ TakeCall(c) \/ Reply(c)
                     \/ Respond(c) \/ TimeOut(c) \/ Unreachable(c) \/ Answer(c)
  \/ \E m \in Mode : SetMode(m)
  \/ Tick

-----------------------------------------------------------------------------
(* What a caller is told is what happened: 200 and 502 tell the mode the   *)
(* dependency was in when it took the call, however often it was switched  *)
(* since, and a slow dependency never passes for a healthy one.  The log   *)
(* has one outcome for the call and says the same.                         *)
AnswerTrue ==
  \A c \in Call : call[c].pc = "ANSWERED" =>
    LET mine == {n \in DOMAIN lines : lines[n].call = c /\ lines[n].service = API}
        outcome == {n \in mine : lines[n].event \in {"dependency_call_failed", "dependency_call_completed"}}
        told == {n \in mine : lines[n].event = "request_completed"}
    IN  /\ call[c].status = 200 => served[c].mode = "NORMAL"
        /\ call[c].status = 502 => served[c].mode = "ERROR"
        /\ Cardinality(outcome) = 1 /\ {lines[n].status : n \in told} = {call[c].status}
        /\ \A n \in outcome : lines[n].event = "dependency_call_completed" <=> call[c].status = 200
=============================================================================
