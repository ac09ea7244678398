------------------------ MODULE SubmitInvestigation ------------------------
(***************************************************************************)
(* Queueing investigations of one incident: browsers that submit and       *)
(* resubmit the form (IncidentInvestigations.tsx) over a network that      *)
(* loses requests and answers, and API handlers that serialize on the      *)
(* incident row (create_investigation).  Requests of different incidents   *)
(* share no row.                                                           *)
(***************************************************************************)
EXTENDS Naturals

CONSTANTS
  Client,     \* browsers with the incident page open
  Payload,    \* values of the form
  Inv,        \* investigations there is room for
  Handler,    \* API threads
  MaxKeys,    \* bound: UUIDs a browser draws
  MaxFaults,  \* bound: connections that break and handlers that die
  NULL

ASSUME SubmitAssumption ==
  /\ MaxKeys \in Nat /\ MaxFaults \in Nat
  /\ NULL \notin Client \cup Payload \cup Inv

VARIABLES
  status,   \* investigation -> ABSENT, ACTIVE (QUEUED or RUNNING) or OVER
  focus,    \* investigation -> the payload it was created for
  request,  \* investigation_requests: key -> payload and investigation
  intent,   \* browser -> the SubmissionIntent it keeps
  used,     \* browser -> UUIDs drawn so far
  pending,  \* browser -> is its mutation in flight?
  listed,   \* browser -> does its list show an active investigation?
  net,      \* requests on their way
  answer,   \* browser -> the response on its way to it
  handler,  \* handler -> where it is and what it read
  faults

db   == <<status, focus, request>>
page == <<intent, used, pending, listed>>
vars == <<db, page, net, answer, handler, faults>>

Key == Client \X (1..MaxKeys)
Requests == [from: Client \cup {NULL}, key: Key, payload: Payload]
Intents == [key: Key, payload: Payload]
Entries == [payload: Payload, inv: Inv]

ASSUME NullAssumption ==
  NULL \notin Requests \cup Intents \cup [payload: Payload \cup {NULL}, inv: Inv \cup {NULL}]

IdleHandler == [pc |-> "IDLE", req |-> NULL, found |-> NULL, active |-> FALSE]

Init ==
  /\ status = [i \in Inv |-> "ABSENT"]
  /\ focus = [i \in Inv |-> NULL]
  /\ request = [k \in Key |-> NULL]
  /\ intent = [c \in Client |-> NULL]
  /\ used = [c \in Client |-> 0]
  /\ pending = [c \in Client |-> FALSE]
  /\ listed = [c \in Client |-> FALSE]
  /\ net = {}
  /\ answer = [c \in Client |-> NULL]
  /\ handler = [h \in Handler |-> IdleHandler]
  /\ faults = 0

-----------------------------------------------------------------------------
(* The browser.                                                            *)

(* Mutants: one key for all that a browser submits; a key is kept for      *)
(* another payload.                                                        *)
FreshKeyOfPage(c) == <<c, 1>>
KeepsAnyway(c, p) == intent[c] # NULL

FreshKey(c) == <<c, used[c] + 1>>
Keeps(c, p) == intent[c] # NULL /\ intent[c].payload = p

(* The button is disabled during a call and while the list shows an active *)
(* investigation; no code closes an incident.                              *)
ButtonEnabled(c) == ~pending[c] /\ ~listed[c]

Send(c, key, p) == net' = net \cup {[from |-> c, key |-> key, payload |-> p]}

(* The same values go out under the key they went out with before.         *)
Resubmit(c, p) ==
  /\ ButtonEnabled(c) /\ Keeps(c, p)
  /\ Send(c, intent[c].key, p)
  /\ pending' = [pending EXCEPT ![c] = TRUE]
  /\ UNCHANGED <<db, intent, used, listed, answer, handler, faults>>

SubmitNew(c, p) ==
  /\ ButtonEnabled(c) /\ ~Keeps(c, p) /\ used[c] < MaxKeys
  /\ intent' = [intent EXCEPT ![c] = [key |-> FreshKey(c), payload |-> p]]
  /\ used' = [used EXCEPT ![c] = @ + 1]
  /\ Send(c, FreshKey(c), p)
  /\ pending' = [pending EXCEPT ![c] = TRUE]
  /\ UNCHANGED <<db, listed, answer, handler, faults>>

Active == \E i \in Inv : status[i] = "ACTIVE"

(* Mutant: the list is polled while it shows nothing active.               *)
PollsIdle(c) == ~listed[c]

(* The list is fetched again and again while it shows something active.    *)
Polls(c) == listed[c]

Poll(c) ==
  /\ Polls(c)
  /\ listed' = [listed EXCEPT ![c] = Active]
  /\ UNCHANGED <<db, intent, used, pending, net, answer, handler, faults>>

(* The user opens the page or turns to another page of the list: only the  *)
(* first one has the investigation that is active.  During a call the      *)
(* button is disabled whatever the list shows.                             *)
View(c) ==
  /\ ~pending[c]
  /\ \E seen \in {Active, FALSE} : listed' = [listed EXCEPT ![c] = seen]
  /\ UNCHANGED <<db, intent, used, pending, net, answer, handler, faults>>

(* onSuccess forgets the intent and opens the investigation; onError keeps *)
(* the intent.  Both fetch the list again, which may fail, and the         *)
(* mutation is pending until they have.                                    *)
TakeAnswer(c) ==
  /\ answer[c] # NULL
  /\ intent' = [intent EXCEPT ![c] = IF answer[c].code = "ACCEPTED" THEN NULL ELSE @]
  /\ pending' = [pending EXCEPT ![c] = FALSE]
  /\ answer' = [answer EXCEPT ![c] = NULL]
  /\ \E seen \in {Active, listed[c]} : listed' = [listed EXCEPT ![c] = seen]
  /\ UNCHANGED <<db, used, net, handler, faults>>

(* Nobody listens to what is on its way for c any more; the requests may   *)
(* still arrive and be carried out.                                        *)
Orphan(req, c) == IF req # NULL /\ req.from = c THEN [req EXCEPT !.from = NULL] ELSE req
HangUp(c) ==
  /\ net' = {Orphan(m, c) : m \in net}
  /\ handler' = [h \in Handler |-> [handler[h] EXCEPT !.req = Orphan(@, c)]]
  /\ answer' = [answer EXCEPT ![c] = NULL]
  /\ pending' = [pending EXCEPT ![c] = FALSE]

(* fetch fails: the client reports NETWORK_ERROR.                          *)
NetworkError(c) ==
  /\ pending[c] /\ faults < MaxFaults
  /\ HangUp(c)
  /\ faults' = faults + 1
  /\ UNCHANGED <<db, intent, used, listed>>

(* The user leaves the page, at any moment: its state is gone.             *)
Leave(c) ==
  /\ intent[c] # NULL
  /\ HangUp(c)
  /\ intent' = [intent EXCEPT ![c] = NULL]
  /\ UNCHANGED <<db, used, listed, faults>>

(* A request nobody waits for need not arrive.                             *)
Vanish(m) ==
  /\ m.from = NULL
  /\ net' = net \ {m}
  /\ UNCHANGED <<db, page, answer, handler, faults>>

-----------------------------------------------------------------------------
(* create_investigation.                                                   *)

To(h, pc) == handler' = [handler EXCEPT ![h].pc = pc]

Receive(h, m) ==
  /\ handler[h].pc = "IDLE"
  /\ handler' = [handler EXCEPT ![h] = [IdleHandler EXCEPT !.pc = "CALLED", !.req = m]]
  /\ net' = net \ {m}
  /\ UNCHANGED <<db, page, answer, faults>>

(* Mutant: SELECT without FOR UPDATE.                                      *)
IncidentNeverLocked == FALSE

IncidentLocked == \E h \in Handler : handler[h].pc \in {"LOCKED", "READ"}

LockIncident(h) ==
  /\ handler[h].pc = "CALLED" /\ ~IncidentLocked
  /\ To(h, "LOCKED")
  /\ UNCHANGED <<db, page, net, answer, faults>>

(* Mutant: the request is not looked up.                                   *)
FoundNothing(key) == NULL

Found(key) == request[key]

ReadRows(h) ==
  /\ handler[h].pc = "LOCKED"
  /\ handler' = [handler EXCEPT ![h].pc = "READ", ![h].found = Found(handler[h].req.key),
                                ![h].active = Active]
  /\ UNCHANGED <<db, page, net, answer, faults>>

Verdict(s) ==
  CASE s.found # NULL /\ s.found.payload = s.req.payload -> "REPLAY"
    [] s.found # NULL /\ s.found.payload # s.req.payload -> "MISMATCH"
    [] s.found = NULL /\ s.active                        -> "CONFLICT"
    [] s.found = NULL /\ ~s.active                       -> "CREATE"

(* The transaction ends, the lock is released, the answer goes out.        *)
Finish(h, code, i) ==
  /\ handler' = [handler EXCEPT ![h] = IdleHandler]
  /\ LET c == handler[h].req.from IN
     answer' = IF c = NULL THEN answer
               ELSE [answer EXCEPT ![c] = [code |-> code, inv |-> i]]

Create(h, i) ==
  LET req == handler[h].req IN
  /\ handler[h].pc = "READ" /\ Verdict(handler[h]) = "CREATE"
  /\ status[i] = "ABSENT"
  /\ status' = [status EXCEPT ![i] = "ACTIVE"]
  /\ focus' = [focus EXCEPT ![i] = req.payload]
  /\ request' = [request EXCEPT ![req.key] = [payload |-> req.payload, inv |-> i]]
  /\ Finish(h, "ACCEPTED", i)
  /\ UNCHANGED <<page, net, faults>>

Replay(h) ==
  /\ handler[h].pc = "READ" /\ Verdict(handler[h]) = "REPLAY"
  /\ Finish(h, "ACCEPTED", handler[h].found.inv)
  /\ UNCHANGED <<db, page, net, faults>>

(* 409, for an active investigation or for a key used with another payload; *)
(* no browser reaches the second (see AnswersFit).                         *)
Reject(h) ==
  /\ handler[h].pc = "READ" /\ Verdict(handler[h]) \in {"CONFLICT", "MISMATCH"}
  /\ Finish(h, Verdict(handler[h]), NULL)
  /\ UNCHANGED <<db, page, net, faults>>

(* The API process or its database connection dies: rollback, no answer.   *)
Die(h) ==
  /\ handler[h].pc # "IDLE" /\ faults < MaxFaults
  /\ handler' = [handler EXCEPT ![h] = IdleHandler]
  /\ faults' = faults + 1
  /\ LET c == handler[h].req.from IN
     pending' = IF c = NULL THEN pending ELSE [pending EXCEPT ![c] = FALSE]
  /\ UNCHANGED <<db, intent, used, listed, net, answer>>

(* A worker brings an investigation to its end.                            *)
Settle(i) ==
  /\ status[i] = "ACTIVE"
  /\ status' = [status EXCEPT ![i] = "OVER"]
  /\ UNCHANGED <<focus, request, page, net, answer, handler, faults>>

Next ==
  \/ \E c \in Client : \/ \E p \in Payload : Resubmit(c, p) \/ SubmitNew(c, p)
                       \/ Poll(c) \/ View(c)
                       \/ TakeAnswer(c) \/ NetworkError(c) \/ Leave(c)
  \/ \E m \in net : Vanish(m) \/ \E h \in Handler : Receive(h, m)
  \/ \E h \in Handler : \/ LockIncident(h) \/ ReadRows(h) \/ Replay(h) \/ Reject(h) \/ Die(h)
                        \/ \E i \in Inv : Create(h, i)
  \/ \E i \in Inv : Settle(i)

Spec == Init /\ [][Next]_vars

(* The API answers what reaches it, answers and requests travel, workers   *)
(* bring what is active to its end (Settles of JobQueue), a list that shows *)
(* something active is polled, and the user keeps submitting the unchanged *)
(* values, while the button lets him, until something happens.             *)
HandlerStep(h) == \/ LockIncident(h) \/ ReadRows(h) \/ Replay(h) \/ Reject(h)
                  \/ \E i \in Inv : Create(h, i)
Fairness ==
  /\ \A c \in Client : /\ WF_vars(TakeAnswer(c)) /\ WF_vars(Poll(c))
                       /\ WF_vars(\E p \in Payload : Resubmit(c, p))
  /\ \A h \in Handler : SF_vars(HandlerStep(h))
  /\ \A c \in Client : SF_vars(\E m \in net : m.from = c /\ \E h \in Handler : Receive(h, m))
  /\ \A i \in Inv : WF_vars(Settle(i))

FairSpec == Spec /\ Fairness

-----------------------------------------------------------------------------
Answers == [code: {"ACCEPTED", "CONFLICT", "MISMATCH"}, inv: Inv \cup {NULL}]

(* The types of the variables, which the proofs rest on.                   *)
TypeOK ==
  /\ status \in [Inv -> {"ABSENT", "ACTIVE", "OVER"}]
  /\ focus \in [Inv -> Payload \cup {NULL}]
  /\ request \in [Key -> Entries \cup {NULL}]
  /\ intent \in [Client -> Intents \cup {NULL}]
  /\ used \in [Client -> 0..MaxKeys]
  /\ pending \in [Client -> BOOLEAN]
  /\ listed \in [Client -> BOOLEAN]
  /\ net \subseteq Requests
  /\ answer \in [Client -> Answers \cup {NULL}]
  /\ handler \in [Handler -> [pc: {"IDLE", "CALLED", "LOCKED", "READ"},
                             req: Requests \cup {NULL}, found: Entries \cup {NULL},
                             active: BOOLEAN]]
  /\ faults \in 0..MaxFaults

(* Wherever a key turns up, in the net, with a handler, in the table or    *)
(* with a browser, in a live call or one given up long ago, it stands for  *)
(* the same payload, so no copy of a request can be taken for another.     *)
Carries(k, p) ==
  \/ \E m \in net : m.key = k /\ m.payload = p
  \/ \E h \in Handler : /\ handler[h].pc # "IDLE"
                        /\ handler[h].req.key = k /\ handler[h].req.payload = p
  \/ request[k] # NULL /\ request[k].payload = p
  \/ \E c \in Client : intent[c] = [key |-> k, payload |-> p]
KeyMeansPayload ==
  \A k \in Key, p, q \in Payload : Carries(k, p) /\ Carries(k, q) => p = q

(* However many browsers submit at once, an incident never has two active  *)
(* investigations: what was read under the lock still holds at the commit. *)
OneActive == \A i, j \in Inv : status[i] = "ACTIVE" /\ status[j] = "ACTIVE" => i = j

(* Retries, lost answers and late copies create nothing twice: every       *)
(* investigation belongs to exactly one key, and to its payload.           *)
EachRunRequested ==
  \A i \in Inv : status[i] # "ABSENT" =>
    \E k \in Key : /\ request[k] = [payload |-> focus[i], inv |-> i]
                   /\ \A l \in Key : request[l] # NULL /\ request[l].inv = i => l = k

(* The answer a browser gets is about what it asks for: never another      *)
(* browser's investigation, never one of its own earlier submissions, and  *)
(* never the complaint that its key was used with another payload.         *)
AnswersFit ==
  \A c \in Client : answer[c] # NULL =>
    /\ pending[c] /\ intent[c] # NULL /\ answer[c].code # "MISMATCH"
    /\ answer[c].code = "ACCEPTED"
       => request[intent[c].key] = [payload |-> intent[c].payload, inv |-> answer[c].inv]

(* A user whose investigation was queued but whose answer was lost learns  *)
(* of it by submitting the same values again: at once while the list does  *)
(* not show it, and otherwise after it has ended, because the polled list  *)
(* enables the button then and the old request is still replayed.          *)
Open(c, k) == intent[c] # NULL /\ intent[c].key = k /\ request[k] # NULL
RetryLearns == \A c \in Client, k \in Key : Open(c, k) ~> ~Open(c, k)
=============================================================================
