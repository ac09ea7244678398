--------------------- MODULE SubmitInvestigationProofs ---------------------
(* One active investigation per incident, one request per investigation,   *)
(* and answers that fit the question, for any browsers, payloads, handlers *)
(* and faults.                                                             *)
EXTENDS SubmitInvestigation, TLAPS

AtWork(h) == handler[h].pc # "IDLE"
InRow(h)  == handler[h].pc \in {"LOCKED", "READ"}

(* One handler is past the lock of the incident; what it has read of the   *)
(* request is what is there, and what it found inactive stays inactive.    *)
Rows ==
  /\ \A h \in Handler :
       /\ AtWork(h) => handler[h].req \in Requests
       /\ handler[h].pc = "READ" => handler[h].found = request[handler[h].req.key]
       /\ handler[h].pc = "READ" /\ ~handler[h].active => ~Active
  /\ \A g, h \in Handler : InRow(g) /\ InRow(h) => g = h

(* A request somebody listens for is what that browser's intent says, and  *)
(* it is the only thing on its way for that browser.                       *)
Awaited(m) == /\ pending[m.from] /\ answer[m.from] = NULL
              /\ intent[m.from] = [key |-> m.key, payload |-> m.payload]
Calls ==
  /\ \A m \in net : m.from # NULL => Awaited(m)
  /\ \A h \in Handler : AtWork(h) /\ handler[h].req.from # NULL => Awaited(handler[h].req)
  /\ \A m, n \in net : m.from # NULL /\ m.from = n.from => m = n
  /\ \A m \in net, h \in Handler :
       AtWork(h) /\ m.from # NULL => handler[h].req.from # m.from
  /\ \A g, h \in Handler :
       AtWork(g) /\ AtWork(h) /\ handler[g].req.from # NULL
       /\ handler[g].req.from = handler[h].req.from => g = h

(* Every trace of a key, live or stale, comes with the one payload it was  *)
(* drawn for, by a browser that has drawn it.                              *)
Keys ==
  \A k \in Key, p \in Payload :
    Carries(k, p) => k[2] <= used[k[1]] /\ \A q \in Payload : Carries(k, q) => p = q

NoRunLost == \A k \in Key : request[k] # NULL => status[request[k].inv] # "ABSENT"

SubmitInv == /\ TypeOK /\ Rows /\ Calls /\ Keys /\ NoRunLost
             /\ OneActive /\ EachRunRequested /\ AnswersFit

HandlerStates == [pc: {"IDLE", "CALLED", "LOCKED", "READ"}, req: Requests \cup {NULL},
                  found: Entries \cup {NULL}, active: BOOLEAN]

-----------------------------------------------------------------------------
LEMMA InitInv == Init => SubmitInv
<1> SUFFICES ASSUME Init PROVE SubmitInv
  OBVIOUS
<1>1. TypeOK
  BY SubmitAssumption DEF Init, TypeOK, IdleHandler
<1>2. Rows /\ Calls
  BY DEF Init, Rows, Calls, AtWork, InRow, IdleHandler
<1>3. Keys
  <2>1. \A k \in Key, p \in Payload : [key |-> k, payload |-> p] # NULL
    BY NullAssumption DEF Intents
  <2> QED BY <2>1 DEF Init, Keys, Carries, AtWork, IdleHandler
<1>4. NoRunLost /\ OneActive /\ EachRunRequested /\ AnswersFit
  BY DEF Init, NoRunLost, OneActive, EachRunRequested, AnswersFit
<1> QED BY <1>1, <1>2, <1>3, <1>4 DEF SubmitInv

(* Keys survive a step that brings no new pair of key and payload.         *)
LEMMA KeysKept ==
  ASSUME Keys, used' = used,
         \A k \in Key, p \in Payload : Carries(k, p)' => Carries(k, p)
  PROVE  Keys'
  BY DEF Keys

(* What an orphan keeps: everything but its listener.                      *)
LEMMA OrphanKeeps ==
  ASSUME NEW c \in Client, NEW m \in Requests
  PROVE  /\ Orphan(m, c) \in Requests
         /\ Orphan(m, c).key = m.key /\ Orphan(m, c).payload = m.payload
         /\ Orphan(m, c).from # c
         /\ Orphan(m, c).from # NULL => Orphan(m, c) = m
  BY SubmitAssumption, NullAssumption DEF Orphan, Requests

(* What the tables promise survives any step that leaves them alone.       *)
LEMMA TablesKept ==
  ASSUME SubmitInv, UNCHANGED db
  PROVE  NoRunLost' /\ OneActive' /\ EachRunRequested' /\ (Active' <=> Active)
  BY DEF SubmitInv, db, NoRunLost, OneActive, EachRunRequested, Active

(* The same, of the next state.                                            *)
AwaitedNext(m) == /\ pending'[m.from] /\ answer'[m.from] = NULL
                  /\ intent'[m.from] = [key |-> m.key, payload |-> m.payload]

LEMMA NextAwaited ==
  ASSUME \A m \in net' : m.from # NULL => AwaitedNext(m),
         \A h \in Handler : AtWork(h)' /\ handler'[h].req.from # NULL => AwaitedNext(handler'[h].req)
  PROVE  /\ (\A m \in net : m.from # NULL => Awaited(m))'
         /\ (\A h \in Handler : AtWork(h) /\ handler[h].req.from # NULL => Awaited(handler[h].req))'
  BY DEF AwaitedNext, Awaited

(* Calls survive a step that makes none and disturbs nobody who waits.     *)
LEMMA CallsKept ==
  ASSUME Calls,
         \A m \in net' : m.from # NULL => m \in net,
         \A h \in Handler : AtWork(h)' /\ handler'[h].req.from # NULL
                            => AtWork(h) /\ handler'[h].req = handler[h].req,
         \A m \in net' : m.from # NULL /\ Awaited(m) => AwaitedNext(m),
         \A h \in Handler : AtWork(h)' /\ handler'[h].req.from # NULL /\ Awaited(handler[h].req)
                            => AwaitedNext(handler[h].req)
  PROVE  Calls'
<1>1. \A m \in net' : m.from # NULL => AwaitedNext(m)
  BY DEF Calls
<1>2. \A h \in Handler : AtWork(h)' /\ handler'[h].req.from # NULL => AwaitedNext(handler'[h].req)
  BY DEF Calls
<1>3. /\ (\A m \in net : m.from # NULL => Awaited(m))'
      /\ (\A h \in Handler : AtWork(h) /\ handler[h].req.from # NULL => Awaited(handler[h].req))'
  BY <1>1, <1>2, NextAwaited
<1>4. \A m, n \in net' : m.from # NULL /\ m.from = n.from => m = n
  BY DEF Calls
<1>5. \A m \in net', h \in Handler :
        AtWork(h)' /\ m.from # NULL => handler'[h].req.from # m.from
  BY DEF Calls
<1>6. \A g, h \in Handler :
        AtWork(g)' /\ AtWork(h)' /\ handler'[g].req.from # NULL
        /\ handler'[g].req.from = handler'[h].req.from => g = h
  BY DEF Calls
<1> QED BY <1>3, <1>4, <1>5, <1>6 DEF Calls

-----------------------------------------------------------------------------
(* The steps of a browser.                                                 *)

(* A browser that waits for nothing sends a request.                       *)
LEMMA Sent ==
  ASSUME SubmitInv, NEW c \in Client, NEW m \in Requests, m.from = c, ~pending[c],
         net' = net \cup {m}, pending' = [pending EXCEPT ![c] = TRUE],
         intent' = [intent EXCEPT ![c] = [key |-> m.key, payload |-> m.payload]],
         UNCHANGED <<db, listed, answer, handler, faults>>
  PROVE  /\ used' \in [Client -> 0..MaxKeys] => TypeOK'
         /\ Rows' /\ Calls' /\ AnswersFit'
<1>1. c # NULL
  BY SubmitAssumption
<1>2. answer[c] = NULL
  BY DEF SubmitInv, AnswersFit
<1>3. /\ \A n \in net : n.from # c
      /\ \A h \in Handler : AtWork(h) => handler[h].req.from # c
  BY <1>1 DEF SubmitInv, Calls, Awaited
<1>4. [key |-> m.key, payload |-> m.payload] \in Intents
  BY DEF Requests, Intents
<1>5. /\ intent' \in [Client -> Intents \cup {NULL}] /\ pending' \in [Client -> BOOLEAN]
      /\ intent'[c] = [key |-> m.key, payload |-> m.payload] /\ pending'[c]
      /\ \A d \in Client : d # c => intent'[d] = intent[d] /\ pending'[d] = pending[d]
  BY <1>4 DEF SubmitInv, TypeOK, Intents
<1>6. used' \in [Client -> 0..MaxKeys] => TypeOK'
  BY <1>5 DEF SubmitInv, TypeOK, db, Intents
<1>7. Rows'
  BY TablesKept DEF SubmitInv, Rows, AtWork, InRow, db
<1>8. Calls'
  <2>1. net \subseteq Requests /\ \A h \in Handler : AtWork(h) => handler[h].req \in Requests
    BY DEF SubmitInv, TypeOK, Rows
  <2>2. \A n \in Requests : n.from \notin {NULL, c} /\ Awaited(n) => AwaitedNext(n)
    BY <1>5 DEF Awaited, AwaitedNext, Requests
  <2>3. AwaitedNext(m)
    BY <1>2, <1>5 DEF AwaitedNext
  <2>4. \A n \in net' : n.from # NULL => AwaitedNext(n)
    BY <1>3, <2>1, <2>2, <2>3 DEF SubmitInv, Calls
  <2>5. \A h \in Handler : AtWork(h)' /\ handler'[h].req.from # NULL => AwaitedNext(handler'[h].req)
    BY <1>3, <2>1, <2>2 DEF SubmitInv, Calls, AtWork
  <2>6. /\ (\A n \in net : n.from # NULL => Awaited(n))'
        /\ (\A h \in Handler : AtWork(h) /\ handler[h].req.from # NULL => Awaited(handler[h].req))'
    BY <2>4, <2>5, NextAwaited
  <2>7. \A n, o \in net' : n.from # NULL /\ n.from = o.from => n = o
    BY <1>3 DEF SubmitInv, Calls
  <2>8. \A n \in net', h \in Handler :
          AtWork(h) /\ n.from # NULL => handler[h].req.from # n.from
    BY <1>3 DEF SubmitInv, Calls
  <2> QED BY <2>6, <2>7, <2>8 DEF SubmitInv, Calls, AtWork
<1>9. AnswersFit'
  BY <1>2, <1>5 DEF SubmitInv, AnswersFit, db
<1> QED BY <1>6, <1>7, <1>8, <1>9

LEMMA Resubmitted ==
  ASSUME SubmitInv, NEW c \in Client, NEW p \in Payload, Resubmit(c, p)
  PROVE  SubmitInv'
<1> DEFINE m == [from |-> c, key |-> intent[c].key, payload |-> p]
<1>1. /\ ~pending[c] /\ intent[c] # NULL /\ intent[c].payload = p
      /\ net' = net \cup {m} /\ pending' = [pending EXCEPT ![c] = TRUE]
      /\ UNCHANGED <<db, intent, used, listed, answer, handler, faults>>
  BY DEF Resubmit, ButtonEnabled, Keeps, Send
<1>2. intent[c] \in Intents /\ m \in Requests
  BY <1>1 DEF SubmitInv, TypeOK, Intents, Requests
<1>3. m.from = c /\ intent[c] = [key |-> m.key, payload |-> m.payload]
  BY <1>1, <1>2 DEF Intents
<1>4. intent' = [intent EXCEPT ![c] = [key |-> m.key, payload |-> m.payload]]
  BY <1>1, <1>3 DEF SubmitInv, TypeOK
<1> HIDE DEF m
<1>5. TypeOK' /\ Rows' /\ Calls' /\ AnswersFit'
  BY <1>1, <1>2, <1>3, <1>4, Sent DEF SubmitInv, TypeOK
<1>6. Keys'
  <2>1. \A k \in Key, q \in Payload : Carries(k, q)' => Carries(k, q)
    BY <1>1, <1>3 DEF Carries, AtWork, db
  <2> QED BY <1>1, <2>1, KeysKept DEF SubmitInv
<1> QED BY <1>1, <1>5, <1>6, TablesKept DEF SubmitInv

LEMMA SubmittedNew ==
  ASSUME SubmitInv, NEW c \in Client, NEW p \in Payload, SubmitNew(c, p)
  PROVE  SubmitInv'
<1> DEFINE m == [from |-> c, key |-> FreshKey(c), payload |-> p]
<1>1. /\ ~pending[c] /\ used[c] < MaxKeys
      /\ net' = net \cup {m} /\ pending' = [pending EXCEPT ![c] = TRUE]
      /\ intent' = [intent EXCEPT ![c] = [key |-> FreshKey(c), payload |-> p]]
      /\ used' = [used EXCEPT ![c] = @ + 1]
      /\ UNCHANGED <<db, listed, answer, handler, faults>>
  BY DEF SubmitNew, ButtonEnabled, Send
<1>2. used[c] \in Nat /\ used[c] + 1 \in 1..MaxKeys
  BY <1>1, SubmitAssumption DEF SubmitInv, TypeOK
<1>3. FreshKey(c) \in Key
  BY <1>2 DEF FreshKey, Key
<1>4. m \in Requests /\ m.from = c /\ m.key = FreshKey(c) /\ m.payload = p
  BY <1>3 DEF Requests
<1>5. /\ used' \in [Client -> 0..MaxKeys] /\ used'[c] = used[c] + 1
      /\ \A d \in Client : used[d] \in Nat /\ used'[d] \in Nat /\ used[d] <= used'[d]
  BY <1>1, <1>2, SubmitAssumption DEF SubmitInv, TypeOK
<1> HIDE DEF m
<1>6. TypeOK' /\ Rows' /\ Calls' /\ AnswersFit'
  BY <1>1, <1>4, <1>5, Sent
<1>7. Keys'
  <2>1. \A k \in Key : k[1] \in Client /\ k[2] \in Nat /\ k = <<k[1], k[2]>>
    BY DEF Key
  <2>2. FreshKey(c)[1] = c /\ FreshKey(c)[2] = used[c] + 1
    BY DEF FreshKey
  <2>3. \A q \in Payload : ~Carries(FreshKey(c), q)
    BY <1>2, <1>3, <2>2 DEF SubmitInv, Keys
  <2>4. \A d \in Client : intent'[d] = intent[d] \/ intent'[d] = [key |-> FreshKey(c), payload |-> p]
    BY <1>1 DEF SubmitInv, TypeOK
  <2>5. \A k \in Key, q \in Payload :
          Carries(k, q)' => Carries(k, q) \/ (k = FreshKey(c) /\ q = p)
    BY <1>1, <1>4, <2>4 DEF Carries, AtWork, db
  <2>6. ASSUME NEW k \in Key, NEW q \in Payload, Carries(k, q)'
        PROVE  k[2] <= used'[k[1]]
    <3>1. CASE Carries(k, q)
      BY <1>5, <2>1, <3>1 DEF SubmitInv, Keys
    <3>2. CASE k = FreshKey(c)
      BY <1>2, <1>5, <2>2, <3>2
    <3> QED BY <2>5, <2>6, <3>1, <3>2
  <2>7. \A k \in Key, q, r \in Payload : Carries(k, q)' /\ Carries(k, r)' => q = r
    BY <2>3, <2>5 DEF SubmitInv, Keys
  <2> QED BY <2>6, <2>7 DEF Keys
<1> QED BY <1>1, <1>6, <1>7, TablesKept DEF SubmitInv

(* A browser takes its answer: nothing else is on its way for it.          *)
LEMMA AnswerTaken ==
  ASSUME SubmitInv, NEW c \in Client, TakeAnswer(c)
  PROVE  SubmitInv'
<1>1. /\ answer[c] # NULL
      /\ intent' = [intent EXCEPT ![c] = IF answer[c].code = "ACCEPTED" THEN NULL ELSE @]
      /\ pending' = [pending EXCEPT ![c] = FALSE] /\ answer' = [answer EXCEPT ![c] = NULL]
      /\ UNCHANGED <<db, used, net, handler, faults>>
  BY DEF TakeAnswer
<1>2. /\ intent' \in [Client -> Intents \cup {NULL}] /\ pending' \in [Client -> BOOLEAN]
      /\ answer' \in [Client -> Answers \cup {NULL}] /\ answer'[c] = NULL
      /\ intent'[c] \in {intent[c], NULL}
      /\ \A d \in Client : d # c => /\ intent'[d] = intent[d] /\ pending'[d] = pending[d]
                                    /\ answer'[d] = answer[d]
  BY <1>1 DEF SubmitInv, TypeOK
<1>3. TypeOK'
  <2>1. listed' \in [Client -> BOOLEAN]
    BY DEF TakeAnswer, Active, SubmitInv, TypeOK
  <2> QED BY <1>1, <1>2, <2>1 DEF SubmitInv, TypeOK, db
<1>4. Rows'
  BY <1>1, TablesKept DEF SubmitInv, Rows, AtWork, InRow, db
<1>5. Calls'
  <2>1. net \subseteq Requests /\ \A h \in Handler : AtWork(h) => handler[h].req \in Requests
    BY DEF SubmitInv, TypeOK, Rows
  <2>2. \A m \in Requests : m.from # NULL /\ Awaited(m) => AwaitedNext(m)
    BY <1>1, <1>2 DEF Awaited, AwaitedNext, Requests
  <2>3. \A h \in Handler : AtWork(h)' <=> AtWork(h)
    BY <1>1 DEF AtWork
  <2> QED BY <1>1, <2>1, <2>2, <2>3, CallsKept DEF SubmitInv
<1>6. Keys'
  <2>1. \A k \in Key, q \in Payload : [key |-> k, payload |-> q] # NULL
    BY NullAssumption DEF Intents
  <2>2. \A k \in Key, q \in Payload : Carries(k, q)' => Carries(k, q)
    BY <1>1, <1>2, <2>1 DEF Carries, AtWork, db
  <2> QED BY <1>1, <2>2, KeysKept DEF SubmitInv
<1>7. AnswersFit'
  BY <1>1, <1>2 DEF SubmitInv, AnswersFit, db
<1> QED BY <1>1, <1>3, <1>4, <1>5, <1>6, <1>7, TablesKept DEF SubmitInv

(* What the list shows changes nothing but the button.                     *)
LEMMA ListSeen ==
  ASSUME SubmitInv, NEW c \in Client, Poll(c) \/ View(c)
  PROVE  SubmitInv'
<1>1. /\ listed' \in [Client -> BOOLEAN]
      /\ UNCHANGED <<db, intent, used, pending, net, answer, handler, faults>>
  BY DEF Poll, View, Active, SubmitInv, TypeOK
<1>2. TypeOK'
  BY <1>1 DEF SubmitInv, TypeOK, db
<1>3. Rows'
  BY <1>1, TablesKept DEF SubmitInv, Rows, AtWork, InRow, db
<1>4. Calls'
  <2>1. \A m : Awaited(m) => AwaitedNext(m)
    BY <1>1 DEF Awaited, AwaitedNext
  <2>2. \A h \in Handler : AtWork(h)' <=> AtWork(h)
    BY <1>1 DEF AtWork
  <2> QED BY <1>1, <2>1, <2>2, CallsKept DEF SubmitInv
<1>5. Keys'
  <2>1. \A k \in Key, q \in Payload : Carries(k, q)' => Carries(k, q)
    BY <1>1 DEF Carries, AtWork, db
  <2> QED BY <1>1, <2>1, KeysKept DEF SubmitInv
<1>6. AnswersFit'
  BY <1>1 DEF SubmitInv, AnswersFit, db
<1> QED BY <1>1, <1>2, <1>3, <1>4, <1>5, <1>6, TablesKept DEF SubmitInv

(* Giving up a call takes its listener from what is on its way.            *)
LEMMA HungUp ==
  ASSUME SubmitInv, NEW c \in Client, HangUp(c), faults' \in 0..MaxFaults,
         intent' \in [Client -> Intents \cup {NULL}], intent'[c] \in {intent[c], NULL},
         \A d \in Client : d # c => intent'[d] = intent[d],
         UNCHANGED <<db, used, listed>>
  PROVE  SubmitInv'
<1>1. /\ pending' \in [Client -> BOOLEAN] /\ answer' \in [Client -> Answers \cup {NULL}]
      /\ answer'[c] = NULL
      /\ \A d \in Client : d # c => pending'[d] = pending[d] /\ answer'[d] = answer[d]
  BY DEF HangUp, SubmitInv, TypeOK
<1>2. \A m \in net' : \E n \in net :
        /\ m \in Requests /\ m.key = n.key /\ m.payload = n.payload
        /\ m.from # c /\ (m.from # NULL => m = n)
  BY OrphanKeeps DEF HangUp, SubmitInv, TypeOK
<1>3. Orphan(NULL, c) = NULL
  BY DEF Orphan
<1>4. handler' \in [Handler -> HandlerStates]
  <2> SUFFICES ASSUME NEW h \in Handler
               PROVE [handler[h] EXCEPT !.req = Orphan(handler[h].req, c)] \in HandlerStates
    BY DEF HangUp
  <2>1. Orphan(handler[h].req, c) \in Requests \cup {NULL}
    BY <1>3, OrphanKeeps DEF SubmitInv, TypeOK
  <2> QED BY <2>1 DEF SubmitInv, TypeOK, HandlerStates
<1>5. \A h \in Handler : /\ handler'[h].pc = handler[h].pc /\ handler'[h].found = handler[h].found
                         /\ handler'[h].active = handler[h].active
                         /\ handler'[h].req = Orphan(handler[h].req, c)
  BY DEF HangUp, SubmitInv, TypeOK
<1>6. \A h \in Handler : (AtWork(h)' <=> AtWork(h)) /\ (InRow(h)' <=> InRow(h))
  BY <1>5 DEF AtWork, InRow
<1>7. \A h \in Handler : AtWork(h) =>
        /\ handler'[h].req \in Requests /\ handler'[h].req.key = handler[h].req.key
        /\ handler'[h].req.payload = handler[h].req.payload /\ handler'[h].req.from # c
        /\ handler'[h].req.from # NULL => handler'[h].req = handler[h].req
  BY <1>5, OrphanKeeps DEF SubmitInv, Rows
<1>8. TypeOK'
  BY <1>1, <1>2, <1>4 DEF SubmitInv, TypeOK, db, HandlerStates
<1>9. Rows'
  <2>1. \A h \in Handler :
          /\ AtWork(h)' => handler'[h].req \in Requests
          /\ handler'[h].pc = "READ" => handler'[h].found = request[handler'[h].req.key]
          /\ handler'[h].pc = "READ" /\ ~handler'[h].active => ~Active
    BY <1>5, <1>6, <1>7 DEF SubmitInv, Rows, AtWork
  <2> QED BY <1>6, <2>1, TablesKept DEF SubmitInv, Rows, db
<1>10. Calls'
  <2>1. \A m \in Requests : m.from \notin {NULL, c} /\ Awaited(m) => AwaitedNext(m)
    BY <1>1 DEF Awaited, AwaitedNext, Requests
  <2>2. \A m \in net' : m.from # NULL => m \in net /\ (Awaited(m) => AwaitedNext(m))
    BY <1>2, <2>1
  <2>3. \A h \in Handler : AtWork(h)' /\ handler'[h].req.from # NULL =>
          /\ AtWork(h) /\ handler'[h].req = handler[h].req
          /\ Awaited(handler[h].req) => AwaitedNext(handler[h].req)
    BY <1>6, <1>7, <2>1
  <2> QED BY <2>2, <2>3, CallsKept DEF SubmitInv
<1>11. Keys'
  <2>1. \A k \in Key, q \in Payload : [key |-> k, payload |-> q] # NULL
    BY NullAssumption DEF Intents
  <2>2. \A k \in Key, q \in Payload : Carries(k, q)' => Carries(k, q)
    <3> SUFFICES ASSUME NEW k \in Key, NEW q \in Payload, Carries(k, q)' PROVE Carries(k, q)
      OBVIOUS
    <3>1. CASE \E m \in net' : m.key = k /\ m.payload = q
      BY <1>2, <3>1 DEF Carries, AtWork
    <3>2. CASE \E h \in Handler : AtWork(h)' /\ handler'[h].req.key = k /\ handler'[h].req.payload = q
      BY <1>6, <1>7, <3>2 DEF Carries, AtWork
    <3>3. CASE request'[k] # NULL /\ request'[k].payload = q
      BY <3>3 DEF Carries, AtWork, db
    <3>4. CASE \E d \in Client : intent'[d] = [key |-> k, payload |-> q]
      BY <2>1, <3>4 DEF Carries, AtWork
    <3> QED BY <3>1, <3>2, <3>3, <3>4 DEF Carries, AtWork
  <2> QED BY <2>2, KeysKept DEF SubmitInv
<1>12. AnswersFit'
  BY <1>1 DEF SubmitInv, AnswersFit, db
<1> QED BY <1>8, <1>9, <1>10, <1>11, <1>12, TablesKept DEF SubmitInv

LEMMA GivenUp ==
  ASSUME SubmitInv, NEW c \in Client, NetworkError(c) \/ Leave(c)
  PROVE  SubmitInv'
<1>1. HangUp(c) /\ UNCHANGED <<db, used, listed>>
  BY DEF NetworkError, Leave
<1>2. faults' \in 0..MaxFaults
  BY SubmitAssumption DEF NetworkError, Leave, SubmitInv, TypeOK
<1>3. /\ intent' \in [Client -> Intents \cup {NULL}] /\ intent'[c] \in {intent[c], NULL}
      /\ \A d \in Client : d # c => intent'[d] = intent[d]
  BY DEF NetworkError, Leave, SubmitInv, TypeOK
<1> QED BY <1>1, <1>2, <1>3, HungUp

-----------------------------------------------------------------------------
(* The steps of the network and of a handler.                              *)
LEMMA Vanished ==
  ASSUME SubmitInv, NEW m \in net, Vanish(m)
  PROVE  SubmitInv'
<1>1. net' \subseteq net /\ UNCHANGED <<db, page, answer, handler, faults>>
  BY DEF Vanish
<1>2. TypeOK'
  BY <1>1 DEF SubmitInv, TypeOK, db, page
<1>3. Rows'
  BY <1>1, TablesKept DEF SubmitInv, Rows, AtWork, InRow, db
<1>4. Calls'
  <2>1. /\ \A n \in net' : n.from # NULL => n \in net
        /\ \A h \in Handler : AtWork(h)' /\ handler'[h].req.from # NULL
                              => AtWork(h) /\ handler'[h].req = handler[h].req
        /\ \A n : Awaited(n) => AwaitedNext(n)
    BY <1>1 DEF AtWork, Awaited, AwaitedNext, page
  <2> QED BY <2>1, CallsKept DEF SubmitInv
<1>5. Keys'
  <2>1. \A k \in Key, q \in Payload : Carries(k, q)' => Carries(k, q)
    BY <1>1 DEF Carries, AtWork, db, page
  <2> QED BY <1>1, <2>1, KeysKept DEF SubmitInv, page
<1>6. AnswersFit'
  BY <1>1 DEF SubmitInv, AnswersFit, db, page
<1> QED BY <1>1, <1>2, <1>3, <1>4, <1>5, <1>6, TablesKept DEF SubmitInv

(* A request moves from the network to a handler.                          *)
LEMMA Received ==
  ASSUME SubmitInv, NEW m \in net, NEW h \in Handler, Receive(h, m)
  PROVE  SubmitInv'
<1> DEFINE new == [IdleHandler EXCEPT !.pc = "CALLED", !.req = m]
<1>1. /\ ~AtWork(h) /\ handler' = [handler EXCEPT ![h] = new] /\ net' = net \ {m}
      /\ UNCHANGED <<db, page, answer, faults>>
  BY DEF Receive, AtWork
<1>2. m \in Requests
  BY DEF SubmitInv, TypeOK
<1>3. new \in HandlerStates /\ new.pc = "CALLED" /\ new.req = m
  BY <1>2 DEF HandlerStates, IdleHandler
<1> HIDE DEF new
<1>4. /\ handler' \in [Handler -> HandlerStates] /\ handler'[h] = new
      /\ \A g \in Handler : g # h => handler'[g] = handler[g]
  BY <1>1, <1>3 DEF SubmitInv, TypeOK, HandlerStates
<1>5. TypeOK'
  BY <1>1, <1>4 DEF SubmitInv, TypeOK, HandlerStates, db, page
<1>6. /\ \A g \in Handler : g # h => (AtWork(g)' <=> AtWork(g)) /\ (InRow(g)' <=> InRow(g))
      /\ AtWork(h)' /\ ~InRow(h)'
  BY <1>3, <1>4 DEF AtWork, InRow
<1>7. Rows'
  <2>1. \A g \in Handler :
          /\ AtWork(g)' => handler'[g].req \in Requests
          /\ handler'[g].pc = "READ" => handler'[g].found = request[handler'[g].req.key]
          /\ handler'[g].pc = "READ" /\ ~handler'[g].active => ~Active
    BY <1>2, <1>3, <1>4, <1>6 DEF SubmitInv, Rows
  <2>2. \A f, g \in Handler : InRow(f)' /\ InRow(g)' => f = g
    BY <1>6 DEF SubmitInv, Rows
  <2> QED BY <1>1, <2>1, <2>2, TablesKept DEF Rows, db
<1>8. Calls'
  <2>1. \A n : Awaited(n) => AwaitedNext(n)
    BY <1>1 DEF Awaited, AwaitedNext, page
  <2>2. \A n \in net' : n.from # NULL => AwaitedNext(n)
    BY <1>1, <2>1 DEF SubmitInv, Calls
  <2>3. \A g \in Handler : AtWork(g)' /\ handler'[g].req.from # NULL => AwaitedNext(handler'[g].req)
    BY <1>3, <1>4, <1>6, <2>1 DEF SubmitInv, Calls
  <2>4. /\ (\A n \in net : n.from # NULL => Awaited(n))'
        /\ (\A g \in Handler : AtWork(g) /\ handler[g].req.from # NULL => Awaited(handler[g].req))'
    BY <2>2, <2>3, NextAwaited
  <2>5. \A n, o \in net' : n.from # NULL /\ n.from = o.from => n = o
    BY <1>1 DEF SubmitInv, Calls
  <2>6. \A n \in net' : n.from # NULL => n.from # m.from
    BY <1>1 DEF SubmitInv, Calls
  <2>7. \A n \in net', g \in Handler :
          AtWork(g)' /\ n.from # NULL => handler'[g].req.from # n.from
    BY <1>1, <1>3, <1>4, <1>6, <2>6 DEF SubmitInv, Calls
  <2>8. \A f, g \in Handler :
          AtWork(f)' /\ AtWork(g)' /\ handler'[f].req.from # NULL
          /\ handler'[f].req.from = handler'[g].req.from => f = g
    BY <1>3, <1>4, <1>6 DEF SubmitInv, Calls
  <2> QED BY <2>4, <2>5, <2>7, <2>8 DEF Calls
<1>9. Keys'
  <2>1. \A k \in Key, q \in Payload : Carries(k, q)' => Carries(k, q)
    BY <1>1, <1>3, <1>4, <1>6 DEF Carries, AtWork, db, page
  <2> QED BY <1>1, <2>1, KeysKept DEF SubmitInv, page
<1>10. AnswersFit'
  BY <1>1 DEF SubmitInv, AnswersFit, db, page
<1> QED BY <1>1, <1>5, <1>7, <1>8, <1>9, <1>10, TablesKept DEF SubmitInv

(* The incident is locked by one handler, which then reads what is there.  *)
LEMMA RowSteps ==
  ASSUME SubmitInv, NEW h \in Handler, LockIncident(h) \/ ReadRows(h)
  PROVE  SubmitInv'
<1> DEFINE s == handler[h]
           new == IF LockIncident(h) THEN [s EXCEPT !.pc = "LOCKED"]
                  ELSE [s EXCEPT !.pc = "READ", !.found = request[s.req.key], !.active = Active]
<1>1. s \in HandlerStates /\ AtWork(h) /\ s.req \in Requests
  BY DEF SubmitInv, TypeOK, Rows, HandlerStates, LockIncident, ReadRows, AtWork
<1>2. request[s.req.key] \in Entries \cup {NULL} /\ Active \in BOOLEAN
  BY <1>1 DEF SubmitInv, TypeOK, Requests, Active
<1>3. /\ new \in HandlerStates /\ new.pc \in {"LOCKED", "READ"} /\ new.req = s.req
      /\ new.pc = "READ" => new.found = request[new.req.key] /\ (new.active <=> Active)
  BY <1>1, <1>2 DEF HandlerStates
<1>4. /\ handler' = [handler EXCEPT ![h] = new]
      /\ UNCHANGED <<db, page, net, answer, faults>>
  BY DEF LockIncident, ReadRows, To, Found
<1>5. \A g \in Handler : InRow(g) => g = h
  BY DEF LockIncident, ReadRows, IncidentLocked, InRow, SubmitInv, Rows
<1> HIDE DEF s, new
<1>6. /\ handler' \in [Handler -> HandlerStates] /\ handler'[h] = new
      /\ \A g \in Handler : g # h => handler'[g] = handler[g]
  BY <1>3, <1>4 DEF SubmitInv, TypeOK, HandlerStates
<1>7. TypeOK'
  BY <1>4, <1>6 DEF SubmitInv, TypeOK, HandlerStates, db, page
<1>8. handler[h].req = s.req
  BY DEF s
<1>9. \A g \in Handler : /\ AtWork(g)' <=> AtWork(g)
                         /\ g # h => ~InRow(g)'
                         /\ handler'[g].req = handler[g].req
  BY <1>1, <1>3, <1>5, <1>6, <1>8 DEF AtWork, InRow
<1>10. Rows'
  <2>1. \A g \in Handler :
          /\ AtWork(g)' => handler'[g].req \in Requests
          /\ handler'[g].pc = "READ" => handler'[g].found = request[handler'[g].req.key]
          /\ handler'[g].pc = "READ" /\ ~handler'[g].active => ~Active
    BY <1>3, <1>6, <1>9 DEF SubmitInv, Rows
  <2> QED BY <1>4, <1>9, <2>1, TablesKept DEF Rows, db
<1>11. Calls'
  <2>1. \A n : Awaited(n) => AwaitedNext(n)
    BY <1>4 DEF Awaited, AwaitedNext, page
  <2> QED BY <1>4, <1>9, <2>1, CallsKept DEF SubmitInv
<1>12. Keys'
  <2>1. \A k \in Key, q \in Payload : Carries(k, q)' => Carries(k, q)
    BY <1>4, <1>9 DEF Carries, AtWork, db, page
  <2> QED BY <1>4, <2>1, KeysKept DEF SubmitInv, page
<1>13. AnswersFit'
  BY <1>4 DEF SubmitInv, AnswersFit, db, page
<1> QED BY <1>4, <1>7, <1>10, <1>11, <1>12, <1>13, TablesKept DEF SubmitInv

(* A handler that is about to answer found its key unused, or used with    *)
(* its own payload.                                                        *)
LEMMA NoMismatch ==
  ASSUME SubmitInv, NEW h \in Handler, handler[h].pc = "READ"
  PROVE  /\ AtWork(h) /\ InRow(h) /\ handler[h].req \in Requests
         /\ handler[h].found = request[handler[h].req.key]
         /\ request[handler[h].req.key] \in Entries \cup {NULL}
         /\ handler[h].found # NULL => handler[h].found.payload = handler[h].req.payload
<1> DEFINE req == handler[h].req
<1>1. AtWork(h) /\ InRow(h) /\ req \in Requests /\ handler[h].found = request[req.key]
  BY DEF SubmitInv, Rows, AtWork, InRow
<1>2. request[req.key] \in Entries \cup {NULL} /\ req.key \in Key /\ req.payload \in Payload
  BY <1>1 DEF SubmitInv, TypeOK, Requests
<1>3. ASSUME handler[h].found # NULL PROVE handler[h].found.payload = req.payload
  <2>1. Carries(req.key, req.payload) /\ Carries(req.key, request[req.key].payload)
    BY <1>1, <1>3 DEF Carries, AtWork
  <2>2. request[req.key].payload \in Payload
    BY <1>1, <1>2, <1>3 DEF Entries
  <2> QED BY <1>1, <1>2, <2>1, <2>2 DEF SubmitInv, Keys
<1> QED BY <1>1, <1>2, <1>3

(* The end of a transaction, whatever it wrote under its own key.          *)
LEMMA Finished ==
  ASSUME SubmitInv, NEW h \in Handler, handler[h].pc = "READ",
         NEW code \in {"ACCEPTED", "CONFLICT"}, NEW i \in Inv \cup {NULL}, Finish(h, code, i),
         status' \in [Inv -> {"ABSENT", "ACTIVE", "OVER"}],
         focus' \in [Inv -> Payload \cup {NULL}],
         request' \in [Key -> Entries \cup {NULL}],
         code = "ACCEPTED" => request'[handler[h].req.key] = [payload |-> handler[h].req.payload,
                                                              inv |-> i],
         \A k \in Key : /\ request[k] # NULL => request'[k] = request[k]
                        /\ request'[k] # NULL /\ request[k] = NULL
                           => k = handler[h].req.key /\ request'[k].payload = handler[h].req.payload,
         UNCHANGED <<page, net, faults>>
  PROVE  TypeOK' /\ Rows' /\ Calls' /\ Keys' /\ AnswersFit'
<1> DEFINE req == handler[h].req
           ans == [code |-> code, inv |-> i]
<1>1. AtWork(h) /\ InRow(h) /\ req \in Requests
  BY NoMismatch
<1>2. ans \in Answers
  BY DEF Answers
<1>3. /\ handler' = [handler EXCEPT ![h] = IdleHandler]
      /\ answer' = IF req.from = NULL THEN answer ELSE [answer EXCEPT ![req.from] = ans]
  BY DEF Finish
<1>4. IdleHandler \in HandlerStates /\ IdleHandler.pc = "IDLE"
  BY DEF IdleHandler, HandlerStates
<1>5. /\ handler' \in [Handler -> HandlerStates] /\ handler'[h] = IdleHandler
      /\ \A g \in Handler : g # h => handler'[g] = handler[g]
  BY <1>3, <1>4 DEF SubmitInv, TypeOK, HandlerStates
<1>6. /\ answer' \in [Client -> Answers \cup {NULL}]
      /\ \A c \in Client : c # req.from => answer'[c] = answer[c]
      /\ req.from # NULL => req.from \in Client /\ answer'[req.from] = ans
  BY <1>1, <1>2, <1>3 DEF SubmitInv, TypeOK, Requests
<1>7. TypeOK'
  BY <1>5, <1>6 DEF SubmitInv, TypeOK, HandlerStates, page
<1>8. \A g \in Handler : /\ ~InRow(g)'
                         /\ AtWork(g)' => g # h /\ AtWork(g) /\ handler'[g] = handler[g]
  BY <1>1, <1>4, <1>5 DEF SubmitInv, Rows, InRow, AtWork
<1>9. Rows'
  <2>1. \A g \in Handler : handler'[g].pc # "READ"
    BY <1>8 DEF InRow
  <2> QED BY <1>8, <2>1 DEF SubmitInv, Rows
<1>10. Calls'
  <2>1. \A m \in Requests : m.from \notin {NULL, req.from} /\ Awaited(m) => AwaitedNext(m)
    BY <1>6 DEF Awaited, AwaitedNext, Requests, page
  <2>2. \A m \in net' : m.from # NULL => m \in net /\ m \in Requests /\ m.from # req.from
    BY <1>1 DEF SubmitInv, Calls, TypeOK
  <2>3. \A g \in Handler : AtWork(g)' /\ handler'[g].req.from # NULL =>
          /\ AtWork(g) /\ handler'[g].req = handler[g].req
          /\ handler[g].req \in Requests /\ handler[g].req.from # req.from
    BY <1>1, <1>8 DEF SubmitInv, Calls, Rows
  <2> QED BY <2>1, <2>2, <2>3, CallsKept DEF SubmitInv
<1>11. Keys'
  <2>1. \A k \in Key, q \in Payload : Carries(k, q)' => Carries(k, q)
    <3> SUFFICES ASSUME NEW k \in Key, NEW q \in Payload, Carries(k, q)' PROVE Carries(k, q)
      OBVIOUS
    <3>1. CASE request'[k] # NULL /\ request'[k].payload = q
      BY <1>1, <3>1 DEF Carries, AtWork
    <3>2. CASE \/ \E m \in net' : m.key = k /\ m.payload = q
               \/ \E c \in Client : intent'[c] = [key |-> k, payload |-> q]
      BY <3>2 DEF Carries, AtWork, page
    <3>3. CASE \E g \in Handler : AtWork(g)' /\ handler'[g].req.key = k /\ handler'[g].req.payload = q
      BY <1>8, <3>3 DEF Carries, AtWork
    <3> QED BY <3>1, <3>2, <3>3 DEF Carries, AtWork
  <2> QED BY <2>1, KeysKept DEF SubmitInv, page
<1>12. AnswersFit'
  <2> SUFFICES ASSUME NEW c \in Client, answer'[c] # NULL
               PROVE  /\ pending'[c] /\ intent'[c] # NULL /\ answer'[c].code # "MISMATCH"
                      /\ answer'[c].code = "ACCEPTED"
                         => request'[intent'[c].key] = [payload |-> intent'[c].payload,
                                                        inv |-> answer'[c].inv]
    BY DEF AnswersFit
  <2>1. CASE c # req.from
    <3>1. answer'[c] = answer[c] /\ intent' = intent /\ pending' = pending
      BY <1>6, <2>1 DEF page
    <3>2. pending[c] /\ intent[c] # NULL /\ answer[c].code # "MISMATCH"
      BY <3>1 DEF SubmitInv, AnswersFit
    <3>3. answer[c] \in Answers /\ intent[c] \in Intents
      BY <3>1, <3>2 DEF SubmitInv, TypeOK
    <3>4. [payload |-> intent[c].payload, inv |-> answer[c].inv] # NULL /\ intent[c].key \in Key
      BY <3>3, NullAssumption DEF Intents, Answers
    <3> QED BY <3>1, <3>2, <3>4 DEF SubmitInv, AnswersFit
  <2>2. CASE c = req.from
    <3>1. c # NULL
      BY SubmitAssumption
    <3>2. pending[c] /\ intent[c] = [key |-> req.key, payload |-> req.payload]
      BY <1>1, <2>2, <3>1 DEF SubmitInv, Calls, Awaited
    <3>3. intent[c] # NULL /\ intent[c].key = req.key /\ intent[c].payload = req.payload
      BY <1>1, <3>2, NullAssumption DEF Requests, Intents
    <3>4. answer'[c] = ans /\ intent' = intent /\ pending' = pending
      BY <1>6, <2>2, <3>1 DEF page
    <3> QED BY <3>2, <3>3, <3>4
  <2> QED BY <2>1, <2>2
<1> QED BY <1>7, <1>9, <1>10, <1>11, <1>12

LEMMA Answered ==
  ASSUME SubmitInv, NEW h \in Handler, Replay(h) \/ Reject(h)
  PROVE  SubmitInv'
<1> DEFINE s == handler[h]
<1>1. s.pc = "READ" /\ UNCHANGED <<db, page, net, faults>>
  BY DEF Replay, Reject
<1>2. /\ s.found = request[s.req.key] /\ s.found \in Entries \cup {NULL}
      /\ s.found # NULL => s.found.payload = s.req.payload
  BY <1>1, NoMismatch
<1>3. /\ status' \in [Inv -> {"ABSENT", "ACTIVE", "OVER"}]
      /\ focus' \in [Inv -> Payload \cup {NULL}] /\ request' \in [Key -> Entries \cup {NULL}]
      /\ request' = request
  BY <1>1 DEF SubmitInv, TypeOK, db
<1>4. TypeOK' /\ Rows' /\ Calls' /\ Keys' /\ AnswersFit'
  <2>1. CASE Replay(h)
    <3>1. s.found # NULL
      BY <2>1 DEF Replay, Verdict
    <3>2. s.found = [payload |-> s.req.payload, inv |-> s.found.inv] /\ s.found.inv \in Inv
      BY <1>2, <3>1 DEF Entries
    <3>3. Finish(h, "ACCEPTED", s.found.inv)
      BY <2>1 DEF Replay
    <3> QED BY <1>1, <1>2, <1>3, <3>2, <3>3, Finished
  <2>2. CASE Reject(h)
    <3>1. Verdict(s) = "CONFLICT"
      BY <1>2, <2>2 DEF Reject, Verdict
    <3>2. Finish(h, "CONFLICT", NULL)
      BY <2>2, <3>1 DEF Reject
    <3> QED BY <1>1, <1>3, <3>2, Finished
  <2> QED BY <2>1, <2>2
<1> QED BY <1>1, <1>4, TablesKept DEF SubmitInv

(* What was read under the lock still holds: no other investigation is     *)
(* active and the key is unused.                                           *)
LEMMA Created ==
  ASSUME SubmitInv, NEW h \in Handler, NEW i \in Inv, Create(h, i)
  PROVE  SubmitInv'
<1> DEFINE s == handler[h]
           req == s.req
           entry == [payload |-> req.payload, inv |-> i]
<1>1. /\ s.pc = "READ" /\ Verdict(s) = "CREATE" /\ status[i] = "ABSENT"
      /\ status' = [status EXCEPT ![i] = "ACTIVE"]
      /\ focus' = [focus EXCEPT ![i] = req.payload]
      /\ request' = [request EXCEPT ![req.key] = entry]
      /\ Finish(h, "ACCEPTED", i) /\ UNCHANGED <<page, net, faults>>
  BY DEF Create
<1>2. req \in Requests /\ s.found = request[req.key]
  BY <1>1, NoMismatch
<1>3. s.found = NULL /\ ~s.active
  BY <1>1 DEF Verdict
<1>4. request[req.key] = NULL /\ ~Active
  BY <1>1, <1>2, <1>3 DEF SubmitInv, Rows
<1>5. req.key \in Key /\ req.payload \in Payload /\ entry \in Entries
  BY <1>2 DEF Requests, Entries
<1>6. entry # NULL
  BY <1>5, NullAssumption DEF Entries
<1>7. entry.inv = i /\ entry.payload = req.payload
  OBVIOUS
<1> HIDE DEF s, req, entry
<1>8. /\ status' \in [Inv -> {"ABSENT", "ACTIVE", "OVER"}] /\ status'[i] = "ACTIVE"
      /\ \A j \in Inv : j # i => status'[j] = status[j] /\ focus'[j] = focus[j]
      /\ focus' \in [Inv -> Payload \cup {NULL}] /\ focus'[i] = req.payload
  BY <1>1, <1>5 DEF SubmitInv, TypeOK
<1>9. /\ request' \in [Key -> Entries \cup {NULL}] /\ request'[req.key] = entry
      /\ \A k \in Key : k # req.key => request'[k] = request[k]
  BY <1>1, <1>5 DEF SubmitInv, TypeOK
<1>10. TypeOK' /\ Rows' /\ Calls' /\ Keys' /\ AnswersFit'
  <2>1. handler[h].pc = "READ" /\ handler[h].req = req
    BY <1>1 DEF s, req
  <2>2. \A k \in Key : /\ request[k] # NULL => request'[k] = request[k]
                       /\ request'[k] # NULL /\ request[k] = NULL
                          => k = req.key /\ request'[k].payload = req.payload
    BY <1>4, <1>7, <1>9
  <2>3. request'[req.key] = [payload |-> req.payload, inv |-> i]
    BY <1>9 DEF entry
  <2> QED BY <1>1, <1>8, <1>9, <2>1, <2>2, <2>3, Finished
<1>11. OneActive'
  BY <1>4, <1>8 DEF OneActive, Active
<1>12. NoRunLost'
  <2>1. \A k \in Key : request[k] # NULL => request[k].inv \in Inv
    BY DEF SubmitInv, TypeOK, Entries
  <2> QED BY <1>7, <1>8, <1>9, <2>1 DEF SubmitInv, NoRunLost
<1>13. EachRunRequested'
  <2> SUFFICES ASSUME NEW j \in Inv, status'[j] # "ABSENT"
               PROVE  \E k \in Key : /\ request'[k] = [payload |-> focus'[j], inv |-> j]
                                     /\ \A l \in Key : request'[l] # NULL /\ request'[l].inv = j => l = k
    BY DEF EachRunRequested
  <2>1. CASE j = i
    <3>1. request'[req.key] = [payload |-> focus'[j], inv |-> j]
      BY <1>8, <1>9, <2>1 DEF entry
    <3>2. \A l \in Key : request'[l] # NULL /\ request'[l].inv = j => l = req.key
      BY <1>1, <1>9, <2>1 DEF SubmitInv, NoRunLost
    <3> QED BY <1>5, <3>1, <3>2
  <2>2. CASE j # i
    <3>1. PICK k \in Key : /\ request[k] = [payload |-> focus[j], inv |-> j]
                           /\ \A l \in Key : request[l] # NULL /\ request[l].inv = j => l = k
      BY <1>8, <2>2 DEF SubmitInv, EachRunRequested
    <3>2. request[k] # NULL
      BY <3>1, NullAssumption DEF SubmitInv, TypeOK
    <3>3. k # req.key
      BY <1>4, <3>2
    <3>4. request'[k] = [payload |-> focus'[j], inv |-> j]
      BY <1>8, <1>9, <2>2, <3>1, <3>3
    <3>5. \A l \in Key : request'[l] # NULL /\ request'[l].inv = j => l = k
      BY <1>7, <1>9, <2>2, <3>1
    <3> QED BY <3>4, <3>5
  <2> QED BY <2>1, <2>2
<1> QED BY <1>10, <1>11, <1>12, <1>13 DEF SubmitInv

(* A handler that dies leaves nobody waiting for it.                       *)
LEMMA Died ==
  ASSUME SubmitInv, NEW h \in Handler, Die(h)
  PROVE  SubmitInv'
<1> DEFINE req == handler[h].req
<1>1. /\ AtWork(h) /\ handler' = [handler EXCEPT ![h] = IdleHandler]
      /\ pending' = IF req.from = NULL THEN pending ELSE [pending EXCEPT ![req.from] = FALSE]
      /\ UNCHANGED <<db, intent, used, listed, net, answer>>
  BY DEF Die, AtWork
<1>2. req \in Requests /\ faults' \in 0..MaxFaults
  BY <1>1, SubmitAssumption DEF SubmitInv, Rows, Die, TypeOK
<1>3. IdleHandler \in HandlerStates /\ IdleHandler.pc = "IDLE"
  BY DEF IdleHandler, HandlerStates
<1>4. /\ handler' \in [Handler -> HandlerStates] /\ handler'[h] = IdleHandler
      /\ \A g \in Handler : g # h => handler'[g] = handler[g]
  BY <1>1, <1>3 DEF SubmitInv, TypeOK, HandlerStates
<1>5. /\ pending' \in [Client -> BOOLEAN]
      /\ \A c \in Client : c # req.from => pending'[c] = pending[c]
  BY <1>1, <1>2 DEF SubmitInv, TypeOK, Requests
<1>6. TypeOK'
  BY <1>1, <1>2, <1>4, <1>5 DEF SubmitInv, TypeOK, HandlerStates, db
<1>7. \A g \in Handler : /\ AtWork(g)' => g # h /\ AtWork(g) /\ handler'[g] = handler[g]
                         /\ InRow(g)' => InRow(g)
  BY <1>3, <1>4 DEF AtWork, InRow
<1>8. Rows'
  <2>1. \A g \in Handler :
          /\ AtWork(g)' => handler'[g].req \in Requests
          /\ handler'[g].pc = "READ" => handler'[g].found = request[handler'[g].req.key]
          /\ handler'[g].pc = "READ" /\ ~handler'[g].active => ~Active
    BY <1>3, <1>4, <1>7 DEF SubmitInv, Rows
  <2>2. \A f, g \in Handler : InRow(f)' /\ InRow(g)' => f = g
    BY <1>7 DEF SubmitInv, Rows
  <2> QED BY <1>1, <2>1, <2>2, TablesKept DEF Rows, db
<1>9. Calls'
  <2>1. \A m \in Requests : m.from \notin {NULL, req.from} /\ Awaited(m) => AwaitedNext(m)
    BY <1>1, <1>5 DEF Awaited, AwaitedNext, Requests
  <2>2. \A m \in net' : m.from # NULL => m \in net /\ m \in Requests /\ m.from # req.from
    BY <1>1 DEF SubmitInv, Calls, TypeOK
  <2>3. \A g \in Handler : AtWork(g)' /\ handler'[g].req.from # NULL =>
          /\ AtWork(g) /\ handler'[g].req = handler[g].req
          /\ handler[g].req \in Requests /\ handler[g].req.from # req.from
    BY <1>1, <1>7 DEF SubmitInv, Calls, Rows
  <2> QED BY <2>1, <2>2, <2>3, CallsKept DEF SubmitInv
<1>10. Keys'
  <2>1. \A k \in Key, q \in Payload : Carries(k, q)' => Carries(k, q)
    BY <1>1, <1>7 DEF Carries, AtWork, db
  <2> QED BY <1>1, <2>1, KeysKept DEF SubmitInv
<1>11. AnswersFit'
  <2>1. ASSUME NEW c \in Client, c = req.from PROVE answer[c] = NULL
    <3>1. req.from # NULL
      BY <2>1, SubmitAssumption
    <3>2. Awaited(req)
      BY <1>1, <3>1 DEF SubmitInv, Calls
    <3> QED BY <2>1, <3>2 DEF Awaited
  <2> QED BY <1>1, <1>5, <2>1 DEF SubmitInv, AnswersFit, db
<1> QED BY <1>1, <1>6, <1>8, <1>9, <1>10, <1>11, TablesKept DEF SubmitInv

(* The worker ends an investigation: there is only less that is active.    *)
LEMMA Settled ==
  ASSUME SubmitInv, NEW i \in Inv, Settle(i)
  PROVE  SubmitInv'
<1>1. /\ status[i] = "ACTIVE" /\ status' = [status EXCEPT ![i] = "OVER"]
      /\ UNCHANGED <<focus, request, page, net, answer, handler, faults>>
  BY DEF Settle
<1>2. /\ status' \in [Inv -> {"ABSENT", "ACTIVE", "OVER"}] /\ status'[i] = "OVER"
      /\ \A j \in Inv : j # i => status'[j] = status[j]
  BY <1>1 DEF SubmitInv, TypeOK
<1>3. TypeOK'
  BY <1>1, <1>2 DEF SubmitInv, TypeOK, page
<1>4. Rows'
  <2>1. Active' => Active
    BY <1>1, <1>2 DEF Active
  <2> QED BY <1>1, <2>1 DEF SubmitInv, Rows, AtWork, InRow
<1>5. Calls'
  <2>1. \A m : Awaited(m) => AwaitedNext(m)
    BY <1>1 DEF Awaited, AwaitedNext, page
  <2>2. \A h \in Handler : AtWork(h)' <=> AtWork(h)
    BY <1>1 DEF AtWork
  <2> QED BY <1>1, <2>1, <2>2, CallsKept DEF SubmitInv
<1>6. Keys'
  <2>1. \A k \in Key, q \in Payload : Carries(k, q)' => Carries(k, q)
    BY <1>1 DEF Carries, AtWork, page
  <2> QED BY <1>1, <2>1, KeysKept DEF SubmitInv, page
<1>7. NoRunLost' /\ OneActive'
  BY <1>1, <1>2 DEF SubmitInv, NoRunLost, OneActive
<1>8. EachRunRequested'
  BY <1>1, <1>2 DEF SubmitInv, EachRunRequested
<1>9. AnswersFit'
  BY <1>1 DEF SubmitInv, AnswersFit, page
<1> QED BY <1>3, <1>4, <1>5, <1>6, <1>7, <1>8, <1>9 DEF SubmitInv

LEMMA SubmitStep == SubmitInv /\ [Next]_vars => SubmitInv'
<1> SUFFICES ASSUME SubmitInv, [Next]_vars PROVE SubmitInv'
  OBVIOUS
<1>1. CASE UNCHANGED vars
  BY <1>1 DEF vars, db, page, SubmitInv, TypeOK, Rows, Calls, Keys, NoRunLost, OneActive,
       EachRunRequested, AnswersFit, AtWork, InRow, Active, Awaited, Carries
<1>2. ASSUME NEW c \in Client,
             \/ \E p \in Payload : Resubmit(c, p) \/ SubmitNew(c, p)
             \/ Poll(c) \/ View(c) \/ TakeAnswer(c) \/ NetworkError(c) \/ Leave(c)
      PROVE  SubmitInv'
  BY <1>2, Resubmitted, SubmittedNew, ListSeen, AnswerTaken, GivenUp
<1>3. CASE \E m \in net : Vanish(m) \/ \E h \in Handler : Receive(h, m)
  BY <1>3, Vanished, Received
<1>4. ASSUME NEW h \in Handler,
             \/ LockIncident(h) \/ ReadRows(h) \/ Replay(h) \/ Reject(h) \/ Die(h)
             \/ \E i \in Inv : Create(h, i)
      PROVE  SubmitInv'
  BY <1>4, RowSteps, Answered, Died, Created
<1>5. CASE \E i \in Inv : Settle(i)
  BY <1>5, Settled
<1> QED BY <1>1, <1>2, <1>3, <1>4, <1>5 DEF Next

(* The inductive invariant of submission holds in every reachable state.   *)
THEOREM SubmitInvariant == Spec => []SubmitInv
<1> QED BY InitInv, SubmitStep, PTL DEF Spec

(* The form: however its requests are lost, repeated or late, a key comes  *)
(* with one payload wherever it turns up.                                  *)
THEOREM KeysKeepPayload == Spec => []KeyMeansPayload
<1>1. SubmitInv => KeyMeansPayload
  BY DEF SubmitInv, Keys, KeyMeansPayload
<1> QED BY <1>1, SubmitInvariant, PTL

(* create_investigation: an incident never has two active investigations.  *)
THEOREM NeverTwoActive == Spec => []OneActive
<1>1. SubmitInv => OneActive
  BY DEF SubmitInv
<1> QED BY <1>1, SubmitInvariant, PTL

(* create_investigation: each run belongs to one key and to its payload.   *)
THEOREM NothingCreatedTwice == Spec => []EachRunRequested
<1>1. SubmitInv => EachRunRequested
  BY DEF SubmitInv
<1> QED BY <1>1, SubmitInvariant, PTL

(* The form: an answer is about the request the browser still asks for.    *)
THEOREM AnswersAlwaysFit == Spec => []AnswersFit
<1>1. SubmitInv => AnswersFit
  BY DEF SubmitInv
<1> QED BY <1>1, SubmitInvariant, PTL
=============================================================================
