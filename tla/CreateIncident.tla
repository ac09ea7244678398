--------------------------- MODULE CreateIncident ---------------------------
(***************************************************************************)
(* create_incident (backend/incidents.py): idempotent creation without a   *)
(* lock.  Every request looks its key up, and then inserts; the primary    *)
(* key of idempotency_records decides between simultaneous requests.  An   *)
(* insert of a key that another transaction has inserted and not committed *)
(* waits for that transaction to end (PostgreSQL, READ COMMITTED).         *)
(*                                                                         *)
(* Clients retry and reuse keys at will: any request may arrive any number *)
(* of times.                                                               *)
(***************************************************************************)
EXTENDS Naturals, FiniteSets

CONSTANTS
  Key,       \* Idempotency-Key values
  Payload,   \* request bodies
  Incident,  \* bound: ids of incidents there is room for
  Handler,   \* API threads
  NULL

ASSUME CreateAssumption == /\ NULL \notin Payload \cup Incident
                           /\ NULL \notin [payload: Payload, incident: Incident]

VARIABLES
  record,    \* idempotency_records: key -> payload and incident
  incident,  \* incidents: id -> the payload it was created from, or NULL
  created,   \* id -> number of its INCIDENT_CREATED audit events
  handler    \* handler -> its call and how far it has come

vars == <<record, incident, created, handler>>

Idle == [pc |-> "IDLE", key |-> NULL, payload |-> NULL, answer |-> NULL, id |-> NULL]

Init == /\ record = [k \in Key |-> NULL]
        /\ incident = [n \in Incident |-> NULL]
        /\ created = [n \in Incident |-> 0]
        /\ handler = [h \in Handler |-> Idle]

-----------------------------------------------------------------------------
Set(h, new) == handler' = [handler EXCEPT ![h] = new]

(* The previous answer of h is gone when the next call comes.              *)
Call(h, k, p) ==
  /\ handler[h].pc \in {"IDLE", "ANSWERED"}
  /\ Set(h, [Idle EXCEPT !.pc = "CALLED", !.key = k, !.payload = p])
  /\ UNCHANGED <<record, incident, created>>

Answer(h, code, n) ==
  Set(h, [handler[h] EXCEPT !.pc = "ANSWERED", !.answer = code, !.id = n])

(* replay: the incident of the record, or 409 for another payload.         *)
Replay(h, found) ==
  \/ found.payload = handler[h].payload /\ Answer(h, "CREATED", found.incident)
  \/ found.payload # handler[h].payload /\ Answer(h, "MISMATCH", NULL)

(* The first lookup; without a record the incident is added and flushed,   *)
(* which no other transaction can see or stumble over.                     *)
Begin(h) ==
  LET found == record[handler[h].key] IN
  /\ handler[h].pc = "CALLED"
  /\ \/ found # NULL /\ Replay(h, found)
     \/ found = NULL /\ Set(h, [handler[h] EXCEPT !.pc = "FLUSHED"])
  /\ UNCHANGED <<record, incident, created>>

(* Mutant: the key is not unique.                                          *)
CollidesNever(k) == FALSE

Collides(k) == record[k] # NULL

InsertedBy(h, k) == handler[h].pc = "INSERTED" /\ handler[h].key = k

(* commit flushes the record and the audit event, and waits for a rival    *)
(* that has inserted the same key.                                         *)
InsertRecord(h) ==
  /\ handler[h].pc = "FLUSHED"
  /\ ~\E g \in Handler : InsertedBy(g, handler[h].key)
  /\ Set(h, [handler[h] EXCEPT !.pc = IF Collides(handler[h].key) THEN "ROLLED_BACK"
                                                                 ELSE "INSERTED"])
  /\ UNCHANGED <<record, incident, created>>

Logged(n) == created[n] + 1

Commit(h, n) ==
  LET s == handler[h] IN
  /\ s.pc = "INSERTED" /\ incident[n] = NULL
  /\ incident' = [incident EXCEPT ![n] = s.payload]
  /\ record' = [record EXCEPT ![s.key] = [payload |-> s.payload, incident |-> n]]
  /\ created' = [created EXCEPT ![n] = Logged(n)]
  /\ Answer(h, "CREATED", n)

(* Mutants: the winner's incident is answered without a look at its        *)
(* payload; the insert is tried again.                                     *)
AfterCollisionBlindly(h, found) == Answer(h, "CREATED", found.incident)
AfterCollisionAgain(h, found) == Set(h, [handler[h] EXCEPT !.pc = "FLUSHED"])

(* IntegrityError: look again, replay what the winner committed; raise if  *)
(* there is nothing.                                                       *)
AfterCollision(h, found) ==
  \/ found # NULL /\ Replay(h, found)
  \/ found = NULL /\ Answer(h, "ERROR", NULL)

Recover(h) ==
  /\ handler[h].pc = "ROLLED_BACK"
  /\ AfterCollision(h, record[handler[h].key])
  /\ UNCHANGED <<record, incident, created>>

(* The process or its connection dies: rollback, no answer.                *)
Die(h) ==
  /\ handler[h].pc \notin {"IDLE", "ANSWERED"}
  /\ Set(h, Idle)
  /\ UNCHANGED <<record, incident, created>>

Step(h) == \/ Begin(h) \/ InsertRecord(h) \/ Recover(h)
           \/ \E n \in Incident : Commit(h, n)

Next == \E h \in Handler : \/ \E k \in Key, p \in Payload : Call(h, k, p)
                           \/ Step(h) \/ Die(h)

Spec == Init /\ [][Next]_vars

(* A handler that got a call goes on until it answers or dies; PostgreSQL  *)
(* serves the waiters of a key in order, so rivals that insert and die     *)
(* again and again do not starve it.                                       *)
FairSpec == Spec /\ \A h \in Handler : SF_vars(Step(h))

-----------------------------------------------------------------------------
(* Requests that race without a lock leave one incident per key, made from *)
(* the payload on record; none is left behind without a record.            *)
OneIncidentPerKey ==
  /\ \A k \in Key : record[k] # NULL
       => /\ incident[record[k].incident] = record[k].payload
          /\ created[record[k].incident] = 1
  /\ \A n \in Incident : incident[n] # NULL
       => \E k \in Key : record[k] # NULL /\ record[k].incident = n
  /\ \A k, l \in Key : record[k] # NULL /\ record[l] # NULL
                       /\ record[k].incident = record[l].incident => k = l

(* Every answer is true: a created incident is the one on record for the   *)
(* key and was made from this payload; a conflict means that the key was   *)
(* used for another one; a lost race never shows as a server error.        *)
AnswersTrue ==
  \A h \in Handler :
    LET s == handler[h] IN
    s.pc = "ANSWERED" =>
      /\ s.answer # "ERROR"
      /\ s.answer = "CREATED" => record[s.key] = [payload |-> s.payload, incident |-> s.id]
      /\ s.answer = "MISMATCH" => record[s.key] # NULL /\ record[s.key].payload # s.payload

(* Nobody waits for ever on the unique key.                                *)
EveryCallEnds == \A h \in Handler : handler[h].pc = "CALLED"
                                      ~> handler[h].pc \in {"ANSWERED", "IDLE"}
=============================================================================
