------------------------ MODULE CreateIncidentProofs ------------------------
(* What create_incident promises without a lock, for any handlers, keys,   *)
(* bodies and incidents.                                                   *)
EXTENDS CreateIncident, TLAPS

Records == [payload: Payload, incident: Incident]

TypeOK ==
  /\ record \in [Key -> Records \cup {NULL}]
  /\ incident \in [Incident -> Payload \cup {NULL}]
  /\ created \in [Incident -> Nat]
  /\ handler \in [Handler -> [pc: {"IDLE", "CALLED", "FLUSHED", "INSERTED",
                                   "ROLLED_BACK", "ANSWERED"},
                             key: Key \cup {NULL}, payload: Payload \cup {NULL},
                             answer: {"CREATED", "MISMATCH", "ERROR", NULL},
                             id: Incident \cup {NULL}]]

(* A handler with a call has a key and a body; one that came second finds  *)
(* a record, and so does one that created or replayed; one that inserted   *)
(* is alone with its key.                                                  *)
CallShape ==
  \A h \in Handler :
    LET s == handler[h] IN
    /\ s.pc # "IDLE" => s.key \in Key /\ s.payload \in Payload
    /\ s.pc = "ROLLED_BACK" => record[s.key] # NULL
    /\ s.pc = "ANSWERED" /\ s.answer = "CREATED" => record[s.key] # NULL
    /\ s.pc = "INSERTED" => /\ record[s.key] = NULL
                            /\ \A g \in Handler : InsertedBy(g, s.key) => g = h

(* Room for an incident that is not there has not been used.               *)
Unused == \A n \in Incident : incident[n] = NULL => created[n] = 0

CreateInv == TypeOK /\ CallShape /\ Unused /\ OneIncidentPerKey /\ AnswersTrue

-----------------------------------------------------------------------------
LEMMA InitInv == Init => CreateInv
<1> SUFFICES ASSUME Init PROVE CreateInv
  OBVIOUS
<1>1. TypeOK
  BY DEF Init, TypeOK, Idle
<1>2. CallShape /\ Unused
  BY DEF Init, CallShape, Unused, Idle
<1>3. OneIncidentPerKey /\ AnswersTrue
  BY DEF Init, OneIncidentPerKey, AnswersTrue, Idle
<1> QED BY <1>1, <1>2, <1>3 DEF CreateInv

(* A step that changes no row and one handler: the invariant asks nothing  *)
(* of the others, unless the handler inserts a key.                        *)
LEMMA OneHandlerStep ==
  ASSUME CreateInv, NEW h \in Handler,
         NEW s \in [pc: {"IDLE", "CALLED", "FLUSHED", "INSERTED", "ROLLED_BACK", "ANSWERED"},
                    key: Key \cup {NULL}, payload: Payload \cup {NULL},
                    answer: {"CREATED", "MISMATCH", "ERROR", NULL}, id: Incident \cup {NULL}],
         Set(h, s), UNCHANGED <<record, incident, created>>,
         s.pc # "IDLE" => s.key \in Key /\ s.payload \in Payload,
         s.pc = "ROLLED_BACK" => record[s.key] # NULL,
         s.pc = "INSERTED" => record[s.key] = NULL /\ \A g \in Handler : ~InsertedBy(g, s.key),
         s.pc = "ANSWERED" =>
           /\ s.answer # "ERROR"
           /\ s.answer = "CREATED" =>
                record[s.key] # NULL /\ record[s.key] = [payload |-> s.payload, incident |-> s.id]
           /\ s.answer = "MISMATCH" => record[s.key] # NULL /\ record[s.key].payload # s.payload
  PROVE  CreateInv'
<1>1. TypeOK'
  BY DEF CreateInv, TypeOK, Set
<1>2. handler'[h] = s /\ \A g \in Handler : g # h => handler'[g] = handler[g]
  BY DEF CreateInv, TypeOK, Set
<1>3. CallShape'
  <2> SUFFICES ASSUME NEW g \in Handler
               PROVE /\ handler'[g].pc # "IDLE" => handler'[g].key \in Key /\ handler'[g].payload \in Payload
                     /\ handler'[g].pc = "ROLLED_BACK" => record[handler'[g].key] # NULL
                     /\ handler'[g].pc = "ANSWERED" /\ handler'[g].answer = "CREATED" =>
                          record[handler'[g].key] # NULL
                     /\ handler'[g].pc = "INSERTED" =>
                          /\ record[handler'[g].key] = NULL
                          /\ \A f \in Handler :
                               handler'[f].pc = "INSERTED" /\ handler'[f].key = handler'[g].key => f = g
    BY DEF CallShape, InsertedBy
  <2>1. CASE g = h
    <3>1. handler'[g] = s
      BY <1>2, <2>1
    <3>2. s.pc = "INSERTED" => \A f \in Handler : ~(handler[f].pc = "INSERTED" /\ handler[f].key = s.key)
      BY DEF InsertedBy
    <3> QED BY <1>2, <2>1, <3>1, <3>2
  <2>2. CASE g # h
    <3>1. handler'[g] = handler[g]
      BY <1>2, <2>2
    <3>2. s.pc = "INSERTED" /\ handler[g].pc = "INSERTED" => s.key # handler[g].key
      BY DEF InsertedBy
    <3> QED BY <1>2, <2>2, <3>1, <3>2 DEF CreateInv, CallShape, InsertedBy
  <2> QED BY <2>1, <2>2
<1>4. Unused' /\ OneIncidentPerKey'
  BY DEF CreateInv, Unused, OneIncidentPerKey
<1>5. AnswersTrue'
  <2> SUFFICES ASSUME NEW g \in Handler, handler'[g].pc = "ANSWERED"
               PROVE LET x == handler'[g] IN
                     /\ x.answer # "ERROR"
                     /\ x.answer = "CREATED" => record[x.key] = [payload |-> x.payload, incident |-> x.id]
                     /\ x.answer = "MISMATCH" => record[x.key] # NULL /\ record[x.key].payload # x.payload
    BY DEF AnswersTrue
  <2>1. CASE g = h
    BY <1>2, <2>1
  <2>2. CASE g # h
    <3>1. handler'[g] = handler[g]
      BY <1>2, <2>2
    <3> QED BY <3>1 DEF CreateInv, AnswersTrue
  <2> QED BY <2>1, <2>2
<1> QED BY <1>1, <1>3, <1>4, <1>5 DEF CreateInv
(* A replay answers what the record says.                                  *)
LEMMA ReplayKeeps ==
  ASSUME CreateInv, NEW h \in Handler, handler[h].pc # "IDLE",
         record[handler[h].key] # NULL, Replay(h, record[handler[h].key]),
         UNCHANGED <<record, incident, created>>
  PROVE  CreateInv'
<1> DEFINE k == handler[h].key
<1>1. k \in Key /\ handler[h].payload \in Payload /\ record[k] \in Records
  BY DEF CreateInv, CallShape, TypeOK
<1>2. CASE record[k].payload = handler[h].payload /\ Answer(h, "CREATED", record[k].incident)
  <2> DEFINE s == [handler[h] EXCEPT !.pc = "ANSWERED", !.answer = "CREATED", !.id = record[k].incident]
  <2>1. s \in [pc: {"IDLE", "CALLED", "FLUSHED", "INSERTED", "ROLLED_BACK", "ANSWERED"},
                key: Key \cup {NULL}, payload: Payload \cup {NULL},
                answer: {"CREATED", "MISMATCH", "ERROR", NULL}, id: Incident \cup {NULL}]
    BY <1>1 DEF CreateInv, TypeOK, Records
  <2>2. /\ s.pc = "ANSWERED" /\ s.key = k /\ s.payload = handler[h].payload
        /\ s.answer = "CREATED" /\ s.id = record[k].incident
    BY DEF CreateInv, TypeOK
  <2>3. record[k] = [payload |-> s.payload, incident |-> s.id]
    BY <1>1, <1>2, <2>2 DEF Records
  <2>4. Set(h, s)
    BY <1>2 DEF Answer
  <2> HIDE DEF s
  <2> QED BY <1>1, <2>1, <2>2, <2>3, <2>4, OneHandlerStep
<1>3. CASE record[k].payload # handler[h].payload /\ Answer(h, "MISMATCH", NULL)
  <2> DEFINE s == [handler[h] EXCEPT !.pc = "ANSWERED", !.answer = "MISMATCH", !.id = NULL]
  <2>1. s \in [pc: {"IDLE", "CALLED", "FLUSHED", "INSERTED", "ROLLED_BACK", "ANSWERED"},
                key: Key \cup {NULL}, payload: Payload \cup {NULL},
                answer: {"CREATED", "MISMATCH", "ERROR", NULL}, id: Incident \cup {NULL}]
    BY <1>1 DEF CreateInv, TypeOK
  <2>2. s.pc = "ANSWERED" /\ s.key = k /\ s.payload = handler[h].payload /\ s.answer = "MISMATCH"
    BY DEF CreateInv, TypeOK
  <2>4. Set(h, s)
    BY <1>3 DEF Answer
  <2> HIDE DEF s
  <2> QED BY <1>1, <1>3, <2>1, <2>2, <2>4, OneHandlerStep
<1> QED BY <1>2, <1>3 DEF Replay

(* The commit of a handler that holds its key alone.                       *)
LEMMA CommitKeeps ==
  ASSUME CreateInv, NEW h \in Handler, NEW n \in Incident, Commit(h, n)
  PROVE  CreateInv'
<1> DEFINE k == handler[h].key
           entry == [payload |-> handler[h].payload, incident |-> n]
<1>1. /\ handler[h].pc = "INSERTED" /\ incident[n] = NULL /\ created[n] = 0
      /\ k \in Key /\ handler[h].payload \in Payload /\ record[k] = NULL
      /\ entry \in Records /\ entry # NULL /\ handler[h].payload # NULL
  BY CreateAssumption DEF Commit, CreateInv, CallShape, Unused, Records
<1>2. /\ record' = [record EXCEPT ![k] = entry]
      /\ incident' = [incident EXCEPT ![n] = handler[h].payload]
      /\ created' = [created EXCEPT ![n] = 1]
      /\ handler' = [handler EXCEPT ![h] = [handler[h] EXCEPT !.pc = "ANSWERED", !.answer = "CREATED", !.id = n]]
  BY <1>1 DEF Commit, Answer, Set, Logged
<1>3. TypeOK'
  BY <1>1, <1>2 DEF CreateInv, TypeOK
<1>4. /\ record'[k] = entry /\ \A l \in Key : l # k => record'[l] = record[l]
      /\ incident'[n] = handler[h].payload /\ \A m \in Incident : m # n => incident'[m] = incident[m]
      /\ created'[n] = 1 /\ \A m \in Incident : m # n => created'[m] = created[m]
      /\ \A g \in Handler : g # h => handler'[g] = handler[g]
      /\ handler'[h].pc = "ANSWERED" /\ handler'[h].key = k /\ handler'[h].payload = handler[h].payload
      /\ handler'[h].answer = "CREATED" /\ handler'[h].id = n
  BY <1>1, <1>2 DEF CreateInv, TypeOK
<1> HIDE DEF entry
<1>5. \A g \in Handler : g # h => ~(handler[g].pc = "INSERTED" /\ handler[g].key = k)
  BY <1>1 DEF CreateInv, CallShape, InsertedBy
<1>6. CallShape'
  <2> SUFFICES ASSUME NEW g \in Handler
               PROVE /\ handler'[g].pc # "IDLE" => handler'[g].key \in Key /\ handler'[g].payload \in Payload
                     /\ handler'[g].pc = "ROLLED_BACK" => record'[handler'[g].key] # NULL
                     /\ handler'[g].pc = "ANSWERED" /\ handler'[g].answer = "CREATED" =>
                          record'[handler'[g].key] # NULL
                     /\ handler'[g].pc = "INSERTED" =>
                          /\ record'[handler'[g].key] = NULL
                          /\ \A f \in Handler :
                               handler'[f].pc = "INSERTED" /\ handler'[f].key = handler'[g].key => f = g
    BY DEF CallShape, InsertedBy
  <2>1. CASE g = h
    BY <1>1, <1>4, <2>1
  <2>2. CASE g # h
    <3>1. handler'[g] = handler[g]
      BY <1>4, <2>2
    <3> QED BY <1>1, <1>4, <1>5, <2>2, <3>1 DEF CreateInv, CallShape, InsertedBy
  <2> QED BY <2>1, <2>2
<1>7. Unused'
  BY <1>1, <1>4 DEF CreateInv, Unused
<1>8. \A l \in Key : record[l] # NULL => record[l] \in Records /\ record[l].incident # n
  BY <1>1, CreateAssumption DEF CreateInv, OneIncidentPerKey, TypeOK, Records
<1>9. entry.payload = handler[h].payload /\ entry.incident = n
  BY DEF entry
<1>10. OneIncidentPerKey'
  <2>1. ASSUME NEW l \in Key, record'[l] # NULL
        PROVE  incident'[record'[l].incident] = record'[l].payload /\ created'[record'[l].incident] = 1
    <3>1. CASE l = k
      BY <1>4, <1>9, <3>1
    <3>2. CASE l # k
      <4>1. record'[l] = record[l] /\ record[l].incident \in Incident \ {n}
        BY <1>4, <1>8, <2>1, <3>2 DEF Records
      <4> QED BY <1>4, <2>1, <4>1 DEF CreateInv, OneIncidentPerKey
    <3> QED BY <3>1, <3>2
  <2>2. ASSUME NEW m \in Incident, incident'[m] # NULL
        PROVE  \E l \in Key : record'[l] # NULL /\ record'[l].incident = m
    <3>1. CASE m = n
      BY <1>1, <1>4, <1>9, <3>1
    <3>2. CASE m # n
      <4>1. PICK l \in Key : record[l] # NULL /\ record[l].incident = m
        BY <1>4, <2>2, <3>2 DEF CreateInv, OneIncidentPerKey
      <4> QED BY <1>1, <1>4, <4>1
    <3> QED BY <3>1, <3>2
  <2>3. ASSUME NEW l \in Key, NEW j \in Key, record'[l] # NULL, record'[j] # NULL,
               record'[l].incident = record'[j].incident
        PROVE  l = j
    <3>1. l = k <=> j = k
      BY <1>4, <1>8, <1>9, <2>3
    <3> QED BY <1>4, <2>3, <3>1 DEF CreateInv, OneIncidentPerKey
  <2> QED BY <2>1, <2>2, <2>3 DEF OneIncidentPerKey
<1>11. AnswersTrue'
  <2> SUFFICES ASSUME NEW g \in Handler, handler'[g].pc = "ANSWERED"
               PROVE LET x == handler'[g] IN
                     /\ x.answer # "ERROR"
                     /\ x.answer = "CREATED" => record'[x.key] = [payload |-> x.payload, incident |-> x.id]
                     /\ x.answer = "MISMATCH" => record'[x.key] # NULL /\ record'[x.key].payload # x.payload
    BY DEF AnswersTrue
  <2>1. CASE g = h
    BY <1>1, <1>4, <2>1 DEF entry
  <2>2. CASE g # h
    <3>1. handler'[g] = handler[g] /\ handler[g].key \in Key /\ handler[g].pc = "ANSWERED"
          /\ handler[g].answer \in {"CREATED", "MISMATCH", "ERROR", NULL}
      BY <1>4, <2>2 DEF CreateInv, CallShape, TypeOK
    <3>2. handler[g].answer \in {"CREATED", "MISMATCH"} => handler[g].key # k
      BY <1>1, <3>1 DEF CreateInv, CallShape, AnswersTrue
    <3> QED BY <1>4, <3>1, <3>2 DEF CreateInv, AnswersTrue
  <2> QED BY <2>1, <2>2
<1> QED BY <1>3, <1>6, <1>7, <1>10, <1>11 DEF CreateInv
LEMMA StepKeeps == CreateInv /\ [Next]_vars => CreateInv'
<1> SUFFICES ASSUME CreateInv, [Next]_vars PROVE CreateInv'
  OBVIOUS
<1> DEFINE States == [pc: {"IDLE", "CALLED", "FLUSHED", "INSERTED", "ROLLED_BACK", "ANSWERED"},
                      key: Key \cup {NULL}, payload: Payload \cup {NULL},
                      answer: {"CREATED", "MISMATCH", "ERROR", NULL}, id: Incident \cup {NULL}]
<1>0. \A h \in Handler : handler[h] \in States
  BY DEF CreateInv, TypeOK
<1>1. ASSUME NEW h \in Handler, NEW k \in Key, NEW p \in Payload, Call(h, k, p) PROVE CreateInv'
  <2> DEFINE s == [Idle EXCEPT !.pc = "CALLED", !.key = k, !.payload = p]
  <2>1. s \in States /\ s.pc = "CALLED" /\ s.key = k /\ s.payload = p
    BY DEF Idle
  <2>2. Set(h, s) /\ UNCHANGED <<record, incident, created>>
    BY <1>1 DEF Call
  <2> HIDE DEF s
  <2> QED BY <2>1, <2>2, OneHandlerStep
<1>2. ASSUME NEW h \in Handler, Begin(h) PROVE CreateInv'
  <2>1. CASE record[handler[h].key] # NULL /\ Replay(h, record[handler[h].key])
    BY <1>2, <2>1, ReplayKeeps DEF Begin
  <2>2. CASE Set(h, [handler[h] EXCEPT !.pc = "FLUSHED"])
    <3> DEFINE s == [handler[h] EXCEPT !.pc = "FLUSHED"]
    <3>1. s \in States /\ s.pc = "FLUSHED" /\ s.key = handler[h].key /\ s.payload = handler[h].payload
      BY <1>0
    <3>2. s.key \in Key /\ s.payload \in Payload
      BY <1>2, <3>1 DEF Begin, CreateInv, CallShape
    <3>3. Set(h, s) /\ UNCHANGED <<record, incident, created>>
      BY <1>2, <2>2 DEF Begin
    <3> HIDE DEF s
    <3> QED BY <3>1, <3>2, <3>3, OneHandlerStep
  <2> QED BY <1>2, <2>1, <2>2 DEF Begin
<1>3. ASSUME NEW h \in Handler, InsertRecord(h) PROVE CreateInv'
  <2> DEFINE k == handler[h].key
             s == [handler[h] EXCEPT !.pc = IF Collides(k) THEN "ROLLED_BACK" ELSE "INSERTED"]
  <2>1. /\ s \in States /\ s.key = k /\ s.payload = handler[h].payload
        /\ s.pc = IF record[k] # NULL THEN "ROLLED_BACK" ELSE "INSERTED"
    BY <1>0 DEF Collides
  <2>2. s.key \in Key /\ s.payload \in Payload
    BY <1>3, <2>1 DEF InsertRecord, CreateInv, CallShape
  <2>3. Set(h, s) /\ UNCHANGED <<record, incident, created>> /\ \A g \in Handler : ~InsertedBy(g, k)
    BY <1>3 DEF InsertRecord
  <2> HIDE DEF s
  <2> QED BY <2>1, <2>2, <2>3, OneHandlerStep
<1>4. ASSUME NEW h \in Handler, Recover(h) PROVE CreateInv'
  <2>1. record[handler[h].key] # NULL
    BY <1>4 DEF Recover, CreateInv, CallShape
  <2> QED BY <1>4, <2>1, ReplayKeeps DEF Recover, AfterCollision
<1>5. ASSUME NEW h \in Handler, Die(h) PROVE CreateInv'
  <2>1. Idle \in States /\ Idle.pc = "IDLE"
    BY DEF Idle
  <2>2. Set(h, Idle) /\ UNCHANGED <<record, incident, created>>
    BY <1>5 DEF Die
  <2> QED BY <2>1, <2>2, OneHandlerStep
<1>6. CASE UNCHANGED vars
  BY <1>6 DEF vars, CreateInv, TypeOK, CallShape, Unused, OneIncidentPerKey, AnswersTrue, InsertedBy
<1> QED BY <1>1, <1>2, <1>3, <1>4, <1>5, <1>6, CommitKeeps DEF Next, Step

(* The inductive invariant.                                                *)
THEOREM CreateInvariant == Spec => []CreateInv
<1> QED BY InitInv, StepKeeps, PTL DEF Spec

(* One incident per key, made from the body on record, and none without a  *)
(* record: create_incident needs no lock, the unique key is enough.        *)
THEOREM KeysAreUnique == Spec => []OneIncidentPerKey
<1>1. CreateInv => OneIncidentPerKey
  BY DEF CreateInv
<1> QED BY <1>1, CreateInvariant, PTL

(* Every answer of create_incident is true, and the loser of a race never  *)
(* shows a server error.                                                   *)
THEOREM AnswersAreTrue == Spec => []AnswersTrue
<1>1. CreateInv => AnswersTrue
  BY DEF CreateInv
<1> QED BY <1>1, CreateInvariant, PTL
=============================================================================
