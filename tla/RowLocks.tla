------------------------------ MODULE RowLocks ------------------------------
(* The row locks of every transaction the API and the workers run          *)
(* (backend/jobs.py, evidence_pipeline.py, analysis_pipeline.py,           *)
(* investigations.py, incidents.py).  A transaction is the script of the   *)
(* locks its statements take, in order; it may commit, return early, raise *)
(* or die after any of them, and only then are its locks released.         *)
(*                                                                         *)
(* PostgreSQL: SELECT ... FOR UPDATE takes UPDATE, an UPDATE statement     *)
(* takes NO KEY UPDATE, the foreign key of an inserted row takes KEY SHARE *)
(* on the row it names.  A stronger mode is asked for on top of a weaker   *)
(* one already held.  Left out: locks on rows nobody else can see yet,     *)
(* requests for a mode a transaction already covers, and the unique key of *)
(* create_incident (module CreateIncident).                                *)
EXTENDS Integers, Sequences, FiniteSets

CONSTANTS
  Txn,         \* database sessions
  Inv,         \* investigations, each with its job and its evidence
  Incident,
  IncidentOf   \* the incident of an investigation

ASSUME LocksAssumption == IncidentOf \in [Inv -> Incident]

VARIABLES
  op,     \* what a session is doing, "NONE" outside a transaction
  inv,    \* the investigation it is about
  done    \* how many statements of its script have their lock

vars == <<op, inv, done>>

Conflict(a, b) ==
  \/ a = "UPDATE" \/ b = "UPDATE"
  \/ a = "NO KEY UPDATE" /\ b = "NO KEY UPDATE"

(* What a statement locks: a table and a mode.                             *)
JobForUpdate == <<"JOB", "UPDATE">>
EvidenceForUpdate == <<"EVIDENCE", "UPDATE">>
InvestigationForUpdate == <<"INVESTIGATION", "UPDATE">>
IncidentForUpdate == <<"INCIDENT", "UPDATE">>
SetStatus == <<"INVESTIGATION", "NO KEY UPDATE">>
SetIncident == <<"INCIDENT", "NO KEY UPDATE">>
NameEvidence == <<"EVIDENCE", "KEY SHARE">>
NameInvestigation == <<"INVESTIGATION", "KEY SHARE">>
NameIncident == <<"INCIDENT", "KEY SHARE">>

(* No mapped class names another, so a flush writes class by class in the  *)
(* order of their names: the audit event, which names incident and         *)
(* investigation, comes before hypotheses' links and the investigation's   *)
(* status.  The status and update_incident therefore raise a KEY SHARE     *)
(* lock they hold to NO KEY UPDATE.  complete_claim flushes each           *)
(* hypothesis by itself: the first one names the investigation, and with   *)
(* several the links of one are written with the next.  save_evidence      *)
(* deletes the rows first, or adds only an audit event.                    *)
(*                                                                         *)
(* Mutant: put_review serialises on the incident, as create_investigation. *)
PutReviewIncidentFirst == << IncidentForUpdate, InvestigationForUpdate >>

PutReview == << InvestigationForUpdate, NameIncident >>

StatusChange == << JobForUpdate, NameIncident, NameInvestigation, SetStatus >>

Script ==
  [claim_next_job       |-> StatusChange,
   renew_lease          |-> << JobForUpdate >>,
   fail_claim           |-> StatusChange,
   save_evidence        |-> << JobForUpdate, EvidenceForUpdate,
                               NameIncident, NameInvestigation >>,
   save_same_evidence   |-> << JobForUpdate, NameIncident, NameInvestigation >>,
   complete_claim       |-> << JobForUpdate, NameInvestigation,
                               NameIncident, NameEvidence, SetStatus >>,
   complete_several     |-> << JobForUpdate, NameInvestigation,
                               NameEvidence, NameIncident, SetStatus >>,
   complete_inconclusive |-> StatusChange,
   put_review           |-> PutReview,
   create_investigation |-> << IncidentForUpdate >>,
   update_incident      |-> << NameIncident, SetIncident >>]

Ops == DOMAIN Script

(* The row of a table a transaction about investigation i locks.           *)
RowOf(table, i) == IF table = "INCIDENT" THEN <<table, IncidentOf[i]>> ELSE <<table, i>>

Rest(t) == done[t] < Len(Script[op[t]])
Wanted(t) == Script[op[t]][done[t] + 1]
Held(t) == IF op[t] = "NONE" THEN {} ELSE {Script[op[t]][k] : k \in 1..done[t]}

(* t asks for a row that u has locked in a mode that excludes it.          *)
Blocks(u, t) ==
  /\ t # u /\ op[t] # "NONE" /\ Rest(t)
  /\ \E l \in Held(u) : /\ RowOf(l[1], inv[u]) = RowOf(Wanted(t)[1], inv[t])
                        /\ Conflict(l[2], Wanted(t)[2])

(* A claim passes over a locked job (SKIP LOCKED); all others wait.        *)
Skips(t) == op[t] = "claim_next_job" /\ done[t] = 0
WaitsOn(t, u) == Blocks(u, t) /\ ~Skips(t)

-----------------------------------------------------------------------------
Init == /\ op = [t \in Txn |-> "NONE"]
        /\ inv \in [Txn -> Inv]
        /\ done = [t \in Txn |-> 0]

Begin(t, o, i) ==
  /\ op[t] = "NONE"
  /\ op' = [op EXCEPT ![t] = o]
  /\ inv' = [inv EXCEPT ![t] = i]
  /\ UNCHANGED done

(* The next lock is free: the statement goes on.                           *)
Acquire(t) ==
  /\ op[t] # "NONE" /\ Rest(t)
  /\ \A u \in Txn : ~Blocks(u, t)
  /\ done' = [done EXCEPT ![t] = @ + 1]
  /\ UNCHANGED <<op, inv>>

(* Commit after the script; an early return, an exception or a crash       *)
(* before; a claim whose job is locked, which looks at another one.        *)
End(t) ==
  /\ op[t] # "NONE"
  /\ op' = [op EXCEPT ![t] = "NONE"]
  /\ done' = [done EXCEPT ![t] = 0]
  /\ UNCHANGED inv

Next == \E t \in Txn : \/ \E o \in Ops, i \in Inv : Begin(t, o, i)
                       \/ Acquire(t) \/ End(t)

Spec == Init /\ [][Next]_vars

-----------------------------------------------------------------------------
TypeOK == /\ op \in [Txn -> Ops \cup {"NONE"}]
          /\ inv \in [Txn -> Inv]
          /\ done \in [Txn -> Nat]
          /\ \A t \in Txn : IF op[t] = "NONE" THEN done[t] = 0
                                             ELSE done[t] <= Len(Script[op[t]])

(* No set of transactions, however many, of whatever operations and on     *)
(* whatever investigations, waits for one another in a circle: PostgreSQL  *)
(* never has to abort a request of the API or of a worker as a deadlock.   *)
NoCircle == \A S \in SUBSET Txn : (\A t \in S : \E u \in S : WaitsOn(t, u)) => S = {}
=============================================================================
