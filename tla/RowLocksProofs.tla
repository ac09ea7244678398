--------------------------- MODULE RowLocksProofs ---------------------------
(* No deadlock among any number of sessions on any number of rows.  The    *)
(* argument does not need one order of all rows (a worker names the        *)
(* incident before the investigation or after it).  Who holds something    *)
(* and waits is either a worker inside its job, which only a review of the *)
(* same investigation can hold up, or somebody who names or changes the    *)
(* incident, held up only by create_investigation or update_incident past  *)
(* the last of its locks.                                                  *)
EXTENDS RowLocks, TLAPS

InJob(t) == op[t] # "NONE" /\ done[t] >= 1 /\ Script[op[t]][1] = JobForUpdate

(* The lock on a job row keeps two worker transactions apart.              *)
JobExclusive == \A t, u \in Txn : InJob(t) /\ InJob(u) /\ inv[t] = inv[u] => t = u

LocksInv == TypeOK /\ JobExclusive

-----------------------------------------------------------------------------
(* The scripts one by one: their length and their statements.              *)
LEMMA Lengths ==
  /\ Script["renew_lease"] = << JobForUpdate >>
  /\ \A o \in {"claim_next_job", "fail_claim", "complete_inconclusive"} :
       Script[o] = << JobForUpdate, NameIncident, NameInvestigation, SetStatus >>
  /\ Script["save_evidence"] = << JobForUpdate, EvidenceForUpdate,
                                  NameIncident, NameInvestigation >>
  /\ Script["save_same_evidence"] = << JobForUpdate, NameIncident, NameInvestigation >>
  /\ Script["complete_claim"] = << JobForUpdate, NameInvestigation,
                                   NameIncident, NameEvidence, SetStatus >>
  /\ Script["complete_several"] = << JobForUpdate, NameInvestigation,
                                     NameEvidence, NameIncident, SetStatus >>
  /\ Script["put_review"] = << InvestigationForUpdate, NameIncident >>
  /\ Script["create_investigation"] = << IncidentForUpdate >>
  /\ Script["update_incident"] = << NameIncident, SetIncident >>
  BY DEF Script, PutReview, StatusChange

LEMMA NotAnOperation == "NONE" \notin Ops
  BY DEF Ops, Script

LEMMA EveryOperation ==
  ASSUME NEW o \in Ops
  PROVE  o \in {"claim_next_job", "renew_lease", "fail_claim", "save_evidence",
               "save_same_evidence", "complete_claim", "complete_several",
               "complete_inconclusive", "put_review", "create_investigation", "update_incident"}
  BY DEF Ops, Script

(* What is asked for after the first lock, and who holds what a later      *)
(* statement of another transaction can ask for.                           *)
Later(s, k) == \/ s[k] \in {NameIncident, SetIncident}
               \/ /\ s[1] = JobForUpdate
                  /\ s[k] \in {EvidenceForUpdate, NameEvidence, SetStatus, NameInvestigation}

Holder(s, k) ==
  /\ s[k] \in {EvidenceForUpdate, NameEvidence, SetStatus} => s[1] = JobForUpdate
  /\ s[k] = InvestigationForUpdate => s = PutReview
  /\ s[k] \in {IncidentForUpdate, SetIncident} => k = Len(s)

(* Every later statement names the incident, or is inside a job.           *)
LEMMA LaterStatements ==
  ASSUME NEW o \in Ops, NEW k \in 2..Len(Script[o])
  PROVE  Later(Script[o], k)
<1>1. CASE o \in {"claim_next_job", "fail_claim", "complete_inconclusive"}
  <2>1. Script[o] = << JobForUpdate, NameIncident, NameInvestigation, SetStatus >>
    BY <1>1, Lengths
  <2>2. k \in {2, 3, 4}
    BY <2>1
  <2> QED BY <2>1, <2>2 DEF Later
<1>2. CASE o = "renew_lease"
  <2>1. Script[o] = << JobForUpdate >>
    BY <1>2, Lengths
  <2> QED BY <2>1
<1>3. CASE o = "save_evidence"
  <2>1. Script[o] = << JobForUpdate, EvidenceForUpdate, NameIncident, NameInvestigation >>
    BY <1>3, Lengths
  <2>2. k \in {2, 3, 4}
    BY <2>1
  <2> QED BY <2>1, <2>2 DEF Later
<1>4. CASE o = "save_same_evidence"
  <2>1. Script[o] = << JobForUpdate, NameIncident, NameInvestigation >>
    BY <1>4, Lengths
  <2>2. k \in {2, 3}
    BY <2>1
  <2> QED BY <2>1, <2>2 DEF Later
<1>5. CASE o = "complete_claim"
  <2>1. Script[o] = << JobForUpdate, NameInvestigation, NameIncident, NameEvidence, SetStatus >>
    BY <1>5, Lengths
  <2>2. k \in {2, 3, 4, 5}
    BY <2>1
  <2> QED BY <2>1, <2>2 DEF Later
<1>6. CASE o = "put_review"
  <2>1. Script[o] = << InvestigationForUpdate, NameIncident >>
    BY <1>6, Lengths
  <2>2. k \in {2}
    BY <2>1
  <2> QED BY <2>1, <2>2 DEF Later
<1>7. CASE o = "create_investigation"
  <2>1. Script[o] = << IncidentForUpdate >>
    BY <1>7, Lengths
  <2> QED BY <2>1
<1>8. CASE o = "update_incident"
  <2>1. Script[o] = << NameIncident, SetIncident >>
    BY <1>8, Lengths
  <2>2. k \in {2}
    BY <2>1
  <2> QED BY <2>1, <2>2 DEF Later
<1>9. CASE o = "complete_several"
  <2>1. Script[o] = << JobForUpdate, NameInvestigation, NameEvidence, NameIncident, SetStatus >>
    BY <1>9, Lengths
  <2>2. k \in {2, 3, 4, 5}
    BY <2>1
  <2> QED BY <2>1, <2>2 DEF Later
<1> QED BY <1>1, <1>2, <1>3, <1>4, <1>5, <1>6, <1>7, <1>8, <1>9, EveryOperation

(* Locks in different tables or modes are different.                       *)
LEMMA Distinct ==
  /\ EvidenceForUpdate \notin {JobForUpdate, InvestigationForUpdate, IncidentForUpdate, SetStatus,
       SetIncident, NameEvidence, NameInvestigation, NameIncident}
  /\ NameEvidence \notin {JobForUpdate, EvidenceForUpdate, InvestigationForUpdate, IncidentForUpdate,
       SetStatus, SetIncident, NameInvestigation, NameIncident}
  /\ SetStatus \notin {JobForUpdate, EvidenceForUpdate, InvestigationForUpdate, IncidentForUpdate,
       SetIncident, NameEvidence, NameInvestigation, NameIncident}
  /\ InvestigationForUpdate \notin {JobForUpdate, EvidenceForUpdate, IncidentForUpdate, SetStatus,
       SetIncident, NameEvidence, NameInvestigation, NameIncident}
  /\ IncidentForUpdate \notin {JobForUpdate, EvidenceForUpdate, InvestigationForUpdate, SetStatus,
       SetIncident, NameEvidence, NameInvestigation, NameIncident}
  /\ SetIncident \notin {JobForUpdate, EvidenceForUpdate, InvestigationForUpdate, IncidentForUpdate,
       SetStatus, NameEvidence, NameInvestigation, NameIncident}
  BY DEF JobForUpdate, EvidenceForUpdate, InvestigationForUpdate, IncidentForUpdate,
    SetStatus, SetIncident, NameEvidence, NameInvestigation, NameIncident

(* Every lock another one can wait for belongs to a job, a review or an    *)
(* incident whose transaction has nothing left to lock.                    *)
LEMMA HeldStatements ==
  ASSUME NEW o \in Ops, NEW k \in 1..Len(Script[o])
  PROVE  Holder(Script[o], k)
<1>1. CASE o \in {"claim_next_job", "fail_claim", "complete_inconclusive"}
  <2>1. Script[o] = << JobForUpdate, NameIncident, NameInvestigation, SetStatus >>
    BY <1>1, Lengths
  <2>2. k \in {1, 2, 3, 4}
    BY <2>1
  <2> QED BY <2>1, <2>2, Distinct DEF Holder, PutReview
<1>2. CASE o = "renew_lease"
  <2>1. Script[o] = << JobForUpdate >>
    BY <1>2, Lengths
  <2>2. k \in {1}
    BY <2>1
  <2> QED BY <2>1, <2>2, Distinct DEF Holder, PutReview
<1>3. CASE o = "save_evidence"
  <2>1. Script[o] = << JobForUpdate, EvidenceForUpdate, NameIncident, NameInvestigation >>
    BY <1>3, Lengths
  <2>2. k \in {1, 2, 3, 4}
    BY <2>1
  <2> QED BY <2>1, <2>2, Distinct DEF Holder, PutReview
<1>4. CASE o = "save_same_evidence"
  <2>1. Script[o] = << JobForUpdate, NameIncident, NameInvestigation >>
    BY <1>4, Lengths
  <2>2. k \in {1, 2, 3}
    BY <2>1
  <2> QED BY <2>1, <2>2, Distinct DEF Holder, PutReview
<1>5. CASE o = "complete_claim"
  <2>1. Script[o] = << JobForUpdate, NameInvestigation, NameIncident, NameEvidence, SetStatus >>
    BY <1>5, Lengths
  <2>2. k \in {1, 2, 3, 4, 5}
    BY <2>1
  <2> QED BY <2>1, <2>2, Distinct DEF Holder, PutReview
<1>6. CASE o = "put_review"
  <2>1. Script[o] = << InvestigationForUpdate, NameIncident >>
    BY <1>6, Lengths
  <2>2. k \in {1, 2}
    BY <2>1
  <2> QED BY <2>1, <2>2, Distinct DEF Holder, PutReview
<1>7. CASE o = "create_investigation"
  <2>1. Script[o] = << IncidentForUpdate >>
    BY <1>7, Lengths
  <2>2. k \in {1}
    BY <2>1
  <2> QED BY <2>1, <2>2, Distinct DEF Holder, PutReview
<1>8. CASE o = "update_incident"
  <2>1. Script[o] = << NameIncident, SetIncident >>
    BY <1>8, Lengths
  <2>2. k \in {1, 2}
    BY <2>1
  <2> QED BY <2>1, <2>2, Distinct DEF Holder, PutReview
<1>9. CASE o = "complete_several"
  <2>1. Script[o] = << JobForUpdate, NameInvestigation, NameEvidence, NameIncident, SetStatus >>
    BY <1>9, Lengths
  <2>2. k \in {1, 2, 3, 4, 5}
    BY <2>1
  <2> QED BY <2>1, <2>2, Distinct DEF Holder, PutReview
<1> QED BY <1>1, <1>2, <1>3, <1>4, <1>5, <1>6, <1>7, <1>8, <1>9, EveryOperation

(* Every lock of a script is one of nine.                                  *)
Locks == {JobForUpdate, EvidenceForUpdate, InvestigationForUpdate,
          IncidentForUpdate, SetStatus, SetIncident, NameEvidence,
          NameInvestigation, NameIncident}

LEMMA AllLocks ==
  ASSUME NEW o \in Ops, NEW k \in 1..Len(Script[o])
  PROVE  Script[o][k] \in Locks
<1>1. CASE o \in {"claim_next_job", "fail_claim", "complete_inconclusive"}
  <2>1. Script[o] = << JobForUpdate, NameIncident, NameInvestigation, SetStatus >>
    BY <1>1, Lengths
  <2>2. k \in {1, 2, 3, 4}
    BY <2>1
  <2> QED BY <2>1, <2>2 DEF Locks
<1>2. CASE o = "renew_lease"
  <2>1. Script[o] = << JobForUpdate >>
    BY <1>2, Lengths
  <2>2. k \in {1}
    BY <2>1
  <2> QED BY <2>1, <2>2 DEF Locks
<1>3. CASE o = "save_evidence"
  <2>1. Script[o] = << JobForUpdate, EvidenceForUpdate, NameIncident, NameInvestigation >>
    BY <1>3, Lengths
  <2>2. k \in {1, 2, 3, 4}
    BY <2>1
  <2> QED BY <2>1, <2>2 DEF Locks
<1>4. CASE o = "save_same_evidence"
  <2>1. Script[o] = << JobForUpdate, NameIncident, NameInvestigation >>
    BY <1>4, Lengths
  <2>2. k \in {1, 2, 3}
    BY <2>1
  <2> QED BY <2>1, <2>2 DEF Locks
<1>5. CASE o = "complete_claim"
  <2>1. Script[o] = << JobForUpdate, NameInvestigation, NameIncident, NameEvidence, SetStatus >>
    BY <1>5, Lengths
  <2>2. k \in {1, 2, 3, 4, 5}
    BY <2>1
  <2> QED BY <2>1, <2>2 DEF Locks
<1>6. CASE o = "put_review"
  <2>1. Script[o] = << InvestigationForUpdate, NameIncident >>
    BY <1>6, Lengths
  <2>2. k \in {1, 2}
    BY <2>1
  <2> QED BY <2>1, <2>2 DEF Locks
<1>7. CASE o = "create_investigation"
  <2>1. Script[o] = << IncidentForUpdate >>
    BY <1>7, Lengths
  <2>2. k \in {1}
    BY <2>1
  <2> QED BY <2>1, <2>2 DEF Locks
<1>8. CASE o = "update_incident"
  <2>1. Script[o] = << NameIncident, SetIncident >>
    BY <1>8, Lengths
  <2>2. k \in {1, 2}
    BY <2>1
  <2> QED BY <2>1, <2>2 DEF Locks
<1>9. CASE o = "complete_several"
  <2>1. Script[o] = << JobForUpdate, NameInvestigation, NameEvidence, NameIncident, SetStatus >>
    BY <1>9, Lengths
  <2>2. k \in {1, 2, 3, 4, 5}
    BY <2>1
  <2> QED BY <2>1, <2>2 DEF Locks
<1> QED BY <1>1, <1>2, <1>3, <1>4, <1>5, <1>6, <1>7, <1>8, <1>9, EveryOperation

(* Which locks exclude the ones that are asked for later.                  *)
LEMMA Parts ==
  /\ JobForUpdate[1] = "JOB" /\ JobForUpdate[2] = "UPDATE"
  /\ EvidenceForUpdate[1] = "EVIDENCE" /\ EvidenceForUpdate[2] = "UPDATE"
  /\ InvestigationForUpdate[1] = "INVESTIGATION" /\ InvestigationForUpdate[2] = "UPDATE"
  /\ IncidentForUpdate[1] = "INCIDENT" /\ IncidentForUpdate[2] = "UPDATE"
  /\ SetStatus[1] = "INVESTIGATION" /\ SetStatus[2] = "NO KEY UPDATE"
  /\ SetIncident[1] = "INCIDENT" /\ SetIncident[2] = "NO KEY UPDATE"
  /\ NameEvidence[1] = "EVIDENCE" /\ NameEvidence[2] = "KEY SHARE"
  /\ NameInvestigation[1] = "INVESTIGATION" /\ NameInvestigation[2] = "KEY SHARE"
  /\ NameIncident[1] = "INCIDENT" /\ NameIncident[2] = "KEY SHARE"
  BY DEF JobForUpdate, EvidenceForUpdate, InvestigationForUpdate,
    IncidentForUpdate, SetStatus, SetIncident, NameEvidence,
    NameInvestigation, NameIncident

LEMMA Excluding ==
  ASSUME NEW a \in Locks, NEW b \in Locks, a[1] = b[1], Conflict(a[2], b[2])
  PROVE  /\ b \in {NameIncident, SetIncident} => a \in {IncidentForUpdate, SetIncident}
         /\ b \in {EvidenceForUpdate, NameEvidence, SetStatus, NameInvestigation}
            => /\ a \in {EvidenceForUpdate, NameEvidence, SetStatus, InvestigationForUpdate}
               /\ b[1] # "INCIDENT"
  BY Parts DEF Locks, Conflict

LEMMA ScriptsAreFinite ==
  ASSUME NEW o \in Ops
  PROVE  Len(Script[o]) \in Nat
<1>2. CASE o \in {"claim_next_job", "fail_claim", "complete_inconclusive"}
  <2>1. Script[o] = << JobForUpdate, NameIncident, NameInvestigation, SetStatus >>
    BY <1>2, Lengths
  <2> QED BY <2>1
<1>3. CASE o \notin {"claim_next_job", "fail_claim", "complete_inconclusive"}
  BY <1>3, EveryOperation, Lengths
<1> QED BY <1>2, <1>3

-----------------------------------------------------------------------------
(* The inductive invariant.                                                *)
THEOREM LocksInvariant == Spec => []LocksInv
<1>1. Init => LocksInv
  BY DEF Init, LocksInv, TypeOK, JobExclusive, InJob
<1>2. LocksInv /\ [Next]_vars => LocksInv'
  <2> SUFFICES ASSUME LocksInv, [Next]_vars PROVE LocksInv'
    OBVIOUS
  <2> USE DEF LocksInv
  <2>1. CASE UNCHANGED vars
    BY <2>1 DEF vars, TypeOK, JobExclusive, InJob
  <2>2. ASSUME NEW t \in Txn, NEW o \in Ops, NEW i \in Inv, Begin(t, o, i)
        PROVE  LocksInv'
    <3>1. done[t] = 0 /\ "NONE" \notin Ops
      BY <2>2, NotAnOperation DEF Begin, TypeOK
    <3>2. TypeOK'
      BY <2>2, <3>1, ScriptsAreFinite DEF Begin, TypeOK
    <3>3. JobExclusive'
      BY <2>2, <3>1 DEF Begin, TypeOK, JobExclusive, InJob
    <3> QED BY <3>2, <3>3
  <2>3. ASSUME NEW t \in Txn, Acquire(t) PROVE LocksInv'
    <3>1. TypeOK'
      BY <2>3, ScriptsAreFinite DEF Acquire, TypeOK, Rest
    <3>2. ASSUME NEW u \in Txn, u # t, InJob(t)', InJob(u)', inv'[u] = inv'[t]
          PROVE  FALSE
      <4>1. InJob(u) /\ inv[u] = inv[t]
        BY <2>3, <3>2 DEF Acquire, TypeOK, InJob
      <4>2. CASE InJob(t)
        BY <3>2, <4>1, <4>2 DEF JobExclusive
      <4>3. CASE done[t] = 0
        <5>1. Wanted(t) = JobForUpdate /\ JobForUpdate \in Held(u)
          BY <2>3, <3>2, <4>1, <4>3 DEF Acquire, Wanted, Held, InJob, TypeOK
        <5>2. Blocks(u, t)
          BY <2>3, <3>2, <4>1, <5>1 DEF Blocks, Acquire, Conflict, JobForUpdate
        <5> QED BY <2>3, <5>2 DEF Acquire
      <4> QED BY <2>3, <3>2, <4>2, <4>3 DEF Acquire, InJob, TypeOK
    <3>3. JobExclusive'
      BY <2>3, <3>2 DEF JobExclusive, InJob, Acquire, TypeOK
    <3> QED BY <3>1, <3>3
  <2>4. ASSUME NEW t \in Txn, End(t) PROVE LocksInv'
    BY <2>4 DEF End, TypeOK, JobExclusive, InJob
  <2> QED BY <2>1, <2>2, <2>3, <2>4 DEF Next
<1> QED BY <1>1, <1>2, PTL DEF Spec

-----------------------------------------------------------------------------
(* What a transaction waits for: a lock of its own table that excludes it. *)
LEMMA Waiting ==
  ASSUME LocksInv, NEW t \in Txn, NEW u \in Txn, WaitsOn(t, u)
  PROVE  /\ op[t] \in Ops /\ op[u] \in Ops /\ t # u
         /\ done[t] + 1 \in 1..Len(Script[op[t]])
         /\ \E k \in 1..Len(Script[op[u]]) :
              /\ k <= done[u]
              /\ Script[op[u]][k] \in Locks
              /\ Script[op[u]][k][1] = Wanted(t)[1]
              /\ Conflict(Script[op[u]][k][2], Wanted(t)[2])
              /\ Wanted(t)[1] # "INCIDENT" => inv[u] = inv[t]
<1>1. op[t] \in Ops /\ Rest(t) /\ t # u
  BY DEF WaitsOn, Blocks, LocksInv, TypeOK
<1>2. PICK l \in Held(u) : /\ RowOf(l[1], inv[u]) = RowOf(Wanted(t)[1], inv[t])
                          /\ Conflict(l[2], Wanted(t)[2])
  BY DEF WaitsOn, Blocks
<1>3. op[u] \in Ops
  BY <1>2 DEF Held, LocksInv, TypeOK
<1>4. PICK k \in 1..done[u] : l = Script[op[u]][k]
  BY <1>2 DEF Held
<1>5. done[t] + 1 \in 1..Len(Script[op[t]])
  BY <1>1, ScriptsAreFinite DEF Rest, LocksInv, TypeOK
<1>6. k \in 1..Len(Script[op[u]]) /\ k <= done[u]
  BY <1>3, <1>4, ScriptsAreFinite, NotAnOperation DEF LocksInv, TypeOK
<1>7. l[1] = Wanted(t)[1] /\ (Wanted(t)[1] # "INCIDENT" => inv[u] = inv[t])
  BY <1>2 DEF RowOf
<1>8. l \in Locks
  BY <1>3, <1>4, <1>6, AllLocks
<1> QED BY <1>1, <1>2, <1>3, <1>4, <1>5, <1>6, <1>7, <1>8

(* Who waits for the incident, to name or to change it, waits for somebody *)
(* who waits for nothing.                                                  *)
LEMMA IncidentIsLast ==
  ASSUME LocksInv, NEW t \in Txn, NEW u \in Txn, WaitsOn(t, u),
         Wanted(t) \in {NameIncident, SetIncident}
  PROVE  ~Rest(u)
<1>1. PICK k \in 1..Len(Script[op[u]]) :
        /\ k <= done[u]
        /\ Script[op[u]][k] \in Locks
        /\ Script[op[u]][k][1] = Wanted(t)[1]
        /\ Conflict(Script[op[u]][k][2], Wanted(t)[2])
  BY Waiting
<1>2. op[u] \in Ops
  BY Waiting
<1>3. Script[op[u]][k] \in {IncidentForUpdate, SetIncident}
  BY <1>1, Excluding DEF Locks
<1>4. k = Len(Script[op[u]])
  BY <1>2, <1>3, HeldStatements DEF Holder
<1> QED BY <1>1, <1>2, <1>4, ScriptsAreFinite DEF Rest, LocksInv, TypeOK

(* Who has a lock and waits for anything else waits for a review that has  *)
(* only the incident left to name.                                         *)
LEMMA OnlyReviewsHoldUpJobs ==
  ASSUME LocksInv, NEW t \in Txn, NEW u \in Txn, WaitsOn(t, u), done[t] >= 1,
         Wanted(t) \notin {NameIncident, SetIncident}, Rest(u)
  PROVE  Wanted(u) = NameIncident
<1>1. PICK k \in 1..Len(Script[op[u]]) :
        /\ k <= done[u]
        /\ Script[op[u]][k] \in Locks
        /\ Script[op[u]][k][1] = Wanted(t)[1]
        /\ Conflict(Script[op[u]][k][2], Wanted(t)[2])
        /\ Wanted(t)[1] # "INCIDENT" => inv[u] = inv[t]
  BY Waiting
<1>2. /\ op[t] \in Ops /\ op[u] \in Ops /\ t # u
      /\ done[t] + 1 \in 2..Len(Script[op[t]])
      /\ "NONE" \notin Ops
  BY Waiting, NotAnOperation, ScriptsAreFinite DEF LocksInv, TypeOK
<1>3. /\ Script[op[t]][1] = JobForUpdate
      /\ Wanted(t) \in {EvidenceForUpdate, NameEvidence, SetStatus, NameInvestigation}
  BY <1>2, LaterStatements DEF Later, Wanted
<1>4. InJob(t) /\ inv[u] = inv[t]
  BY <1>1, <1>2, <1>3, Excluding DEF InJob, Locks
<1>5. Script[op[u]][k] \in {EvidenceForUpdate, NameEvidence, SetStatus, InvestigationForUpdate}
  BY <1>1, <1>3, Excluding DEF Locks
<1>6. done[u] >= 1 /\ done[u] \in Nat
  BY <1>1 DEF LocksInv, TypeOK
<1>7. CASE Script[op[u]][k] # InvestigationForUpdate
  <2>1. InJob(u)
    BY <1>2, <1>5, <1>6, <1>7, HeldStatements DEF Holder, InJob
  <2> QED BY <1>2, <1>4, <2>1 DEF LocksInv, JobExclusive
<1>8. CASE Script[op[u]][k] = InvestigationForUpdate
  <2>1. Script[op[u]] = << InvestigationForUpdate, NameIncident >>
    BY <1>2, <1>8, HeldStatements DEF Holder, PutReview
  <2>2. done[u] = 1
    BY <1>6, <2>1 DEF Rest
  <2> QED BY <2>1, <2>2 DEF Wanted
<1> QED BY <1>7, <1>8

(* There is never a circle of transactions that wait for one another.      *)
THEOREM NoDeadlock == Spec => []NoCircle
<1>1. LocksInv => NoCircle
  <2> SUFFICES ASSUME LocksInv, NEW S \in SUBSET Txn, NEW t \in S,
                      \A x \in S : \E y \in S : WaitsOn(x, y)
               PROVE  FALSE
    BY DEF NoCircle
  <2>1. PICK u \in S : WaitsOn(t, u)
    OBVIOUS
  <2>2. PICK v \in S : WaitsOn(u, v)
    OBVIOUS
  <2>3. PICK x \in S : WaitsOn(v, x)
    OBVIOUS
  <2>4. PICK y \in S : WaitsOn(x, y)
    OBVIOUS
  <2>5. done[u] >= 1
    <3>1. \E k \in 1..Len(Script[op[u]]) : k <= done[u]
      BY <2>1, Waiting
    <3> QED BY <3>1 DEF LocksInv, TypeOK
  <2>6. Rest(v) /\ Rest(x)
    BY <2>3, <2>4 DEF WaitsOn, Blocks
  <2>7. Wanted(u) \notin {NameIncident, SetIncident}
    BY <2>2, <2>6, IncidentIsLast
  <2>8. Wanted(v) = NameIncident
    BY <2>2, <2>5, <2>6, <2>7, OnlyReviewsHoldUpJobs
  <2> QED BY <2>3, <2>6, <2>8, IncidentIsLast
<1> QED BY <1>1, LocksInvariant, PTL
=============================================================================
