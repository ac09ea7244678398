--------------------------- MODULE JobQueueProofs ---------------------------
(***************************************************************************)
(* What holds of the job queue for every number of jobs, workers and       *)
(* attempts, every lease and delay, and every difference of clocks.        *)
(***************************************************************************)
EXTENDS JobQueue, TLAPS

(* How a process, its claim and its open transaction fit together.         *)
ClaimShape ==
  \A w \in Worker :
    /\ Idle(w) => held[w] = NoClaim
    /\ Working(w) => held[w].step # "IDLE" /\ held[w].attempt > 0
    /\ locked[w] # NULL => at[w] # NULL
    /\ locked[w] # NULL /\ Working(w) => locked[w] = held[w].inv
    /\ locked[w] # NULL /\ Idle(w) => Claimable(row[w], at[w])

(* The inductive invariant: isolation makes a transaction's row the row it *)
(* overwrites, and agreement of the rows carries over from step to step.   *)
QueueInv == TypeOK /\ RowsAgree /\ SnapshotCurrent /\ OneClaimPerAttempt /\ ClaimShape

USE JobQueueAssumption

LEMMA InitQueueInv == Init => QueueInv
<1> SUFFICES ASSUME Init PROVE QueueInv
  OBVIOUS
<1> USE DEF Init, NoJob, NoInv, NoClaim, JobOf, InvOf
<1>1. TypeOK
  BY DEF TypeOK, JobRow, InvRow, Steps
<1>2. RowsAgree
  BY DEF RowsAgree, RowAgrees
<1>3. SnapshotCurrent
  BY DEF SnapshotCurrent
<1>4. OneClaimPerAttempt /\ ClaimShape
  BY DEF OneClaimPerAttempt, ClaimShape, Idle, Working
<1>5. QED
  BY <1>1, <1>2, <1>3, <1>4 DEF QueueInv

(* What the helpers of the actions do to the types.                        *)
ClaimRow == [inv: Inv \cup {NULL}, attempt: 0..MaxAttempts, step: Steps]

LEMMA LogType ==
  ASSUME audit \in [Inv -> Seq(AuditEvent)], NEW i \in Inv, NEW e \in AuditEvent, Log(i, e)
  PROVE  audit' \in [Inv -> Seq(AuditEvent)]
<1>1. Append(audit[i], e) \in Seq(AuditEvent)
  OBVIOUS
<1>2. QED
  BY <1>1 DEF Log

LEMMA EventType ==
  ASSUME NEW a \in {"INVESTIGATION_QUEUED", "INVESTIGATION_STARTED",
                    "INVESTIGATION_RECLAIMED", "INVESTIGATION_RETRY_SCHEDULED",
                    "INVESTIGATION_FAILED", "INVESTIGATION_AWAITING_REVIEW",
                    "INVESTIGATION_REVIEWED"},
         NEW n \in 0..MaxAttempts
  PROVE  Event(a, n) \in AuditEvent
  BY DEF Event, AuditEvent

LEMMA RowType ==
  ASSUME NEW r \in JobRow, NEW w \in Worker, NEW now \in Nat,
         NEW s \in {"QUEUED", "DONE", "FAILED"}
  PROVE  /\ NoJob \in JobRow
         /\ ~BudgetSpent(r) => Started(r, w, now) \in JobRow
         /\ Renewed(r, now) \in JobRow
         /\ Released(r, s) \in JobRow
         /\ Requeued(r, now) \in JobRow
  BY DEF JobRow, NoJob, JobOf, BudgetSpent, Started, Renewed, Released, Requeued

LEMMA EndTxnType ==
  ASSUME TypeOK, NEW w \in Worker, EndTxn(w)
  PROVE  /\ at' \in [Worker -> Nat \cup {NULL}]
         /\ locked' \in [Worker -> Inv \cup {NULL}]
         /\ row' \in [Worker -> JobRow]
<1>1. NoJob \in JobRow
  BY DEF JobRow, NoJob, JobOf
<1>2. QED
  BY <1>1 DEF TypeOK, EndTxn

LEMMA HeldType ==
  ASSUME held \in [Worker -> ClaimRow], NEW w \in Worker, NEW s \in Steps,
         Drop(w) \/ Advance(w, s)
  PROVE  held' \in [Worker -> ClaimRow]
<1>1. NoClaim \in ClaimRow /\ [held[w] EXCEPT !.step = s] \in ClaimRow
  BY DEF ClaimRow, NoClaim, Steps
<1>2. CASE Drop(w)
  BY <1>1, <1>2 DEF Drop
<1>3. CASE Advance(w, s)
  BY <1>1, <1>3 DEF Advance
<1>4. QED
  BY <1>2, <1>3

(* Each action keeps the types.                                            *)
LEMMA TypeStep == QueueInv /\ [Next]_vars => TypeOK'
<1> SUFFICES ASSUME QueueInv, [Next]_vars PROVE TypeOK'
  OBVIOUS
<1> USE DEF QueueInv, TypeOK
<1>a. held \in [Worker -> ClaimRow] /\ (held' \in [Worker -> ClaimRow] =>
        held' \in [Worker -> [inv: Inv \cup {NULL}, attempt: 0..MaxAttempts, step: Steps]])
  BY DEF ClaimRow
<1>1. ASSUME NEW i \in Inv, Enqueue(i) PROVE TypeOK'
  <2>1. audit' \in [Inv -> Seq(AuditEvent)]
    BY <1>1, LogType, EventType DEF Enqueue
  <2>2. JobOf("QUEUED", 0, clock + ApiSkew, NULL, NULL) \in JobRow
    BY DEF JobRow, JobOf
  <2>3. InvOf("QUEUED", NULL, NULL, NULL) \in InvRow
    BY DEF InvRow, InvOf
  <2>4. QED
    BY <1>1, <2>1, <2>2, <2>3 DEF Enqueue, txn
<1>2. ASSUME NEW i \in Inv, Review(i) PROVE TypeOK'
  <2>1. audit' \in [Inv -> Seq(AuditEvent)]
    BY <1>2, LogType, EventType DEF Review
  <2>2. InvOf("COMPLETED", inv[i].startedAt, inv[i].finishedAt, inv[i].error) \in InvRow
    BY DEF InvRow, InvOf
  <2>3. QED
    BY <1>2, <2>1, <2>2 DEF Review, txn
<1>3. CASE Tick
  BY <1>3 DEF Tick, rows, txn
<1>4. ASSUME NEW w \in Worker, ReadClock(w) PROVE TypeOK'
  BY <1>4 DEF ReadClock, rows
<1>5. ASSUME NEW w \in Worker, SelectCandidate(w) PROVE TypeOK'
  BY <1>5 DEF SelectCandidate, Lock, Candidates, rows
<1>6. ASSUME NEW w \in Worker, FindNothing(w) PROVE TypeOK'
  BY <1>6, EndTxnType DEF FindNothing, rows
<1>7. ASSUME NEW w \in Worker, StartAttempt(w) PROVE TypeOK'
  <2> DEFINE i == locked[w]
  <2>1. i \in Inv /\ row[w] \in JobRow /\ at[w] \in Nat /\ row[w].attempts + 1 \in 0..MaxAttempts
    BY <1>7 DEF StartAttempt, ClaimShape, JobRow, BudgetSpent
  <2>2. Started(row[w], w, at[w]) \in JobRow
    BY <1>7, <2>1, RowType DEF StartAttempt
  <2>3. InvOf("RUNNING", at[w], inv[i].finishedAt, NULL) \in InvRow
    BY <2>1 DEF InvRow, InvOf
  <2>4. audit' \in [Inv -> Seq(AuditEvent)]
    BY <1>7, <2>1, LogType, EventType DEF StartAttempt
  <2>5. [inv |-> i, attempt |-> row[w].attempts + 1, step |-> "CLAIMED"] \in ClaimRow
    BY <2>1 DEF ClaimRow, Steps
  <2>6. QED
    BY <1>7, <1>a, <2>1, <2>2, <2>3, <2>4, <2>5, EndTxnType DEF StartAttempt
<1>8. ASSUME NEW w \in Worker, Exhaust(w) PROVE TypeOK'
  <2> DEFINE i == locked[w]
  <2>1. i \in Inv /\ row[w] \in JobRow /\ at[w] \in Nat /\ row[w].attempts \in 0..MaxAttempts
    BY <1>8 DEF Exhaust, ClaimShape, JobRow
  <2>2. Released(row[w], "FAILED") \in JobRow /\ NoJob \in JobRow
    BY <2>1, RowType
  <2>3. InvOf("FAILED", inv[i].startedAt, at[w], "ATTEMPTS_EXHAUSTED") \in InvRow
    BY <2>1 DEF InvRow, InvOf, Reasons
  <2>4. audit' \in [Inv -> Seq(AuditEvent)]
    BY <1>8, <2>1, LogType, EventType DEF Exhaust
  <2>5. QED
    BY <1>8, <2>1, <2>2, <2>3, <2>4 DEF Exhaust
<1>9. ASSUME NEW w \in Worker, CheckLease(w) PROVE TypeOK'
  <2>1. held' \in [Worker -> ClaimRow]
    BY <1>9, <1>a, HeldType DEF CheckLease, Steps
  <2>2. QED
    BY <1>9, <1>a, <2>1, EndTxnType DEF CheckLease, rows
<1>10. ASSUME NEW w \in Worker, LockHeld(w) PROVE TypeOK'
  BY <1>10 DEF LockHeld, Lock, Working, rows
<1>11. ASSUME NEW w \in Worker, Refuse(w) PROVE TypeOK'
  <2>1. held' \in [Worker -> ClaimRow]
    BY <1>11, <1>a, HeldType DEF Refuse, Steps
  <2>2. QED
    BY <1>11, <1>a, <2>1, EndTxnType DEF Refuse, rows
<1>12. ASSUME NEW w \in Worker, SaveEvidence(w) \/ Reject(w) PROVE TypeOK'
  <2>1. held' \in [Worker -> ClaimRow]
    BY <1>12, <1>a, HeldType DEF SaveEvidence, Reject, Steps
  <2>2. QED
    BY <1>12, <1>a, <2>1, EndTxnType DEF SaveEvidence, Reject, rows
<1>13. ASSUME NEW w \in Worker, RenewLease(w) PROVE TypeOK'
  <2>1. held' \in [Worker -> ClaimRow]
    BY <1>13, <1>a, HeldType DEF RenewLease, Steps
  <2>2. Renewed(row[w], at[w]) \in JobRow /\ locked[w] \in Inv
    BY <1>13, RowType DEF RenewLease, Accepted, InTxn, ClaimShape
  <2>3. QED
    BY <1>13, <1>a, <2>1, <2>2, EndTxnType DEF RenewLease
<1>14. ASSUME NEW w \in Worker, CompleteClaim(w) PROVE TypeOK'
  <2> DEFINE i == locked[w]
  <2>1. i \in Inv /\ row[w] \in JobRow /\ at[w] \in Nat /\ held[w].attempt \in 0..MaxAttempts
    BY <1>14, <1>a DEF CompleteClaim, Accepted, InTxn, ClaimShape, ClaimRow
  <2>2. Released(row[w], "DONE") \in JobRow
    BY <2>1, RowType
  <2>3. InvOf("AWAITING_REVIEW", inv[i].startedAt, at[w], NULL) \in InvRow
    BY <2>1 DEF InvRow, InvOf
  <2>4. audit' \in [Inv -> Seq(AuditEvent)]
    BY <1>14, <2>1, LogType, EventType DEF CompleteClaim
  <2>5. held' \in [Worker -> ClaimRow]
    BY <1>14, <1>a, HeldType DEF CompleteClaim, Steps
  <2>6. QED
    BY <1>14, <1>a, <2>1, <2>2, <2>3, <2>4, <2>5, EndTxnType DEF CompleteClaim
<1>15. ASSUME NEW w \in Worker, NEW reason \in Reasons, RetryLater(w, reason) PROVE TypeOK'
  <2> DEFINE i == locked[w]
  <2>1. i \in Inv /\ row[w] \in JobRow /\ at[w] \in Nat /\ row[w].attempts \in 0..MaxAttempts
    BY <1>15 DEF RetryLater, Accepted, InTxn, ClaimShape, JobRow
  <2>2. Requeued(row[w], at[w]) \in JobRow
    BY <2>1, RowType
  <2>3. InvOf("QUEUED", inv[i].startedAt, inv[i].finishedAt, reason) \in InvRow
    BY <2>1 DEF InvRow, InvOf
  <2>4. audit' \in [Inv -> Seq(AuditEvent)]
    BY <1>15, <2>1, LogType, EventType DEF RetryLater
  <2>5. held' \in [Worker -> ClaimRow]
    BY <1>15, <1>a, HeldType DEF RetryLater, Steps
  <2>6. QED
    BY <1>15, <1>a, <2>1, <2>2, <2>3, <2>4, <2>5, EndTxnType DEF RetryLater
<1>16. ASSUME NEW w \in Worker, NEW reason \in Reasons, FailForGood(w, reason) PROVE TypeOK'
  <2> DEFINE i == locked[w]
  <2>1. i \in Inv /\ row[w] \in JobRow /\ at[w] \in Nat /\ row[w].attempts \in 0..MaxAttempts
    BY <1>16 DEF FailForGood, Accepted, InTxn, ClaimShape, JobRow
  <2>2. Released(row[w], "FAILED") \in JobRow
    BY <2>1, RowType
  <2>3. InvOf("FAILED", inv[i].startedAt, at[w], reason) \in InvRow
    BY <2>1 DEF InvRow, InvOf
  <2>4. audit' \in [Inv -> Seq(AuditEvent)]
    BY <1>16, <2>1, LogType, EventType DEF FailForGood
  <2>5. held' \in [Worker -> ClaimRow]
    BY <1>16, <1>a, HeldType DEF FailForGood, Steps
  <2>6. QED
    BY <1>16, <1>a, <2>1, <2>2, <2>3, <2>4, <2>5, EndTxnType DEF FailForGood
<1>17. ASSUME NEW w \in Worker, Crash(w) PROVE TypeOK'
  <2>1. held' \in [Worker -> ClaimRow]
    BY <1>17, <1>a, HeldType DEF Crash, Steps
  <2>2. QED
    BY <1>17, <1>a, <2>1, EndTxnType DEF Crash, rows
<1>18. CASE UNCHANGED vars
  BY <1>18 DEF vars
<1>19. QED
  BY <1>1, <1>2, <1>3, <1>4, <1>5, <1>6, <1>7, <1>8, <1>9, <1>10, <1>11, <1>12, <1>13,
     <1>14, <1>15, <1>16, <1>17, <1>18 DEF Next, ClaimStep, HolderStep, FailClaim

(* What a transaction that is about to write knows: its row is the job row *)
(* as it stands, available to a claim or running under the very claim.     *)
LEMMA ClaimTxn ==
  ASSUME QueueInv, NEW w \in Worker, Idle(w), locked[w] # NULL
  PROVE  /\ locked[w] \in Inv /\ at[w] \in Nat /\ row[w] = job[locked[w]]
         /\ job[locked[w]] \in JobRow /\ inv[locked[w]] \in InvRow
         /\ RowAgrees(job[locked[w]], inv[locked[w]])
         /\ job[locked[w]].status \in {"QUEUED", "RUNNING"}
         /\ Claimable(job[locked[w]], at[w])
  BY DEF QueueInv, TypeOK, SnapshotCurrent, RowsAgree, ClaimShape, Claimable

LEMMA HolderTxn ==
  ASSUME QueueInv, NEW w \in Worker, Accepted(w)
  PROVE  /\ locked[w] \in Inv /\ at[w] \in Nat /\ row[w] = job[locked[w]]
         /\ job[locked[w]] \in JobRow /\ inv[locked[w]] \in InvRow
         /\ RowAgrees(job[locked[w]], inv[locked[w]])
         /\ job[locked[w]].status = "RUNNING" /\ job[locked[w]].leaseUntil > at[w]
         /\ held[w].inv = locked[w]
         /\ held[w].attempt = job[locked[w]].attempts
<1>1. locked[w] # NULL /\ Working(w) /\ Owns(row[w], w, held[w], at[w])
  BY DEF Accepted, InTxn
<1>2. locked[w] \in Inv /\ at[w] \in Nat /\ row[w] = job[locked[w]] /\ held[w].inv = locked[w]
  BY <1>1 DEF QueueInv, TypeOK, SnapshotCurrent, ClaimShape
<1>3. job[locked[w]] \in JobRow /\ inv[locked[w]] \in InvRow
      /\ RowAgrees(job[locked[w]], inv[locked[w]])
  BY <1>2 DEF QueueInv, TypeOK, RowsAgree
<1>4. job[locked[w]].leaseUntil \in Nat
  BY <1>1, <1>2, <1>3 DEF JobRow, Owns, Expired
<1>5. QED
  BY <1>1, <1>2, <1>3, <1>4 DEF Owns, Expired

(* The two rows of an investigation agree after every step.                *)
LEMMA RowsStep == QueueInv /\ [Next]_vars => RowsAgree'
<1> SUFFICES ASSUME QueueInv, [Next]_vars PROVE RowsAgree'
  OBVIOUS
<1>a. TypeOK /\ RowsAgree
  BY DEF QueueInv
<1> USE DEF RowsAgree
<1>1. ASSUME NEW i \in Inv, Enqueue(i) PROVE RowsAgree'
  BY <1>1, <1>a DEF Enqueue, TypeOK, RowAgrees, JobOf, InvOf
<1>2. ASSUME NEW i \in Inv, Review(i) PROVE RowsAgree'
  BY <1>2, <1>a DEF Review, TypeOK, RowAgrees, NoInv, InvOf
<1>3. ASSUME NEW w \in Worker, StartAttempt(w) PROVE RowsAgree'
  <2> DEFINE i == locked[w]
  <2>1. /\ i \in Inv /\ at[w] \in Nat /\ row[w] = job[i] /\ job[i] \in JobRow
        /\ RowAgrees(job[i], inv[i]) /\ job[i].status \in {"QUEUED", "RUNNING"}
    BY <1>3, ClaimTxn DEF StartAttempt
  <2>2. RowAgrees(Started(job[i], w, at[w]), InvOf("RUNNING", at[w], inv[i].finishedAt, NULL))
    BY <2>1 DEF RowAgrees, Started, JobOf, InvOf, NoJob, JobRow
  <2>3. QED
    BY <1>3, <1>a, <2>1, <2>2 DEF StartAttempt, TypeOK
<1>4. ASSUME NEW w \in Worker, Exhaust(w) PROVE RowsAgree'
  <2> DEFINE i == locked[w]
  <2>1. /\ i \in Inv /\ at[w] \in Nat /\ row[w] = job[i] /\ job[i] \in JobRow
        /\ RowAgrees(job[i], inv[i]) /\ job[i].status \in {"QUEUED", "RUNNING"}
        /\ job[i].attempts >= MaxAttempts
    BY <1>4, ClaimTxn DEF Exhaust, BudgetSpent
  <2>2. RowAgrees(Released(job[i], "FAILED"),
                  InvOf("FAILED", inv[i].startedAt, at[w], "ATTEMPTS_EXHAUSTED"))
    BY <2>1 DEF Reasons, RowAgrees, Released, JobOf, InvOf, NoJob, JobRow
  <2>3. QED
    BY <1>4, <1>a, <2>1, <2>2 DEF Exhaust, TypeOK
<1>5. ASSUME NEW w \in Worker, RenewLease(w) PROVE RowsAgree'
  <2> DEFINE i == locked[w]
  <2>1. /\ i \in Inv /\ at[w] \in Nat /\ row[w] = job[i] /\ job[i] \in JobRow
        /\ RowAgrees(job[i], inv[i]) /\ job[i].status = "RUNNING"
    BY <1>5, HolderTxn DEF RenewLease
  <2>2. RowAgrees(Renewed(job[i], at[w]), inv[i])
    BY <2>1 DEF RowAgrees, Renewed, JobOf, NoJob, JobRow
  <2>3. QED
    BY <1>5, <1>a, <2>1, <2>2 DEF RenewLease, TypeOK
<1>6. ASSUME NEW w \in Worker, CompleteClaim(w) PROVE RowsAgree'
  <2> DEFINE i == locked[w]
  <2>1. /\ i \in Inv /\ at[w] \in Nat /\ row[w] = job[i] /\ job[i] \in JobRow
        /\ RowAgrees(job[i], inv[i]) /\ job[i].status = "RUNNING"
    BY <1>6, HolderTxn DEF CompleteClaim
  <2>2. RowAgrees(Released(job[i], "DONE"),
                  InvOf("AWAITING_REVIEW", inv[i].startedAt, at[w], NULL))
    BY <2>1 DEF RowAgrees, Released, JobOf, InvOf, NoJob, JobRow
  <2>3. QED
    BY <1>6, <1>a, <2>1, <2>2 DEF CompleteClaim, TypeOK
<1>7. ASSUME NEW w \in Worker, NEW reason \in Reasons, RetryLater(w, reason) PROVE RowsAgree'
  <2> DEFINE i == locked[w]
  <2>1. /\ i \in Inv /\ at[w] \in Nat /\ row[w] = job[i] /\ job[i] \in JobRow
        /\ RowAgrees(job[i], inv[i]) /\ job[i].status = "RUNNING"
        /\ ~(job[i].attempts >= MaxAttempts)
    BY <1>7, HolderTxn DEF RetryLater, BudgetSpent
  <2>2. reason # NULL
    BY DEF Reasons
  <2>3. RowAgrees(Requeued(job[i], at[w]),
                  InvOf("QUEUED", inv[i].startedAt, inv[i].finishedAt, reason))
    BY <2>1, <2>2 DEF RowAgrees, Requeued, JobOf, InvOf, NoJob, JobRow
  <2>4. QED
    BY <1>7, <1>a, <2>1, <2>3 DEF RetryLater, TypeOK
<1>8. ASSUME NEW w \in Worker, NEW reason \in Reasons, FailForGood(w, reason) PROVE RowsAgree'
  <2> DEFINE i == locked[w]
  <2>1. /\ i \in Inv /\ at[w] \in Nat /\ row[w] = job[i] /\ job[i] \in JobRow
        /\ RowAgrees(job[i], inv[i]) /\ job[i].status = "RUNNING"
        /\ job[i].attempts >= MaxAttempts
    BY <1>8, HolderTxn DEF FailForGood, BudgetSpent
  <2>2. reason # NULL
    BY DEF Reasons
  <2>3. RowAgrees(Released(job[i], "FAILED"),
                  InvOf("FAILED", inv[i].startedAt, at[w], reason))
    BY <2>1, <2>2 DEF RowAgrees, Released, JobOf, InvOf, NoJob, JobRow
  <2>4. QED
    BY <1>8, <1>a, <2>1, <2>3 DEF FailForGood, TypeOK
<1>9. CASE UNCHANGED <<job, inv>>
  BY <1>9, <1>a
<1>10. QED
  BY <1>1, <1>2, <1>3, <1>4, <1>5, <1>6, <1>7, <1>8, <1>9 DEF Next, ClaimStep, HolderStep,
     FailClaim, Tick, ReadClock, SelectCandidate, FindNothing, CheckLease, LockHeld, Refuse,
     SaveEvidence, Reject, Crash, vars, rows

(* Isolation.  A transaction that ends wrote at most the row it had locked *)
(* and nobody else has locked that row.                                    *)
LEMMA SnapshotAtEnd ==
  ASSUME QueueInv, NEW w \in Worker,
         locked' = [locked EXCEPT ![w] = NULL], row' = [row EXCEPT ![w] = NoJob],
         \A k \in Inv : k # locked[w] => job'[k] = job[k]
  PROVE  SnapshotCurrent'
  BY DEF QueueInv, TypeOK, SnapshotCurrent

LEMMA SnapshotStep == QueueInv /\ [Next]_vars => SnapshotCurrent'
<1> SUFFICES ASSUME QueueInv, [Next]_vars PROVE SnapshotCurrent'
  OBVIOUS
<1>a. TypeOK /\ RowsAgree /\ SnapshotCurrent
  BY DEF QueueInv
<1>1. ASSUME NEW i \in Inv, Enqueue(i) PROVE SnapshotCurrent'
  <2>1. job[i] = NoJob
    BY <1>1, <1>a DEF Enqueue, RowsAgree, RowAgrees
  <2>2. \A w \in Worker : locked[w] # i
    <3> SUFFICES ASSUME NEW w \in Worker, locked[w] = i PROVE FALSE
      OBVIOUS
    <3>1. locked[w] # NULL
      BY <1>a DEF TypeOK
    <3>2. CASE Idle(w)
      BY <2>1, <3>1, <3>2, ClaimTxn DEF NoJob, JobOf
    <3>3. CASE Working(w)
      BY <2>1, <3>1, <3>3 DEF QueueInv, ClaimShape, OneClaimPerAttempt, NoJob, JobOf
    <3>4. QED
      BY <3>2, <3>3 DEF Idle, Working
  <2>3. QED
    BY <1>1, <1>a, <2>2 DEF Enqueue, TypeOK, SnapshotCurrent, txn
<1>2. ASSUME NEW w \in Worker, SelectCandidate(w) \/ LockHeld(w) PROVE SnapshotCurrent'
  <2>1. PICK i \in Inv : Lock(w, i) /\ job' = job
    BY <1>2, <1>a DEF SelectCandidate, LockHeld, Candidates, Working, TypeOK, rows
  <2>2. QED
    BY <1>a, <2>1 DEF TypeOK, SnapshotCurrent, Lock, RowLocked
<1>3. ASSUME NEW w \in Worker, FindNothing(w) \/ CheckLease(w) \/ Refuse(w)
               \/ SaveEvidence(w) \/ Reject(w) \/ Crash(w) PROVE SnapshotCurrent'
  BY <1>3, SnapshotAtEnd DEF FindNothing, CheckLease, Refuse, SaveEvidence, Reject, Crash,
     EndTxn, rows
<1>4. ASSUME NEW w \in Worker, StartAttempt(w) \/ Exhaust(w) \/ RenewLease(w)
               \/ CompleteClaim(w) \/ FailClaim(w) PROVE SnapshotCurrent'
  BY <1>4, <1>a, SnapshotAtEnd DEF StartAttempt, Exhaust, RenewLease, CompleteClaim, FailClaim,
     RetryLater, FailForGood, EndTxn, TypeOK
<1>5. CASE UNCHANGED <<job, locked, row>>
  BY <1>5, <1>a DEF SnapshotCurrent
<1>6. QED
  BY <1>1, <1>2, <1>3, <1>4, <1>5 DEF Next, ClaimStep, HolderStep, Tick, Review, ReadClock,
     vars, rows, txn

(* One process per attempt.  Every step but the start of an attempt keeps  *)
(* the claims it does not drop, the counts, and the name in a running row. *)
LEMMA ClaimsKept ==
  ASSUME QueueInv, TypeOK',
         \A v \in Worker : held'[v].inv # NULL =>
            held'[v].inv = held[v].inv /\ held'[v].attempt = held[v].attempt,
         \A k \in Inv : /\ job[k] # NoJob => job'[k].attempts = job[k].attempts
                        /\ job'[k].status = "RUNNING" =>
                             job[k].status = "RUNNING" /\ job'[k].workerId = job[k].workerId
  PROVE  OneClaimPerAttempt'
<1> SUFFICES ASSUME NEW w \in Worker, Working(w)' PROVE
      /\ held'[w].attempt \in 1..job'[held'[w].inv].attempts
      /\ \A v \in Worker : v # w /\ held'[v].inv = held'[w].inv
                            => held'[v].attempt # held'[w].attempt
      /\ job'[held'[w].inv].status = "RUNNING"
           /\ held'[w].attempt = job'[held'[w].inv].attempts
         => job'[held'[w].inv].workerId = w
  BY DEF OneClaimPerAttempt
<1>1. /\ held'[w].inv = held[w].inv /\ held'[w].attempt = held[w].attempt
      /\ held[w].inv \in Inv /\ Working(w)
  BY DEF Working, QueueInv, TypeOK
<1>2. job[held[w].inv] # NoJob
  BY <1>1 DEF QueueInv, OneClaimPerAttempt, NoJob, JobOf
<1>3. QED
  BY <1>1, <1>2 DEF QueueInv, OneClaimPerAttempt, Working

LEMMA ClaimKept ==
  ASSUME TypeOK, NEW w \in Worker, NEW s \in Steps, Drop(w) \/ Advance(w, s)
  PROVE  \A v \in Worker : held'[v].inv # NULL =>
            held'[v].inv = held[v].inv /\ held'[v].attempt = held[v].attempt
<1>1. CASE Drop(w)
  BY <1>1 DEF Drop, NoClaim, TypeOK
<1>2. CASE Advance(w, s)
  <2>1. held' = [held EXCEPT ![w] = [held[w] EXCEPT !.step = s]]
    BY <1>2 DEF Advance
  <2>2. /\ [held[w] EXCEPT !.step = s].inv = held[w].inv
        /\ [held[w] EXCEPT !.step = s].attempt = held[w].attempt
    BY DEF TypeOK
  <2>3. QED
    BY <2>1, <2>2 DEF TypeOK
<1>3. QED
  BY <1>1, <1>2

LEMMA OneClaimStep == QueueInv /\ [Next]_vars => OneClaimPerAttempt'
<1> SUFFICES ASSUME QueueInv, [Next]_vars PROVE OneClaimPerAttempt'
  OBVIOUS
<1>a. TypeOK /\ RowsAgree /\ SnapshotCurrent /\ OneClaimPerAttempt /\ ClaimShape /\ TypeOK'
  BY TypeStep DEF QueueInv
<1>1. ASSUME NEW w \in Worker, StartAttempt(w) PROVE OneClaimPerAttempt'
  <2> DEFINE i == locked[w]
  <2>1. /\ i \in Inv /\ row[w] = job[i] /\ job[i] \in JobRow /\ job[i].attempts \in Nat
    BY <1>1, ClaimTxn DEF StartAttempt, JobRow
  <2>2. /\ job' = [job EXCEPT ![i] = JobOf("RUNNING", job[i].attempts + 1,
                                         job[i].availableAt, at[w] + Lease, w)]
        /\ held' = [held EXCEPT ![w] = [inv |-> i, attempt |-> job[i].attempts + 1,
                                        step |-> "CLAIMED"]]
    BY <1>1, <2>1 DEF StartAttempt, Started
  <2>3. /\ job'[i].attempts = job[i].attempts + 1 /\ job'[i].workerId = w
        /\ held'[w].inv = i /\ held'[w].attempt = job[i].attempts + 1
    BY <1>a, <2>1, <2>2 DEF TypeOK, JobOf
  <2>4. \A v \in Worker : v # w => held'[v] = held[v]
    BY <1>a, <2>2 DEF TypeOK
  <2>5. \A k \in Inv : k # i => job'[k] = job[k]
    BY <1>a, <2>1, <2>2 DEF TypeOK
  <2>6. \A v \in Worker : held[v].inv = i => held[v].attempt \in 1..job[i].attempts
    BY <1>a, <2>1 DEF OneClaimPerAttempt, Working
  <2> SUFFICES ASSUME NEW v \in Worker, Working(v)' PROVE
        /\ held'[v].attempt \in 1..job'[held'[v].inv].attempts
        /\ \A u \in Worker : u # v /\ held'[u].inv = held'[v].inv
                              => held'[u].attempt # held'[v].attempt
        /\ job'[held'[v].inv].status = "RUNNING"
             /\ held'[v].attempt = job'[held'[v].inv].attempts
           => job'[held'[v].inv].workerId = v
    BY DEF OneClaimPerAttempt
  <2>7. CASE v = w
    BY <2>1, <2>3, <2>4, <2>6, <2>7
  <2>8. CASE v # w
    <3>1. held'[v] = held[v] /\ Working(v) /\ held[v].inv \in Inv
      BY <1>a, <2>4, <2>8 DEF Working, TypeOK
    <3>2. CASE held[v].inv = i
      BY <1>a, <2>1, <2>3, <2>4, <2>6, <3>1, <3>2 DEF OneClaimPerAttempt
    <3>3. CASE held[v].inv # i
      BY <1>a, <2>3, <2>4, <2>5, <3>1, <3>3 DEF OneClaimPerAttempt
    <3>4. QED
      BY <3>2, <3>3
  <2>9. QED
    BY <2>7, <2>8
<1>2. ASSUME NEW i \in Inv, Enqueue(i) PROVE OneClaimPerAttempt'
  <2>1. job[i] = NoJob
    BY <1>2, <1>a DEF Enqueue, RowsAgree, RowAgrees
  <2>2. QED
    BY <1>2, <1>a, <2>1, ClaimsKept DEF Enqueue, TypeOK, JobOf
<1>3. ASSUME NEW w \in Worker, Exhaust(w) PROVE OneClaimPerAttempt'
  <2>1. locked[w] \in Inv /\ row[w] = job[locked[w]]
    BY <1>3, ClaimTxn DEF Exhaust
  <2>2. QED
    BY <1>3, <1>a, <2>1, ClaimsKept DEF Exhaust, TypeOK, Released, JobOf
<1>4. ASSUME NEW w \in Worker, RenewLease(w) PROVE OneClaimPerAttempt'
  <2>1. locked[w] \in Inv /\ row[w] = job[locked[w]]
    BY <1>4, HolderTxn DEF RenewLease
  <2>2. QED
    BY <1>4, <1>a, <2>1, ClaimsKept DEF RenewLease, TypeOK, Renewed, JobOf, Advance
<1>5. ASSUME NEW w \in Worker, CompleteClaim(w) \/ FailClaim(w) PROVE OneClaimPerAttempt'
  <2> DEFINE i == locked[w]
  <2>1. Drop(w) /\ "IDLE" \in Steps
    BY <1>5 DEF CompleteClaim, FailClaim, RetryLater, FailForGood, Steps
  <2>2. /\ i \in Inv /\ row[w] = job[i]
        /\ \/ job' = [job EXCEPT ![i] = Released(row[w], "DONE")]
           \/ job' = [job EXCEPT ![i] = Released(row[w], "FAILED")]
           \/ job' = [job EXCEPT ![i] = Requeued(row[w], at[w])]
    BY <1>5, HolderTxn DEF CompleteClaim, FailClaim, RetryLater, FailForGood
  <2>3. \A k \in Inv : /\ job'[k].attempts = job[k].attempts
                       /\ job'[k].status = "RUNNING" => job'[k] = job[k]
    BY <1>a, <2>2 DEF TypeOK, Released, Requeued, JobOf
  <2>4. QED
    BY <1>a, <2>1, <2>3, ClaimKept, ClaimsKept
<1>6. ASSUME NEW w \in Worker, CheckLease(w) \/ Refuse(w) \/ SaveEvidence(w)
               \/ Reject(w) \/ Crash(w) PROVE OneClaimPerAttempt'
  <2>1. job' = job /\ \E s \in Steps : Drop(w) \/ Advance(w, s)
    BY <1>6 DEF CheckLease, Refuse, SaveEvidence, Reject, Crash, Steps, rows
  <2>2. QED
    BY <1>a, <2>1, ClaimKept, ClaimsKept
<1>7. CASE UNCHANGED <<job, held>>
  BY <1>7, <1>a DEF OneClaimPerAttempt, Working
<1>8. QED
  BY <1>1, <1>2, <1>3, <1>4, <1>5, <1>6, <1>7 DEF Next, ClaimStep, HolderStep, Tick, Review,
     ReadClock, SelectCandidate, FindNothing, LockHeld, vars, rows
(* The claim, the transaction and the row it read stay together.          *)
LEMMA ShapeElsewhere ==
  ASSUME QueueInv, NEW w \in Worker,
         \A v \in Worker : v # w => /\ held'[v] = held[v] /\ at'[v] = at[v]
                                    /\ locked'[v] = locked[v] /\ row'[v] = row[v],
         Idle(w)' => held'[w] = NoClaim,
         Working(w)' => held'[w].step # "IDLE" /\ held'[w].attempt > 0,
         locked'[w] # NULL => /\ at'[w] # NULL
                              /\ Working(w)' => locked'[w] = held'[w].inv
                              /\ Idle(w)' => Claimable(row'[w], at'[w])
  PROVE  ClaimShape'
<1> SUFFICES ASSUME NEW v \in Worker PROVE
      /\ Idle(v)' => held'[v] = NoClaim
      /\ Working(v)' => held'[v].step # "IDLE" /\ held'[v].attempt > 0
      /\ locked'[v] # NULL => at'[v] # NULL
      /\ locked'[v] # NULL /\ Working(v)' => locked'[v] = held'[v].inv
      /\ locked'[v] # NULL /\ Idle(v)' => Claimable(row'[v], at'[v])
  BY DEF ClaimShape, Claimable, Expired
<1>1. CASE v = w
  BY <1>1
<1>2. CASE v # w
  BY <1>2 DEF QueueInv, ClaimShape, Idle, Working
<1>3. QED
  BY <1>1, <1>2

LEMMA ShapeStep == QueueInv /\ [Next]_vars => ClaimShape'
<1> SUFFICES ASSUME QueueInv, [Next]_vars PROVE ClaimShape'
  OBVIOUS
<1>a. TypeOK /\ ClaimShape
  BY DEF QueueInv
<1>1. ASSUME NEW w \in Worker, NEW s \in Steps \ {"IDLE"}, EndTxn(w),
             \/ Drop(w)
             \/ held[w].inv # NULL /\ Advance(w, s)
      PROVE  ClaimShape'
  <2>1. /\ locked'[w] = NULL
        /\ \A v \in Worker : v # w => /\ at'[v] = at[v] /\ row'[v] = row[v]
                                      /\ locked'[v] = locked[v] /\ held'[v] = held[v]
    BY <1>1, <1>a DEF EndTxn, Drop, Advance, TypeOK
  <2>2. CASE Drop(w)
    <3>1. held'[w] = NoClaim
      BY <1>a, <2>2 DEF Drop, TypeOK
    <3>2. QED
      BY <2>1, <3>1, ShapeElsewhere DEF Working, NoClaim
  <2>3. CASE held[w].inv # NULL /\ Advance(w, s)
    <3>1. held'[w] = [held[w] EXCEPT !.step = s]
      BY <1>a, <2>3 DEF Advance, TypeOK
    <3>2. held'[w].inv # NULL /\ held'[w].step = s /\ held'[w].attempt = held[w].attempt
      BY <1>a, <2>3, <3>1 DEF TypeOK
    <3>3. held[w].attempt > 0
      BY <1>a, <2>3 DEF ClaimShape, Working
    <3>4. QED
      BY <2>1, <3>2, <3>3, ShapeElsewhere DEF Idle
  <2>4. QED
    BY <1>1, <2>2, <2>3
<1>2. ASSUME NEW w \in Worker, ReadClock(w) PROVE ClaimShape'
  <2>1. locked[w] = NULL
    BY <1>2, <1>a DEF ReadClock, ClaimShape
  <2>2. QED
    BY <1>2, <1>a, <2>1, ShapeElsewhere DEF ReadClock, TypeOK, ClaimShape, Idle, Working
<1>3. ASSUME NEW w \in Worker, SelectCandidate(w) PROVE ClaimShape'
  <2>1. PICK i \in Inv : Claimable(job[i], at[w]) /\ Lock(w, i)
    BY <1>3 DEF SelectCandidate, Candidates
  <2>2. Claimable(row'[w], at'[w]) /\ at'[w] # NULL /\ held' = held /\ Idle(w)
    BY <1>3, <1>a, <2>1 DEF SelectCandidate, Lock, TypeOK, Claimable, Expired
  <2>3. QED
    BY <1>3, <1>a, <2>1, <2>2, ShapeElsewhere DEF SelectCandidate, Lock, TypeOK, ClaimShape,
       Idle, Working
<1>4. ASSUME NEW w \in Worker, FindNothing(w) PROVE ClaimShape'
  BY <1>4, <1>a, ShapeElsewhere DEF FindNothing, EndTxn, TypeOK, ClaimShape, Idle, Working
<1>5. ASSUME NEW w \in Worker, StartAttempt(w) PROVE ClaimShape'
  <2>1. row[w].attempts \in Nat /\ locked[w] \in Inv
    BY <1>5, <1>a DEF StartAttempt, TypeOK, JobRow
  <2>2. /\ held'[w] = [inv |-> locked[w], attempt |-> row[w].attempts + 1, step |-> "CLAIMED"]
        /\ locked'[w] = NULL
        /\ \A v \in Worker : v # w => /\ at'[v] = at[v] /\ row'[v] = row[v]
                                      /\ locked'[v] = locked[v] /\ held'[v] = held[v]
    BY <1>5, <1>a DEF StartAttempt, EndTxn, TypeOK
  <2>3. held'[w].inv # NULL /\ held'[w].attempt > 0 /\ held'[w].step = "CLAIMED"
    BY <2>1, <2>2
  <2>4. QED
    BY <2>2, <2>3, ShapeElsewhere DEF Idle
<1>6. ASSUME NEW w \in Worker, Exhaust(w) PROVE ClaimShape'
  BY <1>6, <1>a, ShapeElsewhere DEF Exhaust, TypeOK, ClaimShape, Idle, Working
<1>7. ASSUME NEW w \in Worker, LockHeld(w) PROVE ClaimShape'
  BY <1>7, <1>a, ShapeElsewhere DEF LockHeld, Lock, TypeOK, ClaimShape, Idle, Working
<1>8. ASSUME NEW w \in Worker, CheckLease(w) \/ Refuse(w) \/ SaveEvidence(w) \/ Reject(w)
               \/ RenewLease(w) \/ CompleteClaim(w) \/ FailClaim(w) \/ Crash(w)
      PROVE  ClaimShape'
  <2>1. EndTxn(w) /\ \E s \in Steps \ {"IDLE"} :
                       Drop(w) \/ (held[w].inv # NULL /\ Advance(w, s))
    BY <1>8 DEF CheckLease, Refuse, SaveEvidence, Reject, RenewLease, CompleteClaim, FailClaim,
       RetryLater, FailForGood, Crash, Accepted, InTxn, Working, Steps
  <2>2. QED
    BY <1>1, <2>1
<1>9. CASE UNCHANGED <<held, at, locked, row>>
  BY <1>9, <1>a DEF ClaimShape, Idle, Working, Claimable, Expired
<1>10. QED
  BY <1>2, <1>3, <1>4, <1>5, <1>6, <1>7, <1>8, <1>9 DEF Next, ClaimStep, HolderStep, Tick,
     Enqueue, Review, vars, rows, txn

-----------------------------------------------------------------------------
(* The five parts hold together in every reachable state.                  *)
THEOREM QueueInvariant == Spec => []QueueInv
<1>1. QueueInv /\ [Next]_vars => QueueInv'
  BY TypeStep, RowsStep, SnapshotStep, OneClaimStep, ShapeStep DEF QueueInv
<1>2. QED
  BY InitQueueInv, <1>1, PTL DEF Spec

(* Types: in particular no row and no event ever counts more attempts than *)
(* MAX_ATTEMPTS.                                                           *)
THEOREM TypeCorrect == Spec => []TypeOK
BY QueueInvariant, PTL DEF QueueInv

(* The job row and the investigation row always tell one story.            *)
THEOREM RowsAlwaysAgree == Spec => []RowsAgree
BY QueueInvariant, PTL DEF QueueInv

(* FOR UPDATE isolates: what a transaction decides on is what it writes to. *)
THEOREM Isolation == Spec => []SnapshotCurrent
BY QueueInvariant, PTL DEF QueueInv

(* Attempt numbers fence: one process per attempt.                         *)
THEOREM Fencing == Spec => []OneClaimPerAttempt
BY QueueInvariant, PTL DEF QueueInv
-----------------------------------------------------------------------------
(* Refinement: what a step of the queue does to the phase and the count of *)
(* attempts is a step of InvestigationLifecycle.                           *)
phase == [i \in Inv |-> inv[i].status]
spent == [i \in Inv |-> job[i].attempts]

LEMMA Moved ==
  ASSUME NEW i \in Inv, NEW to, NEW n,
         inv'[i].status = to, job'[i].attempts = n,
         \A k \in Inv : k # i => /\ inv'[k].status = inv[k].status
                                 /\ job'[k].attempts = job[k].attempts
  PROVE  /\ phase' = [phase EXCEPT ![i] = to]
         /\ spent' = [spent EXCEPT ![i] = n]
  BY DEF phase, spent

LEMMA Unmoved ==
  ASSUME \A k \in Inv : inv'[k].status = inv[k].status /\ job'[k].attempts = job[k].attempts
  PROVE  UNCHANGED Lifecycle!lifecycleVars
  BY DEF Lifecycle!lifecycleVars

LEMMA ActiveRows ==
  ASSUME NEW j, NEW v, RowAgrees(j, v), j.status \in {"QUEUED", "RUNNING"}
  PROVE  v.status = j.status /\ (j.status = "QUEUED" => j.attempts < MaxAttempts)
  BY DEF RowAgrees, NoJob, JobOf

LEMMA LifecycleStep ==
  QueueInv /\ [Next]_vars => [Lifecycle!LifecycleNext]_(Lifecycle!lifecycleVars)
<1> SUFFICES ASSUME QueueInv, [Next]_vars
             PROVE  [Lifecycle!LifecycleNext]_(Lifecycle!lifecycleVars)
  OBVIOUS
<1>a. TypeOK /\ RowsAgree
  BY DEF QueueInv
<1>1. ASSUME NEW i \in Inv, Enqueue(i) PROVE Lifecycle!Queue(i)
  <2>1. phase' = [phase EXCEPT ![i] = "QUEUED"] /\ spent' = [spent EXCEPT ![i] = 0]
    BY <1>1, <1>a, Moved DEF Enqueue, JobOf, InvOf, TypeOK
  <2>2. QED
    BY <1>1, <2>1 DEF Enqueue, Lifecycle!Queue, Lifecycle!Move, phase, spent
<1>2. ASSUME NEW i \in Inv, Review(i) PROVE Lifecycle!Approve(i)
  <2>1. phase' = [phase EXCEPT ![i] = "COMPLETED"] /\ spent' = [spent EXCEPT ![i] = job[i].attempts]
    BY <1>2, <1>a, Moved DEF Review, InvOf, TypeOK
  <2>2. QED
    BY <1>2, <2>1 DEF Review, Lifecycle!Approve, Lifecycle!Move, phase, spent
<1>3. ASSUME NEW w \in Worker, NEW i \in Inv, i = locked[w], StartAttempt(w)
      PROVE Lifecycle!Attempt(i)
  <2>1. row[w] = job[i] /\ inv[i].status \in {"QUEUED", "RUNNING"} /\ job[i].attempts \in Nat
    BY <1>3, ClaimTxn, ActiveRows DEF StartAttempt, JobRow
  <2>2. phase' = [phase EXCEPT ![i] = "RUNNING"] /\ spent' = [spent EXCEPT ![i] = job[i].attempts + 1]
    BY <1>3, <1>a, <2>1, Moved DEF StartAttempt, Started, JobOf, InvOf, TypeOK
  <2>3. job[i].attempts < MaxAttempts
    BY <1>3, <2>1 DEF StartAttempt, BudgetSpent
  <2>4. QED
    BY <2>1, <2>2, <2>3 DEF Lifecycle!Attempt, Lifecycle!Move, phase, spent
<1>4. ASSUME NEW w \in Worker, NEW i \in Inv, i = locked[w], NEW s \in Reasons,
             Exhaust(w) \/ FailForGood(w, s)
      PROVE  Lifecycle!GiveUp(i)
  <2>1. /\ row[w] = job[i] /\ RowAgrees(job[i], inv[i])
        /\ job[i].status \in {"QUEUED", "RUNNING"} /\ job[i].attempts \in 0..MaxAttempts
        /\ job[i].attempts >= MaxAttempts
    BY <1>4, ClaimTxn, HolderTxn DEF Exhaust, FailForGood, JobRow, BudgetSpent
  <2>2. inv[i].status = "RUNNING" /\ job[i].attempts = MaxAttempts
    BY <2>1, ActiveRows
  <2>3. phase' = [phase EXCEPT ![i] = "FAILED"] /\ spent' = [spent EXCEPT ![i] = job[i].attempts]
    <3>1. CASE Exhaust(w)
      BY <1>4, <1>a, <2>1, <3>1, Moved DEF Exhaust, Released, JobOf, InvOf, TypeOK
    <3>2. CASE FailForGood(w, s)
      <4>1. /\ job' = [job EXCEPT ![i] = JobOf("FAILED", job[i].attempts,
                                              job[i].availableAt, NULL, NULL)]
            /\ inv' = [inv EXCEPT ![i] = InvOf("FAILED", inv[i].startedAt, at[w], s)]
        BY <1>4, <2>1, <3>2 DEF FailForGood, Released
      <4>2. QED
        BY <1>a, <4>1, Moved DEF JobOf, InvOf, TypeOK
    <3>3. QED
      BY <1>4, <3>1, <3>2
  <2>4. QED
    BY <2>2, <2>3 DEF Lifecycle!GiveUp, Lifecycle!Move, phase, spent
<1>5. ASSUME NEW w \in Worker, RenewLease(w) PROVE UNCHANGED Lifecycle!lifecycleVars
  <2>1. locked[w] \in Inv /\ row[w] = job[locked[w]]
    BY <1>5, HolderTxn DEF RenewLease
  <2>2. QED
    BY <1>5, <1>a, <2>1, Unmoved DEF RenewLease, Renewed, JobOf, TypeOK
<1>6. ASSUME NEW w \in Worker, NEW i \in Inv, i = locked[w], CompleteClaim(w)
      PROVE Lifecycle!Deliver(i)
  <2>1. row[w] = job[i] /\ inv[i].status = "RUNNING"
    BY <1>6, HolderTxn DEF CompleteClaim
  <2>2. phase' = [phase EXCEPT ![i] = "AWAITING_REVIEW"] /\ spent' = [spent EXCEPT ![i] = job[i].attempts]
    BY <1>6, <1>a, <2>1, Moved DEF CompleteClaim, Released, JobOf, InvOf, TypeOK
  <2>3. QED
    BY <2>1, <2>2 DEF Lifecycle!Deliver, Lifecycle!Move, phase, spent
<1>7. ASSUME NEW w \in Worker, NEW i \in Inv, i = locked[w], NEW s \in Reasons,
             RetryLater(w, s)
      PROVE  Lifecycle!Retry(i)
  <2>1. /\ row[w] = job[i] /\ RowAgrees(job[i], inv[i]) /\ job[i].status = "RUNNING"
        /\ job[i].attempts \in Nat /\ job[i].attempts < MaxAttempts
    BY <1>7, HolderTxn DEF RetryLater, JobRow, BudgetSpent
  <2>2. inv[i].status = "RUNNING"
    BY <2>1, ActiveRows
  <2>3. phase' = [phase EXCEPT ![i] = "QUEUED"] /\ spent' = [spent EXCEPT ![i] = job[i].attempts]
    <3>1. /\ job' = [job EXCEPT ![i] = JobOf("QUEUED", job[i].attempts,
                                            at[w] + RetryDelay, NULL, NULL)]
          /\ inv' = [inv EXCEPT ![i] = InvOf("QUEUED", inv[i].startedAt, inv[i].finishedAt, s)]
      BY <1>7, <2>1 DEF RetryLater, Requeued
    <3>2. QED
      BY <1>a, <3>1, Moved DEF JobOf, InvOf, TypeOK
  <2>4. QED
    BY <2>1, <2>2, <2>3 DEF Lifecycle!Retry, Lifecycle!Move, phase, spent
<1>8. CASE UNCHANGED <<job, inv>>
  BY <1>8, Unmoved
<1>9. \A w \in Worker : locked[w] # NULL => locked[w] \in Inv
  BY <1>a DEF TypeOK
<1>10. ASSUME NEW i \in Inv, \/ Lifecycle!Queue(i) \/ Lifecycle!Approve(i)
             \/ Lifecycle!Attempt(i) \/ Lifecycle!GiveUp(i) \/ Lifecycle!Deliver(i)
             \/ Lifecycle!Retry(i)
       PROVE Lifecycle!LifecycleNext
  BY <1>10 DEF Lifecycle!LifecycleNext
<1>11. CASE \E i \in Inv : Enqueue(i) \/ Review(i)
  BY <1>1, <1>2, <1>10, <1>11
<1>12. CASE \E w \in Worker : StartAttempt(w) \/ Exhaust(w) \/ RenewLease(w)
                             \/ CompleteClaim(w) \/ FailClaim(w)
  <2>1. "RESULT_INVALID" \in Reasons
    BY DEF Reasons
  <2>2. PICK w \in Worker : StartAttempt(w) \/ Exhaust(w) \/ RenewLease(w)
                           \/ CompleteClaim(w) \/ FailClaim(w)
    BY <1>12
  <2>3. locked[w] \in Inv
    BY <1>9, <2>2 DEF StartAttempt, Exhaust, RenewLease, CompleteClaim, FailClaim, RetryLater,
       FailForGood, Accepted, InTxn
  <2>4. QED
    BY <1>3, <1>4, <1>5, <1>6, <1>7, <1>10, <2>1, <2>2, <2>3 DEF FailClaim
<1>13. QED
  BY <1>8, <1>11, <1>12 DEF Next, ClaimStep, HolderStep, Tick, ReadClock, SelectCandidate,
     FindNothing, CheckLease, LockHeld, Refuse, SaveEvidence, Reject, Crash, vars, rows

(* The queue implements the promise to the reader: for every number of     *)
(* workers and jobs, each investigation ends FAILED only with its budget   *)
(* spent, no attempt is started beyond it, and what is final stays final.  *)
THEOREM Refinement == Spec => ImplementsLifecycle
<1>1. Init => Lifecycle!LifecycleInit
  BY DEF Init, NoJob, NoInv, JobOf, InvOf, Lifecycle!LifecycleInit
<1>2. QED
  BY QueueInvariant, LifecycleStep, <1>1, PTL
     DEF Spec, ImplementsLifecycle, Lifecycle!LifecycleSpec
-----------------------------------------------------------------------------
(* Fencing as an action property: a step that ends an attempt with a retry *)
(* or a report is the holder's own, inside its lease.                      *)
LEMMA FencedStep ==
  ASSUME QueueInv, [Next]_vars, NEW i \in Inv,
         job[i].status = "RUNNING", job'[i].status \in {"QUEUED", "DONE"}
  PROVE  \E w \in Worker : /\ held[w].inv = i /\ held'[w] = NoClaim
                           /\ held[w].attempt = job[i].attempts
                           /\ at[w] < job[i].leaseUntil
<1>a. TypeOK /\ RowsAgree
  BY DEF QueueInv
<1>1. ASSUME NEW w \in Worker, CompleteClaim(w) \/ FailClaim(w)
      PROVE  /\ held[w].inv = i /\ held'[w] = NoClaim
             /\ held[w].attempt = job[i].attempts
             /\ at[w] < job[i].leaseUntil
  <2>1. Accepted(w) /\ Drop(w) /\ (\A k \in Inv : k # locked[w] => job'[k] = job[k])
    BY <1>1, <1>a DEF CompleteClaim, FailClaim, RetryLater, FailForGood, TypeOK
  <2>2. locked[w] = i
    BY <2>1
  <2>3. /\ held[w].inv = i /\ held[w].attempt = job[i].attempts
        /\ job[i].leaseUntil > at[w] /\ at[w] \in Nat /\ job[i] \in JobRow
        /\ RowAgrees(job[i], inv[i])
    BY <2>1, <2>2, HolderTxn
  <2>4. held'[w] = NoClaim
    BY <1>a, <2>1 DEF Drop, TypeOK
  <2>5. job[i].leaseUntil \in Nat
    BY <2>3 DEF JobRow, RowAgrees, NoJob, JobOf
  <2>6. QED
    BY <2>3, <2>4, <2>5
<1>2. ASSUME NEW k \in Inv, Enqueue(k) PROVE FALSE
  <2>1. job[k] = NoJob
    BY <1>2, <1>a DEF Enqueue, RowsAgree, RowAgrees
  <2>2. QED
    BY <1>2, <1>a, <2>1 DEF Enqueue, TypeOK, NoJob, JobOf
<1>3. ASSUME NEW w \in Worker, StartAttempt(w) \/ Exhaust(w) PROVE FALSE
  <2>1. PICK j : job' = [job EXCEPT ![locked[w]] = j] /\ j.status \in {"RUNNING", "FAILED"}
    BY <1>3 DEF StartAttempt, Exhaust, Started, Released, JobOf
  <2>2. QED
    BY <1>a, <2>1 DEF TypeOK
<1>4. ASSUME NEW w \in Worker, RenewLease(w) PROVE FALSE
  <2>1. row[w].status = "RUNNING" /\ locked[w] \in Inv
    BY <1>4, HolderTxn DEF RenewLease
  <2>2. QED
    BY <1>4, <1>a, <2>1 DEF RenewLease, Renewed, JobOf, TypeOK
<1>5. CASE UNCHANGED job
  BY <1>5
<1>6. QED
  BY <1>1, <1>2, <1>3, <1>4, <1>5 DEF Next, ClaimStep, HolderStep, Tick, Review, ReadClock,
     SelectCandidate, FindNothing, CheckLease, LockHeld, Refuse, SaveEvidence, Reject, Crash,
     vars, rows

(* A process that was taken for dead and wakes up decides nothing.         *)
THEOREM OutcomesFenced == Spec => FencedOutcome
<1>1. QueueInv /\ [Next]_vars =>
        [\A i \in Inv :
           job[i].status = "RUNNING" /\ job'[i].status \in {"QUEUED", "DONE"}
           => \E w \in Worker : /\ held[w].inv = i /\ held'[w] = NoClaim
                                /\ held[w].attempt = job[i].attempts
                                /\ at[w] < job[i].leaseUntil]_vars
  BY FencedStep
<1>2. QED
  BY QueueInvariant, <1>1, PTL DEF Spec, FencedOutcome

-----------------------------------------------------------------------------
(* Clocks and leases: what holds of the times the job queue records, for   *)
(* every lease, delay and difference between the clocks of the processes.  *)

(* The times of one job and its investigation.                             *)
RowTimes(j, v) ==
  /\ j.status \in {"RUNNING", "DONE", "FAILED"} => j.availableAt <= v.startedAt
  /\ j.status = "RUNNING" => v.startedAt + Lease <= j.leaseUntil
  /\ v.finishedAt # NULL => v.startedAt <= v.finishedAt

RowTimesOK == \A i \in Inv : RowTimes(job[i], inv[i])

(* A clock value in use was read before: clocks do not run backwards.      *)
ClocksRead == \A w \in Worker : at[w] # NULL => at[w] <= clock + Skew[w]

(* The process that holds the latest attempt started it by its own clock,  *)
(* and until it renews the lease the deadline is the one it set.           *)
HoldsLatest(w) == /\ held[w].inv # NULL
                  /\ job[held[w].inv].status = "RUNNING"
                  /\ held[w].attempt = job[held[w].inv].attempts

Unrenewed == {"CLAIMED", "COLLECTING", "SAVED"}

HolderTimes(w) ==
  /\ inv[held[w].inv].startedAt <= clock + Skew[w]
  /\ at[w] # NULL => inv[held[w].inv].startedAt <= at[w]
  /\ held[w].step \in Unrenewed
     => job[held[w].inv].leaseUntil = inv[held[w].inv].startedAt + Lease

HoldersInTime == \A w \in Worker : HoldsLatest(w) => HolderTimes(w)

TimeInv == RowTimesOK /\ ClocksRead /\ HoldersInTime

(* What the rows of a running job and its investigation contain.           *)
LEMMA RunningRow ==
  ASSUME QueueInv, NEW i \in Inv, job[i].status = "RUNNING"
  PROVE  /\ job[i] \in JobRow /\ job[i].attempts \in Nat /\ job[i].leaseUntil \in Nat
         /\ job[i].availableAt \in Nat
         /\ inv[i].startedAt \in Nat /\ inv[i].finishedAt = NULL
<1>1. job[i] \in JobRow /\ inv[i] \in InvRow /\ RowAgrees(job[i], inv[i])
  BY DEF QueueInv, TypeOK, RowsAgree
<1>2. QED
  BY <1>1 DEF RowAgrees, NoJob, JobOf, JobRow, InvRow

LEMMA QueuedRow ==
  ASSUME QueueInv, NEW i \in Inv, job[i].status = "QUEUED"
  PROVE  job[i] \in JobRow /\ job[i].availableAt \in Nat /\ inv[i].finishedAt = NULL
<1>1. job[i] \in JobRow /\ inv[i] \in InvRow /\ RowAgrees(job[i], inv[i])
  BY DEF QueueInv, TypeOK, RowsAgree
<1>2. QED
  BY <1>1 DEF RowAgrees, NoJob, JobOf, JobRow

(* A process that holds a lease started its attempt before it read `now`.  *)
LEMMA HolderClock ==
  ASSUME QueueInv, TimeInv, NEW w \in Worker, Accepted(w)
  PROVE  LET i == locked[w] IN
         /\ i \in Inv /\ row[w] = job[i] /\ job[i].status = "RUNNING"
         /\ at[w] \in Nat /\ inv[i].startedAt \in Nat /\ inv[i].startedAt <= at[w]
         /\ HolderTimes(w)
<1> DEFINE i == locked[w]
<1>1. /\ i \in Inv /\ row[w] = job[i] /\ job[i].status = "RUNNING" /\ at[w] \in Nat
      /\ held[w].inv = i /\ held[w].attempt = job[i].attempts
  BY HolderTxn
<1>2. inv[i].startedAt \in Nat
  BY <1>1, RunningRow
<1>3. HolderTimes(w)
  BY <1>1 DEF TimeInv, HoldersInTime, HoldsLatest
<1>4. QED
  BY <1>1, <1>2, <1>3 DEF HolderTimes

LEMMA ClocksStep == QueueInv /\ TimeInv /\ [Next]_vars => ClocksRead'
<1> SUFFICES ASSUME QueueInv, TimeInv, [Next]_vars PROVE ClocksRead'
  OBVIOUS
<1>a. TypeOK /\ ClocksRead
  BY DEF QueueInv, TimeInv
<1>1. CASE Tick
  BY <1>1, <1>a DEF Tick, ClocksRead, TypeOK, txn
<1>2. ASSUME NEW w \in Worker, ReadClock(w) PROVE ClocksRead'
  BY <1>2, <1>a DEF ReadClock, ClocksRead, TypeOK
<1>3. ASSUME NEW w \in Worker, EndTxn(w), clock' = clock PROVE ClocksRead'
  BY <1>3, <1>a DEF EndTxn, ClocksRead, TypeOK
<1>4. CASE UNCHANGED <<clock, at>>
  BY <1>4, <1>a DEF ClocksRead
<1>5. QED
  BY <1>1, <1>2, <1>3, <1>4 DEF Next, ClaimStep, HolderStep, Enqueue, Review, SelectCandidate,
     FindNothing, StartAttempt, Exhaust, CheckLease, LockHeld, Refuse, SaveEvidence, Reject,
     RenewLease, CompleteClaim, FailClaim, RetryLater, FailForGood, Crash, vars, txn

LEMMA RowTimesStep == QueueInv /\ TimeInv /\ [Next]_vars => RowTimesOK'
<1> SUFFICES ASSUME QueueInv, TimeInv, [Next]_vars PROVE RowTimesOK'
  OBVIOUS
<1>a. TypeOK /\ RowTimesOK
  BY DEF QueueInv, TimeInv
<1>0. ASSUME NEW i \in Inv, NEW j, NEW v, RowTimes(j, v),
             job' = [job EXCEPT ![i] = j], inv' = [inv EXCEPT ![i] = v]
      PROVE  RowTimesOK'
  BY <1>0, <1>a DEF RowTimesOK, TypeOK
<1>1. ASSUME NEW i \in Inv, Enqueue(i) PROVE RowTimesOK'
  BY <1>0, <1>1 DEF Enqueue, RowTimes, JobOf, InvOf
<1>2. ASSUME NEW i \in Inv, Review(i) PROVE RowTimesOK'
  <2> DEFINE v == InvOf("COMPLETED", inv[i].startedAt, inv[i].finishedAt, inv[i].error)
  <2>1. RowTimes(job[i], v)
    BY <1>a DEF RowTimesOK, RowTimes, InvOf
  <2>2. job' = [job EXCEPT ![i] = job[i]] /\ inv' = [inv EXCEPT ![i] = v]
    BY <1>2, <1>a DEF Review, TypeOK
  <2>3. QED
    BY <1>0, <2>1, <2>2
<1>3. ASSUME NEW w \in Worker, StartAttempt(w) PROVE RowTimesOK'
  <2> DEFINE i == locked[w]
             j == Started(job[i], w, at[w])
             v == InvOf("RUNNING", at[w], inv[i].finishedAt, NULL)
  <2>1. /\ i \in Inv /\ at[w] \in Nat /\ row[w] = job[i]
        /\ job[i].status \in {"QUEUED", "RUNNING"} /\ Claimable(job[i], at[w])
    BY <1>3, ClaimTxn DEF StartAttempt
  <2>2. inv[i].finishedAt = NULL
    BY <2>1, RunningRow, QueuedRow
  <2>3. job[i].availableAt <= at[w]
    <3>1. CASE job[i].status = "QUEUED"
      BY <2>1, <3>1 DEF Claimable
    <3>2. CASE job[i].status = "RUNNING"
      <4>1. job[i].leaseUntil <= at[w]
        BY <2>1, <3>2, RunningRow DEF Claimable, Expired
      <4>2. job[i].availableAt <= inv[i].startedAt /\ inv[i].startedAt + Lease <= job[i].leaseUntil
        BY <1>a, <2>1, <3>2 DEF RowTimesOK, RowTimes
      <4>3. QED
        BY <2>1, <3>2, <4>1, <4>2, RunningRow
    <3>3. QED
      BY <2>1, <3>1, <3>2
  <2>4. RowTimes(j, v)
    BY <2>1, <2>2, <2>3 DEF RowTimes, Started, JobOf, InvOf
  <2>5. job' = [job EXCEPT ![i] = j] /\ inv' = [inv EXCEPT ![i] = v]
    BY <1>3, <2>1 DEF StartAttempt
  <2>6. QED
    BY <1>0, <2>1, <2>4, <2>5
<1>4. ASSUME NEW w \in Worker, Exhaust(w) PROVE RowTimesOK'
  <2> DEFINE i == locked[w]
             j == Released(job[i], "FAILED")
             v == InvOf("FAILED", inv[i].startedAt, at[w], "ATTEMPTS_EXHAUSTED")
  <2>1. /\ i \in Inv /\ at[w] \in Nat /\ row[w] = job[i] /\ job[i] \in JobRow
        /\ RowAgrees(job[i], inv[i])
        /\ job[i].status \in {"QUEUED", "RUNNING"} /\ Claimable(job[i], at[w])
        /\ job[i].attempts >= MaxAttempts
    BY <1>4, ClaimTxn DEF Exhaust, BudgetSpent
  <2>2. job[i].status = "RUNNING"
    BY <2>1, ActiveRows DEF JobRow
  <2>3. job[i].leaseUntil <= at[w]
    BY <2>1, <2>2, RunningRow DEF Claimable, Expired
  <2>4. job[i].availableAt <= inv[i].startedAt /\ inv[i].startedAt <= at[w]
    BY <1>a, <2>1, <2>2, <2>3, RunningRow DEF RowTimesOK, RowTimes
  <2>5. RowTimes(j, v)
    BY <2>4 DEF RowTimes, Released, JobOf, InvOf
  <2>6. job' = [job EXCEPT ![i] = j] /\ inv' = [inv EXCEPT ![i] = v]
    BY <1>4, <2>1 DEF Exhaust
  <2>7. QED
    BY <1>0, <2>1, <2>5, <2>6
<1>5. ASSUME NEW w \in Worker, RenewLease(w) PROVE RowTimesOK'
  <2> DEFINE i == locked[w]
             j == Renewed(job[i], at[w])
  <2>1. /\ i \in Inv /\ row[w] = job[i] /\ job[i].status = "RUNNING"
        /\ at[w] \in Nat /\ inv[i].startedAt \in Nat /\ inv[i].startedAt <= at[w]
    BY <1>5, HolderClock DEF RenewLease
  <2>2. RowTimes(j, inv[i])
    BY <1>a, <2>1 DEF RowTimesOK, RowTimes, Renewed, JobOf
  <2>3. job' = [job EXCEPT ![i] = j] /\ inv' = [inv EXCEPT ![i] = inv[i]]
    BY <1>5, <1>a, <2>1 DEF RenewLease, TypeOK
  <2>4. QED
    BY <1>0, <2>1, <2>2, <2>3
<1>6. ASSUME NEW w \in Worker, CompleteClaim(w) PROVE RowTimesOK'
  <2> DEFINE i == locked[w]
             j == Released(job[i], "DONE")
             v == InvOf("AWAITING_REVIEW", inv[i].startedAt, at[w], NULL)
  <2>1. /\ i \in Inv /\ row[w] = job[i] /\ job[i].status = "RUNNING"
        /\ inv[i].startedAt <= at[w]
    BY <1>6, HolderClock DEF CompleteClaim
  <2>2. RowTimes(j, v)
    BY <1>a, <2>1 DEF RowTimesOK, RowTimes, Released, JobOf, InvOf
  <2>3. job' = [job EXCEPT ![i] = j] /\ inv' = [inv EXCEPT ![i] = v]
    BY <1>6, <2>1 DEF CompleteClaim
  <2>4. QED
    BY <1>0, <2>1, <2>2, <2>3
<1>7. ASSUME NEW w \in Worker, NEW reason \in Reasons, RetryLater(w, reason) PROVE RowTimesOK'
  <2> DEFINE i == locked[w]
             j == Requeued(job[i], at[w])
             v == InvOf("QUEUED", inv[i].startedAt, inv[i].finishedAt, reason)
  <2>1. i \in Inv /\ row[w] = job[i] /\ job[i].status = "RUNNING" /\ inv[i].finishedAt = NULL
    BY <1>7, HolderTxn, RunningRow DEF RetryLater
  <2>2. RowTimes(j, v)
    BY <2>1 DEF RowTimes, Requeued, JobOf, InvOf
  <2>3. job' = [job EXCEPT ![i] = j] /\ inv' = [inv EXCEPT ![i] = v]
    BY <1>7, <2>1 DEF RetryLater
  <2>4. QED
    BY <1>0, <2>1, <2>2, <2>3
<1>8. ASSUME NEW w \in Worker, NEW reason \in Reasons, FailForGood(w, reason) PROVE RowTimesOK'
  <2> DEFINE i == locked[w]
             j == Released(job[i], "FAILED")
             v == InvOf("FAILED", inv[i].startedAt, at[w], reason)
  <2>1. /\ i \in Inv /\ row[w] = job[i] /\ job[i].status = "RUNNING"
        /\ inv[i].startedAt <= at[w]
    BY <1>8, HolderClock DEF FailForGood
  <2>2. RowTimes(j, v)
    BY <1>a, <2>1 DEF RowTimesOK, RowTimes, Released, JobOf, InvOf
  <2>3. job' = [job EXCEPT ![i] = j] /\ inv' = [inv EXCEPT ![i] = v]
    BY <1>8, <2>1 DEF FailForGood
  <2>4. QED
    BY <1>0, <2>1, <2>2, <2>3
<1>9. CASE UNCHANGED <<job, inv>>
  BY <1>9, <1>a DEF RowTimesOK
<1>10. QED
  BY <1>1, <1>2, <1>3, <1>4, <1>5, <1>6, <1>7, <1>8, <1>9 DEF Next, ClaimStep, HolderStep,
     FailClaim, Tick, ReadClock, SelectCandidate, FindNothing, CheckLease, LockHeld, Refuse,
     SaveEvidence, Reject, Crash, vars, rows

(* Every step but the start of an attempt keeps the holder's times.        *)
LEMMA HoldersKept ==
  ASSUME QueueInv, TimeInv, clock' \in Nat, clock' >= clock,
         \A v \in Worker : held'[v].inv # NULL =>
            /\ held'[v].inv = held[v].inv /\ held'[v].attempt = held[v].attempt
            /\ held'[v].step \in Unrenewed => held[v].step \in Unrenewed,
         \A v \in Worker : at'[v] \in {NULL, at[v], clock + Skew[v]},
         \A k \in Inv : job'[k].status = "RUNNING" =>
            /\ job[k].status = "RUNNING" /\ job'[k].attempts = job[k].attempts
            /\ inv'[k].startedAt = inv[k].startedAt
            /\ \/ job'[k].leaseUntil = job[k].leaseUntil
               \/ \A v \in Worker : held[v].inv = k /\ held[v].attempt = job[k].attempts
                                    => held'[v].step \notin Unrenewed
  PROVE  HoldersInTime'
<1> SUFFICES ASSUME NEW w \in Worker, HoldsLatest(w)' PROVE HolderTimes(w)'
  BY DEF HoldersInTime
<1> DEFINE i == held[w].inv
<1>1. /\ held'[w].inv = i /\ i \in Inv /\ held'[w].attempt = held[w].attempt
      /\ held'[w].step \in Unrenewed => held[w].step \in Unrenewed
  BY DEF HoldsLatest, QueueInv, TypeOK
<1>2. /\ job[i].status = "RUNNING" /\ held[w].attempt = job[i].attempts
      /\ inv'[i].startedAt = inv[i].startedAt
      /\ job'[i].leaseUntil = job[i].leaseUntil \/ held'[w].step \notin Unrenewed
  BY <1>1 DEF HoldsLatest
<1>3. HolderTimes(w)
  BY <1>1, <1>2 DEF TimeInv, HoldersInTime, HoldsLatest
<1>4. inv[i].startedAt \in Nat /\ clock \in Nat /\ Skew[w] \in Nat
  BY <1>1, <1>2, RunningRow DEF QueueInv, TypeOK
<1>5. inv'[i].startedAt <= clock' + Skew[w]
  BY <1>2, <1>3, <1>4 DEF HolderTimes
<1>6. at'[w] # NULL => inv'[i].startedAt <= at'[w]
  BY <1>2, <1>3, <1>4 DEF HolderTimes
<1>7. held'[w].step \in Unrenewed => job'[i].leaseUntil = inv'[i].startedAt + Lease
  BY <1>1, <1>2, <1>3 DEF HolderTimes, Unrenewed
<1>8. QED
  BY <1>1, <1>5, <1>6, <1>7 DEF HolderTimes, Unrenewed

LEMMA HoldersStep == QueueInv /\ TimeInv /\ [Next]_vars => HoldersInTime'
<1> SUFFICES ASSUME QueueInv, TimeInv, [Next]_vars PROVE HoldersInTime'
  OBVIOUS
<1>a. TypeOK /\ RowsAgree /\ clock \in Nat
  BY DEF QueueInv, TypeOK
<1>1. ASSUME NEW w \in Worker, StartAttempt(w) PROVE HoldersInTime'
  <2> DEFINE i == locked[w]
             n == job[i].attempts + 1
  <2>1. /\ i \in Inv /\ row[w] = job[i] /\ at[w] \in Nat /\ job[i].attempts \in Nat
        /\ at[w] <= clock + Skew[w]
    BY <1>1, ClaimTxn DEF StartAttempt, JobRow, TimeInv, ClocksRead
  <2>2. /\ job' = [job EXCEPT ![i] = JobOf("RUNNING", n, job[i].availableAt, at[w] + Lease, w)]
        /\ inv' = [inv EXCEPT ![i] = InvOf("RUNNING", at[w], inv[i].finishedAt, NULL)]
        /\ held' = [held EXCEPT ![w] = [inv |-> i, attempt |-> n, step |-> "CLAIMED"]]
        /\ at' = [at EXCEPT ![w] = NULL] /\ clock' = clock
    BY <1>1, <2>1 DEF StartAttempt, Started, EndTxn
  <2> SUFFICES ASSUME NEW v \in Worker, HoldsLatest(v)' PROVE HolderTimes(v)'
    BY DEF HoldersInTime
  <2>3. CASE v = w
    <3>1. /\ held'[v].inv = i /\ at'[v] = NULL
          /\ inv'[i].startedAt = at[w] /\ job'[i].leaseUntil = at[w] + Lease
      BY <1>a, <2>1, <2>2, <2>3 DEF TypeOK, JobOf, InvOf
    <3>2. QED
      BY <2>1, <2>2, <2>3, <3>1 DEF HolderTimes, Unrenewed
  <2>4. CASE v # w
    <3>1. held'[v] = held[v] /\ at'[v] = at[v]
      BY <1>a, <2>2, <2>4 DEF TypeOK
    <3>2. held[v].inv \in Inv /\ Working(v)
      BY <1>a, <3>1 DEF HoldsLatest, Working, TypeOK
    <3>3. held[v].inv # i
      <4> SUFFICES ASSUME held[v].inv = i PROVE FALSE
        OBVIOUS
      <4>1. job'[i].attempts = n
        BY <1>a, <2>1, <2>2 DEF TypeOK, JobOf
      <4>2. held[v].attempt \in 1..job[i].attempts
        BY <3>2 DEF QueueInv, OneClaimPerAttempt
      <4>3. QED
        BY <2>1, <3>1, <4>1, <4>2 DEF HoldsLatest
    <3>4. job'[held[v].inv] = job[held[v].inv] /\ inv'[held[v].inv] = inv[held[v].inv]
      BY <1>a, <2>1, <2>2, <3>2, <3>3 DEF TypeOK
    <3>5. HoldsLatest(v)
      BY <3>1, <3>4 DEF HoldsLatest
    <3>6. HolderTimes(v)
      BY <3>5 DEF TimeInv, HoldersInTime
    <3>7. QED
      BY <2>2, <3>1, <3>4, <3>6 DEF HolderTimes
  <2>5. QED
    BY <2>3, <2>4
<1>2. ASSUME NEW i \in Inv, Enqueue(i) PROVE HoldersInTime'
  <2>1. \A k \in Inv : job'[k].status = "RUNNING" => job'[k] = job[k] /\ inv'[k] = inv[k]
    BY <1>2, <1>a DEF Enqueue, TypeOK, JobOf
  <2>2. clock' = clock /\ held' = held /\ at' = at
    BY <1>2 DEF Enqueue, txn
  <2>3. QED
    BY <1>a, <2>1, <2>2, HoldersKept
<1>3. ASSUME NEW i \in Inv, Review(i) PROVE HoldersInTime'
  <2>1. job' = job /\ (\A k \in Inv : inv'[k].startedAt = inv[k].startedAt)
    BY <1>3, <1>a DEF Review, TypeOK, InvOf
  <2>2. clock' = clock /\ held' = held /\ at' = at
    BY <1>3 DEF Review, txn
  <2>3. QED
    BY <1>a, <2>1, <2>2, HoldersKept
<1>4. CASE Tick
  <2>1. /\ clock' \in Nat /\ clock' >= clock /\ job' = job /\ inv' = inv /\ held' = held /\ at' = at
    BY <1>4, <1>a DEF Tick, rows, txn
  <2>2. QED
    BY <2>1, HoldersKept
<1>5. ASSUME NEW w \in Worker, ReadClock(w) PROVE HoldersInTime'
  <2>1. /\ clock' = clock /\ job' = job /\ inv' = inv /\ held' = held
        /\ \A v \in Worker : at'[v] \in {NULL, at[v], clock + Skew[v]}
    BY <1>5, <1>a DEF ReadClock, rows, TypeOK
  <2>2. QED
    BY <1>a, <2>1, HoldersKept
<1>6. ASSUME NEW w \in Worker, Exhaust(w) PROVE HoldersInTime'
  <2>1. locked[w] \in Inv
    BY <1>6, ClaimTxn DEF Exhaust
  <2>2. \A k \in Inv : job'[k].status = "RUNNING" => job'[k] = job[k] /\ inv'[k] = inv[k]
    BY <1>6, <1>a, <2>1 DEF Exhaust, TypeOK, Released, JobOf
  <2>3. clock' = clock /\ held' = held /\ at' = at
    BY <1>6 DEF Exhaust
  <2>4. QED
    BY <1>a, <2>2, <2>3, HoldersKept
<1>7. ASSUME NEW w \in Worker, NEW s \in Steps, EndTxn(w), clock' = clock,
             \/ Drop(w)
             \/ Advance(w, s) /\ (s \in Unrenewed => held[w].step \in Unrenewed)
      PROVE  /\ clock' \in Nat /\ clock' >= clock
             /\ \A v \in Worker : held'[v].inv # NULL =>
                   /\ held'[v].inv = held[v].inv /\ held'[v].attempt = held[v].attempt
                   /\ held'[v].step \in Unrenewed => held[v].step \in Unrenewed
             /\ \A v \in Worker : at'[v] \in {NULL, at[v], clock + Skew[v]}
  <2>1. \A v \in Worker : held'[v].inv # NULL =>
            held'[v].inv = held[v].inv /\ held'[v].attempt = held[v].attempt
    BY <1>7, <1>a, ClaimKept
  <2>2. \A v \in Worker : held'[v].inv # NULL /\ held'[v].step \in Unrenewed
                          => held[v].step \in Unrenewed
    <3>1. CASE Drop(w)
      BY <1>a, <3>1 DEF Drop, NoClaim, TypeOK
    <3>2. CASE Advance(w, s) /\ (s \in Unrenewed => held[w].step \in Unrenewed)
      <4>1. held' = [held EXCEPT ![w] = [held[w] EXCEPT !.step = s]]
        BY <3>2 DEF Advance
      <4>2. held[w] \in ClaimRow
        BY <1>a DEF TypeOK, ClaimRow
      <4>3. held'[w].step = s /\ (\A v \in Worker : v # w => held'[v] = held[v])
        BY <1>a, <4>1, <4>2 DEF TypeOK, ClaimRow
      <4>4. QED
        BY <3>2, <4>3
    <3>3. QED
      BY <1>7, <3>1, <3>2
  <2>3. \A v \in Worker : at'[v] \in {NULL, at[v], clock + Skew[v]}
    BY <1>7, <1>a DEF EndTxn, TypeOK
  <2>4. QED
    BY <1>7, <1>a, <2>1, <2>2, <2>3
<1>8. ASSUME NEW w \in Worker, CheckLease(w) \/ Refuse(w) \/ SaveEvidence(w) \/ Reject(w)
               \/ Crash(w)
      PROVE  HoldersInTime'
  <2>1. /\ EndTxn(w) /\ clock' = clock /\ job' = job /\ inv' = inv
        /\ \E s \in Steps : \/ Drop(w)
                            \/ Advance(w, s) /\ (s \in Unrenewed => held[w].step \in Unrenewed)
    BY <1>8 DEF CheckLease, Refuse, SaveEvidence, Reject, Crash, Steps, Unrenewed, rows
  <2>2. QED
    BY <1>7, <2>1, HoldersKept
<1>9. ASSUME NEW w \in Worker, CompleteClaim(w) \/ FailClaim(w) PROVE HoldersInTime'
  <2>1. EndTxn(w) /\ clock' = clock /\ Drop(w) /\ "IDLE" \in Steps
    BY <1>9 DEF CompleteClaim, FailClaim, RetryLater, FailForGood, Steps
  <2>2. PICK j, v : /\ job' = [job EXCEPT ![locked[w]] = j] /\ j.status # "RUNNING"
                    /\ inv' = [inv EXCEPT ![locked[w]] = v]
    BY <1>9 DEF CompleteClaim, FailClaim, RetryLater, FailForGood, Released, Requeued, JobOf
  <2>3. \A k \in Inv : job'[k].status = "RUNNING" => job'[k] = job[k] /\ inv'[k] = inv[k]
    BY <1>a, <2>2 DEF TypeOK
  <2>4. QED
    BY <1>7, <2>1, <2>3, HoldersKept
<1>10. ASSUME NEW w \in Worker, RenewLease(w) PROVE HoldersInTime'
  <2> DEFINE i == locked[w]
  <2>1. /\ i \in Inv /\ row[w] = job[i] /\ held[w].inv = i /\ held[w].attempt = job[i].attempts
        /\ job[i].status = "RUNNING"
    BY <1>10, HolderTxn DEF RenewLease
  <2>2. EndTxn(w) /\ clock' = clock /\ Advance(w, "RENEWED") /\ "RENEWED" \in Steps \ Unrenewed
        /\ inv' = inv
    BY <1>10 DEF RenewLease, Steps, Unrenewed
  <2>3. job' = [job EXCEPT ![i] = Renewed(job[i], at[w])]
    BY <1>10, <2>1 DEF RenewLease
  <2>4. \A k \in Inv : /\ job'[k].status = job[k].status /\ job'[k].attempts = job[k].attempts
                       /\ k # i => job'[k] = job[k]
    BY <1>a, <2>1, <2>3 DEF TypeOK, Renewed, JobOf
  <2>5. held'[w].step = "RENEWED" /\ (\A v \in Worker : v # w => held'[v] = held[v])
    <3>1. held[w] \in ClaimRow
      BY <1>a DEF TypeOK, ClaimRow
    <3>2. QED
      BY <1>a, <2>2, <3>1 DEF Advance, TypeOK, ClaimRow
  <2>6. \A v \in Worker : held[v].inv = i /\ held[v].attempt = job[i].attempts
                          => held'[v].step \notin Unrenewed
    <3>1. \A v \in Worker : held[v].inv = i /\ held[v].attempt = job[i].attempts => v = w
      BY <2>1 DEF QueueInv, OneClaimPerAttempt, Working
    <3>2. QED
      BY <2>2, <2>5, <3>1
  <2>7. QED
    BY <1>7, <2>2, <2>4, <2>6, HoldersKept
<1>11. CASE UNCHANGED <<clock, job, inv, held, at>>
  BY <1>11, <1>a, HoldersKept
<1>12. ASSUME NEW w \in Worker, FindNothing(w) PROVE HoldersInTime'
  <2>1. /\ clock' = clock /\ job' = job /\ inv' = inv /\ held' = held
        /\ \A v \in Worker : at'[v] \in {NULL, at[v], clock + Skew[v]}
    BY <1>12, <1>a DEF FindNothing, EndTxn, rows, TypeOK
  <2>2. QED
    BY <1>a, <2>1, HoldersKept
<1>13. QED
  BY <1>1, <1>2, <1>3, <1>4, <1>5, <1>6, <1>8, <1>9, <1>10, <1>11, <1>12
     DEF Next, ClaimStep, HolderStep, SelectCandidate, LockHeld, vars, rows

LEMMA InitTimeInv == Init => TimeInv
<1> SUFFICES ASSUME Init PROVE TimeInv
  OBVIOUS
<1>1. RowTimesOK
  BY DEF Init, RowTimesOK, RowTimes, NoJob, NoInv, JobOf, InvOf
<1>2. ClocksRead
  BY DEF Init, ClocksRead
<1>3. HoldersInTime
  BY DEF Init, HoldersInTime, HoldsLatest, NoClaim
<1>4. QED
  BY <1>1, <1>2, <1>3 DEF TimeInv

-----------------------------------------------------------------------------
(* Together with the queue's invariant the times are inductive.            *)
THEOREM TimeInvariant == Spec => [](QueueInv /\ TimeInv)
<1>1. QueueInv /\ TimeInv /\ [Next]_vars => TimeInv'
  BY ClocksStep, RowTimesStep, HoldersStep DEF TimeInv
<1>2. Spec => []TimeInv
  BY QueueInvariant, InitTimeInv, <1>1, PTL DEF Spec
<1>3. QED
  BY QueueInvariant, <1>2, PTL

(* The recorded times are in order whatever the clocks of the processes:   *)
(* available, started, then the deadline or the end.                       *)
THEOREM TimesAreOrdered == Spec => []TimesOrdered
<1>1. QueueInv /\ TimeInv => TimesOrdered
  <2> SUFFICES ASSUME QueueInv, TimeInv, NEW i \in Inv
               PROVE  /\ job[i].status \in {"RUNNING", "DONE", "FAILED"}
                         => job[i].availableAt <= inv[i].startedAt
                      /\ job[i].status = "RUNNING" => inv[i].startedAt < job[i].leaseUntil
                      /\ inv[i].finishedAt # NULL => inv[i].startedAt <= inv[i].finishedAt
    BY DEF TimesOrdered
  <2>1. RowTimes(job[i], inv[i])
    BY DEF TimeInv, RowTimesOK
  <2>2. job[i].status = "RUNNING" => inv[i].startedAt < job[i].leaseUntil
    BY <2>1, RunningRow DEF RowTimes
  <2>3. QED
    BY <2>1, <2>2 DEF RowTimes
<1>2. QED
  BY TimeInvariant, <1>1, PTL

(* What a step may do to a lease.                                          *)
LEMMA LeaseStep ==
  ASSUME QueueInv, TimeInv, [Next]_vars, NEW i \in Inv, job[i].status = "RUNNING"
  PROVE  /\ job'[i].status = "RUNNING" => job'[i].leaseUntil >= job[i].leaseUntil
         /\ job'[i].attempts # job[i].attempts \/ inv'[i].error = "ATTEMPTS_EXHAUSTED"
            => \E w \in Worker : clock + Skew[w] >= job[i].leaseUntil
<1> DEFINE Kept == /\ job'[i].status = "RUNNING" => job'[i].leaseUntil >= job[i].leaseUntil
                   /\ job'[i].attempts # job[i].attempts \/ inv'[i].error = "ATTEMPTS_EXHAUSTED"
                      => \E w \in Worker : clock + Skew[w] >= job[i].leaseUntil
<1>a. TypeOK /\ RowsAgree
  BY DEF QueueInv
<1>b. /\ job[i].leaseUntil \in Nat /\ job[i].attempts \in Nat /\ clock \in Nat
      /\ inv[i].error = NULL /\ "ATTEMPTS_EXHAUSTED" # NULL
  <2>1. RowAgrees(job[i], inv[i])
    BY <1>a DEF RowsAgree
  <2>2. QED
    BY <1>a, <2>1, RunningRow DEF RowAgrees, NoJob, JobOf, TypeOK, Reasons
<1>1. ASSUME job'[i] = job[i], inv'[i].error = inv[i].error PROVE Kept
  BY <1>1, <1>b
<1>2. ASSUME NEW w \in Worker, StartAttempt(w) \/ Exhaust(w), locked[w] = i PROVE Kept
  <2>1. row[w] = job[i] /\ at[w] \in Nat /\ Claimable(job[i], at[w])
    BY <1>2, ClaimTxn DEF StartAttempt, Exhaust
  <2>2. job[i].leaseUntil <= at[w]
    BY <1>b, <2>1 DEF Claimable, Expired
  <2>3. at[w] <= clock + Skew[w]
    BY <2>1 DEF TimeInv, ClocksRead
  <2>4. clock + Skew[w] >= job[i].leaseUntil
    BY <1>b, <2>1, <2>2, <2>3
  <2>5. \/ job'[i].leaseUntil = at[w] + Lease
        \/ job'[i].status = "FAILED"
    BY <1>2, <1>a, <2>1 DEF StartAttempt, Exhaust, Started, Released, JobOf, TypeOK
  <2>6. QED
    BY <1>b, <2>1, <2>2, <2>4, <2>5
<1>3. ASSUME NEW w \in Worker, RenewLease(w), locked[w] = i PROVE Kept
  <2>1. /\ row[w] = job[i] /\ at[w] \in Nat /\ inv[i].startedAt \in Nat
        /\ inv[i].startedAt <= at[w] /\ HolderTimes(w)
    BY <1>3, HolderClock DEF RenewLease
  <2>2. held[w].inv = i /\ held[w].step \in Unrenewed
    BY <1>3, HolderTxn DEF RenewLease, Unrenewed
  <2>3. job[i].leaseUntil = inv[i].startedAt + Lease
    BY <2>1, <2>2 DEF HolderTimes
  <2>4. /\ job'[i].leaseUntil = at[w] + Lease /\ job'[i].attempts = job[i].attempts
        /\ inv' = inv
    BY <1>3, <1>a, <2>1 DEF RenewLease, Renewed, JobOf, TypeOK
  <2>5. QED
    BY <1>b, <2>1, <2>3, <2>4
<1>4. ASSUME NEW w \in Worker, CompleteClaim(w) \/ FailClaim(w), locked[w] = i PROVE Kept
  <2>1. row[w] = job[i]
    BY <1>4, HolderTxn DEF CompleteClaim, FailClaim, RetryLater, FailForGood
  <2>2. \A step : "ATTEMPTS_EXHAUSTED" \notin ReasonsAt(step)
    BY DEF ReasonsAt
  <2> DEFINE Ends(j, v) == /\ job' = [job EXCEPT ![i] = j] /\ inv' = [inv EXCEPT ![i] = v]
                           /\ j.status # "RUNNING" /\ j.attempts = job[i].attempts
                           /\ v.error # "ATTEMPTS_EXHAUSTED"
  <2>3. CASE CompleteClaim(w)
    <3>1. Ends(Released(job[i], "DONE"), InvOf("AWAITING_REVIEW", inv[i].startedAt, at[w], NULL))
      BY <1>4, <1>b, <2>1, <2>3 DEF CompleteClaim, Released, JobOf, InvOf
    <3>2. QED
      BY <1>a, <1>b, <3>1 DEF TypeOK
  <2>4. ASSUME NEW reason \in Reasons, RetryLater(w, reason) PROVE Kept
    <3>1. Ends(Requeued(job[i], at[w]),
               InvOf("QUEUED", inv[i].startedAt, inv[i].finishedAt, reason))
      BY <1>4, <2>1, <2>2, <2>4 DEF RetryLater, Requeued, JobOf, InvOf
    <3>2. QED
      BY <1>a, <1>b, <3>1 DEF TypeOK
  <2>5. ASSUME NEW reason \in Reasons, FailForGood(w, reason) PROVE Kept
    <3>1. Ends(Released(job[i], "FAILED"), InvOf("FAILED", inv[i].startedAt, at[w], reason))
      BY <1>4, <2>1, <2>2, <2>5 DEF FailForGood, Released, JobOf, InvOf
    <3>2. QED
      BY <1>a, <1>b, <3>1 DEF TypeOK
  <2>6. QED
    BY <1>4, <2>3, <2>4, <2>5 DEF FailClaim
<1>5. ASSUME NEW w \in Worker, locked[w] # i,
             StartAttempt(w) \/ Exhaust(w) \/ RenewLease(w) \/ CompleteClaim(w) \/ FailClaim(w)
      PROVE  Kept
  BY <1>1, <1>5, <1>a DEF StartAttempt, Exhaust, RenewLease, CompleteClaim, FailClaim, RetryLater,
     FailForGood, TypeOK
<1>6. ASSUME NEW k \in Inv, Enqueue(k) \/ Review(k) PROVE Kept
  <2>1. k # i
    BY <1>6, <1>a DEF Enqueue, Review, RowsAgree, RowAgrees, NoJob, JobOf
  <2>2. QED
    BY <1>1, <1>6, <1>a, <2>1 DEF Enqueue, Review, TypeOK
<1>7. CASE UNCHANGED <<job, inv>>
  BY <1>1, <1>7
<1>8. QED
  BY <1>2, <1>3, <1>4, <1>5, <1>6, <1>7 DEF Next, ClaimStep, HolderStep, Tick, ReadClock,
     SelectCandidate, FindNothing, CheckLease, LockHeld, Refuse, SaveEvidence, Reject, Crash,
     vars, rows

(* No lease is cut short: deadlines only move forward, and a job is taken  *)
(* from its holder only at its deadline by some worker's clock.            *)
THEOREM LeasesKept == Spec => LeaseNeverCutShort
<1>1. QueueInv /\ TimeInv /\ [Next]_vars =>
        [\A i \in Inv : job[i].status = "RUNNING" =>
           /\ job'[i].status = "RUNNING" => job'[i].leaseUntil >= job[i].leaseUntil
           /\ job'[i].attempts # job[i].attempts \/ inv'[i].error = "ATTEMPTS_EXHAUSTED"
              => \E w \in Worker : clock + Skew[w] >= job[i].leaseUntil]_vars
  BY LeaseStep
<1>2. QED
  BY TimeInvariant, <1>1, PTL DEF Spec, LeaseNeverCutShort

-----------------------------------------------------------------------------
(* The audit trail of an investigation is its history, for every number of *)
(* workers, attempts and takeovers.                                        *)

Trail(s, j, v) ==
  /\ Len(s) = 0 => v.status = "ABSENT"
  /\ Len(s) > 0 => /\ s[1] = Event("INVESTIGATION_QUEUED", 0)
                   /\ v.status = StatusOf(s[Len(s)].action)
                   /\ v.status # "COMPLETED" => s[Len(s)].attempt = j.attempts
  /\ \A k \in 1..(Len(s) - 1) : Follows(s[k], s[k + 1])

LEMMA TrailIsAuditTrail == AuditTrail <=> \A i \in Inv : Trail(audit[i], job[i], inv[i])
BY DEF AuditTrail, Trail

(* A trail grows by an event that follows its last one and tells the state.*)
LEMMA TrailGrows ==
  ASSUME NEW s \in Seq(AuditEvent), NEW e \in AuditEvent, NEW j, NEW v, NEW j2, NEW v2,
         Trail(s, j, v),
         Len(s) = 0 => e = Event("INVESTIGATION_QUEUED", 0),
         Len(s) > 0 => Follows(s[Len(s)], e),
         v2.status = StatusOf(e.action),
         v2.status # "COMPLETED" => e.attempt = j2.attempts
  PROVE  Trail(Append(s, e), j2, v2)
<1> DEFINE t == Append(s, e)
<1>1. /\ t \in Seq(AuditEvent) /\ Len(s) \in Nat /\ Len(t) = Len(s) + 1 /\ t[Len(t)] = e
      /\ \A k \in 1..Len(s) : t[k] = s[k]
  OBVIOUS
<1>2. t[1] = Event("INVESTIGATION_QUEUED", 0)
  BY <1>1 DEF Trail
<1>3. ASSUME NEW k \in 1..(Len(t) - 1) PROVE Follows(t[k], t[k + 1])
  <2>1. CASE k < Len(s)
    <3>1. k \in 1..(Len(s) - 1) /\ t[k] = s[k] /\ t[k + 1] = s[k + 1]
      BY <1>1, <2>1
    <3>2. QED
      BY <3>1 DEF Trail
  <2>2. CASE k = Len(s)
    BY <1>1, <2>2
  <2>3. QED
    BY <1>1, <2>1, <2>2
<1>4. QED
  BY <1>1, <1>2, <1>3 DEF Trail

(* What the last event says of a state.                                    *)
LEMMA LastEvent ==
  ASSUME QueueInv, AuditTrail, NEW i \in Inv
  PROVE  /\ audit[i] \in Seq(AuditEvent) /\ Trail(audit[i], job[i], inv[i])
         /\ inv[i].status = "ABSENT" => Len(audit[i]) = 0
         /\ inv[i].status # "ABSENT" => Len(audit[i]) > 0
         /\ inv[i].status = "QUEUED" =>
              /\ audit[i][Len(audit[i])].action \in {"INVESTIGATION_QUEUED",
                                                     "INVESTIGATION_RETRY_SCHEDULED"}
              /\ audit[i][Len(audit[i])].attempt = job[i].attempts
         /\ inv[i].status = "RUNNING" =>
              /\ audit[i][Len(audit[i])].action \in Starts
              /\ audit[i][Len(audit[i])].attempt = job[i].attempts
         /\ inv[i].status = "AWAITING_REVIEW" =>
              audit[i][Len(audit[i])].action = "INVESTIGATION_AWAITING_REVIEW"
<1>1. audit[i] \in Seq(AuditEvent) /\ Trail(audit[i], job[i], inv[i])
  BY TrailIsAuditTrail DEF QueueInv, TypeOK
<1> DEFINE e == audit[i][Len(audit[i])]
<1>2. Len(audit[i]) \in Nat /\ (Len(audit[i]) > 0 => e \in AuditEvent)
  BY <1>1
<1>3. Len(audit[i]) > 0 => /\ inv[i].status = StatusOf(e.action)
                           /\ inv[i].status # "COMPLETED" => e.attempt = job[i].attempts
  BY <1>1 DEF Trail
<1>4. Len(audit[i]) = 0 => inv[i].status = "ABSENT"
  BY <1>1 DEF Trail
<1>5. Len(audit[i]) > 0 =>
        /\ inv[i].status # "ABSENT"
        /\ inv[i].status = "QUEUED" => e.action \in {"INVESTIGATION_QUEUED",
                                                     "INVESTIGATION_RETRY_SCHEDULED"}
        /\ inv[i].status = "RUNNING" => e.action \in Starts
        /\ inv[i].status = "AWAITING_REVIEW" => e.action = "INVESTIGATION_AWAITING_REVIEW"
  BY <1>2, <1>3 DEF StatusOf, Starts, AuditEvent
<1>6. QED
  BY <1>1, <1>2, <1>3, <1>4, <1>5

LEMMA AuditStep == QueueInv /\ AuditTrail /\ [Next]_vars => AuditTrail'
<1> SUFFICES ASSUME QueueInv, AuditTrail, [Next]_vars PROVE AuditTrail'
  OBVIOUS
<1>a. TypeOK /\ RowsAgree
  BY DEF QueueInv
<1>0. ASSUME NEW i \in Inv, NEW e \in AuditEvent, audit'[i] = Append(audit[i], e),
             \A k \in Inv : k # i => audit'[k] = audit[k] /\ job'[k] = job[k] /\ inv'[k] = inv[k],
             Len(audit[i]) = 0 => e = Event("INVESTIGATION_QUEUED", 0),
             Len(audit[i]) > 0 => Follows(audit[i][Len(audit[i])], e),
             inv'[i].status = StatusOf(e.action),
             inv'[i].status # "COMPLETED" => e.attempt = job'[i].attempts
      PROVE  AuditTrail'
  <2>1. audit[i] \in Seq(AuditEvent) /\ Trail(audit[i], job[i], inv[i])
    BY LastEvent
  <2>2. Trail(audit'[i], job'[i], inv'[i])
    BY <1>0, <2>1, TrailGrows
  <2>3. \A k \in Inv : Trail(audit[k], job[k], inv[k])
    BY TrailIsAuditTrail
  <2>4. \A k \in Inv : Trail(audit'[k], job'[k], inv'[k])
    BY <1>0, <2>2, <2>3
  <2>5. QED
    BY <2>4 DEF AuditTrail, Trail
<1>1. ASSUME NEW i \in Inv, Enqueue(i) PROVE AuditTrail'
  <2> DEFINE e == Event("INVESTIGATION_QUEUED", 0)
             j == JobOf("QUEUED", 0, clock + ApiSkew, NULL, NULL)
             v == InvOf("QUEUED", NULL, NULL, NULL)
  <2>1. Len(audit[i]) = 0
    BY <1>1, LastEvent DEF Enqueue
  <2>2. e \in AuditEvent /\ e.action = "INVESTIGATION_QUEUED" /\ e.attempt = 0
    BY EventType DEF Event
  <2>3. v.status = StatusOf(e.action) /\ e.attempt = j.attempts
    BY <2>2 DEF StatusOf, Starts, InvOf, JobOf
  <2>4. /\ audit'[i] = Append(audit[i], e) /\ job'[i] = j /\ inv'[i] = v
        /\ \A k \in Inv : k # i => audit'[k] = audit[k] /\ job'[k] = job[k] /\ inv'[k] = inv[k]
    BY <1>1, <1>a DEF Enqueue, Log, TypeOK
  <2>5. QED
    BY <1>0, <2>1, <2>2, <2>3, <2>4
<1>2. ASSUME NEW i \in Inv, Review(i) PROVE AuditTrail'
  <2> DEFINE e == Event("INVESTIGATION_REVIEWED", 0)
             v == InvOf("COMPLETED", inv[i].startedAt, inv[i].finishedAt, inv[i].error)
  <2>1. /\ Len(audit[i]) > 0
        /\ audit[i][Len(audit[i])].action = "INVESTIGATION_AWAITING_REVIEW"
    BY <1>2, LastEvent DEF Review
  <2>2. e \in AuditEvent /\ e.action = "INVESTIGATION_REVIEWED"
    BY EventType DEF Event
  <2>3. v.status = "COMPLETED" /\ v.status = StatusOf(e.action)
    BY <2>2 DEF StatusOf, Starts, InvOf
  <2>4. /\ audit'[i] = Append(audit[i], e) /\ job'[i] = job[i] /\ inv'[i] = v
        /\ \A k \in Inv : k # i => audit'[k] = audit[k] /\ job'[k] = job[k] /\ inv'[k] = inv[k]
    BY <1>2, <1>a DEF Review, TypeOK, Log
  <2>5. Follows(audit[i][Len(audit[i])], e)
    BY <2>1, <2>2 DEF Follows
  <2>6. QED
    BY <1>0, <2>1, <2>2, <2>3, <2>4, <2>5
<1>3. ASSUME NEW w \in Worker, StartAttempt(w) PROVE AuditTrail'
  <2> DEFINE i == locked[w]
             n == job[i].attempts + 1
             a == IF job[i].status = "RUNNING" THEN "INVESTIGATION_RECLAIMED"
                                               ELSE "INVESTIGATION_STARTED"
             e == Event(a, n)
             j == Started(job[i], w, at[w])
             v == InvOf("RUNNING", at[w], inv[i].finishedAt, NULL)
  <2>1. /\ i \in Inv /\ row[w] = job[i] /\ job[i].attempts \in 0..MaxAttempts
        /\ job[i].status \in {"QUEUED", "RUNNING"} /\ inv[i].status = job[i].status
        /\ ~BudgetSpent(row[w])
    BY <1>3, ClaimTxn, ActiveRows DEF StartAttempt, JobRow
  <2>2. /\ Len(audit[i]) > 0
        /\ audit[i][Len(audit[i])].attempt = job[i].attempts
        /\ audit[i][Len(audit[i])].action \in
             IF job[i].status = "RUNNING" THEN Starts
             ELSE {"INVESTIGATION_QUEUED", "INVESTIGATION_RETRY_SCHEDULED"}
    BY <2>1, LastEvent
  <2>3. n \in 0..MaxAttempts /\ a \in Starts
    BY <2>1 DEF BudgetSpent, Starts
  <2>4. e \in AuditEvent /\ e.action = a /\ e.attempt = n
    BY <2>3, EventType DEF Event, Starts
  <2>5. v.status = "RUNNING" /\ StatusOf(a) = "RUNNING" /\ j.attempts = n
    BY <2>3 DEF InvOf, StatusOf, JobOf, Started
  <2>6. Follows(audit[i][Len(audit[i])], e)
    BY <2>2, <2>4 DEF Follows
  <2>7. /\ audit'[i] = Append(audit[i], e) /\ job'[i] = j /\ inv'[i] = v
        /\ \A k \in Inv : k # i => audit'[k] = audit[k] /\ job'[k] = job[k] /\ inv'[k] = inv[k]
    BY <1>3, <2>1, <1>a DEF StartAttempt, Log, TypeOK
  <2>8. QED
    BY <1>0, <2>1, <2>2, <2>4, <2>5, <2>6, <2>7
<1>4. ASSUME NEW i \in Inv, NEW a \in {"INVESTIGATION_RETRY_SCHEDULED", "INVESTIGATION_FAILED",
                                      "INVESTIGATION_AWAITING_REVIEW"},
             NEW j, NEW v, audit' = [audit EXCEPT ![i] = Append(audit[i], Event(a, job[i].attempts))],
             inv[i].status = "RUNNING", job[i].attempts \in 0..MaxAttempts,
             job' = [job EXCEPT ![i] = j], inv' = [inv EXCEPT ![i] = v],
             j.attempts = job[i].attempts, v.status = StatusOf(a)
      PROVE  AuditTrail'
  <2> DEFINE e == Event(a, job[i].attempts)
  <2>1. /\ Len(audit[i]) > 0
        /\ audit[i][Len(audit[i])].attempt = job[i].attempts
        /\ audit[i][Len(audit[i])].action \in Starts
    BY <1>4, LastEvent
  <2>2. e \in AuditEvent /\ e.action = a /\ e.attempt = job[i].attempts
    BY <1>4, EventType DEF Event
  <2>3. Follows(audit[i][Len(audit[i])], e)
    BY <2>1, <2>2 DEF Follows
  <2>4. /\ audit'[i] = Append(audit[i], e) /\ job'[i] = j /\ inv'[i] = v
        /\ \A k \in Inv : k # i => audit'[k] = audit[k] /\ job'[k] = job[k] /\ inv'[k] = inv[k]
    BY <1>4, <1>a DEF TypeOK
  <2>5. QED
    BY <1>0, <1>4, <2>1, <2>2, <2>3, <2>4
<1>5. ASSUME NEW w \in Worker, Exhaust(w) PROVE AuditTrail'
  <2> DEFINE i == locked[w]
  <2>1. /\ i \in Inv /\ row[w] = job[i] /\ RowAgrees(job[i], inv[i])
        /\ job[i].status \in {"QUEUED", "RUNNING"} /\ job[i].attempts \in 0..MaxAttempts
        /\ job[i].attempts >= MaxAttempts
    BY <1>5, ClaimTxn DEF Exhaust, JobRow, BudgetSpent
  <2>2. inv[i].status = "RUNNING"
    BY <2>1, ActiveRows
  <2>3. /\ Released(job[i], "FAILED").attempts = job[i].attempts
        /\ InvOf("FAILED", inv[i].startedAt, at[w], "ATTEMPTS_EXHAUSTED").status
             = StatusOf("INVESTIGATION_FAILED")
    BY DEF Released, JobOf, InvOf, StatusOf, Starts
  <2>4. QED
    BY <1>4, <1>5, <2>1, <2>2, <2>3 DEF Exhaust, Log
<1>6. ASSUME NEW w \in Worker, CompleteClaim(w) PROVE AuditTrail'
  <2> DEFINE i == locked[w]
  <2>1. /\ i \in Inv /\ row[w] = job[i] /\ inv[i].status = "RUNNING"
        /\ held[w].attempt = job[i].attempts /\ job[i].attempts \in 0..MaxAttempts
    BY <1>6, HolderTxn DEF CompleteClaim, JobRow
  <2>2. /\ Released(job[i], "DONE").attempts = job[i].attempts
        /\ InvOf("AWAITING_REVIEW", inv[i].startedAt, at[w], NULL).status
             = StatusOf("INVESTIGATION_AWAITING_REVIEW")
    BY DEF Released, JobOf, InvOf, StatusOf, Starts
  <2>3. QED
    BY <1>4, <1>6, <2>1, <2>2 DEF CompleteClaim, Log
<1>7. ASSUME NEW w \in Worker, NEW s \in Reasons, RetryLater(w, s) PROVE AuditTrail'
  <2> DEFINE i == locked[w]
  <2>1. /\ i \in Inv /\ row[w] = job[i] /\ RowAgrees(job[i], inv[i])
        /\ job[i].status = "RUNNING" /\ job[i].attempts \in 0..MaxAttempts
    BY <1>7, HolderTxn DEF RetryLater, JobRow
  <2>2. inv[i].status = "RUNNING"
    BY <2>1, ActiveRows
  <2>3. /\ Requeued(job[i], at[w]).attempts = job[i].attempts
        /\ InvOf("QUEUED", inv[i].startedAt, inv[i].finishedAt, s).status
             = StatusOf("INVESTIGATION_RETRY_SCHEDULED")
    BY DEF Requeued, JobOf, InvOf, StatusOf, Starts
  <2>4. QED
    BY <1>4, <1>7, <2>1, <2>2, <2>3 DEF RetryLater, Log
<1>8. ASSUME NEW w \in Worker, NEW s \in Reasons, FailForGood(w, s) PROVE AuditTrail'
  <2> DEFINE i == locked[w]
  <2>1. /\ i \in Inv /\ row[w] = job[i] /\ RowAgrees(job[i], inv[i])
        /\ job[i].status = "RUNNING" /\ job[i].attempts \in 0..MaxAttempts
    BY <1>8, HolderTxn DEF FailForGood, JobRow
  <2>2. inv[i].status = "RUNNING"
    BY <2>1, ActiveRows
  <2>3. /\ Released(job[i], "FAILED").attempts = job[i].attempts
        /\ InvOf("FAILED", inv[i].startedAt, at[w], s).status = StatusOf("INVESTIGATION_FAILED")
    BY DEF Released, JobOf, InvOf, StatusOf, Starts
  <2>4. QED
    BY <1>4, <1>8, <2>1, <2>2, <2>3 DEF FailForGood, Log
<1>9. ASSUME NEW w \in Worker, RenewLease(w) PROVE AuditTrail'
  <2>1. locked[w] \in Inv /\ row[w] = job[locked[w]]
    BY <1>9, HolderTxn DEF RenewLease
  <2>2. audit' = audit /\ inv' = inv /\ (\A k \in Inv : job'[k].attempts = job[k].attempts)
    BY <1>9, <1>a, <2>1 DEF RenewLease, Renewed, JobOf, TypeOK
  <2>3. QED
    BY <2>2 DEF AuditTrail
<1>10. CASE UNCHANGED <<job, inv, audit>>
  BY <1>10 DEF AuditTrail
<1>11. QED
  BY <1>1, <1>2, <1>3, <1>5, <1>6, <1>7, <1>8, <1>9, <1>10 DEF Next, ClaimStep, HolderStep,
     FailClaim, Tick, ReadClock, SelectCandidate, FindNothing, CheckLease, LockHeld, Refuse,
     SaveEvidence, Reject, Crash, vars, rows

(* Attempts are told one by one, a takeover is told from a fresh start,    *)
(* and the last entry of the trail always tells the state.                 *)
THEOREM TrailIsHistory == Spec => []AuditTrail
<1>1. Init => AuditTrail
  BY DEF Init, AuditTrail, NoInv, InvOf
<1>2. QED
  BY QueueInvariant, AuditStep, <1>1, PTL DEF Spec
=============================================================================
