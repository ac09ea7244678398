------------------------------ MODULE JobQueue ------------------------------
(***************************************************************************)
(* The durable job queue of backend/jobs.py under the control flow of      *)
(* backend/worker.py: claims with leases, fencing by attempt number,       *)
(* retries within a budget, and takeover of jobs whose worker is gone.     *)
(*                                                                         *)
(* Every operation of the code reads its clock, then opens a transaction,  *)
(* locks the job row with SELECT ... FOR UPDATE, decides on the row it     *)
(* read and commits.  These are separate steps here: at[w] is the clock    *)
(* value process w read (it may be old when it is used), locked[w] the row *)
(* its open transaction holds and row[w] the copy it decides on.           *)
(***************************************************************************)
EXTENDS Naturals, Sequences, FiniteSets

CONSTANTS
  Inv,         \* investigations; each has one job row and one investigation row
  Worker,      \* worker processes; a name stands for all its incarnations
  MaxAttempts, \* jobs.MAX_ATTEMPTS
  Lease,       \* jobs.LEASE_SECONDS
  RetryDelay,  \* jobs.RETRY_DELAY_SECONDS
  Skew,        \* how far each worker's clock is ahead of the slowest clock
  ApiSkew,     \* the same for the API process
  Serves,      \* the investigations a worker is willing to claim
  Steady,      \* workers that keep running (only liveness depends on it)
  FreeTime,    \* bound: how long the clock runs with no deadline pending
  NULL         \* SQL NULL

(* The failure reasons the worker and the queue record.                    *)
Reasons == {"TELEMETRY_UNAVAILABLE", "MODEL_UNAVAILABLE", "RESULT_INVALID",
            "ATTEMPTS_EXHAUSTED"}

ASSUME JobQueueAssumption ==
  /\ MaxAttempts \in Nat \ {0}
  /\ Lease \in Nat \ {0} /\ RetryDelay \in Nat /\ FreeTime \in Nat
  /\ Skew \in [Worker -> Nat] /\ ApiSkew \in Nat
  /\ Serves \in [Worker -> SUBSET Inv] /\ Steady \subseteq Worker
  /\ NULL \notin Inv \cup Worker \cup Nat \cup Reasons

VARIABLES
  clock,   \* real time
  job,     \* investigation_jobs
  inv,     \* investigations
  audit,   \* audit_events of an investigation, in commit order
  held,    \* the JobClaim a worker process works on, and how far it has come
  at,      \* the `now` of the operation a process is in, or NULL
  locked,  \* the job row its open transaction has locked, or NULL
  row      \* that row as the transaction read it

rows == <<job, inv, audit>>
txn  == <<at, locked, row>>
vars == <<clock, job, inv, audit, held, at, locked, row>>

-----------------------------------------------------------------------------
JobOf(status, attempts, availableAt, leaseUntil, workerId) ==
  [status |-> status, attempts |-> attempts, availableAt |-> availableAt,
   leaseUntil |-> leaseUntil, workerId |-> workerId]
InvOf(status, startedAt, finishedAt, error) ==
  [status |-> status, startedAt |-> startedAt, finishedAt |-> finishedAt, error |-> error]

NoJob   == JobOf("ABSENT", 0, 0, NULL, NULL)
NoInv   == InvOf("ABSENT", NULL, NULL, NULL)
NoClaim == [inv |-> NULL, attempt |-> 0, step |-> "IDLE"]

Event(action, attempt) == [action |-> action, attempt |-> attempt]
(* Mutant: the entry is overwritten.                                       *)
LogLatestOnly(i, event) == audit' = [audit EXCEPT ![i] = <<event>>]
Log(i, event) == audit' = [audit EXCEPT ![i] = Append(@, event)]

(* Reasons fail_claim accepts from run_once, by how far the claim has come. *)
ReasonsAt(step) ==
  CASE step = "COLLECTING" -> {"TELEMETRY_UNAVAILABLE", "RESULT_INVALID"}
    [] step = "RENEWED"    -> {"MODEL_UNAVAILABLE", "RESULT_INVALID"}
    [] step = "REJECTED"   -> {"RESULT_INVALID"}
    [] OTHER               -> {}

-----------------------------------------------------------------------------
(* The conditions the code evaluates on a job row r at time now.           *)

Expired(r, now) == r.leaseUntil = NULL \/ r.leaseUntil <= now

(* Mutants: no takeover, takeover at any time, no waiting for the retry.    *)
ClaimableQueuedOnly(r, now) == r.status = "QUEUED" /\ r.availableAt <= now
ClaimableRunning(r, now) == r.status = "RUNNING" \/ ClaimableQueuedOnly(r, now)
ClaimableEarly(r, now) == \/ r.status = "QUEUED"
                          \/ r.status = "RUNNING" /\ Expired(r, now)

Claimable(r, now) == \/ r.status = "QUEUED" /\ r.availableAt <= now
                     \/ r.status = "RUNNING" /\ Expired(r, now)

(* Mutant: any unexpired lease will do.                                     *)
OwnsUnfenced(r, w, claim, now) == r.status = "RUNNING" /\ ~Expired(r, now)

Owns(r, w, claim, now) == /\ r.status = "RUNNING"
                          /\ r.workerId = w
                          /\ r.attempts = claim.attempt
                          /\ ~Expired(r, now)

(* Mutants: one attempt too many, one too few.                              *)
BudgetSpentLate(r) == r.attempts > MaxAttempts
BudgetSpentEarly(r) == r.attempts >= MaxAttempts - 1

BudgetSpent(r) == r.attempts >= MaxAttempts

(* Mutant: SELECT without FOR UPDATE.                                       *)
RowNeverLocked(i) == FALSE

RowLocked(i) == \E w \in Worker : locked[w] = i

(* The row updates the code makes.                                         *)

(* Mutants: a takeover is not counted; the lease outlives the attempt.      *)
StartedUncounted(r, w, now) ==
  JobOf("RUNNING", IF r.status = "RUNNING" THEN r.attempts ELSE r.attempts + 1,
        r.availableAt, now + Lease, w)
ReleasedKeepsLease(r, status) ==
  JobOf(status, r.attempts, r.availableAt, r.leaseUntil, NULL)

Started(r, w, now) == JobOf("RUNNING", r.attempts + 1, r.availableAt, now + Lease, w)

Renewed(r, now) == JobOf(r.status, r.attempts, r.availableAt, now + Lease, r.workerId)

Released(r, status) == JobOf(status, r.attempts, r.availableAt, NULL, NULL)

Requeued(r, now) == JobOf("QUEUED", r.attempts, now + RetryDelay, NULL, NULL)

-----------------------------------------------------------------------------
Init == /\ clock = 0
        /\ job = [i \in Inv |-> NoJob]
        /\ inv = [i \in Inv |-> NoInv]
        /\ audit = [i \in Inv |-> <<>>]
        /\ held = [w \in Worker |-> NoClaim]
        /\ at = [w \in Worker |-> NULL]
        /\ locked = [w \in Worker |-> NULL]
        /\ row = [w \in Worker |-> NoJob]

(* create_investigation commits the investigation, its job and its event.  *)
Enqueue(i) ==
  /\ inv[i].status = "ABSENT"
  /\ job' = [job EXCEPT ![i] = JobOf("QUEUED", 0, clock + ApiSkew, NULL, NULL)]
  /\ inv' = [inv EXCEPT ![i] = InvOf("QUEUED", NULL, NULL, NULL)]
  /\ Log(i, Event("INVESTIGATION_QUEUED", 0))
  /\ UNCHANGED <<clock, held, txn>>

(* put_review decides under the lock of the investigation row; the worker  *)
(* never touches an investigation that awaits review.                      *)
Review(i) ==
  /\ inv[i].status = "AWAITING_REVIEW"
  /\ inv' = [inv EXCEPT ![i] = InvOf("COMPLETED", @.startedAt, @.finishedAt, @.error)]
  /\ Log(i, Event("INVESTIGATION_REVIEWED", 0))
  /\ UNCHANGED <<clock, job, held, txn>>

(* Time passes while somebody waits for it; FreeTime bounds idle time.     *)
Tick ==
  /\ \/ clock < FreeTime
     \/ \E i \in Inv : \/ job[i].status = "RUNNING" /\ ~Expired(job[i], clock)
                       \/ job[i].status = "QUEUED" /\ job[i].availableAt > clock
  /\ clock' = clock + 1
  /\ UNCHANGED <<rows, held, txn>>

-----------------------------------------------------------------------------
Idle(w)    == held[w].inv = NULL
Working(w) == held[w].inv # NULL

(* _effective_now at the head of every operation, before its transaction.  *)
ReadClock(w) ==
  /\ at[w] = NULL
  /\ at' = [at EXCEPT ![w] = clock + Skew[w]]
  /\ UNCHANGED <<clock, rows, held, locked, row>>

Lock(w, i) ==
  /\ ~RowLocked(i)
  /\ locked' = [locked EXCEPT ![w] = i]
  /\ row' = [row EXCEPT ![w] = job[i]]

(* The transaction of process w ends and so does the operation.            *)
EndTxn(w) == /\ at' = [at EXCEPT ![w] = NULL]
             /\ locked' = [locked EXCEPT ![w] = NULL]
             /\ row' = [row EXCEPT ![w] = NoJob]

(* ... FOR UPDATE SKIP LOCKED: what a claim can see.                       *)
Candidates(w) == {i \in Serves[w] : Claimable(job[i], at[w]) /\ ~RowLocked(i)}

SelectCandidate(w) ==
  /\ Idle(w) /\ at[w] # NULL /\ locked[w] = NULL
  /\ \E i \in Candidates(w) :
       /\ \A k \in Candidates(w) : job[i].availableAt <= job[k].availableAt
       /\ Lock(w, i)
  /\ UNCHANGED <<clock, rows, held, at>>

(* claim_next_job returns None: run_once is IDLE.                          *)
FindNothing(w) ==
  /\ Idle(w) /\ at[w] # NULL /\ locked[w] = NULL
  /\ Candidates(w) = {}
  /\ EndTxn(w)
  /\ UNCHANGED <<clock, rows, held>>

(* A claim commits; the worker holds the job with a fresh attempt number.  *)
StartAttempt(w) ==
  LET i == locked[w] IN
  /\ Idle(w) /\ locked[w] # NULL /\ ~BudgetSpent(row[w])
  /\ job' = [job EXCEPT ![i] = Started(row[w], w, at[w])]
  /\ inv' = [inv EXCEPT ![i] = InvOf("RUNNING", at[w], @.finishedAt, NULL)]
  /\ Log(i, Event(IF row[w].status = "RUNNING" THEN "INVESTIGATION_RECLAIMED"
                                               ELSE "INVESTIGATION_STARTED",
                  row[w].attempts + 1))
  /\ held' = [held EXCEPT ![w] = [inv |-> i, attempt |-> row[w].attempts + 1,
                                  step |-> "CLAIMED"]]
  /\ EndTxn(w)
  /\ UNCHANGED clock

(* The budget is spent: the job fails and the loop looks for another one   *)
(* with the `now` it already has.                                          *)
Exhaust(w) ==
  LET i == locked[w] IN
  /\ Idle(w) /\ locked[w] # NULL /\ BudgetSpent(row[w])
  /\ job' = [job EXCEPT ![i] = Released(row[w], "FAILED")]
  /\ inv' = [inv EXCEPT ![i] = InvOf("FAILED", @.startedAt, at[w],
                                       "ATTEMPTS_EXHAUSTED")]
  /\ Log(i, Event("INVESTIGATION_FAILED", row[w].attempts))
  /\ locked' = [locked EXCEPT ![w] = NULL]
  /\ row' = [row EXCEPT ![w] = NoJob]
  /\ UNCHANGED <<clock, held, at>>

-----------------------------------------------------------------------------
(* The operations of a process that holds a claim.                         *)

Drop(w) == held' = [held EXCEPT ![w] = NoClaim]
Advance(w, step) == held' = [held EXCEPT ![w].step = step]

(* collect_for_claim looks at the row without a lock before it queries     *)
(* telemetry; a lost lease ends the claim as STALE.                        *)
CheckLease(w) ==
  /\ Working(w) /\ held[w].step = "CLAIMED" /\ at[w] # NULL
  /\ IF Owns(job[held[w].inv], w, held[w], at[w])
     THEN Advance(w, "COLLECTING") ELSE Drop(w)
  /\ EndTxn(w)
  /\ UNCHANGED <<clock, rows>>

(* SELECT ... FOR UPDATE of save, renew, complete and fail: it waits.      *)
LockHeld(w) ==
  /\ Working(w) /\ held[w].step # "CLAIMED" /\ at[w] # NULL /\ locked[w] = NULL
  /\ Lock(w, held[w].inv)
  /\ UNCHANGED <<clock, rows, held, at>>

InTxn(w) == Working(w) /\ locked[w] # NULL
Accepted(w) == InTxn(w) /\ Owns(row[w], w, held[w], at[w])

(* Each operation returns False to a process that lost its lease: STALE.   *)
(* save_evidence and complete_claim check the investigation as well.       *)
Refuse(w) ==
  /\ InTxn(w)
  /\ ~Owns(row[w], w, held[w], at[w]) \/ inv[locked[w]].status # "RUNNING"
  /\ Drop(w) /\ EndTxn(w)
  /\ UNCHANGED <<clock, rows>>

(* save_evidence commits; it leaves the job row alone.                     *)
SaveEvidence(w) ==
  /\ Accepted(w) /\ held[w].step = "COLLECTING"
  /\ inv[locked[w]].status = "RUNNING"
  /\ Advance(w, "SAVED") /\ EndTxn(w)
  /\ UNCHANGED <<clock, rows>>

(* save_evidence or complete_claim raises a validation error: the          *)
(* transaction rolls back and run_once goes on to fail_claim.              *)
Reject(w) ==
  /\ Accepted(w) /\ held[w].step \in {"COLLECTING", "RENEWED"}
  /\ Advance(w, "REJECTED") /\ EndTxn(w)
  /\ UNCHANGED <<clock, rows>>

RenewLease(w) ==
  /\ Accepted(w) /\ held[w].step = "SAVED"
  /\ job' = [job EXCEPT ![locked[w]] = Renewed(row[w], at[w])]
  /\ Advance(w, "RENEWED") /\ EndTxn(w)
  /\ UNCHANGED <<clock, inv, audit>>

CompleteClaim(w) ==
  LET i == locked[w] IN
  /\ Accepted(w) /\ held[w].step = "RENEWED"
  /\ inv[i].status = "RUNNING"
  /\ job' = [job EXCEPT ![i] = Released(row[w], "DONE")]
  /\ inv' = [inv EXCEPT ![i] = InvOf("AWAITING_REVIEW", @.startedAt, at[w], NULL)]
  /\ Log(i, Event("INVESTIGATION_AWAITING_REVIEW", held[w].attempt))
  /\ Drop(w) /\ EndTxn(w)
  /\ UNCHANGED clock

RetryLater(w, reason) ==
  LET i == locked[w] IN
  /\ Accepted(w) /\ reason \in ReasonsAt(held[w].step) /\ ~BudgetSpent(row[w])
  /\ job' = [job EXCEPT ![i] = Requeued(row[w], at[w])]
  /\ inv' = [inv EXCEPT ![i] = InvOf("QUEUED", @.startedAt, @.finishedAt, reason)]
  /\ Log(i, Event("INVESTIGATION_RETRY_SCHEDULED", row[w].attempts))
  /\ Drop(w) /\ EndTxn(w)
  /\ UNCHANGED clock

FailForGood(w, reason) ==
  LET i == locked[w] IN
  /\ Accepted(w) /\ reason \in ReasonsAt(held[w].step) /\ BudgetSpent(row[w])
  /\ job' = [job EXCEPT ![i] = Released(row[w], "FAILED")]
  /\ inv' = [inv EXCEPT ![i] = InvOf("FAILED", @.startedAt, at[w], reason)]
  /\ Log(i, Event("INVESTIGATION_FAILED", row[w].attempts))
  /\ Drop(w) /\ EndTxn(w)
  /\ UNCHANGED clock

FailClaim(w) == \E reason \in Reasons : RetryLater(w, reason) \/ FailForGood(w, reason)

(* The process dies or its connection breaks: an open transaction rolls    *)
(* back, the claim is forgotten, the lease stays behind.                   *)
Crash(w) ==
  /\ Working(w) \/ locked[w] # NULL
  /\ Drop(w) /\ EndTxn(w)
  /\ UNCHANGED <<clock, rows>>

-----------------------------------------------------------------------------
ClaimStep(w)  == SelectCandidate(w) \/ FindNothing(w) \/ StartAttempt(w) \/ Exhaust(w)
HolderStep(w) == \/ CheckLease(w) \/ LockHeld(w) \/ Refuse(w) \/ SaveEvidence(w)
                 \/ Reject(w) \/ RenewLease(w) \/ CompleteClaim(w) \/ FailClaim(w)

Next == \/ Tick
        \/ \E i \in Inv : Enqueue(i) \/ Review(i)
        \/ \E w \in Worker : ReadClock(w) \/ ClaimStep(w) \/ HolderStep(w) \/ Crash(w)

Spec == Init /\ [][Next]_vars

(* Time goes on.  Nobody keeps a transaction open for ever, and nobody dies *)
(* in the claim transaction again and again.  A steady worker polls and     *)
(* comes to an end with each claim, by an outcome or by a crash and restart *)
(* (its HTTP calls have timeouts); any other worker may hang for ever       *)
(* between two transactions.                                                *)
Fairness ==
  /\ WF_vars(Tick)
  /\ \A w \in Worker :
       /\ WF_vars(locked[w] # NULL /\ (ClaimStep(w) \/ HolderStep(w) \/ Crash(w)))
       /\ SF_vars(StartAttempt(w) \/ Exhaust(w))
  /\ \A w \in Steady : /\ WF_vars(ReadClock(w))
                       /\ WF_vars(ClaimStep(w))
                       /\ WF_vars(HolderStep(w) \/ Crash(w))

FairSpec == Spec /\ Fairness

-----------------------------------------------------------------------------
JobRow == [status: {"ABSENT", "QUEUED", "RUNNING", "DONE", "FAILED"},
           attempts: 0..MaxAttempts, availableAt: Nat,
           leaseUntil: Nat \cup {NULL}, workerId: Worker \cup {NULL}]

InvRow == [status: {"ABSENT", "QUEUED", "RUNNING", "AWAITING_REVIEW",
                    "COMPLETED", "FAILED"},
           startedAt: Nat \cup {NULL}, finishedAt: Nat \cup {NULL},
           error: Reasons \cup {NULL}]

AuditEvent == [action: {"INVESTIGATION_QUEUED", "INVESTIGATION_STARTED",
                        "INVESTIGATION_RECLAIMED", "INVESTIGATION_RETRY_SCHEDULED",
                        "INVESTIGATION_FAILED", "INVESTIGATION_AWAITING_REVIEW",
                        "INVESTIGATION_REVIEWED"},
               attempt: 0..MaxAttempts]

Steps == {"IDLE", "CLAIMED", "COLLECTING", "SAVED", "RENEWED", "REJECTED"}

(* Every variable keeps its type; in particular no row or event ever shows *)
(* more attempts than jobs.MAX_ATTEMPTS.                                   *)
TypeOK ==
  /\ clock \in Nat
  /\ job \in [Inv -> JobRow]
  /\ inv \in [Inv -> InvRow]
  /\ audit \in [Inv -> Seq(AuditEvent)]
  /\ held \in [Worker -> [inv: Inv \cup {NULL}, attempt: 0..MaxAttempts, step: Steps]]
  /\ at \in [Worker -> Nat \cup {NULL}]
  /\ locked \in [Worker -> Inv \cup {NULL}]
  /\ row \in [Worker -> JobRow]

(* The job row and the investigation row are written by different          *)
(* statements of claim, fail and complete, yet they tell one story: who    *)
(* holds a lease, whether the budget allows another attempt, and what the  *)
(* reader is told (started, finished, error).                              *)
RowAgrees(j, v) ==
  \/ /\ j = NoJob /\ v = NoInv
  \/ /\ j.status = "QUEUED" /\ v.status = "QUEUED"
     /\ j.attempts < MaxAttempts
     /\ j.leaseUntil = NULL /\ j.workerId = NULL /\ v.finishedAt = NULL
     /\ (j.attempts = 0) <=> (v.startedAt = NULL)
     /\ (j.attempts = 0) <=> (v.error = NULL)
  \/ /\ j.status = "RUNNING" /\ v.status = "RUNNING"
     /\ j.attempts > 0
     /\ j.leaseUntil # NULL /\ j.workerId # NULL
     /\ v.startedAt # NULL /\ v.finishedAt = NULL /\ v.error = NULL
  \/ /\ j.status = "DONE" /\ v.status \in {"AWAITING_REVIEW", "COMPLETED"}
     /\ j.attempts > 0
     /\ j.leaseUntil = NULL /\ j.workerId = NULL
     /\ v.startedAt # NULL /\ v.finishedAt # NULL /\ v.error = NULL
  \/ /\ j.status = "FAILED" /\ v.status = "FAILED"
     /\ j.attempts = MaxAttempts
     /\ j.leaseUntil = NULL /\ j.workerId = NULL
     /\ v.startedAt # NULL /\ v.finishedAt # NULL /\ v.error # NULL

RowsAgree == \A i \in Inv : RowAgrees(job[i], inv[i])

(* A transaction decides on the row as it is: the lock it waited for keeps *)
(* every other transaction from writing between its read and its commit,   *)
(* although `now` was read before.                                         *)
SnapshotCurrent ==
  /\ \A w \in Worker : locked[w] # NULL => row[w] = job[locked[w]]
  /\ \A v, w \in Worker : v # w /\ locked[v] # NULL => locked[v] # locked[w]

(* However often a job is taken over, no two processes work on the same    *)
(* attempt, and only the process named in the row works on the latest one. *)
OneClaimPerAttempt ==
  \A w \in Worker : Working(w) =>
    /\ held[w].attempt \in 1..job[held[w].inv].attempts
    /\ \A v \in Worker : v # w /\ held[v].inv = held[w].inv
                          => held[v].attempt # held[w].attempt
    /\ job[held[w].inv].status = "RUNNING"
         /\ held[w].attempt = job[held[w].inv].attempts
       => job[held[w].inv].workerId = w

(* The times a reader sees are in order although they come from different  *)
(* processes with different clocks, each read before a wait for a lock: no *)
(* attempt starts before the job is available, none ends before it starts. *)
TimesOrdered ==
  \A i \in Inv :
    /\ job[i].status \in {"RUNNING", "DONE", "FAILED"}
       => job[i].availableAt <= inv[i].startedAt
    /\ job[i].status = "RUNNING" => inv[i].startedAt < job[i].leaseUntil
    /\ inv[i].finishedAt # NULL => inv[i].startedAt <= inv[i].finishedAt

(* The audit trail is a history the service promises: attempts are counted *)
(* one by one, a takeover is told from a fresh start, every other entry    *)
(* belongs to the attempt before it, and the last entry tells the state.   *)
Starts == {"INVESTIGATION_STARTED", "INVESTIGATION_RECLAIMED"}

Follows(e, f) ==
  \/ /\ f.action = "INVESTIGATION_STARTED" /\ f.attempt = e.attempt + 1
     /\ e.action \in {"INVESTIGATION_QUEUED", "INVESTIGATION_RETRY_SCHEDULED"}
  \/ /\ f.action = "INVESTIGATION_RECLAIMED" /\ f.attempt = e.attempt + 1
     /\ e.action \in Starts
  \/ /\ f.action \in {"INVESTIGATION_RETRY_SCHEDULED", "INVESTIGATION_FAILED",
                      "INVESTIGATION_AWAITING_REVIEW"}
     /\ f.attempt = e.attempt /\ e.action \in Starts
  \/ /\ f.action = "INVESTIGATION_REVIEWED"
     /\ e.action = "INVESTIGATION_AWAITING_REVIEW"

StatusOf(action) ==
  CASE action \in Starts -> "RUNNING"
    [] action \in {"INVESTIGATION_QUEUED", "INVESTIGATION_RETRY_SCHEDULED"} -> "QUEUED"
    [] action = "INVESTIGATION_FAILED" -> "FAILED"
    [] action = "INVESTIGATION_AWAITING_REVIEW" -> "AWAITING_REVIEW"
    [] action = "INVESTIGATION_REVIEWED" -> "COMPLETED"

AuditTrail ==
  \A i \in Inv :
    LET n == Len(audit[i]) IN
    /\ n = 0 => inv[i].status = "ABSENT"
    /\ n > 0 => /\ audit[i][1] = Event("INVESTIGATION_QUEUED", 0)
                /\ inv[i].status = StatusOf(audit[i][n].action)
                /\ inv[i].status # "COMPLETED" => audit[i][n].attempt = job[i].attempts
    /\ \A k \in 1..(n - 1) : Follows(audit[i][k], audit[i][k + 1])

(* A lease is never cut short: its deadline only moves forward while the   *)
(* job runs, and the job is taken from its holder (for another attempt or  *)
(* for good) only when some worker's clock has reached the deadline.       *)
LeaseNeverCutShort ==
  [][\A i \in Inv : job[i].status = "RUNNING" =>
       /\ job'[i].status = "RUNNING" => job'[i].leaseUntil >= job[i].leaseUntil
       /\ job'[i].attempts # job[i].attempts \/ inv'[i].error = "ATTEMPTS_EXHAUSTED"
          => \E w \in Worker : clock + Skew[w] >= job[i].leaseUntil]_vars

(* The outcome of an attempt is decided by the process that claimed that   *)
(* very attempt, with a clock reading inside its lease: a process that was *)
(* taken for dead and wakes up changes nothing.                            *)
FencedOutcome ==
  [][\A i \in Inv :
       job[i].status = "RUNNING" /\ job'[i].status \in {"QUEUED", "DONE"}
       => \E w \in Worker : /\ held[w].inv = i /\ held'[w] = NoClaim
                            /\ held[w].attempt = job[i].attempts
                            /\ at[w] < job[i].leaseUntil]_vars

Lifecycle == INSTANCE InvestigationLifecycle WITH
               phase <- [i \in Inv |-> inv[i].status],
               spent <- [i \in Inv |-> job[i].attempts]

(* The queue implements the promise: an investigation ends FAILED only     *)
(* when every attempt was spent, and a final phase is never left.          *)
ImplementsLifecycle == Lifecycle!LifecycleSpec

(* Every investigation that is queued comes to an end, however workers     *)
(* crash or hang, as long as one steady worker serves it.                  *)
Settles ==
  \A i \in Inv : inv[i].status \in {"QUEUED", "RUNNING"}
                ~> inv[i].status \notin {"QUEUED", "RUNNING"}
=============================================================================
