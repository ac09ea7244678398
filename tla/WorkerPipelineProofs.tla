------------------------ MODULE WorkerPipelineProofs ------------------------
(***************************************************************************)
(* The pipeline adds rows and memory to the queue and takes nothing away:  *)
(* every theorem about JobQueue holds of WorkerPipeline too.  On top of    *)
(* the queue's invariant, what the worker with the current claim remembers *)
(* is what the rows say, which makes the reports sound.                    *)
(***************************************************************************)
EXTENDS WorkerPipeline, JobQueueProofs

(* Each step of the pipeline is a step of the queue or leaves it alone.    *)
LEMMA PipelineStep == [PipelineNext]_pipelineVars => [Next]_vars
<1> SUFFICES ASSUME [PipelineNext]_pipelineVars PROVE [Next]_vars
  OBVIOUS
<1>1. CASE Tick \/ \E i \in Inv : Enqueue(i) \/ Review(i)
  BY <1>1 DEF Next
<1>2. ASSUME NEW w \in Worker, \/ ReadClock(w) \/ ClaimStep(w) \/ CheckLease(w) \/ LockHeld(w)
               \/ RenewLease(w) \/ SaveEvidence(w) \/ Reject(w) \/ CompleteClaim(w)
               \/ Refuse(w) \/ Crash(w)
      PROVE  Next
  BY <1>2 DEF Next, HolderStep
<1>3. ASSUME NEW w \in Worker, FailAttempt(w), work[w].failure \in Reasons PROVE Next
  BY <1>3 DEF FailAttempt, FailClaim, HolderStep, Next
<1>4. ASSUME NEW w \in Worker, FailAttempt(w) PROVE work[w].failure \in Reasons
  <2>1. \A step : ReasonsAt(step) \subseteq Reasons
    BY DEF ReasonsAt, Reasons
  <2>2. \E step : work[w].failure \in ReasonsAt(step)
    BY <1>4 DEF FailAttempt, RetryLater, FailForGood
  <2>3. QED
    BY <2>1, <2>2
<1>5. ASSUME NEW w \in Worker, CollectTelemetry(w) \/ ReadEvidence(w) \/ Analyze(w)
      PROVE  UNCHANGED vars
  BY <1>5 DEF CollectTelemetry, ReadEvidence, Analyze
<1>6. CASE UNCHANGED pipelineVars
  BY <1>6 DEF pipelineVars
<1>7. QED
  BY <1>1, <1>2, <1>3, <1>4, <1>5, <1>6 DEF PipelineNext, StartOperation, KeepEvidence,
     ReplaceEvidence, RejectCapture, DeliverReport, RejectDraft, Lose

(* The pipeline implements the queue.                                      *)
THEOREM PipelineIsQueue == PipelineSpec => Spec
<1>1. PipelineInit => Init
  BY DEF PipelineInit
<1>2. QED
  BY <1>1, PipelineStep, PTL DEF PipelineSpec, Spec

(* Hence one process per attempt, fenced outcomes and the lifecycle the    *)
(* reader is promised hold whatever telemetry and the model answer.        *)
THEOREM PipelineQueueSafe ==
  PipelineSpec => /\ [](TypeOK /\ RowsAgree /\ SnapshotCurrent /\ OneClaimPerAttempt)
                  /\ FencedOutcome /\ ImplementsLifecycle
<1>1. QueueInv => TypeOK /\ RowsAgree /\ SnapshotCurrent /\ OneClaimPerAttempt
  BY DEF QueueInv
<1>2. QED
  BY <1>1, PipelineIsQueue, QueueInvariant, OutcomesFenced, Refinement, PTL

-----------------------------------------------------------------------------
(* Types of the rows and of the memory.                                    *)
Gaps == CoreGaps \cup {"CHANGE_FEED_NOT_CONFIGURED"}

LEMMA GapsType == \A S : GapsOf(S) \subseteq Gaps
  BY DEF GapsOf, CoreGaps, Gaps

LEMMA NoteType ==
  ASSUME work \in [Worker -> Memory], NEW w \in Worker, NEW value
  PROVE  /\ Note(w, "batch", value) /\ value \in SUBSET Obs => work' \in [Worker -> Memory]
         /\ Note(w, "views", value) /\ value \in SUBSET Rows => work' \in [Worker -> Memory]
         /\ Note(w, "draft", value) /\ value \in Drafts => work' \in [Worker -> Memory]
         /\ Note(w, "failure", value) /\ value \in Reasons => work' \in [Worker -> Memory]
<1>1. work[w] \in Memory
  OBVIOUS
<1>2. value \in SUBSET Obs => [work[w] EXCEPT !["batch"] = value] \in Memory
  BY <1>1 DEF Memory
<1>3. value \in SUBSET Rows => [work[w] EXCEPT !["views"] = value] \in Memory
  BY <1>1 DEF Memory
<1>4. value \in Drafts => [work[w] EXCEPT !["draft"] = value] \in Memory
  BY <1>1 DEF Memory
<1>5. value \in Reasons => [work[w] EXCEPT !["failure"] = value] \in Memory
  BY <1>1 DEF Memory
<1> QED BY <1>2, <1>3, <1>4, <1>5 DEF Note

-----------------------------------------------------------------------------
(* What a step of the queue does to the rows of a finished or running job. *)
Finished == {"AWAITING_REVIEW", "COMPLETED"}

LEMMA FinishedRows ==
  ASSUME NEW j, NEW v, RowAgrees(j, v)
  PROVE  /\ v.status \in Finished <=> j.status = "DONE"
         /\ j.status = "RUNNING" => v.status = "RUNNING" /\ j.attempts > 0
  BY DEF RowAgrees, NoJob, NoInv, JobOf, InvOf, Finished

(* Attempts of a job are told apart by their number: it grows with every   *)
(* start, and a job that is done stays as it is.                           *)
LEMMA QueueEffects ==
  ASSUME QueueInv, [Next]_vars, NEW i \in Inv
  PROVE  /\ job'[i].status = "RUNNING" =>
              \/ job[i].status = "RUNNING" /\ job'[i].attempts = job[i].attempts
              \/ job'[i].attempts = job[i].attempts + 1
         /\ job[i].status = "DONE" => job'[i] = job[i]
<1>a. TypeOK /\ RowsAgree
  BY DEF QueueInv
<1>1. ASSUME NEW k \in Inv, Enqueue(k) PROVE job[k] = NoJob /\ job' = [job EXCEPT ![k] = JobOf("QUEUED", 0, clock + ApiSkew, NULL, NULL)]
  BY <1>1, <1>a DEF Enqueue, RowsAgree, RowAgrees
<1>2. CASE \E k \in Inv : Enqueue(k)
  <2>1. PICK k \in Inv : Enqueue(k)
    BY <1>2
  <2>2. job[k].status = "ABSENT" /\ job'[k].status = "QUEUED"
        /\ \A j \in Inv : j # k => job'[j] = job[j]
    BY <1>1, <1>a, <2>1 DEF TypeOK, NoJob, JobOf
  <2> QED BY <2>2
<1>3. ASSUME NEW w \in Worker, StartAttempt(w) \/ Exhaust(w)
      PROVE  /\ job[locked[w]].status # "DONE" /\ \A k \in Inv : k # locked[w] => job'[k] = job[k]
             /\ job'[locked[w]].status = "FAILED" \/ job'[locked[w]].attempts = job[locked[w]].attempts + 1
             /\ job'[locked[w]].status # "DONE"
  <2>1. locked[w] \in Inv /\ row[w] = job[locked[w]] /\ job[locked[w]].status # "DONE"
    BY <1>3, ClaimTxn DEF StartAttempt, Exhaust
  <2>2. \/ job' = [job EXCEPT ![locked[w]] = Started(row[w], w, at[w])]
        \/ job' = [job EXCEPT ![locked[w]] = Released(row[w], "FAILED")]
    BY <1>3 DEF StartAttempt, Exhaust
  <2> QED BY <2>1, <2>2, <1>a DEF TypeOK, Started, Released, JobOf
<1>4. ASSUME NEW w \in Worker, RenewLease(w) \/ CompleteClaim(w) \/ FailClaim(w)
      PROVE  /\ job[locked[w]].status = "RUNNING" /\ \A k \in Inv : k # locked[w] => job'[k] = job[k]
             /\ job'[locked[w]].status = "RUNNING" => job'[locked[w]].attempts = job[locked[w]].attempts
  <2>1. locked[w] \in Inv /\ row[w] = job[locked[w]] /\ job[locked[w]].status = "RUNNING"
    BY <1>4, HolderTxn DEF RenewLease, CompleteClaim, FailClaim, RetryLater, FailForGood
  <2>2. \/ job' = [job EXCEPT ![locked[w]] = Renewed(row[w], at[w])]
        \/ job' = [job EXCEPT ![locked[w]] = Released(row[w], "DONE")]
        \/ job' = [job EXCEPT ![locked[w]] = Requeued(row[w], at[w])]
        \/ job' = [job EXCEPT ![locked[w]] = Released(row[w], "FAILED")]
    BY <1>4 DEF RenewLease, CompleteClaim, FailClaim, RetryLater, FailForGood
  <2> QED BY <2>1, <2>2, <1>a DEF TypeOK, Renewed, Released, Requeued, JobOf
<1>5. CASE UNCHANGED job
  BY <1>5
<1>6. CASE \E w \in Worker : StartAttempt(w) \/ Exhaust(w)
  BY <1>3, <1>6
<1>7. CASE \E w \in Worker : RenewLease(w) \/ CompleteClaim(w) \/ FailClaim(w)
  BY <1>4, <1>7
<1> QED
  BY <1>2, <1>5, <1>6, <1>7 DEF Next, ClaimStep, HolderStep, Tick, Review, ReadClock,
     SelectCandidate, FindNothing, CheckLease, LockHeld, Refuse, SaveEvidence, Reject, Crash,
     vars, rows

(* Only a completion makes a job DONE.                                     *)
LEMMA OthersNotDone ==
  ASSUME QueueInv, NEW i \in Inv,
         \/ \E k \in Inv : Enqueue(k)
         \/ \E w \in Worker : StartAttempt(w) \/ Exhaust(w) \/ RenewLease(w) \/ FailClaim(w)
         \/ UNCHANGED job
  PROVE  job'[i].status = "DONE" => job[i].status = "DONE"
<1>a. TypeOK
  BY DEF QueueInv
<1>1. CASE \E k \in Inv : Enqueue(k)
  BY <1>1, <1>a DEF Enqueue, TypeOK, JobOf
<1>2. ASSUME NEW w \in Worker, StartAttempt(w) \/ Exhaust(w) \/ RenewLease(w) \/ FailClaim(w)
      PROVE  job'[i].status = "DONE" => job[i].status = "DONE"
  <2>1. row[w] = job[locked[w]] /\ locked[w] \in Inv
    BY <1>2, ClaimTxn, HolderTxn
       DEF StartAttempt, Exhaust, RenewLease, FailClaim, RetryLater, FailForGood
  <2>2. \/ job' = [job EXCEPT ![locked[w]] = Started(row[w], w, at[w])]
        \/ job' = [job EXCEPT ![locked[w]] = Renewed(row[w], at[w])]
        \/ job' = [job EXCEPT ![locked[w]] = Requeued(row[w], at[w])]
        \/ job' = [job EXCEPT ![locked[w]] = Released(row[w], "FAILED")]
    BY <1>2 DEF StartAttempt, Exhaust, RenewLease, FailClaim, RetryLater, FailForGood
  <2>3. \A k \in Inv : k # locked[w] => job'[k] = job[k]
    BY <1>a, <2>1, <2>2 DEF TypeOK
  <2>4. job'[locked[w]].status \in {"RUNNING", row[w].status, "QUEUED", "FAILED"}
    BY <1>a, <2>1, <2>2 DEF TypeOK, Started, Renewed, Released, Requeued, JobOf
  <2> QED BY <2>1, <2>3, <2>4
<1> QED BY <1>1, <1>2

-----------------------------------------------------------------------------
(* The inductive invariant of the pipeline.  A claim is current while its  *)
(* attempt is the one that runs.                                           *)
Current(w) == /\ Working(w) /\ job[held[w].inv].status = "RUNNING"
              /\ job[held[w].inv].attempts = held[w].attempt

(* What a worker remembers by how far it has come; what a current claim    *)
(* remembers of the rows is what the rows say.                             *)
MemoryFits(w) ==
  /\ Idle(w) \/ held[w].step = "CLAIMED" => work[w] = NoWork
  /\ held[w].step = "COLLECTING" /\ at[w] # NULL => work[w].batch # NULL \/ work[w].failure # NULL
  /\ held[w].step = "RENEWED" /\ at[w] # NULL => work[w].draft # NULL \/ work[w].failure # NULL
  /\ held[w].step \in {"SAVED", "RENEWED"} => work[w].batch # NULL
  /\ work[w].views # NULL => held[w].step \in {"RENEWED", "REJECTED"}
  /\ work[w].draft # NULL => work[w].views # NULL
  /\ Current(w) /\ held[w].step \in {"SAVED", "RENEWED"}
     => work[w].batch = Seen(evidence[held[w].inv])
  /\ Current(w) /\ held[w].step = "RENEWED" /\ work[w].views # NULL
     => work[w].views = evidence[held[w].inv]

PipelineInv == /\ PipelineTypeOK /\ ReportIffFinished /\ ReportSound
               /\ \A w \in Worker : MemoryFits(w)

(* What a committing operation of a holder finds.                          *)
LEMMA AcceptedAttempt ==
  ASSUME QueueInv, NEW w \in Worker, Accepted(w)
  PROVE  /\ locked[w] \in Inv /\ locked[w] = held[w].inv /\ at[w] # NULL
         /\ Current(w) /\ job[locked[w]].workerId = w
         /\ held[w].attempt \in 1..MaxAttempts
         /\ inv[locked[w]].status = "RUNNING" /\ job[locked[w]].status = "RUNNING"
<1>1. InTxn(w) /\ Owns(row[w], w, held[w], at[w]) /\ at[w] # NULL
  BY DEF Accepted, InTxn, QueueInv, ClaimShape
<1>2. /\ locked[w] \in Inv /\ row[w] = job[locked[w]] /\ held[w].inv = locked[w]
      /\ job[locked[w]].status = "RUNNING" /\ held[w].attempt = job[locked[w]].attempts
      /\ RowAgrees(job[locked[w]], inv[locked[w]])
  BY HolderTxn
<1>3. inv[locked[w]].status = "RUNNING" /\ job[locked[w]].attempts > 0
  BY <1>2, FinishedRows
<1>4. held[w].attempt \in 0..MaxAttempts
  BY DEF QueueInv, TypeOK
<1>5. Current(w) /\ job[locked[w]].workerId = w
  BY <1>1, <1>2 DEF Current, Owns, InTxn
<1> QED BY <1>1, <1>2, <1>3, <1>4, <1>5

LEMMA PipelineInitInv == PipelineInit => PipelineInv
<1> SUFFICES ASSUME PipelineInit PROVE PipelineInv
  OBVIOUS
<1>1. TypeOK
  BY InitQueueInv DEF PipelineInit, QueueInv
<1>2. \A i \in Inv : inv[i].status = "ABSENT"
  BY DEF PipelineInit, Init, NoInv, InvOf
<1>3. PipelineTypeOK
  BY <1>1 DEF PipelineInit, PipelineTypeOK, NoWork, Memory
<1>4. ReportIffFinished /\ ReportSound
  BY <1>2 DEF PipelineInit, ReportIffFinished, ReportSound
<1>5. \A w \in Worker : work[w] = NoWork /\ held[w].step = "IDLE"
  BY DEF PipelineInit, Init, NoClaim
<1>6. \A w \in Worker : MemoryFits(w)
  BY <1>5 DEF MemoryFits, NoWork
<1> QED BY <1>3, <1>4, <1>6 DEF PipelineInv

-----------------------------------------------------------------------------
(* Types are kept.                                                         *)
LEMMA AppendCapture ==
  ASSUME captures \in [Inv -> Seq(CaptureEvent)], NEW i \in Inv, NEW e \in CaptureEvent
  PROVE  [captures EXCEPT ![i] = Append(@, e)] \in [Inv -> Seq(CaptureEvent)]
<1>1. captures[i] \in Seq(CaptureEvent)
  OBVIOUS
<1>2. Append(captures[i], e) \in Seq(CaptureEvent)
  BY <1>1
<1> QED BY <1>2

LEMMA ForgetType ==
  ASSUME work \in [Worker -> Memory], NEW w \in Worker, Forget(w)
  PROVE  work' \in [Worker -> Memory]
  BY DEF Forget, NoWork, Memory

LEMMA ReasonTypes == \A step : ReasonsAt(step) \subseteq Reasons
  BY DEF ReasonsAt, Reasons

LEMMA DraftTypes ==
  ASSUME NEW views \in SUBSET Rows, NEW S
  PROVE  /\ Inconclusive(GapsOf(S)) \in Drafts
         /\ ModelAnswers(views, GapsOf(S)) \subseteq Drafts
<1>1. GapsOf(S) \in SUBSET Gaps
  BY GapsType
<1>2. Inconclusive(GapsOf(S)) \in Drafts
  BY <1>1 DEF Inconclusive, Drafts, Gaps
<1>3. \A c \in {{r} : r \in views} \cup {views, {Bogus}} : c \in SUBSET (Rows \cup {Bogus})
  OBVIOUS
<1>4. \A c \in SUBSET (Rows \cup {Bogus}), l \in {"LOW", "MEDIUM", "HIGH"} :
        [cites |-> c, level |-> l, gaps |-> GapsOf(S)] \in Drafts
  BY <1>1 DEF Drafts, Gaps
<1>5. ASSUME NEW d \in ModelAnswers(views, GapsOf(S)) PROVE d \in Drafts
  <2>1. CASE d = Inconclusive(GapsOf(S))
    BY <1>2, <2>1
  <2>2. CASE \E c \in {{r} : r \in views} \cup {views, {Bogus}}, l \in {"LOW", "MEDIUM", "HIGH"} :
               d = [cites |-> c, level |-> l, gaps |-> GapsOf(S)]
    BY <1>3, <1>4, <2>2
  <2> QED BY <1>5, <2>1, <2>2 DEF ModelAnswers
<1> QED BY <1>2, <1>5

LEMMA PipelineTypes ==
  PipelineTypeOK /\ QueueInv /\ TypeOK' /\ (\A w \in Worker : MemoryFits(w))
  /\ [PipelineNext]_pipelineVars => PipelineTypeOK'
<1> SUFFICES ASSUME PipelineTypeOK, QueueInv, TypeOK', \A w \in Worker : MemoryFits(w),
                    [PipelineNext]_pipelineVars
             PROVE  PipelineTypeOK'
  OBVIOUS
<1>1. CASE UNCHANGED <<stored, work>>
  BY <1>1 DEF PipelineTypeOK, stored
<1>2. ASSUME NEW w \in Worker, CollectTelemetry(w) PROVE PipelineTypeOK'
  <2>1. work' \in [Worker -> Memory]
    BY <1>2, NoteType, ReasonTypes, PipelineAssumption DEF CollectTelemetry, PipelineTypeOK
  <2> QED BY <1>2, <2>1 DEF CollectTelemetry, PipelineTypeOK, stored
<1>3. ASSUME NEW w \in Worker, ReadEvidence(w) PROVE PipelineTypeOK'
  <2>1. held[w].inv \in Inv
    BY <1>3 DEF ReadEvidence, Between, Working, PipelineTypeOK, TypeOK
  <2>2. evidence[held[w].inv] \in SUBSET Rows
    BY <2>1 DEF PipelineTypeOK
  <2>3. work' \in [Worker -> Memory]
    BY <1>3, <2>2, NoteType DEF ReadEvidence, PipelineTypeOK
  <2> QED BY <1>3, <2>3 DEF ReadEvidence, PipelineTypeOK, stored
<1>4. ASSUME NEW w \in Worker, Analyze(w) PROVE PipelineTypeOK'
  <2>1. work[w].views \in SUBSET Rows
    BY <1>4 DEF Analyze, PipelineTypeOK, Memory
  <2>2. work' \in [Worker -> Memory]
    BY <1>4, <2>1, NoteType, ReasonTypes, DraftTypes DEF Analyze, PipelineTypeOK
  <2> QED BY <1>4, <2>2 DEF Analyze, PipelineTypeOK, stored
<1>5. ASSUME NEW w \in Worker, KeepEvidence(w) \/ ReplaceEvidence(w) PROVE PipelineTypeOK'
  <2> DEFINE S == work[w].batch
             event == Capture(held[w].attempt, S, clock + Skew[w])
  <2>1. Accepted(w) /\ held[w].step = "COLLECTING" /\ work[w].failure = NULL
    BY <1>5 DEF KeepEvidence, ReplaceEvidence, SaveEvidence, Saving
  <2>2. locked[w] \in Inv /\ held[w].attempt \in 1..MaxAttempts /\ at[w] # NULL
    BY <2>1, AcceptedAttempt
  <2>3. S \in SUBSET Obs
    BY <2>1, <2>2 DEF MemoryFits, PipelineTypeOK, Memory
  <2>4. event \in CaptureEvent
    BY <2>2, <2>3, JobQueueAssumption DEF Capture, CaptureEvent, PipelineTypeOK, TypeOK
  <2>5. {RowOf(o, held[w].attempt) : o \in S} \in SUBSET Rows
    BY <2>2, <2>3 DEF RowOf, Rows
  <2> HIDE DEF event
  <2>6. /\ captures' \in {captures, [captures EXCEPT ![locked[w]] = Append(@, event)]}
        /\ evidence' \in {evidence, [evidence EXCEPT ![locked[w]] = {RowOf(o, held[w].attempt) : o \in S}]}
        /\ UNCHANGED <<report, work>>
    BY <1>5 DEF KeepEvidence, ReplaceEvidence, event
  <2>7. captures' \in [Inv -> Seq(CaptureEvent)]
    <3>1. captures \in [Inv -> Seq(CaptureEvent)]
      BY DEF PipelineTypeOK
    <3>2. [captures EXCEPT ![locked[w]] = Append(@, event)] \in [Inv -> Seq(CaptureEvent)]
      BY <2>2, <2>4, <3>1, AppendCapture
    <3> QED BY <2>6, <3>1, <3>2
  <2>8. evidence' \in [Inv -> SUBSET Rows]
    BY <2>2, <2>5, <2>6 DEF PipelineTypeOK
  <2> QED BY <2>6, <2>7, <2>8 DEF PipelineTypeOK
<1>6. ASSUME NEW w \in Worker, RejectCapture(w) \/ RejectDraft(w) PROVE PipelineTypeOK'
  <2>1. work' \in [Worker -> Memory]
    BY <1>6, NoteType DEF RejectCapture, RejectDraft, PipelineTypeOK, Reasons
  <2> QED BY <1>6, <2>1 DEF RejectCapture, RejectDraft, PipelineTypeOK, stored
<1>7. ASSUME NEW w \in Worker, DeliverReport(w) PROVE PipelineTypeOK'
  <2>1. Accepted(w) /\ held[w].step = "RENEWED" /\ work[w].failure = NULL
    BY <1>7 DEF DeliverReport, Completing, CompleteClaim
  <2>2. held[w].attempt \in 1..MaxAttempts /\ at[w] # NULL
    BY <2>1, AcceptedAttempt
  <2>3. work[w].draft \in Drafts
    BY <2>1, <2>2 DEF MemoryFits, PipelineTypeOK, Memory
  <2>4. Stored(work[w].draft, held[w].attempt) \in Reports
    BY <2>2, <2>3 DEF Stored, Drafts, Reports
  <2>5. work' \in [Worker -> Memory]
    BY <1>7, ForgetType DEF DeliverReport, PipelineTypeOK
  <2> QED BY <1>7, <2>4, <2>5 DEF DeliverReport, PipelineTypeOK
<1>8. ASSUME NEW w \in Worker, FailAttempt(w) \/ (Forget(w) /\ UNCHANGED stored) PROVE PipelineTypeOK'
  <2>1. work' \in [Worker -> Memory]
    BY <1>8, ForgetType DEF FailAttempt, PipelineTypeOK
  <2> QED BY <1>8, <2>1 DEF FailAttempt, PipelineTypeOK, stored
<1> QED
  BY <1>1, <1>2, <1>3, <1>4, <1>5, <1>6, <1>7, <1>8 DEF PipelineNext, StartOperation, pipelineVars

-----------------------------------------------------------------------------
(* Reports and evidence.                                                   *)

(* Who replaces evidence, or records a capture, runs the investigation.    *)
LEMMA SaverRuns ==
  ASSUME PipelineInv, QueueInv, NEW w \in Worker, KeepEvidence(w) \/ ReplaceEvidence(w)
  PROVE  /\ Accepted(w) /\ held[w].step = "COLLECTING" /\ locked[w] \in Inv
         /\ report[locked[w]] = NULL
         /\ work[w].batch \in SUBSET Obs /\ work[w].batch # NULL
<1>1. Accepted(w) /\ held[w].step = "COLLECTING" /\ work[w].failure = NULL
  BY DEF KeepEvidence, ReplaceEvidence, SaveEvidence, Saving
<1>2. locked[w] \in Inv /\ inv[locked[w]].status = "RUNNING" /\ at[w] # NULL
  BY <1>1, AcceptedAttempt
<1>3. report[locked[w]] = NULL
  BY <1>2 DEF PipelineInv, ReportIffFinished
<1>4. work[w].batch # NULL /\ work[w].batch \in SUBSET Obs
  BY <1>1, <1>2 DEF PipelineInv, MemoryFits, PipelineTypeOK, Memory
<1> QED BY <1>1, <1>2, <1>3, <1>4

LEMMA SeenRows ==
  ASSUME NEW S, NEW n
  PROVE  /\ Seen({RowOf(o, n) : o \in S}) = S
         /\ S # {} => {RowOf(o, n) : o \in S} # {}
<1>1. \A o : RowOf(o, n).obs = o
  BY DEF RowOf
<1>2. \A x : x \in Seen({RowOf(o, n) : o \in S}) <=> x \in S
  BY <1>1 DEF Seen
<1>3. \A o \in S : RowOf(o, n) \in {RowOf(p, n) : p \in S}
  OBVIOUS
<1> QED BY <1>2, <1>3

LEMMA EvidenceStep ==
  ASSUME PipelineInv, QueueInv, [PipelineNext]_pipelineVars, NEW i \in Inv
  PROVE  /\ evidence[i] # {} => evidence'[i] # {}
         /\ report[i] # NULL => evidence'[i] = evidence[i] /\ captures'[i] = captures[i]
         /\ Seen(evidence'[i]) = Seen(evidence[i]) => evidence'[i] = evidence[i]
<1>1. ASSUME NEW w \in Worker, KeepEvidence(w)
      PROVE  evidence' = evidence /\ (i # locked[w] => captures'[i] = captures[i])
  BY <1>1 DEF KeepEvidence, PipelineInv, PipelineTypeOK
<1>2. ASSUME NEW w \in Worker, ReplaceEvidence(w)
      PROVE  /\ i # locked[w] => evidence'[i] = evidence[i] /\ captures'[i] = captures[i]
             /\ i = locked[w] => /\ evidence'[i] = {RowOf(o, held[w].attempt) : o \in work[w].batch}
                                 /\ evidence[i] # {} => work[w].batch # {}
                                 /\ evidence[i] = {} \/ Seen(evidence[i]) # work[w].batch
  BY <1>2 DEF ReplaceEvidence, Lossy, PipelineInv, PipelineTypeOK
<1>3. ASSUME NEW w \in Worker, KeepEvidence(w) PROVE report[locked[w]] = NULL
  BY <1>3, SaverRuns
<1>4. ASSUME NEW w \in Worker, ReplaceEvidence(w) PROVE report[locked[w]] = NULL
  BY <1>4, SaverRuns
<1>5. CASE \E w \in Worker : KeepEvidence(w)
  BY <1>1, <1>3, <1>5
<1>6. CASE \E w \in Worker : ReplaceEvidence(w)
  <2>1. PICK w \in Worker : ReplaceEvidence(w)
    BY <1>6
  <2>2. CASE i # locked[w]
    BY <1>2, <2>1, <2>2
  <2>3. CASE i = locked[w]
    <3>1. /\ evidence'[i] = {RowOf(o, held[w].attempt) : o \in work[w].batch}
          /\ evidence[i] # {} => work[w].batch # {}
          /\ evidence[i] = {} \/ Seen(evidence[i]) # work[w].batch
          /\ report[i] = NULL
      BY <1>2, <1>4, <2>1, <2>3
    <3>2. Seen(evidence'[i]) = work[w].batch /\ (work[w].batch # {} => evidence'[i] # {})
      BY <3>1, SeenRows
    <3>3. evidence[i] = {} => Seen(evidence[i]) = {} /\ (work[w].batch = {} => evidence'[i] = {})
      BY <3>1 DEF Seen
    <3> QED BY <3>1, <3>2, <3>3
  <2> QED BY <2>2, <2>3
<1>7. CASE UNCHANGED <<evidence, captures>>
  BY <1>7
<1> QED
  BY <1>5, <1>6, <1>7 DEF PipelineNext, StartOperation, CollectTelemetry, RejectCapture,
     ReadEvidence, Analyze, DeliverReport, RejectDraft, FailAttempt, pipelineVars, stored

(* What complete_claim stores is sound for the rows it is stored beside.   *)
LEMMA ValidIsSound ==
  ASSUME NEW E, NEW d \in Drafts, NEW n, Valid(d, E, GapsOf(Seen(E)))
  PROVE  LET r == Stored(d, n) IN
         /\ r.cites \subseteq E /\ r.attempt = n /\ r.gaps = GapsOf(Seen(E))
         /\ r.level \in {"MEDIUM", "HIGH"} => r.gaps \cap CoreGaps = {} /\ E # {}
<1> DEFINE gaps == GapsOf(Seen(E))
<1>1. CASE d = Inconclusive(gaps)
  <2>1. d.cites = {} /\ d.level = "NONE" /\ d.gaps = gaps
    BY <1>1 DEF Inconclusive
  <2> QED BY <2>1 DEF Stored
<1>2. CASE /\ d.level # "NONE" /\ d.gaps = gaps
           /\ E # {} /\ d.cites # {} /\ d.cites \subseteq E
           /\ d.level = "HIGH" => gaps = {}
           /\ d.level # "LOW" => gaps \cap CoreGaps = {}
  <2> HIDE DEF gaps
  <2>1. /\ Stored(d, n).cites = d.cites /\ Stored(d, n).attempt = n
        /\ Stored(d, n).gaps = d.gaps /\ Stored(d, n).level = d.level
    BY DEF Stored
  <2> QED BY <1>2, <2>1 DEF gaps
<1> QED BY <1>1, <1>2 DEF Valid

LEMMA Delivered ==
  ASSUME PipelineInv, QueueInv, NEW w \in Worker, DeliverReport(w), NEW i \in Inv
  PROVE  /\ i = locked[w] => /\ report'[i] \in Reports /\ report'[i] # NULL
                             /\ inv'[i].status \in Finished
                             /\ report'[i].cites \subseteq evidence[i]
                             /\ report'[i].attempt = job'[i].attempts
                             /\ report'[i].gaps = GapsOf(Seen(evidence[i]))
                             /\ report'[i].level \in {"MEDIUM", "HIGH"}
                                => report'[i].gaps \cap CoreGaps = {} /\ evidence[i] # {}
         /\ i # locked[w] => report'[i] = report[i] /\ job'[i] = job[i] /\ inv'[i] = inv[i]
         /\ evidence' = evidence
<1>1. /\ Accepted(w) /\ held[w].step = "RENEWED" /\ work[w].failure = NULL
      /\ Deliverable(w, locked[w])
      /\ report' = [report EXCEPT ![locked[w]] = Stored(work[w].draft, held[w].attempt)]
      /\ job' = [job EXCEPT ![locked[w]] = Released(row[w], "DONE")]
      /\ inv' = [inv EXCEPT ![locked[w]] = InvOf("AWAITING_REVIEW", @.startedAt, at[w], NULL)]
      /\ evidence' = evidence
  BY DEF DeliverReport, CompleteClaim, Completing
<1>2. /\ locked[w] \in Inv /\ held[w].attempt \in 1..MaxAttempts /\ at[w] # NULL
      /\ row[w] = job[locked[w]] /\ job[locked[w]].attempts = held[w].attempt
  BY <1>1, AcceptedAttempt, HolderTxn
<1>3. work[w].draft \in Drafts
  BY <1>1, <1>2 DEF PipelineInv, MemoryFits, PipelineTypeOK, Memory
<1>4. Stored(work[w].draft, held[w].attempt) \in Reports
  BY <1>2, <1>3 DEF Stored, Drafts, Reports
<1>5. Valid(work[w].draft, evidence[locked[w]], GapsOf(Seen(evidence[locked[w]])))
  BY <1>1 DEF Deliverable
<1>6. /\ job'[locked[w]].attempts = held[w].attempt
      /\ inv'[locked[w]].status = "AWAITING_REVIEW"
      /\ report'[locked[w]] = Stored(work[w].draft, held[w].attempt)
      /\ i # locked[w] => report'[i] = report[i] /\ job'[i] = job[i] /\ inv'[i] = inv[i]
  BY <1>1, <1>2 DEF PipelineInv, PipelineTypeOK, TypeOK, Released, JobOf, InvOf
<1> QED BY <1>1, <1>3, <1>4, <1>5, <1>6, ValidIsSound, NullAssumption DEF Finished

(* No other step touches a report or brings a job to DONE.                 *)
LEMMA OtherSteps ==
  ASSUME QueueInv, [PipelineNext]_pipelineVars, ~\E w \in Worker : DeliverReport(w)
  PROVE  /\ report' = report
         /\ \A i \in Inv : job'[i].status = "DONE" => job[i].status = "DONE"
<1>1. report' = report
  BY DEF PipelineNext, StartOperation, CollectTelemetry, KeepEvidence, ReplaceEvidence, RejectCapture,
     ReadEvidence, Analyze, RejectDraft, FailAttempt, pipelineVars, stored
<1>2. \A step : ReasonsAt(step) \subseteq Reasons
  BY ReasonTypes
<1>3. \A w \in Worker : FailAttempt(w) => FailClaim(w)
  BY <1>2 DEF FailAttempt, FailClaim, RetryLater, FailForGood
<1>4. \/ \E k \in Inv : Enqueue(k)
      \/ \E w \in Worker : StartAttempt(w) \/ Exhaust(w) \/ RenewLease(w) \/ FailClaim(w)
      \/ UNCHANGED job
  BY <1>3 DEF PipelineNext, Tick, Review, StartOperation, ReadClock, ClaimStep, SelectCandidate,
     FindNothing, CheckLease, LockHeld, CollectTelemetry, ReadEvidence, Analyze, KeepEvidence,
     ReplaceEvidence, RejectCapture, SaveEvidence, Reject, RejectDraft, Lose, Refuse, Crash,
     pipelineVars, vars, rows
<1> QED BY <1>1, <1>4, OthersNotDone

LEMMA ReportStep ==
  ASSUME PipelineInv, QueueInv, QueueInv', [PipelineNext]_pipelineVars
  PROVE  ReportIffFinished' /\ ReportSound'
<1>1. [Next]_vars
  BY PipelineStep
<1>2. \A i \in Inv : /\ inv[i].status \in Finished <=> job[i].status = "DONE"
                     /\ inv'[i].status \in Finished <=> job'[i].status = "DONE"
  BY FinishedRows DEF QueueInv, RowsAgree
<1>3. \A i \in Inv : report[i] # NULL <=> inv[i].status \in Finished
  BY DEF PipelineInv, ReportIffFinished, Finished
<1>4. ASSUME NEW w \in Worker, DeliverReport(w) PROVE ReportIffFinished' /\ ReportSound'
  <2>1. \A i \in Inv : report'[i] # NULL <=> inv'[i].status \in Finished
    BY <1>3, <1>4, Delivered
  <2>2. ReportSound'
    BY <1>4, Delivered DEF PipelineInv, ReportSound
  <2> QED BY <2>1, <2>2 DEF ReportIffFinished, Finished
<1>5. CASE ~\E w \in Worker : DeliverReport(w)
  <2>1. report' = report /\ \A i \in Inv : job'[i].status = "DONE" => job[i].status = "DONE"
    BY <1>5, OtherSteps
  <2>2. \A i \in Inv : job[i].status = "DONE" => job'[i] = job[i]
    BY <1>1, QueueEffects
  <2>3. \A i \in Inv : report'[i] # NULL <=> inv'[i].status \in Finished
    BY <1>2, <1>3, <2>1, <2>2
  <2>4. \A i \in Inv : report[i] # NULL => evidence'[i] = evidence[i]
    BY EvidenceStep
  <2>5. ReportSound'
    BY <1>2, <1>3, <2>1, <2>2, <2>4 DEF PipelineInv, ReportSound
  <2> QED BY <2>3, <2>5 DEF ReportIffFinished, Finished
<1> QED BY <1>4, <1>5
-----------------------------------------------------------------------------
(* What workers remember.  A claim that is current after a step was so     *)
(* before it: an attempt number, once passed, never comes back.            *)
LEMMA CurrentBefore ==
  ASSUME QueueInv, [Next]_vars, NEW v \in Worker, held'[v] = held[v], Current(v)'
  PROVE  Current(v)
<1>1. /\ held[v].inv \in Inv /\ held[v].attempt \in 1..job[held[v].inv].attempts
      /\ job[held[v].inv].attempts \in Nat
  BY DEF QueueInv, TypeOK, OneClaimPerAttempt, Current, Working, JobRow
<1>2. job'[held[v].inv].status = "RUNNING" /\ job'[held[v].inv].attempts = held[v].attempt
  BY DEF Current
<1>3. \/ job[held[v].inv].status = "RUNNING" /\ job'[held[v].inv].attempts = job[held[v].inv].attempts
      \/ job'[held[v].inv].attempts = job[held[v].inv].attempts + 1
  BY <1>1, <1>2, QueueEffects
<1>4. job[held[v].inv].status = "RUNNING" /\ job[held[v].inv].attempts = held[v].attempt
  BY <1>1, <1>2, <1>3
<1> QED BY <1>4 DEF Current, Working

(* Nobody else replaces the evidence, or records a capture, of an          *)
(* investigation with a current claim.                                     *)
LEMMA OwnEvidence ==
  ASSUME PipelineInv, QueueInv, [PipelineNext]_pipelineVars, NEW v \in Worker,
         Current(v), held[v].step # "COLLECTING"
  PROVE  /\ evidence'[held[v].inv] = evidence[held[v].inv]
         /\ captures'[held[v].inv] = captures[held[v].inv]
<1>1. held[v].inv \in Inv /\ job[held[v].inv].workerId = v
  BY DEF QueueInv, TypeOK, OneClaimPerAttempt, Current, Working
<1>2. ASSUME NEW w \in Worker, KeepEvidence(w) \/ ReplaceEvidence(w)
      PROVE  /\ evidence'[held[v].inv] = evidence[held[v].inv]
             /\ captures'[held[v].inv] = captures[held[v].inv]
  <2>1. Accepted(w) /\ held[w].step = "COLLECTING"
    BY <1>2, SaverRuns
  <2>2. job[locked[w]].workerId = w
    BY <2>1, AcceptedAttempt
  <2>3. locked[w] # held[v].inv
    BY <1>1, <2>1, <2>2
  <2> QED BY <1>1, <1>2, <2>3 DEF KeepEvidence, ReplaceEvidence, PipelineInv, PipelineTypeOK
<1>3. CASE UNCHANGED <<evidence, captures>>
  BY <1>3
<1> QED
  BY <1>2, <1>3 DEF PipelineNext, StartOperation, CollectTelemetry, RejectCapture,
     ReadEvidence, Analyze, DeliverReport, RejectDraft, FailAttempt, pipelineVars, stored

LEMMA MemoryElsewhere ==
  ASSUME PipelineInv, QueueInv, [PipelineNext]_pipelineVars, NEW v \in Worker,
         held'[v] = held[v], work'[v] = work[v], at'[v] \in {at[v], NULL}
  PROVE  MemoryFits(v)'
<1>1. [Next]_vars
  BY PipelineStep
<1>2. Current(v)' => Current(v)
  BY <1>1, CurrentBefore
<1>3. Current(v) /\ held[v].step \in {"SAVED", "RENEWED"}
      => evidence'[held[v].inv] = evidence[held[v].inv]
  BY OwnEvidence
<1>4. MemoryFits(v)
  BY DEF PipelineInv
<1> QED BY <1>2, <1>3, <1>4 DEF MemoryFits, Idle

(* The worker that moves.                                                  *)
LEMMA NoteEffect ==
  ASSUME work \in [Worker -> Memory], NEW w \in Worker, NEW x
  PROVE  LET rest(F) == /\ \A f \in F : work'[w][f] = work[w][f]
                        /\ \A v \in Worker : v # w => work'[v] = work[v] IN
         /\ Note(w, "batch", x) => rest({"views", "draft", "failure"})
         /\ Note(w, "views", x) => work'[w].views = x /\ rest({"batch", "draft", "failure"})
         /\ Note(w, "draft", x) => rest({"batch", "views", "failure"})
         /\ Note(w, "failure", x) => rest({"batch", "views", "draft"})
<1>1. work[w] \in Memory
  OBVIOUS
<1>2. \A f \in {"batch", "views", "draft", "failure"} :
        Note(w, f, x) => /\ work'[w] = [work[w] EXCEPT ![f] = x]
                         /\ \A v \in Worker : v # w => work'[v] = work[v]
  BY DEF Note
<1>3. \A f, g \in {"batch", "views", "draft", "failure"} :
        /\ f # g => [work[w] EXCEPT ![f] = x][g] = work[w][g]
        /\ [work[w] EXCEPT ![f] = x][f] = x
  BY <1>1 DEF Memory
<1>4. ASSUME NEW f \in {"batch", "views", "draft", "failure"}, Note(w, f, x)
      PROVE  /\ \A g \in {"batch", "views", "draft", "failure"} : g # f => work'[w][g] = work[w][g]
             /\ work'[w][f] = x
             /\ \A v \in Worker : v # w => work'[v] = work[v]
  BY <1>2, <1>3, <1>4
<1> QED BY <1>4

LEMMA MemoryCollect ==
  ASSUME PipelineInv, NEW w \in Worker, CollectTelemetry(w) \/ ReadEvidence(w) \/ Analyze(w)
  PROVE  MemoryFits(w)' /\ \A v \in Worker : v # w => work'[v] = work[v]
<1>a. work \in [Worker -> Memory] /\ MemoryFits(w) /\ work[w] \in Memory
  BY DEF PipelineInv, PipelineTypeOK
<1>b. UNCHANGED vars /\ UNCHANGED stored
  BY DEF CollectTelemetry, ReadEvidence, Analyze
<1>c. /\ UNCHANGED <<held, at, job, evidence>>
      /\ at[w] = NULL /\ Working(w)
  BY <1>b DEF vars, stored, CollectTelemetry, ReadEvidence, Analyze, Between
<1>1. CASE CollectTelemetry(w)
  <2>1. held[w].step = "COLLECTING" /\ work[w].views = NULL /\ work[w].draft = NULL
    BY <1>1, <1>a DEF CollectTelemetry, Between, MemoryFits
  <2>2. PICK x : Note(w, "batch", x) \/ Note(w, "failure", x)
    BY <1>1 DEF CollectTelemetry
  <2>3. /\ work'[w].views = NULL /\ work'[w].draft = NULL
        /\ \A v \in Worker : v # w => work'[v] = work[v]
    BY <1>a, <2>1, <2>2, NoteEffect
  <2> QED BY <1>c, <2>1, <2>3 DEF MemoryFits, Idle, Working
<1>2. CASE ReadEvidence(w)
  <2>1. held[w].step = "RENEWED" /\ work[w].views = NULL /\ Note(w, "views", evidence[held[w].inv])
    BY <1>2 DEF ReadEvidence, Between
  <2>2. /\ work'[w].views = evidence[held[w].inv] /\ work'[w].batch = work[w].batch
        /\ work'[w].draft = work[w].draft
        /\ \A v \in Worker : v # w => work'[v] = work[v]
    BY <1>a, <2>1, NoteEffect
  <2>3. work[w].draft = NULL
    BY <1>a, <2>1 DEF MemoryFits
  <2> QED BY <1>a, <1>c, <2>1, <2>2, <2>3 DEF MemoryFits, Idle, Working, Current
<1>3. CASE Analyze(w)
  <2>1. held[w].step = "RENEWED" /\ work[w].views # NULL
    BY <1>3 DEF Analyze, Between
  <2>2. PICK x : Note(w, "draft", x) \/ Note(w, "failure", x)
    BY <1>3 DEF Analyze
  <2>3. /\ work'[w].views = work[w].views /\ work'[w].batch = work[w].batch
        /\ \A v \in Worker : v # w => work'[v] = work[v]
    BY <1>a, <2>2, NoteEffect
  <2> QED BY <1>a, <1>c, <2>1, <2>3 DEF MemoryFits, Idle, Working, Current
<1> QED BY <1>1, <1>2, <1>3

LEMMA MemoryEnd ==
  ASSUME PipelineInv, QueueInv, NEW w \in Worker,
         \/ KeepEvidence(w) \/ ReplaceEvidence(w)
         \/ RejectCapture(w) \/ RejectDraft(w)
         \/ (CheckLease(w) \/ RenewLease(w)) /\ UNCHANGED <<stored, work>>
  PROVE  MemoryFits(w)' /\ \A v \in Worker : v # w => work'[v] = work[v]
<1>a. work \in [Worker -> Memory] /\ MemoryFits(w) /\ work[w] \in Memory
  BY DEF PipelineInv, PipelineTypeOK
<1>b. /\ held \in [Worker -> [inv: Inv \cup {NULL}, attempt: 0..MaxAttempts, step: Steps]]
      /\ at \in [Worker -> Nat \cup {NULL}]
  BY DEF QueueInv, TypeOK
<1>c. at'[w] = NULL
  BY <1>b DEF KeepEvidence, ReplaceEvidence, SaveEvidence, RejectCapture, RejectDraft, Reject,
     CheckLease, RenewLease, EndTxn
<1>1. CASE KeepEvidence(w) \/ ReplaceEvidence(w)
  <2>1. /\ Accepted(w) /\ held[w].step = "COLLECTING" /\ locked[w] \in Inv
        /\ work[w].batch # NULL
    BY <1>1, SaverRuns
  <2>2. held[w].inv = locked[w]
    BY <2>1, AcceptedAttempt
  <2>3. held'[w].step = "SAVED" /\ held'[w].inv = locked[w] /\ work' = work
    BY <1>1, <1>b, <2>2 DEF KeepEvidence, ReplaceEvidence, SaveEvidence, Advance
  <2>4. Seen(evidence'[locked[w]]) = work[w].batch
    <3>1. CASE KeepEvidence(w)
      BY <3>1 DEF KeepEvidence
    <3>2. CASE ReplaceEvidence(w)
      <4>1. evidence'[locked[w]] = {RowOf(o, held[w].attempt) : o \in work[w].batch}
        BY <2>1, <3>2 DEF ReplaceEvidence, PipelineInv, PipelineTypeOK
      <4> QED BY <4>1, SeenRows
    <3> QED BY <1>1, <3>1, <3>2
  <2>5. work[w].views = NULL /\ work[w].draft = NULL
    BY <1>a, <2>1 DEF MemoryFits
  <2>6. held'[w].inv # NULL
    BY <2>1, <2>3 DEF Accepted, InTxn
  <2> QED BY <1>c, <2>1, <2>3, <2>4, <2>5, <2>6 DEF MemoryFits, Idle
<1>2. CASE RejectCapture(w) \/ RejectDraft(w)
  <2>1. Accepted(w) /\ Advance(w, "REJECTED") /\ Note(w, "failure", "RESULT_INVALID")
        /\ held[w].step \in {"COLLECTING", "RENEWED"}
    BY <1>2 DEF RejectCapture, RejectDraft, Reject
  <2>2. held'[w].step = "REJECTED" /\ held'[w].inv = held[w].inv /\ held[w].inv # NULL
    BY <1>b, <2>1 DEF Advance, Accepted, InTxn, Working
  <2>3. /\ work'[w].views = work[w].views /\ work'[w].draft = work[w].draft
        /\ \A v \in Worker : v # w => work'[v] = work[v]
    BY <1>a, <2>1, NoteEffect
  <2> QED BY <1>a, <1>c, <2>2, <2>3 DEF MemoryFits, Idle
<1>3. CASE CheckLease(w) /\ UNCHANGED <<stored, work>>
  <2>1. work[w] = NoWork /\ work' = work
    BY <1>3, <1>a DEF CheckLease, MemoryFits
  <2>2. \/ held'[w].step = "IDLE" /\ held'[w].inv = NULL
        \/ held'[w].step = "COLLECTING" /\ held'[w].inv # NULL
    BY <1>3, <1>b DEF CheckLease, Advance, Drop, NoClaim, Working
  <2> QED BY <1>c, <2>1, <2>2 DEF MemoryFits, NoWork, Idle
<1>4. CASE RenewLease(w) /\ UNCHANGED <<stored, work>>
  <2>1. Accepted(w) /\ held[w].step = "SAVED" /\ Advance(w, "RENEWED")
        /\ evidence' = evidence /\ work' = work
    BY <1>4 DEF RenewLease, stored
  <2>2. held'[w].step = "RENEWED" /\ held'[w].inv = held[w].inv /\ held[w].inv # NULL
    BY <1>b, <2>1 DEF Advance, Accepted, InTxn, Working
  <2>3. Current(w)
    BY <2>1, AcceptedAttempt
  <2>4. work[w].views = NULL /\ work[w].draft = NULL /\ work[w].batch # NULL
        /\ work[w].batch = Seen(evidence[held[w].inv])
    BY <1>a, <2>1, <2>3 DEF MemoryFits
  <2> QED BY <1>c, <2>1, <2>2, <2>4 DEF MemoryFits, Idle
<1> QED BY <1>1, <1>2, <1>3, <1>4

LEMMA MemoryStart ==
  ASSUME PipelineInv, QueueInv, NEW w \in Worker,
         \/ StartOperation(w)
         \/ StartAttempt(w) /\ UNCHANGED <<stored, work>>
         \/ DeliverReport(w) \/ FailAttempt(w) \/ (Lose(w) /\ Forget(w))
  PROVE  MemoryFits(w)' /\ \A v \in Worker : v # w => work'[v] = work[v]
<1>a. work \in [Worker -> Memory] /\ MemoryFits(w) /\ work[w] \in Memory
  BY DEF PipelineInv, PipelineTypeOK
<1>b. /\ held \in [Worker -> [inv: Inv \cup {NULL}, attempt: 0..MaxAttempts, step: Steps]]
      /\ locked \in [Worker -> Inv \cup {NULL}]
  BY DEF QueueInv, TypeOK
<1>1. CASE StartOperation(w)
  BY <1>1, <1>a DEF StartOperation, ReadClock, rows, stored, MemoryFits, Idle, Working, Current
<1>2. CASE StartAttempt(w) /\ UNCHANGED <<stored, work>>
  <2>1. held'[w].step = "CLAIMED" /\ held'[w].inv # NULL
    BY <1>2, <1>b DEF StartAttempt
  <2>2. work[w] = NoWork /\ work' = work
    BY <1>2, <1>a DEF StartAttempt, MemoryFits
  <2> QED BY <2>1, <2>2 DEF MemoryFits, NoWork, Idle
<1>3. CASE DeliverReport(w) \/ FailAttempt(w) \/ (Lose(w) /\ Forget(w))
  <2>1. Drop(w) /\ Forget(w)
    BY <1>3 DEF DeliverReport, CompleteClaim, FailAttempt, RetryLater, FailForGood, Lose, Refuse, Crash
  <2>2. held'[w] = NoClaim /\ work'[w] = NoWork /\ \A v \in Worker : v # w => work'[v] = work[v]
    BY <1>a, <1>b, <2>1 DEF Drop, Forget
  <2> QED BY <2>2 DEF MemoryFits, NoWork, NoClaim
<1> QED BY <1>1, <1>2, <1>3

LEMMA MemoryStep ==
  ASSUME PipelineInv, QueueInv, [PipelineNext]_pipelineVars, NEW v \in Worker
  PROVE  MemoryFits(v)'
<1>a. /\ work \in [Worker -> Memory] /\ at \in [Worker -> Nat \cup {NULL}]
      /\ held \in [Worker -> [inv: Inv \cup {NULL}, attempt: 0..MaxAttempts, step: Steps]]
  BY DEF PipelineInv, PipelineTypeOK, QueueInv, TypeOK
<1>1. ASSUME NEW w \in Worker, MemoryFits(w)',
             \A u \in Worker : u # w => held'[u] = held[u] /\ at'[u] = at[u] /\ work'[u] = work[u]
      PROVE  MemoryFits(v)'
  BY <1>1, MemoryElsewhere
<1>2. ASSUME NEW w \in Worker, CollectTelemetry(w) \/ ReadEvidence(w) \/ Analyze(w)
      PROVE  MemoryFits(v)'
  <2>1. UNCHANGED <<held, at>>
    BY <1>2 DEF CollectTelemetry, ReadEvidence, Analyze, vars
  <2> QED BY <1>1, <1>2, <2>1, MemoryCollect
<1>3. ASSUME NEW w \in Worker,
             \/ KeepEvidence(w) \/ ReplaceEvidence(w)
             \/ RejectCapture(w) \/ RejectDraft(w)
             \/ (CheckLease(w) \/ RenewLease(w)) /\ UNCHANGED <<stored, work>>
      PROVE  MemoryFits(v)'
  <2>1. EndTxn(w) /\ (Drop(w) \/ \E s : Advance(w, s))
    BY <1>3 DEF KeepEvidence, ReplaceEvidence, SaveEvidence, RejectCapture, RejectDraft, Reject,
       CheckLease, RenewLease
  <2>2. \A u \in Worker : u # w => held'[u] = held[u] /\ at'[u] = at[u]
    BY <1>a, <2>1 DEF EndTxn, Drop, Advance
  <2> QED BY <1>1, <1>3, <2>2, MemoryEnd
<1>4. ASSUME NEW w \in Worker,
             \/ StartOperation(w)
             \/ StartAttempt(w) /\ UNCHANGED <<stored, work>>
             \/ DeliverReport(w) \/ FailAttempt(w) \/ (Lose(w) /\ Forget(w))
      PROVE  MemoryFits(v)'
  <2>1. \A u \in Worker : u # w => held'[u] = held[u] /\ at'[u] = at[u]
    BY <1>4, <1>a DEF StartOperation, ReadClock, StartAttempt, DeliverReport, CompleteClaim,
       FailAttempt, RetryLater, FailForGood, Lose, Refuse, Crash, Drop, EndTxn
  <2> QED BY <1>1, <1>4, <2>1, MemoryStart
<1>5. CASE /\ UNCHANGED <<held, work>>
           /\ UNCHANGED at \/ \E w \in Worker : at' = [at EXCEPT ![w] = NULL]
  BY <1>5, <1>a, MemoryElsewhere
<1> QED
  BY <1>2, <1>3, <1>4, <1>5 DEF PipelineNext, ClaimStep, SelectCandidate, FindNothing, Exhaust,
     LockHeld, Tick, Enqueue, Review, EndTxn, txn, vars, pipelineVars

(* The invariant of the pipeline is kept as long as the queue keeps its    *)
(* own, which it does for any telemetry and any model.                     *)
LEMMA PipelineInvStep ==
  PipelineInv /\ QueueInv /\ QueueInv' /\ [PipelineNext]_pipelineVars => PipelineInv'
<1> SUFFICES ASSUME PipelineInv, QueueInv, QueueInv', [PipelineNext]_pipelineVars
             PROVE  PipelineInv'
  OBVIOUS
<1>1. PipelineTypeOK'
  BY PipelineTypes DEF PipelineInv, QueueInv
<1> QED BY <1>1, ReportStep, MemoryStep DEF PipelineInv

(* When a holder completes, its draft was made from the rows that are      *)
(* there.                                                                  *)
LEMMA DraftsAreCurrent == PipelineInv /\ QueueInv => DraftFromCurrentRows
<1> SUFFICES ASSUME PipelineInv, QueueInv, NEW w \in Worker, Accepted(w), Completing(w)
             PROVE  /\ work[w].views = evidence[locked[w]]
                    /\ work[w].batch = Seen(evidence[locked[w]])
  BY DEF DraftFromCurrentRows
<1>1. locked[w] = held[w].inv /\ at[w] # NULL /\ Current(w)
  BY AcceptedAttempt
<1>2. held[w].step = "RENEWED" /\ work[w].failure = NULL
  BY DEF Completing
<1> QED BY <1>1, <1>2 DEF PipelineInv, MemoryFits

-----------------------------------------------------------------------------
(* The parts of the invariant hold in every reachable state.               *)
THEOREM PipelineInvariant == PipelineSpec => [](PipelineInv /\ QueueInv)
<1>1. PipelineSpec => []QueueInv
  BY PipelineIsQueue, QueueInvariant, PTL
<1>2. QED
  BY <1>1, PipelineInitInv, PipelineInvStep, PTL DEF PipelineSpec

(* Rows, captures, reports and what a worker remembers keep their types.   *)
THEOREM PipelineTypeCorrect == PipelineSpec => []PipelineTypeOK
<1>1. PipelineInv => PipelineTypeOK
  BY DEF PipelineInv
<1>2. QED
  BY <1>1, PipelineInvariant, PTL

(* A reader finds a report exactly when the status says there is one.      *)
THEOREM ReportsMatchStatus == PipelineSpec => []ReportIffFinished
<1>1. PipelineInv => ReportIffFinished
  BY DEF PipelineInv
<1>2. QED
  BY <1>1, PipelineInvariant, PTL

(* A report cites rows that are there, discloses their gaps, claims no     *)
(* more confidence than they allow and is the last attempt's.              *)
THEOREM ReportsAreSound == PipelineSpec => []ReportSound
<1>1. PipelineInv => ReportSound
  BY DEF PipelineInv
<1>2. QED
  BY <1>1, PipelineInvariant, PTL

(* Although rows are read and the model is asked outside any transaction,  *)
(* a claim that completes completes on the rows the model saw.             *)
THEOREM DraftsStayCurrent == PipelineSpec => []DraftFromCurrentRows
BY PipelineInvariant, DraftsAreCurrent, PTL

(* No retry and no takeover loses evidence.                                *)
THEOREM EvidenceIsKept == PipelineSpec => EvidenceKept
<1>1. PipelineInv /\ QueueInv /\ [PipelineNext]_pipelineVars =>
        [\A i \in Inv :
           /\ evidence[i] # {} => evidence'[i] # {}
           /\ report[i] # NULL => evidence'[i] = evidence[i] /\ captures'[i] = captures[i]
           /\ Seen(evidence'[i]) = Seen(evidence[i]) => evidence'[i] = evidence[i]]_pipelineVars
  BY EvidenceStep
<1>2. QED
  BY <1>1, PipelineInvariant, PTL DEF PipelineSpec, EvidenceKept

-----------------------------------------------------------------------------
(* With clocks that agree, created_at follows the order of the commits, and *)
(* the capture a completion looks up is the claim's own.                    *)
ClocksAgree == \A v, w \in Worker : Skew[v] = Skew[w]

CapturesOrdered ==
  \A i \in Inv : \A n \in DOMAIN captures[i] :
    /\ \A m \in DOMAIN captures[i] : m <= n => captures[i][m].createdAt <= captures[i][n].createdAt
    /\ \A w \in Worker : captures[i][n].createdAt <= clock + Skew[w]

LastIsOwn(w) ==
  Current(w) /\ held[w].step \in {"SAVED", "RENEWED"} =>
    LET c == captures[held[w].inv] IN c # <<>> /\ c[Len(c)].attempt = held[w].attempt

CaptureInv == CapturesOrdered /\ \A w \in Worker : LastIsOwn(w)

LEMMA CaptureTimes ==
  ASSUME captures \in [Inv -> Seq(CaptureEvent)], NEW i \in Inv
  PROVE  /\ DOMAIN captures[i] = 1..Len(captures[i]) /\ Len(captures[i]) \in Nat
         /\ captures[i] # <<>> => Len(captures[i]) \in DOMAIN captures[i]
         /\ \A n \in DOMAIN captures[i] : captures[i][n].createdAt \in Nat
<1> DEFINE c == captures[i]
<1>1. c \in Seq(CaptureEvent)
  OBVIOUS
<1> HIDE DEF c
<1>2. DOMAIN c = 1..Len(c) /\ Len(c) \in Nat /\ (c # <<>> => Len(c) \in DOMAIN c)
  BY <1>1
<1>3. \A n \in DOMAIN c : c[n] \in CaptureEvent
  BY <1>1
<1>4. \A e \in CaptureEvent : e.createdAt \in Nat
  BY DEF CaptureEvent
<1>5. \A n \in DOMAIN c : c[n].createdAt \in Nat
  BY <1>3, <1>4
<1> QED BY <1>2, <1>5 DEF c

LEMMA LatestIsLast ==
  ASSUME PipelineTypeOK, CapturesOrdered, NEW i \in Inv, captures[i] # <<>>
  PROVE  Latest(i) = captures[i][Len(captures[i])]
<1> DEFINE c == captures[i]
           Best(n) == \A m \in DOMAIN c :
             c[m].createdAt < c[n].createdAt \/ (c[m].createdAt = c[n].createdAt /\ m <= n)
<1>1. captures \in [Inv -> Seq(CaptureEvent)]
  BY DEF PipelineTypeOK
<1>2. /\ Len(c) \in DOMAIN c /\ DOMAIN c = 1..Len(c) /\ Len(c) \in Nat
      /\ \A n \in DOMAIN c : c[n].createdAt \in Nat
  BY <1>1, CaptureTimes
<1>3. \A m \in DOMAIN c : c[m].createdAt <= c[Len(c)].createdAt
  BY <1>2 DEF CapturesOrdered
<1>4. Latest(i) = c[CHOOSE n \in DOMAIN c : Best(n)]
  BY DEF Latest
<1> HIDE DEF c
<1>5. Best(Len(c))
  BY <1>2, <1>3
<1>6. ASSUME NEW n \in DOMAIN c, Best(n) PROVE n = Len(c)
  BY <1>2, <1>3, <1>6
<1> HIDE DEF Best
<1>7. (CHOOSE n \in DOMAIN c : Best(n)) = Len(c)
  BY <1>2, <1>5, <1>6
<1> QED BY <1>4, <1>7 DEF c

LEMMA ClockGrows ==
  ASSUME QueueInv, [Next]_vars
  PROVE  clock' \in Nat /\ clock \in Nat /\ clock' >= clock
<1>1. clock \in Nat
  BY DEF QueueInv, TypeOK
<1>2. CASE clock' = clock + 1
  BY <1>1, <1>2
<1>3. CASE clock' = clock
  BY <1>1, <1>3
<1> QED
  BY <1>2, <1>3 DEF Next, Tick, Enqueue, Review, ReadClock, ClaimStep, SelectCandidate,
     FindNothing, StartAttempt, Exhaust, HolderStep, CheckLease, LockHeld, Refuse, SaveEvidence,
     Reject, RenewLease, CompleteClaim, FailClaim, RetryLater, FailForGood, Crash, vars

(* What a saving leaves as the captures of its investigation.              *)
LEMMA Saved ==
  ASSUME PipelineInv, QueueInv, CapturesOrdered, NEW w \in Worker,
         KeepEvidence(w) \/ ReplaceEvidence(w)
  PROVE  LET c == captures[locked[w]]
             e == Capture(held[w].attempt, work[w].batch, clock + Skew[w]) IN
         /\ \A i \in Inv : i # locked[w] => captures'[i] = captures[i]
         /\ \/ /\ captures' = captures
               /\ c # <<>> /\ c[Len(c)].attempt = held[w].attempt
            \/ captures'[locked[w]] = Append(c, e)
<1> DEFINE e == Capture(held[w].attempt, work[w].batch, clock + Skew[w])
<1>1. locked[w] \in Inv /\ captures \in [Inv -> Seq(CaptureEvent)]
  BY SaverRuns DEF PipelineInv, PipelineTypeOK
<1>2. \/ captures' = captures /\ RecordsNothing(locked[w], held[w].attempt, work[w].batch)
      \/ captures' = [captures EXCEPT ![locked[w]] = Append(@, e)]
  BY DEF KeepEvidence, ReplaceEvidence
<1>3. CASE captures' = captures /\ RecordsNothing(locked[w], held[w].attempt, work[w].batch)
  <2>1. captures[locked[w]] # <<>> /\ Latest(locked[w]).attempt = held[w].attempt
    BY <1>3 DEF RecordsNothing
  <2>2. Latest(locked[w]) = captures[locked[w]][Len(captures[locked[w]])]
    BY <1>1, <2>1, LatestIsLast DEF PipelineInv
  <2> QED BY <1>3, <2>1, <2>2
<1> HIDE DEF e
<1>4. CASE captures' = [captures EXCEPT ![locked[w]] = Append(@, e)]
  BY <1>1, <1>4 DEF e
<1> QED BY <1>2, <1>3, <1>4

LEMMA OrderStep ==
  ASSUME ClocksAgree, PipelineInv, QueueInv, CapturesOrdered, [PipelineNext]_pipelineVars
  PROVE  CapturesOrdered'
<1>a. [Next]_vars
  BY PipelineStep
<1>b. clock' \in Nat /\ clock \in Nat /\ clock' >= clock
  BY <1>a, ClockGrows
<1>1. clock' \in Nat /\ clock \in Nat /\ clock' >= clock /\ Skew \in [Worker -> Nat]
  BY <1>b, JobQueueAssumption
<1>2. \A i \in Inv : /\ captures[i] \in Seq(CaptureEvent)
                     /\ \A n \in DOMAIN captures[i] : captures[i][n].createdAt \in Nat
  <2>1. captures \in [Inv -> Seq(CaptureEvent)]
    BY DEF PipelineInv, PipelineTypeOK
  <2> QED BY <2>1, CaptureTimes
<1>3. ASSUME NEW i \in Inv, captures'[i] = captures[i], NEW n \in DOMAIN captures'[i]
      PROVE  /\ \A m \in DOMAIN captures'[i] :
                  m <= n => captures'[i][m].createdAt <= captures'[i][n].createdAt
             /\ \A v \in Worker : captures'[i][n].createdAt <= clock' + Skew[v]
  BY <1>1, <1>2, <1>3 DEF CapturesOrdered
<1>4. ASSUME NEW w \in Worker, KeepEvidence(w) \/ ReplaceEvidence(w) PROVE CapturesOrdered'
  <2> DEFINE c == captures[locked[w]]
             e == Capture(held[w].attempt, work[w].batch, clock + Skew[w])
             d == Append(c, e)
  <2>1. /\ locked[w] \in Inv /\ \A i \in Inv : i # locked[w] => captures'[i] = captures[i]
        /\ captures' = captures \/ captures'[locked[w]] = d
    BY <1>4, Saved, SaverRuns
  <2>2. clock' = clock
    BY <1>4 DEF KeepEvidence, ReplaceEvidence, SaveEvidence
  <2>3. ASSUME NEW n \in DOMAIN d
        PROVE  /\ \A m \in DOMAIN d : m <= n => d[m].createdAt <= d[n].createdAt
               /\ \A v \in Worker : d[n].createdAt <= clock + Skew[v]
    <3>1. e.createdAt = clock + Skew[w] /\ e.createdAt \in Nat
      BY <1>1 DEF Capture
    <3>2. c \in Seq(CaptureEvent) /\ \A m \in DOMAIN c : c[m].createdAt \in Nat
      BY <1>2, <2>1
    <3> HIDE DEF e
    <3>3. /\ DOMAIN d = 1..(Len(c) + 1) /\ d[Len(c) + 1] = e
          /\ DOMAIN c = 1..Len(c) /\ \A m \in 1..Len(c) : d[m] = c[m]
      BY <3>2
    <3>4. \A m \in DOMAIN c : /\ \A k \in DOMAIN c : k <= m => c[k].createdAt <= c[m].createdAt
                              /\ \A v \in Worker : c[m].createdAt <= clock + Skew[v]
      BY <2>1 DEF CapturesOrdered
    <3>5. \A v \in Worker : e.createdAt <= clock + Skew[v]
      <4>1. \A v \in Worker : Skew[v] = Skew[w]
        BY DEF ClocksAgree
      <4> QED BY <1>1, <3>1, <4>1
    <3> HIDE DEF d, c
    <3>6. CASE n = Len(c) + 1
      <4>1. ASSUME NEW m \in DOMAIN d PROVE d[m].createdAt <= d[n].createdAt
        <5>1. CASE m = Len(c) + 1
          BY <3>1, <3>3, <3>6, <5>1
        <5>2. CASE m \in 1..Len(c)
          BY <3>1, <3>3, <3>4, <3>6, <5>2
        <5> QED BY <3>2, <3>3, <5>1, <5>2
      <4> QED BY <3>3, <3>5, <3>6, <4>1
    <3>7. CASE n \in 1..Len(c)
      <4>1. \A m \in DOMAIN d : m <= n => m \in 1..Len(c)
        BY <3>2, <3>3, <3>7
      <4> QED BY <3>3, <3>4, <3>7, <4>1
    <3> QED BY <3>2, <3>3, <3>6, <3>7
  <2>4. CASE captures' = captures
    BY <1>3, <2>4 DEF CapturesOrdered
  <2>5. CASE captures'[locked[w]] = d
    <3> HIDE DEF d
    <3>1. ASSUME NEW i \in Inv, NEW n \in DOMAIN captures'[i]
          PROVE  /\ \A m \in DOMAIN captures'[i] :
                      m <= n => captures'[i][m].createdAt <= captures'[i][n].createdAt
                 /\ \A v \in Worker : captures'[i][n].createdAt <= clock' + Skew[v]
      <4>1. CASE i = locked[w]
        BY <2>2, <2>3, <2>5, <4>1
      <4>2. CASE i # locked[w]
        BY <1>3, <2>1, <4>2
      <4> QED BY <4>1, <4>2
    <3> QED BY <3>1 DEF CapturesOrdered
  <2> QED BY <2>1, <2>4, <2>5
<1>5. CASE UNCHANGED captures
  BY <1>3, <1>5 DEF CapturesOrdered
<1> QED
  BY <1>4, <1>5 DEF PipelineNext, StartOperation, CollectTelemetry, RejectCapture,
     ReadEvidence, Analyze, DeliverReport, RejectDraft, FailAttempt, pipelineVars, stored

(* The claim's own saving leaves its capture last, its renewal finds it    *)
(* there, and no other step of it comes to where a completion may follow.  *)
LEMMA OwnCaptureLast ==
  ASSUME PipelineInv, QueueInv, CapturesOrdered, \A w \in Worker : LastIsOwn(w),
         [PipelineNext]_pipelineVars, NEW v \in Worker
  PROVE  LastIsOwn(v)'
<1>a. /\ held \in [Worker -> [inv: Inv \cup {NULL}, attempt: 0..MaxAttempts, step: Steps]]
      /\ captures \in [Inv -> Seq(CaptureEvent)]
  BY DEF PipelineInv, PipelineTypeOK, QueueInv, TypeOK
<1>b. [Next]_vars
  BY PipelineStep
<1>1. CASE held'[v] = held[v]
  <2> SUFFICES ASSUME Current(v)', held[v].step \in {"SAVED", "RENEWED"}
               PROVE  LET c == captures'[held[v].inv] IN
                        c # <<>> /\ c[Len(c)].attempt = held[v].attempt
    BY <1>1 DEF LastIsOwn
  <2>1. Current(v)
    BY <1>1, <1>b, CurrentBefore
  <2>2. captures'[held[v].inv] = captures[held[v].inv]
    BY <2>1, OwnEvidence
  <2> QED BY <2>1, <2>2 DEF LastIsOwn
<1>2. ASSUME NEW w \in Worker, KeepEvidence(w) \/ ReplaceEvidence(w) PROVE LastIsOwn(v)'
  <2> DEFINE c == captures[locked[w]]
             e == Capture(held[w].attempt, work[w].batch, clock + Skew[w])
  <2>1. Accepted(w) /\ locked[w] \in Inv
    BY <1>2, SaverRuns
  <2>2. locked[w] = held[w].inv
    BY <2>1, AcceptedAttempt
  <2>3. /\ held'[w].inv = held[w].inv /\ held'[w].attempt = held[w].attempt
        /\ \A u \in Worker : u # w => held'[u] = held[u]
    BY <1>2, <1>a DEF KeepEvidence, ReplaceEvidence, SaveEvidence, Advance
  <2>4. \/ captures' = captures /\ c # <<>> /\ c[Len(c)].attempt = held[w].attempt
        \/ captures'[locked[w]] = Append(c, e)
    BY <1>2, Saved
  <2>5. c \in Seq(CaptureEvent) /\ e.attempt = held[w].attempt
    BY <1>a, <2>1 DEF Capture
  <2> HIDE DEF c, e
  <2>6. Append(c, e) # <<>> /\ Append(c, e)[Len(Append(c, e))] = e
    BY <2>5
  <2>7. LET d == captures'[held[w].inv] IN d # <<>> /\ d[Len(d)].attempt = held[w].attempt
    BY <2>2, <2>4, <2>5, <2>6 DEF c
  <2> QED BY <1>1, <2>3, <2>7 DEF LastIsOwn
<1>3. ASSUME NEW w \in Worker, RenewLease(w) /\ UNCHANGED <<stored, work>> PROVE LastIsOwn(v)'
  <2>1. Accepted(w) /\ held[w].step = "SAVED" /\ captures' = captures
    BY <1>3 DEF RenewLease, stored
  <2>2. /\ held'[w].inv = held[w].inv /\ held'[w].attempt = held[w].attempt
        /\ \A u \in Worker : u # w => held'[u] = held[u]
    BY <1>3, <1>a DEF RenewLease, Advance
  <2>3. Current(w)
    BY <2>1, AcceptedAttempt
  <2> QED BY <1>1, <2>1, <2>2, <2>3 DEF LastIsOwn
<1>4. ASSUME NEW w \in Worker,
             \/ Drop(w) \/ Advance(w, "COLLECTING") \/ Advance(w, "REJECTED") \/ StartAttempt(w)
      PROVE  LastIsOwn(v)'
  <2>1. /\ held'[w].step \notin {"SAVED", "RENEWED"}
        /\ \A u \in Worker : u # w => held'[u] = held[u]
    BY <1>4, <1>a DEF Drop, NoClaim, Advance, StartAttempt
  <2> QED BY <1>1, <2>1 DEF LastIsOwn
<1>5. CASE UNCHANGED held
  BY <1>1, <1>5
<1> QED
  BY <1>2, <1>3, <1>4, <1>5 DEF PipelineNext, StartOperation, ReadClock, CollectTelemetry,
     ReadEvidence, Analyze, RejectCapture, DeliverReport, RejectDraft, FailAttempt, Lose,
     ClaimStep, SelectCandidate, FindNothing, Exhaust, CheckLease, LockHeld, Refuse, Reject,
     CompleteClaim, RetryLater, FailForGood, Crash, Tick, Enqueue, Review, vars, pipelineVars

LEMMA CaptureInitInv == PipelineInit => CaptureInv
<1> SUFFICES ASSUME PipelineInit PROVE CaptureInv
  OBVIOUS
<1>1. \A i \in Inv : DOMAIN captures[i] = {}
  BY DEF PipelineInit
<1>2. \A w \in Worker : held[w].step = "IDLE"
  BY DEF PipelineInit, Init, NoClaim
<1> QED BY <1>1, <1>2 DEF CaptureInv, CapturesOrdered, LastIsOwn

LEMMA OwnCaptureFound == PipelineInv /\ QueueInv /\ CaptureInv => LatestCaptureIsOwn
<1> SUFFICES ASSUME PipelineInv, QueueInv, CaptureInv, NEW w \in Worker,
                    Accepted(w), Completing(w)
             PROVE  captures[locked[w]] # <<>> /\ Latest(locked[w]).attempt = held[w].attempt
  BY DEF LatestCaptureIsOwn
<1>1. locked[w] \in Inv /\ locked[w] = held[w].inv /\ Current(w) /\ held[w].step = "RENEWED"
  BY AcceptedAttempt DEF Completing
<1>2. LET c == captures[locked[w]] IN c # <<>> /\ c[Len(c)].attempt = held[w].attempt
  BY <1>1 DEF CaptureInv, LastIsOwn
<1> QED BY <1>1, <1>2, LatestIsLast DEF CaptureInv, PipelineInv

(* complete_claim takes the capture with the latest created_at for the     *)
(* claim's own; while the workers' clocks agree it is, whoever was taken   *)
(* over before.  (CaptureSuffices shows what happens when they do not.)    *)
THEOREM CapturesAreOwn ==
  ASSUME ClocksAgree
  PROVE  PipelineSpec => []LatestCaptureIsOwn
<1>1. CaptureInv /\ PipelineInv /\ QueueInv /\ [PipelineNext]_pipelineVars => CaptureInv'
  BY OrderStep, OwnCaptureLast DEF CaptureInv
<1>2. QED
  BY <1>1, CaptureInitInv, OwnCaptureFound, PipelineInvariant, PTL DEF PipelineSpec
=============================================================================
