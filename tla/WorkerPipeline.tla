--------------------------- MODULE WorkerPipeline ---------------------------
(***************************************************************************)
(* What one attempt does with its claim (backend/worker.py run_once):      *)
(* query telemetry, save the evidence, renew the lease, read the saved     *)
(* rows back, ask the model, and deliver a report or a failure.  The job   *)
(* queue underneath is JobQueue; every step here is a step of JobQueue     *)
(* with the rows of evidence, captures and reports added, or leaves the    *)
(* queue alone.                                                            *)
(*                                                                         *)
(* Telemetry and the model are outside: they answer anything or fail.      *)
(***************************************************************************)
EXTENDS JobQueue

CONSTANTS
  Obs,      \* normalized observations telemetry can return
  Signal,   \* observation -> "LOG", "RATE", "ERRORS" or "TRACE"
  TraceOf,  \* observation -> its trace, or NULL
  Answers,  \* bound: the sets of observations a collection may find
  Bogus     \* an evidence id the model makes up

ASSUME PipelineAssumption ==
  /\ Signal \in [Obs -> {"LOG", "RATE", "ERRORS", "TRACE"}]
  /\ Answers \subseteq SUBSET Obs

VARIABLES
  evidence, \* evidence rows of an investigation: what was seen, who saved it
  captures, \* its EVIDENCE_CAPTURED audit events, in commit order
  report,   \* its report with the hypotheses and links, or NULL
  work      \* what a worker process has in memory for its claim

stored == <<evidence, captures, report>>
pipelineVars == <<vars, stored, work>>

-----------------------------------------------------------------------------
(* Evidence rows get new ids whenever they are replaced; an attempt saves  *)
(* once, so the attempt stands for the generation of ids.                  *)
RowOf(o, attempt) == [obs |-> o, by |-> attempt]
Rows == [obs: Obs, by: 1..MaxAttempts]
Seen(E) == {r.obs : r \in E}

Has(S, signal) == \E o \in S : Signal[o] = signal
Traces(S, signal) == {TraceOf[o] : o \in {o \in S : Signal[o] = signal}} \ {NULL}

(* The gaps collect_evidence records for what it found.                    *)
GapsOf(S) ==
  {"CHANGE_FEED_NOT_CONFIGURED"}
  \cup (IF Has(S, "LOG") THEN {} ELSE {"NO_LOGS"})
  \cup (IF Has(S, "RATE") THEN {} ELSE {"NO_REQUEST_RATE"})
  \cup (IF Has(S, "TRACE") THEN {} ELSE {"NO_TRACES"})
  \cup (IF /\ Traces(S, "LOG") # {} /\ Traces(S, "TRACE") # {}
           /\ Traces(S, "LOG") \cap Traces(S, "TRACE") = {}
        THEN {"NO_LOG_TRACE_OVERLAP"} ELSE {})

CoreGaps == {"NO_LOGS", "NO_REQUEST_RATE", "NO_TRACES", "NO_LOG_TRACE_OVERLAP"}

(* A draft: no hypothesis, or hypotheses that cite rows; level is the      *)
(* highest confidence among them.                                          *)
Inconclusive(gaps) == [cites |-> {}, level |-> "NONE", gaps |-> gaps]
Drafts == [cites: SUBSET (Rows \cup {Bogus}), level: {"NONE", "LOW", "MEDIUM", "HIGH"},
           gaps: SUBSET (CoreGaps \cup {"CHANGE_FEED_NOT_CONFIGURED"})]

(* What the model may answer on the rows it was shown; _parse adds the     *)
(* recorded gaps to every hypothesis itself.                               *)
ModelAnswers(views, gaps) ==
  {Inconclusive(gaps)} \cup
  {[cites |-> c, level |-> l, gaps |-> gaps] :
     c \in {{r} : r \in views} \cup {views, {Bogus}}, l \in {"LOW", "MEDIUM", "HIGH"}}

(* Mutant of Valid: citations are not looked up.                           *)
ValidUncited(draft, E, gaps) ==
  \/ draft = Inconclusive(gaps)
  \/ draft.level # "NONE" /\ draft.gaps = gaps /\ E # {}

(* _validate: the confidence the gaps allow and citations inside the rows. *)
Valid(draft, E, gaps) ==
  \/ draft = Inconclusive(gaps)
  \/ /\ draft.level # "NONE" /\ draft.gaps = gaps
     /\ E # {} /\ draft.cites # {} /\ draft.cites \subseteq E
     /\ draft.level = "HIGH" => gaps = {}
     /\ draft.level # "LOW" => gaps \cap CoreGaps = {}

-----------------------------------------------------------------------------
(* ORDER BY created_at DESC: created_at is the clock of the process that   *)
(* wrote the event.  Events of one investigation are never committed in    *)
(* the same microsecond; a tie of the coarser clock here goes to the later *)
(* one.                                                                    *)
Capture(attempt, S, now) == [attempt |-> attempt, obs |-> S, createdAt |-> now]

Latest(i) ==
  LET c == captures[i] IN
  c[CHOOSE n \in DOMAIN c : \A m \in DOMAIN c :
       c[m].createdAt < c[n].createdAt \/ (c[m].createdAt = c[n].createdAt /\ m <= n)]

(* Mutant of RecordsNothing: a capture of an earlier attempt will do.      *)
RecordsNothingForRetry(i, attempt, S) ==
  captures[i] # <<>> /\ Latest(i).obs = S

(* The unchanged capture is already on record for this attempt.            *)
RecordsNothing(i, attempt, S) ==
  captures[i] # <<>> /\ Latest(i).attempt = attempt /\ Latest(i).obs = S

(* Mutant of Lossy: an empty capture may replace rows.                     *)
NeverLossy(i, S) == FALSE

Lossy(i, S) == evidence[i] # {} /\ S = {}

NoWork == [batch |-> NULL, views |-> NULL, draft |-> NULL, failure |-> NULL]
Note(w, field, value) == work' = [work EXCEPT ![w][field] = value]
Forget(w) == work' = [work EXCEPT ![w] = NoWork]

PipelineInit ==
  /\ Init
  /\ evidence = [i \in Inv |-> {}]
  /\ captures = [i \in Inv |-> <<>>]
  /\ report = [i \in Inv |-> NULL]
  /\ work = [w \in Worker |-> NoWork]

-----------------------------------------------------------------------------
(* Between two operations: no `now` read, no transaction open.             *)
Between(w, step) == Working(w) /\ held[w].step = step /\ at[w] = NULL
                    /\ work[w].failure = NULL

(* collect_evidence: HTTP queries without a lock or a transaction.         *)
CollectTelemetry(w) ==
  /\ Between(w, "COLLECTING") /\ work[w].batch = NULL
  /\ \/ \E S \in Answers : Note(w, "batch", S)
     \/ \E reason \in ReasonsAt("COLLECTING") : Note(w, "failure", reason)
  /\ UNCHANGED <<vars, stored>>

(* The next operation starts once there is something to save, to deliver   *)
(* or to fail with.                                                        *)
StartOperation(w) ==
  /\ \/ work[w].failure # NULL
     \/ held[w].step = "COLLECTING" /\ work[w].batch # NULL
     \/ held[w].step = "RENEWED" /\ work[w].draft # NULL
     \/ held[w].step \notin {"COLLECTING", "RENEWED"}
  /\ ReadClock(w)
  /\ UNCHANGED <<stored, work>>

Saving(w) == held[w].step = "COLLECTING" /\ locked[w] # NULL /\ work[w].failure = NULL

(* save_evidence finds the same rows: it keeps them and their ids, and     *)
(* records that this attempt checked them.                                 *)
KeepEvidence(w) ==
  LET i == locked[w]
      S == work[w].batch IN
  /\ Saving(w) /\ SaveEvidence(w)
  /\ evidence[i] # {} /\ Seen(evidence[i]) = S
  /\ IF RecordsNothing(i, held[w].attempt, S)
     THEN UNCHANGED captures
     ELSE captures' = [captures EXCEPT ![i] =
                         Append(@, Capture(held[w].attempt, S, clock + Skew[w]))]
  /\ UNCHANGED <<evidence, report, work>>

(* save_evidence replaces the rows and records the capture.                *)
ReplaceEvidence(w) ==
  LET i == locked[w]
      S == work[w].batch IN
  /\ Saving(w) /\ SaveEvidence(w)
  /\ ~Lossy(i, S) /\ report[i] = NULL
  /\ evidence[i] = {} \/ Seen(evidence[i]) # S
  /\ evidence' = [evidence EXCEPT ![i] = {RowOf(o, held[w].attempt) : o \in S}]
  /\ captures' = [captures EXCEPT ![i] =
                    Append(@, Capture(held[w].attempt, S, clock + Skew[w]))]
  /\ UNCHANGED <<report, work>>

(* save_evidence refuses an empty capture over existing rows, or one that  *)
(* would replace rows a hypothesis cites.                                  *)
RejectCapture(w) ==
  LET i == locked[w]
      S == work[w].batch IN
  /\ Saving(w) /\ Reject(w)
  /\ Lossy(i, S) \/ (report[i] # NULL /\ Seen(evidence[i]) # S)
  /\ Note(w, "failure", "RESULT_INVALID")
  /\ UNCHANGED stored

(* run_once reads the committed rows back, in a session without locks.     *)
ReadEvidence(w) ==
  /\ Between(w, "RENEWED") /\ work[w].views = NULL
  /\ Note(w, "views", evidence[held[w].inv])
  /\ UNCHANGED <<vars, stored>>

(* The model is asked only when there is evidence.                         *)
Analyze(w) ==
  LET gaps == GapsOf(work[w].batch) IN
  /\ Between(w, "RENEWED") /\ work[w].views # NULL /\ work[w].draft = NULL
  /\ \/ /\ work[w].views = {}
        /\ Note(w, "draft", Inconclusive(gaps))
     \/ /\ work[w].views # {}
        /\ \/ \E d \in ModelAnswers(work[w].views, gaps) : Note(w, "draft", d)
           \/ \E reason \in ReasonsAt("RENEWED") : Note(w, "failure", reason)
  /\ UNCHANGED <<vars, stored>>

(* complete_claim's checks: the latest capture is this attempt's, the rows *)
(* are the ones it captured, and the draft is valid for them.              *)
Deliverable(w, i) ==
  /\ captures[i] # <<>> /\ Latest(i).attempt = held[w].attempt
  /\ Latest(i).obs = Seen(evidence[i])
  /\ Valid(work[w].draft, evidence[i], GapsOf(Latest(i).obs))

Completing(w) == held[w].step = "RENEWED" /\ locked[w] # NULL /\ work[w].failure = NULL

(* Mutant of Stored: an inconclusive result stores no report.              *)
StoredIfConclusive(draft, attempt) ==
  IF draft.level = "NONE" THEN NULL
  ELSE [cites |-> draft.cites, level |-> draft.level, gaps |-> draft.gaps,
        attempt |-> attempt]

Stored(draft, attempt) == [cites |-> draft.cites, level |-> draft.level,
                           gaps |-> draft.gaps, attempt |-> attempt]

DeliverReport(w) ==
  LET i == locked[w] IN
  /\ Completing(w) /\ CompleteClaim(w)
  /\ Deliverable(w, i)
  /\ report' = [report EXCEPT ![i] = Stored(work[w].draft, held[w].attempt)]
  /\ Forget(w)
  /\ UNCHANGED <<evidence, captures>>

RejectDraft(w) ==
  /\ Completing(w) /\ Reject(w)
  /\ ~Deliverable(w, locked[w])
  /\ Note(w, "failure", "RESULT_INVALID")
  /\ UNCHANGED stored

FailAttempt(w) ==
  /\ work[w].failure # NULL
  /\ RetryLater(w, work[w].failure) \/ FailForGood(w, work[w].failure)
  /\ Forget(w)
  /\ UNCHANGED stored

Lose(w) == Refuse(w) \/ Crash(w)

-----------------------------------------------------------------------------
PipelineNext ==
  \/ Tick /\ UNCHANGED <<stored, work>>
  \/ \E i \in Inv : /\ Enqueue(i) \/ (Review(i) /\ report[i] # NULL)
                   /\ UNCHANGED <<stored, work>>
  \/ \E w \in Worker :
       \/ StartOperation(w)
       \/ ClaimStep(w) /\ UNCHANGED <<stored, work>>
       \/ (CheckLease(w) \/ LockHeld(w) \/ RenewLease(w)) /\ UNCHANGED <<stored, work>>
       \/ CollectTelemetry(w) \/ ReadEvidence(w) \/ Analyze(w)
       \/ KeepEvidence(w) \/ ReplaceEvidence(w) \/ RejectCapture(w)
       \/ DeliverReport(w) \/ RejectDraft(w) \/ FailAttempt(w)
       \/ Lose(w) /\ Forget(w) /\ UNCHANGED stored

PipelineSpec == PipelineInit /\ [][PipelineNext]_pipelineVars

-----------------------------------------------------------------------------
CaptureEvent == [attempt: 1..MaxAttempts, obs: SUBSET Obs, createdAt: Nat]
Reports == [cites: SUBSET (Rows \cup {Bogus}), level: {"NONE", "LOW", "MEDIUM", "HIGH"},
            gaps: SUBSET (CoreGaps \cup {"CHANGE_FEED_NOT_CONFIGURED"}),
            attempt: 1..MaxAttempts]

Memory == [batch: (SUBSET Obs) \cup {NULL}, views: (SUBSET Rows) \cup {NULL},
           draft: Drafts \cup {NULL}, failure: Reasons \cup {NULL}]

ASSUME NullAssumption == /\ \A S \in (SUBSET Obs) \cup (SUBSET Rows) : S # NULL
                         /\ NULL \notin Drafts \cup Reports

(* The rows, events, reports and the memory of a worker keep their types;  *)
(* a row is always credited to an attempt within the budget.               *)
PipelineTypeOK ==
  /\ TypeOK
  /\ evidence \in [Inv -> SUBSET Rows]
  /\ captures \in [Inv -> Seq(CaptureEvent)]
  /\ report \in [Inv -> Reports \cup {NULL}]
  /\ work \in [Worker -> Memory]

(* A report cites only rows that are (still) there, was delivered by the   *)
(* last attempt, and discloses exactly the gaps of the evidence beside it; *)
(* confidence above LOW needs logs, rates and correlated traces.           *)
ReportSound ==
  \A i \in Inv : report[i] # NULL =>
    /\ report[i].cites \subseteq evidence[i]
    /\ report[i].attempt = job[i].attempts
    /\ report[i].gaps = GapsOf(Seen(evidence[i]))
    /\ report[i].level \in {"MEDIUM", "HIGH"}
       => report[i].gaps \cap CoreGaps = {} /\ evidence[i] # {}

(* A reader finds a report exactly when the status says there is one, so   *)
(* no failed, retried or taken-over attempt leaves a report behind.        *)
ReportIffFinished ==
  \A i \in Inv : report[i] # NULL <=> inv[i].status \in {"AWAITING_REVIEW", "COMPLETED"}

(* The rows were read back without a lock and the model was asked outside  *)
(* any transaction; still, when the owner of the lease completes, the rows *)
(* are the ones the model saw.                                             *)
DraftFromCurrentRows ==
  \A w \in Worker :
    Accepted(w) /\ Completing(w) => /\ work[w].views = evidence[locked[w]]
                                   /\ work[w].batch = Seen(evidence[locked[w]])

(* The capture complete_claim looks up is the one its own attempt saved:   *)
(* a claim is never turned away for the capture of another attempt.  (The  *)
(* look-up goes by created_at, so this needs clocks that agree.)           *)
LatestCaptureIsOwn ==
  \A w \in Worker :
    Accepted(w) /\ Completing(w) => /\ captures[locked[w]] # <<>>
                                   /\ Latest(locked[w]).attempt = held[w].attempt

(* The completion boundary of docs/phase-05-9-analysis.md: what it asks of  *)
(* the capture is an audit for this attempt that matches the current rows.  *)
(* (Checked for clocks that disagree, where the code asks for more.)        *)
CaptureSuffices ==
  \A w \in Worker :
    LET mine(c) == c.attempt = held[w].attempt /\ c.obs = Seen(evidence[locked[w]]) IN
    /\ Accepted(w) /\ Completing(w)
    /\ \E n \in DOMAIN captures[locked[w]] : mine(captures[locked[w]][n])
    => Latest(locked[w]).attempt = held[w].attempt

(* A retry or a takeover never loses evidence: rows are not replaced by    *)
(* nothing, not replaced at all once a report stands, and a capture that   *)
(* sees the same keeps the rows with their ids.                            *)
EvidenceKept ==
  [][\A i \in Inv :
       /\ evidence[i] # {} => evidence'[i] # {}
       /\ report[i] # NULL => evidence'[i] = evidence[i] /\ captures'[i] = captures[i]
       /\ Seen(evidence'[i]) = Seen(evidence[i]) => evidence'[i] = evidence[i]]_pipelineVars
=============================================================================
