# A TLA+ model of the incident investigator

The service takes incident reports, queues investigations, lets workers collect
telemetry and ask a language model for hypotheses, and has a human review the
result. What is hard about it is not the analysis but everything around it:
workers that die or come back late, requests and answers that get lost, and
several writers of the same rows. This directory holds a TLA+ model of that
behaviour, TLC configurations that check it on small instances, and TLAPS proofs
for every instance.

## Inventory

| component | state | operations | what is hard |
|---|---|---|---|
| Job queue, `backend/jobs.py` | `investigation_jobs`, `investigations`, `audit_events` | `claim_next_job`, `renew_lease`, `fail_claim` | concurrent claims, leases read against several clocks, take-over, attempt budget |
| Worker, `backend/worker.py` | a `JobClaim` in memory | `run_once`, polling | crash between any two commits, late return of a process taken for dead |
| Evidence capture, `backend/evidence_pipeline.py` | `evidence`, `EVIDENCE_CAPTURED` events | `collect_for_claim`, `save_evidence` | HTTP without a lock between two lease checks, replacement of rows by a retry |
| Analysis, `backend/analysis_pipeline.py`, `model_adapter.py` | `reports`, `hypotheses` | `complete_claim`, `analyze` | the draft was made from rows read earlier and without a lock |
| Investigation API, `backend/investigations.py` | `investigation_requests`, `reviews` | `create_investigation`, `put_review`, `get_review` | simultaneous and repeated requests |
| Incident API, `backend/incidents.py` | `incidents`, `idempotency_records` | `create_incident`, `update_incident` | uniqueness by a key constraint, without a lock |
| Investigation form, `IncidentInvestigations.tsx` | the submission intent | submit, success, error | which idempotency key goes with which values after errors and edits |
| Review panel, `ReviewPanel.tsx` | prepared decision, shown review | prepare, confirm, retry, load | lost answers, stale status, conflict look-up |
| Telemetry gateway, `telemetry_gateway.py` | none | three queries, merged and cut | late, reordered and repeated telemetry; limits |
| Demo system, `main.py`, `dependency_client.py`, `dependency_service/` | the dependency's mode; log lines and spans | `GET /inventory`, mode switch | a time-out against a late answer, the mode changing during a call |
| Evaluation runner, `run_provider.py` | the directory of a run | `run_evaluation` | interruption between any two writes |
| Judging a run, `summarize_run.py`, `score_abstention.py`, `check_publishable.py` | a copy of that directory | load, summarise, check | copies made while the runner writes |
| Blinded review, `review_run.py` | `reviews/`, `adjudication.jsonl` | template, label, adjudicate, summarise | files edited by hand in any order, late reviewers |
| Row locks of PostgreSQL | held locks of every transaction | all transactions above | no common order of locks |
| Library set-up of telemetry, incident form, other pages | none | | not modelled |

The components meet in the database: the API inserts an investigation, its job
and its first audit event in one transaction; workers find the job by polling;
nothing is sent between processes. What a browser knows it learned from an
answer that may be lost, or from a poll that may be old.

What makes each component correct: the queue hands an attempt to one process,
keeps leases, spends the budget exactly and settles every job; a worker changes
nothing with a claim it lost; a report cites evidence that is there, discloses
the gaps of it, and exists exactly when the status says so; the API creates one
investigation per request and one active one per incident, one incident per key
and one review per investigation; a page shows what is on record; no transactions
deadlock; telemetry that arrives late is captured or left out, never a reason to
fail; what an evaluation publishes is what the provider answered, and label
counts rest on two reviewers or a ruling.

## Modules

| module | models | instance | proofs |
|---|---|---|---|
| `InvestigationLifecycle` | abstract: the phase a reader of the API sees and the attempts spent | (in `JobQueue`) | |
| `JobQueue` | `jobs.py` in the order `worker.py` calls it; implements `InvestigationLifecycle` | `MCJobQueue` | `JobQueueProofs` |
| `WorkerPipeline` | `JobQueue` with evidence, captures, model answers and reports | `MCWorkerPipeline` | `WorkerPipelineProofs` |
| `SubmitInvestigation` | `create_investigation` and the investigation form over a lossy network | `MCSubmitInvestigation` | `SubmitInvestigationProofs` |
| `ReviewDecision` | `put_review`, `get_review` and the review panel over a lossy network | `MCReviewDecision` | `ReviewDecisionProofs` |
| `CreateIncident` | `create_incident` with concurrent handlers | `MCCreateIncident` | `CreateIncidentProofs` |
| `RowLocks` | the row locks of every transaction of API and workers | `MCRowLocks` | `RowLocksProofs` |
| `InventoryCall` | the demo system and the log lines and spans it leaves | (in `TelemetryCapture`) | `TelemetryProofs` |
| `TelemetryCapture` | gateway, `collect_evidence` and the checks of `save_evidence` on that telemetry | `MCTelemetryCapture` | `TelemetryProofs` |
| `AnalysisRules` | `_parse` and `_validate`, the model's instructions, the table constraints | (in `EvaluationRun`) | `EvaluationProofs` |
| `EvaluationRun` | the runner, write by write | (in `PublicationCheck`) | `EvaluationProofs` |
| `PublicationCheck` | copying a run, `load_run`, `summarize`, `check_publishable` | (in `EvaluationReview`) | `EvaluationProofs` |
| `EvaluationReview` | reviewers, adjudication, `summarize_reviews` | `MCEvaluation` | `EvaluationProofs` |

**JobQueue.** Every operation of the code is: read the clock (`_effective_now`),
open a transaction, lock the job row, decide, commit. These are separate steps:
`ReadClock`, `SelectCandidate` (`FOR UPDATE SKIP LOCKED`) or `LockHeld` (`FOR
UPDATE`, which waits), and one committing action per outcome. Between them other
processes move and time passes, so `at[w]` may be an old reading; `row[w]` is
the row as it was read, and the committing actions compute from it as the code
computes from the ORM object. `held[w].step` is the position in `run_once`.
`Exhaust` keeps the reading of the clock because the loop in `claim_next_job`
does. `Crash` rolls an open transaction back and forgets the claim. Each worker
has its own clock, `Skew[w]` ahead of the slowest, and the API has one too.
`Event` keeps of an audit event its action and its attempt number (for the two
events whose detail does not carry one, the attempt the row had).

**WorkerPipeline** extends `JobQueue`: each action either is a `JobQueue` action
with the writes to the new rows added, or leaves the queue alone. An evidence
row is an observation with the attempt that saved it: a replacement gives rows
new ids, and an attempt saves once, so that pair stands for the id. A capture's
digest stands for the set of observations. Telemetry returns any set of
observations from `Answers` or fails; the model answers nothing, or cites any
one row, all rows or an id that does not exist, at any confidence. The lookup of
the latest capture goes by the timestamp written from the process clock, as
`ORDER BY created_at DESC` does.

**SubmitInvestigation.** A browser keeps an intent (key and payload), reuses the
key for the same values and draws a new one for others. A call that failed may
still be carried out: its request stays in `net`, or in a handler, with nobody
listening (`from = NULL`). The button is disabled during a call and while the page's
list shows an active investigation (`ButtonEnabled`). That list may be old: it is
fetched again with an answer 202 or 409 (which may fail) and every few seconds while
it shows something active (`Poll`), and otherwise only when the user opens the page or
turns to another page of the list, which does not have the active one (`View`). A
handler locks the incident, reads the request row
and the active investigation, and answers; the row lock is held over both steps.
`Settle` stands for the worker, which does not take the incident's lock, so
"active" may be out of date by the commit, in the harmless direction only.

**ReviewDecision.** The panel's three faces are `Form`, `Confirmation` and
`LookUp`, chosen by the status the page last fetched, which may be old. A 409
starts the look-up of the existing review. `Script` is a reviewer who puts a
decision with another client, at any time, any number of times. The reviewer's
identity is a constant: one reviewer is configured per deployment.

**CreateIncident.** No lock: a handler looks the key up, flushes the incident,
and inserts the record with its commit. `InsertRecord` waits for a rival that
has inserted the same key and not finished, and collides with one that has
committed. Clients are left out: any request can arrive any number of times.

**RowLocks.** A transaction is the script of the locks its statements take, in
order: `FOR UPDATE`, `NO KEY UPDATE` for an `UPDATE`, and `KEY SHARE` on every row
a foreign key of an inserted row names (an audit event names its incident and its
investigation). It may end after any statement. The order is SQLAlchemy's, not that of
the Python lines: `models.py` declares no `relationship()`, so nothing orders the
mapped classes but their names, and a flush inserts the audit event before it
updates the investigation. A change of status therefore holds `KEY SHARE` on the
investigation and raises it to `NO KEY UPDATE`; `update_incident` does the same to the
incident. `complete_claim` flushes each hypothesis by itself, so that with several the
links of one go with the next (`complete_several`). `save_evidence` deletes rows
first, if it replaces them. There is no common order: a worker names the incident
before the investigation or after it, and `put_review` begins with the
investigation row, which a worker locks only after its job row.
Left out are locks on rows nobody else can see, requests already covered, and the
order in which PostgreSQL serves waiters.

**InventoryCall** and **TelemetryCapture**. `GET /inventory` calls the dependency
with a time-out of 2 s against a sleep of 3 s (the defaults), while an operator
switches the mode; every answer leaves lines and spans. The outcome of the call is
logged when it is known and the answer when the middleware has it, two steps that may
lie any time apart (`Conclude`, `Answer`). A capture is not a step
but a function of a state, a window and how much each backend had received, so
every property quantifies over all captures anybody could make in a state. The
quirks of the gateway are kept: Loki's window ends before `end`; log lines are
merged newest first before the cut but samples keep the oldest; spans are cut
before they are filtered by the window, so `NO_TRACES` can be recorded although
spans exist (`docs/phase-05-8-evidence.md` says that search limits can create
missing matches). A sample is the number of requests counted so far. A window may start between two
milliseconds (`fine`), because `IncidentCreate` (`schemas.py:15-23`) keeps
microseconds while Prometheus reads whole milliseconds; its first sample then lies
before the start, and `evidence_pipeline.py:112-113` fails the capture, on every
attempt. The form sends whole milliseconds, so only another client of the API can meet
this; `CaptureAccepted` names it (`EarlySample`) and says that nothing else but
contradicting records fails a capture. What the
gateway filters and sorts is written in closed form, so that it can be reasoned
about: the n-th wanted line is the one with n - 1 wanted lines before it (`Nth`), and
its rank in the merged answer is the number of lines that go `Ahead` of it. A
capture that raises is a record with `error`, one that does not has the records and gaps.

**AnalysisRules** holds three independent texts about one answer of the model: the
instructions it is given (`Obeys`), the adapter and validator (`Parse`, `Accepted`)
and the constraints of the tables (`Storable`). `WorkerPipeline` abstracts them to
`Valid`. Of a text the instructions only ask that it be a single line, while the
validator's `_bounded_text` also refuses what is too long, padded, empty or holds an
unprintable character; `ObedientUnlessText` says that such texts are the only way
for an obedient answer to be refused. `Obeys` reads `NO_LOG_TRACE_OVERLAP` as a missing core signal, as the code does.

**EvaluationRun**, **PublicationCheck** and **EvaluationReview** are three layers of
one state machine. The runner writes `run.json` through a temporary file, empties
the outputs, and per attempt appends an output and then a record; it may die
anywhere, and a second start refuses the directory. Its position in the two loops is
the set of attempts it has finished; the one that is `Due` comes next in the order of
repeats and cases. Anybody may copy the
directory, file by file, at any time (`BeginCopy`, `CopyFile`), and publish a copy
that passes `Eligible`. Reviewers and the adjudicator then edit files by hand in
any order. `answered` is a history variable: what the provider said.

## Runs

| run | instance | what it shows |
|---|---|---|
| `job_queue_safety` | 1 job, 2 workers, 3 attempts, lease 2, clocks 1 apart | types, `RowsAgree`, `OneClaimPerAttempt`, `TimesOrdered`, `AuditTrail`, `LeaseNeverCutShort`, `FencedOutcome`, and the queue implements the lifecycle |
| `job_queue_settles` | 1 job, 2 attempts, one steady worker and one that may hang | every queued investigation ends |
| `worker_pipeline` | 1 job, 2 workers, 2 attempts, 3 telemetry answers | `ReportSound`, `ReportIffFinished`, `DraftFromCurrentRows`, `LatestCaptureIsOwn`, `EvidenceKept` |
| `pipeline_skew` | the same with clocks 1 apart | a counterexample, see Findings |
| `submit_safety` | 2 browsers, 2 payloads, 2 handlers, 2 investigations, 2 keys each, 2 faults | `KeyMeansPayload`, `OneActive`, `EachRunRequested`, `AnswersFit` |
| `submit_retry` | 2 browsers, 1 payload, 2 faults, fairness | `RetryLearns` |
| `review_safety` | 2 pages, a script, 2 handlers, 2 decisions, 1 fault | `OneDecision`, `ShownIsRecord`, `ConflictTold` |
| `review_learned` | 1 page, a script, 2 handlers, fairness | `DecisionLearned` |
| `create_incident` | 3 handlers, 2 keys, 2 payloads, fairness | `OneIncidentPerKey`, `AnswersTrue`, `EveryCallEnds` |
| `row_locks` | 4 sessions, 2 investigations of one incident | `NoCircle` |
| `telemetry_capture` | 1 call, 2 other log lines, 3 records per signal | `AnswerTrue`, `CaptureAccepted`, `RetryStable`, `FailureLeavesEvidence` |
| `evaluation` | 2 cases, 2 repeats, every kind of answer, 3 reviewers | `PublishedIsTrue`, `FinishedIsEligible`, `SummaryTrue`, `ObedientUnlessText`, `AcceptedIsStorable`, `CountsBacked`, `LateReviewHarmless` |

### Bounds

- Time: `Tick` is possible while a lease or a retry is pending (and for
  `FreeTime` steps more). A later time with no deadline pending differs from an
  earlier one by a shift only, because every comparison in the code is between
  two times.
- `Lease = 2`, `RetryDelay = 1` instead of 300 s and 30 s: room for an operation
  inside the lease, at its end, and after it, for a reading of the clock that is
  older than the lease, and for clocks that disagree by less than the lease.
- Two workers: every conflict in the queue is between the holder and one other
  process. Three attempts are the real `MAX_ATTEMPTS`; two are enough where a
  run asks about one retry.
- `MaxKeys`, `MaxFaults`: keys a browser draws and failed calls or dead handlers.
  Two faults lose a request and the answer to its retry. A browser that has used
  up its keys stops, so these two runs do not check deadlock; nor do `evaluation`
  and `telemetry_capture`, which end when everything is published or answered.
- Two investigations per incident: one settled and one active; in `row_locks` the
  two whose transactions meet in the incident. Four sessions there are two workers
  and two requests; the proof covers any number.
- `MaxHypotheses`, `MaxLinks`: 2 and 2 instead of 3 and 12. Both bounds are met,
  exceeded by one, and exceeded only in total. The corpus has a case without evidence
  (recorded once, not called) and one with two items. `MaxItems`: runs with more than
  two review items are not reviewed in the model.
- A line of a `.jsonl` file is appended in one step: a torn last line does not parse,
  and the check refuses it as it refuses a missing one.
- `MaxPerSignal`: 3 instead of 25, so that one call with two other lines overflows it.
  `MaxNoise`: two other lines can share a time and contradict each other; none is
  written at the last instant, which exists only because `MaxTime` ends the model.
- `MaxAmiss = 1`: what can be amiss with one capture is that Loki, Prometheus or Jaeger
  lags, that the window has a `fine` start, or that the last line came twice, and TLC
  tries each by itself, because no record depends on more than one backend; the proofs
  are for any `MaxAmiss`, so for all at once. Prometheus and Jaeger have received
  everything or nothing, Loki is behind by at most `MaxLag = 1` line: to be further
  behind is to be asked in an earlier state of the log.
- `telemetry_capture` has a view that takes states for one that differ only in what no
  capture and no later step reads: the dependency's mode once no call will meet it
  (but for whether it changed during a call), the times at which a call or its
  handling began once that is over, a late reply, and the dependency's own log lines.
- Symmetry is used in the safety runs of browsers, pages, handlers, payloads,
  decisions, sessions, investigations (in `row_locks`) and reviewers, which the
  modules only compare; never in a run with liveness.
- Liveness of the queue is checked with one job. Jobs share only the workers, and
  each occupies a worker for finitely many attempts; the invariants are proved for
  any number of jobs.

### Fairness

- `JobQueue`: time passes; an open transaction ends (PostgreSQL ends it, or its
  connection breaks); no worker dies for ever in the claim transaction itself,
  or no attempt could ever start (strong fairness of `StartAttempt` and
  `Exhaust`). A *steady* worker polls every `--interval` seconds and comes to an
  end with its claim, by an outcome or by a crash and a restart: all its HTTP
  calls have time-outs (5 s telemetry, 60 s model). Every other worker may hang
  for ever between two transactions.
- `SubmitInvestigation` and `ReviewDecision`: what reaches the API is answered
  unless the handler dies, answers travel unless the call fails, failures are
  finitely many (`MaxFaults`), and the user keeps pressing the button (in
  `SubmitInvestigation` only while it is enabled, with unchanged values). Handlers
  contend for a row lock that PostgreSQL grants in order, hence strong fairness.
  Users are never obliged to go back, leave or reload. A list that shows something
  active is polled while the page is in the foreground, and every active investigation settles, which is what `Settles`
  of the queue says; so a disabled button is enabled again.
- `RowLocks` claims no liveness: PostgreSQL may grant `KEY SHARE` locks past a waiting
  `FOR UPDATE`, so a stream of audit events could in principle hold one up.
- `CreateIncident`: PostgreSQL serves waiters in order, hence strong fairness;
  handlers may die as often as they like.

### Findings

`pipeline_skew`: `docs/phase-05-9-analysis.md:18-20` says of `complete_claim` that
it "requires a capture audit for this attempt whose count and digest match the
current evidence rows". The code asks for more: the *newest* capture by
`created_at`, a timestamp of the writing process, must be of this attempt. The
counterexample: a worker whose clock is ahead reads its clock inside its lease,
its transaction commits the capture after the lease has expired by the other
worker's clock and that worker has begun the next attempt; the capture of the
new attempt, written by the slower clock, is older by timestamp, and the new
attempt's valid result is rolled back as `RESULT_INVALID`. It needs skewed
clocks and a capture transaction that outlives its lease; the damage is a lost
attempt, never a wrong report. With clocks that agree `LatestCaptureIsOwn`
holds (`CapturesAreOwn`).

## Proofs

Everything below holds for any sets of investigations, workers, sessions, browsers,
pages, handlers, keys and payloads, any positive budget and lease, any retry delay
and any skews (but for `CapturesAreOwn`), any number of faults, any corpus, number of
repeats and answers of a provider, any limits of a capture and of a draft. The only
assumptions are those the modules declare next to their constants (types, that
`NULL` is none of the other values, and that the client's time-out is shorter than
the sleep of latency mode, as the defaults are), which TLC evaluates in the runs.
Every invariant and action property of the passing runs is stated by a theorem.

- `JobQueueProofs`. `QueueInv` is `TypeOK`, `RowsAgree`, `SnapshotCurrent`,
  `OneClaimPerAttempt` and `ClaimShape`. None of the first four is inductive
  alone: that a commit keeps the rows in agreement needs the row that was read
  to be the row that is written (`SnapshotCurrent`); that a new attempt number
  is fresh needs every number in use to be at most the one in the row
  (`OneClaimPerAttempt`); and `ClaimShape` ties a process's position to what it
  holds, so that an idle process owns no attempt. From it follow
  `QueueInvariant`, `TypeCorrect`, `RowsAlwaysAgree`, `Isolation`, `Fencing`,
  the step simulation `Refinement` (every step is a lifecycle step or a stutter)
  and the action property `OutcomesFenced`.
  In the same module `TimeInv` adds that the rows' times are ordered, that a value
  of a clock on a row or in a process has been reached by that clock, and that a
  process in a transaction it may commit read its clock after the attempt
  started. It gives `TimesAreOrdered` and `LeasesKept`. `TrailIsHistory`: appending
  what each action appends keeps the trail a legal history, because `RowsAgree` tells
  which entry came last.
- `WorkerPipelineProofs`. `PipelineIsQueue`: every pipeline step is a `JobQueue`
  step or leaves it alone; hence `PipelineQueueSafe`. `PipelineInv` adds the types,
  `ReportIffFinished`, `ReportSound` and `MemoryFits`: what a worker remembers by how
  far it has come and, *if its claim is current* (its attempt is the one that runs),
  that its batch and the rows it showed the model are the rows in the table. This
  survives other workers because a current claim is the only one whose saving is
  accepted (`OwnEvidence`) and an attempt number never comes back (`CurrentBefore`).
  It gives `ReportsAreSound`, `ReportsMatchStatus`, `DraftsStayCurrent` and
  `EvidenceIsKept`. `CapturesAreOwn` assumes `ClocksAgree` on top: then `created_at`
  orders captures as they were committed (`CapturesOrdered`), the capture of a
  current claim stays the last one from its saving on (`LastIsOwn`), and that is the
  one `complete_claim` finds.
- `RowLocksProofs`. `NoDeadlock` without a global order of locks: of two transactions
  of workers on one investigation only one is past the job lock (`JobExclusive`).
  Whoever holds something and waits is either a worker inside its job, which only a
  review of the same investigation can hold up, or somebody who names or changes the
  incident, whom only `create_investigation` or an `update_incident` that has all its
  locks can hold up. An upgrade waits for nobody who holds `KEY SHARE`. So every wait
  leads to somebody who waits for nobody.
- `CreateIncidentProofs`. `CreateInv` adds to the two claims where a handler may be
  (`CallShape`: who has inserted a key is alone with it, who came second finds a
  record) and that an id not in the table was never used (`Unused`).
- `ReviewDecisionProofs`. `ReviewInv` adds `Shape`: at most one handler is in the
  investigation row, and what it read of the status and of an existing review is
  still so. For `ConflictsTrue` that is not enough, because a page learns of a
  conflict from an answer on its way. `ConflictInv` (`CallsFit`) follows a page's calls
  through the net, the handlers and the answers: a page has at most one put out, it is
  of the decision prepared, and a conflict answers it only if another decision is on
  record. Whatever gives the prepared decision up stops listening to the put first,
  which keeps an old conflict from meeting a new decision.
- `SubmitInvestigationProofs`. `SubmitInv` adds `Rows` (one handler past the lock of
  the incident; a reading of "no active investigation" stays true, because only this
  lock admits a new one), `Calls` (a browser has at most one call somebody listens
  for, and it is what the intent says), `Keys` (wherever a key turns up, in the net, a
  handler, a table or a page, it was drawn by a browser and comes with the payload it
  was drawn for: `KeysKeepPayload`) and `NoRunLost`. Then no replay can mismatch and
  nothing is created twice. The types are a lemma of it only.
- `EvaluationProofs`. `RunInv`: every line of the directory, and of a copy made while
  the runner writes, is true of an attempt, and the directory has it once; the attempts
  on record are those the runner has finished, and an output is ahead of its record only
  while the runner is between the two writes; a copy holds no more than the directory
  does, and says COMPLETE only after it does. Files may be copied in any order because
  a copy that the check accepts holds every planned attempt. `PublishedTrue`,
  `FinishedEligible` and `SummaryIsTrue` follow. The sums of the summary are about data, where induction would
  be the usual tool; instead a sum is the number of the pairs it counts
  (`Units`), and a bijection compares two such sets. `ObedienceSuffices` and
  `AcceptedCanBeStored` compare three texts about one answer for any bounds, evidence and
  gaps. `CountsAreBacked` and `LateReviewsWelcome` are about files edited by hand, so
  they need of the reviews only their types: any state of these files must do.
- `TelemetryProofs`. `TelemetryInv` says in what time a call is answered and in which
  mode (`InTime`), which lines it has left so far (`LinesFit`) and that each service
  has ended at most one span for it, when it had replied (`SpansFit`). `AnswersAreTrue`
  needs all of a call's time: a mode switched meanwhile cannot be told, because a
  latency reply comes after the time-out. The other three are about what a capture
  makes of such telemetry. `Ranked` is the lemma they share: the ranks of n elements of
  a strict order are 0 to n - 1, so the closed forms are sequences with the elements
  they should have (`KeptFacts`, `NewestFacts`, `CutFacts`). `CapturesAreAccepted`: the
  demo system writes no two lines or spans that contradict each other
  (`ConflictsContradict`), and a record lies outside the window exactly if
  there is an early sample (`OutsideIsEarly`), so a capture fails only for lines of
  others that do contradict or for a start finer than a millisecond.
  `RetriesAreStable`: without a conflict the evidence is the *set* of the records, in
  whatever order and however often they came (`UniqueFacts`).
  `FailuresLeaveEvidence`: the outcome of a failed call is logged no later than its
  answer (`Story`), and each of the two lines survives merge and cut by itself, under
  the id of the trace (`RowKept`); the outcome alone is lost only if the window starts
  between the two or the limit cuts there.

Only model-checked are the liveness properties, which are out of the prover's reach:
`Settles`, `RetryLearns`, `DecisionLearned` and `EveryCallEnds`.

## Not modelled

- Of `update_incident` only the locks: no code closes an incident or computes from an
  edited field, so an interleaving of edits has no rule to break.
- The incident form: the intent mechanism of the investigation form again, against a
  handler that `CreateIncident` exposes to any request at any time.
- Decoding: HTTP bodies of Loki, Prometheus, Jaeger, the model and the dependency
  (an answer that does not decode is a failed query); `get_trace`, which nothing
  calls; request validation; SQL as such. A dependency that answers 200 without JSON
  and a sample of negative zero, which a later format check would refuse, are left
  out with the decoding.
- Formats of the records of an evaluation, secret patterns and special files: one
  circumstance each in `check_publishable`.
- Reading endpoints, lists but for what the investigation form sees of its own,
  paging, layout, logging of the services' own operation,
  metrics, navigation inside the single-page application (which keeps the query
  cache that a reload drops).

PostgreSQL is taken at its documented READ COMMITTED behaviour: row locks, `SKIP
LOCKED`, unique keys. The unique constraints on `reviews`, `reports` and
`investigation_requests` are left out: the row locks alone keep those tables unique,
which is what the runs and proofs show.

## Plan

Done, in the order of importance: the queue and its refinement; the pipeline on top
of it; submission, review, incident creation; the locks of all transactions; the
evaluation from run to review; the telemetry an investigation captures; and the
proofs of all of them.

Left, in the order of what it would add:

1. `AnalysisRules` and `WorkerPipeline` joined: `Valid` shown to be the abstraction of
   `Accepted` on the drafts the adapter makes.
2. The incident form over a lossy network against `CreateIncident`.
