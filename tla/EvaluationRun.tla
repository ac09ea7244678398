--------------------------- MODULE EvaluationRun ---------------------------
(***************************************************************************)
(* The provider evaluation (evaluation/run_provider.py): a runner puts the *)
(* cases of the corpus to the model, some times each, and writes a         *)
(* directory of files; it may die between any two writes.  The directory   *)
(* is copied for publication, file by file and perhaps while the runner is *)
(* still at it, and the copy is judged by check_publishable.py with        *)
(* summarize_run.py and review_run.py.                                     *)
(*                                                                         *)
(* An output keeps the number of citations of each hypothesis and whether  *)
(* all of them are evidence of the case; a line is appended in one step.   *)
(***************************************************************************)
EXTENDS AnalysisRules, SequencesExt

CONSTANTS
  Corpus,      \* case ids in the order of the file
  EvidenceOf,  \* case -> ids of its evidence
  GapsOf,      \* case -> its gaps
  Repeats,     \* --repeats
  Replies      \* what the provider can answer

Cases == {Corpus[k] : k \in DOMAIN Corpus}
NotCalled == {c \in Cases : EvidenceOf[c] = {}}
Repeat == 1..Repeats

IsSeq(s) == s \in Seq({s[k] : k \in DOMAIN s})

ASSUME RunAssumption ==
  /\ Repeats \in Nat \ {0}
  /\ IsSeq(Corpus) /\ IsInjective(Corpus)
  /\ \A c \in Cases : GapsOf[c] \subseteq KnownGaps
  /\ \A r \in Replies :
       /\ r.kind \in {"HTTP_ERROR", "REFUSAL", "GARBAGE", "ANSWER"}
       /\ r.kind = "ANSWER" =>
            IsSeq(r.answer.hypotheses) /\ \A h \in Hypotheses(r.answer) : IsSeq(h.links)

(* A line of runs.jsonl, a line of an output file, what a reply amounts to *)
(* for a case, the status in run.json: NULL is none of these.              *)
Outcomes == {"NOT_CALLED", "UNAVAILABLE", "REFUSAL", "OUTPUT_INVALID", "OK"}
RunLine == [case: Cases, repeat: Repeat, outcome: Outcomes, abstained: BOOLEAN \cup {NULL},
            count: Nat \cup {NULL}, cited: Nat \cup {NULL}, accepted: BOOLEAN \cup {NULL}]
OutputLine == [case: Cases, links: Seq(Nat), known: BOOLEAN]
Meaning == [outcome: Outcomes, row: OutputLine \cup {NULL}]

JsonStatus == {"DECLARED", "COMPLETE"}

ASSUME NullAssumption == NULL \notin Seq(RunLine) \cup Seq(OutputLine) \cup Meaning \cup JsonStatus

VARIABLES
  runner,    \* step of the runner: its state and the attempts it has finished
  reply,     \* the answer the runner is working on, or NULL
  dir,       \* the run directory
  copy,      \* the directory being published, and the names still to copy
  answered,  \* history: attempt -> what the provider answered
  published  \* whether the copy has passed the check

runVars == <<runner, reply, dir, copy, answered, published>>

-----------------------------------------------------------------------------
(* The attempts of a run and their order; a case without evidence is       *)
(* recorded in the first repeat only.                                      *)
Attempts == {a \in Cases \X Repeat : a[1] \in NotCalled => a[2] = 1}

Position(c) == CHOOSE k \in DOMAIN Corpus : Corpus[k] = c
Before(a, b) == a[2] < b[2] \/ (a[2] = b[2] /\ Position(a[1]) < Position(b[1]))

(* A file is NULL before it is created.                                    *)
NoFiles == [exists |-> FALSE, json |-> NULL, tmp |-> FALSE, runs |-> NULL,
            outputs |-> [r \in Repeat |-> NULL]]

Row(c, d) == [case |-> c, links |-> LinkCounts(d),
              known |-> \A h \in Hypotheses(d) : Cited(h) \subseteq EvidenceOf[c]]

NoResult == [abstained |-> NULL, count |-> NULL, cited |-> NULL, accepted |-> NULL]

Record(a, outcome, result) ==
  [case |-> a[1], repeat |-> a[2], outcome |-> outcome, abstained |-> result.abstained,
   count |-> result.count, cited |-> result.cited, accepted |-> result.accepted]

ResultOf(c, d) == [abstained |-> d.hypotheses = <<>>, count |-> Len(d.hypotheses),
                   cited |-> Citations(d), accepted |-> Accepted(d, EvidenceOf[c], GapsOf[c])]

RunInit ==
  /\ runner = [pc |-> "IDLE", done |-> {}]
  /\ reply = NULL
  /\ dir = NoFiles
  /\ copy = [files |-> NoFiles, left |-> {}]
  /\ answered = [a \in Attempts |-> NULL]
  /\ published = FALSE

-----------------------------------------------------------------------------
(* The runner.                                                             *)
Goto(pc) == runner' = [runner EXCEPT !.pc = pc]
AttemptDone(a) == runner' = [pc |-> "NEXT", done |-> runner.done \cup {a}]

Left == Attempts \ runner.done
Due(a) == a \in Left /\ \A b \in Left : ~Before(b, a)
Pending(a) == runner.pc = "NEXT" /\ Due(a)

(* mkdir refuses a directory that is there, also when the command is given *)
(* again for a run that died.                                              *)
FreshDirectory == ~dir.exists

StartRun ==
  /\ runner.pc = "IDLE" /\ FreshDirectory
  /\ dir' = [dir EXCEPT !.exists = TRUE]
  /\ runner' = [pc |-> "DECLARE", done |-> {}]
  /\ UNCHANGED <<reply, copy, answered, published>>

(* _write_json: a temporary file takes the place of run.json.              *)
WriteTemporary ==
  /\ \/ runner.pc = "DECLARE" /\ Goto("DECLARING")
     \/ runner.pc = "NEXT" /\ Left = {} /\ Goto("COMPLETING")
  /\ dir' = [dir EXCEPT !.tmp = TRUE]
  /\ UNCHANGED <<reply, copy, answered, published>>

ReplaceJson ==
  /\ \/ /\ runner.pc = "DECLARING" /\ Goto("OPEN")
        /\ dir' = [dir EXCEPT !.json = "DECLARED", !.tmp = FALSE]
     \/ /\ runner.pc = "COMPLETING" /\ Goto("FINISHED")
        /\ dir' = [dir EXCEPT !.json = "COMPLETE", !.tmp = FALSE]
  /\ UNCHANGED <<reply, copy, answered, published>>

(* The output files are emptied one after the other, then runs.jsonl is    *)
(* opened for appending.                                                   *)
OpenFiles ==
  /\ runner.pc = "OPEN"
  /\ \/ \E r \in Repeat : /\ dir.outputs[r] = NULL
                          /\ \A q \in 1..(r - 1) : dir.outputs[q] # NULL
                          /\ dir' = [dir EXCEPT !.outputs[r] = <<>>]
                          /\ UNCHANGED runner
     \/ /\ \A r \in Repeat : dir.outputs[r] # NULL
        /\ dir' = [dir EXCEPT !.runs = IF @ = NULL THEN <<>> ELSE @]
        /\ Goto("NEXT")
  /\ UNCHANGED <<reply, copy, answered, published>>

Log(record) == dir' = [dir EXCEPT !.runs = Append(@, record)]

SkipCase(a) ==
  /\ Pending(a) /\ a[1] \in NotCalled
  /\ Log(Record(a, "NOT_CALLED", NoResult))
  /\ AttemptDone(a)
  /\ UNCHANGED <<reply, copy, answered, published>>

(* What a reply amounts to for a case.                                     *)
Meant(c, told) == IF Outcome(told) # "OK" THEN [outcome |-> Outcome(told), row |-> NULL]
                  ELSE [outcome |-> "OK", row |-> Row(c, Parse(told.answer, GapsOf[c]))]

AskProvider(a) ==
  /\ Pending(a) /\ a[1] \notin NotCalled
  /\ reply' \in Replies
  /\ answered' = [answered EXCEPT ![a] = Meant(a[1], reply')]
  /\ Goto("ANSWERED")
  /\ UNCHANGED <<dir, copy, published>>

Draft(a) == Parse(reply.answer, GapsOf[a[1]])

RecordFailure(a) ==
  /\ runner.pc = "ANSWERED" /\ Due(a) /\ Outcome(reply) # "OK"
  /\ Log(Record(a, Outcome(reply), NoResult))
  /\ reply' = NULL /\ AttemptDone(a)
  /\ UNCHANGED <<copy, answered, published>>

(* The output is appended and its file closed before the record is written. *)
AppendOutput(a) ==
  /\ runner.pc = "ANSWERED" /\ Due(a) /\ Outcome(reply) = "OK"
  /\ dir' = [dir EXCEPT !.outputs[a[2]] = Append(@, Row(a[1], Draft(a)))]
  /\ Goto("WRITTEN")
  /\ UNCHANGED <<reply, copy, answered, published>>

RecordOutput(a) ==
  /\ runner.pc = "WRITTEN" /\ Due(a)
  /\ Log(Record(a, "OK", ResultOf(a[1], Draft(a))))
  /\ reply' = NULL /\ AttemptDone(a)
  /\ UNCHANGED <<copy, answered, published>>

(* The process dies; its files stay as they are.                           *)
Interrupt ==
  /\ runner.pc \notin {"IDLE", "FINISHED"}
  /\ runner' = [pc |-> "IDLE", done |-> {}] /\ reply' = NULL
  /\ UNCHANGED <<dir, copy, answered, published>>

Run == \/ StartRun \/ WriteTemporary \/ ReplaceJson \/ OpenFiles \/ Interrupt
       \/ \E a \in Attempts : \/ SkipCase(a) \/ AskProvider(a) \/ RecordFailure(a)
                              \/ AppendOutput(a) \/ RecordOutput(a)
=============================================================================
