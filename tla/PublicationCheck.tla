-------------------------- MODULE PublicationCheck --------------------------
(***************************************************************************)
(* Judging a provider run: load_run and summarize (evaluation/             *)
(* summarize_run.py), the review items of a run (review_run.py,            *)
(* collect_items), and the preconditions of publication                    *)
(* (check_publishable.py), applied to a copy of the run directory that     *)
(* somebody made while the runner may still have been writing.             *)
(***************************************************************************)
EXTENDS EvaluationRun

Called == Cases \ NotCalled

-----------------------------------------------------------------------------
(* load_run.  The format of single records is right by construction of the *)
(* model, and so is the plan in run.json, as the corpus is one.            *)
ExpectedAttempts == (Called \X Repeat) \cup (NotCalled \X {1})

RecordsOf(d) == {d.runs[k] : k \in DOMAIN d.runs}
RowsOf(d, r) == {d.outputs[r][k] : k \in DOMAIN d.outputs[r]}
AttemptOf(rec) == <<rec.case, rec.repeat>>

(* Mutant: planned attempts without a record are not noticed.              *)
AttemptsKnown(d) ==
  /\ \A j, k \in DOMAIN d.runs : AttemptOf(d.runs[j]) = AttemptOf(d.runs[k]) => j = k
  /\ {AttemptOf(rec) : rec \in RecordsOf(d)} \subseteq ExpectedAttempts

AttemptsComplete(d) ==
  /\ \A j, k \in DOMAIN d.runs : AttemptOf(d.runs[j]) = AttemptOf(d.runs[k]) => j = k
  /\ {AttemptOf(rec) : rec \in RecordsOf(d)} = ExpectedAttempts
  /\ \A rec \in RecordsOf(d) : rec.outcome = "NOT_CALLED" <=> rec.case \in NotCalled

(* load_outputs: one row for every accepted id, and none for another.      *)
OutputsComplete(d) ==
  \A r \in Repeat :
    LET ok == {rec.case : rec \in {x \in RecordsOf(d) : x.repeat = r /\ x.outcome = "OK"}} IN
    /\ \A j, k \in DOMAIN d.outputs[r] : d.outputs[r][j].case = d.outputs[r][k].case => j = k
    /\ {row.case : row \in RowsOf(d, r)} = ok

OutputOf(d, rec) == CHOOSE row \in RowsOf(d, rec.repeat) : row.case = rec.case
OkRecords(d) == {rec \in RecordsOf(d) : rec.outcome = "OK"}

RecordsAgree(d) ==
  \A rec \in OkRecords(d) :
    LET row == OutputOf(d, rec) IN
    /\ rec.abstained = (row.links = <<>>)
    /\ rec.count = Len(row.links)
    /\ rec.cited = Total(row.links)

Readable(d) == d.runs # NULL /\ \A r \in Repeat : d.outputs[r] # NULL

Loads(d) == /\ d.json = "COMPLETE"
            /\ Readable(d)
            /\ AttemptsComplete(d) /\ OutputsComplete(d) /\ RecordsAgree(d)

-----------------------------------------------------------------------------
(* summarize, of a run that loads: the scorer looks at the outputs, the     *)
(* denominators at the records.                                            *)
OkRepeats(d, c) == {rec.repeat : rec \in {x \in OkRecords(d) : x.case = c}}
Abstained(d, c) == {r \in OkRepeats(d, c) : \E row \in RowsOf(d, r) : row.case = c /\ row.links = <<>>}

(* Mutant: a single answer agrees with itself.                             *)
DecisionOfOne(d, c) ==
  IF OkRepeats(d, c) = {} THEN "INSUFFICIENT_OK_ATTEMPTS"
  ELSE IF Abstained(d, c) \in {{}, OkRepeats(d, c)} THEN "CONSISTENT" ELSE "INCONSISTENT"

Decision(d, c) ==
  IF Cardinality(OkRepeats(d, c)) < 2 THEN "INSUFFICIENT_OK_ATTEMPTS"
  ELSE IF Abstained(d, c) \in {{}, OkRepeats(d, c)} THEN "CONSISTENT" ELSE "INCONSISTENT"

Summary(d) ==
  [planned  |-> Repeats * Cardinality(Called),
   failures |-> Cardinality({rec \in RecordsOf(d) : rec.outcome \notin {"OK", "NOT_CALLED"}}),
   accepted |-> Cardinality({rec \in OkRecords(d) : rec.accepted}),
   rejected |-> Cardinality({rec \in OkRecords(d) : ~rec.accepted}),
   scored   |-> Total([c \in Called |-> Cardinality(OkRepeats(d, c))]),
   decision |-> [c \in Called |-> Decision(d, c)]]

-----------------------------------------------------------------------------
(* Review items: the hypotheses of the accepted answers, numbered.         *)
(* Mutant: rejected answers are reviewed too.                              *)
ReviewedAll(d) == {rec \in OkRecords(d) : ~rec.abstained}

Reviewed(d) == {rec \in OkRecords(d) : ~rec.abstained /\ rec.accepted}

Items(d) == UNION {{<<rec.case, rec.repeat, h>> : h \in DOMAIN OutputOf(d, rec).links} :
                   rec \in Reviewed(d)}

(* collect_items gives up on a citation it does not know.                  *)
Collectable(d) == \A rec \in Reviewed(d) : OutputOf(d, rec).known

ItemsCounted(d) == Cardinality(Items(d)) = Total([rec \in Reviewed(d) |-> rec.count])

-----------------------------------------------------------------------------
(* check_run.  Circumstances are what the files of the model do not show:  *)
(* links or special files, files nobody expects, a working tree that was   *)
(* not clean, another name of the directory, another corpus, secrets.      *)
Circumstances == {"LINK", "STRAY", "DIRTY", "RENAMED", "CORPUS", "SECRET"}

LayoutOk(d, odd) == "STRAY" \notin odd /\ ~d.tmp /\ Readable(d)

(* check_status, check_clean_repository, check_run_id, check_corpus_hash.  *)
DeclaredOk(d, odd) == d.json = "COMPLETE" /\ odd \cap {"DIRTY", "RENAMED", "CORPUS"} = {}

NoSecret(odd) == "SECRET" \notin odd

Eligible(d, odd) ==
  /\ "LINK" \notin odd                            \* nothing is read otherwise
  /\ d.json # NULL                                \* the run can be read at all
  /\ LayoutOk(d, odd) /\ DeclaredOk(d, odd) /\ NoSecret(odd)
  /\ Loads(d)
  /\ Collectable(d) /\ ItemsCounted(d)

-----------------------------------------------------------------------------
(* Copying: the names are listed once, and each file is read when its turn *)
(* comes, in any order.                                                    *)
Names(d) == (IF d.json # NULL THEN {<<"json", 0>>} ELSE {})
            \cup (IF d.tmp THEN {<<"tmp", 0>>} ELSE {})
            \cup (IF d.runs # NULL THEN {<<"runs", 0>>} ELSE {})
            \cup {<<"outputs", r>> : r \in {q \in Repeat : d.outputs[q] # NULL}}

BeginCopy ==
  /\ dir.exists /\ ~copy.files.exists
  /\ copy' = [files |-> [NoFiles EXCEPT !.exists = TRUE], left |-> Names(dir)]
  /\ UNCHANGED <<runner, reply, dir, answered, published>>

CopyFile ==
  /\ \E name \in copy.left :
       copy' = [left  |-> copy.left \ {name},
                files |-> CASE name[1] = "json" -> [copy.files EXCEPT !.json = dir.json]
                            [] name[1] = "tmp"  -> [copy.files EXCEPT !.tmp = dir.tmp]
                            [] name[1] = "runs" -> [copy.files EXCEPT !.runs = dir.runs]
                            [] OTHER -> [copy.files EXCEPT !.outputs[name[2]] = dir.outputs[name[2]]]]
  /\ UNCHANGED <<runner, reply, dir, answered, published>>

(* A copy that is not fit to be published is thrown away.                  *)
Discard ==
  /\ copy.files.exists /\ copy.left = {} /\ ~published
  /\ copy' = [files |-> NoFiles, left |-> {}]
  /\ UNCHANGED <<runner, reply, dir, answered, published>>

Publish ==
  /\ copy.files.exists /\ copy.left = {} /\ ~published
  /\ \E odd \in SUBSET Circumstances : Eligible(copy.files, odd)
  /\ published' = TRUE
  /\ UNCHANGED <<runner, reply, dir, copy, answered>>

CheckNext == Run \/ BeginCopy \/ CopyFile \/ Discard \/ Publish
CheckSpec == RunInit /\ [][CheckNext]_runVars

-----------------------------------------------------------------------------
(* What is published is the whole truth about a finished run: for every    *)
(* attempt of the plan one record that says what the provider answered,    *)
(* and in the outputs of its repeat that answer and nothing else, however  *)
(* the copy was made and wherever a runner died.                           *)
Tells(d, a) ==
  LET mine == {rec \in RecordsOf(d) : AttemptOf(rec) = a}
      rows == {row \in RowsOf(d, a[2]) : row.case = a[1]}
  IN  IF a[1] \in NotCalled
      THEN mine = {Record(a, "NOT_CALLED", NoResult)} /\ rows = {}
      ELSE /\ answered[a] # NULL
           /\ {rec.outcome : rec \in mine} = {answered[a].outcome}
           /\ rows = IF answered[a].outcome = "OK" THEN {answered[a].row} ELSE {}
           /\ \A rec \in mine : rec.outcome = "OK" => rec.count = Len(answered[a].row.links)

PublishedIsTrue ==
  published => /\ copy.files.json = "COMPLETE" /\ ~copy.files.tmp
               /\ \A a \in ExpectedAttempts : Tells(copy.files, a)
               /\ Len(copy.files.runs) = Cardinality(ExpectedAttempts)

(* The three tools accept every run the runner has finished, whatever the  *)
(* provider answered: nobody ends up with a complete run that cannot be    *)
(* summarised, reviewed or published.                                      *)
FinishedIsEligible == dir.json = "COMPLETE" => Eligible(dir, {})

(* The summary of a finished run accounts for every planned call, and      *)
(* calls a case consistent exactly when the provider gave at least two     *)
(* usable answers for it that all abstain or all do not.                   *)
Usable(c) == {r \in Repeat : answered[<<c, r>>].outcome = "OK"}
Declines(c) == {r \in Usable(c) : answered[<<c, r>>].row.links = <<>>}

SummaryTrue ==
  dir.json = "COMPLETE" =>
    LET s == Summary(dir) IN
    /\ s.planned = s.failures + s.scored
    /\ s.scored = s.accepted + s.rejected
    /\ \A c \in Called : s.decision[c] = "CONSISTENT" <=>
         Cardinality(Usable(c)) >= 2 /\ (Declines(c) = {} \/ Declines(c) = Usable(c))

Answering == reply # NULL /\ reply.kind = "ANSWER"

(* Whichever gaps were recorded, an answer that keeps to the instructions  *)
(* the model is given passes the adapter, and the validator turns it away  *)
(* for one thing only, of which the instructions say too little: the form  *)
(* of its texts, which an answer without hypotheses has replaced.          *)
TextsFit(a) == Bounded(a.text) /\ \A h \in Hypotheses(a) : Bounded(h.text)

ObedientUnlessText ==
  Answering => \A c \in Called : LET a == reply.answer  ids == EvidenceOf[c] IN
    \A gaps \in SUBSET a.names :
      Obeys(a, ids, gaps) =>
        /\ Outcome(reply) = "OK"
        /\ Accepted(Parse(a, gaps), ids, gaps) <=> a.hypotheses = <<>> \/ TextsFit(a)

(* A draft the validator accepts can be stored: no constraint of a table   *)
(* is left to fail inside complete_claim.                                  *)
AcceptedIsStorable ==
  Answering => \A c \in Called : LET a == reply.answer  ids == EvidenceOf[c] IN
    \A gaps \in SUBSET a.names :
      Outcome(reply) = "OK" /\ Accepted(Parse(a, gaps), ids, gaps) => Storable(Parse(a, gaps), ids)
=============================================================================
