-------------------------- MODULE EvaluationReview --------------------------
(***************************************************************************)
(* Human review of a published run (evaluation/review_run.py): reviewers   *)
(* fill in templates, somebody adjudicates where they differ, and the      *)
(* files in reviews/ are summarised at any moment.  The files are edited   *)
(* by hand, in any order; label counts are withheld until the gate of      *)
(* docs/phase-07-2-review-rubric.md holds.                                 *)
(*                                                                         *)
(* The files are kept where they are judged; the private copies reviewers  *)
(* work in are not state, as only the finished file leaves them.           *)
(***************************************************************************)
EXTENDS PublicationCheck

CONSTANTS
  Reviewer,    \* reviewer ids, file names in reviews/
  Label,       \* labels a reviewer gives: a value for every dimension
  Ruling,      \* labels an adjudicator gives
  MaxItems     \* bound: runs with more items are not reviewed in the model

Dimension == {"evidence_support", "contradiction_handling", "causal_calibration"}

ASSUME ReviewAssumption == /\ MaxItems \in Nat
                           /\ IsFiniteSet(Reviewer) /\ IsFiniteSet(Label \cup Ruling)
                           /\ NULL \notin Label \cup Ruling \cup Reviewer
                           /\ \A l \in Label \cup Ruling : DOMAIN l = Dimension

VARIABLES
  reviews,       \* reviewer -> rows of the file: item -> label or NULL; or NULL
  adjudications  \* rows of adjudication.jsonl: item -> label

vars == <<runVars, reviews, adjudications>>

NoRow == [i \in {} |-> NULL]
With(rows, i, l) == [j \in (DOMAIN rows) \cup {i} |-> IF j = i THEN l ELSE rows[j]]
Without(rows, i) == Restrict(rows, DOMAIN rows \ {i})

Init == /\ RunInit
        /\ reviews = [r \in Reviewer |-> NULL]
        /\ adjudications = NoRow

-----------------------------------------------------------------------------
PublishedItems == IF published THEN Items(copy.files) ELSE {}
Reviewing == /\ published
             /\ PublishedItems # {} /\ Cardinality(PublishedItems) <= MaxItems
             /\ UNCHANGED runVars

(* write_template opens its file with mode "x".                            *)
NoFile(r) == reviews[r] = NULL

WriteTemplate(r) ==
  /\ Reviewing /\ NoFile(r)
  /\ reviews' = [reviews EXCEPT ![r] = [i \in PublishedItems |-> NULL]]
  /\ UNCHANGED adjudications

(* A reviewer labels an item, corrects a label, or removes a row.          *)
EditReview(r) ==
  /\ Reviewing /\ reviews[r] # NULL
  /\ \E i \in DOMAIN reviews[r] :
       \/ \E l \in Label : reviews' = [reviews EXCEPT ![r][i] = l]
       \/ reviews' = [reviews EXCEPT ![r] = Without(@, i)]
  /\ UNCHANGED adjudications

(* An adjudication is written, for whatever item.                          *)
Adjudicate ==
  /\ Reviewing
  /\ \E i \in PublishedItems, l \in Ruling : adjudications' = With(adjudications, i, l)
  /\ UNCHANGED reviews

Next == \/ CheckNext /\ UNCHANGED <<reviews, adjudications>>
        \/ \E r \in Reviewer : WriteTemplate(r) \/ EditReview(r)
        \/ Adjudicate

Spec == Init /\ [][Next]_vars

-----------------------------------------------------------------------------
(* summarize_reviews, of review files fs and adjudications as.             *)
Files(fs) == {r \in Reviewer : fs[r] # NULL}
Given(fs, i) == {r \in Files(fs) : i \in DOMAIN fs[r]}
Values(fs, i, dim) == {fs[r][i][dim] : r \in Given(fs, i)}

(* Mutant: one reviewer is enough.                                         *)
ComparedAlone(fs, i) == Given(fs, i) # {}

Compared(fs, i) == Cardinality(Given(fs, i)) >= 2
(* Mutant: reviewers disagree when no two of them agree.                   *)
AllDiffer(fs, i) == /\ Compared(fs, i)
                    /\ \A q, r \in Given(fs, i) : q # r => fs[q][i] # fs[r][i]

Disagreeing(fs, i) == /\ Compared(fs, i)
                      /\ \E dim \in Dimension : Cardinality(Values(fs, i, dim)) > 1

(* A null label is invalid, and so is an adjudication without a            *)
(* disagreement of reviewers.                                              *)
Filled(fs) == \A r \in Files(fs) : \A i \in DOMAIN fs[r] : fs[r][i] # NULL
Valid(fs, as) == Filled(fs) /\ \A i \in DOMAIN as : Disagreeing(fs, i)

Covered(fs, items) == \A i \in items : Compared(fs, i)
Resolved(fs, as, items) == \A i \in items : Disagreeing(fs, i) => i \in DOMAIN as

Status(fs, as, items) ==
  IF items = {} THEN "NOT_APPLICABLE"
  ELSE IF Covered(fs, items) /\ Resolved(fs, as, items) THEN "PUBLISHABLE"
  ELSE "NOT_PUBLISHABLE"

(* The label that is counted; agreed_labels holds none where reviewers     *)
(* differ, and looking it up would fail.                                   *)
FinalLabels(fs, as, i, dim) ==
  IF i \in DOMAIN as THEN {as[i][dim]}
  ELSE {v \in Values(fs, i, dim) : Values(fs, i, dim) = {v}}

Counts(fs, as, items) ==
  [dim \in Dimension |->
     LET counted(v) == {i \in items : v \in FinalLabels(fs, as, i, dim)}
         labels == {l[dim] : l \in Label \cup Ruling}
     IN  [v \in labels |-> Cardinality(counted(v))]]

(* check_reviews_directory.                                                *)
ReviewsPublishable == Valid(reviews, adjudications)

-----------------------------------------------------------------------------
(* When label counts are shown, they count every item of the published run *)
(* once in every dimension, and each counted label is one that at least    *)
(* two reviewers gave without a third giving another, or a ruling on an    *)
(* item they differ on.                                                    *)
CountsBacked ==
  LET items == PublishedItems
      counts == Counts(reviews, adjudications, items)
  IN  ReviewsPublishable /\ Status(reviews, adjudications, items) = "PUBLISHABLE" =>
        \A dim \in Dimension :
          /\ Total(counts[dim]) = Cardinality(items)
          /\ \A i \in items : \A v \in FinalLabels(reviews, adjudications, i, dim) :
               \/ /\ \A r \in Reviewer : reviews[r] # NULL /\ i \in DOMAIN reviews[r] => reviews[r][i][dim] = v
                  /\ \E q, r \in Reviewer : q # r /\ {q, r} \subseteq Given(reviews, i)
               \/ /\ i \in DOMAIN adjudications
                  /\ \E q, r \in Given(reviews, i) : reviews[q][i] # reviews[r][i]

(* One more reviewer never spoils the work of the others: a complete file  *)
(* added to a valid directory leaves it valid, and leaves the result       *)
(* publishable unless the newcomer differs on an item nobody has ruled on. *)
LateReviewHarmless ==
  LET items == PublishedItems IN
  Valid(reviews, adjudications) =>
    \A r \in {x \in Reviewer : NoFile(x)} : \A file \in [items -> Label] :
      LET more == [reviews EXCEPT ![r] = file] IN
      /\ Valid(more, adjudications)
      /\ Status(reviews, adjudications, items) = "PUBLISHABLE" =>
           \/ Status(more, adjudications, items) = "PUBLISHABLE"
           \/ \E i \in items \ DOMAIN adjudications : \E q \in Given(reviews, i) : reviews[q][i] # file[i]
=============================================================================
