---------------------------- MODULE MCEvaluation ----------------------------
(* Values for the constants of EvaluationReview.                           *)
EXTENDS EvaluationReview, TLC

CONSTANTS c0, c1, e1, e2, bogus, r1, r2, r3

(* A case without evidence, and one with two items of it.                  *)
TheCorpus == <<c0, c1>>
Ids == c0 :> {} @@ c1 :> {e1, e2}
GapsNamed == c0 :> {"NO_LOGS"} @@ c1 :> {"CHANGE_FEED_NOT_CONFIGURED"}

Supports(id) == [id |-> id, relation |-> "SUPPORTS"]
Link == {Supports(e1), Supports(bogus), [id |-> e2, relation |-> "CONTRADICTS"],
         [id |-> e2, relation |-> "MENTIONS"]}
Named == {"NO_TRACES", "CHANGE_FEED_NOT_CONFIGURED"}

Hyp(conf, links) == [text |-> "LINE", confidence |-> conf, links |-> links]
Answer(names, hyps) == [text |-> "LINE", names |-> names, hypotheses |-> hyps]
Low == Hyp("LOW", <<Supports(e1)>>)
Both == Hyp("LOW", <<Supports(e2), Supports(e1)>>)
Three == Hyp("LOW", <<Supports(e1), Supports(e2), Supports(bogus)>>)

(* Every hypothesis with up to two links; lists of hypotheses that break   *)
(* one bound or none; text, names and confidence nobody asked for.         *)
Single == {Answer(Named, <<Hyp(conf, links)>>) :
             conf \in Confidence \cup {"CERTAIN"}, links \in BoundedSeq(Link, 2)}
Lists == {Answer(Named, hyps) : hyps \in {<<>>, <<Three>>, <<Low, Low>>, <<Low, Both>>, <<Low, Low, Low>>}}
Odd == {Answer({}, <<Low>>),
        [Answer(Named, <<>>) EXCEPT !.text = "UNPRINTABLE"]}
       \cup {[Answer(Named, <<Low>>) EXCEPT !.text = form] : form \in {"LONG", "PADDED", "LINES"}}
       \cup {Answer(Named, <<[Low EXCEPT !.text = form]>>) : form \in {"EMPTY", "UNPRINTABLE"}}

AllReplies == {[kind |-> k, answer |-> NULL] : k \in {"HTTP_ERROR", "REFUSAL", "GARBAGE"}}
              \cup {[kind |-> "ANSWER", answer |-> a] : a \in Single \cup Lists \cup Odd}

(* Two labels that differ in one dimension, and a ruling that departs from *)
(* what both agree on.                                                     *)
Judged(support, calibration) ==
  [evidence_support |-> support, contradiction_handling |-> "NOT_APPLICABLE",
   causal_calibration |-> calibration]
GivenLabels == {Judged("SUPPORTED", "CALIBRATED"), Judged("SUPPORTED", "OVERSTATED")}
Rulings == {Judged("SUPPORTED", "OVERSTATED"), Judged("PARTIAL", "OVERSTATED")}

Interchangeable == Permutations({r1, r2, r3})
=============================================================================
