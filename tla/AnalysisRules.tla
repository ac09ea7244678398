--------------------------- MODULE AnalysisRules ---------------------------
(***************************************************************************)
(* The rules an answer of the language model passes on its way to a        *)
(* report: the adapter's reading of it (backend/model_adapter.py, analyze  *)
(* and _parse) and the validator's verdict (backend/analysis_pipeline.py,  *)
(* _validate).  Two independent statements of what an answer should be go  *)
(* with them: the instructions sent to the model, and the constraints of   *)
(* the tables a report is stored in (backend/models.py).                   *)
(*                                                                         *)
(* An answer keeps which gaps its uncertainty names, the form of its text, *)
(* and its hypotheses: confidence and citations, in order.                 *)
(***************************************************************************)
EXTENDS Naturals, Sequences, FiniteSets, FiniteSetsExt

CONSTANTS
  MaxHypotheses,  \* MAX_HYPOTHESES, 3 in the code
  MaxLinks,       \* MAX_LINKS, 12 in the code
  NULL

ASSUME RulesAssumption == MaxHypotheses \in Nat /\ MaxLinks \in Nat

Core == {"NO_LOGS", "NO_REQUEST_RATE", "NO_TRACES", "NO_LOG_TRACE_OVERLAP"}
KnownGaps == Core \cup {"CHANGE_FEED_NOT_CONFIGURED"}
Confidence == {"LOW", "MEDIUM", "HIGH"}
Relation == {"SUPPORTS", "CONTRADICTS"}

Cited(h) == {h.links[k].id : k \in DOMAIN h.links}
Related(h) == {h.links[k].relation : k \in DOMAIN h.links}
Hypotheses(d) == {d.hypotheses[k] : k \in DOMAIN d.hypotheses}

Total(f) == MapThenSumSet(LAMBDA x : f[x], DOMAIN f)
LinkCounts(d) == [k \in DOMAIN d.hypotheses |-> Len(d.hypotheses[k].links)]
Citations(d) == Total(LinkCounts(d))

-----------------------------------------------------------------------------
(* The adapter.                                                            *)

(* The fixed result for an investigation without a supported hypothesis.   *)
Inconclusive(gaps) == [text |-> "FIXED", names |-> gaps, hypotheses |-> <<>>]

(* _parse bounds the lists; it does not look at texts, names or relations, *)
(* and puts the recorded gaps into every hypothesis itself.                *)
WellFormed(a) == /\ Len(a.hypotheses) <= MaxHypotheses
                 /\ \A h \in Hypotheses(a) : Len(h.links) <= MaxLinks

Parse(a, gaps) == IF a.hypotheses = <<>> THEN Inconclusive(gaps) ELSE a

(* analyze: what the call raises, or OK with a draft.                      *)
Outcome(reply) ==
  CASE reply.kind = "HTTP_ERROR" -> "UNAVAILABLE"
    [] reply.kind = "REFUSAL"    -> "REFUSAL"
    [] reply.kind = "GARBAGE"    -> "OUTPUT_INVALID"
    [] OTHER -> IF WellFormed(reply.answer) THEN "OK" ELSE "OUTPUT_INVALID"

-----------------------------------------------------------------------------
(* The validator.                                                          *)
(* Mutant: any gap at all asks for LOW.                                    *)
ConfidenceFitsStrictly(h, gaps) == h.confidence \in Confidence /\ (gaps # {} => h.confidence = "LOW")

ConfidenceFits(h, gaps) == /\ h.confidence \in Confidence
                           /\ h.confidence = "HIGH" => gaps = {}
                           /\ h.confidence # "LOW" => gaps \cap Core = {}

(* Mutant: an item may be cited twice.                                     *)
LinksFitRepeated(h, ids) == /\ Len(h.links) \in 1..MaxLinks
                            /\ "SUPPORTS" \in Related(h) /\ Related(h) \subseteq Relation
                            /\ Cited(h) \subseteq ids

LinksFit(h, ids) == /\ Len(h.links) \in 1..MaxLinks
                    /\ Cardinality(Cited(h)) = Len(h.links)
                    /\ "SUPPORTS" \in Related(h)
                    /\ Related(h) \subseteq Relation
                    /\ Cited(h) \subseteq ids

TotalFits(d) == Citations(d) <= MaxLinks

(* _bounded_text: neither EMPTY nor PADDED with space, not LONG, and       *)
(* printable, which a text of several LINES is not.                        *)
Bounded(text) == text \in {"LINE", "FIXED"}

Accepted(d, ids, gaps) ==
  /\ Bounded(d.text)
  /\ Len(d.hypotheses) <= MaxHypotheses
  /\ \/ d = Inconclusive(gaps)
     \/ /\ d.hypotheses # <<>>
        /\ ids # {}
        /\ gaps \subseteq d.names
        /\ \A h \in Hypotheses(d) : /\ Bounded(h.text)
                                    /\ ConfidenceFits(h, gaps)
                                    /\ LinksFit(h, ids)
        /\ TotalFits(d)

-----------------------------------------------------------------------------
(* SYSTEM_INSTRUCTIONS, sentence by sentence.  Of a text they ask only     *)
(* that it is a single line.  Whether logs and traces without a common     *)
(* trace id make a core signal missing they leave open; it is read as the  *)
(* validator reads it.                                                     *)
Obeys(a, ids, gaps) ==
  /\ a.text # "LINES"
  /\ gaps \subseteq a.names
  /\ Len(a.hypotheses) <= MaxHypotheses
  /\ Citations(a) <= MaxLinks
  /\ \A h \in Hypotheses(a) :
       /\ h.text # "LINES"
       /\ h.confidence \in Confidence /\ Related(h) \subseteq Relation
       /\ Cited(h) \subseteq ids
       /\ \E k \in DOMAIN h.links : h.links[k].relation = "SUPPORTS"
       /\ \A j, k \in DOMAIN h.links : h.links[j].id = h.links[k].id => j = k
       /\ gaps # {} => h.confidence # "HIGH"
       /\ gaps \cap Core # {} => h.confidence = "LOW"

(* The rows complete_claim inserts for a draft meet the primary keys, the  *)
(* foreign keys and the check constraints.                                 *)
Storable(d, ids) ==
  \A h \in Hypotheses(d) :
    /\ h.confidence \in Confidence
    /\ \A k \in DOMAIN h.links : /\ h.links[k].id \in ids
                                 /\ h.links[k].relation \in Relation
    /\ \A j, k \in DOMAIN h.links : j # k => h.links[j].id # h.links[k].id
=============================================================================
