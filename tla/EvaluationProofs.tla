-------------------------- MODULE EvaluationProofs --------------------------
(* The provider evaluation, for any corpus, answers, reviewers and labels: *)
(* what is published is true, and a run that is finished can be.           *)
EXTENDS EvaluationReview, FiniteSetTheorems, TLAPS

(***************************************************************************)
(* Sums.  Total is a fold over a finite set; it is shown to count pairs,   *)
(* so that facts about sums become facts about bijections.  Where a proof  *)
(* would be by induction, it looks at a least counterexample.              *)
(***************************************************************************)
LEMMA SmallestCounterexample ==
  ASSUME NEW T \in SUBSET Nat, T # {}
  PROVE  \E n \in T : \A m \in T : n <= m
<1> DEFINE R == OpToRel(<, Nat)
<1>1. R = {ss \in Nat \X Nat : ss[1] < ss[2]}
  BY DEF OpToRel
<1>2. PICK x \in T : \A y \in T : ~(<<y, x>> \in R)
  <2>1. IsWellFoundedOn(R, Nat)
    BY NatLessThanWellFounded
  <2> HIDE DEF R
  <2> QED BY <2>1, WFMin
<1>3. \A y \in T : <<y, x>> \in Nat \X Nat
  OBVIOUS
<1>4. \A y \in T : ~(y < x)
  BY <1>1, <1>2, <1>3
<1> QED BY <1>4

(* One pair for every unit of f on S.                                      *)
Units(f, S) == {p \in S \X Nat : p[2] \in 1..f[p[1]]}

LEMMA UnitsOfOne ==
  ASSUME NEW D, NEW f \in [D -> Nat], NEW x \in D
  PROVE  IsFiniteSet(Units(f, {x})) /\ Cardinality(Units(f, {x})) = f[x]
<1> DEFINE b == [n \in 1..f[x] |-> <<x, n>>]
<1>1. b \in Bijection(1..f[x], Units(f, {x}))
  <2>1. b \in [1..f[x] -> Units(f, {x})]
    BY DEF Units
  <2>2. \A m, n \in 1..f[x] : b[m] = b[n] => m = n
    OBVIOUS
  <2>3. \A p \in Units(f, {x}) : \E n \in 1..f[x] : b[n] = p
    BY DEF Units
  <2> HIDE DEF b
  <2> QED BY <2>1, <2>2, <2>3 DEF Bijection, Injection, Surjection, IsInjective
<1>2. f[x] \in Nat /\ IsFiniteSet(1..f[x]) /\ Cardinality(1..f[x]) = f[x]
  BY FS_Interval
<1> QED BY <1>1, <1>2, FS_Bijection DEF ExistsBijection

LEMMA UnitsFinite ==
  ASSUME NEW D, NEW f \in [D -> Nat], NEW S \in SUBSET D, IsFiniteSet(S)
  PROVE  IsFiniteSet(Units(f, S))
<1> DEFINE U == {Units(f, {x}) : x \in S}
           u == [x \in S |-> Units(f, {x})]
<1>1. u \in Surjection(S, U)
  BY DEF Surjection
<1>2. IsFiniteSet(U)
  BY <1>1, FS_Surjection
<1>3. IsFiniteSet(UNION U)
  <2>1. \A T \in U : IsFiniteSet(T)
    BY UnitsOfOne
  <2> HIDE DEF U
  <2> QED BY <1>2, <2>1, FS_UNION
<1>4. Units(f, S) = UNION U
  BY DEF Units
<1> QED BY <1>3, <1>4

LEMMA UnitsStep ==
  ASSUME NEW D, NEW f \in [D -> Nat], NEW S \in SUBSET D, IsFiniteSet(S), NEW x \in S
  PROVE  Cardinality(Units(f, S)) = f[x] + Cardinality(Units(f, S \ {x}))
<1> DEFINE A == Units(f, {x})
           B == Units(f, S \ {x})
<1>1. IsFiniteSet(A) /\ Cardinality(A) = f[x]
  BY UnitsOfOne
<1>2. IsFiniteSet(S \ {x}) /\ S \ {x} \in SUBSET D
  BY FS_RemoveElement
<1>3. IsFiniteSet(B)
  BY <1>2, UnitsFinite
<1>4. A \cap B = {} /\ Units(f, S) = A \cup B
  BY DEF Units
<1> HIDE DEF A, B
<1>5. Cardinality(A \cup B) = Cardinality(A) + Cardinality(B) - Cardinality({})
  BY <1>1, <1>3, <1>4, FS_Union
<1>6. Cardinality({}) = 0 /\ Cardinality(B) \in Nat /\ f[x] \in Nat
  BY <1>3, FS_EmptySet, FS_CardinalityType
<1>7. Cardinality(Units(f, S)) = f[x] + Cardinality(B)
  BY <1>1, <1>4, <1>5, <1>6
<1> QED BY <1>7 DEF B

Sums(f, it) == [s \in SUBSET DOMAIN f |->
                  IF s = {} THEN 0 ELSE LET x == CHOOSE x \in s : TRUE IN f[x] + it[s \ {x}]]

LEMMA TotalDef ==
  ASSUME NEW f
  PROVE  Total(f) = (CHOOSE it : it = Sums(f, it))[DOMAIN f]
  BY DEF Total, MapThenSumSet, MapThenFoldSet, Sums

LEMMA SumsStep ==
  ASSUME NEW f, NEW it, it = Sums(f, it)
  PROVE  /\ it[{}] = 0
         /\ \A s \in SUBSET DOMAIN f : s # {} => \E x \in s : it[s] = f[x] + it[s \ {x}]
<1>1. {} \in SUBSET DOMAIN f
  OBVIOUS
<1>2. it[{}] = 0
  BY <1>1 DEF Sums
<1>3. ASSUME NEW s \in SUBSET DOMAIN f, s # {}
      PROVE  \E x \in s : it[s] = f[x] + it[s \ {x}]
  <2> DEFINE x == CHOOSE x \in s : TRUE
  <2>1. x \in s
    BY <1>3
  <2>2. it[s] = f[x] + it[s \ {x}]
    BY <1>3 DEF Sums
  <2> QED BY <2>1, <2>2
<1> QED BY <1>2, <1>3

(* The fold is well defined and counts the units.                          *)
LEMMA TotalIsUnits ==
  ASSUME NEW D, IsFiniteSet(D), NEW f \in [D -> Nat]
  PROVE  Total(f) = Cardinality(Units(f, D)) /\ IsFiniteSet(Units(f, D))
<1> DEFINE w == [s \in SUBSET D |-> Cardinality(Units(f, s))]
           it == CHOOSE it : it = Sums(f, it)
<1>1. DOMAIN f = D
  OBVIOUS
<1>2. \A s \in SUBSET D : IsFiniteSet(s)
  BY FS_Subset
<1>3. w = Sums(f, w)
  <2> SUFFICES ASSUME NEW s \in SUBSET D
               PROVE  w[s] = IF s = {} THEN 0
                             ELSE LET x == CHOOSE x \in s : TRUE IN f[x] + w[s \ {x}]
    BY <1>1 DEF Sums
  <2>1. CASE s = {}
    <3>1. Units(f, {}) = {}
      BY DEF Units
    <3> QED BY <2>1, <3>1, FS_EmptySet
  <2>2. CASE s # {}
    <3> DEFINE x == CHOOSE x \in s : TRUE
    <3>1. x \in s
      BY <2>2
    <3>2. s \ {x} \in SUBSET D
      OBVIOUS
    <3> HIDE DEF x
    <3>3. w[s] = f[x] + w[s \ {x}]
      BY <1>2, <3>1, <3>2, UnitsStep
    <3> QED BY <2>2, <3>3 DEF x
  <2> QED BY <2>1, <2>2
<1>4. it = Sums(f, it)
  BY <1>3
<1> HIDE DEF it, w
<1>5. it[D] = w[D]
  <2> DEFINE Bad == {s \in SUBSET D : it[s] # w[s]}
             Sizes == {Cardinality(s) : s \in Bad}
  <2> SUFFICES ASSUME Bad # {} PROVE FALSE
    OBVIOUS
  <2>1. Sizes \in SUBSET Nat /\ Sizes # {}
    BY <1>2, FS_CardinalityType
  <2>2. PICK n \in Sizes : \A m \in Sizes : n <= m
    BY <2>1, SmallestCounterexample
  <2>3. PICK s \in Bad : n = Cardinality(s)
    OBVIOUS
  <2>4. s # {}
    BY <1>3, <1>4, SumsStep
  <2>5. PICK x \in s : it[s] = f[x] + it[s \ {x}]
    BY <1>1, <1>4, <2>4, SumsStep
  <2>6. IsFiniteSet(s) /\ Cardinality(s) \in Nat /\ Cardinality(s \ {x}) = Cardinality(s) - 1
    BY <1>2, FS_CardinalityType, FS_RemoveElement
  <2>7. s \ {x} \notin Bad
    <3> SUFFICES ASSUME s \ {x} \in Bad PROVE FALSE
      OBVIOUS
    <3>1. Cardinality(s \ {x}) \in Sizes
      OBVIOUS
    <3> HIDE DEF Sizes, Bad
    <3>2. n <= Cardinality(s \ {x})
      BY <2>2, <3>1
    <3> QED BY <2>3, <2>6, <3>2
  <2>8. it[s \ {x}] = w[s \ {x}]
    BY <2>7
  <2>9. w[s] = f[x] + w[s \ {x}]
    BY <2>6, UnitsStep DEF w
  <2> QED BY <2>5, <2>8, <2>9
<1>6. Total(f) = it[D] /\ w[D] = Cardinality(Units(f, D))
  BY <1>1, TotalDef DEF it, w
<1> QED BY <1>2, <1>5, <1>6, UnitsFinite

(* A sum is a number, and no less than any of its terms.                   *)
LEMMA TotalBounds ==
  ASSUME NEW D, IsFiniteSet(D), NEW f \in [D -> Nat]
  PROVE  Total(f) \in Nat /\ \A x \in D : f[x] <= Total(f)
<1>1. Total(f) = Cardinality(Units(f, D)) /\ IsFiniteSet(Units(f, D))
  BY TotalIsUnits
<1>2. Total(f) \in Nat
  BY <1>1, FS_CardinalityType
<1>3. ASSUME NEW x \in D PROVE f[x] <= Total(f)
  <2>1. Units(f, {x}) \in SUBSET Units(f, D)
    BY DEF Units
  <2> QED BY <1>1, <2>1, UnitsOfOne, FS_Subset
<1> QED BY <1>2, <1>3
-----------------------------------------------------------------------------
(* Answers.                                                                *)
LEMMA LinkFacts ==
  ASSUME NEW h, IsSeq(h.links)
  PROVE  /\ Len(h.links) \in Nat /\ DOMAIN h.links = 1..Len(h.links)
         /\ IsFiniteSet(Cited(h)) /\ Cardinality(Cited(h)) \in Nat
         /\ Cardinality(Cited(h)) = Len(h.links)
            <=> \A j, k \in DOMAIN h.links : h.links[j].id = h.links[k].id => j = k
<1> DEFINE D == DOMAIN h.links
           id == [k \in D |-> h.links[k].id]
<1>1. Len(h.links) \in Nat /\ D = 1..Len(h.links)
  BY DEF IsSeq
<1>2. IsFiniteSet(D) /\ Cardinality(D) = Len(h.links)
  BY <1>1, FS_Interval
<1>3. id \in Surjection(D, Cited(h))
  BY DEF Surjection, Cited
<1>4. /\ IsFiniteSet(Cited(h))
      /\ Cardinality(Cited(h)) = Cardinality(D) <=> id \in Injection(D, Cited(h))
  BY <1>2, <1>3, FS_Surjection
<1>5. id \in Injection(D, Cited(h)) <=> \A j, k \in D : h.links[j].id = h.links[k].id => j = k
  BY DEF Injection, IsInjective, Cited
<1>6. Cardinality(Cited(h)) \in Nat
  BY <1>4, FS_CardinalityType
<1> QED BY <1>1, <1>2, <1>4, <1>5, <1>6

IsAnswer(d) == IsSeq(d.hypotheses) /\ \A h \in Hypotheses(d) : IsSeq(h.links)

LEMMA AnswerFacts ==
  ASSUME NEW d, IsAnswer(d)
  PROVE  /\ Len(d.hypotheses) \in Nat /\ DOMAIN d.hypotheses = 1..Len(d.hypotheses)
         /\ IsFiniteSet(DOMAIN d.hypotheses)
         /\ LinkCounts(d) \in [DOMAIN d.hypotheses -> Nat]
         /\ Citations(d) \in Nat
         /\ \A h \in Hypotheses(d) : Len(h.links) <= Citations(d)
<1>1. Len(d.hypotheses) \in Nat /\ DOMAIN d.hypotheses = 1..Len(d.hypotheses)
  BY DEF IsAnswer, IsSeq
<1>2. IsFiniteSet(DOMAIN d.hypotheses)
  BY <1>1, FS_Interval
<1>3. LinkCounts(d) \in [DOMAIN d.hypotheses -> Nat]
  BY LinkFacts DEF LinkCounts, IsAnswer, Hypotheses
<1>4. /\ Citations(d) \in Nat
      /\ \A k \in DOMAIN d.hypotheses : LinkCounts(d)[k] <= Citations(d)
  BY <1>2, <1>3, TotalBounds DEF Citations
<1>5. \A h \in Hypotheses(d) : Len(h.links) <= Citations(d)
  BY <1>4 DEF Hypotheses, LinkCounts
<1> QED BY <1>1, <1>2, <1>3, <1>4, <1>5

LEMMA FixedIsAnswer ==
  ASSUME NEW gaps
  PROVE  /\ IsAnswer(Inconclusive(gaps)) /\ Hypotheses(Inconclusive(gaps)) = {}
         /\ Len(Inconclusive(gaps).hypotheses) = 0 /\ Bounded(Inconclusive(gaps).text)
  BY DEF IsAnswer, IsSeq, Inconclusive, Hypotheses, Bounded

LEMMA ParseIsAnswer ==
  ASSUME NEW d, IsAnswer(d), NEW gaps
  PROVE  IsAnswer(Parse(d, gaps))
  BY FixedIsAnswer DEF Parse

LEMMA RepliesAnswer ==
  ASSUME NEW r \in Replies
  PROVE  /\ r.kind = "ANSWER" => IsAnswer(r.answer)
         /\ Outcome(r) \in Outcomes \ {"NOT_CALLED"}
         /\ Outcome(r) = "OK" => r.kind = "ANSWER"
  BY RunAssumption DEF IsAnswer, Outcome, Outcomes

(* SYSTEM_INSTRUCTIONS against analyze, _validate and _bounded_text.       *)
LEMMA ObedientFits ==
  ASSUME NEW a, IsAnswer(a), NEW ids, ids # {}, NEW gaps \in SUBSET a.names, Obeys(a, ids, gaps)
  PROVE  /\ WellFormed(a)
         /\ Accepted(Parse(a, gaps), ids, gaps) <=> a.hypotheses = <<>> \/ TextsFit(a)
<1>1. \A h \in Hypotheses(a) : IsSeq(h.links) /\ Len(h.links) <= Citations(a) /\ Len(h.links) \in Nat
  BY AnswerFacts, LinkFacts DEF IsAnswer
<1>2. Citations(a) \in Nat /\ Citations(a) <= MaxLinks
  BY AnswerFacts DEF Obeys
<1>3. \A h \in Hypotheses(a) : Len(h.links) <= MaxLinks
  BY <1>1, <1>2, RulesAssumption
<1>4. WellFormed(a)
  BY <1>3 DEF WellFormed, Obeys
<1>5. CASE a.hypotheses = <<>>
  <2>1. Parse(a, gaps) = Inconclusive(gaps)
    BY <1>5 DEF Parse
  <2>2. Len(Inconclusive(gaps).hypotheses) <= MaxHypotheses /\ Bounded(Inconclusive(gaps).text)
    BY FixedIsAnswer, RulesAssumption
  <2> QED BY <1>4, <1>5, <2>1, <2>2 DEF Accepted
<1>6. CASE a.hypotheses # <<>>
  <2>1. ASSUME NEW h \in Hypotheses(a) PROVE ConfidenceFits(h, gaps) /\ LinksFit(h, ids)
    <3>1. ConfidenceFits(h, gaps)
      BY DEF Obeys, ConfidenceFits
    <3>2. "SUPPORTS" \in Related(h) /\ DOMAIN h.links # {}
      BY DEF Obeys, Related
    <3>3. Len(h.links) \in 1..MaxLinks
      BY <1>1, <1>3, <3>2, LinkFacts, RulesAssumption
    <3>4. Cardinality(Cited(h)) = Len(h.links)
      BY <1>1, LinkFacts DEF Obeys
    <3> QED BY <3>1, <3>2, <3>3, <3>4 DEF LinksFit, Obeys
  <2>2. a # Inconclusive(gaps)
    BY <1>6 DEF Inconclusive
  <2>3. Parse(a, gaps) = a
    BY <1>6 DEF Parse
  <2>4. Len(a.hypotheses) <= MaxHypotheses /\ TotalFits(a) /\ gaps \subseteq a.names
    BY DEF Obeys, TotalFits
  <2> QED BY <1>4, <1>6, <2>1, <2>2, <2>3, <2>4 DEF Accepted, TextsFit
<1> QED BY <1>5, <1>6

(* _validate against the constraints of models.py.                         *)
LEMMA AcceptedFits ==
  ASSUME NEW d, IsAnswer(d), NEW ids, NEW gaps, Accepted(d, ids, gaps)
  PROVE  Storable(d, ids)
<1>1. CASE d = Inconclusive(gaps)
  BY <1>1, FixedIsAnswer DEF Storable
<1>2. ASSUME \A h \in Hypotheses(d) : ConfidenceFits(h, gaps) /\ LinksFit(h, ids) PROVE Storable(d, ids)
  <2> SUFFICES ASSUME NEW h \in Hypotheses(d)
               PROVE /\ h.confidence \in Confidence
                     /\ \A k \in DOMAIN h.links : h.links[k].id \in ids /\ h.links[k].relation \in Relation
                     /\ \A j, k \in DOMAIN h.links : j # k => h.links[j].id # h.links[k].id
    BY DEF Storable
  <2>1. h.confidence \in Confidence /\ Related(h) \subseteq Relation /\ Cited(h) \subseteq ids
    BY <1>2 DEF ConfidenceFits, LinksFit
  <2>2. \A j, k \in DOMAIN h.links : h.links[j].id = h.links[k].id => j = k
    BY <1>2, LinkFacts DEF LinksFit, IsAnswer
  <2> QED BY <2>1, <2>2 DEF Related, Cited
<1> QED BY <1>1, <1>2 DEF Accepted
-----------------------------------------------------------------------------
(* Sizes.                                                                  *)
LEMMA MoreThanOne ==
  ASSUME NEW S, IsFiniteSet(S)
  PROVE  /\ Cardinality(S) > 1 <=> \E x, y \in S : x # y
         /\ Cardinality(S) >= 2 <=> \E x, y \in S : x # y
<1>1. Cardinality(S) \in Nat
  BY FS_CardinalityType
<1>2. Cardinality(S) = 0 <=> S = {}
  BY FS_EmptySet
<1>3. Cardinality(S) = 1 <=> \E x : S = {x}
  BY FS_Singleton
<1>4. (\E x, y \in S : x # y) <=> ~(S = {} \/ \E x : S = {x})
  <2>1. ASSUME S # {}, ~\E x : S = {x} PROVE \E x, y \in S : x # y
    <3>1. PICK x : x \in S
      BY <2>1
    <3>2. PICK y \in S : y # x
      BY <2>1, <3>1
    <3> QED BY <3>1, <3>2
  <2> QED BY <2>1
<1> QED BY <1>1, <1>2, <1>3, <1>4

(* The sizes of disjoint classes add up to the size of what they cover.    *)
LEMMA TotalOfClasses ==
  ASSUME NEW D, IsFiniteSet(D), NEW S, IsFiniteSet(S), NEW K \in [D -> SUBSET S],
         \A v, w \in D : v # w => K[v] \cap K[w] = {},
         \A x \in S : \E v \in D : x \in K[v],
         NEW f, f = [v \in D |-> Cardinality(K[v])]
  PROVE  Total(f) = Cardinality(S)
<1> DEFINE b == [v \in D |-> CHOOSE g : g \in Bijection(1..Cardinality(K[v]), K[v])]
           m == [p \in Units(f, D) |-> b[p[1]][p[2]]]
<1>1. \A v \in D : /\ IsFiniteSet(K[v]) /\ Cardinality(K[v]) \in Nat
                   /\ b[v] \in Bijection(1..Cardinality(K[v]), K[v])
  BY FS_Subset, FS_CardinalityType DEF ExistsBijection
<1>2. f \in [D -> Nat] /\ \A v \in D : f[v] = Cardinality(K[v])
  BY <1>1
<1>3. Total(f) = Cardinality(Units(f, D)) /\ IsFiniteSet(Units(f, D))
  BY <1>2, TotalIsUnits
<1> HIDE DEF b
<1>4. \A v \in D : /\ \A n \in 1..f[v] : b[v][n] \in K[v]
                   /\ \A j, n \in 1..f[v] : b[v][j] = b[v][n] => j = n
                   /\ \A x \in K[v] : \E n \in 1..f[v] : b[v][n] = x
  BY <1>1, <1>2 DEF Bijection, Injection, Surjection, IsInjective
<1>5. \A p \in Units(f, D) : p[1] \in D /\ p[2] \in 1..f[p[1]] /\ p = <<p[1], p[2]>>
  BY DEF Units
<1>6. m \in [Units(f, D) -> S]
  BY <1>4, <1>5
<1>7. ASSUME NEW p \in Units(f, D), NEW q \in Units(f, D), m[p] = m[q] PROVE p = q
  <2>1. m[p] \in K[p[1]] /\ m[q] \in K[q[1]]
    BY <1>4, <1>5
  <2>2. p[1] = q[1]
    BY <1>5, <1>7, <2>1
  <2>3. p[2] = q[2]
    BY <1>4, <1>5, <1>7, <2>2
  <2> QED BY <1>5, <2>2, <2>3
<1>8. ASSUME NEW x \in S PROVE \E p \in Units(f, D) : m[p] = x
  <2>1. PICK v \in D : x \in K[v]
    OBVIOUS
  <2>2. PICK n \in 1..f[v] : b[v][n] = x
    BY <1>4, <2>1
  <2>3. <<v, n>> \in Units(f, D)
    BY <1>2, <2>2 DEF Units
  <2> QED BY <2>2, <2>3
<1> HIDE DEF m
<1>9. m \in Bijection(Units(f, D), S)
  BY <1>6, <1>7, <1>8 DEF Bijection, Injection, Surjection, IsInjective
<1> QED BY <1>3, <1>9, FS_Bijection DEF ExistsBijection

-----------------------------------------------------------------------------
(* Reviews.                                                                *)
ReviewTypes ==
  /\ reviews = [r \in Reviewer |-> reviews[r]]
  /\ \A r \in Reviewer : reviews[r] # NULL =>
       \A i \in DOMAIN reviews[r] : reviews[r][i] \in Label \cup {NULL}
  /\ \A i \in DOMAIN adjudications : adjudications[i] \in Ruling

LEMMA ReviewTypesStep == ReviewTypes /\ [Next]_vars => ReviewTypes'
<1> SUFFICES ASSUME ReviewTypes, [Next]_vars PROVE ReviewTypes'
  OBVIOUS
<1>1. CASE UNCHANGED <<reviews, adjudications>>
  BY <1>1 DEF ReviewTypes
<1>2. ASSUME NEW r \in Reviewer, WriteTemplate(r) PROVE ReviewTypes'
  BY <1>2 DEF WriteTemplate, ReviewTypes
<1>3. ASSUME NEW r \in Reviewer, EditReview(r) PROVE ReviewTypes'
  <2>1. PICK i \in DOMAIN reviews[r] :
          \/ \E l \in Label : reviews' = [reviews EXCEPT ![r][i] = l]
          \/ reviews' = [reviews EXCEPT ![r] = Without(@, i)]
    BY <1>3 DEF EditReview
  <2>2. reviews[r] # NULL /\ adjudications' = adjudications
    BY <1>3 DEF EditReview
  <2>3. /\ reviews' = [q \in Reviewer |-> reviews'[q]]
        /\ \A q \in Reviewer : q # r => reviews'[q] = reviews[q]
    BY <2>1 DEF ReviewTypes
  <2>4. \A j \in DOMAIN reviews'[r] : reviews'[r][j] \in Label \cup {NULL}
    <3>1. CASE reviews' = [reviews EXCEPT ![r] = Without(@, i)]
      <4>1. reviews'[r] = [j \in DOMAIN reviews[r] \ {i} |-> reviews[r][j]]
        BY <3>1 DEF ReviewTypes, Without, Restrict
      <4> QED BY <2>2, <4>1 DEF ReviewTypes
    <3>2. ASSUME NEW l \in Label, reviews' = [reviews EXCEPT ![r][i] = l]
          PROVE  \A j \in DOMAIN reviews'[r] : reviews'[r][j] \in Label \cup {NULL}
      <4>1. reviews'[r] = [reviews[r] EXCEPT ![i] = l]
        BY <3>2 DEF ReviewTypes
      <4> QED BY <2>2, <4>1 DEF ReviewTypes
    <3> QED BY <2>1, <3>1, <3>2
  <2> QED BY <2>2, <2>3, <2>4 DEF ReviewTypes
<1>4. CASE Adjudicate
  <2>1. PICK i \in PublishedItems, l \in Ruling : adjudications' = With(adjudications, i, l)
    BY <1>4 DEF Adjudicate
  <2>2. reviews' = reviews
    BY <1>4 DEF Adjudicate
  <2>3. \A j \in DOMAIN adjudications' : adjudications'[j] \in Ruling
    BY <2>1 DEF With, ReviewTypes
  <2> QED BY <2>2, <2>3 DEF ReviewTypes
<1> QED BY <1>1, <1>2, <1>3, <1>4 DEF Next, vars

LEMMA ReviewTypesInit == Init => ReviewTypes
  BY DEF Init, ReviewTypes, NoRow

(* Disagreement is two reviewers who differ.                               *)
LEMMA GivenFinite ==
  ASSUME NEW fs, NEW i
  PROVE  /\ IsFiniteSet(Given(fs, i))
         /\ \A dim : IsFiniteSet(Values(fs, i, dim))
<1>1. IsFiniteSet(Given(fs, i))
  BY ReviewAssumption, FS_Subset DEF Given, Files
<1>2. ASSUME NEW dim PROVE IsFiniteSet(Values(fs, i, dim))
  <2> DEFINE v == [r \in Given(fs, i) |-> fs[r][i][dim]]
  <2>1. v \in Surjection(Given(fs, i), Values(fs, i, dim))
    BY DEF Surjection, Values
  <2> QED BY <1>1, <2>1, FS_Surjection
<1> QED BY <1>1, <1>2

LEMMA ReviewersDiffer ==
  ASSUME NEW fs, NEW i
  PROVE  /\ Compared(fs, i) <=> \E q, r \in Given(fs, i) : q # r
         /\ Disagreeing(fs, i) <=> \E q, r \in Given(fs, i), dim \in Dimension :
                                     fs[q][i][dim] # fs[r][i][dim]
<1>1. Compared(fs, i) <=> \E q, r \in Given(fs, i) : q # r
  BY GivenFinite, MoreThanOne DEF Compared
<1>2. \A dim : Cardinality(Values(fs, i, dim)) > 1 <=> \E x, y \in Values(fs, i, dim) : x # y
  BY GivenFinite, MoreThanOne
<1>3. \A dim : (\E x, y \in Values(fs, i, dim) : x # y)
               <=> \E q, r \in Given(fs, i) : fs[q][i][dim] # fs[r][i][dim]
  BY DEF Values
<1> QED BY <1>1, <1>2, <1>3 DEF Disagreeing

(* One more file in a directory of reviews.                                *)
LEMMA LateReview ==
  ASSUME ReviewTypes, NEW items, NEW r \in Reviewer, NoFile(r), NEW file \in [items -> Label],
         Valid(reviews, adjudications)
  PROVE  LET more == [reviews EXCEPT ![r] = file] IN
         /\ Valid(more, adjudications)
         /\ Status(reviews, adjudications, items) = "PUBLISHABLE" =>
              \/ Status(more, adjudications, items) = "PUBLISHABLE"
              \/ \E i \in items \ DOMAIN adjudications : \E q \in Given(reviews, i) : reviews[q][i] # file[i]
<1> DEFINE more == [reviews EXCEPT ![r] = file]
<1>1. /\ more[r] = file /\ \A q \in Reviewer : q # r => more[q] = reviews[q]
      /\ reviews[r] = NULL
  BY DEF ReviewTypes, NoFile
<1> HIDE DEF more
<1>2. \A i : /\ Given(reviews, i) \subseteq Given(more, i)
             /\ \A q \in Given(reviews, i) : more[q] = reviews[q]
             /\ \A q \in Given(more, i) : q = r \/ q \in Given(reviews, i)
             /\ r \in Given(more, i) => i \in items
  BY <1>1 DEF Given, Files
<1>3. \A i : /\ Compared(reviews, i) => Compared(more, i)
             /\ Disagreeing(reviews, i) => Disagreeing(more, i)
  <2> TAKE i
  <2>1. Compared(reviews, i) => Compared(more, i)
    BY <1>2, ReviewersDiffer
  <2>2. Disagreeing(reviews, i) => Disagreeing(more, i)
    BY <1>2, ReviewersDiffer
  <2> QED BY <2>1, <2>2
<1>4. Valid(more, adjudications)
  <2>1. ASSUME NEW q \in Files(more), NEW i \in DOMAIN more[q] PROVE more[q][i] # NULL
    <3>1. CASE q = r
      BY <1>1, <3>1, ReviewAssumption
    <3>2. CASE q # r
      BY <1>1, <3>2 DEF Valid, Filled, Files
    <3> QED BY <3>1, <3>2
  <2> QED BY <1>3, <2>1 DEF Valid, Filled
<1>5. ASSUME Status(reviews, adjudications, items) = "PUBLISHABLE",
             Status(more, adjudications, items) # "PUBLISHABLE"
      PROVE  \E i \in items \ DOMAIN adjudications : \E q \in Given(reviews, i) : reviews[q][i] # file[i]
  <2>1. items # {} /\ Covered(reviews, items) /\ Resolved(reviews, adjudications, items)
    BY <1>5 DEF Status
  <2>2. Covered(more, items)
    BY <1>3, <2>1 DEF Covered
  <2>3. PICK i \in items : Disagreeing(more, i) /\ i \notin DOMAIN adjudications
    BY <1>5, <2>1, <2>2 DEF Status, Resolved
  <2>4. ~Disagreeing(reviews, i) /\ Compared(reviews, i)
    BY <2>1, <2>3 DEF Resolved, Covered
  <2>5. PICK p \in Given(more, i), q \in Given(more, i), dim \in Dimension :
          more[p][i][dim] # more[q][i][dim]
    BY <2>3, ReviewersDiffer
  <2>6. ~(p \in Given(reviews, i) /\ q \in Given(reviews, i))
    BY <1>2, <2>4, <2>5, ReviewersDiffer
  <2>7. \E s \in Given(reviews, i) : more[s][i][dim] # more[r][i][dim]
    BY <1>2, <2>5, <2>6
  <2> QED BY <1>1, <1>2, <2>3, <2>7
<1> QED BY <1>4, <1>5 DEF more

(* The label of an item that counts.                                       *)
LEMMA OneFinalLabel ==
  ASSUME ReviewTypes, Valid(reviews, adjudications), NEW i,
         Compared(reviews, i), Disagreeing(reviews, i) => i \in DOMAIN adjudications,
         NEW dim \in Dimension
  PROVE  /\ \E v : /\ FinalLabels(reviews, adjudications, i, dim) = {v}
                   /\ v \in {l[dim] : l \in Label \cup Ruling}
         /\ \A v \in FinalLabels(reviews, adjudications, i, dim) :
               \/ /\ \A r \in Reviewer : reviews[r] # NULL /\ i \in DOMAIN reviews[r] => reviews[r][i][dim] = v
                  /\ \E q, r \in Reviewer : q # r /\ {q, r} \subseteq Given(reviews, i)
               \/ /\ i \in DOMAIN adjudications
                  /\ \E q, r \in Given(reviews, i) : reviews[q][i] # reviews[r][i]
<1>1. CASE i \in DOMAIN adjudications
  <2>1. FinalLabels(reviews, adjudications, i, dim) = {adjudications[i][dim]}
    BY <1>1 DEF FinalLabels
  <2>2. adjudications[i] \in Ruling
    BY <1>1 DEF ReviewTypes
  <2>3. \E q, r \in Given(reviews, i) : reviews[q][i] # reviews[r][i]
    BY <1>1, ReviewersDiffer DEF Valid
  <2> QED BY <1>1, <2>1, <2>2, <2>3
<1>2. CASE i \notin DOMAIN adjudications
  <2>1. PICK q \in Given(reviews, i), r \in Given(reviews, i) : q # r
    BY ReviewersDiffer
  <2>2. \A s, t \in Given(reviews, i) : reviews[s][i][dim] = reviews[t][i][dim]
    BY <1>2, ReviewersDiffer
  <2> DEFINE v == reviews[q][i][dim]
  <2>3. Values(reviews, i, dim) = {v}
    BY <2>2 DEF Values
  <2>4. FinalLabels(reviews, adjudications, i, dim) = {v}
    BY <1>2, <2>3 DEF FinalLabels
  <2>5. q \in Files(reviews) /\ i \in DOMAIN reviews[q] /\ q \in Reviewer /\ r \in Reviewer
    BY DEF Given, Files
  <2>6. reviews[q][i] \in Label
    BY <2>5 DEF ReviewTypes, Files, Valid, Filled
  <2>7. \A s \in Reviewer : reviews[s] # NULL /\ i \in DOMAIN reviews[s] => reviews[s][i][dim] = v
    BY <2>2 DEF Given, Files
  <2> HIDE DEF v
  <2>8. v \in {l[dim] : l \in Label \cup Ruling}
    BY <2>6 DEF v
  <2> QED BY <2>1, <2>4, <2>5, <2>7, <2>8
<1> QED BY <1>1, <1>2

(* check_reviews_directory and summarize_reviews: every item counts once.  *)
LEMMA EveryItemCounted ==
  ASSUME ReviewTypes, NEW items, IsFiniteSet(items), Valid(reviews, adjudications),
         Status(reviews, adjudications, items) = "PUBLISHABLE", NEW dim \in Dimension
  PROVE  Total(Counts(reviews, adjudications, items)[dim]) = Cardinality(items)
<1> DEFINE final(i) == FinalLabels(reviews, adjudications, i, dim)
           labels == {l[dim] : l \in Label \cup Ruling}
           K == [v \in labels |-> {i \in items : v \in final(i)}]
           f == [v \in labels |-> Cardinality(K[v])]
<1>1. \A i \in items : Compared(reviews, i) /\ (Disagreeing(reviews, i) => i \in DOMAIN adjudications)
  BY DEF Status, Covered, Resolved
<1>2. \A i \in items : \E v : final(i) = {v} /\ v \in labels
  BY <1>1, OneFinalLabel
<1>3. IsFiniteSet(labels)
  <2> DEFINE g == [l \in Label \cup Ruling |-> l[dim]]
  <2>1. g \in Surjection(Label \cup Ruling, labels)
    BY DEF Surjection
  <2> HIDE DEF labels, g
  <2> QED BY <2>1, ReviewAssumption, FS_Surjection
<1>4. Counts(reviews, adjudications, items)[dim] = f
  BY DEF Counts
<1> HIDE DEF final, labels
<1>5. K \in [labels -> SUBSET items]
  OBVIOUS
<1>6. \A v, w \in labels : v # w => K[v] \cap K[w] = {}
  BY <1>2
<1>7. \A i \in items : \E v \in labels : i \in K[v]
  BY <1>2
<1> HIDE DEF K
<1>8. Total(f) = Cardinality(items)
  BY <1>3, <1>5, <1>6, <1>7, TotalOfClasses
<1> QED BY <1>4, <1>8
-----------------------------------------------------------------------------
(* The run.  Files: what they hold, and that it is true.                   *)
States == {"IDLE", "DECLARE", "DECLARING", "OPEN", "NEXT", "ANSWERED", "WRITTEN", "COMPLETING", "FINISHED"}
Directory == [exists: BOOLEAN, json: JsonStatus \cup {NULL}, tmp: BOOLEAN,
              runs: Seq(RunLine) \cup {NULL}, outputs: [Repeat -> Seq(OutputLine) \cup {NULL}]]
FileNames == ({"json", "tmp", "runs"} \X {0}) \cup ({"outputs"} \X Repeat)

(* What the provider answered for a called case.                           *)
Answers == [outcome: Outcomes \ {"NOT_CALLED"}, row: OutputLine \cup {NULL}]

RunTypes ==
  /\ runner \in [pc: States, done: SUBSET Attempts]
  /\ reply = NULL \/ reply \in Replies
  /\ dir \in Directory
  /\ copy \in [files: Directory, left: SUBSET FileNames]
  /\ answered \in [Attempts -> Answers \cup {NULL}]
  /\ \A a \in Attempts : answered[a] # NULL /\ answered[a].outcome = "OK" =>
       answered[a].row \in OutputLine /\ answered[a].row.case = a[1]
  /\ published \in BOOLEAN

Agrees(rec, row) == /\ rec.abstained = (row.links = <<>>)
                    /\ rec.count = Len(row.links) /\ rec.cited = Total(row.links)
                    /\ rec.accepted => row.known

RecordTrue(rec, ans) ==
  LET a == AttemptOf(rec) IN
  /\ a \in Attempts
  /\ IF a[1] \in NotCalled THEN rec = Record(a, "NOT_CALLED", NoResult)
     ELSE /\ ans[a] # NULL /\ rec.outcome = ans[a].outcome
          /\ rec.outcome = "OK" => Agrees(rec, ans[a].row)

RowTrue(row, r, ans) ==
  LET a == <<row.case, r>> IN
  /\ a \in Attempts /\ a[1] \notin NotCalled
  /\ ans[a] # NULL /\ ans[a].outcome = "OK" /\ row = ans[a].row

FilesTrue(d, ans) ==
  /\ d.runs # NULL => \A rec \in RecordsOf(d) : RecordTrue(rec, ans)
  /\ \A r \in Repeat : d.outputs[r] # NULL => \A row \in RowsOf(d, r) : RowTrue(row, r, ans)

(* The attempts a directory has a record of, and an output.                *)
RecordedIn(d) == {a \in Attempts : d.runs # NULL /\ \E rec \in RecordsOf(d) : AttemptOf(rec) = a}
OutputIn(d) == {a \in Attempts : d.outputs[a[2]] # NULL /\ \E row \in RowsOf(d, a[2]) : row.case = a[1]}

Once(d) ==
  /\ d.runs # NULL => \A j, k \in DOMAIN d.runs : AttemptOf(d.runs[j]) = AttemptOf(d.runs[k]) => j = k
  /\ \A r \in Repeat : d.outputs[r] # NULL =>
       \A j, k \in DOMAIN d.outputs[r] : d.outputs[r][j].case = d.outputs[r][k].case => j = k

(* The runner has recorded what it has done; an answer it works on is the  *)
(* answer to the attempt that is due.                                      *)
Answered(a) == a[1] \notin NotCalled /\ answered[a] # NULL /\ answered[a].outcome = "OK"

RunnerFits ==
  /\ ~dir.exists => runner.pc = "IDLE" /\ dir = NoFiles /\ copy = [files |-> NoFiles, left |-> {}]
  /\ runner.pc \in {"DECLARE", "DECLARING", "OPEN"} => runner.done = {}
  /\ runner.pc \in {"NEXT", "ANSWERED", "WRITTEN", "COMPLETING", "FINISHED"} =>
       dir.runs # NULL /\ \A r \in Repeat : dir.outputs[r] # NULL
  /\ runner.pc # "IDLE" =>
       /\ RecordedIn(dir) = runner.done
       /\ \A a \in Attempts : a \in OutputIn(dir) <=> \/ a \in runner.done /\ Answered(a)
                                                      \/ runner.pc = "WRITTEN" /\ Due(a)
  /\ runner.pc \in {"ANSWERED", "WRITTEN"} =>
       /\ reply \in Replies
       /\ \A a \in Attempts : Due(a) => a[1] \notin NotCalled /\ answered[a] = Meant(a[1], reply)
  /\ runner.pc = "WRITTEN" => Outcome(reply) = "OK"
  /\ runner.pc \in {"COMPLETING", "FINISHED"} => runner.done = Attempts
  /\ runner.pc = "FINISHED" => ~dir.tmp
  /\ dir.json = "COMPLETE" => runner.pc = "FINISHED"

(* A copy holds less than the directory; what is published is complete.    *)
CopyFits ==
  /\ RecordedIn(copy.files) \subseteq RecordedIn(dir)
  /\ OutputIn(copy.files) \subseteq OutputIn(dir)
  /\ copy.files.json = "COMPLETE" => dir.json = "COMPLETE"
  /\ published => /\ copy.files.exists /\ copy.left = {}
                  /\ \E odd \in SUBSET Circumstances : Eligible(copy.files, odd)

RunInv == /\ RunTypes
          /\ FilesTrue(dir, answered) /\ FilesTrue(copy.files, answered) /\ Once(dir)
          /\ RunnerFits /\ CopyFits

-----------------------------------------------------------------------------
(* The start, and the attempt that is due.                                 *)
LEMMA NoFilesFacts ==
  /\ NoFiles \in Directory
  /\ \A ans : FilesTrue(NoFiles, ans)
  /\ Once(NoFiles) /\ RecordedIn(NoFiles) = {} /\ OutputIn(NoFiles) = {}
<1>1. /\ NoFiles \in Directory /\ NoFiles.runs = NULL /\ NoFiles.outputs = [r \in Repeat |-> NULL]
      /\ \A r \in Repeat : NoFiles.outputs[r] = NULL
  BY DEF NoFiles, Directory
<1>2. \A a \in Attempts : a[2] \in Repeat
  BY DEF Attempts
<1> QED BY <1>1, <1>2 DEF FilesTrue, Once, RecordedIn, OutputIn

LEMMA RunInitInv == RunInit => RunInv
<1> SUFFICES ASSUME RunInit PROVE RunInv
  OBVIOUS
<1>1. runner = [pc |-> "IDLE", done |-> {}] /\ dir = NoFiles /\ copy = [files |-> NoFiles, left |-> {}]
  BY DEF RunInit
<1>2. ~NoFiles.exists /\ NoFiles.json = NULL
  BY DEF NoFiles
<1>3. RunTypes
  <2>1. runner \in [pc: States, done: SUBSET Attempts]
    BY <1>1 DEF States
  <2>2. copy \in [files: Directory, left: SUBSET FileNames]
    BY <1>1, NoFilesFacts
  <2>3. answered = [a \in Attempts |-> NULL] /\ reply = NULL /\ published = FALSE
    BY DEF RunInit
  <2> QED BY <1>1, <2>1, <2>2, <2>3, NoFilesFacts DEF RunTypes
<1>4. FilesTrue(dir, answered) /\ FilesTrue(copy.files, answered) /\ Once(dir)
  BY <1>1, NoFilesFacts
<1>5. NULL # "COMPLETE"
  BY NullAssumption DEF JsonStatus
<1>6. RunnerFits
  BY <1>1, <1>2, <1>5 DEF RunnerFits
<1>7. CopyFits
  BY <1>1, <1>2, <1>5 DEF RunInit, CopyFits
<1> QED BY <1>3, <1>4, <1>6, <1>7 DEF RunInv
LEMMA AttemptParts ==
  ASSUME NEW a \in Attempts
  PROVE  a[1] \in Cases /\ a[2] \in Repeat /\ a = <<a[1], a[2]>> /\ (a[1] \in NotCalled => a[2] = 1)
  BY DEF Attempts

LEMMA DueIsOne ==
  ASSUME NEW a, NEW b, Due(a), Due(b)
  PROVE  a = b /\ a \in Attempts /\ a \notin runner.done
<1>1. a \in Attempts /\ b \in Attempts /\ a \notin runner.done /\ ~Before(a, b) /\ ~Before(b, a)
  BY DEF Due, Left
<1>2. /\ a[1] \in Cases /\ b[1] \in Cases /\ a[2] \in Nat /\ b[2] \in Nat
      /\ a = <<a[1], a[2]>> /\ b = <<b[1], b[2]>>
  BY <1>1, AttemptParts, RunAssumption DEF Repeat
<1>3. \A c \in Cases : Position(c) \in DOMAIN Corpus /\ Corpus[Position(c)] = c
  BY DEF Cases, Position
<1>4. DOMAIN Corpus \subseteq Nat
  BY RunAssumption DEF IsSeq
<1>5. a[2] = b[2] /\ Position(a[1]) = Position(b[1])
  BY <1>1, <1>2, <1>3, <1>4 DEF Before
<1>6. a[1] = b[1]
  BY <1>2, <1>3, <1>5
<1> QED BY <1>1, <1>2, <1>5, <1>6

LEMMA Appended ==
  ASSUME NEW S, NEW s \in Seq(S), NEW x \in S
  PROVE  /\ Append(s, x) \in Seq(S)
         /\ {Append(s, x)[k] : k \in DOMAIN Append(s, x)} = {s[k] : k \in DOMAIN s} \cup {x}
         /\ \A j, k \in DOMAIN Append(s, x) :
              \/ j \in DOMAIN s /\ k \in DOMAIN s /\ Append(s, x)[j] = s[j] /\ Append(s, x)[k] = s[k]
              \/ j = k
              \/ j \in DOMAIN s /\ Append(s, x)[j] = s[j] /\ Append(s, x)[k] = x
              \/ k \in DOMAIN s /\ Append(s, x)[k] = s[k] /\ Append(s, x)[j] = x
<1> DEFINE t == Append(s, x)
           n == Len(s)
<1>1. /\ t \in Seq(S) /\ n \in Nat /\ DOMAIN s = 1..n /\ DOMAIN t = 1..(n + 1) /\ t[n + 1] = x
      /\ \A k \in 1..n : t[k] = s[k]
  OBVIOUS
<1> HIDE DEF t, n
<1>2. {t[k] : k \in DOMAIN t} = {s[k] : k \in DOMAIN s} \cup {x}
  <2>1. \A k \in 1..(n + 1) : k \in 1..n \/ k = n + 1
    BY <1>1
  <2>2. 1..n \subseteq 1..(n + 1) /\ n + 1 \in 1..(n + 1)
    BY <1>1
  <2> QED BY <1>1, <2>1, <2>2
<1>3. \A k \in DOMAIN t : k = n + 1 \/ k \in DOMAIN s
  BY <1>1
<1>4. \A j, k \in DOMAIN t :
        \/ j \in DOMAIN s /\ k \in DOMAIN s /\ t[j] = s[j] /\ t[k] = s[k]
        \/ j = k
        \/ j \in DOMAIN s /\ t[j] = s[j] /\ t[k] = x
        \/ k \in DOMAIN s /\ t[k] = s[k] /\ t[j] = x
  BY <1>1, <1>3
<1> QED BY <1>1, <1>2, <1>4 DEF t

(* A record is appended for an attempt that has none.                      *)
Logged(d, rec) == [d EXCEPT !.runs = Append(@, rec)]
Printed(d, r, row) == [d EXCEPT !.outputs[r] = Append(@, row)]

LEMMA RunsGrow ==
  ASSUME NEW d \in Directory, d.runs # NULL, NEW rec \in RunLine, NEW e,
         e = Logged(d, rec), NEW ans, FilesTrue(d, ans), Once(d),
         RecordTrue(rec, ans), AttemptOf(rec) \notin RecordedIn(d)
  PROVE  /\ e \in Directory /\ e.runs # NULL /\ e.outputs = d.outputs /\ e.json = d.json
         /\ e.tmp = d.tmp /\ e.exists = d.exists
         /\ FilesTrue(e, ans) /\ Once(e)
         /\ RecordedIn(e) = RecordedIn(d) \cup {AttemptOf(rec)} /\ OutputIn(e) = OutputIn(d)
<1>1. d.runs \in Seq(RunLine)
  BY DEF Directory
<1>2. Append(d.runs, rec) \in Seq(RunLine)
  BY <1>1
<1>3. /\ e.runs = Append(d.runs, rec) /\ e.outputs = d.outputs /\ e.json = d.json
      /\ e.tmp = d.tmp /\ e.exists = d.exists /\ e \in Directory
  BY <1>2 DEF Directory, Logged
<1>4. e.runs # NULL
  BY <1>2, <1>3, NullAssumption
<1>5. RecordsOf(e) = RecordsOf(d) \cup {rec}
  BY <1>1, <1>3, Appended DEF RecordsOf
<1>6. \A x \in RecordsOf(d) : AttemptOf(x) \in RecordedIn(d)
  BY DEF FilesTrue, RecordTrue, RecordedIn
<1>7. FilesTrue(e, ans)
  <2>1. \A x \in RecordsOf(e) : RecordTrue(x, ans)
    BY <1>5 DEF FilesTrue
  <2>2. \A r \in Repeat : RowsOf(e, r) = RowsOf(d, r)
    BY <1>3 DEF RowsOf
  <2> QED BY <1>3, <2>1, <2>2 DEF FilesTrue
<1>8. Once(e)
  <2>1. ASSUME NEW j \in DOMAIN e.runs, NEW k \in DOMAIN e.runs, AttemptOf(e.runs[j]) = AttemptOf(e.runs[k])
        PROVE  j = k
    <3>1. \A i \in DOMAIN d.runs : AttemptOf(d.runs[i]) # AttemptOf(rec)
      BY <1>6 DEF RecordsOf
    <3>2. \A i, l \in DOMAIN d.runs : AttemptOf(d.runs[i]) = AttemptOf(d.runs[l]) => i = l
      BY DEF Once
    <3> QED BY <1>1, <1>3, <2>1, <3>1, <3>2, Appended
  <2> QED BY <1>3, <2>1 DEF Once
<1>9. RecordedIn(e) = RecordedIn(d) \cup {AttemptOf(rec)}
  BY <1>4, <1>5 DEF RecordedIn, RecordTrue
<1>10. OutputIn(e) = OutputIn(d)
  BY <1>3 DEF OutputIn, RowsOf
<1> QED BY <1>3, <1>4, <1>7, <1>8, <1>9, <1>10

(* An output is appended for an attempt that has none.                     *)
LEMMA OutputsGrow ==
  ASSUME NEW d \in Directory, NEW r \in Repeat, d.outputs[r] # NULL, NEW row \in OutputLine, NEW e,
         e = Printed(d, r, row), NEW ans, FilesTrue(d, ans), Once(d),
         RowTrue(row, r, ans), <<row.case, r>> \notin OutputIn(d)
  PROVE  /\ e \in Directory /\ \A q \in Repeat : d.outputs[q] # NULL => e.outputs[q] # NULL
         /\ e.runs = d.runs /\ e.json = d.json /\ e.tmp = d.tmp /\ e.exists = d.exists
         /\ FilesTrue(e, ans) /\ Once(e)
         /\ RecordedIn(e) = RecordedIn(d) /\ OutputIn(e) = OutputIn(d) \cup {<<row.case, r>>}
<1>1. d.outputs[r] \in Seq(OutputLine) /\ d.outputs \in [Repeat -> Seq(OutputLine) \cup {NULL}]
  BY DEF Directory
<1>2. Append(d.outputs[r], row) \in Seq(OutputLine)
  BY <1>1
<1>3. /\ e.outputs = [d.outputs EXCEPT ![r] = Append(@, row)]
      /\ e.runs = d.runs /\ e.json = d.json /\ e.tmp = d.tmp /\ e.exists = d.exists
  BY DEF Directory, Printed
<1>4. /\ e.outputs[r] = Append(d.outputs[r], row)
      /\ \A q \in Repeat : q # r => e.outputs[q] = d.outputs[q]
      /\ e.outputs \in [Repeat -> Seq(OutputLine) \cup {NULL}]
  BY <1>1, <1>2, <1>3
<1>5. e \in Directory
  BY <1>4 DEF Directory, Printed
<1>6. e.outputs[r] # NULL
  BY <1>2, <1>4, NullAssumption
<1>7. /\ RowsOf(e, r) = RowsOf(d, r) \cup {row}
      /\ \A q \in Repeat : q # r => RowsOf(e, q) = RowsOf(d, q)
  <2>1. RowsOf(e, r) = RowsOf(d, r) \cup {row}
    <3> DEFINE s == d.outputs[r]
               t == e.outputs[r]
    <3>1. s \in Seq(OutputLine) /\ t = Append(s, row)
      BY <1>1, <1>4
    <3> HIDE DEF s, t
    <3>2. {t[k] : k \in DOMAIN t} = {s[k] : k \in DOMAIN s} \cup {row}
      BY <3>1, Appended
    <3> QED BY <3>2 DEF RowsOf, s, t
  <2>2. \A q \in Repeat : q # r => RowsOf(e, q) = RowsOf(d, q)
    BY <1>4 DEF RowsOf
  <2> QED BY <2>1, <2>2
<1>8. RecordsOf(e) = RecordsOf(d)
  BY <1>3 DEF RecordsOf
<1>9. FilesTrue(e, ans)
  BY <1>3, <1>4, <1>7, <1>8 DEF FilesTrue
<1>10. \A x \in RowsOf(d, r) : <<x.case, r>> \in OutputIn(d)
  BY DEF FilesTrue, RowTrue, OutputIn
<1>11. Once(e)
  <2>1. ASSUME NEW j \in DOMAIN e.outputs[r], NEW k \in DOMAIN e.outputs[r],
               e.outputs[r][j].case = e.outputs[r][k].case
        PROVE  j = k
    <3>1. \A i \in DOMAIN d.outputs[r] : d.outputs[r][i].case # row.case
      BY <1>10 DEF RowsOf
    <3>2. \A i, l \in DOMAIN d.outputs[r] : d.outputs[r][i].case = d.outputs[r][l].case => i = l
      BY DEF Once
    <3> QED BY <1>1, <1>4, <2>1, <3>1, <3>2, Appended
  <2> QED BY <1>3, <1>4, <2>1 DEF Once
<1>12. RecordedIn(e) = RecordedIn(d)
  BY <1>3, <1>8 DEF RecordedIn
<1>13. OutputIn(e) = OutputIn(d) \cup {<<row.case, r>>}
  <2>1. <<row.case, r>> \in Attempts
    BY DEF RowTrue
  <2>2. \A a \in Attempts : a \in OutputIn(e) <=> a \in OutputIn(d) \/ a = <<row.case, r>>
    <3> TAKE a \in Attempts
    <3>1. a[2] \in Repeat /\ a = <<a[1], a[2]>>
      BY AttemptParts
    <3>2. CASE a[2] = r
      <4>1. a \in OutputIn(e) <=> \E x \in RowsOf(d, r) \cup {row} : x.case = a[1]
        BY <1>6, <1>7, <3>2 DEF OutputIn
      <4>2. a \in OutputIn(d) <=> \E x \in RowsOf(d, r) : x.case = a[1]
        BY <3>2 DEF OutputIn
      <4>3. a = <<row.case, r>> <=> row.case = a[1]
        BY <3>1, <3>2
      <4> QED BY <4>1, <4>2, <4>3
    <3>3. CASE a[2] # r
      BY <1>4, <1>7, <3>1, <3>3 DEF OutputIn
    <3> QED BY <3>2, <3>3
  <2>3. OutputIn(e) \subseteq Attempts /\ OutputIn(d) \subseteq Attempts
    BY DEF OutputIn
  <2> QED BY <2>1, <2>2, <2>3
<1> QED BY <1>3, <1>4, <1>5, <1>6, <1>9, <1>11, <1>12, <1>13

(* A step of the runner that knows what it does to the directory.          *)
LEMMA RunnerMoves ==
  ASSUME RunInv, UNCHANGED <<copy, answered, published>>,
         runner' \in [pc: States, done: SUBSET Attempts], reply' = NULL \/ reply' \in Replies,
         dir' \in Directory, FilesTrue(dir', answered), Once(dir'),
         RecordedIn(dir) \subseteq RecordedIn(dir'), OutputIn(dir) \subseteq OutputIn(dir'),
         dir.json = "COMPLETE" => dir'.json = "COMPLETE",
         RunnerFits'
  PROVE  RunInv'
<1>1. RunTypes'
  BY DEF RunInv, RunTypes
<1>2. CopyFits'
  BY DEF RunInv, CopyFits
<1> QED BY <1>1, <1>2 DEF RunInv

(* Directories with the same lines.                                        *)
LEMMA SameLines ==
  ASSUME NEW d \in Directory, NEW e \in Directory, NEW ans, FilesTrue(d, ans), Once(d),
         \/ e.runs = d.runs
         \/ d.runs = NULL /\ e.runs = <<>>,
         \A r \in Repeat : e.outputs[r] = d.outputs[r] \/ (d.outputs[r] = NULL /\ e.outputs[r] = <<>>)
  PROVE  /\ FilesTrue(e, ans) /\ Once(e)
         /\ RecordedIn(e) = RecordedIn(d) /\ OutputIn(e) = OutputIn(d)
<1>1. /\ e.runs = <<>> => DOMAIN e.runs = {} /\ RecordsOf(e) = {}
      /\ \A r \in Repeat : e.outputs[r] = <<>> => DOMAIN e.outputs[r] = {} /\ RowsOf(e, r) = {}
  BY DEF RecordsOf, RowsOf
<1>2. /\ e.runs = d.runs => RecordsOf(e) = RecordsOf(d)
      /\ \A r \in Repeat : e.outputs[r] = d.outputs[r] => RowsOf(e, r) = RowsOf(d, r)
  BY DEF RecordsOf, RowsOf
<1>3. FilesTrue(e, ans)
  BY <1>1, <1>2 DEF FilesTrue
<1>4. Once(e)
  BY <1>1 DEF Once
<1>5. RecordedIn(e) = RecordedIn(d)
  BY <1>1, <1>2 DEF RecordedIn
<1>6. OutputIn(e) = OutputIn(d)
  BY <1>1, <1>2, AttemptParts DEF OutputIn
<1> QED BY <1>3, <1>4, <1>5, <1>6
-----------------------------------------------------------------------------
(* The steps of the runner around its attempts.                            *)
LEMMA RunStart ==
  ASSUME RunInv, StartRun
  PROVE  RunInv'
<1>1. /\ runner.pc = "IDLE" /\ ~dir.exists /\ dir' = [dir EXCEPT !.exists = TRUE]
      /\ runner' = [pc |-> "DECLARE", done |-> {}]
      /\ UNCHANGED <<reply, copy, answered, published>>
  BY DEF StartRun, FreshDirectory
<1>2. dir = NoFiles /\ dir \in Directory /\ FilesTrue(dir, answered) /\ Once(dir)
  BY <1>1 DEF RunInv, RunTypes, RunnerFits
<1>3. /\ dir' \in Directory /\ dir'.exists /\ dir'.runs = dir.runs /\ dir'.outputs = dir.outputs
      /\ dir'.json = dir.json /\ dir'.tmp = dir.tmp
  BY <1>1, <1>2 DEF Directory
<1>4. dir'.json # "COMPLETE"
  BY <1>2, <1>3, NullAssumption DEF NoFiles, JsonStatus
<1>5. /\ FilesTrue(dir', answered) /\ Once(dir')
      /\ RecordedIn(dir') = RecordedIn(dir) /\ OutputIn(dir') = OutputIn(dir)
  BY <1>2, <1>3, SameLines
<1>6. RecordedIn(dir') = {} /\ OutputIn(dir') = {}
  BY <1>2, <1>5, NoFilesFacts
<1>7. RunnerFits'
  BY <1>1, <1>3, <1>4, <1>6 DEF RunnerFits
<1>8. runner' \in [pc: States, done: SUBSET Attempts]
  BY <1>1 DEF States
<1>9. reply' = NULL \/ reply' \in Replies
  BY <1>1 DEF RunInv, RunTypes
<1> QED BY <1>1, <1>3, <1>4, <1>5, <1>7, <1>8, <1>9, RunnerMoves

(* The runner goes on, and the lines of the files stay as they are.        *)
LEMMA RunGoesOn ==
  ASSUME RunInv, runner.pc \notin {"IDLE", "ANSWERED", "WRITTEN"},
         NEW pc \in States \ {"IDLE", "ANSWERED", "WRITTEN"}, Goto(pc),
         UNCHANGED <<reply, copy, answered, published>>,
         dir' \in Directory, dir'.exists,
         dir'.runs = dir.runs \/ (dir.runs = NULL /\ dir'.runs = <<>>),
         \A r \in Repeat : dir'.outputs[r] = dir.outputs[r] \/ (dir.outputs[r] = NULL /\ dir'.outputs[r] = <<>>),
         pc \in {"DECLARE", "DECLARING", "OPEN"} => runner.pc \in {"DECLARE", "DECLARING", "OPEN"},
         pc \in {"NEXT", "COMPLETING", "FINISHED"} => dir'.runs # NULL /\ \A r \in Repeat : dir'.outputs[r] # NULL,
         pc \in {"COMPLETING", "FINISHED"} => runner.done = Attempts,
         pc = "FINISHED" => ~dir'.tmp,
         dir.json = "COMPLETE" => dir'.json = "COMPLETE",
         dir'.json = "COMPLETE" => pc = "FINISHED"
  PROVE  RunInv'
<1>1. runner' = [pc |-> pc, done |-> runner.done] /\ runner.done \in SUBSET Attempts
  BY DEF RunInv, RunTypes, Goto
<1>2. /\ FilesTrue(dir', answered) /\ Once(dir')
      /\ RecordedIn(dir') = RecordedIn(dir) /\ OutputIn(dir') = OutputIn(dir)
  BY SameLines DEF RunInv, RunTypes
<1>3. \A a \in Attempts : Answered(a)' <=> Answered(a)
  BY DEF Answered
<1>4. RunnerFits'
  <2>1. /\ RecordedIn(dir') = runner'.done
        /\ \A a \in Attempts : a \in OutputIn(dir') <=> a \in runner'.done /\ Answered(a)'
    BY <1>1, <1>2, <1>3 DEF RunInv, RunnerFits
  <2>2. runner'.pc \in {"DECLARE", "DECLARING", "OPEN"} => runner'.done = {}
    BY <1>1 DEF RunInv, RunnerFits
  <2> QED BY <1>1, <2>1, <2>2 DEF RunnerFits
<1>5. runner' \in [pc: States, done: SUBSET Attempts]
  BY <1>1
<1>6. reply' = NULL \/ reply' \in Replies
  BY DEF RunInv, RunTypes
<1> QED BY <1>2, <1>4, <1>5, <1>6, RunnerMoves

LEMMA NoLines ==
  <<>> \in Seq(RunLine) /\ <<>> # NULL /\ <<>> \in Seq(OutputLine)
<1>1. \A S : <<>> \in Seq(S)
  OBVIOUS
<1>2. \A x : x \in Seq(RunLine) => x # NULL
  BY NullAssumption
<1> QED BY <1>1, <1>2

LEMMA RunFrame ==
  ASSUME RunInv, WriteTemporary \/ ReplaceJson \/ OpenFiles
  PROVE  RunInv'
<1>1. /\ dir \in Directory /\ (runner.pc # "IDLE" => dir.exists)
      /\ runner \in [pc: States, done: SUBSET Attempts] /\ NULL \notin JsonStatus
      /\ UNCHANGED <<reply, copy, answered, published>>
  BY NullAssumption DEF RunInv, RunTypes, RunnerFits, WriteTemporary, ReplaceJson, OpenFiles
<1>2. /\ runner.pc \in {"NEXT", "COMPLETING"} => dir.runs # NULL /\ \A r \in Repeat : dir.outputs[r] # NULL
      /\ dir.json = "COMPLETE" => runner.pc = "FINISHED"
      /\ runner.pc = "COMPLETING" => runner.done = Attempts
  BY DEF RunInv, RunnerFits
<1>3. CASE WriteTemporary
  <2>1. /\ dir' = [dir EXCEPT !.tmp = TRUE]
        /\ \/ runner.pc = "DECLARE" /\ Goto("DECLARING")
           \/ runner.pc = "NEXT" /\ Left = {} /\ Goto("COMPLETING")
    BY <1>3 DEF WriteTemporary
  <2>2. /\ dir' \in Directory /\ dir'.exists = dir.exists /\ dir'.runs = dir.runs /\ dir'.outputs = dir.outputs
        /\ dir'.json = dir.json
    BY <1>1, <2>1 DEF Directory
  <2>3. CASE runner.pc = "DECLARE" /\ Goto("DECLARING")
    BY <1>1, <1>2, <2>2, <2>3, RunGoesOn DEF States
  <2>4. CASE runner.pc = "NEXT" /\ Left = {} /\ Goto("COMPLETING")
    <3>1. runner.done = Attempts
      BY <1>1, <2>4 DEF Left
    <3> QED BY <1>1, <1>2, <2>2, <2>4, <3>1, RunGoesOn DEF States
  <2> QED BY <2>1, <2>3, <2>4
<1>4. CASE ReplaceJson
  <2>1. CASE runner.pc = "DECLARING" /\ Goto("OPEN") /\ dir' = [dir EXCEPT !.json = "DECLARED", !.tmp = FALSE]
    <3>1. /\ dir' \in Directory /\ dir'.exists = dir.exists /\ dir'.runs = dir.runs
          /\ dir'.outputs = dir.outputs /\ dir'.json = "DECLARED"
      BY <1>1, <2>1 DEF Directory, JsonStatus
    <3> QED BY <1>1, <1>2, <2>1, <3>1, RunGoesOn DEF States
  <2>2. CASE runner.pc = "COMPLETING" /\ Goto("FINISHED") /\ dir' = [dir EXCEPT !.json = "COMPLETE", !.tmp = FALSE]
    <3>1. /\ dir' \in Directory /\ dir'.exists = dir.exists /\ dir'.runs = dir.runs
          /\ dir'.outputs = dir.outputs /\ dir'.json = "COMPLETE" /\ dir'.tmp = FALSE
      BY <1>1, <2>2 DEF Directory, JsonStatus
    <3> QED BY <1>1, <1>2, <2>2, <3>1, RunGoesOn DEF States
  <2> QED BY <1>4, <2>1, <2>2 DEF ReplaceJson
<1>5. CASE OpenFiles
  <2>1. runner.pc = "OPEN"
    BY <1>5 DEF OpenFiles
  <2>2. ASSUME NEW r \in Repeat, dir.outputs[r] = NULL, dir' = [dir EXCEPT !.outputs[r] = <<>>], UNCHANGED runner
        PROVE  RunInv'
    <3>1. /\ dir' \in Directory /\ dir'.exists = dir.exists /\ dir'.runs = dir.runs
          /\ dir'.json = dir.json
          /\ \A q \in Repeat : dir'.outputs[q] = dir.outputs[q] \/ (dir.outputs[q] = NULL /\ dir'.outputs[q] = <<>>)
      <4>1. /\ dir'.outputs = [dir.outputs EXCEPT ![r] = <<>>] /\ dir'.exists = dir.exists
            /\ dir'.runs = dir.runs /\ dir'.json = dir.json
            /\ dir.outputs \in [Repeat -> Seq(OutputLine) \cup {NULL}]
        BY <1>1, <2>2 DEF Directory
      <4>2. dir'.outputs \in [Repeat -> Seq(OutputLine) \cup {NULL}]
        BY <4>1, NoLines
      <4>3. dir' \in Directory
        BY <1>1, <2>2, <4>1, <4>2 DEF Directory
      <4> QED BY <2>2, <4>1, <4>3
    <3>2. Goto("OPEN")
      BY <1>1, <2>1, <2>2 DEF Goto
    <3> QED BY <1>1, <1>2, <2>1, <3>1, <3>2, RunGoesOn DEF States
  <2>3. CASE /\ \A r \in Repeat : dir.outputs[r] # NULL
             /\ dir' = [dir EXCEPT !.runs = IF @ = NULL THEN <<>> ELSE @]
             /\ Goto("NEXT")
    <3>1. <<>> \in Seq(RunLine) /\ <<>> # NULL
      BY NoLines
    <3>2. /\ dir' \in Directory /\ dir'.exists = dir.exists /\ dir'.outputs = dir.outputs
          /\ dir'.json = dir.json /\ dir'.runs # NULL
          /\ dir'.runs = dir.runs \/ (dir.runs = NULL /\ dir'.runs = <<>>)
      BY <1>1, <2>3, <3>1 DEF Directory
    <3> QED BY <1>1, <1>2, <2>1, <2>3, <3>2, RunGoesOn DEF States
  <2> QED BY <1>5, <2>2, <2>3 DEF OpenFiles
<1> QED BY <1>3, <1>4, <1>5

LEMMA RunDies ==
  ASSUME RunInv, Interrupt
  PROVE  RunInv'
<1>1. /\ runner.pc \notin {"IDLE", "FINISHED"} /\ runner' = [pc |-> "IDLE", done |-> {}]
      /\ reply' = NULL /\ UNCHANGED <<dir, copy, answered, published>>
  BY DEF Interrupt
<1>2. dir.exists /\ dir.json # "COMPLETE"
  BY <1>1 DEF RunInv, RunnerFits
<1>3. RunnerFits'
  BY <1>1, <1>2 DEF RunnerFits
<1>4. runner' \in [pc: States, done: SUBSET Attempts] /\ dir' \in Directory
  BY <1>1 DEF States, RunInv, RunTypes
<1>5. FilesTrue(dir', answered) /\ Once(dir')
  BY <1>1 DEF RunInv
<1> QED BY <1>1, <1>3, <1>4, <1>5, RunnerMoves

-----------------------------------------------------------------------------
(* The steps of an attempt.                                                *)
LEMMA MeantFacts ==
  ASSUME NEW c \in Cases, NEW told \in Replies
  PROVE  /\ Meant(c, told) \in Answers /\ Meant(c, told) # NULL /\ Meant(c, told).outcome = Outcome(told)
         /\ Outcome(told) = "OK" =>
              LET d == Parse(told.answer, GapsOf[c]) IN
              /\ IsAnswer(d) /\ Meant(c, told).row = Row(c, d)
              /\ Row(c, d) \in OutputLine /\ Row(c, d).case = c /\ Row(c, d).links = LinkCounts(d)
<1>1. Outcome(told) \in Outcomes \ {"NOT_CALLED"}
  BY RepliesAnswer
<1>2. Answers \subseteq Meaning
  BY DEF Answers, Meaning
<1>3. \A x \in Answers : x # NULL
  BY <1>2, NullAssumption
<1>4. CASE Outcome(told) # "OK"
  <2>1. Meant(c, told) = [outcome |-> Outcome(told), row |-> NULL]
    BY <1>4 DEF Meant
  <2> QED BY <1>1, <1>3, <1>4, <2>1 DEF Answers
<1>5. CASE Outcome(told) = "OK"
  <2> DEFINE d == Parse(told.answer, GapsOf[c])
             row == Row(c, d)
  <2>1. Meant(c, told) = [outcome |-> "OK", row |-> row]
    BY <1>5 DEF Meant
  <2>2. IsAnswer(d)
    BY <1>5, RepliesAnswer, ParseIsAnswer
  <2> HIDE DEF d
  <2>3. LinkCounts(d) \in Seq(Nat)
    BY <2>2, AnswerFacts
  <2>4. row.case = c /\ row.links = LinkCounts(d) /\ row.known \in BOOLEAN
        /\ row = [case |-> c, links |-> LinkCounts(d), known |-> row.known]
    BY DEF Row
  <2> HIDE DEF row
  <2>5. row \in OutputLine
    BY <2>3, <2>4 DEF OutputLine
  <2>6. Meant(c, told) \in Answers /\ Meant(c, told).outcome = "OK" /\ Meant(c, told).row = row
    BY <1>1, <1>5, <2>1, <2>5 DEF Answers
  <2> QED BY <1>3, <1>5, <2>2, <2>4, <2>5, <2>6 DEF d, row
<1> QED BY <1>4, <1>5

(* An attempt gets its record, and is done.                                *)
LEMMA AttemptRecorded ==
  ASSUME RunInv, runner.pc \in {"NEXT", "ANSWERED", "WRITTEN"}, NEW a, Due(a),
         a \in OutputIn(dir) <=> Answered(a),
         NEW rec \in RunLine, RecordTrue(rec, answered), AttemptOf(rec) = a,
         Log(rec), AttemptDone(a), reply' = NULL \/ reply' = reply,
         UNCHANGED <<copy, answered, published>>
  PROVE  RunInv'
<1>1. /\ a \in Attempts /\ a \notin runner.done /\ \A b : Due(b) => b = a
  BY DueIsOne
<1>2. /\ runner \in [pc: States, done: SUBSET Attempts] /\ dir \in Directory
      /\ FilesTrue(dir, answered) /\ Once(dir) /\ (reply = NULL \/ reply \in Replies)
  BY DEF RunInv, RunTypes
<1>3. /\ dir.exists /\ dir.runs # NULL /\ \A r \in Repeat : dir.outputs[r] # NULL
      /\ RecordedIn(dir) = runner.done /\ dir.json # "COMPLETE"
      /\ \A b \in Attempts : b # a => (b \in OutputIn(dir) <=> b \in runner.done /\ Answered(b))
  BY <1>1 DEF RunInv, RunnerFits
<1>4. runner' = [pc |-> "NEXT", done |-> runner.done \cup {a}]
  BY DEF AttemptDone
<1>5. /\ dir' \in Directory /\ dir'.runs # NULL /\ dir'.outputs = dir.outputs /\ dir'.json = dir.json
      /\ dir'.exists = dir.exists /\ FilesTrue(dir', answered) /\ Once(dir')
      /\ RecordedIn(dir') = RecordedIn(dir) \cup {a} /\ OutputIn(dir') = OutputIn(dir)
  <2>1. PICK e : e = dir'
    OBVIOUS
  <2>2. e = Logged(dir, rec)
    BY <2>1 DEF Log, Logged
  <2>3. AttemptOf(rec) \notin RecordedIn(dir)
    BY <1>1, <1>3
  <2>4. dir \in Directory /\ FilesTrue(dir, answered) /\ Once(dir) /\ dir.runs # NULL
    BY <1>2, <1>3
  <2>5. /\ e \in Directory /\ e.runs # NULL /\ e.outputs = dir.outputs /\ e.json = dir.json
        /\ e.exists = dir.exists /\ FilesTrue(e, answered) /\ Once(e)
        /\ RecordedIn(e) = RecordedIn(dir) \cup {AttemptOf(rec)} /\ OutputIn(e) = OutputIn(dir)
    BY <2>2, <2>3, <2>4, RunsGrow
  <2> QED BY <2>1, <2>5
<1>6. \A b \in Attempts : Answered(b)' <=> Answered(b)
  BY DEF Answered
<1>7. /\ RecordedIn(dir') = runner'.done
      /\ \A b \in Attempts : b \in OutputIn(dir') <=> b \in runner'.done /\ Answered(b)'
  BY <1>1, <1>3, <1>4, <1>5, <1>6
<1>8. RunnerFits'
  BY <1>3, <1>4, <1>5, <1>7 DEF RunnerFits
<1>9. runner' \in [pc: States, done: SUBSET Attempts]
  BY <1>1, <1>2, <1>4 DEF States
<1>10. reply' = NULL \/ reply' \in Replies
  BY <1>2
<1> QED BY <1>3, <1>5, <1>8, <1>9, <1>10, RunnerMoves

LEMMA RecordFacts ==
  ASSUME NEW a \in Attempts, NEW outcome \in Outcomes,
         NEW result \in [abstained: BOOLEAN \cup {NULL}, count: Nat \cup {NULL},
                         cited: Nat \cup {NULL}, accepted: BOOLEAN \cup {NULL}]
  PROVE  Record(a, outcome, result) \in RunLine /\ AttemptOf(Record(a, outcome, result)) = a
  BY AttemptParts DEF Record, RunLine, AttemptOf

LEMMA CaseSkipped ==
  ASSUME RunInv, NEW a \in Attempts, SkipCase(a)
  PROVE  RunInv'
<1> DEFINE rec == Record(a, "NOT_CALLED", NoResult)
<1>1. /\ runner.pc = "NEXT" /\ Due(a) /\ a[1] \in NotCalled /\ Log(rec) /\ AttemptDone(a)
      /\ UNCHANGED <<reply, copy, answered, published>>
  BY DEF SkipCase, Pending
<1>2. rec \in RunLine /\ AttemptOf(rec) = a
  BY RecordFacts DEF NoResult, Outcomes
<1> HIDE DEF rec
<1>3. RecordTrue(rec, answered)
  BY <1>1, <1>2 DEF RecordTrue, rec
<1>4. a \in OutputIn(dir) <=> Answered(a)
  BY <1>1, DueIsOne DEF RunInv, RunnerFits, Answered
<1> QED BY <1>1, <1>2, <1>3, <1>4, AttemptRecorded

(* What is known of the attempt an answer has come for.                    *)
LEMMA InHand ==
  ASSUME RunInv, runner.pc \in {"ANSWERED", "WRITTEN"}, NEW a \in Attempts, Due(a)
  PROVE  /\ a[1] \notin NotCalled /\ a[1] \in Cases /\ a[2] \in Repeat /\ a = <<a[1], a[2]>>
         /\ reply \in Replies /\ answered[a] # NULL /\ answered[a].outcome = Outcome(reply)
         /\ Outcome(reply) \in Outcomes \ {"NOT_CALLED"}
         /\ Outcome(reply) = "OK" =>
              /\ IsAnswer(Draft(a)) /\ answered[a].row = Row(a[1], Draft(a))
              /\ Row(a[1], Draft(a)) \in OutputLine /\ Row(a[1], Draft(a)).case = a[1]
              /\ Row(a[1], Draft(a)).links = LinkCounts(Draft(a))
         /\ a \in OutputIn(dir) <=> runner.pc = "WRITTEN"
<1>1. /\ reply \in Replies /\ a[1] \notin NotCalled /\ answered[a] = Meant(a[1], reply)
      /\ a \in OutputIn(dir) <=> (a \in runner.done /\ Answered(a)) \/ runner.pc = "WRITTEN"
  BY DEF RunInv, RunnerFits
<1>2. a \notin runner.done /\ a[1] \in Cases /\ a[2] \in Repeat /\ a = <<a[1], a[2]>>
  BY DueIsOne, AttemptParts
<1>3. Outcome(reply) \in Outcomes \ {"NOT_CALLED"}
  BY <1>1, RepliesAnswer
<1>4. Outcome(reply) = "OK" =>
        /\ IsAnswer(Draft(a)) /\ answered[a].row = Row(a[1], Draft(a))
        /\ Row(a[1], Draft(a)) \in OutputLine /\ Row(a[1], Draft(a)).case = a[1]
        /\ Row(a[1], Draft(a)).links = LinkCounts(Draft(a))
  BY <1>1, <1>2, MeantFacts DEF Draft
<1>5. answered[a] # NULL /\ answered[a].outcome = Outcome(reply)
  BY <1>1, <1>2, MeantFacts
<1> QED BY <1>1, <1>2, <1>3, <1>4, <1>5

LEMMA FailureRecorded ==
  ASSUME RunInv, NEW a \in Attempts, RecordFailure(a)
  PROVE  RunInv'
<1> DEFINE rec == Record(a, Outcome(reply), NoResult)
<1>1. /\ runner.pc = "ANSWERED" /\ Due(a) /\ Outcome(reply) # "OK" /\ Log(rec) /\ AttemptDone(a)
      /\ reply' = NULL /\ UNCHANGED <<copy, answered, published>>
  BY DEF RecordFailure
<1>2. /\ a[1] \notin NotCalled /\ answered[a] # NULL /\ answered[a].outcome = Outcome(reply)
      /\ Outcome(reply) \in Outcomes /\ a \notin OutputIn(dir)
  BY <1>1, InHand
<1>3. rec \in RunLine /\ AttemptOf(rec) = a /\ rec.outcome = Outcome(reply)
  BY <1>2, RecordFacts DEF NoResult, Record
<1> HIDE DEF rec
<1>4. RecordTrue(rec, answered)
  BY <1>1, <1>2, <1>3 DEF RecordTrue
<1>5. ~Answered(a)
  BY <1>1, <1>2 DEF Answered
<1> QED BY <1>1, <1>2, <1>3, <1>4, <1>5, AttemptRecorded

LEMMA OutputRecorded ==
  ASSUME RunInv, NEW a \in Attempts, RecordOutput(a)
  PROVE  RunInv'
<1> DEFINE d == Draft(a)
           rec == Record(a, "OK", ResultOf(a[1], d))
<1>1. /\ runner.pc = "WRITTEN" /\ Due(a) /\ Log(rec) /\ AttemptDone(a)
      /\ reply' = NULL /\ UNCHANGED <<copy, answered, published>>
  BY DEF RecordOutput
<1>2. Outcome(reply) = "OK"
  BY <1>1 DEF RunInv, RunnerFits
<1>3. /\ a[1] \notin NotCalled /\ answered[a] # NULL /\ answered[a].outcome = "OK"
      /\ IsAnswer(d) /\ answered[a].row = Row(a[1], d) /\ a \in OutputIn(dir)
  BY <1>1, <1>2, InHand
<1> HIDE DEF d
<1>4. /\ Len(d.hypotheses) \in Nat /\ Citations(d) \in Nat
      /\ DOMAIN d.hypotheses = 1..Len(d.hypotheses)
      /\ LinkCounts(d) \in [DOMAIN d.hypotheses -> Nat]
  BY <1>3, AnswerFacts
<1>5. /\ rec \in RunLine /\ AttemptOf(rec) = a /\ rec.outcome = "OK"
      /\ rec.abstained = (d.hypotheses = <<>>) /\ rec.count = Len(d.hypotheses)
      /\ rec.cited = Citations(d) /\ rec.accepted = Accepted(d, EvidenceOf[a[1]], GapsOf[a[1]])
  <2>1. Accepted(d, EvidenceOf[a[1]], GapsOf[a[1]]) \in BOOLEAN
    BY DEF Accepted
  <2>2. ResultOf(a[1], d) \in [abstained: BOOLEAN \cup {NULL}, count: Nat \cup {NULL},
                               cited: Nat \cup {NULL}, accepted: BOOLEAN \cup {NULL}]
    BY <1>4, <2>1 DEF ResultOf
  <2>3. rec \in RunLine /\ AttemptOf(rec) = a
    BY <2>2, RecordFacts DEF Outcomes
  <2> QED BY <2>3 DEF Record, ResultOf
<1> HIDE DEF rec
<1>6. Agrees(rec, Row(a[1], d))
  <2>1. Row(a[1], d).links = LinkCounts(d) /\ Len(LinkCounts(d)) = Len(d.hypotheses)
    BY <1>4 DEF Row
  <2>2. LinkCounts(d) = <<>> <=> d.hypotheses = <<>>
    BY <1>3, <1>4, <2>1 DEF IsAnswer, IsSeq
  <2>3. rec.cited = Total(LinkCounts(d))
    BY <1>5 DEF Citations
  <2>4. Accepted(d, EvidenceOf[a[1]], GapsOf[a[1]]) => Row(a[1], d).known
    BY FixedIsAnswer DEF Accepted, LinksFit, Row
  <2> QED BY <1>5, <2>1, <2>2, <2>3, <2>4 DEF Agrees
<1>7. RecordTrue(rec, answered)
  BY <1>3, <1>5, <1>6 DEF RecordTrue
<1>8. Answered(a)
  BY <1>3 DEF Answered
<1> QED BY <1>1, <1>3, <1>5, <1>7, <1>8, AttemptRecorded

LEMMA OutputAppended ==
  ASSUME RunInv, NEW a \in Attempts, AppendOutput(a)
  PROVE  RunInv'
<1>1. PICK e, row, r : e = dir' /\ row = Row(a[1], Draft(a)) /\ r = a[2]
  OBVIOUS
<1>2. /\ runner.pc = "ANSWERED" /\ Due(a) /\ Outcome(reply) = "OK"
      /\ e = Printed(dir, r, row) /\ Goto("WRITTEN") /\ UNCHANGED <<reply, copy, answered, published>>
  BY <1>1 DEF AppendOutput, Printed
<1>3. /\ a[1] \notin NotCalled /\ r \in Repeat /\ a = <<row.case, r>> /\ answered[a] # NULL
      /\ answered[a].outcome = "OK" /\ answered[a].row = row /\ row \in OutputLine
      /\ row.case = a[1] /\ a \notin OutputIn(dir) /\ reply \in Replies
  BY <1>1, <1>2, InHand
<1>4. dir \in Directory /\ FilesTrue(dir, answered) /\ Once(dir)
  BY DEF RunInv, RunTypes
<1>5. /\ dir.exists /\ dir.runs # NULL /\ dir.json # "COMPLETE" /\ RecordedIn(dir) = runner.done
      /\ \A q \in Repeat : dir.outputs[q] # NULL
      /\ \A b \in Attempts : Due(b) => b[1] \notin NotCalled /\ answered[b] = Meant(b[1], reply)
      /\ \A b \in Attempts : b \in OutputIn(dir) <=> b \in runner.done /\ Answered(b)
  BY <1>2 DEF RunInv, RunnerFits
<1>6. RowTrue(row, r, answered)
  BY <1>3 DEF RowTrue
<1>7. dir.outputs[r] # NULL /\ <<row.case, r>> \notin OutputIn(dir)
  BY <1>3, <1>5
<1>8. /\ e \in Directory /\ \A q \in Repeat : dir.outputs[q] # NULL => e.outputs[q] # NULL
      /\ e.runs = dir.runs /\ e.json = dir.json /\ e.exists = dir.exists
      /\ FilesTrue(e, answered) /\ Once(e)
      /\ RecordedIn(e) = RecordedIn(dir) /\ OutputIn(e) = OutputIn(dir) \cup {a}
  <2>1. e = Printed(dir, r, row) /\ r \in Repeat /\ row \in OutputLine /\ a = <<row.case, r>>
    BY <1>2, <1>3
  <2> QED BY <1>4, <1>6, <1>7, <2>1, OutputsGrow
<1>9. runner' = [pc |-> "WRITTEN", done |-> runner.done] /\ runner.done \in SUBSET Attempts
  BY <1>2 DEF Goto, RunInv, RunTypes
<1>10. \A b : /\ Due(b)' <=> Due(b)
              /\ Answered(b)' <=> Answered(b)
              /\ Due(b) <=> b = a
  BY <1>2, <1>9, DueIsOne DEF Due, Left, Answered
<1>11. /\ RecordedIn(dir') = runner'.done
       /\ \A b \in Attempts : b \in OutputIn(dir') <=> \/ b \in runner'.done /\ Answered(b)'
                                                       \/ Due(b)'
  BY <1>1, <1>5, <1>8, <1>9, <1>10
<1>12. /\ Outcome(reply') = "OK" /\ reply' \in Replies
       /\ \A b \in Attempts : Due(b)' => b[1] \notin NotCalled /\ answered'[b] = Meant(b[1], reply')
  BY <1>2, <1>3, <1>5, <1>10
<1>13. RunnerFits'
  BY <1>1, <1>5, <1>8, <1>9, <1>11, <1>12 DEF RunnerFits
<1>14. runner' \in [pc: States, done: SUBSET Attempts]
  BY <1>9 DEF States
<1> QED BY <1>1, <1>2, <1>3, <1>5, <1>8, <1>13, <1>14, RunnerMoves

(* An answer to an attempt of which no file tells.                         *)
LEMMA AnswersKept ==
  ASSUME NEW d, NEW a \in Attempts, NEW ans, NEW more, FilesTrue(d, ans),
         a \notin RecordedIn(d), a \notin OutputIn(d), \A b \in Attempts : b # a => more[b] = ans[b]
  PROVE  FilesTrue(d, more)
<1>1. ASSUME d.runs # NULL, NEW rec \in RecordsOf(d) PROVE RecordTrue(rec, more)
  <2>1. RecordTrue(rec, ans)
    BY <1>1 DEF FilesTrue
  <2>2. AttemptOf(rec) \in Attempts /\ AttemptOf(rec) # a
    BY <1>1, <2>1 DEF RecordTrue, RecordedIn
  <2> QED BY <2>1, <2>2 DEF RecordTrue
<1>2. ASSUME NEW r \in Repeat, d.outputs[r] # NULL, NEW row \in RowsOf(d, r) PROVE RowTrue(row, r, more)
  <2>1. RowTrue(row, r, ans)
    BY <1>2 DEF FilesTrue
  <2>2. <<row.case, r>> \in Attempts /\ <<row.case, r>> # a
    BY <1>2, <2>1 DEF RowTrue, OutputIn
  <2> QED BY <2>1, <2>2 DEF RowTrue
<1> QED BY <1>1, <1>2 DEF FilesTrue

LEMMA ProviderAsked ==
  ASSUME RunInv, NEW a \in Attempts, AskProvider(a)
  PROVE  RunInv'
<1>1. /\ runner.pc = "NEXT" /\ Due(a) /\ a[1] \notin NotCalled /\ reply' \in Replies
      /\ answered' = [answered EXCEPT ![a] = Meant(a[1], reply')]
      /\ Goto("ANSWERED") /\ UNCHANGED <<dir, copy, published>>
  BY DEF AskProvider, Pending
<1>2. PICK m : m = Meant(a[1], reply')
  OBVIOUS
<1>3. /\ m \in Answers /\ m # NULL
      /\ m.outcome = "OK" => m.row \in OutputLine /\ m.row.case = a[1]
  BY <1>1, <1>2, AttemptParts, MeantFacts
<1>4. /\ answered \in [Attempts -> Answers \cup {NULL}] /\ runner \in [pc: States, done: SUBSET Attempts]
      /\ \A b \in Attempts : answered[b] # NULL /\ answered[b].outcome = "OK" =>
           answered[b].row \in OutputLine /\ answered[b].row.case = b[1]
  BY DEF RunInv, RunTypes
<1>5. /\ answered' \in [Attempts -> Answers \cup {NULL}] /\ answered'[a] = m
      /\ \A b \in Attempts : b # a => answered'[b] = answered[b]
  BY <1>1, <1>2, <1>3, <1>4
<1>6. /\ a \notin RecordedIn(dir) /\ a \notin OutputIn(dir)
      /\ a \notin RecordedIn(copy.files) /\ a \notin OutputIn(copy.files)
  BY <1>1, DueIsOne DEF RunInv, RunnerFits, CopyFits
<1>7. FilesTrue(dir, answered') /\ FilesTrue(copy.files, answered')
  <2>1. FilesTrue(dir, answered) /\ FilesTrue(copy.files, answered)
    BY DEF RunInv
  <2>2. PICK more : more = answered'
    OBVIOUS
  <2>3. \A b \in Attempts : b # a => more[b] = answered[b]
    BY <1>5, <2>2
  <2>4. FilesTrue(dir, more) /\ FilesTrue(copy.files, more)
    BY <1>6, <2>1, <2>3, AnswersKept
  <2> QED BY <2>2, <2>4
<1>8. runner' = [pc |-> "ANSWERED", done |-> runner.done]
  BY <1>1, <1>4 DEF Goto
<1>9. RunTypes'
  <2>1. runner' \in [pc: States, done: SUBSET Attempts]
    BY <1>4, <1>8 DEF States
  <2>2. \A b \in Attempts : answered'[b] # NULL /\ answered'[b].outcome = "OK" =>
          answered'[b].row \in OutputLine /\ answered'[b].row.case = b[1]
    BY <1>3, <1>4, <1>5
  <2> QED BY <1>1, <1>5, <2>1, <2>2 DEF RunInv, RunTypes
<1>10. RunnerFits'
  <2>1. /\ dir.exists /\ dir.runs # NULL /\ dir.json # "COMPLETE" /\ RecordedIn(dir) = runner.done
        /\ \A q \in Repeat : dir.outputs[q] # NULL
        /\ \A b \in Attempts : b \in OutputIn(dir) <=> b \in runner.done /\ Answered(b)
    BY <1>1 DEF RunInv, RunnerFits
  <2>2. a \notin runner.done /\ \A b : Due(b)' => b = a
    BY <1>1, <1>8, DueIsOne DEF Due, Left
  <2>3. \A b \in Attempts : b \in OutputIn(dir) <=> b \in runner.done /\ Answered(b)'
    BY <1>5, <2>1, <2>2 DEF Answered
  <2>4. \A b \in Attempts : Due(b)' => b[1] \notin NotCalled /\ answered'[b] = Meant(b[1], reply')
    BY <1>1, <1>2, <1>5, <2>2
  <2> QED BY <1>1, <1>8, <2>1, <2>3, <2>4 DEF RunnerFits
<1>11. CopyFits'
  BY <1>1 DEF RunInv, CopyFits
<1> QED BY <1>1, <1>7, <1>9, <1>10, <1>11 DEF RunInv

-----------------------------------------------------------------------------
(* The steps of the copy.                                                  *)
LEMMA CopyMoves ==
  ASSUME RunInv, UNCHANGED <<runner, reply, dir, answered>>,
         copy' \in [files: Directory, left: SUBSET FileNames], published' \in BOOLEAN,
         FilesTrue(copy'.files, answered), CopyFits',
         dir.exists \/ copy' = [files |-> NoFiles, left |-> {}]
  PROVE  RunInv'
<1>1. RunTypes'
  BY DEF RunInv, RunTypes
<1>2. RunnerFits'
  <2>1. \A b : (Answered(b)' <=> Answered(b)) /\ (Due(b)' <=> Due(b))
    BY DEF Answered, Due, Left
  <2> QED BY <2>1 DEF RunInv, RunnerFits
<1> QED BY <1>1, <1>2 DEF RunInv

LEMMA CopyBegun ==
  ASSUME RunInv, BeginCopy
  PROVE  RunInv'
<1>1. PICK e : e = [NoFiles EXCEPT !.exists = TRUE]
  OBVIOUS
<1>2. /\ dir.exists /\ ~copy.files.exists /\ copy' = [files |-> e, left |-> Names(dir)]
      /\ UNCHANGED <<runner, reply, dir, answered, published>>
  BY <1>1 DEF BeginCopy
<1>3. e \in Directory /\ e.runs = NoFiles.runs /\ e.outputs = NoFiles.outputs /\ e.json = NULL
  BY <1>1, NoFilesFacts DEF Directory, NoFiles
<1>4. FilesTrue(e, answered) /\ RecordedIn(e) = {} /\ OutputIn(e) = {}
  <2>1. NoFiles \in Directory /\ FilesTrue(NoFiles, answered) /\ Once(NoFiles)
    BY NoFilesFacts
  <2> QED BY <1>3, <2>1, NoFilesFacts, SameLines
<1>5. Names(dir) \in SUBSET FileNames
  BY DEF Names, FileNames
<1>6. ~published /\ published \in BOOLEAN
  BY <1>2 DEF RunInv, RunTypes, CopyFits
<1>7. NULL # "COMPLETE"
  BY NullAssumption DEF JsonStatus
<1>8. CopyFits'
  BY <1>2, <1>3, <1>4, <1>6, <1>7 DEF CopyFits
<1> QED BY <1>2, <1>3, <1>4, <1>5, <1>6, <1>8, CopyMoves

(* One file of a directory is replaced by that of another.                 *)
LEMMA FileReplaced ==
  ASSUME NEW c \in Directory, NEW d \in Directory, NEW ans, FilesTrue(c, ans), FilesTrue(d, ans),
         RecordedIn(c) \subseteq RecordedIn(d), OutputIn(c) \subseteq OutputIn(d),
         NEW e \in Directory, e.runs \in {c.runs, d.runs},
         \A r \in Repeat : e.outputs[r] \in {c.outputs[r], d.outputs[r]}
  PROVE  FilesTrue(e, ans) /\ RecordedIn(e) \subseteq RecordedIn(d) /\ OutputIn(e) \subseteq OutputIn(d)
<1>1. /\ e.runs = c.runs => RecordsOf(e) = RecordsOf(c)
      /\ e.runs = d.runs => RecordsOf(e) = RecordsOf(d)
  BY DEF RecordsOf
<1>2. \A r \in Repeat : /\ e.outputs[r] = c.outputs[r] => RowsOf(e, r) = RowsOf(c, r)
                        /\ e.outputs[r] = d.outputs[r] => RowsOf(e, r) = RowsOf(d, r)
  BY DEF RowsOf
<1>3. e.runs # NULL => \A rec \in RecordsOf(e) : RecordTrue(rec, ans)
  BY <1>1 DEF FilesTrue
<1>4. \A r \in Repeat : e.outputs[r] # NULL => \A row \in RowsOf(e, r) : RowTrue(row, r, ans)
  BY <1>2 DEF FilesTrue
<1>5. RecordedIn(e) \subseteq RecordedIn(d)
  BY <1>1 DEF RecordedIn
<1>6. OutputIn(e) \subseteq OutputIn(d)
  <2> SUFFICES ASSUME NEW a \in Attempts, a \in OutputIn(e) PROVE a \in OutputIn(d)
    BY DEF OutputIn
  <2>1. a[2] \in Repeat /\ e.outputs[a[2]] # NULL /\ \E row \in RowsOf(e, a[2]) : row.case = a[1]
    BY AttemptParts DEF OutputIn
  <2>2. CASE e.outputs[a[2]] = d.outputs[a[2]]
    BY <1>2, <2>1, <2>2 DEF OutputIn
  <2>3. CASE e.outputs[a[2]] = c.outputs[a[2]]
    <3>1. a \in OutputIn(c)
      BY <1>2, <2>1, <2>3 DEF OutputIn
    <3> QED BY <3>1
  <2> QED BY <2>1, <2>2, <2>3
<1> QED BY <1>3, <1>4, <1>5, <1>6 DEF FilesTrue

LEMMA FileCopied ==
  ASSUME RunInv, CopyFile
  PROVE  RunInv'
<1>1. PICK name \in copy.left :
        copy' = [left  |-> copy.left \ {name},
                 files |-> CASE name[1] = "json" -> [copy.files EXCEPT !.json = dir.json]
                             [] name[1] = "tmp"  -> [copy.files EXCEPT !.tmp = dir.tmp]
                             [] name[1] = "runs" -> [copy.files EXCEPT !.runs = dir.runs]
                             [] OTHER -> [copy.files EXCEPT !.outputs[name[2]] = dir.outputs[name[2]]]]
  BY DEF CopyFile
<1>2. UNCHANGED <<runner, reply, dir, answered, published>>
  BY DEF CopyFile
<1>3. PICK c, e : c = copy.files /\ e = copy'.files
  OBVIOUS
<1>4. /\ c \in Directory /\ dir \in Directory /\ copy.left \in SUBSET FileNames /\ name \in FileNames
      /\ FilesTrue(c, answered) /\ FilesTrue(dir, answered) /\ published \in BOOLEAN
      /\ RecordedIn(c) \subseteq RecordedIn(dir) /\ OutputIn(c) \subseteq OutputIn(dir)
      /\ c.json = "COMPLETE" => dir.json = "COMPLETE"
      /\ ~published
  BY <1>3 DEF RunInv, RunTypes, CopyFits
<1>5. dir.exists
  BY DEF RunInv, RunnerFits, CopyFile
<1>6. /\ e \in Directory /\ e.runs \in {c.runs, dir.runs} /\ e.json \in {c.json, dir.json}
      /\ \A r \in Repeat : e.outputs[r] \in {c.outputs[r], dir.outputs[r]}
  <2>1. CASE name[1] = "json"
    <3>1. e = [c EXCEPT !.json = dir.json]
      BY <1>1, <1>3, <2>1
    <3> QED BY <1>4, <3>1 DEF Directory
  <2>2. CASE name[1] = "tmp"
    <3>1. e = [c EXCEPT !.tmp = dir.tmp]
      BY <1>1, <1>3, <2>2
    <3> QED BY <1>4, <3>1 DEF Directory
  <2>3. CASE name[1] = "runs"
    <3>1. e = [c EXCEPT !.runs = dir.runs]
      BY <1>1, <1>3, <2>3
    <3> QED BY <1>4, <3>1 DEF Directory
  <2>4. CASE name[1] \notin {"json", "tmp", "runs"}
    <3>1. PICK r : r = name[2]
      OBVIOUS
    <3>2. e = [c EXCEPT !.outputs[r] = dir.outputs[r]]
      BY <1>1, <1>3, <2>4, <3>1
    <3>3. r \in Repeat
      BY <1>4, <2>4, <3>1 DEF FileNames
    <3>4. /\ e.runs = c.runs /\ e.json = c.json /\ e.tmp = c.tmp /\ e.exists = c.exists
          /\ e.outputs = [c.outputs EXCEPT ![r] = dir.outputs[r]]
          /\ c.outputs \in [Repeat -> Seq(OutputLine) \cup {NULL}]
          /\ dir.outputs \in [Repeat -> Seq(OutputLine) \cup {NULL}]
      BY <1>4, <3>2 DEF Directory
    <3>5. e.outputs \in [Repeat -> Seq(OutputLine) \cup {NULL}]
      BY <3>3, <3>4
    <3>6. e \in Directory
      BY <1>4, <3>2, <3>4, <3>5 DEF Directory
    <3> QED BY <3>3, <3>4, <3>6
  <2> QED BY <2>1, <2>2, <2>3, <2>4
<1>7. FilesTrue(e, answered) /\ RecordedIn(e) \subseteq RecordedIn(dir) /\ OutputIn(e) \subseteq OutputIn(dir)
  BY <1>4, <1>6, FileReplaced
<1>8. e.json = "COMPLETE" => dir.json = "COMPLETE"
  BY <1>4, <1>6
<1>9. CopyFits'
  BY <1>2, <1>3, <1>4, <1>7, <1>8 DEF CopyFits
<1>10. copy' = [left |-> copy.left \ {name}, files |-> e]
  BY <1>1, <1>3
<1>11. copy' \in [files: Directory, left: SUBSET FileNames]
  BY <1>4, <1>6, <1>10
<1> QED BY <1>2, <1>3, <1>4, <1>5, <1>7, <1>9, <1>11, CopyMoves

LEMMA CopyJudged ==
  ASSUME RunInv, Discard \/ Publish
  PROVE  RunInv'
<1>1. UNCHANGED <<runner, reply, dir, answered>>
  BY DEF Discard, Publish
<1>2. CASE Discard
  <2>1. copy' = [files |-> NoFiles, left |-> {}] /\ ~published' /\ published' \in BOOLEAN
    BY <1>2 DEF Discard, RunInv, RunTypes
  <2>2. NULL # "COMPLETE" /\ NoFiles.json = NULL
    BY NullAssumption DEF JsonStatus, NoFiles
  <2>3. CopyFits'
    BY <2>1, <2>2, NoFilesFacts DEF CopyFits
  <2>4. copy' \in [files: Directory, left: SUBSET FileNames] /\ FilesTrue(copy'.files, answered)
    BY <2>1, NoFilesFacts
  <2> QED BY <1>1, <2>1, <2>3, <2>4, CopyMoves
<1>3. CASE Publish
  <2>1. /\ copy.files.exists /\ copy.left = {} /\ \E odd \in SUBSET Circumstances : Eligible(copy.files, odd)
        /\ published' = TRUE /\ copy' = copy
    BY <1>3 DEF Publish
  <2>2. CopyFits'
    BY <1>1, <2>1 DEF RunInv, CopyFits
  <2>3. copy' \in [files: Directory, left: SUBSET FileNames] /\ FilesTrue(copy'.files, answered)
    BY <2>1 DEF RunInv, RunTypes
  <2>4. dir.exists
    BY <2>1, NoFilesFacts DEF RunInv, RunnerFits, NoFiles
  <2> QED BY <1>1, <2>1, <2>2, <2>3, <2>4, CopyMoves
<1> QED BY <1>2, <1>3

-----------------------------------------------------------------------------
LEMMA RunStep == RunInv /\ [Next]_vars => RunInv'
<1> SUFFICES ASSUME RunInv, [Next]_vars PROVE RunInv'
  OBVIOUS
<1>1. CASE UNCHANGED runVars
  <2>1. UNCHANGED <<runner, reply, dir, copy, answered, published>>
    BY <1>1 DEF runVars
  <2>2. \A a : (Due(a)' <=> Due(a)) /\ (Answered(a)' <=> Answered(a))
    BY <2>1 DEF Due, Left, Answered
  <2>3. RunTypes' /\ CopyFits'
    BY <2>1 DEF RunInv, RunTypes, CopyFits
  <2>4. RunnerFits'
    BY <2>1, <2>2 DEF RunInv, RunnerFits
  <2> QED BY <2>1, <2>3, <2>4 DEF RunInv
<1>2. CASE Run
  <2>1. ASSUME NEW a \in Attempts,
               SkipCase(a) \/ AskProvider(a) \/ RecordFailure(a) \/ AppendOutput(a) \/ RecordOutput(a)
        PROVE  RunInv'
    BY <2>1, CaseSkipped, ProviderAsked, FailureRecorded, OutputAppended, OutputRecorded
  <2> QED BY <1>2, <2>1, RunStart, RunFrame, RunDies DEF Run
<1>3. CASE BeginCopy \/ CopyFile \/ Discard \/ Publish
  BY <1>3, CopyBegun, FileCopied, CopyJudged
<1> QED BY <1>1, <1>2, <1>3 DEF Next, CheckNext, WriteTemplate, EditReview, Adjudicate, Reviewing, vars

(* run_provider.py: whatever a run directory or a copy of it holds, at any *)
(* moment and whenever a runner died, is the record of an attempt that was *)
(* made and what the provider answered to it, and is there once.           *)
THEOREM RunInvariant == Spec => []RunInv
<1>1. Init => RunInv
  BY RunInitInv DEF Init
<1> QED BY <1>1, RunStep, PTL DEF Spec

LEMMA ReviewInvariant == Spec => []ReviewTypes
BY ReviewTypesInit, ReviewTypesStep, PTL DEF Spec

-----------------------------------------------------------------------------
(* Answers on their way to a report.                                       *)
LEMMA AnswerInHand ==
  ASSUME RunInv, Answering
  PROVE  reply \in Replies /\ IsAnswer(reply.answer) /\ (WellFormed(reply.answer) <=> Outcome(reply) = "OK")
<1>1. reply \in Replies /\ reply.kind = "ANSWER"
  BY DEF Answering, RunInv, RunTypes
<1> QED BY <1>1, RepliesAnswer DEF Outcome

(* SYSTEM_INSTRUCTIONS, analyze and _validate agree on everything but the  *)
(* form of a text: an answer that does as the model is told is turned down *)
(* exactly for a text _bounded_text refuses, for any evidence and gaps.    *)
THEOREM ObedienceSuffices == Spec => []ObedientUnlessText
<1>1. RunInv => ObedientUnlessText
  BY AnswerInHand, ObedientFits DEF ObedientUnlessText, Called, NotCalled
<1> QED BY <1>1, RunInvariant, PTL

(* _validate and models.py agree: the rows of a draft that is accepted     *)
(* meet every constraint of the tables they go into.                       *)
THEOREM AcceptedCanBeStored == Spec => []AcceptedIsStorable
<1>1. RunInv => AcceptedIsStorable
  BY AnswerInHand, ParseIsAnswer, AcceptedFits DEF AcceptedIsStorable
<1> QED BY <1>1, RunInvariant, PTL

-----------------------------------------------------------------------------
(* A directory that tells of the whole run.                                *)
Whole(d) == /\ d \in Directory /\ Readable(d) /\ FilesTrue(d, answered) /\ Once(d)
            /\ answered \in [Attempts -> Answers \cup {NULL}]
            /\ RecordedIn(d) = Attempts
            /\ \A a \in Attempts : a \in OutputIn(d) <=> Answered(a)

LEMMA ExpectedAreAttempts == ExpectedAttempts = Attempts
<1>1. 1 \in Repeat
  BY RunAssumption DEF Repeat
<1> QED BY <1>1 DEF ExpectedAttempts, Attempts, Called, NotCalled

LEMMA FinishedWhole ==
  ASSUME RunInv, dir.json = "COMPLETE"
  PROVE  Whole(dir) /\ ~dir.tmp
  BY DEF RunInv, RunTypes, RunnerFits, Whole, Readable

LEMMA PublishedWhole ==
  ASSUME RunInv, published
  PROVE  Whole(copy.files) /\ copy.files.json = "COMPLETE" /\ ~copy.files.tmp
<1>1. PICK d : d = copy.files
  OBVIOUS
<1>2. d \in Directory /\ FilesTrue(d, answered) /\ answered \in [Attempts -> Answers \cup {NULL}]
  BY <1>1 DEF RunInv, RunTypes
<1>3. d.json = "COMPLETE" /\ ~d.tmp /\ Readable(d) /\ AttemptsComplete(d) /\ OutputsComplete(d)
  BY <1>1 DEF RunInv, CopyFits, Eligible, LayoutOk, DeclaredOk, Loads
<1>4. Once(d)
  BY <1>3 DEF Once, AttemptsComplete, OutputsComplete
<1>5. RecordedIn(d) = Attempts
  <2>1. {AttemptOf(rec) : rec \in RecordsOf(d)} = Attempts
    BY <1>3, ExpectedAreAttempts DEF AttemptsComplete
  <2> QED BY <1>3, <2>1 DEF RecordedIn, Readable
<1>6. ASSUME NEW a \in Attempts PROVE a \in OutputIn(d) <=> Answered(a)
  <2>1. a[1] \in Cases /\ a[2] \in Repeat /\ a = <<a[1], a[2]>>
    BY AttemptParts
  <2>2. PICK rec \in RecordsOf(d) : AttemptOf(rec) = a
    BY <1>5 DEF RecordedIn
  <2>3. rec.case = a[1] /\ rec.repeat = a[2] /\ RecordTrue(rec, answered)
    BY <1>2, <1>3, <2>1, <2>2 DEF AttemptOf, FilesTrue, Readable
  <2>4. CASE a \in OutputIn(d)
    <3>1. PICK row \in RowsOf(d, a[2]) : row.case = a[1] /\ d.outputs[a[2]] # NULL
      BY <2>4 DEF OutputIn
    <3>2. RowTrue(row, a[2], answered)
      BY <1>2, <2>1, <3>1 DEF FilesTrue
    <3> QED BY <2>1, <2>4, <3>1, <3>2 DEF RowTrue, Answered
  <2>5. CASE Answered(a)
    <3>1. rec.outcome = "OK"
      BY <2>2, <2>3, <2>5 DEF RecordTrue, Answered
    <3>2. \E row \in RowsOf(d, a[2]) : row.case = a[1]
      BY <1>3, <2>1, <2>2, <2>3, <3>1 DEF OutputsComplete
    <3> QED BY <1>3, <2>1, <2>5, <3>2 DEF OutputIn, Readable
  <2> QED BY <2>4, <2>5
<1> QED BY <1>1, <1>2, <1>3, <1>4, <1>5, <1>6 DEF Whole

(* What the lines of a whole directory are.                                *)
LEMMA WholeLines ==
  ASSUME NEW d, Whole(d)
  PROVE  /\ \A rec \in RecordsOf(d) : /\ RecordTrue(rec, answered) /\ AttemptOf(rec) \in Attempts
                                      /\ rec \in RunLine
         /\ \A rec, other \in RecordsOf(d) : AttemptOf(rec) = AttemptOf(other) => rec = other
         /\ \A a \in Attempts : \E rec \in RecordsOf(d) : AttemptOf(rec) = a
         /\ \A r \in Repeat : \A row \in RowsOf(d, r) : RowTrue(row, r, answered)
         /\ \A a \in Attempts : Answered(a) =>
              \E row \in RowsOf(d, a[2]) : row.case = a[1]
<1>1. d.runs # NULL /\ d.runs \in Seq(RunLine) /\ \A r \in Repeat : d.outputs[r] # NULL
  BY DEF Whole, Readable, Directory
<1>2. \A rec \in RecordsOf(d) : RecordTrue(rec, answered) /\ AttemptOf(rec) \in Attempts
  BY <1>1 DEF Whole, FilesTrue, RecordTrue
<1>3. \A rec \in RecordsOf(d) : rec \in RunLine
  BY <1>1 DEF RecordsOf
<1>4. \A rec, other \in RecordsOf(d) : AttemptOf(rec) = AttemptOf(other) => rec = other
  BY <1>1 DEF Whole, Once, RecordsOf
<1>5. \A a \in Attempts : \E rec \in RecordsOf(d) : AttemptOf(rec) = a
  BY DEF Whole, RecordedIn
<1>6. \A r \in Repeat : \A row \in RowsOf(d, r) : RowTrue(row, r, answered)
  BY <1>1 DEF Whole, FilesTrue
<1>7. \A a \in Attempts : Answered(a) => \E row \in RowsOf(d, a[2]) : row.case = a[1]
  BY DEF Whole, OutputIn
<1> QED BY <1>2, <1>3, <1>4, <1>5, <1>6, <1>7

LEMMA WholeTells ==
  ASSUME NEW d, Whole(d), NEW a \in Attempts
  PROVE  Tells(d, a)
<1> DEFINE mine == {rec \in RecordsOf(d) : AttemptOf(rec) = a}
           rows == {row \in RowsOf(d, a[2]) : row.case = a[1]}
<1>1. a[1] \in Cases /\ a[2] \in Repeat /\ a = <<a[1], a[2]>>
  BY AttemptParts
<1>2. PICK rec \in RecordsOf(d) : AttemptOf(rec) = a
  BY WholeLines
<1>3. mine = {rec} /\ RecordTrue(rec, answered)
  BY <1>2, WholeLines
<1>4. \A row \in rows : RowTrue(row, a[2], answered) /\ <<row.case, a[2]>> = a
  BY <1>1, WholeLines
<1>5. CASE a[1] \in NotCalled
  <2>1. mine = {Record(a, "NOT_CALLED", NoResult)}
    BY <1>2, <1>3, <1>5 DEF RecordTrue
  <2>2. rows = {}
    BY <1>4, <1>5 DEF RowTrue
  <2> QED BY <1>5, <2>1, <2>2 DEF Tells
<1>6. CASE a[1] \notin NotCalled
  <2>1. /\ answered[a] # NULL /\ rec.outcome = answered[a].outcome
        /\ rec.outcome = "OK" => rec.count = Len(answered[a].row.links)
    BY <1>2, <1>3, <1>6 DEF RecordTrue, Agrees
  <2>2. {x.outcome : x \in mine} = {answered[a].outcome}
    BY <1>3, <2>1
  <2>3. \A row \in rows : answered[a].outcome = "OK" /\ row = answered[a].row
    BY <1>4 DEF RowTrue
  <2>4. answered[a].outcome = "OK" => rows # {}
    BY <1>6, <2>1, WholeLines DEF Answered
  <2>5. rows = IF answered[a].outcome = "OK" THEN {answered[a].row} ELSE {}
    BY <2>3, <2>4
  <2>6. \A x \in mine : x.outcome = "OK" => x.count = Len(answered[a].row.links)
    BY <1>3, <2>1
  <2> HIDE DEF mine, rows
  <2>7. /\ answered[a] # NULL /\ {x.outcome : x \in mine} = {answered[a].outcome}
        /\ rows = IF answered[a].outcome = "OK" THEN {answered[a].row} ELSE {}
        /\ \A x \in mine : x.outcome = "OK" => x.count = Len(answered[a].row.links)
    BY <2>1, <2>2, <2>5, <2>6
  <2> QED BY <1>6, <2>7 DEF Tells, mine, rows
<1> QED BY <1>5, <1>6

LEMMA WholeLength ==
  ASSUME NEW d, Whole(d)
  PROVE  Len(d.runs) = Cardinality(Attempts) /\ IsFiniteSet(Attempts) /\ IsFiniteSet(RecordsOf(d))
<1> DEFINE n == Len(d.runs)
           at == [k \in 1..n |-> AttemptOf(d.runs[k])]
           rec == [k \in 1..n |-> d.runs[k]]
<1>1. n \in Nat /\ DOMAIN d.runs = 1..n /\ d.runs # NULL
  BY DEF Whole, Readable, Directory
<1>2. IsFiniteSet(1..n) /\ Cardinality(1..n) = n
  BY <1>1, FS_Interval
<1>3. RecordsOf(d) = {d.runs[k] : k \in 1..n}
  BY <1>1 DEF RecordsOf
<1>4. at \in Bijection(1..n, Attempts)
  <2>1. \A k \in 1..n : at[k] \in Attempts
    BY <1>3, WholeLines
  <2>2. \A a \in Attempts : \E k \in 1..n : at[k] = a
    BY <1>3, WholeLines
  <2>3. \A j, k \in 1..n : at[j] = at[k] => j = k
    BY <1>1 DEF Whole, Once
  <2> HIDE DEF n
  <2>4. at \in [1..n -> Attempts]
    BY <2>1
  <2>5. at \in Injection(1..n, Attempts)
    BY <2>3, <2>4 DEF Injection, IsInjective
  <2>6. at \in Surjection(1..n, Attempts)
    BY <2>2, <2>4 DEF Surjection
  <2> QED BY <2>5, <2>6 DEF Bijection
<1>5. rec \in Surjection(1..n, RecordsOf(d))
  BY <1>3 DEF Surjection
<1> HIDE DEF n, at, rec
<1> QED BY <1>2, <1>4, <1>5, FS_Bijection, FS_Surjection DEF ExistsBijection, n

(* check_publishable.py: what passes the check is a run that came to its   *)
(* end, told in full and nothing added, although the files were copied one *)
(* after the other while a runner might be writing or dying.               *)
THEOREM PublishedTrue == Spec => []PublishedIsTrue
<1>1. RunInv => PublishedIsTrue
  BY PublishedWhole, WholeTells, WholeLength, ExpectedAreAttempts DEF PublishedIsTrue
<1> QED BY <1>1, RunInvariant, PTL

(* summarize_reviews: a complete file that arrives late is never the       *)
(* reason for a valid directory of reviews to be refused.                  *)
THEOREM LateReviewsWelcome == Spec => []LateReviewHarmless
<1>1. ReviewTypes => LateReviewHarmless
  BY LateReview DEF LateReviewHarmless
<1> QED BY <1>1, ReviewInvariant, PTL

-----------------------------------------------------------------------------
(* What the tools make of a whole directory.                               *)
LEMMA WholeOutputs ==
  ASSUME NEW d, Whole(d), NEW rec \in OkRecords(d)
  PROVE  LET a == AttemptOf(rec)  row == OutputOf(d, rec) IN
         /\ a \in Attempts /\ a[1] \notin NotCalled /\ Answered(a)
         /\ row \in RowsOf(d, rec.repeat) /\ row = answered[a].row /\ row \in OutputLine
         /\ Agrees(rec, row)
<1>1. PICK a : a = AttemptOf(rec)
  OBVIOUS
<1>2. /\ rec \in RecordsOf(d) /\ rec.outcome = "OK" /\ a \in Attempts /\ RecordTrue(rec, answered)
      /\ a[1] = rec.case /\ a[2] = rec.repeat
  BY <1>1, WholeLines DEF OkRecords, AttemptOf
<1>3. a[1] \notin NotCalled
  BY <1>1, <1>2 DEF RecordTrue, Record
<1>4. /\ answered[a] # NULL /\ answered[a].outcome = "OK" /\ Agrees(rec, answered[a].row)
  BY <1>1, <1>2, <1>3 DEF RecordTrue
<1>5. Answered(a) /\ a[2] \in Repeat /\ a = <<a[1], a[2]>>
  BY <1>2, <1>3, <1>4, AttemptParts DEF Answered
<1>6. \E row \in RowsOf(d, rec.repeat) : row.case = rec.case
  BY <1>2, <1>5, WholeLines
<1>7. OutputOf(d, rec) \in RowsOf(d, rec.repeat) /\ OutputOf(d, rec).case = rec.case
  BY <1>6 DEF OutputOf
<1>8. OutputOf(d, rec) = answered[a].row
  <2>1. RowTrue(OutputOf(d, rec), a[2], answered)
    BY <1>2, <1>5, <1>7, WholeLines
  <2> QED BY <1>2, <1>5, <1>7, <2>1 DEF RowTrue
<1>9. OutputOf(d, rec) \in OutputLine
  <2>1. d.outputs[a[2]] \in Seq(OutputLine)
    BY <1>5 DEF Whole, Directory, Readable
  <2>2. \A k \in DOMAIN d.outputs[a[2]] : d.outputs[a[2]][k] \in OutputLine
    BY <2>1
  <2> QED BY <1>2, <1>7, <2>2 DEF RowsOf
<1> QED BY <1>1, <1>2, <1>3, <1>4, <1>5, <1>7, <1>8, <1>9

LEMMA WholeLoads ==
  ASSUME NEW d, Whole(d), d.json = "COMPLETE"
  PROVE  Loads(d)
<1>1. Readable(d)
  BY DEF Whole
<1>2. AttemptsComplete(d)
  <2>1. \A j, k \in DOMAIN d.runs : AttemptOf(d.runs[j]) = AttemptOf(d.runs[k]) => j = k
    BY DEF Whole, Once, Readable
  <2>2. {AttemptOf(rec) : rec \in RecordsOf(d)} = ExpectedAttempts
    BY WholeLines, ExpectedAreAttempts
  <2>3. ASSUME NEW rec \in RecordsOf(d) PROVE rec.outcome = "NOT_CALLED" <=> rec.case \in NotCalled
    <3>1. PICK a : a = AttemptOf(rec)
      OBVIOUS
    <3>2. a \in Attempts /\ RecordTrue(rec, answered) /\ a[1] = rec.case
      BY <3>1, WholeLines DEF AttemptOf
    <3>3. CASE a[1] \in NotCalled
      BY <3>1, <3>2, <3>3 DEF RecordTrue, Record
    <3>4. CASE a[1] \notin NotCalled
      <4>1. answered[a] # NULL /\ rec.outcome = answered[a].outcome
        BY <3>1, <3>2, <3>4 DEF RecordTrue
      <4>2. answered[a] \in Answers
        BY <3>2, <4>1 DEF Whole
      <4> QED BY <3>2, <3>4, <4>1, <4>2 DEF Answers
    <3> QED BY <3>3, <3>4
  <2> QED BY <2>1, <2>2, <2>3 DEF AttemptsComplete
<1>3. OutputsComplete(d)
  <2> SUFFICES ASSUME NEW r \in Repeat
               PROVE  {row.case : row \in RowsOf(d, r)} =
                      {rec.case : rec \in {x \in RecordsOf(d) : x.repeat = r /\ x.outcome = "OK"}}
    BY DEF OutputsComplete, Whole, Once, Readable
  <2>1. ASSUME NEW row \in RowsOf(d, r)
        PROVE  \E rec \in RecordsOf(d) : rec.repeat = r /\ rec.outcome = "OK" /\ rec.case = row.case
    <3>1. PICK a : a = <<row.case, r>>
      OBVIOUS
    <3>2. /\ a \in Attempts /\ a[1] \notin NotCalled /\ answered[a] # NULL
          /\ answered[a].outcome = "OK"
      BY <3>1, WholeLines DEF RowTrue
    <3>3. PICK rec \in RecordsOf(d) : AttemptOf(rec) = a /\ RecordTrue(rec, answered)
      BY <3>2, WholeLines
    <3>4. rec.outcome = "OK" /\ rec.case = row.case /\ rec.repeat = r
      BY <3>1, <3>2, <3>3 DEF RecordTrue, AttemptOf
    <3> QED BY <3>4
  <2>2. ASSUME NEW rec \in RecordsOf(d), rec.repeat = r, rec.outcome = "OK"
        PROVE  \E row \in RowsOf(d, r) : row.case = rec.case
    <3>1. rec \in OkRecords(d)
      BY <2>2 DEF OkRecords
    <3>2. Answered(AttemptOf(rec)) /\ AttemptOf(rec) \in Attempts
      BY <3>1, WholeOutputs
    <3>3. \E row \in RowsOf(d, AttemptOf(rec)[2]) : row.case = AttemptOf(rec)[1]
      BY <3>2, WholeLines
    <3> QED BY <2>2, <3>3 DEF AttemptOf
  <2> QED BY <2>1, <2>2
<1>4. RecordsAgree(d)
  BY WholeOutputs DEF RecordsAgree, Agrees
<1> QED BY <1>1, <1>2, <1>3, <1>4 DEF Loads

LEMMA WholeItems ==
  ASSUME NEW d, Whole(d)
  PROVE  Collectable(d) /\ IsFiniteSet(Items(d)) /\ ItemsCounted(d)
<1> DEFINE D == Reviewed(d)
           n(rec) == Len(OutputOf(d, rec).links)
           K == [rec \in D |-> {<<rec.case, rec.repeat, h>> : h \in DOMAIN OutputOf(d, rec).links}]
           S == Items(d)
           f == [rec \in D |-> rec.count]
<1>1. ASSUME NEW rec \in D
      PROVE  /\ rec \in OkRecords(d) /\ rec.accepted /\ Agrees(rec, OutputOf(d, rec))
             /\ OutputOf(d, rec).links \in Seq(Nat)
  BY WholeOutputs DEF Reviewed, OutputLine
<1>2. Collectable(d)
  BY <1>1 DEF Collectable, Agrees
<1>3. IsFiniteSet(D)
  <2>1. IsFiniteSet(RecordsOf(d)) /\ D \in SUBSET RecordsOf(d)
    BY WholeLength DEF Reviewed, OkRecords
  <2> QED BY <2>1, FS_Subset
<1>4. ASSUME NEW rec \in D
      PROVE  IsFiniteSet(K[rec]) /\ Cardinality(K[rec]) = rec.count
  <2> DEFINE m == n(rec)
             b == [h \in 1..m |-> <<rec.case, rec.repeat, h>>]
  <2>1. m \in Nat /\ DOMAIN OutputOf(d, rec).links = 1..m /\ rec.count = m
    BY <1>1 DEF Agrees
  <2>2. K[rec] = {<<rec.case, rec.repeat, h>> : h \in 1..m}
    BY <2>1
  <2> HIDE DEF K, m
  <2>3. b \in Bijection(1..m, K[rec])
    BY <2>2 DEF Bijection, Injection, Surjection, IsInjective
  <2>4. IsFiniteSet(1..m) /\ Cardinality(1..m) = m
    BY <2>1, FS_Interval
  <2> HIDE DEF b
  <2> QED BY <2>1, <2>3, <2>4, FS_Bijection DEF ExistsBijection
<1>5. S = UNION {K[rec] : rec \in D}
  BY DEF Items
<1>6. IsFiniteSet(S)
  <2> DEFINE g == [rec \in D |-> K[rec]]
             T == {K[rec] : rec \in D}
  <2>1. g \in Surjection(D, T)
    BY DEF Surjection
  <2>2. \A X \in T : IsFiniteSet(X)
    BY <1>4
  <2> HIDE DEF g, K, D, S
  <2>3. IsFiniteSet(T)
    BY <1>3, <2>1, FS_Surjection
  <2> HIDE DEF T
  <2>4. IsFiniteSet(UNION T)
    BY <2>2, <2>3, FS_UNION
  <2> QED BY <1>5, <2>4 DEF T
<1>7. K \in [D -> SUBSET S]
  BY <1>5
<1>8. \A rec, other \in D : rec # other => K[rec] \cap K[other] = {}
  BY <1>1, WholeLines DEF OkRecords, AttemptOf
<1>9. \A x \in S : \E rec \in D : x \in K[rec]
  BY <1>5
<1>10. f = [rec \in D |-> Cardinality(K[rec])]
  BY <1>4
<1> HIDE DEF f, K, S, D
<1>11. Total(f) = Cardinality(S)
  BY <1>3, <1>6, <1>7, <1>8, <1>9, <1>10, TotalOfClasses
<1>12. ItemsCounted(d)
  BY <1>11 DEF ItemsCounted, f, D, S
<1> QED BY <1>2, <1>6, <1>12 DEF S

(* run_provider.py against the three tools: a run that comes to its end    *)
(* can be loaded, reviewed and published, whatever the provider answered.  *)
THEOREM FinishedEligible == Spec => []FinishedIsEligible
<1>1. RunInv => FinishedIsEligible
  <2> SUFFICES ASSUME RunInv, dir.json = "COMPLETE" PROVE Eligible(dir, {})
    BY DEF FinishedIsEligible
  <2>1. Whole(dir) /\ ~dir.tmp /\ Readable(dir)
    BY FinishedWhole DEF Whole
  <2>2. Loads(dir) /\ Collectable(dir) /\ ItemsCounted(dir)
    BY <2>1, WholeLoads, WholeItems
  <2>3. dir.json # NULL
    BY NullAssumption DEF JsonStatus
  <2> QED BY <2>1, <2>2, <2>3 DEF Eligible, LayoutOk, DeclaredOk, NoSecret
<1> QED BY <1>1, RunInvariant, PTL

(* check_reviews_directory and summarize_reviews: label counts are shown   *)
(* only when each of them stands for two reviewers who agree, or for a     *)
(* ruling where they do not, and they leave no item out.                   *)
THEOREM CountsAreBacked == Spec => []CountsBacked
<1>1. RunInv /\ ReviewTypes => CountsBacked
  <2> SUFFICES ASSUME RunInv, ReviewTypes, ReviewsPublishable,
                      Status(reviews, adjudications, PublishedItems) = "PUBLISHABLE",
                      NEW dim \in Dimension
               PROVE  /\ Total(Counts(reviews, adjudications, PublishedItems)[dim]) = Cardinality(PublishedItems)
                      /\ \A i \in PublishedItems : \A v \in FinalLabels(reviews, adjudications, i, dim) :
                           \/ /\ \A r \in Reviewer : reviews[r] # NULL /\ i \in DOMAIN reviews[r] => reviews[r][i][dim] = v
                              /\ \E q, r \in Reviewer : q # r /\ {q, r} \subseteq Given(reviews, i)
                           \/ /\ i \in DOMAIN adjudications
                              /\ \E q, r \in Given(reviews, i) : reviews[q][i] # reviews[r][i]
    BY DEF CountsBacked
  <2>1. IsFiniteSet(PublishedItems)
    BY PublishedWhole, WholeItems, FS_EmptySet DEF PublishedItems
  <2>2. Valid(reviews, adjudications)
    BY DEF ReviewsPublishable
  <2>3. \A i \in PublishedItems : /\ Compared(reviews, i)
                                  /\ Disagreeing(reviews, i) => i \in DOMAIN adjudications
    BY DEF Status, Covered, Resolved
  <2> QED BY <2>1, <2>2, <2>3, EveryItemCounted, OneFinalLabel
<1> QED BY <1>1, RunInvariant, ReviewInvariant, PTL

-----------------------------------------------------------------------------
(* The numbers of a summary.                                               *)
LEMMA CalledFinite ==
  /\ IsFiniteSet(Called) /\ IsFiniteSet(Repeat) /\ Cardinality(Repeat) = Repeats /\ Repeats \in Nat
  /\ Called \subseteq Cases
<1> DEFINE n == Len(Corpus)
<1>1. n \in Nat /\ DOMAIN Corpus = 1..n
  BY RunAssumption DEF IsSeq
<1>2. IsFiniteSet(1..n)
  BY <1>1, FS_Interval
<1>3. Corpus \in Surjection(1..n, Cases)
  BY <1>1, RunAssumption DEF Surjection, Cases, IsSeq
<1>4. IsFiniteSet(Cases)
  BY <1>2, <1>3, FS_Surjection
<1>5. Called \in SUBSET Cases
  BY DEF Called
<1>6. IsFiniteSet(Called)
  BY <1>4, <1>5, FS_Subset
<1>7. Repeats \in Nat \ {0}
  BY RunAssumption
<1>8. IsFiniteSet(Repeat) /\ Cardinality(Repeat) = Repeats
  BY <1>7, FS_Interval DEF Repeat
<1> QED BY <1>5, <1>6, <1>7, <1>8

(* Called attempts are the pairs of a called case and a repeat; those with *)
(* a usable answer are the accepted records, the others the failures.      *)
LEMMA CalledAttempts ==
  /\ Called \X Repeat \subseteq Attempts
  /\ \A a \in Attempts : a[1] \notin NotCalled <=> a \in Called \X Repeat
<1>1. \A c \in Called, r \in Repeat : <<c, r>> \in Attempts
  BY DEF Attempts, Called
<1>2. \A a \in Attempts : a[1] \notin NotCalled <=> a \in Called \X Repeat
  BY AttemptParts DEF Called
<1> QED BY <1>1, <1>2

LEMMA WholeCalls ==
  ASSUME NEW d, Whole(d)
  PROVE  LET failed == {rec \in RecordsOf(d) : rec.outcome \notin {"OK", "NOT_CALLED"}}
             usable == {a \in Called \X Repeat : answered[a].outcome = "OK"}
         IN  /\ IsFiniteSet(usable) /\ IsFiniteSet(OkRecords(d)) /\ IsFiniteSet(failed)
             /\ Cardinality(usable) = Cardinality(OkRecords(d))
             /\ Repeats * Cardinality(Called) = Cardinality(failed) + Cardinality(usable)
             /\ \A a \in Called \X Repeat : answered[a] # NULL
             /\ \A c \in Called, r \in Repeat :
                  r \in OkRepeats(d, c) <=> answered[<<c, r>>].outcome = "OK"
<1> DEFINE failed == {rec \in RecordsOf(d) : rec.outcome \notin {"OK", "NOT_CALLED"}}
           all == Called \X Repeat
           usable == {a \in all : answered[a].outcome = "OK"}
           other == {a \in all : answered[a].outcome # "OK"}
           f == [rec \in OkRecords(d) |-> AttemptOf(rec)]
           g == [rec \in failed |-> AttemptOf(rec)]
<1>1. IsFiniteSet(OkRecords(d)) /\ IsFiniteSet(failed)
  <2>1. IsFiniteSet(RecordsOf(d)) /\ OkRecords(d) \in SUBSET RecordsOf(d) /\ failed \in SUBSET RecordsOf(d)
    BY WholeLength DEF OkRecords
  <2> HIDE DEF failed
  <2> QED BY <2>1, FS_Subset
<1>2. IsFiniteSet(all) /\ Cardinality(all) = Cardinality(Called) * Repeats
  BY CalledFinite, FS_Product
<1>3. ASSUME NEW rec \in RecordsOf(d), rec.outcome # "NOT_CALLED"
      PROVE  /\ AttemptOf(rec) \in all /\ answered[AttemptOf(rec)] # NULL
             /\ answered[AttemptOf(rec)].outcome = rec.outcome
  <2>1. RecordTrue(rec, answered) /\ AttemptOf(rec) \in Attempts
    BY WholeLines
  <2>2. AttemptOf(rec)[1] \notin NotCalled
    BY <1>3, <2>1 DEF RecordTrue, Record
  <2> QED BY <2>1, <2>2, CalledAttempts DEF RecordTrue
<1>4. ASSUME NEW a \in all
      PROVE  \E rec \in RecordsOf(d) : /\ AttemptOf(rec) = a /\ rec.outcome # "NOT_CALLED"
                                       /\ answered[a] # NULL /\ answered[a].outcome = rec.outcome
  <2>1. a \in Attempts /\ a[1] \notin NotCalled
    BY CalledAttempts
  <2>2. PICK rec \in RecordsOf(d) : AttemptOf(rec) = a /\ RecordTrue(rec, answered)
    BY <2>1, WholeLines
  <2>3. answered[a] # NULL /\ answered[a].outcome = rec.outcome
    BY <2>1, <2>2 DEF RecordTrue
  <2>4. answered[a] \in Answers
    BY <2>1, <2>3 DEF Whole
  <2> QED BY <2>2, <2>3, <2>4 DEF Answers
<1>5. \A rec, x \in RecordsOf(d) : AttemptOf(rec) = AttemptOf(x) => rec = x
  BY WholeLines
<1> HIDE DEF all
<1>6. f \in Bijection(OkRecords(d), usable)
  <2>1. \A rec \in OkRecords(d) : rec \in RecordsOf(d) /\ f[rec] \in usable
    BY <1>3 DEF OkRecords
  <2>2. \A a \in usable : \E rec \in OkRecords(d) : f[rec] = a
    BY <1>4 DEF OkRecords
  <2>3. \A rec, x \in OkRecords(d) : f[rec] = f[x] => rec = x
    BY <1>5, <2>1
  <2> HIDE DEF usable
  <2> QED BY <2>1, <2>2, <2>3 DEF Bijection, Injection, Surjection, IsInjective
<1>7. g \in Bijection(failed, other)
  <2>1. \A rec \in failed : rec \in RecordsOf(d) /\ g[rec] \in other
    BY <1>3
  <2>2. \A a \in other : \E rec \in failed : g[rec] = a
    BY <1>4
  <2>3. \A rec, x \in failed : g[rec] = g[x] => rec = x
    BY <1>5, <2>1
  <2> HIDE DEF other, failed
  <2> QED BY <2>1, <2>2, <2>3 DEF Bijection, Injection, Surjection, IsInjective
<1>8. usable \cup other = all /\ usable \cap other = {}
  OBVIOUS
<1> HIDE DEF f, g, usable, other, failed
<1>9. /\ IsFiniteSet(usable) /\ Cardinality(usable) = Cardinality(OkRecords(d))
      /\ IsFiniteSet(other) /\ Cardinality(other) = Cardinality(failed)
  BY <1>1, <1>6, <1>7, FS_Bijection DEF ExistsBijection
<1>10. /\ Cardinality(usable) \in Nat /\ Cardinality(other) \in Nat /\ Cardinality(Called) \in Nat
       /\ Cardinality(all) = Cardinality(usable) + Cardinality(other)
  <2>1. Cardinality(all) = Cardinality(usable) + Cardinality(other) - Cardinality(usable \cap other)
    BY <1>8, <1>9, FS_Union
  <2>2. Cardinality(usable \cap other) = 0
    BY <1>8, FS_EmptySet
  <2>3. Cardinality(usable) \in Nat /\ Cardinality(other) \in Nat /\ Cardinality(Called) \in Nat
    BY <1>9, CalledFinite, FS_CardinalityType
  <2> QED BY <2>1, <2>2, <2>3
<1>11. Repeats * Cardinality(Called) = Cardinality(failed) + Cardinality(usable)
  <2>1. Repeats * Cardinality(Called) = Cardinality(Called) * Repeats
    BY <1>10, CalledFinite
  <2>2. Cardinality(usable) + Cardinality(failed) = Cardinality(failed) + Cardinality(usable)
    BY <1>9, <1>10
  <2> QED BY <1>2, <1>9, <1>10, <2>1, <2>2
<1>12. \A a \in all : answered[a] # NULL
  BY <1>4
<1>13. ASSUME NEW c \in Called, NEW r \in Repeat
       PROVE  r \in OkRepeats(d, c) <=> answered[<<c, r>>].outcome = "OK"
  <2>1. PICK a : a = <<c, r>>
    OBVIOUS
  <2>2. PICK rec \in RecordsOf(d) : AttemptOf(rec) = a /\ answered[a].outcome = rec.outcome
    BY <1>4, <2>1 DEF all
  <2>3. r \in OkRepeats(d, c) <=> \E x \in OkRecords(d) : x.case = c /\ x.repeat = r
    BY DEF OkRepeats
  <2>4. \A x \in RecordsOf(d) : x.case = c /\ x.repeat = r <=> x = rec
    BY <1>5, <2>1, <2>2 DEF AttemptOf
  <2> QED BY <2>1, <2>2, <2>3, <2>4 DEF OkRecords
<1> QED BY <1>1, <1>9, <1>11, <1>12, <1>13 DEF failed, usable, all

LEMMA WholeScored ==
  ASSUME NEW d, Whole(d)
  PROVE  Total([c \in Called |-> Cardinality(OkRepeats(d, c))]) = Cardinality(OkRecords(d))
<1> DEFINE S == {a \in Called \X Repeat : answered[a].outcome = "OK"}
           K == [c \in Called |-> {<<c, r>> : r \in OkRepeats(d, c)}]
           f == [c \in Called |-> Cardinality(OkRepeats(d, c))]
<1>1. \A c \in Called : OkRepeats(d, c) \subseteq Repeat
  BY WholeLines DEF OkRepeats, OkRecords, RunLine
<1>2. \A c \in Called, r \in Repeat : r \in OkRepeats(d, c) <=> <<c, r>> \in S
  BY WholeCalls
<1>3. IsFiniteSet(S) /\ Cardinality(S) = Cardinality(OkRecords(d))
  BY WholeCalls
<1>4. ASSUME NEW c \in Called PROVE Cardinality(K[c]) = Cardinality(OkRepeats(d, c))
  <2> DEFINE R == OkRepeats(d, c)
             b == [r \in R |-> <<c, r>>]
  <2>1. IsFiniteSet(R)
    BY <1>1, CalledFinite, FS_Subset
  <2>2. K[c] = {<<c, r>> : r \in R}
    OBVIOUS
  <2> HIDE DEF R, K
  <2>3. b \in Bijection(R, K[c])
    BY <2>2 DEF Bijection, Injection, Surjection, IsInjective
  <2> HIDE DEF b
  <2>4. Cardinality(K[c]) = Cardinality(R)
    BY <2>1, <2>3, FS_Bijection DEF ExistsBijection
  <2> QED BY <2>4 DEF R
<1>5. K \in [Called -> SUBSET S]
  <2>1. \A c \in Called : \A x \in K[c] : x \in S
    BY <1>1, <1>2
  <2> HIDE DEF S
  <2> QED BY <2>1
<1>6. \A v, w \in Called : v # w => K[v] \cap K[w] = {}
  OBVIOUS
<1>7. \A x \in S : \E c \in Called : x \in K[c]
  <2> SUFFICES ASSUME NEW x \in S PROVE \E c \in Called : x \in K[c]
    OBVIOUS
  <2>1. PICK c \in Called, r \in Repeat : x = <<c, r>>
    OBVIOUS
  <2>2. r \in OkRepeats(d, c)
    BY <1>2, <2>1
  <2> QED BY <2>1, <2>2
<1>8. f = [c \in Called |-> Cardinality(K[c])]
  BY <1>4
<1> HIDE DEF S, K, f
<1>9. Total(f) = Cardinality(S)
  BY <1>3, <1>5, <1>6, <1>7, <1>8, CalledFinite, TotalOfClasses
<1> QED BY <1>3, <1>9 DEF f

LEMMA WholeDecision ==
  ASSUME NEW d, Whole(d), NEW c \in Called
  PROVE  Decision(d, c) = "CONSISTENT" <=>
           Cardinality(Usable(c)) >= 2 /\ (Declines(c) = {} \/ Declines(c) = Usable(c))
<1>1. OkRepeats(d, c) \subseteq Repeat
  BY WholeLines DEF OkRepeats, OkRecords, RunLine
<1>2. OkRepeats(d, c) = Usable(c)
  BY <1>1, WholeCalls DEF Usable
<1>3. Abstained(d, c) = Declines(c)
  <2> SUFFICES ASSUME NEW r \in Usable(c)
               PROVE  (\E row \in RowsOf(d, r) : row.case = c /\ row.links = <<>>)
                      <=> answered[<<c, r>>].row.links = <<>>
    BY <1>2 DEF Abstained, Declines
  <2>1. PICK a : a = <<c, r>>
    OBVIOUS
  <2>2. a \in Called \X Repeat /\ a \in Attempts /\ answered[a].outcome = "OK" /\ r \in Repeat
    BY <2>1, CalledAttempts DEF Usable
  <2>3. answered[a] # NULL /\ a[1] \notin NotCalled
    BY <2>2, WholeCalls, CalledAttempts
  <2>4. \E row \in RowsOf(d, r) : row.case = c
    BY <2>1, <2>2, <2>3, WholeLines DEF Answered
  <2>5. \A row \in RowsOf(d, r) : row.case = c => row = answered[a].row
    BY <2>1, <2>2, WholeLines DEF RowTrue
  <2> QED BY <2>1, <2>4, <2>5
<1>4. Cardinality(Usable(c)) \in Nat
  <2>1. Usable(c) \in SUBSET Repeat
    BY DEF Usable
  <2> QED BY <2>1, CalledFinite, FS_Subset, FS_CardinalityType
<1> QED BY <1>2, <1>3, <1>4 DEF Decision

(* summarize_run.py: the summary of a finished run leaves no planned call  *)
(* out, and what it says of a case is what the provider did.               *)
THEOREM SummaryIsTrue == Spec => []SummaryTrue
<1>1. RunInv => SummaryTrue
  <2> SUFFICES ASSUME RunInv, dir.json = "COMPLETE" PROVE SummaryTrue
    BY DEF SummaryTrue
  <2>1. PICK s : s = Summary(dir)
    OBVIOUS
  <2>2. Whole(dir)
    BY FinishedWhole
  <2>3. s.scored = Cardinality(OkRecords(dir))
    BY <2>1, <2>2, WholeScored DEF Summary
  <2>4. s.planned = s.failures + s.scored
    BY <2>1, <2>2, <2>3, WholeCalls DEF Summary
  <2>5. s.scored = s.accepted + s.rejected
    <3> DEFINE yes == {rec \in OkRecords(dir) : rec.accepted}
               no == {rec \in OkRecords(dir) : ~rec.accepted}
    <3>1. yes \cup no = OkRecords(dir) /\ yes \cap no = {}
      OBVIOUS
    <3>2. s.accepted = Cardinality(yes) /\ s.rejected = Cardinality(no)
      BY <2>1 DEF Summary
    <3>3. IsFiniteSet(OkRecords(dir)) /\ yes \in SUBSET OkRecords(dir) /\ no \in SUBSET OkRecords(dir)
      BY <2>2, WholeCalls
    <3> HIDE DEF yes, no
    <3>4. IsFiniteSet(yes) /\ IsFiniteSet(no)
      BY <3>3, FS_Subset
    <3>5. Cardinality(yes) \in Nat /\ Cardinality(no) \in Nat
      BY <3>4, FS_CardinalityType
    <3>6. Cardinality(yes \cup no) = Cardinality(yes) + Cardinality(no) - Cardinality(yes \cap no)
      BY <3>4, FS_Union
    <3>7. Cardinality(yes \cap no) = 0
      BY <3>1, FS_EmptySet
    <3>8. Cardinality(yes \cup no) = Cardinality(yes) + Cardinality(no)
      BY <3>5, <3>6, <3>7
    <3>9. Cardinality(yes \cup no) = Cardinality(OkRecords(dir))
      BY <3>1, Zenon
    <3> QED BY <2>3, <3>2, <3>8, <3>9
  <2>6. \A c \in Called : s.decision[c] = "CONSISTENT" <=>
          Cardinality(Usable(c)) >= 2 /\ (Declines(c) = {} \/ Declines(c) = Usable(c))
    BY <2>1, <2>2, WholeDecision DEF Summary
  <2> QED BY <2>1, <2>4, <2>5, <2>6 DEF SummaryTrue
<1> QED BY <1>1, RunInvariant, PTL
=============================================================================
