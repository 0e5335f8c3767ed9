---------------------------- MODULE AnswersProofs ----------------------------
(***************************************************************************)
(* Theorems about QueryRouting, EvidenceFlow and SentenceStream: the       *)
(* routing for any questions, sources, burdens, weights, recorded          *)
(* qualities and caps, the evidence for any chunks, legs, questions,       *)
(* windows and thresholds, the stream for any pieces and any size of its   *)
(* buffer.                                                                 *)
(*                                                                         *)
(* The route is decided a step after the analysis, so that it honours the  *)
(* question rests on what the analysis understood of it (Understood) and   *)
(* on the qualities being numbers (QualityOK).  A plan is made from the    *)
(* variants there are, so that it asks the question rests on which         *)
(* transform can have made which variant (VariantsOK).                     *)
(*                                                                         *)
(* What is shown was screened because the groups are (ScreenInv): no list  *)
(* a leg returns puts a chunk in a group without its being a member.  That *)
(* no group is left out rests on what a group is (Groups): their markers   *)
(* tell them apart, and their context costs something, so that a packing   *)
(* turn always finds a best one and the turns suffice (Packing).           *)
(*                                                                         *)
(* What is said of a sent answer has its causes nodes earlier, so that the *)
(* invariant carries them to it (AnswerInv): the decision is the policy's  *)
(* on what is shown, and the answer's conflicts and citations are of that. *)
(*                                                                         *)
(* A stream is exact because a feed is (FeedFacts): what it hands on and   *)
(* what it leaves are the text it had (SplitFacts), the sentences' ends    *)
(* being the text's in ascending order (BoundsOfSentences).                *)
(***************************************************************************)
EXTENDS QueryRouting, EvidenceFlow, SentenceStream, SelectionsProofs, FiniteSetTheorems

RoutingSpec == RoutingInit /\ [][RoutingNext]_routingVars

LEMMA MinProperties ==
  ASSUME NEW S \in SUBSET Nat, S # {}
  PROVE  Min(S) \in S /\ \A n \in S : Min(S) <= n
<1>1. PICK m \in S : \A n \in S : m <= n
  BY LeastNumber
<1> QED BY <1>1 DEF Min

LEMMA MaxProperties ==
  ASSUME NEW n \in Nat, NEW S \in SUBSET (0..n), S # {}
  PROVE  Max(S) \in S /\ \A m \in S : Max(S) >= m
<1> DEFINE T == {d \in Nat : \E i \in S : d = n - i}
<1>1. T \in SUBSET Nat /\ T # {}
  <2>1. PICK i \in S : TRUE
    OBVIOUS
  <2>2. n - i \in T
    OBVIOUS
  <2> QED BY <2>2
<1>2. PICK t \in T : \A u \in T : t <= u
  BY <1>1, LeastNumber
<1>3. PICK m \in S : t = n - m
  BY <1>2
<1>4. \A i \in S : m >= i
  <2> SUFFICES ASSUME NEW i \in S PROVE m >= i
    OBVIOUS
  <2>1. n - i \in T
    OBVIOUS
  <2>2. n - m <= n - i
    BY <1>2, <1>3, <2>1
  <2> QED BY <2>2
<1> QED BY <1>4 DEF Max

-----------------------------------------------------------------------------
(* What the analysis makes of the rules that fired. *)

LEMMA RuleFields ==
  /\ DOMAIN Rules = 1..8
  /\ Rules[1][1] = {"arithmetic"} /\ DOMAIN Rules[1][2] = {"intent", "complexity", "external", "citation"}
  /\ Rules[2][1] = {"self_referential"} /\ DOMAIN Rules[2][2] = {"external", "citation"}
  /\ Rules[3][1] = {"self_referential", "transform"} /\ DOMAIN Rules[3][2] = {"intent", "complexity"}
  /\ Rules[4][1] = {"live_data"} /\ DOMAIN Rules[4][2] = {"live", "external", "volatility"}
  /\ Rules[5][1] = {"exact_quotation"} /\ DOMAIN Rules[5][2] = {"quotation", "citation"}
  /\ Rules[6][1] = {"private_scope"} /\ DOMAIN Rules[6][2] = {"private", "external"}
  /\ Rules[7][1] = {"citation_demand"} /\ DOMAIN Rules[7][2] = {"citation"}
  /\ Rules[8][1] = {"multi_hop"} /\ DOMAIN Rules[8][2] = {"multi_hop", "complexity"}
BY DEF Rules

LEMMA RuleValues ==
  /\ Rules[1][2]["external"] = FALSE /\ Rules[2][2]["external"] = FALSE
  /\ Rules[4][2]["live"] = TRUE /\ Rules[4][2]["external"] = TRUE
  /\ Rules[5][2]["quotation"] = TRUE
  /\ Rules[6][2]["private"] = TRUE /\ Rules[6][2]["external"] = TRUE
BY DEF Rules

Fired == {i \in DOMAIN Rules : Rules[i][1] \subseteq ask.rules}
About(field) == {i \in Fired : field \in DOMAIN Rules[i][2]}
FieldsSettled ==
  [field \in UNION {DOMAIN Rules[i][2] : i \in Fired} |-> Rules[LastRuleWins(About(field))][2][field]]

\* The last rule that settles a field decides it.
LEMMA LastDecides ==
  ASSUME NEW k \in Fired, NEW field \in DOMAIN Rules[k][2]
  PROVE  /\ field \in DOMAIN FieldsSettled
         /\ \E i \in Fired : /\ i >= k /\ field \in DOMAIN Rules[i][2]
                             /\ FieldsSettled[field] = Rules[i][2][field]
<1> DEFINE last == LastRuleWins(About(field))
<1>1. About(field) \in SUBSET (0..8) /\ k \in About(field)
  BY RuleFields DEF About, Fired
<1>2. last \in About(field) /\ last >= k
  BY <1>1, MaxProperties DEF LastRuleWins
<1>3. field \in DOMAIN FieldsSettled /\ FieldsSettled[field] = Rules[last][2][field]
  BY DEF FieldsSettled
<1> HIDE DEF last
<1> QED BY <1>2, <1>3 DEF About

LEMMA SettledFacts ==
  /\ "live_data" \in ask.rules =>
       /\ {"live", "external"} \subseteq DOMAIN FieldsSettled
       /\ FieldsSettled["live"] = TRUE /\ FieldsSettled["external"] = TRUE
  /\ "exact_quotation" \in ask.rules => "quotation" \in DOMAIN FieldsSettled /\ FieldsSettled["quotation"] = TRUE
  /\ "private_scope" \in ask.rules =>
       /\ {"private", "external"} \subseteq DOMAIN FieldsSettled
       /\ FieldsSettled["private"] = TRUE /\ FieldsSettled["external"] = TRUE
<1>1. ASSUME "live_data" \in ask.rules
      PROVE  /\ {"live", "external"} \subseteq DOMAIN FieldsSettled
             /\ FieldsSettled["live"] = TRUE /\ FieldsSettled["external"] = TRUE
  <2>1. 4 \in Fired /\ Fired \subseteq 1..8
    BY <1>1, RuleFields DEF Fired
  <2>2. "live" \in DOMAIN FieldsSettled /\ FieldsSettled["live"] = TRUE
    <3>1. "live" \in DOMAIN Rules[4][2] /\ \A i \in 5..8 : "live" \notin DOMAIN Rules[i][2]
      BY RuleFields
    <3>2. PICK i \in Fired : /\ i >= 4 /\ "live" \in DOMAIN Rules[i][2]
                             /\ FieldsSettled["live"] = Rules[i][2]["live"]
      BY <2>1, <3>1, LastDecides
    <3>3. i = 4
      BY <2>1, <3>1, <3>2
    <3> QED BY <2>1, <3>1, <3>2, <3>3, LastDecides, RuleValues
  <2>3. "external" \in DOMAIN FieldsSettled /\ FieldsSettled["external"] = TRUE
    <3>1. "external" \in DOMAIN Rules[4][2] /\ \A i \in {5, 7, 8} : "external" \notin DOMAIN Rules[i][2]
      BY RuleFields
    <3>2. PICK i \in Fired : /\ i >= 4 /\ "external" \in DOMAIN Rules[i][2]
                             /\ FieldsSettled["external"] = Rules[i][2]["external"]
      BY <2>1, <3>1, LastDecides
    <3>3. i = 4 \/ i = 6
      BY <2>1, <3>1, <3>2
    <3> QED BY <2>1, <3>1, <3>2, <3>3, LastDecides, RuleValues
  <2> QED BY <2>2, <2>3
<1>2. ASSUME "exact_quotation" \in ask.rules
      PROVE  "quotation" \in DOMAIN FieldsSettled /\ FieldsSettled["quotation"] = TRUE
  <2>1. 5 \in Fired /\ Fired \subseteq 1..8
    BY <1>2, RuleFields DEF Fired
  <2>2. "quotation" \in DOMAIN Rules[5][2] /\ \A i \in 6..8 : "quotation" \notin DOMAIN Rules[i][2]
    BY RuleFields
  <2>3. PICK i \in Fired : /\ i >= 5 /\ "quotation" \in DOMAIN Rules[i][2]
                           /\ FieldsSettled["quotation"] = Rules[i][2]["quotation"]
    BY <2>1, <2>2, LastDecides
  <2>4. i = 5
    BY <2>1, <2>2, <2>3
  <2> QED BY <2>1, <2>2, <2>3, <2>4, LastDecides, RuleValues
<1>3. ASSUME "private_scope" \in ask.rules
      PROVE  /\ {"private", "external"} \subseteq DOMAIN FieldsSettled
             /\ FieldsSettled["private"] = TRUE /\ FieldsSettled["external"] = TRUE
  <2>1. 6 \in Fired /\ Fired \subseteq 1..8
    BY <1>3, RuleFields DEF Fired
  <2>2. \A field \in {"private", "external"} :
          field \in DOMAIN Rules[6][2] /\ \A i \in 7..8 : field \notin DOMAIN Rules[i][2]
    BY RuleFields
  <2>3. ASSUME NEW field \in {"private", "external"}
        PROVE  field \in DOMAIN FieldsSettled /\ FieldsSettled[field] = Rules[6][2][field]
    <3>1. PICK i \in Fired : /\ i >= 6 /\ field \in DOMAIN Rules[i][2]
                             /\ FieldsSettled[field] = Rules[i][2][field]
      BY <2>1, <2>2, LastDecides
    <3>2. i = 6
      BY <2>1, <2>2, <3>1
    <3> QED BY <2>1, <2>2, <3>1, <3>2, LastDecides
  <2> QED BY <2>3, RuleValues
<1> QED BY <1>1, <1>2, <1>3

LEMMA OnlyRule ==
  ASSUME NEW S, IsFiniteSet(S), Cardinality(S) <= 1
  PROVE  \A x, y \in S : x = y
<1>1. Cardinality(S) \in Nat
  BY FS_CardinalityType
<1>2. CASE Cardinality(S) = 0
  BY <1>2, FS_EmptySet
<1>3. CASE Cardinality(S) = 1
  BY <1>3, FS_Singleton
<1> QED BY <1>1, <1>2, <1>3

\* A single rule that leaves the weights possible settles two fields at most.
LEMMA OneRuleSettlesLittle ==
  ASSUME IsFiniteSet(ask.rules), Cardinality(ask.rules) <= 1,
         ask.rules \cap {"greeting", "arithmetic", "self_referential", "live_data"} = {}
  PROVE  IsFiniteSet(DOMAIN FieldsSettled) /\ Cardinality(DOMAIN FieldsSettled) \in 0..2
<1>1. \A x, y \in ask.rules : x = y
  BY OnlyRule
<1>2. Fired \subseteq 5..8 /\ \A i, j \in Fired : i = j
  BY <1>1, RuleFields DEF Fired
<1>3. \E a, b : DOMAIN FieldsSettled \subseteq {a, b}
  <2>1. DOMAIN FieldsSettled = UNION {DOMAIN Rules[i][2] : i \in Fired}
    BY DEF FieldsSettled
  <2>2. CASE Fired = {}
    BY <2>1, <2>2
  <2>3. CASE \E i \in Fired : TRUE
    <3>1. PICK i \in Fired : Fired = {i}
      BY <1>2, <2>3
    <3>2. DOMAIN FieldsSettled = DOMAIN Rules[i][2]
      BY <2>1, <3>1
    <3>3. \A k \in 5..8 : k = 5 \/ k = 6 \/ k = 7 \/ k = 8
      OBVIOUS
    <3>4. DOMAIN Rules[i][2] \in {{"quotation", "citation"}, {"private", "external"}, {"citation", "citation"},
                                 {"multi_hop", "complexity"}}
      BY <1>2, <3>3, RuleFields
    <3> QED BY <3>2, <3>4
  <2> QED BY <2>2, <2>3
<1>4. PICK a, b : DOMAIN FieldsSettled \subseteq {a, b}
  BY <1>3
<1>5. IsFiniteSet({a}) /\ Cardinality({a}) = 1 /\ IsFiniteSet({a} \cup {b})
  /\ Cardinality({a} \cup {b}) <= 2
  <2>1. IsFiniteSet({a}) /\ Cardinality({a}) = 1
    BY FS_Singleton
  <2>2. IsFiniteSet({a} \cup {b}) /\ Cardinality({a} \cup {b}) = IF b \in {a} THEN Cardinality({a}) ELSE Cardinality({a}) + 1
    BY <2>1, FS_AddElement
  <2> QED BY <2>1, <2>2
<1>6. DOMAIN FieldsSettled \subseteq {a} \cup {b}
  BY <1>4
<1>7. IsFiniteSet(DOMAIN FieldsSettled) /\ Cardinality(DOMAIN FieldsSettled) <= Cardinality({a} \cup {b})
  BY <1>5, <1>6, FS_Subset
<1>8. Cardinality(DOMAIN FieldsSettled) \in Nat /\ Cardinality({a} \cup {b}) \in Nat
  BY <1>5, <1>7, FS_CardinalityType
<1> QED BY <1>5, <1>7, <1>8

-----------------------------------------------------------------------------
(* What is routed. *)

Understood ==
  /\ "live_data" \in ask.rules => analysis.live = TRUE /\ analysis.external = TRUE
  /\ "exact_quotation" \in ask.rules => analysis.quotation = TRUE
  /\ "private_scope" \in ask.rules => analysis.private = TRUE /\ analysis.external = TRUE
  /\ Cardinality(ask.rules) <= 1 /\ analysis.external /\ ~analysis.live => analysis.uncertainty \in 6..8

LEMMA AnalysisUnderstands ==
  ASSUME RoutingAssumption, ask \in Asks, Analyze
  PROVE  Understood'
<1> DEFINE verdict == classify_rules
           more == [uncertainty |-> 8 - verdict.coverage,
            ambiguous |-> \/ ask.pronoun /\ ~ask.followup
                          \/ ask.words <= 2 /\ ~ask.question,
            needs_rewrite |-> ask.words < 4 \/ (ask.pronoun /\ ask.followup)]
<1>1. analysis' = Over(Over(verdict.settled, Defaults), more) /\ ask' = ask
  BY DEF Analyze
<1>2. DOMAIN more = {"uncertainty", "ambiguous", "needs_rewrite"} /\ more["uncertainty"] = 8 - verdict.coverage
  OBVIOUS
<1>3. DOMAIN Defaults = {"intent", "complexity", "external", "live", "private", "quotation", "citation",
                         "multi_hop", "volatility"}
  BY DEF Defaults
<1> HIDE DEF more, verdict
<1>4. \A field \in DOMAIN verdict.settled : analysis'[field] = verdict.settled[field]
  BY <1>1 DEF Over
<1>5. \A field \in DOMAIN Defaults \ DOMAIN verdict.settled : analysis'[field] = Defaults[field]
  BY <1>1 DEF Over
<1>6. "uncertainty" \notin DOMAIN verdict.settled => analysis'["uncertainty"] = 8 - verdict.coverage
  BY <1>1, <1>2, <1>3 DEF Over
<1>7. CASE "greeting" \in ask.rules
  <2>1. ask.rules = {"greeting"} /\ verdict.settled = Greeting
    BY <1>7 DEF RoutingAssumption, verdict, classify_rules
  <2>2. "external" \in DOMAIN Greeting /\ Greeting["external"] = FALSE
    BY DEF Greeting
  <2>3. analysis'["external"] = FALSE
    BY <1>4, <2>1, <2>2
  <2> QED BY <1>1, <2>1, <2>3 DEF Understood
<1>8. CASE "greeting" \notin ask.rules
  <2>1. verdict.settled = FieldsSettled /\ verdict.coverage = Min({8, Cardinality(DOMAIN FieldsSettled)})
    BY <1>8 DEF verdict, classify_rules, FieldsSettled, About, Fired
  <2>3. DOMAIN FieldsSettled \subseteq DOMAIN Defaults
    BY RuleFields, <1>3 DEF FieldsSettled, Fired
  <2>2. "uncertainty" \notin DOMAIN FieldsSettled
    BY <1>3, <2>3
  <2>4. ASSUME Cardinality(ask.rules) <= 1, analysis'.external, ~analysis'.live
        PROVE  analysis'.uncertainty \in 6..8
    <3>2. IsFiniteSet(ask.rules)
      BY DEF RoutingAssumption
    <3>1. ask.rules \cap {"greeting", "arithmetic", "self_referential", "live_data"} = {}
      <4>1. "greeting" \notin ask.rules
        BY <1>8
      <4>2. "live_data" \notin ask.rules
        BY <1>4, <2>1, <2>4, SettledFacts
      <4>3. ASSUME NEW i \in 1..2, Rules[i][1] \subseteq ask.rules
            PROVE  FALSE
        <5>1. Fired = {i}
          <6>1. \A x, y \in ask.rules : x = y
            BY <2>4, <3>2, OnlyRule
          <6>2. \A k \in 1..8 : k = 1 \/ k = 2 \/ k = 3 \/ k = 4 \/ k = 5 \/ k = 6 \/ k = 7 \/ k = 8
            OBVIOUS
          <6>3. CASE i = 1
            <7>1. ask.rules = {"arithmetic"}
              BY <4>3, <6>1, <6>3, RuleFields
            <7>2. /\ ~(Rules[2][1] \subseteq ask.rules) /\ ~(Rules[3][1] \subseteq ask.rules)
                  /\ ~(Rules[4][1] \subseteq ask.rules) /\ ~(Rules[5][1] \subseteq ask.rules)
                  /\ ~(Rules[6][1] \subseteq ask.rules) /\ ~(Rules[7][1] \subseteq ask.rules)
                  /\ ~(Rules[8][1] \subseteq ask.rules)
              BY <7>1, RuleFields
            <7> QED BY <4>3, <6>2, <6>3, <7>2, RuleFields DEF Fired
          <6>4. CASE i = 2
            <7>1. ask.rules = {"self_referential"}
              BY <4>3, <6>1, <6>4, RuleFields
            <7>2. /\ ~(Rules[1][1] \subseteq ask.rules) /\ ~(Rules[3][1] \subseteq ask.rules)
                  /\ ~(Rules[4][1] \subseteq ask.rules) /\ ~(Rules[5][1] \subseteq ask.rules)
                  /\ ~(Rules[6][1] \subseteq ask.rules) /\ ~(Rules[7][1] \subseteq ask.rules)
                  /\ ~(Rules[8][1] \subseteq ask.rules)
              BY <7>1, RuleFields
            <7> QED BY <4>3, <6>2, <6>4, <7>2, RuleFields DEF Fired
          <6> QED BY <6>3, <6>4
        <5>2. "external" \in DOMAIN Rules[i][2] /\ Rules[i][2]["external"] = FALSE
          BY RuleFields, RuleValues
        <5>3. "external" \in DOMAIN FieldsSettled /\ FieldsSettled["external"] = FALSE
          BY <5>1, <5>2, LastDecides
        <5> QED BY <1>4, <2>1, <2>4, <5>3
      <4> QED BY <4>1, <4>2, <4>3, RuleFields
    <3>3. Cardinality(DOMAIN FieldsSettled) \in 0..2
      BY <2>4, <3>1, <3>2, OneRuleSettlesLittle
    <3>4. Min({8, Cardinality(DOMAIN FieldsSettled)}) = Cardinality(DOMAIN FieldsSettled)
      <4>1. {8, Cardinality(DOMAIN FieldsSettled)} \in SUBSET Nat
        BY <3>3
      <4>2. /\ Min({8, Cardinality(DOMAIN FieldsSettled)}) \in {8, Cardinality(DOMAIN FieldsSettled)}
            /\ Min({8, Cardinality(DOMAIN FieldsSettled)}) <= Cardinality(DOMAIN FieldsSettled)
        BY <4>1, MinProperties
      <4> QED BY <3>3, <4>2
    <3> QED BY <1>6, <2>1, <2>2, <3>3, <3>4
  <2>5. ("live_data" \in ask.rules)' => analysis'.live = TRUE /\ analysis'.external = TRUE
    BY <1>1, <1>4, <2>1, SettledFacts
  <2>6. ("exact_quotation" \in ask.rules)' => analysis'.quotation = TRUE
    BY <1>1, <1>4, <2>1, SettledFacts
  <2>7. ("private_scope" \in ask.rules)' => analysis'.private = TRUE /\ analysis'.external = TRUE
    BY <1>1, <1>4, <2>1, SettledFacts
  <2> QED BY <1>1, <2>4, <2>5, <2>6, <2>7 DEF Understood
<1> QED BY <1>7, <1>8

LEMMA StrategyFacts ==
  /\ DOMAIN Strategies = 1..3
  /\ Strategies[1] = HYBRID /\ Strategies[2] = NON_PARAMETRIC /\ Strategies[3] = PARAMETRIC
  /\ ToSet(Strategies) = {HYBRID, NON_PARAMETRIC, PARAMETRIC}
<1>1. DOMAIN Strategies = 1..3
  BY DEF Strategies
<1>2. Strategies[1] = HYBRID /\ Strategies[2] = NON_PARAMETRIC /\ Strategies[3] = PARAMETRIC
  BY DEF Strategies
<1>3. ToSet(Strategies) = {Strategies[i] : i \in 1..3}
  BY <1>1 DEF ToSet
<1>4. \A i \in 1..3 : i = 1 \/ i = 2 \/ i = 3
  OBVIOUS
<1>5. ToSet(Strategies) = {HYBRID, NON_PARAMETRIC, PARAMETRIC}
  BY <1>2, <1>3, <1>4
<1> QED BY <1>1, <1>2, <1>5

QualityOK == quality \in [ToSet(Strategies) -> [mean : Int, count : Nat]]

LEMMA UtilityIsANumber ==
  ASSUME BurdenAssumption, QualityOK, NEW burden \in Burdens, NEW s \in ToSet(Strategies)
  PROVE  Utility(s, burden) \in Int
<1>1. /\ burden[s].latency \in Nat /\ burden[s].cost \in Nat
      /\ UtilityWeights.quality \in Nat /\ UtilityWeights.latency \in Nat /\ UtilityWeights.cost \in Nat
      /\ quality[s].mean \in Int /\ quality[s].count \in Nat
  BY DEF BurdenAssumption, QualityOK
<1>2. \A n \in Nat : Min({1000, n}) \in Nat
  <2> SUFFICES ASSUME NEW n \in Nat PROVE Min({1000, n}) \in Nat
    OBVIOUS
  <2>1. {1000, n} \in SUBSET Nat /\ {1000, n} # {}
    OBVIOUS
  <2>2. Min({1000, n}) \in {1000, n}
    BY <2>1, MinProperties
  <2> QED BY <2>2
<1>3. expected_quality(s) \in Int
  <2>1. quality[s].count + 20 \in Nat /\ quality[s].count + 20 > 0
    BY <1>1
  <2>2. 10 * (quality[s].count * quality[s].mean + 20 * 62) \in Int
    BY <1>1
  <2> QED BY <2>1, <2>2 DEF expected_quality
<1> QED BY <1>1, <1>2, <1>3 DEF Utility

\* Of three scores one comes first and one last, ties broken by the place.
LEMMA OneIsBest ==
  ASSUME NEW S \in SUBSET (1..3), S # {}, NEW f, \A i \in 1..3 : f[i] \in Int
  PROVE  /\ \E i \in S : \A j \in S \ {i} : f[i] > f[j] \/ (f[i] = f[j] /\ i > j)
         /\ \E i \in S : \A j \in S \ {i} : f[j] > f[i] \/ (f[j] = f[i] /\ j > i)
<1> DEFINE above(i, j) == f[i] > f[j] \/ (f[i] = f[j] /\ i > j)
           first(i, j, k) == i \in S /\ (j \in S => above(i, j)) /\ (k \in S => above(i, k))
           final(i, j, k) == i \in S /\ (j \in S => above(j, i)) /\ (k \in S => above(k, i))
<1>1. f[1] \in Int /\ f[2] \in Int /\ f[3] \in Int /\ \A i \in S : i = 1 \/ i = 2 \/ i = 3
  OBVIOUS
<1>a. (above(1, 2) \/ above(2, 1)) /\ (above(1, 3) \/ above(3, 1)) /\ (above(2, 3) \/ above(3, 2))
  BY <1>1
<1>b. \A i, j, k \in 1..3 : above(i, j) /\ above(j, k) => above(i, k)
  OBVIOUS
<1> HIDE DEF above
<1>c. /\ above(1, 2) /\ above(2, 3) => above(1, 3)
      /\ above(1, 3) /\ above(3, 2) => above(1, 2)
      /\ above(2, 1) /\ above(1, 3) => above(2, 3)
      /\ above(2, 3) /\ above(3, 1) => above(2, 1)
      /\ above(3, 1) /\ above(1, 2) => above(3, 2)
      /\ above(3, 2) /\ above(2, 1) => above(3, 1)
  BY <1>b
<1>d. 1 \in S \/ 2 \in S \/ 3 \in S
  BY <1>1
<1>2. first(1, 2, 3) \/ first(2, 1, 3) \/ first(3, 1, 2)
  BY <1>a, <1>c, <1>d
<1>3. final(1, 2, 3) \/ final(2, 1, 3) \/ final(3, 1, 2)
  BY <1>a, <1>c, <1>d
<1>4. \E i \in S : \A j \in S \ {i} : above(i, j)
  BY <1>1, <1>2
<1>5. \E i \in S : \A j \in S \ {i} : above(j, i)
  BY <1>1, <1>3
<1> QED BY <1>4, <1>5 DEF above

RouteInv ==
  /\ ask \in Asks
  /\ QualityOK
  /\ step = "asked" => strategy = Nothing
  /\ step # "asked" => Understood
  /\ RoutingHonoursTheQuestion

LEMMA RouteIsHonest ==
  ASSUME RoutingAssumption, BurdenAssumption, HedgeAbove <= 5, RouteInv,
         NEW burden \in Burdens, NEW exploring \in BOOLEAN, Route(burden, exploring)
  PROVE  RoutingHonoursTheQuestion'
<1> DEFINE survivors == {i \in DOMAIN Strategies : Strategies[i] \notin Eliminated}
           score(i) == Utility(Strategies[i], burden)
           above(i, j) == score(i) > score(j) \/ (score(i) = score(j) /\ i > j)
           pick == CHOOSE i \in survivors : \A j \in survivors \ {i} :
                     IF exploring THEN above(j, i) ELSE above(i, j)
<1>1. /\ Understood
      /\ ask' = ask /\ offer' = offer /\ analysis' = analysis
      /\ strategy' = IF survivors = {}
           THEN [route |-> NON_PARAMETRIC, eliminated |-> Eliminated, hedged |-> TRUE]
           ELSE [route |-> Strategies[pick], eliminated |-> Eliminated,
                 hedged |-> /\ analysis.uncertainty > HedgeAbove
                            /\ Strategies[pick] = PARAMETRIC
                            /\ NON_PARAMETRIC \notin Eliminated]
  BY DEF Route, RouteInv
<1>2. survivors # {} => pick \in survivors
  <2> SUFFICES ASSUME survivors # {} PROVE pick \in survivors
    OBVIOUS
  <2> DEFINE f == [i \in 1..3 |-> score(i)]
  <2>1. \A i \in 1..3 : score(i) \in Int
    <3>1. \A i \in 1..3 : Strategies[i] \in ToSet(Strategies)
      BY StrategyFacts DEF ToSet
    <3> QED BY <3>1, UtilityIsANumber DEF RouteInv
  <2>2. survivors \in SUBSET (1..3)
    BY StrategyFacts
  <2>3. \A i \in 1..3 : f[i] \in Int /\ f[i] = score(i)
    BY <2>1
  <2>6. \A i, j \in survivors : above(i, j) <=> (f[i] > f[j] \/ (f[i] = f[j] /\ i > j))
    BY <2>2, <2>3
  <2> HIDE DEF f, score, survivors, above
  <2>4. \E i \in survivors : \A j \in survivors \ {i} : above(i, j)
    <3>1. PICK i \in survivors : \A j \in survivors \ {i} : f[i] > f[j] \/ (f[i] = f[j] /\ i > j)
      BY <2>2, <2>3, OneIsBest
    <3> QED BY <2>6, <3>1
  <2>5. \E i \in survivors : \A j \in survivors \ {i} : above(j, i)
    <3>1. PICK i \in survivors : \A j \in survivors \ {i} : f[j] > f[i] \/ (f[j] = f[i] /\ j > i)
      BY <2>2, <2>3, OneIsBest
    <3> QED BY <2>6, <3>1
  <2> QED BY <2>4, <2>5
<1> HIDE DEF pick
<1>3. CASE survivors = {}
  <2>1. /\ strategy'.route = NON_PARAMETRIC /\ strategy'.eliminated = Eliminated
        /\ strategy'.hedged = TRUE
    BY <1>1, <1>3
  <2>2. Eliminated = ToSet(Strategies)
    <3>1. HYBRID \in Eliminated /\ NON_PARAMETRIC \in Eliminated /\ PARAMETRIC \in Eliminated
      BY <1>3, StrategyFacts
    <3>2. Eliminated \subseteq {HYBRID, NON_PARAMETRIC, PARAMETRIC}
      BY DEF Eliminated
    <3> QED BY <3>1, <3>2, StrategyFacts
  <2>3. ~analysis.external
    BY <2>2, StrategyFacts DEF Eliminated, HYBRID, NON_PARAMETRIC, PARAMETRIC
  <2>4. ask.rules \cap {"live_data", "private_scope"} = {}
    BY <1>1, <2>3 DEF Understood
  <2>5. NON_PARAMETRIC \notin {PARAMETRIC, HYBRID}
    BY DEF HYBRID, NON_PARAMETRIC, PARAMETRIC
  <2> QED BY <1>1, <2>1, <2>2, <2>4, <2>5 DEF RoutingHonoursTheQuestion
<1>4. CASE survivors # {}
  <2>1. /\ strategy'.route = Strategies[pick] /\ strategy'.eliminated = Eliminated
        /\ strategy'.hedged = (/\ analysis.uncertainty > HedgeAbove
                               /\ Strategies[pick] = PARAMETRIC
                               /\ NON_PARAMETRIC \notin Eliminated)
    BY <1>1, <1>4
  <2>2. Strategies[pick] \notin Eliminated
    BY <1>2, <1>4
  <2>3. Strategies[pick] \in {PARAMETRIC, HYBRID} => ~ParametricRuledOut
    BY <2>2 DEF Eliminated
  <2>4. ask.rules \cap {"live_data", "private_scope"} # {} => NON_PARAMETRIC \notin Eliminated
    BY <1>1 DEF Understood, Eliminated, HYBRID, NON_PARAMETRIC, PARAMETRIC
  <2>5. analysis.external => NON_PARAMETRIC \notin Eliminated
    BY DEF Eliminated, HYBRID, NON_PARAMETRIC, PARAMETRIC
  <2>6. Strategies[pick] \in {PARAMETRIC, HYBRID} =>
         /\ offer.enabled /\ offer.tier /\ offer.covered # "none"
         /\ ask.rules \cap {"live_data", "exact_quotation"} = {}
         /\ "private_scope" \in ask.rules => offer.covered = "tenant"
    BY <1>1, <2>3 DEF ParametricRuledOut, Understood
  <2>7. Strategies[pick] = PARAMETRIC /\ Cardinality(ask.rules) <= 1 /\ analysis.external
          => /\ analysis.uncertainty > HedgeAbove
             /\ Strategies[pick] = PARAMETRIC
             /\ NON_PARAMETRIC \notin Eliminated
    <3> SUFFICES ASSUME Strategies[pick] = PARAMETRIC, Cardinality(ask.rules) <= 1, analysis.external
                 PROVE  analysis.uncertainty > HedgeAbove
      BY <2>5
    <3>1. ~analysis.live
      BY <2>3 DEF ParametricRuledOut
    <3>2. analysis.uncertainty \in 6..8
      BY <1>1, <3>1 DEF Understood
    <3> QED BY <3>2 DEF RoutingAssumption
  <2> QED BY <1>1, <2>1, <2>2, <2>4, <2>6, <2>7 DEF RoutingHonoursTheQuestion
<1> QED BY <1>3, <1>4

LEMMA RouteInductive ==
  ASSUME RoutingAssumption, BurdenAssumption, HedgeAbove <= 5, RouteInv, [RoutingNext]_routingVars
  PROVE  RouteInv'
<1>1. CASE Analyze
  <2>1. Understood' /\ UNCHANGED <<ask, offer, quality, strategy>> /\ strategy = Nothing
    BY <1>1, AnalysisUnderstands DEF RouteInv, Analyze
  <2>2. step' # "asked"
    BY <1>1 DEF Analyze
  <2> QED BY <2>1, <2>2 DEF RouteInv, QualityOK, RoutingHonoursTheQuestion
<1>2. ASSUME NEW s \in ToSet(Strategies), NEW outcome \in Recordings, Record(s, outcome)
      PROVE  RouteInv'
  <2>1. UNCHANGED <<ask, offer, step, analysis, strategy>>
    BY <1>2 DEF Record
  <2>2. QualityOK'
    <3>1. quality[s].mean \in Int /\ quality[s].count \in Nat /\ outcome \in Nat
      BY DEF RouteInv, QualityOK, BurdenAssumption
    <3>2. quality[s].mean * quality[s].count + outcome \in Int /\ quality[s].count + 1 \in Nat
          /\ quality[s].count + 1 > 0
      <4>1. \A m \in Int, c, o \in Nat : m * c + o \in Int /\ c + 1 \in Nat /\ c + 1 > 0
        OBVIOUS
      <4> QED BY <3>1, <4>1
    <3>3. (quality[s].mean * quality[s].count + outcome) \div (quality[s].count + 1) \in Int
      BY <3>2
    <3>4. quality' = [quality EXCEPT ![s] =
             [mean |-> (quality[s].mean * quality[s].count + outcome) \div (quality[s].count + 1),
              count |-> quality[s].count + 1]]
      BY <1>2 DEF Record
    <3> QED BY <3>2, <3>3, <3>4 DEF RouteInv, QualityOK
  <2> QED BY <2>1, <2>2 DEF RouteInv, Understood, RoutingHonoursTheQuestion
<1>3. ASSUME NEW burden \in Burdens, NEW exploring \in BOOLEAN, Route(burden, exploring)
      PROVE  RouteInv'
  <2>1. UNCHANGED <<ask, quality, analysis>> /\ step = "analyzed" /\ step' = "rewrite"
    BY <1>3 DEF Route
  <2> QED BY <1>3, <2>1, RouteIsHonest DEF RouteInv, QualityOK, Understood
<1>4. ASSUME Transform \/ SkipTransform \/ TransformsExpire \/ Plan
      PROVE  RouteInv'
  <2>1. UNCHANGED <<ask, offer, quality, analysis, strategy>>
    BY <1>4 DEF Transform, SkipTransform, TransformsExpire, Plan
  <2>2. step # "asked" /\ step' # "asked"
    BY <1>4 DEF Transform, SkipTransform, TransformsExpire, Plan, After
  <2> QED BY <2>1, <2>2 DEF RouteInv, QualityOK, Understood, RoutingHonoursTheQuestion
<1>5. CASE UNCHANGED routingVars
  BY <1>5 DEF routingVars, RouteInv, QualityOK, Understood, RoutingHonoursTheQuestion
<1> QED BY <1>1, <1>2, <1>3, <1>4, <1>5 DEF RoutingNext

\* For every question, tenant, burden, weighting and learned quality, and also
\* when the router explores: the weights answer only what they may, what is live
\* or private keeps its retrieval route, a route that was ruled out is taken only
\* when all were, and a guess from the weights is hedged (UtilityStrategyRouter).
\* A question that at most one rule understood has 6 of 8 of uncertainty or more,
\* so that the hedge must set in below that; the shipped one sets in at 2.
THEOREM RoutesAreLicensed ==
  ASSUME HedgeAbove <= 5
  PROVE  RoutingSpec => []RoutingHonoursTheQuestion
<1>1. RoutingInit => RouteInv
  BY StrategyFacts DEF RoutingInit, RouteInv, QualityOK, RoutingHonoursTheQuestion
<1>2. RouteInv /\ [RoutingNext]_routingVars => RouteInv'
  BY RoutingAssumption, BurdenAssumption, RouteInductive
<1>3. RouteInv => RoutingHonoursTheQuestion
  BY DEF RouteInv
<1> QED BY <1>1, <1>2, <1>3, PTL DEF RoutingSpec

-----------------------------------------------------------------------------
(* What is planned. *)

VariantsOK ==
  /\ {"raw", "sub_queries"} \subseteq DOMAIN variants
  /\ variants.sub_queries \in Nat
  /\ variants.sub_queries > 0 => "decomposition" \in ran
  /\ "rewritten" \in DOMAIN variants <=> "rewrite" \in ran /\ ask.framing \notin {"none", "only"}

PlanInv ==
  /\ ask \in Asks
  /\ VariantsOK
  /\ step = "planned" => plan = build_plan

\* Only the rewriting rewrites, and only the decomposition decomposes.
LEMMA ProducedFacts ==
  ASSUME RoutingAssumption, ask \in Asks, NEW transform
  PROVE  /\ "rewritten" \in DOMAIN Produced(transform) <=>
               transform = "rewrite" /\ ask.framing \notin {"none", "only"}
         /\ "sub_queries" \in DOMAIN Produced(transform) =>
               transform = "decomposition" /\ Produced(transform)["sub_queries"] \in Nat
<1>1. CASE transform = "rewrite" /\ ask.framing \notin {"none", "only"}
  <2>1. Produced(transform) = [rewritten |-> TRUE]
    BY <1>1 DEF Produced
  <2> QED BY <1>1, <2>1
<1>2. CASE transform = "coreference" /\ ask.entities
  <2>1. Produced(transform) = [coreference_resolved |-> TRUE]
    BY <1>2 DEF Produced
  <2> QED BY <1>2, <2>1
<1>3. CASE transform = "expansion"
  <2>1. Produced(transform) = Over(IF ask.alias = "one form" THEN [expanded |-> TRUE] ELSE Nothing,
                                   IF ask.entities THEN [entities_only |-> TRUE] ELSE Nothing)
    BY <1>3 DEF Produced
  <2>2. DOMAIN Produced(transform) \subseteq {"expanded", "entities_only"}
    <3> DEFINE one == IF ask.alias = "one form" THEN [expanded |-> TRUE] ELSE Nothing
               two == IF ask.entities THEN [entities_only |-> TRUE] ELSE Nothing
    <3>0. DOMAIN Nothing = {}
      BY DEF Nothing
    <3>1. DOMAIN one \subseteq {"expanded"}
      <4>1. CASE ask.alias = "one form"
        BY <4>1
      <4>2. CASE ask.alias # "one form"
        BY <3>0, <4>2
      <4> QED BY <4>1, <4>2
    <3>2. DOMAIN two \subseteq {"entities_only"}
      <4>1. CASE ask.entities
        BY <4>1
      <4>2. CASE ~ask.entities
        BY <3>0, <4>2
      <4> QED BY <4>1, <4>2
    <3>3. DOMAIN Over(one, two) = DOMAIN one \cup DOMAIN two
      BY DEF Over
    <3> HIDE DEF one, two
    <3> QED BY <2>1, <3>1, <3>2, <3>3 DEF one, two
  <2> QED BY <1>3, <2>2
<1>4. CASE transform = "decomposition" /\ ask.parts >= 2
  <2>1. Produced(transform) = [sub_queries |-> Min({ask.parts, MaxSubQueries})]
    BY <1>4 DEF Produced
  <2>2. {ask.parts, MaxSubQueries} \in SUBSET Nat
    BY DEF RoutingAssumption
  <2>3. Min({ask.parts, MaxSubQueries}) \in Nat
    BY <2>2, MinProperties
  <2> QED BY <1>4, <2>1, <2>3
<1>5. CASE /\ ~(transform = "rewrite" /\ ask.framing \notin {"none", "only"})
           /\ ~(transform = "coreference" /\ ask.entities)
           /\ transform # "expansion"
           /\ ~(transform = "decomposition" /\ ask.parts >= 2)
  <2>1. Produced(transform) = Nothing
    BY <1>5 DEF Produced
  <2> QED BY <1>5, <2>1 DEF Nothing
<1> QED BY <1>1, <1>2, <1>3, <1>4, <1>5

LEMMA FirstOfFacts ==
  ASSUME NEW names, DOMAIN names \subseteq Nat, "raw" \in DOMAIN variants
  PROVE  /\ FirstOf(names) \in DOMAIN variants
         /\ FirstOf(names) = "raw" \/ \E i \in DOMAIN names : FirstOf(names) = names[i]
<1> DEFINE there == {i \in DOMAIN names : names[i] \in DOMAIN variants}
<1>1. CASE there = {}
  BY <1>1 DEF FirstOf
<1>2. CASE there # {}
  <2>1. Min(there) \in there
    BY <1>2, MinProperties
  <2> QED BY <1>2, <2>1 DEF FirstOf
<1> QED BY <1>1, <1>2

LEMMA PlanInductive ==
  ASSUME RoutingAssumption, PlanInv, [RoutingNext]_routingVars
  PROVE  PlanInv'
<1>1. CASE Analyze
  BY <1>1 DEF Analyze, PlanInv, VariantsOK
<1>2. ASSUME NEW s \in ToSet(Strategies), NEW outcome \in Recordings, Record(s, outcome)
      PROVE  PlanInv'
  BY <1>2 DEF Record, PlanInv, VariantsOK
<1>3. ASSUME NEW burden \in Burdens, NEW exploring \in BOOLEAN, Route(burden, exploring)
      PROVE  PlanInv'
  <2>1. UNCHANGED <<ask, variants, ran>> /\ step' = "rewrite"
    BY <1>3 DEF Route
  <2> QED BY <2>1 DEF PlanInv, VariantsOK
<1>4. CASE Transform
  <2>1. /\ ask' = ask /\ step \in DOMAIN After /\ step' = After[step]
        /\ variants' = Over(Produced(step), variants) /\ ran' = ran \cup {step}
    BY <1>4 DEF Transform
  <2>2. step' # "planned"
    BY <2>1 DEF After
  <2>3. DOMAIN variants' = DOMAIN Produced(step) \cup DOMAIN variants
    BY <2>1 DEF Over
  <2>4. {"raw", "sub_queries"} \subseteq DOMAIN variants'
    BY <2>3 DEF PlanInv, VariantsOK
  <2>5. CASE "sub_queries" \in DOMAIN Produced(step)
    <3>1. variants'["sub_queries"] = Produced(step)["sub_queries"]
      BY <2>1, <2>5 DEF Over
    <3>2. variants'.sub_queries \in Nat /\ "decomposition" \in ran'
      BY <2>1, <2>5, <3>1, ProducedFacts DEF PlanInv
    <3> QED BY <2>1, <2>2, <2>3, <2>4, <3>2, ProducedFacts DEF PlanInv, VariantsOK
  <2>6. CASE "sub_queries" \notin DOMAIN Produced(step)
    <3>1. variants'["sub_queries"] = variants["sub_queries"]
      BY <2>1, <2>4, <2>3, <2>6 DEF Over
    <3> QED BY <2>1, <2>2, <2>3, <2>4, <3>1, ProducedFacts DEF PlanInv, VariantsOK
  <2> QED BY <2>5, <2>6
<1>5. CASE SkipTransform \/ TransformsExpire
  <2>1. UNCHANGED <<ask, variants, ran>> /\ step' # "planned"
    BY <1>5 DEF SkipTransform, TransformsExpire, After
  <2> QED BY <2>1 DEF PlanInv, VariantsOK
<1>6. CASE Plan
  <2>1. UNCHANGED <<ask, variants, ran>> /\ plan' = build_plan
    BY <1>6 DEF Plan
  <2> QED BY <2>1 DEF PlanInv, VariantsOK, build_plan, Leg, _variant_for, FirstOf
<1>7. CASE UNCHANGED routingVars
  <2>1. UNCHANGED <<ask, step, variants, ran, plan, SourceSpecs>>
    BY <1>7 DEF routingVars
  <2>2. build_plan' = build_plan
    BY <2>1 DEF build_plan, Leg, _variant_for, FirstOf
  <2> QED BY <2>1, <2>2 DEF PlanInv, VariantsOK
<1> QED BY <1>1, <1>2, <1>3, <1>4, <1>5, <1>6, <1>7 DEF RoutingNext

\* A leg, by its source and sub-query.
LEMMA LegFacts ==
  ASSUME RoutingAssumption, PlanInv, NEW i \in DOMAIN SourceSpecs, NEW sub \in Nat,
         sub > 0 => SourceSpecs[i].vectors
  PROVE  LET leg == Leg(i, sub)
             spec == SourceSpecs[i]
         IN  /\ leg.source = i /\ leg.sub = sub
             /\ leg.required <=> sub = 0 /\ spec.required
             /\ leg.top_k \in 1..spec.max_top_k
             /\ sub = 0 => leg.variant \in DOMAIN variants
             /\ spec.vectors => leg.variant \notin {"expanded", "entities_only"}
<1> DEFINE leg == Leg(i, sub)
           spec == SourceSpecs[i]
           asked == IF sub = 0 THEN TopK ELSE Max({1, TopK \div 2})
<1>1. spec \in [text : BOOLEAN, vectors : BOOLEAN, required : BOOLEAN, max_top_k : Nat \ {0}]
  <2>1. DOMAIN SourceSpecs = 1..Len(SourceSpecs)
    BY DEF RoutingAssumption
  <2> DEFINE Specs == [text : BOOLEAN, vectors : BOOLEAN, required : BOOLEAN, max_top_k : Nat \ {0}]
  <2>2. SourceSpecs \in Seq(Specs)
    BY DEF RoutingAssumption
  <2> HIDE DEF Specs
  <2>3. spec \in Specs
    BY <2>1, <2>2, ElementOfSeq
  <2> QED BY <2>3 DEF Specs
<1>2. asked \in Nat \ {0}
  <2>1. TopK \in Nat \ {0} /\ TopK \div 2 \in 0..TopK
    BY DEF RoutingAssumption
  <2>2. CASE sub # 0
    <3>1. {1, TopK \div 2} \in SUBSET (0..TopK) /\ TopK \in Nat
      BY <2>1
    <3>2. Max({1, TopK \div 2}) \in {1, TopK \div 2} /\ Max({1, TopK \div 2}) >= 1
      BY <3>1, MaxProperties
    <3> QED BY <2>1, <2>2, <3>2
  <2> QED BY <2>1, <2>2
<1>3. leg.source = i /\ leg.sub = sub /\ (leg.required <=> sub = 0 /\ spec.required)
      /\ leg.top_k = Min({spec.max_top_k, asked})
      /\ leg.variant = IF sub = 0 THEN _variant_for(spec) ELSE "sub_query"
  BY DEF Leg, RequiredLeg
<1>4. leg.top_k \in 1..spec.max_top_k
  <2> HIDE DEF asked, leg, spec
  <2>1. {spec.max_top_k, asked} \in SUBSET Nat /\ spec.max_top_k \in Nat \ {0}
    BY <1>1, <1>2
  <2>2. /\ leg.top_k \in {spec.max_top_k, asked} /\ leg.top_k <= spec.max_top_k
    <3>1. spec.max_top_k \in {spec.max_top_k, asked}
      OBVIOUS
    <3>2. /\ Min({spec.max_top_k, asked}) \in {spec.max_top_k, asked}
          /\ \A n \in {spec.max_top_k, asked} : Min({spec.max_top_k, asked}) <= n
      BY <2>1, <3>1, MinProperties
    <3> QED BY <1>3, <3>1, <3>2
  <2> QED BY <1>2, <2>1, <2>2
<1>5. /\ _variant_for(spec) \in DOMAIN variants
      /\ spec.vectors => _variant_for(spec) \notin {"expanded", "entities_only"}
  <2>1. "raw" \in DOMAIN variants
    BY DEF PlanInv, VariantsOK
  <2>2. DOMAIN <<"expanded", "entities_only", "rewritten">> \subseteq Nat
    OBVIOUS
  <2>3. DOMAIN <<"rewritten", "coreference_resolved">> = {1, 2}
    OBVIOUS
  <2>4. CASE spec.text /\ ~spec.vectors
    BY <2>1, <2>2, <2>4, FirstOfFacts DEF _variant_for
  <2>5. CASE ~(spec.text /\ ~spec.vectors)
    <3>1. _variant_for(spec) = FirstOf(<<"rewritten", "coreference_resolved">>)
      BY <2>5 DEF _variant_for
    <3>2. /\ _variant_for(spec) \in DOMAIN variants
          /\ \/ _variant_for(spec) = "raw"
             \/ \E j \in {1, 2} : _variant_for(spec) = <<"rewritten", "coreference_resolved">>[j]
      BY <2>1, <2>3, <3>1, FirstOfFacts
    <3> QED BY <3>2
  <2> QED BY <2>4, <2>5
<1> QED BY <1>3, <1>4, <1>5

LEMMA PlanIsComplete ==
  ASSUME RoutingAssumption, PlanInv
  PROVE  QuestionIsAlwaysAsked
<1> SUFFICES ASSUME step = "planned"
             PROVE  QuestionIsAlwaysAsked
  BY DEF QuestionIsAlwaysAsked
<1> DEFINE I == {p \in (DOMAIN SourceSpecs) \X (0..variants.sub_queries) :
                   p[2] > 0 => SourceSpecs[p[1]].vectors}
<1>1. \A p \in I : /\ p[1] \in DOMAIN SourceSpecs /\ p[2] \in Nat /\ (p[2] > 0 => SourceSpecs[p[1]].vectors)
                   /\ p = <<p[1], p[2]>> /\ (p[2] > 0 => "decomposition" \in ran)
  BY DEF PlanInv, VariantsOK
<1>2. plan = {Leg(p[1], p[2]) : p \in I}
  <2>1. plan = {Leg(i, 0) : i \in DOMAIN SourceSpecs}
            \cup {Leg(i, sub) : i \in {j \in DOMAIN SourceSpecs : SourceSpecs[j].vectors},
                                sub \in 1..variants.sub_queries}
    BY DEF PlanInv, build_plan
  <2>2. variants.sub_queries \in Nat
    BY DEF PlanInv, VariantsOK
  <2>3. ASSUME NEW l \in plan PROVE \E p \in I : l = Leg(p[1], p[2])
    <3>1. CASE \E i \in DOMAIN SourceSpecs : l = Leg(i, 0)
      <4>1. PICK i \in DOMAIN SourceSpecs : l = Leg(i, 0)
        BY <3>1
      <4>2. <<i, 0>> \in I
        BY <2>2
      <4> QED BY <4>1, <4>2
    <3>2. CASE \E i \in {j \in DOMAIN SourceSpecs : SourceSpecs[j].vectors},
                  sub \in 1..variants.sub_queries : l = Leg(i, sub)
      <4>1. PICK i \in {j \in DOMAIN SourceSpecs : SourceSpecs[j].vectors},
                 sub \in 1..variants.sub_queries : l = Leg(i, sub)
        BY <3>2
      <4>2. <<i, sub>> \in I
        BY <2>2
      <4> QED BY <4>1, <4>2
    <3> QED BY <2>1, <3>1, <3>2
  <2>4. ASSUME NEW p \in I PROVE Leg(p[1], p[2]) \in plan
    <3>1. p[2] = 0 \/ p[2] \in 1..variants.sub_queries
      BY <2>2
    <3> QED BY <1>1, <2>1, <2>2, <3>1
  <2> QED BY <2>3, <2>4
<1>3. \A p \in I : /\ Leg(p[1], p[2]).source = p[1] /\ Leg(p[1], p[2]).sub = p[2]
                   /\ Leg(p[1], p[2]).required <=> p[2] = 0 /\ SourceSpecs[p[1]].required
                   /\ Leg(p[1], p[2]).top_k \in 1..SourceSpecs[p[1]].max_top_k
                   /\ p[2] = 0 => Leg(p[1], p[2]).variant \in DOMAIN variants
                   /\ SourceSpecs[p[1]].vectors => Leg(p[1], p[2]).variant \notin {"expanded", "entities_only"}
  BY <1>1, LegFacts
<1>4. ASSUME NEW i \in DOMAIN SourceSpecs
      PROVE  LET own == {l \in plan : l.source = i}
                 spec == SourceSpecs[i]
             IN  /\ Cardinality({l \in own : l.sub = 0}) = 1
                 /\ \A l \in own :
                      /\ l.required => spec.required /\ l.sub = 0
                      /\ l.top_k \in 1..spec.max_top_k
                      /\ l.sub = 0 => l.variant \in DOMAIN variants
                      /\ spec.vectors => l.variant \notin {"expanded", "entities_only"}
                      /\ l.sub > 0 => spec.vectors /\ "decomposition" \in ran
                 /\ spec.required => \E l \in own : l.required
  <2> DEFINE own == {l \in plan : l.source = i}
  <2>1. <<i, 0>> \in I
    BY DEF PlanInv, VariantsOK
  <2>2. Leg(i, 0) \in own /\ Leg(i, 0).sub = 0 /\ (SourceSpecs[i].required => Leg(i, 0).required)
    BY <1>2, <1>3, <2>1
  <2>3. {l \in own : l.sub = 0} = {Leg(i, 0)}
    BY <1>1, <1>2, <1>3, <2>2
  <2>4. Cardinality({l \in own : l.sub = 0}) = 1
    BY <2>3, FS_Singleton
  <2>5. \A l \in own :
          /\ l.required => SourceSpecs[i].required /\ l.sub = 0
          /\ l.top_k \in 1..SourceSpecs[i].max_top_k
          /\ l.sub = 0 => l.variant \in DOMAIN variants
          /\ SourceSpecs[i].vectors => l.variant \notin {"expanded", "entities_only"}
          /\ l.sub > 0 => SourceSpecs[i].vectors /\ "decomposition" \in ran
    BY <1>1, <1>2, <1>3
  <2> QED BY <2>2, <2>4, <2>5
<1>5. Cardinality({<<l.source, l.sub>> : l \in plan}) = Cardinality(plan)
  <2> DEFINE pairs == {<<l.source, l.sub>> : l \in plan}
             f == [p \in I |-> Leg(p[1], p[2])]
  <2>0. \A p \in I : LET l == Leg(p[1], p[2]) IN l \in plan /\ <<l.source, l.sub>> = p
    BY <1>1, <1>2, <1>3
  <2>1. pairs = I
    <3>1. I \subseteq pairs
      BY <2>0
    <3>2. pairs \subseteq I
      <4> SUFFICES ASSUME NEW l \in plan PROVE <<l.source, l.sub>> \in I
        OBVIOUS
      <4>1. PICK p \in I : l = Leg(p[1], p[2])
        BY <1>2
      <4>2. <<l.source, l.sub>> = p
        BY <2>0, <4>1
      <4> QED BY <4>2
    <3> QED BY <3>1, <3>2
  <2>2. IsFiniteSet(I)
    <3>1. IsFiniteSet(DOMAIN SourceSpecs) /\ IsFiniteSet(0..variants.sub_queries)
      <4>1. DOMAIN SourceSpecs = 1..Len(SourceSpecs) /\ Len(SourceSpecs) \in Nat
        BY DEF RoutingAssumption
      <4> QED BY <4>1, FS_Interval DEF PlanInv, VariantsOK
    <3>2. IsFiniteSet((DOMAIN SourceSpecs) \X (0..variants.sub_queries))
      BY <3>1, FS_Product
    <3>3. I \in SUBSET ((DOMAIN SourceSpecs) \X (0..variants.sub_queries))
      OBVIOUS
    <3> QED BY <3>2, <3>3, FS_Subset
  <2> HIDE DEF I
  <2>3. f \in Bijection(I, plan)
    <3>1. f \in [I -> plan]
      BY <1>2
    <3>2. \A p \in I : <<f[p].source, f[p].sub>> = p
      BY <2>0
    <3>3. \A p, q \in I : f[p] = f[q] => p = q
      BY <3>2
    <3>4. \A l \in plan : \E p \in I : f[p] = l
      BY <1>2
    <3> HIDE DEF f
    <3> QED BY <3>1, <3>3, <3>4 DEF Bijection, Injection, Surjection, IsInjective
  <2>4. Cardinality(plan) = Cardinality(I)
    BY <2>2, <2>3, FS_Bijection DEF ExistsBijection
  <2> QED BY <2>1, <2>4
<1>6. "rewritten" \in DOMAIN variants <=> "rewrite" \in ran /\ ask.framing \notin {"none", "only"}
  BY DEF PlanInv, VariantsOK
<1> HIDE DEF I
<1> QED BY <1>4, <1>5, <1>6 DEF QuestionIsAlwaysAsked

\* Whichever transforms failed or came too late, for any sources and caps: every
\* source is asked once with the question and as required as it is, in a variant
\* that exists and suits it, and no leg is planned twice (build_plan).
THEOREM EverySourceIsAsked == RoutingSpec => []QuestionIsAlwaysAsked
<1>1. RoutingInit => PlanInv
  BY DEF RoutingInit, PlanInv, VariantsOK, OnlyRaw
<1>2. PlanInv /\ [RoutingNext]_routingVars => PlanInv'
  BY RoutingAssumption, PlanInductive
<1>3. PlanInv => QuestionIsAlwaysAsked
  BY RoutingAssumption, PlanIsComplete
<1> QED BY <1>1, <1>2, <1>3, PTL DEF RoutingSpec

-----------------------------------------------------------------------------
-----------------------------------------------------------------------------
(* Lists and orders. *)

\* What holds of the first value of a function, and stays with every step.
LEMMA StaysIn ==
  ASSUME NEW V, NEW n \in Nat, NEW f, f[0] \in V, \A i \in 1..n : f[i - 1] \in V => f[i] \in V
  PROVE  \A i \in 0..n : f[i] \in V
<1> DEFINE P == {i \in Nat : i <= n => f[i] \in V}
<1>1. 0 \in P
  OBVIOUS
<1>2. ASSUME NEW i \in Nat, i \in P PROVE i + 1 \in P
  <2>1. i + 1 <= n => i + 1 \in 1..n /\ (i + 1) - 1 = i
    OBVIOUS
  <2> QED BY <1>2, <2>1
<1> HIDE DEF P
<1>3. Nat \subseteq P
  BY <1>1, <1>2, Induction
<1> QED BY <1>3 DEF P

LEMMA ToSetFacts ==
  ASSUME NEW S, NEW seq \in Seq(S)
  PROVE  /\ DOMAIN seq = 1..Len(seq) /\ Len(seq) \in Nat
         /\ ToSet(seq) \subseteq S /\ ToSet(seq) = {seq[i] : i \in 1..Len(seq)}
         /\ IsFiniteSet(ToSet(seq))
<1> DEFINE n == Len(seq)
<1>1. n \in Nat /\ DOMAIN seq = 1..n /\ \A i \in 1..n : seq[i] \in S
  BY LenProperties, ElementOfSeq
<1> HIDE DEF n
<1>2. IsFiniteSet(1..n)
  BY <1>1, FS_Interval
<1>3. [i \in 1..n |-> seq[i]] \in Surjection(1..n, ToSet(seq))
  BY <1>1 DEF Surjection, ToSet
<1>4. IsFiniteSet(ToSet(seq))
  BY <1>2, <1>3, FS_Surjection
<1> QED BY <1>1, <1>4 DEF ToSet, n

\* By a key, greatest first, and by another among equals.
ByKeys(S, f, g) == {p \in S \X S : f[p[1]] > f[p[2]] \/ (f[p[1]] = f[p[2]] /\ g[p[1]] < g[p[2]])}

LEMMA KeysOrder ==
  ASSUME NEW S, NEW f \in [S -> Int], NEW g \in [S -> Int],
         \A x, y \in S : g[x] = g[y] => x = y
  PROVE  Orders(ByKeys(S, f, g), S)
<1> DEFINE R == ByKeys(S, f, g)
           before(x, y) == f[x] > f[y] \/ (f[x] = f[y] /\ g[x] < g[y])
<1>1. \A x, y \in S : <<x, y>> \in R <=> before(x, y)
  BY DEF ByKeys
<1>2. \A x \in S : f[x] \in Int /\ g[x] \in Int
  OBVIOUS
<1>3. \A x \in S : ~before(x, x)
  BY <1>2
<1>4. \A x, y \in S : x # y => before(x, y) \/ before(y, x)
  BY <1>2
<1>5. \A x, y, z \in S : before(x, y) /\ before(y, z) => before(x, z)
  BY <1>2
<1> HIDE DEF R, before
<1> QED BY <1>1, <1>3, <1>4, <1>5 DEF Orders, R

\* One comes before all others.
LEMMA OneIsFirst ==
  ASSUME NEW S, IsFiniteSet(S), S # {}, NEW R, Orders(R, S)
  PROVE  \E x \in S : \A y \in S \ {x} : <<x, y>> \in R
<1> DEFINE f == [x \in S |-> RankIn(x, R, S)]
           n == Cardinality(S)
<1>1. f \in Bijection(S, 1..n) /\ \A x, y \in S : <<x, y>> \in R => f[x] < f[y]
  BY RanksCount
<1>2. n \in Nat /\ n # 0
  BY FS_CardinalityType, FS_EmptySet
<1> HIDE DEF f, n
<1>3. /\ \A x \in S : f[x] \in 1..n
      /\ \A i \in 1..n : \E x \in S : f[x] = i
  BY <1>1 DEF Bijection, Injection, Surjection
<1>4. PICK x \in S : f[x] = 1
  BY <1>2, <1>3
<1>5. ASSUME NEW y \in S \ {x} PROVE <<x, y>> \in R
  <2>1. ~(f[y] < f[x])
    BY <1>3, <1>4
  <2> QED BY <1>1, <2>1 DEF Orders
<1> QED BY <1>5

\* A finite set of numbers has a greatest one.
LEMMA OneIsGreatest ==
  ASSUME NEW S \in SUBSET Int, IsFiniteSet(S), S # {}
  PROVE  Max(S) \in S /\ \A n \in S : Max(S) >= n
<1> DEFINE R == {p \in S \X S : p[1] > p[2]}
<1>1. Orders(R, S)
  BY DEF Orders
<1>0. \A a, b : <<a, b>> \in R => a > b
  OBVIOUS
<1> HIDE DEF R
<1>2. PICK x \in S : \A y \in S \ {x} : <<x, y>> \in R
  BY <1>1, OneIsFirst
<1>3. ASSUME NEW y \in S PROVE x >= y
  <2>1. CASE y = x
    BY <2>1
  <2>2. CASE y # x
    <3>1. <<x, y>> \in R
      BY <1>2, <2>2
    <3>2. x > y
      BY <1>0, <3>1
    <3>3. x \in Int /\ y \in Int
      OBVIOUS
    <3> QED BY <3>2, <3>3
  <2> QED BY <2>1, <2>2
<1> QED BY <1>3 DEF Max

LEMMA OneIsLeast ==
  ASSUME NEW S \in SUBSET Int, IsFiniteSet(S), S # {}
  PROVE  Min(S) \in S /\ \A n \in S : Min(S) <= n
<1> DEFINE R == {p \in S \X S : p[1] < p[2]}
<1>1. Orders(R, S)
  BY DEF Orders
<1>0. \A a, b : <<a, b>> \in R => a < b
  OBVIOUS
<1> HIDE DEF R
<1>2. PICK x \in S : \A y \in S \ {x} : <<x, y>> \in R
  BY <1>1, OneIsFirst
<1>3. ASSUME NEW y \in S PROVE x <= y
  <2>1. CASE y = x
    BY <2>1
  <2>2. CASE y # x
    <3>1. <<x, y>> \in R
      BY <1>2, <2>2
    <3>2. x < y
      BY <1>0, <3>1
    <3>3. x \in Int /\ y \in Int
      OBVIOUS
    <3> QED BY <3>2, <3>3
  <2> QED BY <2>1, <2>2
<1> QED BY <1>3 DEF Min

LEMMA MinOfTwo ==
  ASSUME NEW a \in Int, NEW b \in Int
  PROVE  Min({a, b}) \in {a, b} /\ Min({a, b}) <= a /\ Min({a, b}) <= b
<1>1. IsFiniteSet({a} \cup {b}) /\ {a} \cup {b} = {a, b}
  BY FS_Singleton, FS_Union
<1>2. {a, b} \in SUBSET Int /\ {a, b} # {} /\ IsFiniteSet({a, b})
  BY <1>1
<1> QED BY <1>2, OneIsLeast

\* The first n of a list.
LEMMA TakeFacts ==
  ASSUME NEW S, NEW seq \in Seq(S), NEW n \in Nat
  PROVE  /\ Take(seq, n) \in Seq(S) /\ Len(Take(seq, n)) <= Len(seq) /\ Len(Take(seq, n)) <= n
         /\ \A i \in 1..Len(Take(seq, n)) : Take(seq, n)[i] = seq[i]
<1> DEFINE m == Min({n, Len(seq)})
<1>1. Len(seq) \in Nat
  BY LenProperties
<1>2. m \in Nat /\ m <= Len(seq) /\ m <= n
  <2> DEFINE l == Len(seq)
  <2>1. n \in Int /\ l \in Int
    BY <1>1
  <2> HIDE DEF l
  <2>2. Min({n, l}) \in {n, l} /\ Min({n, l}) <= l /\ Min({n, l}) <= n
    BY <2>1, MinOfTwo
  <2>3. l \in Nat
    BY <1>1 DEF l
  <2>4. Min({n, l}) \in Nat
    BY <2>2, <2>3
  <2> QED BY <2>2, <2>4 DEF l
<1>3. Take(seq, n) = SubSeq(seq, 1, m)
  BY DEF Take
<1> HIDE DEF m
<1>4. /\ SubSeq(seq, 1, m) \in Seq(S) /\ Len(SubSeq(seq, 1, m)) = m
      /\ \A i \in 1..m : SubSeq(seq, 1, m)[i] = seq[i]
  <2>1. \A i \in 1..m : seq[i] \in S
    BY <1>1, <1>2, ElementOfSeq
  <2>2. \A i \in 1..m : i + 1 - 1 = i
    BY <1>2
  <2>3. SubSeq(seq, 1, m) = [i \in 1..m |-> seq[i]]
    BY <1>1, <1>2, <2>2
  <2>4. [i \in 1..m |-> seq[i]] \in Seq(S)
    BY <1>2, <2>1, IsASeq
  <2> QED BY <1>2, <2>3, <2>4, LenProperties
<1> QED BY <1>1, <1>2, <1>3, <1>4

-----------------------------------------------------------------------------
(* What the legs returned, fused. *)

LEMMA LegsAreLists ==
  ASSUME legs \in Legs
  PROVE  /\ legs \in Seq(Seq(DOMAIN Chunk)) /\ Len(legs) \in Nat /\ DOMAIN legs = 1..Len(legs)
         /\ \A l \in 1..Len(legs) : legs[l] \in Seq(DOMAIN Chunk)
<1>1. legs \in Seq(Seq(DOMAIN Chunk))
  BY AskedAssumption
<1> QED BY <1>1, LenProperties, ElementOfSeq

\* A leg's share of a score is a number, where its list holds the chunk and where not.
LEMMA ShareIsANumber ==
  ASSUME NEW leg \in Seq(DOMAIN Chunk), NEW id
  PROVE  (IF id \in ToSet(leg) THEN Unit \div (60 + Place(leg, id)) ELSE 0) \in Int
<1>1. CASE id \in ToSet(leg)
  <2> DEFINE places == {i \in DOMAIN leg : leg[i] = id}
  <2>1. places \in SUBSET Nat /\ places # {}
    <3>1. DOMAIN leg = 1..Len(leg) /\ Len(leg) \in Nat /\ ToSet(leg) = {leg[i] : i \in 1..Len(leg)}
      BY ToSetFacts
    <3>2. PICK i \in 1..Len(leg) : leg[i] = id
      BY <1>1, <3>1
    <3>3. i \in places /\ places \subseteq 1..Len(leg) /\ 1..Len(leg) \subseteq Nat
      BY <3>1, <3>2
    <3> QED BY <3>3
  <2> HIDE DEF places
  <2>2. Min(places) \in Nat
    BY <2>1, MinProperties
  <2>3. Place(leg, id) \in Nat
    BY <2>2 DEF Place, places
  <2>4. Unit \div (60 + Place(leg, id)) \in Int
    BY <2>3 DEF Unit
  <2> QED BY <1>1, <2>4
<1>2. CASE id \notin ToSet(leg)
  BY <1>2
<1> QED BY <1>1, <1>2

LEMMA FusedIsANumber ==
  ASSUME legs \in Legs, NEW id
  PROVE  Fused(id) \in Int
<1> DEFINE n == Len(legs)
           share(leg) == IF id \in ToSet(leg) THEN Unit \div (60 + Place(leg, id)) ELSE 0
           IsScore(g) == g = [l \in 0..n |-> IF l = 0 THEN 0 ELSE g[l - 1] + share(legs[l])]
           F == CHOOSE g : IsScore(g)
           next == [l \in 1..n |-> [v \in Int |-> v + share(legs[l])]]
<1>1. n \in Nat /\ \A l \in 1..n : share(legs[l]) \in Int
  BY LegsAreLists, ShareIsANumber
<1>2. Fused(id) = F[n]
  BY DEF Fused
<1> HIDE DEF n, share
<1>3. \E f : Walks(f, Int, 0, n, next)
  <2>1. next \in [1..n -> [Int -> Int]] /\ 0 \in Int
    BY <1>1
  <2> HIDE DEF next
  <2> QED BY <1>1, <2>1, StepsExist
<1>4. PICK f : Walks(f, Int, 0, n, next)
  BY <1>3
<1>5. IsScore(f)
  <2>1. f \in [0..n -> Int] /\ f[0] = 0 /\ \A l \in 1..n : f[l] = next[l][f[l - 1]]
    BY <1>4 DEF Walks
  <2>2. \A l \in 1..n : f[l - 1] \in Int
    <3>1. \A l \in 1..n : l - 1 \in 0..n
      BY <1>1
    <3> QED BY <2>1, <3>1
  <2>3. \A l \in 1..n : \A v \in Int : next[l][v] = v + share(legs[l])
    OBVIOUS
  <2>4. \A l \in 0..n : l = 0 \/ l \in 1..n
    BY <1>1
  <2> HIDE DEF next
  <2>5. \A l \in 0..n : f[l] = IF l = 0 THEN 0 ELSE f[l - 1] + share(legs[l])
    BY <2>1, <2>2, <2>3, <2>4
  <2> QED BY <2>1, <2>5
<1>6. IsScore(F)
  <2> HIDE DEF IsScore
  <2> QED BY <1>5
<1> HIDE DEF F
<1>7. F[0] = 0 /\ \A l \in 1..n : F[l] = F[l - 1] + share(legs[l])
  <2>1. 0 \in 0..n /\ \A l \in 1..n : l \in 0..n /\ l # 0
    BY <1>1
  <2> QED BY <1>6, <2>1
<1>8. \A l \in 0..n : F[l] \in Int
  <2>1. F[0] \in Int /\ \A l \in 1..n : F[l - 1] \in Int => F[l] \in Int
    BY <1>1, <1>7
  <2> QED BY <1>1, <2>1, StaysIn
<1> QED BY <1>1, <1>2, <1>8

\* What the fusion makes of the legs: every chunk they returned, once.
LEMMA FuseFacts ==
  ASSUME legs \in Legs
  PROVE  /\ fuse_legs \in Seq(DOMAIN Chunk)
         /\ \A i, j \in 1..Len(fuse_legs) : fuse_legs[i] = fuse_legs[j] => i = j
<1> DEFINE S == UNION {ToSet(legs[l]) : l \in DOMAIN legs}
           f == [x \in S |-> Fused(x)]
           g == [x \in S |-> x]
           before(a, b) == Fused(a) > Fused(b) \/ (Fused(a) = Fused(b) /\ a < b)
           R == {p \in S \X S : before(p[1], p[2])}
<1>0. Len(legs) \in Nat /\ DOMAIN legs = 1..Len(legs)
  BY LegsAreLists
<1>1. \A l \in 1..Len(legs) : ToSet(legs[l]) \subseteq DOMAIN Chunk /\ IsFiniteSet(ToSet(legs[l]))
  BY LegsAreLists, ToSetFacts
<1>2. IsFiniteSet(S)
  <2> DEFINE n == Len(legs)
             T == {ToSet(legs[l]) : l \in 1..n}
  <2>1. IsFiniteSet(1..n)
    BY <1>0, FS_Interval
  <2>2. [l \in 1..n |-> ToSet(legs[l])] \in Surjection(1..n, T)
    BY DEF Surjection
  <2>3. \A t \in T : IsFiniteSet(t)
    BY <1>1
  <2>4. S = UNION T
    BY <1>0
  <2> HIDE DEF T, n, S
  <2>5. IsFiniteSet(T)
    BY <2>1, <2>2, FS_Surjection
  <2>6. IsFiniteSet(UNION T)
    BY <2>3, <2>5, FS_UNION
  <2> QED BY <2>4, <2>6
<1>3. S \subseteq DOMAIN Chunk
  BY <1>0, <1>1
<1>4. S \subseteq Nat
  BY <1>3, ChunkAssumption
<1>5. fuse_legs = InOrder(S, R)
  BY DEF fuse_legs, Sorted
<1> HIDE DEF S
<1>6. Orders(R, S)
  <2>1. f \in [S -> Int] /\ g \in [S -> Int] /\ \A x, y \in S : g[x] = g[y] => x = y
    BY <1>4, FusedIsANumber
  <2>2. ByKeys(S, f, g) = R
    BY DEF ByKeys
  <2> HIDE DEF f, g, R
  <2>3. Orders(ByKeys(S, f, g), S)
    BY <2>1, KeysOrder
  <2> QED BY <2>2, <2>3
<1> HIDE DEF R
<1>7. /\ InOrder(S, R) \in Seq(S) /\ Len(InOrder(S, R)) = Cardinality(S)
      /\ \A i, j \in 1..Cardinality(S) : InOrder(S, R)[i] = InOrder(S, R)[j] => i = j
  BY <1>2, <1>6, InOrderFacts
<1>8. Seq(S) \subseteq Seq(DOMAIN Chunk)
  BY <1>3, SeqMonotonic
<1> QED BY <1>5, <1>7, <1>8

-----------------------------------------------------------------------------
(* Candidates. *)

Candidate == [id : DOMAIN Chunk, fused : Int, rerank : Int \ {0}]

\* A list of candidates, with one for each chunk in it.
Candidates(list) ==
  /\ list \in Seq(Candidate)
  /\ \A i, j \in 1..Len(list) : list[i].id = list[j].id => list[i] = list[j]

LEMMA UnrankedFacts ==
  ASSUME legs \in Legs, NEW ids \in Seq(DOMAIN Chunk)
  PROVE  /\ Candidates(Unranked(ids)) /\ Len(Unranked(ids)) = Len(ids)
         /\ \A i \in 1..Len(ids) :
              Unranked(ids)[i] = [id |-> ids[i], fused |-> Fused(ids[i]), rerank |-> -1]
<1> DEFINE n == Len(ids)
           e(i) == [id |-> ids[i], fused |-> Fused(ids[i]), rerank |-> -1]
           list == [i \in 1..n |-> e(i)]
<1>1. n \in Nat /\ DOMAIN ids = 1..n /\ \A i \in 1..n : ids[i] \in DOMAIN Chunk
  BY LenProperties, ElementOfSeq
<1>2. Unranked(ids) = list
  BY <1>1 DEF Unranked
<1>3. \A i \in 1..n : e(i) \in Candidate
  BY <1>1, FusedIsANumber DEF Candidate
<1>4. \A i, j \in 1..n : e(i).id = e(j).id => e(i) = e(j)
  OBVIOUS
<1> HIDE DEF n, e
<1>5. list \in Seq(Candidate)
  BY <1>1, <1>3, IsASeq
<1>6. Len(list) = n /\ \A i \in 1..n : list[i] = e(i)
  BY <1>1
<1> HIDE DEF list
<1>7. Candidates(list)
  BY <1>4, <1>5, <1>6 DEF Candidates
<1> QED BY <1>2, <1>6, <1>7 DEF n, e

LEMMA TakeCandidates ==
  ASSUME NEW list, Candidates(list), NEW n \in Nat
  PROVE  Candidates(Take(list, n))
<1>1. list \in Seq(Candidate) /\ Len(list) \in Nat
  BY LenProperties DEF Candidates
<1>2. /\ Take(list, n) \in Seq(Candidate) /\ Len(Take(list, n)) <= Len(list)
      /\ Len(Take(list, n)) \in Nat
      /\ \A i \in 1..Len(Take(list, n)) : Take(list, n)[i] = list[i]
  BY <1>1, TakeFacts, LenProperties
<1>3. \A i \in 1..Len(Take(list, n)) : i \in 1..Len(list)
  BY <1>1, <1>2
<1> QED BY <1>2, <1>3 DEF Candidates

\* Where each chunk stands once, its place is where it stands.
LEMMA PlaceFacts ==
  ASSUME NEW S, NEW seq \in Seq(S), NEW i \in 1..Len(seq)
  PROVE  Place(seq, seq[i]) \in 1..Len(seq) /\ seq[Place(seq, seq[i])] = seq[i]
<1> DEFINE places == {j \in DOMAIN seq : seq[j] = seq[i]}
<1>1. Len(seq) \in Nat /\ DOMAIN seq = 1..Len(seq)
  BY LenProperties
<1>2. places \in SUBSET Nat /\ places # {}
  BY <1>1
<1> HIDE DEF places
<1>3. Min(places) \in places
  BY <1>2, MinProperties
<1> QED BY <1>1, <1>3 DEF Place, places

LEMMA ShareOfTheQuestion ==
  ASSUME request.question \in Questions, NEW words \in SUBSET request.question, NEW whole \in Nat
  PROVE  Share(words, whole) \in Nat
<1>1. IsFiniteSet(request.question)
  BY AskedAssumption
<1>2. Cardinality(words) \in Nat
  BY <1>1, FS_Subset, FS_CardinalityType
<1>3. CASE request.question = {}
  BY <1>3 DEF Share
<1>4. CASE request.question # {}
  <2>1. Cardinality(request.question) \in Nat /\ Cardinality(request.question) # 0
    BY <1>1, <1>4, FS_CardinalityType, FS_EmptySet
  <2> QED BY <1>2, <1>4, <2>1 DEF Share
<1> QED BY <1>3, <1>4

LEMMA RerankedFacts ==
  ASSUME legs \in Legs, request.question \in Questions, NEW scored \in 0..Len(Take(fuse_legs, InputK))
  PROVE  Candidates(Reranked(fuse_legs, scored))
<1> DEFINE pool == Take(fuse_legs, InputK)
           n == Len(pool)
           place(c) == Place(pool, c.id)
           S == {Rerank(pool, i) : i \in 1..scored}
           f == [c \in S |-> c.rerank]
           g == [c \in S |-> place(c)]
           before(c, d) == c.rerank > d.rerank \/ (c.rerank = d.rerank /\ place(c) < place(d))
           R == {p \in S \X S : before(p[1], p[2])}
           rest == SubSeq(pool, scored + 1, n)
           first == InOrder(S, R)
<1>0. InputK \in Nat /\ OutputK \in Nat /\ InputK <= 3500
  <2>1. InputK \in 0..3500
    BY ONLY LimitAssumption
  <2>2. OutputK \in Nat
    BY ONLY LimitAssumption
  <2> QED BY ONLY <2>1, <2>2
<1>1. /\ n <= 3500
      /\ pool \in Seq(DOMAIN Chunk) /\ n \in Nat /\ \A i \in 1..n : pool[i] \in DOMAIN Chunk
      /\ \A i, j \in 1..n : pool[i] = pool[j] => i = j
  <2>1. /\ pool \in Seq(DOMAIN Chunk) /\ Len(pool) <= Len(fuse_legs) /\ Len(fuse_legs) \in Nat
        /\ Len(pool) <= InputK
        /\ \A i \in 1..Len(pool) : pool[i] = fuse_legs[i]
    BY <1>0, FuseFacts, TakeFacts, LenProperties
  <2>2. Len(pool) \in Nat /\ \A i \in 1..Len(pool) : i \in 1..Len(fuse_legs) /\ pool[i] \in DOMAIN Chunk
    BY <2>1, LenProperties, ElementOfSeq
  <2> QED BY <1>0, <2>1, <2>2, FuseFacts
<1>2. scored \in 0..n
  OBVIOUS
<1>3. Reranked(fuse_legs, scored) = Take(first \o Unranked(rest), OutputK)
  BY DEF Reranked, Sorted
<1> HIDE DEF pool, n
<1>4. ASSUME NEW i \in 1..n
      PROVE  Rerank(pool, i) \in Candidate /\ Rerank(pool, i).id = pool[i]
  <2> DEFINE held == request.question \cap WordsOf(Chunk[pool[i]].context)
             r == Share(held, 6500) + 3500 \div i
  <2>1. held \in SUBSET request.question
    OBVIOUS
  <2> HIDE DEF held
  <2>4. r \in Int \ {0}
    <3>1. Share(held, 6500) \in Nat
      BY <2>1, ShareOfTheQuestion
    <3>2. 3500 \div i \in Nat \ {0}
      BY <1>1
    <3> QED BY <3>1, <3>2
  <2>5. Rerank(pool, i) = [id |-> pool[i], fused |-> Fused(pool[i]), rerank |-> r]
    BY DEF Rerank, held
  <2> HIDE DEF r
  <2> QED BY <1>1, <2>4, <2>5, FusedIsANumber DEF Candidate
<1>5. \A c \in S : c \in Candidate /\ \E i \in 1..scored : i \in 1..n /\ c = Rerank(pool, i) /\ c.id = pool[i]
  <2> SUFFICES ASSUME NEW i \in 1..scored
               PROVE  Rerank(pool, i) \in Candidate /\ i \in 1..n /\ Rerank(pool, i).id = pool[i]
    OBVIOUS
  <2>1. i \in 1..n
    BY <1>1, <1>2
  <2> QED BY <1>4, <2>1
<1>6. IsFiniteSet(S)
  <2>1. IsFiniteSet(1..scored)
    BY <1>2, FS_Interval
  <2>2. [i \in 1..scored |-> Rerank(pool, i)] \in Surjection(1..scored, S)
    BY DEF Surjection
  <2> HIDE DEF S
  <2> QED BY <2>1, <2>2, FS_Surjection
<1> HIDE DEF S
<1>7. Orders(R, S)
  <2>1. \A c \in S : c.rerank \in Int /\ place(c) \in 1..n /\ pool[place(c)] = c.id
    <3> SUFFICES ASSUME NEW c \in S
                 PROVE  c.rerank \in Int /\ place(c) \in 1..n /\ pool[place(c)] = c.id
      OBVIOUS
    <3>1. PICK i \in 1..n : c.id = pool[i]
      BY <1>5
    <3>2. place(c) \in 1..n /\ pool[place(c)] = pool[i]
      BY <1>1, <3>1, PlaceFacts DEF n
    <3> QED BY <1>5, <3>1, <3>2 DEF Candidate
  <2>2. \A c, d \in S : c.id = d.id => c = d
    <3> SUFFICES ASSUME NEW c \in S, NEW d \in S, c.id = d.id PROVE c = d
      OBVIOUS
    <3>1. PICK i \in 1..n : c = Rerank(pool, i) /\ c.id = pool[i]
      BY <1>5
    <3>2. PICK j \in 1..n : d = Rerank(pool, j) /\ d.id = pool[j]
      BY <1>5
    <3> QED BY <1>1, <3>1, <3>2
  <2> HIDE DEF place
  <2>3. f \in [S -> Int] /\ g \in [S -> Int] /\ \A x, y \in S : g[x] = g[y] => x = y
    BY <1>1, <2>1, <2>2
  <2>4. ByKeys(S, f, g) = R
    BY DEF ByKeys
  <2> HIDE DEF f, g, R
  <2>5. Orders(ByKeys(S, f, g), S)
    BY <2>3, KeysOrder
  <2> QED BY <2>4, <2>5
<1> HIDE DEF R
<1>8. first \in Seq(S)
  BY <1>6, <1>7, InOrderFacts
<1>9. /\ rest \in Seq(DOMAIN Chunk)
      /\ \A j \in 1..Len(rest) : scored + j \in 1..n /\ rest[j] = pool[scored + j]
  <2>1. \A j \in (scored + 1)..n : pool[j] \in DOMAIN Chunk
    BY <1>1, <1>2
  <2>2. /\ rest \in Seq(DOMAIN Chunk)
        /\ Len(rest) = IF scored + 1 <= n THEN n - (scored + 1) + 1 ELSE 0
        /\ \A j \in 1..(n - (scored + 1) + 1) : rest[j] = pool[(scored + 1) + j - 1]
    BY <1>1, <1>2, <2>1, SubSeqProperties
  <2> HIDE DEF rest
  <2>3. \A j \in 1..Len(rest) : /\ j \in 1..(n - (scored + 1) + 1) /\ (scored + 1) + j - 1 = scored + j
                                /\ scored + j \in 1..n
    BY <1>1, <1>2, <2>2
  <2> QED BY <2>2, <2>3
<1> HIDE DEF first, rest
<1> DEFINE whole == first \o Unranked(rest)
           e(i) == IF i <= scored THEN Rerank(pool, i)
                   ELSE [id |-> pool[i], fused |-> Fused(pool[i]), rerank |-> -1]
<1>10. /\ Candidates(Unranked(rest)) /\ Len(Unranked(rest)) = Len(rest)
       /\ \A i \in 1..Len(rest) :
            Unranked(rest)[i] = [id |-> rest[i], fused |-> Fused(rest[i]), rerank |-> -1]
  BY <1>9, UnrankedFacts
<1>11. first \in Seq(Candidate) /\ Unranked(rest) \in Seq(Candidate)
  <2>1. Seq(S) \subseteq Seq(Candidate)
    BY <1>5, SeqMonotonic
  <2> QED BY <1>8, <1>10, <2>1 DEF Candidates
<1>12. /\ whole \in Seq(Candidate) /\ Len(whole) = Len(first) + Len(Unranked(rest))
       /\ Len(first) \in Nat /\ Len(Unranked(rest)) \in Nat
       /\ \A i \in 1..Len(first) : whole[i] = first[i]
       /\ \A i \in 1..Len(Unranked(rest)) : whole[Len(first) + i] = Unranked(rest)[i]
  BY <1>11, ConcatElements
<1> HIDE DEF whole
<1>13. ASSUME NEW k \in 1..Len(whole)
       PROVE  \E i \in 1..n : whole[k] = e(i) /\ whole[k].id = pool[i]
  <2>1. CASE k \in 1..Len(first)
    <3>1. whole[k] \in S
      BY <1>8, <1>12, <2>1, ElementOfSeq
    <3>2. PICK i \in 1..scored : i \in 1..n /\ whole[k] = Rerank(pool, i) /\ whole[k].id = pool[i]
      BY <1>5, <3>1
    <3>3. i <= scored
      BY <1>2
    <3> QED BY <3>2, <3>3
  <2>2. CASE k \notin 1..Len(first)
    <3> DEFINE j == k - Len(first)
    <3>1. j \in 1..Len(rest) /\ k = Len(first) + j
      BY <1>10, <1>12, <2>2
    <3> HIDE DEF j
    <3>2. whole[k] = [id |-> pool[scored + j], fused |-> Fused(pool[scored + j]), rerank |-> -1]
      BY <1>9, <1>10, <1>12, <3>1
    <3>3. scored + j \in 1..n /\ ~(scored + j <= scored)
      BY <1>2, <1>9, <3>1
    <3>4. whole[k] = e(scored + j) /\ whole[k].id = pool[scored + j]
      BY <3>2, <3>3
    <3> HIDE DEF e
    <3> QED BY <3>3, <3>4
  <2> QED BY <2>1, <2>2
<1>14. Candidates(whole)
  <2> HIDE DEF e
  <2>1. ASSUME NEW k \in 1..Len(whole), NEW m \in 1..Len(whole), whole[k].id = whole[m].id
        PROVE  whole[k] = whole[m]
    <3>1. PICK i \in 1..n : whole[k] = e(i) /\ whole[k].id = pool[i]
      BY <1>13
    <3>2. PICK j \in 1..n : whole[m] = e(j) /\ whole[m].id = pool[j]
      BY <1>13
    <3>3. i = j
      BY <1>1, <2>1, <3>1, <3>2
    <3> QED BY <3>1, <3>2, <3>3
  <2> QED BY <1>12, <2>1 DEF Candidates
<1>15. Candidates(Take(whole, OutputK))
  BY <1>0, <1>14, TakeCandidates
<1> QED BY <1>3, <1>15 DEF whole

-----------------------------------------------------------------------------
(* Groups. *)

Cluster == {members \in Seq(Candidate) : members # << >>}

Group == [marker : Nat, members : SUBSET Candidate, representative : Candidate,
          root : {Chunk[id].root : id \in DOMAIN Chunk}, authority : 0..100, independent : BOOLEAN]

\* A list of groups, no two of one marker.
Groups(list) ==
  /\ list \in Seq(Group)
  /\ \A i, j \in 1..Len(list) : list[i].marker = list[j].marker => i = j

LEMMA EffectiveIsANumber ==
  ASSUME NEW c \in Candidate
  PROVE  Effective(c) \in Int
BY DEF Effective, Candidate

LEMMA JoinedFacts ==
  ASSUME NEW clusters \in Seq(Cluster), NEW c \in Candidate
  PROVE  Joined(clusters, c) \in Seq(Cluster)
<1> DEFINE hosts == {i \in DOMAIN clusters : Similar(clusters[i][1], c)}
<1>1. Len(clusters) \in Nat /\ DOMAIN clusters = 1..Len(clusters)
  BY LenProperties
<1>2. CASE hosts = {}
  <2>1. <<c>> \in Cluster
    BY DEF Cluster
  <2>2. Append(clusters, <<c>>) \in Seq(Cluster)
    BY <2>1, AppendProperties
  <2> QED BY <1>2, <2>2 DEF Joined
<1>3. CASE hosts # {}
  <2> DEFINE k == Min(hosts)
  <2>1. k \in 1..Len(clusters)
    <3>1. hosts \in SUBSET Nat /\ hosts \subseteq 1..Len(clusters)
      BY <1>1
    <3> HIDE DEF hosts
    <3> QED BY <1>3, <3>1, MinProperties
  <2>2. Joined(clusters, c) = [clusters EXCEPT ![k] = Append(clusters[k], c)]
    BY <1>3 DEF Joined
  <2> HIDE DEF k
  <2>3. clusters[k] \in Seq(Candidate)
    BY <2>1, ElementOfSeq DEF Cluster
  <2> DEFINE host == clusters[k]
             more == Append(host, c)
  <2>4. host \in Seq(Candidate)
    BY <2>3
  <2> HIDE DEF host
  <2>5. more \in Seq(Candidate) /\ Len(more) = Len(host) + 1 /\ Len(host) \in Nat
    BY <2>4, AppendProperties, LenProperties
  <2>6. more # << >>
    <3>1. Len(more) # 0
      BY <2>5
    <3> HIDE DEF more
    <3> QED BY <3>1
  <2>7. more \in Cluster
    BY <2>5, <2>6 DEF Cluster
  <2> HIDE DEF more
  <2>8. [clusters EXCEPT ![k] = more] \in Seq(Cluster)
    BY <2>1, <2>7, ExceptSeq
  <2> QED BY <2>2, <2>8 DEF more, host
<1> QED BY <1>2, <1>3

LEMMA ClusteredFacts ==
  ASSUME NEW list \in Seq(Candidate)
  PROVE  Clustered(list) \in Seq(Cluster)
<1> DEFINE n == Len(list)
           V == Seq(Cluster)
           IsMade(h) == h = [i \in 0..n |-> IF i = 0 THEN << >> ELSE Joined(h[i - 1], list[i])]
           F == CHOOSE h : IsMade(h)
           next == [i \in 1..n |-> [v \in V |-> Joined(v, list[i])]]
<1>1. n \in Nat /\ \A i \in 1..n : list[i] \in Candidate
  BY LenProperties, ElementOfSeq
<1>2. Clustered(list) = F[n]
  BY DEF Clustered
<1>3. << >> \in V /\ \A i \in 1..n : \A v \in V : Joined(v, list[i]) \in V
  <2>1. << >> \in V
    OBVIOUS
  <2>2. ASSUME NEW i \in 1..n, NEW v \in V PROVE Joined(v, list[i]) \in V
    BY <1>1, JoinedFacts
  <2> QED BY <2>1, <2>2
<1> HIDE DEF n, V
<1>4. \E f : Walks(f, V, << >>, n, next)
  <2>1. next \in [1..n -> [V -> V]]
    BY <1>3
  <2> HIDE DEF next
  <2> DEFINE first == << >>
  <2>2. first \in V
    BY <1>3
  <2> HIDE DEF first
  <2>3. \E f : Walks(f, V, first, n, next)
    BY <1>1, <2>1, <2>2, StepsExist
  <2> QED BY <2>3 DEF first
<1>5. PICK f : Walks(f, V, << >>, n, next)
  BY <1>4
<1>6. IsMade(f)
  <2>1. f \in [0..n -> V] /\ f[0] = << >> /\ \A i \in 1..n : f[i] = next[i][f[i - 1]]
    BY <1>5 DEF Walks
  <2>2. \A i \in 1..n : f[i - 1] \in V
    <3>1. \A i \in 1..n : i - 1 \in 0..n
      BY <1>1
    <3> QED BY <2>1, <3>1
  <2>3. \A i \in 1..n : \A v \in V : next[i][v] = Joined(v, list[i])
    OBVIOUS
  <2>4. \A i \in 0..n : i = 0 \/ i \in 1..n
    BY <1>1
  <2> HIDE DEF next
  <2>5. \A i \in 0..n : f[i] = IF i = 0 THEN << >> ELSE Joined(f[i - 1], list[i])
    BY <2>1, <2>2, <2>3, <2>4
  <2> QED BY <2>1, <2>5
<1>7. IsMade(F)
  <2> HIDE DEF IsMade
  <2> QED BY <1>6
<1> HIDE DEF F
<1>8. F[0] = << >> /\ \A i \in 1..n : F[i] = Joined(F[i - 1], list[i])
  <2>1. 0 \in 0..n /\ \A i \in 1..n : i \in 0..n /\ i # 0
    BY <1>1
  <2> QED BY <1>7, <2>1
<1>9. \A i \in 0..n : F[i] \in V
  <2>1. F[0] \in V /\ \A i \in 1..n : F[i - 1] \in V => F[i] \in V
    BY <1>3, <1>8
  <2> QED BY <1>1, <2>1, StaysIn
<1> QED BY <1>1, <1>2, <1>9 DEF V

\* The representative is a member.
LEMMA RepresentativeFacts ==
  ASSUME NEW members \in Cluster
  PROVE  Representative(members) \in ToSet(members)
<1> DEFINE n == Len(members)
           a(i) == Chunk[members[i].id].authority
           e(i) == Effective(members[i])
           better(i, j) == a(i) > a(j) \/ (a(i) = a(j) /\ e(i) > e(j))
           best == {i \in DOMAIN members : \A j \in DOMAIN members : ~better(j, i)}
<1>1. members \in Seq(Candidate) /\ members # << >>
  BY DEF Cluster
<1>2. /\ n \in Nat /\ DOMAIN members = 1..n /\ n # 0
      /\ \A i \in 1..n : members[i] \in Candidate
  BY <1>1, LenProperties, EmptySeq, ElementOfSeq
<1>3. \A i \in 1..n : a(i) \in Int /\ e(i) \in Int
  <2> SUFFICES ASSUME NEW i \in 1..n PROVE a(i) \in Int /\ e(i) \in Int
    OBVIOUS
  <2>1. members[i] \in Candidate /\ members[i].id \in DOMAIN Chunk
    BY <1>2 DEF Candidate
  <2>2. e(i) \in Int
    BY <2>1, EffectiveIsANumber
  <2>3. a(i) \in Int
    <3>1. \A id \in DOMAIN Chunk : Chunk[id].authority \in 0..100
      BY ChunkAssumption
    <3> DEFINE authority == Chunk[members[i].id].authority
    <3>2. authority \in 0..100
      BY <2>1, <3>1
    <3> HIDE DEF authority
    <3>3. authority \in Int
      BY <3>2
    <3> QED BY <3>3 DEF authority
  <2> QED BY <2>2, <2>3
<1>4. Representative(members) = members[Min(best)]
  BY DEF Representative
<1> HIDE DEF n, a, e
<1>5. IsFiniteSet(1..n) /\ 1..n # {}
  <2>1. 1 \in Int /\ n \in Int /\ 1 \in 1..n
    BY <1>2
  <2> QED BY <2>1, FS_Interval
<1> DEFINE A == {a(i) : i \in 1..n}
           top == Max(A)
           T == {i \in 1..n : a(i) = top}
           E == {e(i) : i \in T}
           peak == Max(E)
<1>6. A \in SUBSET Int /\ A # {} /\ IsFiniteSet(A)
  <2>1. [i \in 1..n |-> a(i)] \in Surjection(1..n, A)
    BY DEF Surjection
  <2>2. A \in SUBSET Int /\ A # {}
    BY <1>2, <1>3
  <2> HIDE DEF A
  <2> QED BY <1>5, <2>1, <2>2, FS_Surjection
<1>7. top \in A /\ \A i \in 1..n : top >= a(i)
  <2>1. \A i \in 1..n : a(i) \in A
    OBVIOUS
  <2> HIDE DEF A
  <2> QED BY <1>6, <2>1, OneIsGreatest
<1> HIDE DEF top
<1>8. T # {} /\ T \subseteq 1..n
  BY <1>7
<1> HIDE DEF A, T
<1>9. E \in SUBSET Int /\ E # {} /\ IsFiniteSet(E)
  <2>1. [i \in T |-> e(i)] \in Surjection(T, E)
    BY DEF Surjection
  <2>2. E \in SUBSET Int /\ E # {}
    BY <1>3, <1>8
  <2>3. IsFiniteSet(T)
    BY <1>5, <1>8, FS_Subset
  <2> HIDE DEF E
  <2> QED BY <2>1, <2>2, <2>3, FS_Surjection
<1>10. peak \in E /\ \A i \in T : peak >= e(i)
  <2>1. \A i \in T : e(i) \in E
    OBVIOUS
  <2> HIDE DEF E
  <2> QED BY <1>9, <2>1, OneIsGreatest
<1> HIDE DEF peak
<1>11. PICK i \in T : e(i) = peak
  BY <1>10
<1>12. \A j \in 1..n : ~better(j, i)
  <2> SUFFICES ASSUME NEW j \in 1..n PROVE ~better(j, i)
    OBVIOUS
  <2>1. a(i) = top /\ top >= a(j) /\ i \in 1..n
    BY <1>7, <1>8 DEF T
  <2>2. a(j) = a(i) => e(i) >= e(j)
    BY <1>10, <1>11, <2>1 DEF T
  <2> QED BY <1>3, <2>1, <2>2
<1> HIDE DEF better
<1>13. best \in SUBSET Nat /\ best # {} /\ best \subseteq 1..n
  <2>1. i \in 1..n
    BY <1>8, <1>11
  <2>2. i \in best
    BY <1>2, <1>12, <2>1
  <2>3. best \subseteq 1..n /\ 1..n \subseteq Nat
    BY <1>2
  <2> QED BY <2>2, <2>3
<1> HIDE DEF best
<1>14. Min(best) \in 1..n
  BY <1>13, MinProperties
<1> QED BY <1>2, <1>4, <1>14 DEF ToSet

LEMMA GroupFacts ==
  ASSUME legs \in Legs, NEW list, Candidates(list)
  PROVE  LET all == group_candidates(list)
         IN  /\ Groups(all) /\ DOMAIN all = 1..Len(all)
             /\ \A i \in 1..Len(all) : all[i].marker = i
<1> DEFINE S == ToSet(list)
           f == [c \in S |-> Effective(c)]
           g == [c \in S |-> c.id]
           before(c, d) == Effective(c) > Effective(d) \/ (Effective(c) = Effective(d) /\ c.id < d.id)
           R == {p \in S \X S : before(p[1], p[2])}
           clusters == Clustered(InOrder(S, R))
           voice(i) == Representative(clusters[i])
           root(i) == Chunk[voice(i).id].root
           e(i) == [marker |-> i, members |-> ToSet(clusters[i]), representative |-> voice(i), root |-> root(i),
                    authority |-> Max({Chunk[m.id].authority : m \in ToSet(clusters[i])}),
                    independent |-> \A j \in 1..(i - 1) : root(j) # root(i)]
           n == Len(clusters)
           all == [i \in 1..n |-> e(i)]
<1>1. /\ S \subseteq Candidate /\ IsFiniteSet(S)
      /\ \A c, d \in S : c.id = d.id => c = d
  <2>1. list \in Seq(Candidate)
    BY DEF Candidates
  <2>2. S \subseteq Candidate /\ S = {list[i] : i \in 1..Len(list)} /\ IsFiniteSet(S)
    BY <2>1, ToSetFacts
  <2> QED BY <2>2 DEF Candidates
<1> HIDE DEF S
<1>2. Orders(R, S)
  <2>1. f \in [S -> Int]
    BY <1>1, EffectiveIsANumber
  <2>2. g \in [S -> Int] /\ \A x, y \in S : g[x] = g[y] => x = y
    <3>1. DOMAIN Chunk \subseteq Int
      BY ChunkAssumption
    <3>2. \A c \in S : c.id \in DOMAIN Chunk
      BY <1>1 DEF Candidate
    <3> QED BY <1>1, <3>1, <3>2
  <2>3. ByKeys(S, f, g) = R
    BY DEF ByKeys
  <2> HIDE DEF f, g, R
  <2>4. Orders(ByKeys(S, f, g), S)
    BY <2>1, <2>2, KeysOrder
  <2> QED BY <2>3, <2>4
<1> HIDE DEF R
<1>3. InOrder(S, R) \in Seq(Candidate)
  <2>1. InOrder(S, R) \in Seq(S)
    BY <1>1, <1>2, InOrderFacts
  <2>2. Seq(S) \subseteq Seq(Candidate)
    BY <1>1, SeqMonotonic
  <2> QED BY <2>1, <2>2
<1>4. clusters \in Seq(Cluster)
  BY <1>3, ClusteredFacts
<1>5. group_candidates(list) = all
  <2>1. DOMAIN clusters = 1..n
    BY <1>4, LenProperties
  <2>2. R = {p \in S \X S : before(p[1], p[2])}
    BY DEF R
  <2>3. group_candidates(list) = [i \in DOMAIN clusters |-> e(i)]
    BY <2>2 DEF group_candidates, Sorted, S
  <2> HIDE DEF e, clusters
  <2> QED BY <2>1, <2>3
<1> HIDE DEF clusters
<1>6. n \in Nat /\ \A i \in 1..n : clusters[i] \in Cluster
  BY <1>4, LenProperties, ElementOfSeq
<1>7. ASSUME NEW i \in 1..n PROVE e(i) \in Group
  <2> DEFINE members == ToSet(clusters[i])
             A == {Chunk[m.id].authority : m \in members}
  <2>1. clusters[i] \in Seq(Candidate)
    BY <1>6 DEF Cluster
  <2>2. members \subseteq Candidate /\ voice(i) \in members
    BY <1>6, <2>1, ToSetFacts, RepresentativeFacts
  <2>3. \A m \in members : m.id \in DOMAIN Chunk
    BY <2>2 DEF Candidate
  <2> HIDE DEF members, voice
  <2>4. A \in SUBSET (0..100) /\ A # {}
    <3>1. \A id \in DOMAIN Chunk : Chunk[id].authority \in 0..100
      BY ChunkAssumption
    <3> QED BY <2>2, <2>3, <3>1
  <2>5. root(i) \in {Chunk[id].root : id \in DOMAIN Chunk}
    BY <2>2, <2>3
  <2>6. Max(A) \in 0..100
    <3> HIDE DEF A
    <3>1. IsFiniteSet(0..100)
      <4>1. 0 \in Int /\ 100 \in Int
        OBVIOUS
      <4> QED BY <4>1, FS_Interval
    <3>2. IsFiniteSet(A)
      BY <2>4, <3>1, FS_Subset
    <3>3. A \in SUBSET Int
      BY <2>4
    <3>4. Max(A) \in A
      BY <2>4, <3>2, <3>3, OneIsGreatest
    <3> QED BY <2>4, <3>4
  <2>7. e(i).independent \in BOOLEAN
    BY DEF root
  <2> HIDE DEF A, root
  <2>8. e(i) = [marker |-> i, members |-> members, representative |-> voice(i), root |-> root(i),
                authority |-> Max(A), independent |-> \A j \in 1..(i - 1) : root(j) # root(i)]
    BY DEF members, voice, root, A
  <2>9. i \in Nat
    BY <1>6
  <2> HIDE DEF e
  <2> QED BY <2>2, <2>5, <2>6, <2>8, <2>9 DEF Group
<1>8. \A i \in 1..n : e(i).marker = i
  OBVIOUS
<1> HIDE DEF e, n
<1>9. all \in Seq(Group) /\ Len(all) = n /\ DOMAIN all = 1..n /\ \A i \in 1..n : all[i] = e(i)
  BY <1>6, <1>7, IsASeq
<1> HIDE DEF all
<1>10. Groups(all)
  BY <1>8, <1>9 DEF Groups
<1> QED BY <1>5, <1>8, <1>9, <1>10

-----------------------------------------------------------------------------
(* The screen. *)

FlowSpec == FlowInit /\ [][FlowNext]_flowVars

Request == [question : Questions, private : BOOLEAN, strict : BOOLEAN,
            level : {0, 2}, window : Windows, session : BOOLEAN]

ScreenInv ==
  /\ request \in Request /\ legs \in Legs
  /\ Groups(groups)
  /\ NothingForeignIsShown

\* The groups that nothing is held against, with the markers they had.
LEMMA ScreenedGroups ==
  ASSUME NEW all, Groups(all), NEW K \in SUBSET (1..Len(all))
  PROVE  /\ Groups(Picked(all, K))
         /\ ToSet(Picked(all, K)) = {all[i] : i \in K}
<1> DEFINE picked == Picked(all, K)
<1>1. all \in Seq(Group) /\ Len(all) \in Nat
  BY LenProperties DEF Groups
<1>2. picked \in Seq(Group) /\ \E at : Locates(at, picked, all, K \cap (1..Len(all)))
  BY <1>1, PickedLocates
<1>3. {picked[j] : j \in 1..Len(picked)} = {all[i] : i \in K}
  BY <1>1, PickedHolds
<1>4. K \cap (1..Len(all)) = K
  OBVIOUS
<1> HIDE DEF picked
<1>5. PICK at : Locates(at, picked, all, K)
  BY <1>2, <1>4
<1>6. Len(picked) \in Nat /\ ToSet(picked) = {picked[j] : j \in 1..Len(picked)}
  BY <1>2, ToSetFacts, LenProperties
<1>7. ASSUME NEW j \in 1..Len(picked), NEW k \in 1..Len(picked), picked[j].marker = picked[k].marker
      PROVE  j = k
  <2>1. /\ at[j] \in 1..Len(all) /\ at[k] \in 1..Len(all)
        /\ picked[j] = all[at[j]] /\ picked[k] = all[at[k]]
    BY <1>5 DEF Locates
  <2>2. at[j] = at[k]
    BY <1>7, <2>1 DEF Groups
  <2>3. (j < k => at[j] < at[k]) /\ (k < j => at[k] < at[j])
    BY <1>5 DEF Locates
  <2>4. at[j] \in Nat /\ at[k] \in Nat
    BY <1>1, <2>1
  <2> QED BY <1>6, <2>2, <2>3, <2>4
<1>8. Groups(picked)
  BY <1>2, <1>7 DEF Groups
<1> QED BY <1>3, <1>6, <1>8 DEF picked

LEMMA RetrieveScreens ==
  ASSUME ScreenInv, NEW list, Candidates(list), Retrieve(list)
  PROVE  Groups(groups') /\ NothingForeignIsShown'
<1> DEFINE all == group_candidates(list)
           drops(g) == Foreign(g) \/ Unhealthy(g) \/ Injected(g)
           K == {i \in DOMAIN all : ~drops(all[i])}
<1>1. Groups(all) /\ DOMAIN all = 1..Len(all) /\ \A i \in 1..Len(all) : all[i].marker = i
  BY GroupFacts DEF ScreenInv
<1>2. \/ phase' = "refused" /\ groups' = groups
      \/ /\ phase' = "retrieved" /\ groups' = Picked(all, K)
         /\ verdicts' = {all[i].marker : i \in {j \in DOMAIN all : drops(all[j])}}
         /\ ~\E i \in DOMAIN all : Breach(all[i])
         /\ quarantined' = quarantined
  BY DEF Retrieve
<1> HIDE DEF all
<1>3. CASE phase' = "refused" /\ groups' = groups
  BY <1>3 DEF ScreenInv, Groups, NothingForeignIsShown
<1>4. CASE /\ phase' = "retrieved" /\ groups' = Picked(all, K)
           /\ verdicts' = {all[i].marker : i \in {j \in DOMAIN all : drops(all[j])}}
           /\ ~\E i \in DOMAIN all : Breach(all[i])
           /\ quarantined' = quarantined
  <2>1. K \in SUBSET (1..Len(all))
    BY <1>1
  <2>2. \A i \in K : i \in DOMAIN all /\ ~drops(all[i])
    OBVIOUS
  <2> HIDE DEF K, drops
  <2>3. Groups(groups') /\ ToSet(groups') = {all[i] : i \in K}
    BY <1>1, <1>4, <2>1, ScreenedGroups
  <2>4. ASSUME NEW i \in K, NEW m \in all[i].members
        PROVE  /\ Chunk[m.id].tenant = Tenant /\ Chunk[m.id].acl \in Acls
               /\ ~Chunk[m.id].injected /\ ~Chunk[m.id].canary
               /\ Chunk[m.id].source \notin quarantined
    BY <1>4, <2>2 DEF drops, Breach, Foreign, Unhealthy, Injected, Screened
  <2>5. verdicts' \cap {g.marker : g \in ToSet(groups')} = {}
    <3> SUFFICES ASSUME NEW i \in K, all[i].marker \in verdicts' PROVE FALSE
      BY <2>3
    <3>1. PICK j \in DOMAIN all : drops(all[j]) /\ all[j].marker = all[i].marker
      BY <1>4
    <3>2. i = j
      BY <1>1, <2>1, <3>1
    <3> QED BY <2>2, <3>1, <3>2
  <2> QED BY <1>4, <2>3, <2>4, <2>5 DEF NothingForeignIsShown
<1> QED BY <1>2, <1>3, <1>4

LEMMA ScreenStep == ScreenInv /\ [FlowNext]_flowVars => ScreenInv'
<1> SUFFICES ASSUME ScreenInv, [FlowNext]_flowVars PROVE ScreenInv'
  OBVIOUS
<1>1. ASSUME NEW list, Candidates(list), Retrieve(list) PROVE ScreenInv'
  <2>1. request' = request /\ legs' = legs
    BY <1>1 DEF Retrieve
  <2>2. Groups(groups') /\ NothingForeignIsShown'
    BY <1>1, RetrieveScreens
  <2>3. request' \in Request /\ legs' \in Legs
    BY <2>1 DEF ScreenInv
  <2> QED BY <2>2, <2>3 DEF ScreenInv, Groups
<1>2. CASE RetrieveFused
  <2>1. Candidates(Take(Unranked(fuse_legs), OutputK))
    BY FuseFacts, UnrankedFacts, TakeCandidates, LimitAssumption DEF ScreenInv
  <2> QED BY <1>1, <1>2, <2>1 DEF RetrieveFused
<1>3. CASE RetrieveReranked
  <2>1. PICK scored \in 0..Len(Take(fuse_legs, InputK)) : Retrieve(Reranked(fuse_legs, scored))
    BY <1>3 DEF RetrieveReranked
  <2>2. Candidates(Reranked(fuse_legs, scored))
    BY RerankedFacts DEF ScreenInv, Request
  <2> QED BY <1>1, <2>1, <2>2
<1>4. ASSUME NEW source \in Sources, Quarantine(source) \/ Reinstate(source) PROVE ScreenInv'
  BY <1>4 DEF ScreenInv, Groups, NothingForeignIsShown, Quarantine, Reinstate
<1>5. ASSUME UNCHANGED <<request, legs, groups, verdicts, quarantined>>, phase \notin {"asked", "refused"}
      PROVE  ScreenInv'
  BY <1>5 DEF ScreenInv, Groups, NothingForeignIsShown
<1>6. CASE ShadowServes \/ ShadowYields \/ Build \/ Send
  BY <1>5, <1>6 DEF ShadowServes, ShadowYields, Build, Send
<1>7. ASSUME NEW sentences, Generate(sentences) PROVE ScreenInv'
  BY <1>5, <1>7 DEF Generate
<1>8. CASE UNCHANGED flowVars
  BY <1>8 DEF ScreenInv, Groups, NothingForeignIsShown, flowVars
<1> QED BY <1>2, <1>3, <1>4, <1>6, <1>7, <1>8 DEF FlowNext

\* Whatever the legs return and in whatever order it is fused, scored, grouped
\* and packed, no group in evidence has a member the caller may not read, of a
\* source in quarantine, with an instruction in it, or a canary (screen_groups).
THEOREM ForeignTextIsScreened == FlowSpec => []NothingForeignIsShown
<1>1. FlowInit => ScreenInv
  <2> SUFFICES ASSUME FlowInit PROVE ScreenInv
    OBVIOUS
  <2>1. Groups(<< >>)
    BY DEF Groups
  <2>2. phase = "asked" /\ groups = << >> /\ request \in Request /\ legs \in Legs
    BY DEF FlowInit, Request
  <2> QED BY <2>1, <2>2 DEF ScreenInv, NothingForeignIsShown
<1>2. ScreenInv /\ [FlowNext]_flowVars => ScreenInv'
  BY ScreenStep
<1>3. ScreenInv => NothingForeignIsShown
  BY DEF ScreenInv
<1> QED BY <1>1, <1>2, <1>3, PTL DEF FlowSpec

-----------------------------------------------------------------------------
(* What a group weighs. *)

LEMMA WordsAreFinite ==
  ASSUME NEW id \in DOMAIN Chunk
  PROVE  /\ IsFiniteSet(WordsOf(Chunk[id].text)) /\ IsFiniteSet(WordsOf(Chunk[id].context))
         /\ IsFiniteSet(Chunk[id].context) /\ Chunk[id].context # {}
<1>1. ASSUME NEW T, IsFiniteSet(T), \A s \in T : IsFiniteSet(s.words)
      PROVE  IsFiniteSet(WordsOf(T))
  <2> DEFINE W == {s.words : s \in T}
  <2>1. [s \in T |-> s.words] \in Surjection(T, W)
    BY DEF Surjection
  <2>2. \A w \in W : IsFiniteSet(w)
    BY <1>1
  <2> HIDE DEF W
  <2>3. IsFiniteSet(W)
    BY <1>1, <2>1, FS_Surjection
  <2>4. IsFiniteSet(UNION W)
    BY <2>2, <2>3, FS_UNION
  <2> QED BY <2>4 DEF W, WordsOf
<1>2. /\ IsFiniteSet(Chunk[id].text) /\ IsFiniteSet(Chunk[id].context) /\ Chunk[id].context # {}
      /\ \A s \in Chunk[id].text \cup Chunk[id].context : IsFiniteSet(s.words)
  BY ChunkAssumption
<1> QED BY <1>1, <1>2

LEMMA CostFacts ==
  ASSUME NEW g \in Group
  PROVE  /\ IsFiniteSet(Context(g)) /\ Cost(g) \in Nat /\ Cost(g) # 0
         /\ IsFiniteSet({g} \X Context(g)) /\ Cardinality({g} \X Context(g)) = Cost(g)
<1>1. g.representative.id \in DOMAIN Chunk
  BY DEF Group, Candidate
<1>2. IsFiniteSet(Context(g)) /\ Context(g) # {}
  BY <1>1, WordsAreFinite DEF Context
<1>3. Cost(g) \in Nat /\ Cost(g) # 0
  BY <1>2, FS_CardinalityType, FS_EmptySet DEF Cost
<1>4. IsFiniteSet({g}) /\ Cardinality({g}) = 1
  BY FS_Singleton
<1>5. IsFiniteSet({g} \X Context(g)) /\ Cardinality({g} \X Context(g)) = Cardinality({g}) * Cardinality(Context(g))
  BY <1>2, <1>4, FS_Product
<1>6. Cardinality({g} \X Context(g)) = 1 * Cost(g)
  BY <1>4, <1>5 DEF Cost
<1>7. 1 * Cost(g) = Cost(g)
  BY <1>3
<1> QED BY <1>2, <1>3, <1>5, <1>6, <1>7

LEMMA NothingIsFree ==
  Tokens({}) = 0
<1>1. UNION {{h} \X Context(h) : h \in {}} = {}
  OBVIOUS
<1> QED BY <1>1, FS_EmptySet DEF Tokens

\* Groups cost what each of them costs.
LEMMA TokensAdd ==
  ASSUME NEW T \in SUBSET Group, IsFiniteSet(T), NEW g \in Group, g \notin T
  PROVE  Tokens(T \cup {g}) = Tokens(T) + Cost(g) /\ Tokens(T) \in Nat
<1> DEFINE P == {{h} \X Context(h) : h \in T}
           A == UNION P
           B == {g} \X Context(g)
<1>1. IsFiniteSet(A)
  <2>1. [h \in T |-> {h} \X Context(h)] \in Surjection(T, P)
    BY DEF Surjection
  <2>2. \A p \in P : IsFiniteSet(p)
    BY CostFacts
  <2> HIDE DEF P
  <2>3. IsFiniteSet(P)
    BY <2>1, FS_Surjection
  <2> QED BY <2>2, <2>3, FS_UNION
<1>2. Tokens(T) = Cardinality(A)
  BY DEF Tokens
<1>3. Tokens(T \cup {g}) = Cardinality(A \cup B)
  <2>1. UNION {{h} \X Context(h) : h \in T \cup {g}} = A \cup B
    OBVIOUS
  <2> QED BY <2>1 DEF Tokens
<1>4. A \cap B = {}
  OBVIOUS
<1>5. IsFiniteSet(B) /\ Cardinality(B) = Cost(g) /\ Cost(g) \in Nat
  BY CostFacts
<1> HIDE DEF A, B
<1>6. Cardinality(A \cup B) = Cardinality(A) + Cardinality(B) - Cardinality(A \cap B)
  BY <1>1, <1>5, FS_Union
<1>7. Cardinality(A \cap B) = 0 /\ Cardinality(A) \in Nat
  BY <1>1, <1>4, FS_EmptySet, FS_CardinalityType
<1> QED BY <1>2, <1>3, <1>5, <1>6, <1>7

LEMMA DensityIsANumber ==
  ASSUME request.question \in Questions, NEW g \in Group, NEW selected \in SUBSET Group, IsFiniteSet(selected)
  PROVE  Density(g, selected) \in Int
<1> DEFINE words == WordsOf(Chunk[g.representative.id].text)
           others(h) == WordsOf(Chunk[h.representative.id].text)
           likeness(h) == IF words \cap others(h) = {} THEN 0
                          ELSE (100 * Cardinality(words \cap others(h))) \div Cardinality(words \cup others(h))
           L == {likeness(h) : h \in selected}
           redundancy == Max({0} \cup L)
           covered == UNION {WordsOf(Context(h)) : h \in selected}
           fresh == (WordsOf(Context(g)) \cap request.question) \ covered
           base == ((Effective(g.representative) * g.authority) \div 100) * (100 - redundancy)
           bonus == 100 + Share(fresh, 50)
<1>1. \A h \in Group : h.representative.id \in DOMAIN Chunk /\ h.representative \in Candidate /\ h.authority \in 0..100
  BY DEF Group, Candidate
<1>2. IsFiniteSet(words) /\ \A h \in selected : IsFiniteSet(others(h))
  BY <1>1, WordsAreFinite
<1>3. Density(g, selected) = ((base \div 100) * bonus) \div Cost(g)
  BY DEF Density
<1> HIDE DEF words, others
<1>4. \A h \in selected : likeness(h) \in Int
  <2> SUFFICES ASSUME NEW h \in selected, words \cap others(h) # {}
               PROVE  (100 * Cardinality(words \cap others(h))) \div Cardinality(words \cup others(h)) \in Int
    OBVIOUS
  <2> DEFINE both == words \cap others(h)
             either == words \cup others(h)
  <2>1. IsFiniteSet(both) /\ IsFiniteSet(either) /\ either # {}
    BY <1>2, FS_Intersection, FS_Union
  <2> HIDE DEF both, either
  <2>2. Cardinality(both) \in Nat /\ Cardinality(either) \in Nat /\ Cardinality(either) # 0
    BY <2>1, FS_CardinalityType, FS_EmptySet
  <2>3. (100 * Cardinality(both)) \div Cardinality(either) \in Int
    BY <2>2
  <2> QED BY <2>3 DEF both, either
<1> HIDE DEF likeness
<1>5. redundancy \in Int
  <2>1. [h \in selected |-> likeness(h)] \in Surjection(selected, L)
    BY DEF Surjection
  <2>2. L \in SUBSET Int
    BY <1>4
  <2> HIDE DEF L
  <2>3. IsFiniteSet(L)
    BY <2>1, FS_Surjection
  <2> DEFINE zero == {0}
             Z == zero \cup L
  <2>4. IsFiniteSet(Z)
    <3>1. IsFiniteSet(zero)
      BY FS_Singleton
    <3> HIDE DEF zero
    <3> QED BY <2>3, <3>1, FS_Union
  <2>5. Z \in SUBSET Int /\ Z # {}
    BY <2>2
  <2> HIDE DEF Z
  <2>6. Max(Z) \in Int
    BY <2>4, <2>5, OneIsGreatest
  <2> QED BY <2>6 DEF Z
<1>7. Share(fresh, 50) \in Int
  <2>1. fresh \in SUBSET request.question
    OBVIOUS
  <2> HIDE DEF fresh
  <2> QED BY <2>1, ShareOfTheQuestion
<1> HIDE DEF redundancy, fresh
<1>8. base \in Int
  <2> DEFINE value == Effective(g.representative)
             authority == g.authority
  <2>1. value \in Int
    BY <1>1, EffectiveIsANumber
  <2>2. authority \in Int
    <3>1. g.authority \in 0..100
      BY <1>1
    <3> QED BY <3>1
  <2> HIDE DEF value, authority
  <2>3. ((value * authority) \div 100) * (100 - redundancy) \in Int
    <3>1. value * authority \in Int
      BY <2>1, <2>2
    <3>2. (value * authority) \div 100 \in Int
      BY <3>1
    <3>3. 100 - redundancy \in Int
      BY <1>5
    <3> QED BY <3>2, <3>3
  <2> QED BY <2>3 DEF value, authority
<1>9. bonus \in Int
  <2> QED BY <1>7
<1> HIDE DEF base, bonus
<1>10. Cost(g) \in Nat /\ Cost(g) # 0
  BY CostFacts
<1>11. (base \div 100) * bonus \in Int
  <2>1. base \div 100 \in Int
    BY <1>8
  <2> QED BY <1>9, <2>1
<1>12. ((base \div 100) * bonus) \div Cost(g) \in Int
  <2> DEFINE product == (base \div 100) * bonus
             cost == Cost(g)
  <2>1. product \in Int /\ cost \in Nat /\ cost # 0
    BY <1>10, <1>11
  <2> HIDE DEF product, cost
  <2>2. product \div cost \in Int
    BY <2>1
  <2> QED BY <2>2 DEF product, cost
<1> QED BY <1>3, <1>12

-----------------------------------------------------------------------------
(* The packing. *)

\* Of a finite set of groups of different markers one is best.
LEMMA OneIsBestGroup ==
  ASSUME request.question \in Questions, NEW remaining \in SUBSET Group, remaining # {}, IsFiniteSet(remaining),
         \A g, h \in remaining : g.marker = h.marker => g = h,
         NEW selected \in SUBSET Group, IsFiniteSet(selected)
  PROVE  \E g \in remaining : \A h \in remaining \ {g} :
           ~(\/ Density(g, selected) < Density(h, selected)
             \/ Density(g, selected) = Density(h, selected) /\ g.marker > h.marker)
<1> DEFINE f == [g \in remaining |-> Density(g, selected)]
           m == [g \in remaining |-> g.marker]
           R == ByKeys(remaining, f, m)
<1>1. \A g \in remaining : Density(g, selected) \in Int /\ g.marker \in Int
  BY DensityIsANumber DEF Group
<1>2. f \in [remaining -> Int] /\ m \in [remaining -> Int] /\ \A x, y \in remaining : m[x] = m[y] => x = y
  BY <1>1
<1>3. \A g, h \in remaining : <<g, h>> \in R => \/ Density(g, selected) > Density(h, selected)
                                                \/ /\ Density(g, selected) = Density(h, selected)
                                                   /\ g.marker < h.marker
  BY DEF ByKeys
<1> HIDE DEF f, m
<1>4. Orders(R, remaining)
  BY <1>2, KeysOrder
<1> HIDE DEF R
<1>5. PICK g \in remaining : \A h \in remaining \ {g} : <<g, h>> \in R
  BY <1>4, OneIsFirst
<1>6. ASSUME NEW h \in remaining \ {g}
      PROVE  ~(\/ Density(g, selected) < Density(h, selected)
               \/ Density(g, selected) = Density(h, selected) /\ g.marker > h.marker)
  <2>1. \/ Density(g, selected) > Density(h, selected)
        \/ Density(g, selected) = Density(h, selected) /\ g.marker < h.marker
    BY <1>3, <1>5
  <2>2. /\ Density(g, selected) \in Int /\ Density(h, selected) \in Int
        /\ g.marker \in Int /\ h.marker \in Int
    BY <1>1
  <2> QED BY <2>1, <2>2
<1> QED BY <1>6

\* What packing has made of the groups, with as many left as there are turns to take.
Packing(p, all, left) ==
  /\ p = [remaining |-> p.remaining, selected |-> p.selected, dropped |-> p.dropped, used |-> p.used]
  /\ p.remaining \cup p.selected \cup p.dropped = all
  /\ p.remaining \cap p.selected = {}
  /\ p.used = Tokens(p.selected) /\ p.used <= EvidenceRegion
  /\ Cardinality(p.remaining) <= left

LEMMA PackBestPacks ==
  ASSUME EvidenceRegion \in Nat, NEW all \in SUBSET Group, IsFiniteSet(all), NEW left \in Nat,
         NEW p, Packing(p, all, left + 1), NEW best \in p.remaining
  PROVE  Packing(PackBest(p, best), all, left)
<1> DEFINE remaining == p.remaining
           selected == p.selected
           dropped == p.dropped
           used == p.used
<1>1. /\ p = [remaining |-> remaining, selected |-> selected, dropped |-> dropped, used |-> used]
      /\ remaining \cup selected \cup dropped = all /\ remaining \cap selected = {}
      /\ used = Tokens(selected) /\ used <= EvidenceRegion /\ Cardinality(remaining) <= left + 1
      /\ best \in remaining
  BY DEF Packing
<1>2. PackBest(p, best) = IF used + Cost(best) > EvidenceRegion
                          THEN [remaining |-> remaining \ {best}, selected |-> selected,
                                dropped |-> dropped \cup {best}, used |-> used]
                          ELSE [remaining |-> remaining \ {best}, selected |-> selected \cup {best},
                                dropped |-> dropped, used |-> used + Cost(best)]
  <2> HIDE DEF remaining, selected, dropped, used
  <2> DEFINE q == [remaining |-> remaining, selected |-> selected, dropped |-> dropped, used |-> used]
  <2>1. p = q
    BY <1>1
  <2>2. PackBest(q, best) = IF used + Cost(best) > EvidenceRegion
                          THEN [remaining |-> remaining \ {best}, selected |-> selected,
                                dropped |-> dropped \cup {best}, used |-> used]
                          ELSE [remaining |-> remaining \ {best}, selected |-> selected \cup {best},
                                dropped |-> dropped, used |-> used + Cost(best)]
    <3>1. CASE used + Cost(best) > EvidenceRegion
      <4>1. PackBest(q, best) = [q EXCEPT !.remaining = remaining \ {best}, !.dropped = dropped \cup {best}]
        BY <3>1 DEF PackBest
      <4> QED BY <3>1, <4>1
    <3>2. CASE ~(used + Cost(best) > EvidenceRegion)
      <4>1. PackBest(q, best) = [q EXCEPT !.remaining = remaining \ {best}, !.selected = selected \cup {best},
                                          !.used = used + Cost(best)]
        BY <3>2 DEF PackBest
      <4> QED BY <3>2, <4>1
    <3> QED BY <3>1, <3>2
  <2> HIDE DEF q
  <2> QED BY <2>1, <2>2
<1> HIDE DEF remaining, selected, dropped, used
<1>3. IsFiniteSet(remaining) /\ Cardinality(remaining) \in Nat
  <2>1. remaining \in SUBSET all
    BY <1>1
  <2> QED BY <2>1, FS_Subset, FS_CardinalityType
<1>4. Cardinality(remaining \ {best}) <= left
  <2>1. Cardinality(remaining \ {best}) = Cardinality(remaining) - 1
    BY <1>1, <1>3, FS_RemoveElement
  <2> QED BY <1>1, <1>3, <2>1
<1>5. best \in Group /\ Cost(best) \in Nat
  BY <1>1, CostFacts
<1>6. CASE used + Cost(best) > EvidenceRegion
  <2> DEFINE q == [remaining |-> remaining \ {best}, selected |-> selected,
                   dropped |-> dropped \cup {best}, used |-> used]
  <2>1. PackBest(p, best) = q
    BY <1>2, <1>6
  <2>2. (remaining \ {best}) \cup selected \cup (dropped \cup {best}) = all
    BY <1>1
  <2>3. (remaining \ {best}) \cap selected = {}
    BY <1>1
  <2>4. Packing(q, all, left)
    BY <1>1, <1>4, <2>2, <2>3 DEF Packing
  <2> QED BY <2>1, <2>4
<1>7. CASE ~(used + Cost(best) > EvidenceRegion)
  <2> DEFINE q == [remaining |-> remaining \ {best}, selected |-> selected \cup {best},
                   dropped |-> dropped, used |-> used + Cost(best)]
  <2>1. PackBest(p, best) = q
    BY <1>2, <1>7
  <2>2. (remaining \ {best}) \cup (selected \cup {best}) \cup dropped = all
    BY <1>1
  <2>3. (remaining \ {best}) \cap (selected \cup {best}) = {}
    BY <1>1
  <2>4. Tokens(selected \cup {best}) = Tokens(selected) + Cost(best) /\ Tokens(selected) \in Nat
    <3>1. selected \in SUBSET Group /\ IsFiniteSet(selected) /\ best \notin selected
      <4>1. selected \in SUBSET all
        BY <1>1
      <4> QED BY <1>1, <4>1, FS_Subset
    <3> QED BY <1>5, <3>1, TokensAdd
  <2>5. used + Cost(best) <= EvidenceRegion
    BY <1>1, <1>5, <1>7, <2>4
  <2>6. Packing(q, all, left)
    BY <1>1, <1>4, <2>2, <2>3, <2>4, <2>5 DEF Packing
  <2> QED BY <2>1, <2>6
<1> QED BY <1>6, <1>7

\* Every group is selected or dropped, and what is selected fits.
LEMMA PackFacts ==
  ASSUME request.question \in Questions, EvidenceRegion \in Nat, Groups(groups)
  PROVE  LET packed == pack_evidence
         IN  /\ packed.selected \cup packed.dropped = ToSet(groups)
             /\ packed.used = Tokens(packed.selected) /\ packed.used <= EvidenceRegion
<1> DEFINE n == Len(groups)
           all == ToSet(groups)
           worst(g, h, selected) == \/ Density(g, selected) < Density(h, selected)
                                    \/ Density(g, selected) = Density(h, selected) /\ g.marker > h.marker
           best(p) == CHOOSE g \in p.remaining : \A h \in p.remaining \ {g} : ~worst(g, h, p.selected)
           turn(p) == IF p.remaining = {} THEN p ELSE PackBest(p, best(p))
           start == [remaining |-> all, selected |-> {}, dropped |-> {}, used |-> 0]
           IsPacked(t) == t = [i \in 0..n |-> IF i = 0 THEN start ELSE turn(t[i - 1])]
           F == CHOOSE t : IsPacked(t)
<1>1. /\ n \in Nat /\ all \in SUBSET Group /\ IsFiniteSet(all) /\ Cardinality(all) <= n
      /\ \A g, h \in all : g.marker = h.marker => g = h
  <2>1. groups \in Seq(Group)
    BY DEF Groups
  <2>2. n \in Nat /\ all \in SUBSET Group /\ IsFiniteSet(all) /\ all = {groups[i] : i \in 1..n}
    BY <2>1, ToSetFacts
  <2>3. Cardinality(all) <= n
    <3>1. IsFiniteSet(1..n) /\ Cardinality(1..n) = IF 1 > n THEN 0 ELSE n - 1 + 1
      <4>1. 1 \in Int /\ n \in Int
        BY <2>2
      <4> QED BY <4>1, FS_Interval
    <3>2. [i \in 1..n |-> groups[i]] \in Surjection(1..n, all)
      BY <2>2 DEF Surjection
    <3> HIDE DEF all, n
    <3>3. Cardinality(all) <= Cardinality(1..n)
      BY <3>1, <3>2, FS_Surjection
    <3>4. Cardinality(1..n) = n
      BY <2>2, <3>1
    <3> QED BY <3>3, <3>4
  <2> QED BY <2>2, <2>3 DEF Groups
<1>2. pack_evidence = F[n]
  BY DEF pack_evidence
<1> HIDE DEF n, all, best
<1>3. ASSUME NEW p, NEW left \in Nat, Packing(p, all, left + 1)
      PROVE  Packing(turn(p), all, left)
  <2>1. CASE p.remaining = {}
    <3>1. Cardinality(p.remaining) = 0
      BY <2>1, FS_EmptySet
    <3> QED BY <1>3, <2>1, <3>1 DEF Packing
  <2>2. CASE p.remaining # {}
    <3>1. p.remaining \in SUBSET all /\ p.selected \in SUBSET all
      BY <1>3 DEF Packing
    <3>2. IsFiniteSet(p.remaining) /\ IsFiniteSet(p.selected)
      BY <1>1, <3>1, FS_Subset
    <3>3. \E g \in p.remaining : \A h \in p.remaining \ {g} : ~worst(g, h, p.selected)
      <4> DEFINE remaining == p.remaining
                 selected == p.selected
      <4>1. /\ remaining \in SUBSET Group /\ remaining # {} /\ IsFiniteSet(remaining)
            /\ \A g, h \in remaining : g.marker = h.marker => g = h
            /\ selected \in SUBSET Group /\ IsFiniteSet(selected)
        BY <1>1, <2>2, <3>1, <3>2
      <4> HIDE DEF remaining, selected
      <4>2. \E g \in remaining : \A h \in remaining \ {g} : ~worst(g, h, selected)
        BY <4>1, OneIsBestGroup
      <4> QED BY <4>2 DEF remaining, selected
    <3> HIDE DEF worst
    <3>4. best(p) \in p.remaining
      BY <3>3 DEF best
    <3>5. Packing(PackBest(p, best(p)), all, left)
      BY <1>1, <1>3, <3>4, PackBestPacks
    <3> QED BY <2>2, <3>5
  <2> QED BY <2>1, <2>2
<1>4. Packing(start, all, n)
  <2>1. start.used = Tokens(start.selected) /\ start.used <= EvidenceRegion
    BY NothingIsFree
  <2> QED BY <1>1, <2>1 DEF Packing
<1> HIDE DEF start, turn
<1> DEFINE State == [remaining : SUBSET all, selected : SUBSET all, dropped : SUBSET all,
                     used : {Tokens(T) : T \in SUBSET all}]
           V == {p \in State : Packing(p, all, n + 1)}
           next == [i \in 1..n |-> [v \in V |-> turn(v)]]
<1>5. \A p : Packing(p, all, n) => p \in V
  <2> SUFFICES ASSUME NEW p, Packing(p, all, n) PROVE p \in V
    OBVIOUS
  <2> DEFINE remaining == p.remaining
             selected == p.selected
             dropped == p.dropped
             used == p.used
  <2>1. /\ p = [remaining |-> remaining, selected |-> selected, dropped |-> dropped, used |-> used]
        /\ remaining \cup selected \cup dropped = all
        /\ used = Tokens(selected) /\ Cardinality(remaining) <= n
    BY DEF Packing
  <2>2. Cardinality(remaining) \in Nat
    <3>1. remaining \in SUBSET all
      BY <2>1
    <3> HIDE DEF remaining
    <3> QED BY <1>1, <3>1, FS_Subset, FS_CardinalityType
  <2>3. Packing(p, all, n + 1)
    <3>1. p.remaining = remaining
      OBVIOUS
    <3> HIDE DEF remaining
    <3>2. Cardinality(remaining) <= n + 1
      BY <1>1, <2>1, <2>2
    <3> QED BY <3>1, <3>2 DEF Packing
  <2> HIDE DEF remaining, selected, dropped, used
  <2>4. p \in State
    <3>1. remaining \in SUBSET all /\ selected \in SUBSET all /\ dropped \in SUBSET all
      BY <2>1
    <3>2. used \in {Tokens(T) : T \in SUBSET all}
      BY <2>1, <3>1
    <3> QED BY <2>1, <3>1, <3>2
  <2> HIDE DEF State
  <2> QED BY <2>3, <2>4
<1>6. start \in V /\ \A v \in V : turn(v) \in V
  <2>1. ASSUME NEW v \in V PROVE turn(v) \in V
    <3>1. Packing(v, all, n + 1)
      OBVIOUS
    <3> HIDE DEF V
    <3>2. Packing(turn(v), all, n)
      BY <1>1, <1>3, <3>1
    <3> QED BY <1>5, <3>2
  <2> HIDE DEF V
  <2> QED BY <1>4, <1>5, <2>1
<1> HIDE DEF V, State
<1>7. \E f : Walks(f, V, start, n, next)
  <2>1. next \in [1..n -> [V -> V]]
    BY <1>6
  <2> HIDE DEF next
  <2> QED BY <1>1, <1>6, <2>1, StepsExist
<1>8. PICK f : Walks(f, V, start, n, next)
  BY <1>7
<1>9. IsPacked(f)
  <2>1. f \in [0..n -> V] /\ f[0] = start /\ \A i \in 1..n : f[i] = next[i][f[i - 1]]
    BY <1>8 DEF Walks
  <2>2. \A i \in 1..n : f[i - 1] \in V
    <3>1. \A i \in 1..n : i - 1 \in 0..n
      BY <1>1
    <3> QED BY <2>1, <3>1
  <2>3. \A i \in 1..n : \A v \in V : next[i][v] = turn(v)
    OBVIOUS
  <2>4. \A i \in 0..n : i = 0 \/ i \in 1..n
    BY <1>1
  <2> HIDE DEF next
  <2>5. \A i \in 0..n : f[i] = IF i = 0 THEN start ELSE turn(f[i - 1])
    BY <2>1, <2>2, <2>3, <2>4
  <2> QED BY <2>1, <2>5
<1>10. IsPacked(F)
  <2> HIDE DEF IsPacked
  <2> QED BY <1>9
<1> HIDE DEF F
<1>11. F[0] = start /\ \A i \in 1..n : F[i] = turn(F[i - 1])
  <2>1. 0 \in 0..n /\ \A i \in 1..n : i \in 0..n /\ i # 0
    BY <1>1
  <2> QED BY <1>10, <2>1
<1>12. \A i \in 0..n : Packing(F[i], all, n - i)
  <2> DEFINE P == {i \in Nat : i <= n => Packing(F[i], all, n - i)}
  <2>1. 0 \in P
    <3>1. n - 0 = n
      BY <1>1
    <3> QED BY <1>4, <1>11, <3>1
  <2>2. ASSUME NEW i \in Nat, i \in P PROVE i + 1 \in P
    <3> SUFFICES ASSUME i + 1 <= n PROVE Packing(F[i + 1], all, n - (i + 1))
      OBVIOUS
    <3>1. /\ i + 1 \in 1..n /\ (i + 1) - 1 = i /\ n - (i + 1) \in Nat /\ n - i = (n - (i + 1)) + 1
          /\ i <= n
      BY <1>1
    <3>2. Packing(F[i], all, (n - (i + 1)) + 1)
      BY <2>2, <3>1
    <3>3. F[i + 1] = turn(F[i])
      BY <1>11, <3>1
    <3> QED BY <1>3, <3>1, <3>2, <3>3
  <2> HIDE DEF P
  <2>3. Nat \subseteq P
    BY <2>1, <2>2, Induction
  <2> QED BY <1>1, <2>3 DEF P
<1>13. Packing(F[n], all, 0)
  <2>1. n \in 0..n /\ n - n = 0
    BY <1>1
  <2> QED BY <1>12, <2>1
<1> DEFINE packed == F[n]
<1>14. packed.remaining = {}
  <2> DEFINE remaining == packed.remaining
  <2>1. remaining \in SUBSET all /\ Cardinality(remaining) <= 0
    BY <1>13 DEF Packing
  <2> HIDE DEF remaining
  <2>2. IsFiniteSet(remaining) /\ Cardinality(remaining) \in Nat
    BY <1>1, <2>1, FS_Subset, FS_CardinalityType
  <2>3. Cardinality(remaining) = 0
    BY <2>1, <2>2
  <2>4. remaining = {}
    BY <2>2, <2>3, FS_EmptySet
  <2> QED BY <2>4 DEF remaining
<1>15. /\ packed.remaining \cup packed.selected \cup packed.dropped = all
       /\ packed.used = Tokens(packed.selected) /\ packed.used <= EvidenceRegion
  BY <1>13 DEF Packing
<1> HIDE DEF packed
<1>16. packed.selected \cup packed.dropped = all
  BY <1>14, <1>15
<1> QED BY <1>2, <1>15, <1>16 DEF packed, all

-----------------------------------------------------------------------------
(* The context. *)

\* The odd and the even numbers up to n.
LEMMA Halves ==
  ASSUME NEW n \in Nat
  PROVE  LET odd == (n + 1) \div 2
             even == (n + 0) \div 2
         IN  /\ odd \in Nat /\ even \in Nat /\ odd + even = n
             /\ \A i \in 1..odd : 2 * i - 1 \in 1..n
             /\ \A i \in 1..even : 2 * i - 0 \in 1..n
             /\ \A k \in 1..n : (\E i \in 1..odd : k = 2 * i - 1) \/ (\E i \in 1..even : k = 2 * i - 0)
<1> DEFINE odd == (n + 1) \div 2
           even == (n + 0) \div 2
<1>1. /\ odd \in Nat /\ even \in Nat /\ odd + even = n
      /\ 2 * odd - 1 <= n /\ 2 * even <= n
  OBVIOUS
<1>2. ASSUME NEW k \in 1..n
      PROVE  (\E i \in 1..odd : k = 2 * i - 1) \/ (\E i \in 1..even : k = 2 * i - 0)
  <2> DEFINE i == (k + 1) \div 2
  <2>1. i \in Nat /\ i >= 1 /\ (k = 2 * i - 1 \/ k = 2 * i)
    OBVIOUS
  <2>2. (k = 2 * i - 1 => i <= odd) /\ (k = 2 * i => i <= even)
    OBVIOUS
  <2> HIDE DEF i, odd, even
  <2>3. CASE k = 2 * i - 1
    <3>1. i \in 1..odd
      BY <1>1, <2>1, <2>2, <2>3
    <3> QED BY <2>3, <3>1
  <2>4. CASE k = 2 * i
    <3>1. i \in 1..even /\ k = 2 * i - 0
      BY <1>1, <2>1, <2>2, <2>4
    <3> QED BY <3>1
  <2> QED BY <2>1, <2>3, <2>4
<1> HIDE DEF odd, even
<1>3. (\A i \in 1..odd : 2 * i - 1 \in 1..n) /\ \A i \in 1..even : 2 * i - 0 \in 1..n
  BY <1>1
<1> QED BY <1>1, <1>2, <1>3 DEF odd, even

LEMMA ReverseFacts ==
  ASSUME NEW S, NEW seq \in Seq(S)
  PROVE  /\ Reverse(seq) \in Seq(S) /\ Len(Reverse(seq)) = Len(seq)
         /\ ToSet(Reverse(seq)) = ToSet(seq)
<1> DEFINE n == Len(seq)
           e(i) == seq[n - i + 1]
<1>1. n \in Nat /\ DOMAIN seq = 1..n /\ \A i \in 1..n : seq[i] \in S
  BY LenProperties, ElementOfSeq
<1>2. \A i \in 1..n : n - i + 1 \in 1..n /\ n - (n - i + 1) + 1 = i
  BY <1>1
<1>3. Reverse(seq) = [i \in 1..n |-> e(i)]
  BY DEF Reverse
<1> HIDE DEF n
<1>4. \A i \in 1..n : e(i) \in S
  BY <1>1, <1>2
<1> HIDE DEF e
<1>5. [i \in 1..n |-> e(i)] \in Seq(S)
  BY <1>1, <1>4, IsASeq
<1>6. Len(Reverse(seq)) = n /\ Reverse(seq) \in Seq(S) /\ DOMAIN Reverse(seq) = 1..n
  BY <1>1, <1>3, <1>5, LenProperties
<1>7. \A i \in 1..n : Reverse(seq)[i] = seq[n - i + 1]
  BY <1>3 DEF e
<1>8. \A i \in 1..n : \E j \in 1..n : Reverse(seq)[j] = seq[i]
  <2> SUFFICES ASSUME NEW i \in 1..n PROVE \E j \in 1..n : Reverse(seq)[j] = seq[i]
    OBVIOUS
  <2>1. n - i + 1 \in 1..n /\ Reverse(seq)[n - i + 1] = seq[n - (n - i + 1) + 1]
    BY <1>2, <1>7
  <2>2. Reverse(seq)[n - i + 1] = seq[i]
    BY <1>2, <2>1
  <2> QED BY <2>1, <2>2
<1>9. ToSet(Reverse(seq)) = ToSet(seq)
  <2>1. ToSet(Reverse(seq)) = {Reverse(seq)[i] : i \in 1..n} /\ ToSet(seq) = {seq[i] : i \in 1..n}
    BY <1>1, <1>6 DEF ToSet
  <2>2. \A i \in 1..n : \E j \in 1..n : Reverse(seq)[i] = seq[j]
    BY <1>2, <1>7
  <2> QED BY <1>8, <2>1, <2>2
<1> QED BY <1>6, <1>9 DEF n

LEMMA EdgeWeightedFacts ==
  ASSUME NEW selected \in SUBSET Group, IsFiniteSet(selected),
         \A g, h \in selected : g.marker = h.marker => g = h
  PROVE  /\ EdgeWeighted(selected) \in Seq(selected)
         /\ ToSet(EdgeWeighted(selected)) = selected
         /\ Len(EdgeWeighted(selected)) = Cardinality(selected)
<1> DEFINE f == [g \in selected |-> Effective(g.representative)]
           m == [g \in selected |-> g.marker]
           before(g, h) == \/ Effective(g.representative) > Effective(h.representative)
                           \/ Effective(g.representative) = Effective(h.representative) /\ g.marker < h.marker
           R == {p \in selected \X selected : before(p[1], p[2])}
           ranked == InOrder(selected, R)
           n == Cardinality(selected)
           odd == (n + 1) \div 2
           even == (n + 0) \div 2
           ends == [i \in 1..odd |-> ranked[2 * i - 1]]
           rest == [i \in 1..even |-> ranked[2 * i - 0]]
<1>1. Orders(R, selected)
  <2>1. \A g \in selected : Effective(g.representative) \in Int /\ g.marker \in Int
    BY EffectiveIsANumber DEF Group
  <2>2. f \in [selected -> Int] /\ m \in [selected -> Int] /\ \A x, y \in selected : m[x] = m[y] => x = y
    BY <2>1
  <2>3. ByKeys(selected, f, m) = R
    BY DEF ByKeys
  <2> HIDE DEF f, m, R
  <2>4. Orders(ByKeys(selected, f, m), selected)
    BY <2>2, KeysOrder
  <2> QED BY <2>3, <2>4
<1>2. EdgeWeighted(selected) =
        [i \in 1..((Len(ranked) + 1) \div 2) |-> ranked[2 * i - 1]]
          \o Reverse([i \in 1..((Len(ranked) + 0) \div 2) |-> ranked[2 * i - 0]])
  BY DEF EdgeWeighted, Sorted
<1> HIDE DEF R
<1>3. /\ ranked \in Seq(selected) /\ Len(ranked) = n /\ n \in Nat
      /\ \A x \in selected : \E i \in 1..n : ranked[i] = x
  BY <1>1, InOrderFacts
<1> HIDE DEF ranked, n
<1>4. /\ odd \in Nat /\ even \in Nat /\ odd + even = n
      /\ \A i \in 1..odd : 2 * i - 1 \in 1..n
      /\ \A i \in 1..even : 2 * i - 0 \in 1..n
      /\ \A k \in 1..n : (\E i \in 1..odd : k = 2 * i - 1) \/ (\E i \in 1..even : k = 2 * i - 0)
  BY <1>3, Halves
<1>5. EdgeWeighted(selected) = ends \o Reverse(rest)
  BY <1>2, <1>3
<1> HIDE DEF odd, even
<1>6. \A k \in 1..n : ranked[k] \in selected
  BY <1>3, ElementOfSeq
<1>7. /\ ends \in Seq(selected) /\ Len(ends) = odd /\ DOMAIN ends = 1..odd
      /\ \A i \in 1..odd : ends[i] = ranked[2 * i - 1]
  <2>1. \A i \in 1..odd : ranked[2 * i - 1] \in selected
    BY <1>4, <1>6
  <2>2. ends \in Seq(selected)
    BY <1>4, <2>1, IsASeq
  <2> QED BY <1>4, <2>2, LenProperties
<1>8. /\ rest \in Seq(selected) /\ Len(rest) = even /\ DOMAIN rest = 1..even
      /\ \A i \in 1..even : rest[i] = ranked[2 * i - 0]
  <2>1. \A i \in 1..even : ranked[2 * i - 0] \in selected
    BY <1>4, <1>6
  <2>2. rest \in Seq(selected)
    BY <1>4, <2>1, IsASeq
  <2> QED BY <1>4, <2>2, LenProperties
<1> HIDE DEF ends, rest
<1> DEFINE back == Reverse(rest)
<1>9. back \in Seq(selected) /\ Len(back) = even /\ ToSet(back) = ToSet(rest)
  BY <1>8, ReverseFacts
<1> HIDE DEF back
<1>10. /\ ends \o back \in Seq(selected) /\ Len(ends \o back) = odd + even
       /\ \A i \in 1..odd : (ends \o back)[i] = ends[i]
       /\ \A i \in 1..even : (ends \o back)[odd + i] = back[i]
  <2>1. /\ ends \o back \in Seq(selected) /\ Len(ends \o back) = Len(ends) + Len(back)
        /\ \A i \in 1..Len(ends) : (ends \o back)[i] = ends[i]
        /\ \A i \in 1..Len(back) : (ends \o back)[Len(ends) + i] = back[i]
    <3>1. ends \in Seq(selected) /\ back \in Seq(selected)
      BY <1>7, <1>9
    <3> QED BY <3>1, ConcatElements
  <2>2. Len(ends) = odd /\ Len(back) = even
    BY <1>7, <1>9
  <2> QED BY <2>1, <2>2
<1> DEFINE whole == ends \o back
<1>11. /\ ToSet(whole) = {whole[i] : i \in 1..n} /\ ToSet(whole) \subseteq selected
       /\ ToSet(rest) = {rest[i] : i \in 1..even} /\ ToSet(back) = {back[i] : i \in 1..even}
  <2> HIDE DEF whole
  <2>1. whole \in Seq(selected) /\ Len(whole) = n /\ Len(rest) = even /\ Len(back) = even
    BY <1>4, <1>8, <1>9, <1>10 DEF whole
  <2>2. ToSet(whole) = {whole[i] : i \in 1..n} /\ ToSet(whole) \subseteq selected
    BY <2>1, ToSetFacts
  <2>3. ToSet(rest) = {rest[i] : i \in 1..even} /\ ToSet(back) = {back[i] : i \in 1..even}
    BY <1>8, <1>9, <2>1, ToSetFacts
  <2> QED BY <2>2, <2>3
<1> HIDE DEF whole
<1>12. ASSUME NEW x \in selected PROVE x \in ToSet(whole)
  <2>1. PICK k \in 1..n : ranked[k] = x
    BY <1>3
  <2>2. CASE \E i \in 1..odd : k = 2 * i - 1
    <3>1. PICK i \in 1..odd : k = 2 * i - 1
      BY <2>2
    <3>2. i \in 1..n /\ whole[i] = x
      BY <1>4, <1>7, <1>10, <2>1, <3>1 DEF whole
    <3> QED BY <1>11, <3>2
  <2>3. CASE \E i \in 1..even : k = 2 * i - 0
    <3>1. PICK i \in 1..even : k = 2 * i - 0
      BY <2>3
    <3>2. rest[i] = x
      BY <1>8, <2>1, <3>1
    <3>3. PICK j \in 1..even : back[j] = x
      <4>1. x \in ToSet(rest)
        BY <1>11, <3>2
      <4>2. x \in ToSet(back)
        BY <1>9, <4>1
      <4> QED BY <1>11, <4>2
    <3>4. odd + j \in 1..n /\ whole[odd + j] = x
      BY <1>4, <1>10, <3>3 DEF whole
    <3> QED BY <1>11, <3>4
  <2> QED BY <1>4, <2>2, <2>3
<1>13. whole \in Seq(selected) /\ ToSet(whole) = selected /\ Len(whole) = n
  BY <1>4, <1>10, <1>11, <1>12 DEF whole
<1> QED BY <1>5, <1>13 DEF whole, back, n

ContextInv ==
  /\ ScreenInv
  /\ phase = "asked" => bundle = NoBundle
  /\ ContextIsAccounted

\* What the regions are cut from is the window less what is reserved.
LEMMA RegionFacts ==
  ASSUME request \in Request, ~(Reserved >= request.window)
  PROVE  /\ Reserved \in Int /\ request.window \in Nat
         /\ MemoryRegion \in Nat /\ EvidenceRegion \in Nat
         /\ Reserved + MemoryRegion + EvidenceRegion <= request.window
<1>1. /\ request.question \in Questions /\ request.window \in Windows
  BY DEF Request
<1>2. /\ SystemTokens \in Nat /\ ExpectedOutput \in Nat /\ MemoryCap \in Nat /\ MaxEvidence \in Nat
      /\ Windows \subseteq Nat /\ IsFiniteSet(request.question)
  BY <1>1, AskedAssumption, LimitAssumption
<1>3. request.window \in Nat
  BY <1>1, <1>2
<1>4. Reserved \in Int
  <2>1. Cardinality(request.question) \in Nat
    BY <1>2, FS_CardinalityType
  <2>2. OutputReserve \in Int
    BY <1>2 DEF OutputReserve
  <2> QED BY <1>2, <2>1, <2>2 DEF Reserved
<1> DEFINE room == request.window - Reserved
<1>5. room \in Nat
  BY <1>3, <1>4
<1>6. MemoryRegion \in Nat /\ MemoryRegion <= room
  <2> HIDE DEF room
  <2>1. Min({MemoryCap, room}) \in {MemoryCap, room} /\ Min({MemoryCap, room}) <= room
    BY <1>2, <1>5, MinOfTwo
  <2>2. MemoryRegion = Min({MemoryCap, room})
    BY DEF MemoryRegion, room
  <2> QED BY <1>2, <1>5, <2>1, <2>2
<1> DEFINE left == room - MemoryRegion
           cap == IF request.level >= 2 THEN MaxEvidence \div 2 ELSE MaxEvidence
<1>7. left \in Nat /\ cap \in Nat
  <2>1. MaxEvidence \div 2 \in Nat
    BY <1>2
  <2> QED BY <1>2, <1>5, <1>6, <2>1
<1>8. EvidenceRegion = Min({left, cap})
  BY DEF EvidenceRegion
<1>9. Min({left, cap}) \in Nat /\ Min({left, cap}) <= left
  <2> HIDE DEF left, cap
  <2>1. Min({left, cap}) \in {left, cap} /\ Min({left, cap}) <= left
    BY <1>7, MinOfTwo
  <2> QED BY <1>7, <2>1
<1>10. EvidenceRegion \in Nat /\ EvidenceRegion <= left
  BY <1>8, <1>9
<1> HIDE DEF cap
<1> QED BY <1>3, <1>4, <1>5, <1>6, <1>7, <1>10

LEMMA BuiltBundleFacts ==
  ASSUME ScreenInv, ~(Reserved >= request.window)
  PROVE  LET evidence == BuiltBundle.evidence
         IN  /\ BuiltBundle.used = Tokens(ToSet(evidence)) /\ BuiltBundle.used <= EvidenceRegion
             /\ Len(evidence) = Cardinality(ToSet(evidence))
             /\ {g.marker : g \in ToSet(groups)} = {g.marker : g \in ToSet(evidence)} \cup BuiltBundle.dropped
             /\ ~BuiltBundle.warning =>
                  request.question \subseteq UNION {WordsOf(Context(g)) : g \in ToSet(evidence)}
<1> DEFINE packed == pack_evidence
           selected == packed.selected
           dropped == packed.dropped
           evidence == EdgeWeighted(selected)
           covered == UNION {WordsOf(Context(g)) : g \in selected}
<1>1. request.question \in Questions /\ EvidenceRegion \in Nat /\ Groups(groups)
  BY RegionFacts DEF ScreenInv, Request
<1>2. /\ selected \cup dropped = ToSet(groups)
      /\ packed.used = Tokens(selected) /\ packed.used <= EvidenceRegion
  BY <1>1, PackFacts
<1>3. /\ BuiltBundle.evidence = evidence /\ BuiltBundle.used = packed.used
      /\ BuiltBundle.dropped = {g.marker : g \in dropped}
      /\ BuiltBundle.warning = (dropped # {} \/ ~(request.question \subseteq covered))
  BY DEF BuiltBundle
<1> HIDE DEF selected, dropped
<1>4. /\ selected \in SUBSET Group /\ IsFiniteSet(selected)
      /\ \A g, h \in selected : g.marker = h.marker => g = h
  <2>1. groups \in Seq(Group)
    BY <1>1 DEF Groups
  <2>2. /\ ToSet(groups) \subseteq Group /\ IsFiniteSet(ToSet(groups))
        /\ ToSet(groups) = {groups[i] : i \in 1..Len(groups)}
    BY <2>1, ToSetFacts
  <2>3. \A g, h \in ToSet(groups) : g.marker = h.marker => g = h
    BY <1>1, <2>2 DEF Groups
  <2>4. selected \in SUBSET ToSet(groups)
    BY <1>2
  <2>5. IsFiniteSet(selected)
    BY <2>2, <2>4, FS_Subset
  <2> QED BY <2>2, <2>3, <2>4, <2>5
<1>5. ToSet(evidence) = selected /\ Len(evidence) = Cardinality(selected)
  BY <1>4, EdgeWeightedFacts
<1> HIDE DEF evidence, packed
<1>6. {g.marker : g \in ToSet(groups)} = {g.marker : g \in selected} \cup {g.marker : g \in dropped}
  BY <1>2
<1> QED BY <1>2, <1>3, <1>5, <1>6

LEMMA ContextStands ==
  ASSUME ContextInv, UNCHANGED <<request, groups, bundle>>
  PROVE  ContextIsAccounted'
BY DEF ContextInv, ContextIsAccounted, Reserved, MemoryRegion, EvidenceRegion, Tokens

LEMMA ContextStep == ContextInv /\ [FlowNext]_flowVars => ContextInv'
<1> SUFFICES ASSUME ContextInv, [FlowNext]_flowVars PROVE ContextInv'
  OBVIOUS
<1>0. ScreenInv'
  BY ScreenStep DEF ContextInv
<1>1. ASSUME phase = "asked", bundle' = bundle PROVE ContextInv'
  <2>1. bundle' = NoBundle
    BY <1>1 DEF ContextInv
  <2> QED BY <1>0, <2>1 DEF ContextInv, ContextIsAccounted
<1>2. ASSUME UNCHANGED <<request, groups, bundle>>, phase' # "asked" PROVE ContextInv'
  BY <1>0, <1>2, ContextStands DEF ContextInv
<1>3. CASE RetrieveFused \/ RetrieveReranked
  <2>1. phase = "asked" /\ bundle' = bundle
    BY <1>3 DEF RetrieveFused, RetrieveReranked, Retrieve
  <2> QED BY <1>1, <2>1
<1>4. ASSUME NEW source \in Sources, Quarantine(source) \/ Reinstate(source) PROVE ContextInv'
  <2>1. phase = "asked" /\ bundle' = bundle
    BY <1>4 DEF Quarantine, Reinstate
  <2> QED BY <1>1, <2>1
<1>5. CASE ShadowServes \/ ShadowYields \/ Send
  BY <1>2, <1>5 DEF ShadowServes, ShadowYields, Send
<1>6. ASSUME NEW sentences, Generate(sentences) PROVE ContextInv'
  BY <1>2, <1>6 DEF Generate
<1>7. CASE Build
  <2>0. request' = request /\ groups' = groups /\ phase' # "asked"
    BY <1>7 DEF Build
  <2>1. CASE bundle' = bundle
    BY <1>2, <2>0, <2>1
  <2>2. CASE bundle' # bundle
    <3>1. bundle' = BuiltBundle /\ ~(Reserved >= request.window)
      BY <1>7, <2>2 DEF Build
    <3>2. /\ MemoryRegion \in Nat /\ EvidenceRegion \in Nat
          /\ Reserved + MemoryRegion + EvidenceRegion <= request.window
      BY <3>1, RegionFacts DEF ContextInv, ScreenInv
    <3>3. Reserved' = Reserved /\ MemoryRegion' = MemoryRegion /\ EvidenceRegion' = EvidenceRegion
      BY <2>0 DEF Reserved, MemoryRegion, EvidenceRegion
    <3> DEFINE built == BuiltBundle
    <3>4. /\ built.used = Tokens(ToSet(built.evidence)) /\ built.used <= EvidenceRegion
          /\ Len(built.evidence) = Cardinality(ToSet(built.evidence))
          /\ {g.marker : g \in ToSet(groups)} = {g.marker : g \in ToSet(built.evidence)} \cup built.dropped
          /\ ~built.warning =>
               request.question \subseteq UNION {WordsOf(Context(g)) : g \in ToSet(built.evidence)}
      BY <3>1, BuiltBundleFacts DEF ContextInv
    <3> HIDE DEF built
    <3>5. bundle' = built
      BY <3>1 DEF built
    <3>6. ContextIsAccounted'
      <4>1. request'.window = request.window /\ request'.question = request.question /\ groups' = groups
        BY <2>0
      <4>2. bundle'.used = Tokens(ToSet(bundle'.evidence)) /\ bundle'.used <= EvidenceRegion
        BY <3>4, <3>5
      <4>3. Len(bundle'.evidence) = Cardinality(ToSet(bundle'.evidence))
        BY <3>4, <3>5
      <4>4. {g.marker : g \in ToSet(groups')} = {g.marker : g \in ToSet(bundle'.evidence)} \cup bundle'.dropped
        BY <3>4, <3>5, <4>1
      <4>5. ~bundle'.warning =>
              request'.question \subseteq UNION {WordsOf(Context(g)) : g \in ToSet(bundle'.evidence)}
        BY <3>4, <3>5, <4>1
      <4>6. Reserved' + MemoryRegion' + EvidenceRegion' <= request'.window
        BY <3>2, <3>3, <4>1
      <4>7. MemoryRegion' >= 0 /\ EvidenceRegion' >= 0
        BY <3>2, <3>3
      <4> QED BY <3>3, <4>2, <4>3, <4>4, <4>5, <4>6, <4>7 DEF ContextIsAccounted
    <3> QED BY <1>0, <2>0, <3>6 DEF ContextInv
  <2> QED BY <2>1, <2>2
<1>8. CASE UNCHANGED flowVars
  BY <1>0, <1>8, ContextStands DEF ContextInv, flowVars
<1> QED BY <1>3, <1>4, <1>5, <1>6, <1>7, <1>8 DEF FlowNext

\* Whatever is retrieved and however long it is, the context fits the window
\* and its regions, is charged for exactly the sentences in it, holds each
\* group at most once and accounts for every other as dropped; without a
\* warning it covers the question (pack_evidence, order_groups, the budgets).
THEOREM NothingIsLeftOutInSilence == FlowSpec => []ContextIsAccounted
<1>1. FlowInit => ContextInv
  <2> SUFFICES ASSUME FlowInit PROVE ContextInv
    OBVIOUS
  <2>1. Groups(<< >>)
    BY DEF Groups
  <2>2. phase = "asked" /\ groups = << >> /\ bundle = NoBundle /\ request \in Request /\ legs \in Legs
    BY DEF FlowInit, Request
  <2> QED BY <2>1, <2>2 DEF ContextInv, ContextIsAccounted, ScreenInv, NothingForeignIsShown
<1>2. ContextInv /\ [FlowNext]_flowVars => ContextInv'
  BY ContextStep
<1>3. ContextInv => ContextIsAccounted
  BY DEF ContextInv
<1> QED BY <1>1, <1>2, <1>3, PTL DEF FlowSpec

-----------------------------------------------------------------------------
(* What the evidence licenses. *)

\* A list of groups, their markers apart.
Shown(list) ==
  /\ list \in Seq(Group)
  /\ \A g, h \in ToSet(list) : g.marker = h.marker => g = h

LEMMA ScoreFacts ==
  ASSUME NEW g \in Group
  PROVE  /\ Score(g) \in Nat /\ g.representative.rerank \in Int /\ g.marker \in Nat
         /\ g.representative.rerank >= 0 <=> Score(g) > 0
         /\ g.representative.rerank >= 0 => Score(g) = g.representative.rerank
<1>1. g.representative \in Candidate /\ g.marker \in Nat
  BY DEF Group
<1>2. g.representative.rerank \in Int \ {0}
  BY <1>1 DEF Candidate
<1> QED BY <1>1, <1>2 DEF Score

LEMMA MaxOfTwo ==
  ASSUME NEW a \in Int, NEW b \in Int
  PROVE  Max({a, b}) \in {a, b} /\ Max({a, b}) >= a /\ Max({a, b}) >= b
<1>1. IsFiniteSet({a} \cup {b}) /\ {a} \cup {b} = {a, b}
  BY FS_Singleton, FS_Union
<1>2. {a, b} \in SUBSET Int /\ {a, b} # {} /\ IsFiniteSet({a, b})
  BY <1>1
<1> QED BY <1>2, OneIsGreatest

\* The best score there is, as it counts.
LEMMA TopFacts ==
  ASSUME NEW S \in SUBSET Nat, IsFiniteSet(S), S # {}
  PROVE  LET top == Min({Unit, Max(S)})
         IN  /\ top \in Nat /\ CorroborationFloor(top) \in Int /\ CorroborationFloor(top) >= Moderate
             /\ \A bound \in Nat : (\A n \in S : n < bound) => top < bound
<1> DEFINE most == Max(S)
           top == Min({Unit, most})
           floor == Max({top \div 2, 4000})
<1>1. S \in SUBSET Int
  OBVIOUS
<1>2. most \in S
  BY <1>1, OneIsGreatest
<1>3. most \in Nat /\ Unit = 10000
  BY <1>2 DEF Unit
<1> HIDE DEF most
<1>4. top \in {Unit, most} /\ top <= most
  <2>1. Unit \in Int /\ most \in Int
    BY <1>3
  <2> QED BY <2>1, MinOfTwo
<1>5. top \in Nat
  BY <1>3, <1>4
<1> HIDE DEF top
<1>6. floor \in Int /\ floor >= 4000
  <2> DEFINE half == top \div 2
  <2>1. half \in Int
    BY <1>5
  <2> HIDE DEF half
  <2> DEFINE least == 4000
  <2>2. least \in Int
    OBVIOUS
  <2> HIDE DEF least
  <2>3. Max({half, least}) \in {half, least} /\ Max({half, least}) >= least
    BY <2>1, <2>2, MaxOfTwo
  <2>4. Max({half, least}) \in Int
    BY <2>1, <2>2, <2>3
  <2> QED BY <2>3, <2>4 DEF half, least
<1>7. CorroborationFloor(top) = floor
  BY DEF CorroborationFloor
<1>8. \A bound \in Nat : (\A n \in S : n < bound) => top < bound
  BY <1>2, <1>3, <1>4, <1>5
<1> QED BY <1>5, <1>6, <1>7, <1>8 DEF top, most, Moderate

LEMMA ScoresAreFinite ==
  ASSUME NEW G \in SUBSET Group, IsFiniteSet(G)
  PROVE  {Score(g) : g \in G} \in SUBSET Nat /\ IsFiniteSet({Score(g) : g \in G})
<1>1. [g \in G |-> Score(g)] \in Surjection(G, {Score(g) : g \in G})
  BY DEF Surjection
<1>2. IsFiniteSet({Score(g) : g \in G})
  BY <1>1, FS_Surjection
<1> QED BY <1>2, ScoreFacts

\* What answers from evidence has evidence.
LEMMA ConfidenceIsGrounded ==
  ASSUME NEW shown, Shown(shown), ~(RetrievalConfidence(shown) < Moderate)
  PROVE  Grounded(shown)
<1> SUFFICES ASSUME ~Grounded(shown) PROVE FALSE
  OBVIOUS
<1> DEFINE all == ToSet(shown)
           reranked == {g \in all : g.representative.rerank >= 0}
           S == {Score(g) : g \in reranked}
           top == Min({Unit, Max(S)})
           roots == {g.root : g \in {h \in all : Score(h) >= CorroborationFloor(top)}}
           share == (Unit * Cardinality(roots)) \div 2
           agreed == Min({Unit, share})
<1>1. all \in SUBSET Group /\ IsFiniteSet(all)
  BY ToSetFacts DEF Shown
<1>2. shown # << >>
  BY DEF RetrievalConfidence, Moderate
<1>3. reranked # {} /\ \A g \in all : ~(g.representative.rerank >= 4000)
  <2>1. \A g \in all : g.representative.rerank \in Int
    BY <1>1, ScoreFacts
  <2> QED BY <1>2, <2>1 DEF Grounded
<1>4. reranked \in SUBSET all /\ IsFiniteSet(reranked)
  BY <1>1, FS_Subset
<1>5. RetrievalConfidence(shown) = (80 * top + 20 * agreed) \div 100
  BY <1>2, <1>3 DEF RetrievalConfidence
<1> HIDE DEF all
<1>6. \A g \in all : Score(g) \in Nat /\ Score(g) < 4000
  BY <1>1, <1>3, ScoreFacts
<1> HIDE DEF reranked
<1>7. S \in SUBSET Nat /\ IsFiniteSet(S) /\ S # {} /\ \A n \in S : n < 4000
  BY <1>1, <1>3, <1>4, <1>6, ScoresAreFinite
<1> HIDE DEF S
<1>8. top \in Nat /\ top < 4000 /\ CorroborationFloor(top) \in Int /\ CorroborationFloor(top) >= 4000
  BY <1>7, TopFacts DEF Moderate
<1> HIDE DEF top
<1>9. roots = {}
  BY <1>6, <1>8
<1>10. share = 0 /\ Unit \in Int
  BY <1>9, FS_EmptySet DEF Unit
<1> HIDE DEF roots, share
<1>11. agreed \in Int /\ agreed <= 0
  <2>1. share \in Int
    BY <1>10
  <2> QED BY <1>10, <2>1, MinOfTwo
<1> HIDE DEF agreed
<1>12. RetrievalConfidence(shown) < 4000
  BY <1>5, <1>8, <1>11
<1> QED BY <1>12 DEF Moderate

\* Of each lineage some group outdoes or equals all.
LEMMA OneIsStrongest ==
  ASSUME NEW shown, Shown(shown), NEW g \in ToSet(shown)
  PROVE  \E h \in ToSet(shown) : /\ h.root = g.root /\ Score(h) >= Score(g)
                                 /\ \A k \in ToSet(shown) : ~Outdoes(k, h)
<1> DEFINE T == {h \in ToSet(shown) : h.root = g.root}
           f == [h \in T |-> Score(h)]
           m == [h \in T |-> h.marker]
           R == ByKeys(T, f, m)
<1>1. /\ T \in SUBSET Group /\ IsFiniteSet(T) /\ g \in T
      /\ \A h, k \in T : h.marker = k.marker => h = k
  <2>1. ToSet(shown) \subseteq Group /\ IsFiniteSet(ToSet(shown))
    BY ToSetFacts DEF Shown
  <2>2. T \in SUBSET ToSet(shown)
    OBVIOUS
  <2> QED BY <2>1, <2>2, FS_Subset DEF Shown
<1>2. \A h \in T : Score(h) \in Int /\ h.marker \in Int /\ h \in ToSet(shown) /\ h.root = g.root
  BY <1>1, ScoreFacts
<1>3. \A k \in ToSet(shown) : k.root = g.root => k \in T
  OBVIOUS
<1> HIDE DEF T
<1>4. \A h, k \in T : <<h, k>> \in R <=> Score(h) > Score(k) \/ (Score(h) = Score(k) /\ h.marker < k.marker)
  BY DEF ByKeys
<1>5. Orders(R, T)
  <2>1. f \in [T -> Int] /\ m \in [T -> Int] /\ \A h, k \in T : m[h] = m[k] => h = k
    BY <1>1, <1>2
  <2> HIDE DEF f, m
  <2> QED BY <2>1, KeysOrder
<1> HIDE DEF R
<1>6. PICK h \in T : \A k \in T \ {h} : <<h, k>> \in R
  BY <1>1, <1>5, OneIsFirst
<1>7. \A k \in T \ {h} : Score(h) > Score(k) \/ (Score(h) = Score(k) /\ h.marker < k.marker)
  BY <1>4, <1>6
<1>8. Score(h) >= Score(g)
  BY <1>1, <1>2, <1>7
<1>9. ASSUME NEW k \in ToSet(shown), Outdoes(k, h) PROVE FALSE
  <2>1. k \in T /\ (Score(k) > Score(h) \/ (Score(k) = Score(h) /\ k.marker < h.marker))
    BY <1>2, <1>3, <1>9 DEF Outdoes
  <2> QED BY <1>2, <1>7, <2>1
<1> QED BY <1>2, <1>8, <1>9

LEMMA StrongestFacts ==
  ASSUME NEW shown, Shown(shown)
  PROVE  /\ ToSet(Strongest(shown)) \subseteq ToSet(shown) /\ IsFiniteSet(ToSet(Strongest(shown)))
         /\ Strongest(shown) = << >> <=> ToSet(Strongest(shown)) = {}
         /\ shown = << >> <=> ToSet(shown) = {}
         /\ \A g \in ToSet(shown) : \E h \in ToSet(Strongest(shown)) : h.root = g.root /\ Score(h) >= Score(g)
<1> DEFINE K == {i \in DOMAIN shown : \A h \in ToSet(shown) : ~Outdoes(h, shown[i])}
           picked == Picked(shown, K)
<1>1. /\ shown \in Seq(Group) /\ DOMAIN shown = 1..Len(shown) /\ Len(shown) \in Nat
      /\ ToSet(shown) = {shown[i] : i \in 1..Len(shown)}
  BY ToSetFacts DEF Shown
<1>2. K \in SUBSET (1..Len(shown))
  BY <1>1
<1>3. \A i \in 1..Len(shown) : (\A h \in ToSet(shown) : ~Outdoes(h, shown[i])) => i \in K
  BY <1>1
<1>4. Strongest(shown) = picked
  BY DEF Strongest
<1> HIDE DEF K
<1>5. picked \in Seq(Group) /\ {picked[j] : j \in 1..Len(picked)} = {shown[i] : i \in K}
  BY <1>1, <1>2, PickedLocates, PickedHolds
<1> HIDE DEF picked
<1>6. ToSet(picked) = {shown[i] : i \in K} /\ IsFiniteSet(ToSet(picked)) /\ Len(picked) \in Nat
      /\ ToSet(picked) = {picked[j] : j \in 1..Len(picked)}
  BY <1>5, ToSetFacts
<1>7. ToSet(picked) \subseteq ToSet(shown)
  BY <1>1, <1>2, <1>6
<1>8. picked = << >> <=> ToSet(picked) = {}
  <2>1. picked = << >> <=> Len(picked) = 0
    BY <1>5, EmptySeq
  <2> DEFINE n == Len(picked)
             all == ToSet(picked)
  <2>2. n \in Nat /\ all = {picked[j] : j \in 1..n}
    BY <1>6
  <2> HIDE DEF n, all
  <2>3. n = 0 <=> all = {}
    <3>1. n # 0 => 1 \in 1..n
      BY <2>2
    <3> QED BY <2>2, <3>1
  <2> QED BY <2>1, <2>3 DEF n, all
<1>9. shown = << >> <=> ToSet(shown) = {}
  <2>1. shown = << >> <=> Len(shown) = 0
    BY <1>1, EmptySeq
  <2> QED BY <1>1, <2>1
<1>10. ASSUME NEW g \in ToSet(shown)
       PROVE  \E h \in ToSet(picked) : h.root = g.root /\ Score(h) >= Score(g)
  <2>1. PICK h \in ToSet(shown) : /\ h.root = g.root /\ Score(h) >= Score(g)
                                  /\ \A k \in ToSet(shown) : ~Outdoes(k, h)
    BY OneIsStrongest
  <2>2. PICK i \in 1..Len(shown) : shown[i] = h
    BY <1>1
  <2>3. h \in ToSet(picked)
    BY <1>3, <1>6, <2>1, <2>2
  <2> QED BY <2>1, <2>3
<1> QED BY <1>4, <1>6, <1>7, <1>8, <1>9, <1>10

\* The greatest of a set is that of a part of it that is nowhere below it.
LEMMA GreatestOfPart ==
  ASSUME NEW A \in SUBSET Int, IsFiniteSet(A), NEW B \in SUBSET A, B # {},
         \A a \in A : \E b \in B : b >= a
  PROVE  Max(A) = Max(B)
<1>1. IsFiniteSet(B) /\ B \in SUBSET Int /\ A # {}
  BY FS_Subset
<1>2. Max(A) \in A /\ \A a \in A : Max(A) >= a
  BY <1>1, OneIsGreatest
<1>3. Max(B) \in B /\ \A b \in B : Max(B) >= b
  BY <1>1, OneIsGreatest
<1> DEFINE ma == Max(A)
           mb == Max(B)
<1> HIDE DEF ma, mb
<1>4. PICK b \in B : b >= ma
  BY <1>2 DEF ma
<1>5. ma \in Int /\ mb \in Int /\ b \in Int /\ mb >= b /\ ma >= mb
  BY <1>1, <1>2, <1>3 DEF ma, mb
<1>6. ma = mb
  BY <1>4, <1>5
<1> QED BY <1>6 DEF ma, mb

\* Another group of a lineage adds nothing to what a better one gives.
LEMMA CopiesAddNothing ==
  ASSUME NEW shown, Shown(shown)
  PROVE  RetrievalConfidence(Strongest(shown)) = RetrievalConfidence(shown)
<1> DEFINE best == Strongest(shown)
           A == ToSet(shown)
           B == ToSet(best)
           RA == {g \in A : g.representative.rerank >= 0}
           RB == {g \in B : g.representative.rerank >= 0}
           SA == {Score(g) : g \in RA}
           SB == {Score(g) : g \in RB}
           topA == Min({Unit, Max(SA)})
           topB == Min({Unit, Max(SB)})
           rootsA == {g.root : g \in {h \in A : Score(h) >= CorroborationFloor(topA)}}
           rootsB == {g.root : g \in {h \in B : Score(h) >= CorroborationFloor(topB)}}
<1>1. /\ A \in SUBSET Group /\ IsFiniteSet(A) /\ B \in SUBSET A /\ IsFiniteSet(B)
      /\ (best = << >> <=> B = {}) /\ (shown = << >> <=> A = {})
      /\ \A g \in A : \E h \in B : h.root = g.root /\ Score(h) >= Score(g)
  BY ToSetFacts, StrongestFacts DEF Shown
<1>2. /\ RetrievalConfidence(shown) =
           IF shown = << >> THEN 0
           ELSE IF RA = {} THEN Unit \div 2
           ELSE (80 * topA + 20 * Min({Unit, (Unit * Cardinality(rootsA)) \div 2})) \div 100
      /\ RetrievalConfidence(best) =
           IF best = << >> THEN 0
           ELSE IF RB = {} THEN Unit \div 2
           ELSE (80 * topB + 20 * Min({Unit, (Unit * Cardinality(rootsB)) \div 2})) \div 100
  BY DEF RetrievalConfidence
<1> HIDE DEF A, B, best
<1>3. \A g \in A : Score(g) \in Nat /\ (g \in RA <=> Score(g) > 0)
  BY <1>1, ScoreFacts
<1>4. \A g \in B : g \in RB <=> g \in RA
  BY <1>1
<1>5. RA \in SUBSET A /\ RB \in SUBSET RA /\ RB \in SUBSET B
  BY <1>1
<1> HIDE DEF RA, RB
<1>6. \A g \in RA : \E h \in RB : h.root = g.root /\ Score(h) >= Score(g)
  <2> SUFFICES ASSUME NEW g \in RA
               PROVE  \E h \in RB : h.root = g.root /\ Score(h) >= Score(g)
    OBVIOUS
  <2>1. PICK h \in B : h.root = g.root /\ Score(h) >= Score(g)
    BY <1>1, <1>5
  <2>2. h \in RA
    BY <1>1, <1>3, <1>5, <2>1
  <2> QED BY <1>4, <2>1, <2>2
<1>7. RA = {} <=> RB = {}
  BY <1>5, <1>6
<1>8. CASE RA = {} \/ shown = << >>
  <2>1. shown = << >> <=> best = << >>
    BY <1>1
  <2> QED BY <1>2, <1>7, <1>8, <2>1 DEF best
<1>9. CASE RA # {} /\ shown # << >>
  <2>1. SA \in SUBSET Int /\ IsFiniteSet(SA) /\ SB \in SUBSET SA /\ SB # {} /\ SA \in SUBSET Nat /\ SA # {}
    <3>1. RA \in SUBSET Group /\ IsFiniteSet(RA)
      BY <1>1, <1>5, FS_Subset
    <3>2. SA \in SUBSET Nat /\ IsFiniteSet(SA)
      BY <3>1, ScoresAreFinite
    <3> QED BY <1>5, <1>7, <1>9, <3>2
  <2>2. \A a \in SA : \E b \in SB : b >= a
    BY <1>6
  <2> HIDE DEF SA, SB
  <2>3. topA = topB
    BY <2>1, <2>2, GreatestOfPart
  <2>4. CorroborationFloor(topA) \in Int
    BY <2>1, TopFacts
  <2> HIDE DEF topA, topB
  <2>5. rootsA = rootsB
    <3> DEFINE floor == CorroborationFloor(topA)
    <3>1. /\ rootsA = {g.root : g \in {h \in A : Score(h) >= floor}}
          /\ rootsB = {g.root : g \in {h \in B : Score(h) >= floor}}
      BY <2>3
    <3>2. floor \in Int
      BY <2>4
    <3> HIDE DEF floor, rootsA, rootsB
    <3>3. ASSUME NEW g \in A, Score(g) >= floor PROVE g.root \in rootsB
      <4>1. PICK h \in B : h.root = g.root /\ Score(h) >= Score(g)
        BY <1>1
      <4>2. Score(h) >= floor
        BY <1>1, <1>3, <3>2, <3>3, <4>1
      <4> QED BY <3>1, <4>1, <4>2
    <3>4. rootsA \subseteq rootsB
      BY <3>1, <3>3
    <3>5. rootsB \subseteq rootsA
      BY <1>1, <3>1
    <3> QED BY <3>4, <3>5
  <2> HIDE DEF rootsA, rootsB
  <2>6. best # << >> /\ RB # {}
    BY <1>1, <1>5, <1>7, <1>9
  <2> QED BY <1>2, <1>9, <2>3, <2>5, <2>6 DEF best
<1> QED BY <1>8, <1>9

-----------------------------------------------------------------------------
(* What the sources disagree about. *)

LEMMA OppositesDispute ==
  ASSUME NEW g \in Group, NEW h \in Group, Opposed(g, h)
  PROVE  Disputes(g, h) /\ Disputes(h, g)
<1>1. PICK s \in Context(g), t \in Context(h) :
        s.words = t.words /\ 0 \notin {s.number, t.number} /\ s.number # t.number
  BY DEF Opposed
<1>2. IsFiniteSet(s.words)
  <2>1. g.representative.id \in DOMAIN Chunk
    BY DEF Group, Candidate
  <2> QED BY <2>1, ChunkAssumption DEF Context
<1>3. s.words \cap t.words = s.words /\ t.words \cap s.words = t.words
  BY <1>1
<1>4. Cardinality(s.words) \in Nat /\ Cardinality(t.words) = Cardinality(s.words)
  BY <1>1, <1>2, FS_CardinalityType
<1>5. OnTopic(s, t) /\ OnTopic(t, s)
  BY <1>3, <1>4 DEF OnTopic
<1>6. Contradicts(s, t) /\ Contradicts(t, s)
  BY <1>1, <1>5 DEF Contradicts
<1> QED BY <1>6 DEF Disputes

\* What a conflict between two groups says.
Says(c, g, h) ==
  /\ g.root = c.stronger /\ h.root = c.weaker /\ g.authority >= h.authority
  /\ c.surfaced <=> g.authority - h.authority < 15

LEMMA ConflictIsSettled ==
  ASSUME NEW g \in Group, NEW h \in Group
  PROVE  \E c : /\ Settled(g, h) = {c} /\ {c.stronger, c.weaker} = {g.root, h.root}
                /\ Says(c, g, h) \/ Says(c, h, g)
<1>1. g.authority \in Int /\ h.authority \in Int
  BY DEF Group
<1>2. CASE g.authority >= h.authority
  <2> DEFINE c == [stronger |-> g.root, weaker |-> h.root, surfaced |-> g.authority - h.authority < 15]
  <2>1. Settled(g, h) = {c}
    BY <1>2 DEF Settled
  <2>2. Says(c, g, h)
    BY <1>2 DEF Says
  <2> QED BY <2>1, <2>2
<1>3. CASE ~(g.authority >= h.authority)
  <2> DEFINE c == [stronger |-> h.root, weaker |-> g.root, surfaced |-> h.authority - g.authority < 15]
  <2>1. h # g
    BY <1>1, <1>3
  <2>2. Settled(g, h) = {c}
    BY <1>3, <2>1 DEF Settled
  <2>3. Says(c, h, g)
    <3>1. h.authority >= g.authority
      BY <1>1, <1>3
    <3> QED BY <3>1 DEF Says
  <2> QED BY <2>2, <2>3
<1> QED BY <1>2, <1>3

\* The groups at two places disagree, and are the first of their lineages to.
Disputing(shown, a, b) ==
  /\ a \in DOMAIN shown /\ b \in DOMAIN shown
  /\ a < b /\ shown[a].root # shown[b].root /\ Disputes(shown[a], shown[b])
Roots(shown, a, b) == {shown[a].root, shown[b].root}
FirstDispute(shown, a, b) ==
  /\ Disputing(shown, a, b)
  /\ \A c, d : Disputing(shown, c, d) /\ Roots(shown, c, d) = Roots(shown, a, b)
       => ~(c < a \/ (c = a /\ d < b))

LEMMA ConflictsAreFirst ==
  ASSUME NEW shown
  PROVE  \A c : c \in source_conflicts(shown) <=>
                  \E a, b : FirstDispute(shown, a, b) /\ c \in Settled(shown[a], shown[b])
<1> DEFINE pairs == {p \in (DOMAIN shown) \X (DOMAIN shown) :
                       /\ p[1] < p[2] /\ shown[p[1]].root # shown[p[2]].root
                       /\ Disputes(shown[p[1]], shown[p[2]])}
           between(p) == {shown[p[1]].root, shown[p[2]].root}
           earlier(p, q) == p[1] < q[1] \/ (p[1] = q[1] /\ p[2] < q[2])
           found == {p \in pairs : \A q \in pairs : between(q) = between(p) => ~earlier(q, p)}
<1>1. source_conflicts(shown) = UNION {Settled(shown[p[1]], shown[p[2]]) : p \in found}
  BY DEF source_conflicts
<1>2. \A p \in pairs : p = <<p[1], p[2]>> /\ Disputing(shown, p[1], p[2])
  BY DEF Disputing
<1>3. \A a, b : Disputing(shown, a, b) => <<a, b>> \in pairs
  BY DEF Disputing
<1> HIDE DEF pairs
<1>4. ASSUME NEW p \in found PROVE FirstDispute(shown, p[1], p[2])
  <2>1. p \in pairs
    OBVIOUS
  <2> SUFFICES ASSUME NEW c, NEW d, Disputing(shown, c, d), Roots(shown, c, d) = Roots(shown, p[1], p[2]),
                      c < p[1] \/ (c = p[1] /\ d < p[2])
               PROVE  FALSE
    BY <1>2, <2>1 DEF FirstDispute
  <2> DEFINE q == <<c, d>>
  <2>2. q \in pairs /\ q[1] = c /\ q[2] = d
    BY <1>3
  <2>3. between(q) = between(p) /\ earlier(q, p)
    BY <2>2 DEF Roots
  <2> QED BY <2>2, <2>3
<1>5. ASSUME NEW a, NEW b, FirstDispute(shown, a, b) PROVE <<a, b>> \in found
  <2> DEFINE p == <<a, b>>
  <2>1. p \in pairs /\ p[1] = a /\ p[2] = b
    BY <1>3, <1>5 DEF FirstDispute
  <2> HIDE DEF p
  <2> SUFFICES ASSUME NEW q \in pairs, between(q) = between(p), earlier(q, p) PROVE FALSE
    BY <2>1 DEF p
  <2>2. Disputing(shown, q[1], q[2]) /\ Roots(shown, q[1], q[2]) = Roots(shown, a, b)
    BY <1>2, <2>1 DEF Roots
  <2> QED BY <1>5, <2>1, <2>2 DEF FirstDispute
<1> HIDE DEF found
<1>6. ASSUME NEW c, c \in source_conflicts(shown)
      PROVE  \E a, b : FirstDispute(shown, a, b) /\ c \in Settled(shown[a], shown[b])
  <2>1. PICK p \in found : c \in Settled(shown[p[1]], shown[p[2]])
    BY <1>1, <1>6
  <2> QED BY <1>4, <2>1
<1>7. ASSUME NEW c, NEW a, NEW b, FirstDispute(shown, a, b), c \in Settled(shown[a], shown[b])
      PROVE  c \in source_conflicts(shown)
  <2> DEFINE p == <<a, b>>
  <2>1. p \in found /\ p[1] = a /\ p[2] = b
    BY <1>5, <1>7
  <2> HIDE DEF p
  <2>2. c \in Settled(shown[p[1]], shown[p[2]])
    BY <1>7, <2>1
  <2> QED BY <1>1, <2>1, <2>2
<1> QED BY <1>6, <1>7

\* The first of the disputes between two lineages.
LEMMA OneDisputeIsFirst ==
  ASSUME NEW shown, Shown(shown), NEW i, NEW j, Disputing(shown, i, j)
  PROVE  \E a, b : FirstDispute(shown, a, b) /\ Roots(shown, a, b) = Roots(shown, i, j)
<1> DEFINE Q(a, b) == Disputing(shown, a, b) /\ Roots(shown, a, b) = Roots(shown, i, j)
           firsts == {a \in DOMAIN shown : \E b : Q(a, b)}
<1>1. DOMAIN shown = 1..Len(shown) /\ Len(shown) \in Nat
  BY ToSetFacts DEF Shown
<1>2. \A a, b : Q(a, b) => a \in 1..Len(shown) /\ b \in 1..Len(shown)
  BY <1>1 DEF Disputing
<1>3. firsts \in SUBSET Nat /\ firsts # {}
  <2>1. i \in firsts
    BY <1>1, <1>2
  <2> QED BY <1>1, <2>1
<1>4. PICK a \in firsts : \A c \in firsts : a <= c
  BY <1>3, LeastNumber
<1> DEFINE seconds == {b \in DOMAIN shown : Q(a, b)}
<1>5. seconds \in SUBSET Nat /\ seconds # {}
  BY <1>1, <1>2
<1>6. PICK b \in seconds : \A d \in seconds : b <= d
  BY <1>5, LeastNumber
<1>7. Q(a, b)
  BY <1>6
<1>8. \A c, d : Q(c, d) => c \in firsts /\ (c = a => d \in seconds)
  BY <1>1, <1>2
<1>9. a \in Int /\ b \in Int
  BY <1>1, <1>2, <1>7
<1> HIDE DEF firsts, seconds
<1>10. ASSUME NEW c, NEW d, Q(c, d) PROVE ~(c < a \/ (c = a /\ d < b))
  <2>1. c \in Int /\ d \in Int /\ a <= c /\ (c = a => b <= d)
    BY <1>1, <1>2, <1>4, <1>6, <1>8, <1>10
  <2> QED BY <1>9, <2>1
<1> QED BY <1>7, <1>10 DEF FirstDispute

LEMMA FirstIsOne ==
  ASSUME NEW shown, Shown(shown)
  PROVE  \A a, b, c, d : FirstDispute(shown, a, b) /\ FirstDispute(shown, c, d)
                          /\ Roots(shown, a, b) = Roots(shown, c, d) => a = c /\ b = d
<1> TAKE a, b, c, d
<1> HAVE FirstDispute(shown, a, b) /\ FirstDispute(shown, c, d) /\ Roots(shown, a, b) = Roots(shown, c, d)
<1>1. a \in Int /\ b \in Int /\ c \in Int /\ d \in Int
  <2>1. DOMAIN shown = 1..Len(shown) /\ Len(shown) \in Nat
    BY ToSetFacts DEF Shown
  <2> QED BY <2>1 DEF FirstDispute, Disputing
<1>2. ~(c < a \/ (c = a /\ d < b)) /\ ~(a < c \/ (a = c /\ b < d))
  BY DEF FirstDispute
<1> QED BY <1>1, <1>2

LEMMA DisputedGroups ==
  ASSUME NEW shown, Shown(shown), NEW a, NEW b, Disputing(shown, a, b)
  PROVE  /\ shown[a] \in ToSet(shown) /\ shown[b] \in ToSet(shown)
         /\ shown[a] \in Group /\ shown[b] \in Group
BY ToSetFacts DEF Shown, Disputing

\* A conflict is between two groups that are shown.
LEMMA ConflictsAreOfShown ==
  ASSUME NEW shown, Shown(shown), NEW c \in source_conflicts(shown)
  PROVE  \E g, h \in ToSet(shown) : Says(c, g, h)
<1>1. PICK a, b : FirstDispute(shown, a, b) /\ c \in Settled(shown[a], shown[b])
  BY ConflictsAreFirst
<1>2. Disputing(shown, a, b)
  BY <1>1 DEF FirstDispute
<1>3. /\ shown[a] \in ToSet(shown) /\ shown[b] \in ToSet(shown)
      /\ shown[a] \in Group /\ shown[b] \in Group
  BY <1>2, DisputedGroups
<1>4. PICK d : Settled(shown[a], shown[b]) = {d} /\ (Says(d, shown[a], shown[b]) \/ Says(d, shown[b], shown[a]))
  BY <1>3, ConflictIsSettled
<1>5. c = d
  BY <1>1, <1>4
<1> QED BY <1>3, <1>4, <1>5

\* Of the conflicts, exactly one is between the two.
ToldOnce(conflicts, r, s) == \E c : \A d : d \in conflicts /\ {d.stronger, d.weaker} = {r, s} <=> d = c

\* Two lineages that oppose each other have one conflict.
LEMMA OpposedAreTold ==
  ASSUME NEW shown, Shown(shown), NEW g \in ToSet(shown), NEW h \in ToSet(shown),
         g.root # h.root, Opposed(g, h)
  PROVE  ToldOnce(source_conflicts(shown), g.root, h.root)
<1>1. /\ g \in Group /\ h \in Group /\ DOMAIN shown = 1..Len(shown) /\ Len(shown) \in Nat
      /\ ToSet(shown) = {shown[i] : i \in 1..Len(shown)}
  BY ToSetFacts DEF Shown
<1>2. PICK i \in 1..Len(shown) : shown[i] = g
  BY <1>1
<1>3. PICK j \in 1..Len(shown) : shown[j] = h
  BY <1>1
<1>4. Disputes(g, h) /\ Disputes(h, g)
  BY <1>1, OppositesDispute
<1>5. Disputing(shown, i, j) \/ Disputing(shown, j, i)
  <2>1. i # j /\ i \in Int /\ j \in Int
    BY <1>1, <1>2, <1>3
  <2> QED BY <1>1, <1>2, <1>3, <1>4, <2>1 DEF Disputing
<1>6. Roots(shown, i, j) = {g.root, h.root} /\ Roots(shown, j, i) = {g.root, h.root}
  BY <1>2, <1>3 DEF Roots
<1>7. PICK a, b : FirstDispute(shown, a, b) /\ Roots(shown, a, b) = {g.root, h.root}
  BY <1>5, <1>6, OneDisputeIsFirst
<1>8. \A k, l : Disputing(shown, k, l) => \E c : /\ Settled(shown[k], shown[l]) = {c}
                                                 /\ {c.stronger, c.weaker} = Roots(shown, k, l)
  BY DisputedGroups, ConflictIsSettled DEF Roots
<1>9. PICK c : Settled(shown[a], shown[b]) = {c} /\ {c.stronger, c.weaker} = Roots(shown, a, b)
  BY <1>7, <1>8 DEF FirstDispute
<1>10. c \in source_conflicts(shown) /\ {c.stronger, c.weaker} = {g.root, h.root}
  BY <1>7, <1>9, ConflictsAreFirst
<1>11. ASSUME NEW d \in source_conflicts(shown), {d.stronger, d.weaker} = {g.root, h.root} PROVE d = c
  <2>1. PICK k, l : FirstDispute(shown, k, l) /\ d \in Settled(shown[k], shown[l])
    BY ConflictsAreFirst
  <2>2. PICK e : Settled(shown[k], shown[l]) = {e} /\ {e.stronger, e.weaker} = Roots(shown, k, l)
    BY <1>8, <2>1 DEF FirstDispute
  <2>3. d = e
    BY <2>1, <2>2
  <2>4. Roots(shown, k, l) = Roots(shown, a, b)
    BY <1>7, <1>11, <2>2, <2>3
  <2>5. k = a /\ l = b
    <3>1. FirstDispute(shown, k, l) /\ FirstDispute(shown, a, b)
      BY <1>7, <2>1
    <3>2. \A x, y, z, t : FirstDispute(shown, x, y) /\ FirstDispute(shown, z, t)
                            /\ Roots(shown, x, y) = Roots(shown, z, t) => x = z /\ y = t
      BY FirstIsOne
    <3> QED BY <2>4, <3>1, <3>2
  <2> QED BY <1>9, <2>1, <2>5
<1> QED BY <1>10, <1>11 DEF ToldOnce

-----------------------------------------------------------------------------
(* What a lost conflict costs. *)

\* Less than the whole of something is less than a hundred percent of it.
LEMMA PartIsLess ==
  ASSUME NEW x \in Nat, NEW y \in Nat, x < y
  PROVE  (100 * x) \div y < 100
<1> DEFINE q == (100 * x) \div y
<1>1. q \in Int /\ q * y <= 100 * x
  <2> DEFINE z == 100 * x
  <2>1. z \in Nat /\ y \in Nat /\ y > 0
    OBVIOUS
  <2> HIDE DEF z
  <2>2. z \div y \in Int /\ (z \div y) * y <= z
    BY <2>1
  <2> QED BY <2>2 DEF z
<1> HIDE DEF q
<1>2. ASSUME q >= 100 PROVE FALSE
  <2>1. q * y >= 100 * y
    BY <1>1, <1>2
  <2> QED BY <1>1, <2>1
<1> QED BY <1>1, <1>2

\* A lineage that lost a conflict and has any authority is missed.
LEMMA LosingCosts ==
  ASSUME NEW shown, Shown(shown), NEW c \in source_conflicts(shown),
         NEW k \in ToSet(shown), k.root = c.weaker, k.authority > 0
  PROVE  independent_agreement(shown, source_conflicts(shown)) < 100
<1> DEFINE all == ToSet(shown)
           roots == {g.root : g \in all}
           disputed == {d.weaker : d \in source_conflicts(shown)}
           Weights(root) == {g.authority : g \in {h \in all : h.root = root}}
           strength(root) == Max(Weights(root))
           Units(some) == UNION {{root} \X (1..strength(root)) : root \in some}
           rest == roots \ disputed
           lost == <<c.weaker, 1>>
<1>1. all \in SUBSET Group /\ IsFiniteSet(all)
  BY ToSetFacts DEF Shown
<1>2. independent_agreement(shown, source_conflicts(shown))
        = IF Cardinality(Units(roots)) = 0 THEN 0
          ELSE (100 * Cardinality(Units(rest))) \div Cardinality(Units(roots))
  BY DEF independent_agreement
<1>3. c.weaker \in roots /\ c.weaker \in disputed
  OBVIOUS
<1> HIDE DEF disputed
<1>4. ASSUME NEW root \in roots
      PROVE  strength(root) \in Nat /\ \A g \in all : g.root = root => strength(root) >= g.authority
  <2> DEFINE mine == {h \in all : h.root = root}
  <2>1. mine \in SUBSET Group /\ IsFiniteSet(mine) /\ mine # {}
    BY <1>1, FS_Subset
  <2>2. [g \in mine |-> g.authority] \in Surjection(mine, Weights(root))
    BY DEF Surjection
  <2>3. IsFiniteSet(Weights(root))
    BY <2>1, <2>2, FS_Surjection
  <2>4. Weights(root) \in SUBSET Nat /\ Weights(root) # {}
    BY <2>1 DEF Group
  <2>5. \A g \in all : g.root = root => g.authority \in Weights(root)
    OBVIOUS
  <2> HIDE DEF Weights
  <2>6. Weights(root) \in SUBSET Int
    BY <2>4
  <2>7. Max(Weights(root)) \in Weights(root) /\ \A n \in Weights(root) : Max(Weights(root)) >= n
    BY <2>3, <2>4, <2>6, OneIsGreatest
  <2> QED BY <2>4, <2>5, <2>7
<1>5. IsFiniteSet(roots)
  <2>1. [g \in all |-> g.root] \in Surjection(all, roots)
    BY DEF Surjection
  <2> QED BY <1>1, <2>1, FS_Surjection
<1>6. strength(c.weaker) \in Nat /\ strength(c.weaker) >= 1
  <2>1. strength(c.weaker) \in Nat /\ strength(c.weaker) >= k.authority
    BY <1>3, <1>4
  <2>2. k.authority \in Nat
    BY <1>1 DEF Group
  <2> HIDE DEF strength
  <2> QED BY <2>1, <2>2
<1> HIDE DEF roots, strength
<1>7. IsFiniteSet(Units(roots))
  <2> DEFINE T == {{root} \X (1..strength(root)) : root \in roots}
  <2>1. [root \in roots |-> {root} \X (1..strength(root))] \in Surjection(roots, T)
    BY DEF Surjection
  <2>2. IsFiniteSet(T)
    BY <1>5, <2>1, FS_Surjection
  <2>3. ASSUME NEW root \in roots PROVE IsFiniteSet({root} \X (1..strength(root)))
    <3>1. 1 \in Int /\ strength(root) \in Int
      BY <1>4
    <3>2. IsFiniteSet({root}) /\ IsFiniteSet(1..strength(root))
      BY <3>1, FS_Singleton, FS_Interval
    <3> QED BY <3>2, FS_Product
  <2>4. \A t \in T : IsFiniteSet(t)
    BY <2>3
  <2> HIDE DEF T
  <2>5. IsFiniteSet(UNION T)
    BY <2>2, <2>4, FS_UNION
  <2> QED BY <2>5 DEF T
<1>8. lost \in Units(roots) /\ Units(rest) \subseteq Units(roots) \ {lost}
  <2>1. lost \in {c.weaker} \X (1..strength(c.weaker))
    BY <1>6
  <2>2. \A u \in Units(rest) : u[1] \in rest /\ u \in Units(roots)
    OBVIOUS
  <2>3. c.weaker \notin rest
    BY <1>3
  <2> QED BY <1>3, <2>1, <2>2, <2>3
<1> HIDE DEF Units, lost, rest
<1> DEFINE x == Cardinality(Units(rest))
           y == Cardinality(Units(roots))
<1>9. x \in Nat /\ y \in Nat /\ x < y
  <2>1. /\ IsFiniteSet(Units(roots) \ {lost})
        /\ Cardinality(Units(roots) \ {lost}) = Cardinality(Units(roots)) - 1
    BY <1>7, <1>8, FS_RemoveElement
  <2>2. IsFiniteSet(Units(rest)) /\ Cardinality(Units(rest)) <= Cardinality(Units(roots) \ {lost})
    BY <1>8, <2>1, FS_Subset
  <2>3. x \in Nat /\ y \in Nat
    BY <1>7, <2>2, FS_CardinalityType
  <2> QED BY <2>1, <2>2, <2>3
<1> HIDE DEF x, y
<1>10. (100 * x) \div y < 100
  BY <1>9, PartIsLess
<1> QED BY <1>2, <1>9, <1>10 DEF x, y

-----------------------------------------------------------------------------
(* Citations. *)

\* The markers of what is shown.
Markers(shown) == {g.marker : g \in ToSet(shown)}

LEMMA HeldIsANumber ==
  ASSUME NEW g \in Group, NEW claim
  PROVE  /\ Held(claim, g) \in Nat /\ IsFiniteSet(WordsOf(Context(g)))
         /\ claim.words \subseteq WordsOf(Context(g)) => Held(claim, g) = Cardinality(claim.words)
<1>1. g.representative.id \in DOMAIN Chunk
  BY DEF Group, Candidate
<1>2. IsFiniteSet(WordsOf(Context(g)))
  BY <1>1, WordsAreFinite DEF Context
<1>3. IsFiniteSet(claim.words \cap WordsOf(Context(g)))
  BY <1>2, FS_Intersection
<1>4. Held(claim, g) \in Nat
  BY <1>3, FS_CardinalityType DEF Held
<1>5. claim.words \subseteq WordsOf(Context(g)) => claim.words \cap WordsOf(Context(g)) = claim.words
  OBVIOUS
<1> QED BY <1>2, <1>4, <1>5 DEF Held

\* One of the groups of a list, and the first of those that hold most.
LEMMA OneHoldsMost ==
  ASSUME NEW claim, NEW list \in Seq(Group), list # << >>
  PROVE  LET best == {i \in DOMAIN list : \A j \in DOMAIN list : Held(claim, list[j]) <= Held(claim, list[i])}
         IN  Min(best) \in DOMAIN list
<1> DEFINE best == {i \in DOMAIN list : \A j \in DOMAIN list : Held(claim, list[j]) <= Held(claim, list[i])}
           n == Len(list)
           S == {Held(claim, list[i]) : i \in 1..n}
<1>1. n \in Nat /\ n # 0 /\ DOMAIN list = 1..n
  BY ToSetFacts, EmptySeq
<1>2. \A i \in 1..n : list[i] \in Group
  BY ElementOfSeq, <1>1
<1> HIDE DEF n
<1>3. IsFiniteSet(1..n)
  BY <1>1, FS_Interval
<1>4. \A i \in 1..n : Held(claim, list[i]) \in Nat
  BY <1>2, HeldIsANumber
<1>5. S \in SUBSET Int /\ S # {} /\ IsFiniteSet(S)
  <2>1. [i \in 1..n |-> Held(claim, list[i])] \in Surjection(1..n, S)
    BY DEF Surjection
  <2>2. IsFiniteSet(S)
    BY <1>3, <2>1, FS_Surjection
  <2>3. 1 \in 1..n
    BY <1>1
  <2> QED BY <1>4, <2>2, <2>3
<1>6. Max(S) \in S /\ \A m \in S : Max(S) >= m
  BY <1>5, OneIsGreatest
<1>7. PICK i \in 1..n : \A m \in S : Held(claim, list[i]) >= m
  BY <1>6
<1>8. \A j \in 1..n : Held(claim, list[j]) \in S
  OBVIOUS
<1> HIDE DEF S
<1>9. \A j \in 1..n : Held(claim, list[j]) <= Held(claim, list[i])
  BY <1>4, <1>7, <1>8
<1>10. i \in best /\ best \subseteq 1..n
  BY <1>1, <1>7, <1>9
<1> HIDE DEF best
<1>11. best \in SUBSET Int /\ best # {} /\ IsFiniteSet(best)
  <2>1. IsFiniteSet(best)
    <3>1. best \in SUBSET (1..n)
      BY <1>10
    <3> QED BY <1>3, <3>1, FS_Subset
  <2> QED BY <1>1, <1>10, <2>1
<1>12. Min(best) \in best
  BY <1>11, OneIsLeast
<1> QED BY <1>1, <1>10, <1>12 DEF best

\* What a claim rests on is shown and, where the claim names anything that is
\* shown, is named.
LEMMA SupportFacts ==
  ASSUME NEW claim, NEW shown, Shown(shown)
  PROVE  /\ Support(claim, shown) \subseteq ToSet(shown)
         /\ claim.markers \cap Markers(shown) # {} =>
              /\ Support(claim, shown) # {}
              /\ \A g \in Support(claim, shown) : g.marker \in claim.markers
<1> DEFINE K == {i \in DOMAIN shown : shown[i].marker \in claim.markers}
           named == Picked(shown, K)
           candidates == IF named = << >> THEN shown ELSE named
           best == {i \in DOMAIN candidates :
                      \A j \in DOMAIN candidates : Held(claim, candidates[j]) <= Held(claim, candidates[i])}
<1>1. /\ shown \in Seq(Group) /\ DOMAIN shown = 1..Len(shown) /\ Len(shown) \in Nat
      /\ ToSet(shown) = {shown[i] : i \in 1..Len(shown)}
  BY ToSetFacts DEF Shown
<1>2. K \in SUBSET (1..Len(shown)) /\ \A i \in 1..Len(shown) : i \in K <=> shown[i].marker \in claim.markers
  BY <1>1
<1>3. Support(claim, shown) = IF candidates = << >> THEN {} ELSE {candidates[Min(best)]}
  BY DEF Support, InContext
<1> HIDE DEF K
<1>4. named \in Seq(Group) /\ {named[j] : j \in 1..Len(named)} = {shown[i] : i \in K}
  BY <1>1, <1>2, PickedLocates, PickedHolds
<1> HIDE DEF named
<1>5. ToSet(named) = {shown[i] : i \in K} /\ (named = << >> => ToSet(named) = {})
  <2>1. ToSet(named) = {named[j] : j \in 1..Len(named)}
    BY <1>4, ToSetFacts
  <2>2. ToSet(<< >>) = {}
    BY DEF ToSet
  <2> QED BY <1>4, <2>1, <2>2
<1>6. candidates \in Seq(Group)
  BY <1>1, <1>4
<1>7. ToSet(candidates) \subseteq ToSet(shown)
  BY <1>1, <1>2, <1>5
<1>8. claim.markers \cap Markers(shown) # {} => candidates # << >> /\ candidates = named
  <2> SUFFICES ASSUME claim.markers \cap Markers(shown) # {} PROVE named # << >>
    OBVIOUS
  <2>1. PICK g \in ToSet(shown) : g.marker \in claim.markers
    BY DEF Markers
  <2>2. PICK i \in 1..Len(shown) : shown[i] = g
    BY <1>1
  <2>3. g \in ToSet(named)
    BY <1>2, <1>5, <2>1, <2>2
  <2> QED BY <1>5, <2>3
<1> HIDE DEF candidates
<1>9. candidates # << >> => Min(best) \in DOMAIN candidates
  BY <1>6, OneHoldsMost
<1> HIDE DEF best
<1>10. candidates # << >> => candidates[Min(best)] \in ToSet(candidates)
  BY <1>9 DEF ToSet
<1>11. Support(claim, shown) \subseteq ToSet(candidates)
  BY <1>3, <1>10
<1>12. \A g \in ToSet(named) : g.marker \in claim.markers
  BY <1>2, <1>5
<1> QED BY <1>3, <1>7, <1>8, <1>11, <1>12

\* What is cited for a claim, and what has to be.
LEMMA CitedFacts ==
  ASSUME NEW claim, NEW shown, Shown(shown)
  PROVE  /\ \A m \in Cited(claim, shown) :
              /\ \E g \in ToSet(shown) : /\ g.marker = m
                                         /\ 100 * Held(claim, g) >= Entailment * Cardinality(claim.words)
              /\ claim.markers \cap Markers(shown) = {} \/ m \in claim.markers \cap Markers(shown)
         /\ \A g \in ToSet(shown) :
              /\ claim.words # {} /\ claim.words \subseteq WordsOf(Context(g))
              /\ claim.markers \cap Markers(shown) = {g.marker}
              => g.marker \in Cited(claim, shown)
<1>1. /\ Support(claim, shown) \subseteq ToSet(shown)
      /\ claim.markers \cap Markers(shown) # {} =>
           /\ Support(claim, shown) # {}
           /\ \A g \in Support(claim, shown) : g.marker \in claim.markers
  BY SupportFacts
<1>2. \A m : m \in Cited(claim, shown) <=>
        \E h \in Support(claim, shown) :
          h.marker = m /\ claim.words # {} /\ 100 * Held(claim, h) >= Entailment * Cardinality(claim.words)
  BY DEF Cited
<1>3. ASSUME NEW m \in Cited(claim, shown)
      PROVE  /\ \E g \in ToSet(shown) : /\ g.marker = m
                                        /\ 100 * Held(claim, g) >= Entailment * Cardinality(claim.words)
             /\ claim.markers \cap Markers(shown) = {} \/ m \in claim.markers \cap Markers(shown)
  <2>1. PICK h \in Support(claim, shown) :
          h.marker = m /\ 100 * Held(claim, h) >= Entailment * Cardinality(claim.words)
    BY <1>2
  <2>2. h \in ToSet(shown) /\ m \in Markers(shown)
    BY <1>1, <2>1 DEF Markers
  <2> QED BY <1>1, <2>1, <2>2
<1>4. ASSUME NEW g \in ToSet(shown), claim.words # {}, claim.words \subseteq WordsOf(Context(g)),
             claim.markers \cap Markers(shown) = {g.marker}
      PROVE  g.marker \in Cited(claim, shown)
  <2>1. PICK h \in Support(claim, shown) : h.marker \in claim.markers /\ h \in ToSet(shown)
    BY <1>1, <1>4
  <2>2. h.marker = g.marker
    BY <1>4, <2>1 DEF Markers
  <2>3. h = g /\ g \in Group
    BY <2>1, <2>2, ToSetFacts DEF Shown
  <2>4. Held(claim, g) = Cardinality(claim.words) /\ Held(claim, g) \in Nat
    BY <1>4, <2>3, HeldIsANumber
  <2>5. 100 * Held(claim, g) >= Entailment * Cardinality(claim.words)
    <3>1. Entailment \in 1..100
      BY LimitAssumption
    <3> DEFINE n == Held(claim, g)
    <3>2. n \in Nat /\ Cardinality(claim.words) = n
      BY <2>4
    <3> HIDE DEF n
    <3>3. Entailment * n <= 100 * n
      BY <3>1, <3>2
    <3> QED BY <3>1, <3>2, <3>3 DEF n
  <2> QED BY <1>2, <1>4, <2>1, <2>3, <2>5
<1> QED BY <1>3, <1>4

Claims(claims) == \A i \in DOMAIN claims : DOMAIN claims[i] = {"words", "number", "markers"}

\* What the output chain leaves of the claims.
LEMMA ResolvedFacts ==
  ASSUME NEW claims, Claims(claims), NEW valid
  PROVE  /\ DOMAIN Resolved(claims, valid) = DOMAIN claims /\ Claims(Resolved(claims, valid))
         /\ \A i \in DOMAIN claims : /\ Resolved(claims, valid)[i].words = claims[i].words
                                     /\ Resolved(claims, valid)[i].markers = claims[i].markers \cap valid
BY DEF Claims, Resolved

LEMMA CitationsAreEvidence ==
  ASSUME NEW shown, Shown(shown), NEW claims, Claims(claims), NEW valid
  PROVE  LET left == Resolved(claims, valid)
         IN  /\ valid \cap Markers(shown) = {} \/ Markers(shown) \subseteq valid =>
                \A c \in Citations(claims, shown) :
                  /\ \E g \in ToSet(shown) :
                       /\ g.marker = c[2]
                       /\ 100 * Cardinality(left[c[1]].words \cap WordsOf(Context(g)))
                            >= Entailment * Cardinality(left[c[1]].words)
                  /\ \/ left[c[1]].markers \cap Markers(shown) = {}
                     \/ c[2] \in left[c[1]].markers \cap Markers(shown)
             /\ Markers(shown) \subseteq valid =>
                \A i \in DOMAIN left : \A g \in ToSet(shown) :
                  /\ left[i].words # {} /\ left[i].words \subseteq WordsOf(Context(g))
                  /\ left[i].markers \cap Markers(shown) = {g.marker}
                  => <<i, g.marker>> \in Citations(claims, shown)
<1> DEFINE left == Resolved(claims, valid)
<1>1. DOMAIN left = DOMAIN claims
      /\ \A i \in DOMAIN claims : left[i].words = claims[i].words /\ left[i].markers = claims[i].markers \cap valid
  BY ResolvedFacts
<1> HIDE DEF left
<1>2. \A c : c \in Citations(claims, shown) <=>
        \E i \in DOMAIN claims : \E m \in Cited(claims[i], shown) : c = <<i, m>>
  BY DEF Citations
<1>3. ASSUME valid \cap Markers(shown) = {} \/ Markers(shown) \subseteq valid, NEW c \in Citations(claims, shown)
      PROVE  /\ \E g \in ToSet(shown) :
                  /\ g.marker = c[2]
                  /\ 100 * Cardinality(left[c[1]].words \cap WordsOf(Context(g)))
                       >= Entailment * Cardinality(left[c[1]].words)
             /\ \/ left[c[1]].markers \cap Markers(shown) = {}
                \/ c[2] \in left[c[1]].markers \cap Markers(shown)
  <2>1. PICK i \in DOMAIN claims : \E m \in Cited(claims[i], shown) : c = <<i, m>>
    BY <1>2, <1>3
  <2>2. PICK m \in Cited(claims[i], shown) : c = <<i, m>>
    BY <2>1
  <2>3. c[1] = i /\ c[2] = m
    BY <2>2
  <2> DEFINE claim == claims[i]
  <2>4. left[i].words = claim.words /\ left[i].markers = claim.markers \cap valid
    BY <1>1
  <2>5. m \in Cited(claim, shown)
    BY <2>2
  <2> HIDE DEF claim
  <2>6. /\ \E g \in ToSet(shown) : /\ g.marker = m
                                   /\ 100 * Held(claim, g) >= Entailment * Cardinality(claim.words)
        /\ claim.markers \cap Markers(shown) = {} \/ m \in claim.markers \cap Markers(shown)
    BY <2>5, CitedFacts
  <2>7. \E g \in ToSet(shown) :
          /\ g.marker = m
          /\ 100 * Cardinality(left[i].words \cap WordsOf(Context(g))) >= Entailment * Cardinality(left[i].words)
    BY <2>4, <2>6 DEF Held
  <2>8. left[i].markers \cap Markers(shown) = {} \/ m \in left[i].markers \cap Markers(shown)
    BY <1>3, <2>4, <2>6
  <2> QED BY <2>3, <2>7, <2>8
<1>4. ASSUME Markers(shown) \subseteq valid, NEW i \in DOMAIN left, NEW g \in ToSet(shown),
             left[i].words # {}, left[i].words \subseteq WordsOf(Context(g)),
             left[i].markers \cap Markers(shown) = {g.marker}
      PROVE  <<i, g.marker>> \in Citations(claims, shown)
  <2> DEFINE claim == claims[i]
  <2>1. claim.words # {} /\ claim.words \subseteq WordsOf(Context(g))
        /\ claim.markers \cap Markers(shown) = {g.marker}
    BY <1>1, <1>4
  <2> HIDE DEF claim
  <2>2. g.marker \in Cited(claim, shown)
    BY <2>1, CitedFacts
  <2> QED BY <1>1, <1>2, <2>2 DEF claim
<1> QED BY <1>3, <1>4 DEF left

-----------------------------------------------------------------------------
(* What is recalled. *)

\* An item of memory is known by its place.
LEMMA MemoryIsNumbered ==
  ToSet(TrimmedMemory) \subseteq Nat
<1> DEFINE items == Recalled
           S == DOMAIN items
           Item == [salience : Int, cost : Nat]
           f == [i \in S |-> items[i].salience]
           g == [i \in S |-> i]
           before(i, j) == items[i].salience > items[j].salience
                           \/ (items[i].salience = items[j].salience /\ i < j)
           R == {p \in S \X S : before(p[1], p[2])}
           order == InOrder(S, R)
           n == Len(order)
           keep(kept, i) == IF kept.used + items[i].cost > MemoryRegion THEN kept
                            ELSE [items |-> Append(kept.items, i), used |-> kept.used + items[i].cost]
           start == [items |-> << >>, used |-> 0]
           IsKept(h) == h = [i \in 0..n |-> IF i = 0 THEN start ELSE keep(h[i - 1], order[i])]
           F == CHOOSE h : IsKept(h)
           V == [items : Seq(Nat), used : Int]
           next == [i \in 1..n |-> [v \in V |-> keep(v, order[i])]]
<1>1. items \in Seq(Item) /\ S = 1..Len(items) /\ Len(items) \in Nat
  <2>1. SessionItems \in Seq(Item) /\ LongTermItems \in Seq(Item) /\ << >> \in Seq(Item)
    <3>1. {SessionItems, LongTermItems} \subseteq Seq([salience : Int, cost : Nat])
      BY MemoryAssumption
    <3> QED BY <3>1
  <2>2. items \in Seq(Item)
    BY <2>1, ConcatProperties DEF Recalled
  <2> HIDE DEF items
  <2> QED BY <2>2, LenProperties
<1>2. IsFiniteSet(S) /\ \A i \in S : i \in Nat /\ items[i] \in Item
  <2>1. \A i \in S : items[i] \in Item
    BY <1>1, ElementOfSeq
  <2> DEFINE l == Len(items)
  <2>2. 1 \in Int /\ l \in Int /\ S = 1..l
    BY <1>1
  <2> HIDE DEF l, S
  <2>3. IsFiniteSet(S) /\ S \subseteq Nat
    BY <2>2, FS_Interval
  <2> QED BY <2>1, <2>3
<1>3. TrimmedMemory = F[n].items
  BY DEF TrimmedMemory, Sorted
<1> HIDE DEF items, S
<1>4. order \in Seq(S)
  <2>1. f \in [S -> Int] /\ g \in [S -> Int] /\ \A x, y \in S : g[x] = g[y] => x = y
    BY <1>2
  <2>2. R = ByKeys(S, f, g)
    <3>1. \A x, y \in S : before(x, y) <=> f[x] > f[y] \/ (f[x] = f[y] /\ g[x] < g[y])
      OBVIOUS
    <3> QED BY <3>1 DEF ByKeys
  <2> HIDE DEF f, g, R
  <2>3. Orders(R, S)
    BY <2>1, <2>2, KeysOrder
  <2> QED BY <1>2, <2>3, InOrderFacts
<1> HIDE DEF order
<1>5. n \in Nat /\ \A i \in 1..n : order[i] \in S
  BY <1>4, LenProperties, ElementOfSeq
<1> HIDE DEF n
<1>6. start \in V /\ \A i \in 1..n : \A v \in V : keep(v, order[i]) \in V
  <2>1. start \in V
    OBVIOUS
  <2>2. ASSUME NEW i \in 1..n, NEW v \in V PROVE keep(v, order[i]) \in V
    <3> DEFINE k == order[i]
    <3>1. k \in Nat /\ items[k].cost \in Nat
      BY <1>2, <1>5
    <3> HIDE DEF k
    <3>2. v.items \in Seq(Nat) /\ v.used \in Int
      OBVIOUS
    <3>3. Append(v.items, k) \in Seq(Nat) /\ v.used + items[k].cost \in Int
      BY <3>1, <3>2, AppendProperties
    <3>4. keep(v, k) \in V
      BY <3>3
    <3> QED BY <3>4 DEF k
  <2> QED BY <2>1, <2>2
<1> HIDE DEF V, start, keep
<1>7. \E h : Walks(h, V, start, n, next)
  <2>1. next \in [1..n -> [V -> V]]
    BY <1>6
  <2> HIDE DEF next
  <2> QED BY <1>5, <1>6, <2>1, StepsExist
<1>8. PICK h : Walks(h, V, start, n, next)
  BY <1>7
<1>9. IsKept(h)
  <2>1. h \in [0..n -> V] /\ h[0] = start /\ \A i \in 1..n : h[i] = next[i][h[i - 1]]
    BY <1>8 DEF Walks
  <2>2. \A i \in 1..n : h[i - 1] \in V
    <3>1. \A i \in 1..n : i - 1 \in 0..n
      BY <1>5
    <3> QED BY <2>1, <3>1
  <2>3. \A i \in 1..n : \A v \in V : next[i][v] = keep(v, order[i])
    OBVIOUS
  <2>4. \A i \in 0..n : i = 0 \/ i \in 1..n
    BY <1>5
  <2> HIDE DEF next
  <2>5. \A i \in 0..n : h[i] = IF i = 0 THEN start ELSE keep(h[i - 1], order[i])
    BY <2>1, <2>2, <2>3, <2>4
  <2> QED BY <2>1, <2>5
<1>10. IsKept(F)
  <2> HIDE DEF IsKept
  <2> QED BY <1>9
<1> HIDE DEF F
<1>11. F[0] = start /\ \A i \in 1..n : F[i] = keep(F[i - 1], order[i])
  <2>1. 0 \in 0..n /\ \A i \in 1..n : i \in 0..n /\ i # 0
    BY <1>5
  <2> QED BY <1>10, <2>1
<1>12. \A i \in 0..n : F[i] \in V
  <2>1. F[0] \in V /\ \A i \in 1..n : F[i - 1] \in V => F[i] \in V
    BY <1>6, <1>11
  <2> QED BY <1>5, <2>1, StaysIn
<1>13. F[n].items \in Seq(Nat)
  <2>1. F[n] \in V
    BY <1>5, <1>12
  <2> QED BY <2>1 DEF V
<1> QED BY <1>3, <1>13, ToSetFacts

-----------------------------------------------------------------------------
(* What an answer rests on. *)

TheShown == IF phase \in {"served", "sent draft"} THEN groups ELSE bundle.evidence

\* The decision is the policy's on what is shown, and it is to answer.
DecisionStands ==
  phase \in {"built", "generated", "sent", "served", "sent draft"} =>
    /\ Shown(TheShown)
    /\ decision = Decide(TheShown) /\ decision.basis # "ABSTAIN"
    /\ phase \notin {"served", "sent draft"} => decision.basis = "RETRIEVED_EVIDENCE"

\* The answer says of its sources what the decision does, and is cited from them.
EnvelopeStands ==
  /\ phase \in {"generated", "served", "sent", "sent draft"} => envelope.conflicts = decision.conflicts
  /\ phase \in {"generated", "sent"} => envelope.notes = Notes
  /\ phase \in {"generated", "served"} =>
       /\ DOMAIN envelope = {"claims", "citations", "warning", "conflicts", "notes", "band"}
       /\ Claims(envelope.claims) /\ envelope.citations = Citations(envelope.claims, TheShown)

AnswerInv ==
  /\ ContextInv
  /\ draft \in Drafts
  /\ ToSet(bundle.memory) \subseteq Nat
  /\ phase \in {"retrieved", "yielded", "served", "sent draft"} => bundle = NoBundle
  /\ DecisionStands
  /\ EnvelopeStands
  /\ CitationsHold

LEMMA GroupsAreShown ==
  ASSUME NEW list, Groups(list)
  PROVE  Shown(list)
<1>1. list \in Seq(Group) /\ ToSet(list) = {list[i] : i \in 1..Len(list)}
  BY ToSetFacts DEF Groups
<1> QED BY <1>1 DEF Shown, Groups

LEMMA BuiltIsShown ==
  ASSUME ScreenInv, ~(Reserved >= request.window)
  PROVE  Shown(BuiltBundle.evidence) /\ ToSet(BuiltBundle.memory) \subseteq Nat
<1> DEFINE packed == pack_evidence
           selected == packed.selected
           dropped == packed.dropped
           evidence == EdgeWeighted(selected)
<1>1. request.question \in Questions /\ EvidenceRegion \in Nat /\ Groups(groups)
  BY RegionFacts DEF ScreenInv, Request
<1>2. selected \cup dropped = ToSet(groups)
  BY <1>1, PackFacts
<1>3. BuiltBundle.evidence = evidence /\ BuiltBundle.memory = TrimmedMemory
  BY DEF BuiltBundle
<1> HIDE DEF selected, dropped
<1>4. /\ selected \in SUBSET Group /\ IsFiniteSet(selected)
      /\ \A g, h \in selected : g.marker = h.marker => g = h
  <2>1. Shown(groups)
    BY <1>1, GroupsAreShown
  <2>2. ToSet(groups) \subseteq Group /\ IsFiniteSet(ToSet(groups))
    BY <2>1, ToSetFacts DEF Shown
  <2>3. selected \in SUBSET ToSet(groups)
    BY <1>2
  <2>4. IsFiniteSet(selected)
    BY <2>2, <2>3, FS_Subset
  <2> QED BY <2>1, <2>2, <2>3, <2>4 DEF Shown
<1>5. evidence \in Seq(selected) /\ ToSet(evidence) = selected
  BY <1>4, EdgeWeightedFacts
<1> HIDE DEF evidence
<1>6. evidence \in Seq(Group)
  <2>1. \A i \in 1..Len(evidence) : evidence[i] \in Group
    BY <1>4, <1>5, ElementOfSeq
  <2>2. Len(evidence) \in Nat /\ evidence = [i \in 1..Len(evidence) |-> evidence[i]]
    BY <1>5
  <2> QED BY <2>1, <2>2, IsASeq
<1> QED BY <1>3, <1>4, <1>5, <1>6, MemoryIsNumbered DEF Shown

\* The output chain leaves what the reader can resolve.
LEMMA SentCitationsHold ==
  ASSUME AnswerInv, Send
  PROVE  CitationsHold'
<1> DEFINE claims == envelope.claims
           valid == ValidMarkers
           left == Resolved(claims, valid)
           shown == TheShown
<1>1. /\ phase \in {"generated", "served"} /\ phase' = IF phase = "served" THEN "sent draft" ELSE "sent"
      /\ groups' = groups /\ bundle' = bundle
  BY DEF Send
<1>2. /\ DOMAIN envelope = {"claims", "citations", "warning", "conflicts", "notes", "band"}
      /\ Claims(claims) /\ envelope.citations = Citations(claims, shown)
  BY <1>1 DEF AnswerInv, EnvelopeStands
<1>3. envelope'.claims = left /\ envelope'.citations = Citations(claims, shown)
  <2>1. envelope' = [envelope EXCEPT !.claims = left]
    BY DEF Send
  <2> HIDE DEF left, shown, claims
  <2> QED BY <1>2, <2>1
<1>4. Shown(shown)
  BY <1>1 DEF AnswerInv, DecisionStands
<1>5. shown = IF phase' = "sent" THEN bundle.evidence ELSE groups
  BY <1>1 DEF TheShown
<1>6. /\ valid = Markers(bundle.evidence) \cup {-i : i \in ToSet(bundle.memory)}
      /\ phase = "served" => valid = {}
  <2>1. valid = Markers(bundle.evidence) \cup {-i : i \in ToSet(bundle.memory)}
    BY DEF ValidMarkers, Markers
  <2>2. ToSet(<< >>) = {}
    BY DEF ToSet
  <2>3. phase = "served" => bundle.evidence = << >> /\ bundle.memory = << >>
    BY DEF AnswerInv, NoBundle
  <2> QED BY <2>1, <2>2, <2>3 DEF Markers
<1>7. valid \cap Markers(shown) = {} \/ Markers(shown) \subseteq valid
  BY <1>1, <1>6 DEF TheShown
<1>8. phase' = "sent" => Markers(shown) \subseteq valid
  BY <1>1, <1>6 DEF TheShown
<1>9. ToSet(bundle.memory) \subseteq Nat
  BY DEF AnswerInv
<1> HIDE DEF claims, valid, shown
<1>10. \A c \in Citations(claims, shown) :
          /\ \E g \in ToSet(shown) :
               /\ g.marker = c[2]
               /\ 100 * Cardinality(left[c[1]].words \cap WordsOf(Context(g)))
                    >= Entailment * Cardinality(left[c[1]].words)
          /\ \/ left[c[1]].markers \cap Markers(shown) = {}
             \/ c[2] \in left[c[1]].markers \cap Markers(shown)
  BY <1>2, <1>4, <1>7, CitationsAreEvidence
<1>11. phase' = "sent" =>
          \A i \in DOMAIN left : \A g \in ToSet(shown) :
            /\ left[i].words # {} /\ left[i].words \subseteq WordsOf(Context(g))
            /\ left[i].markers \cap Markers(shown) = {g.marker}
            => <<i, g.marker>> \in Citations(claims, shown)
  BY <1>2, <1>4, <1>8, CitationsAreEvidence
<1>12. \A i \in DOMAIN left : \A m \in left[i].markers :
         \/ \E g \in ToSet(bundle.evidence) : g.marker = m
         \/ -m \in ToSet(bundle.memory)
  <2>1. DOMAIN left = DOMAIN claims /\ \A i \in DOMAIN claims : left[i].markers \subseteq valid
    BY <1>2, ResolvedFacts
  <2>2. \A i \in ToSet(bundle.memory) : -(-i) = i
    BY <1>9
  <2>3. \A m \in valid : m \in Markers(bundle.evidence) \/ \E i \in ToSet(bundle.memory) : m = -i
    BY <1>6
  <2> HIDE DEF left
  <2> QED BY <2>1, <2>2, <2>3 DEF Markers
<1> HIDE DEF left
<1>13. envelope'.claims = left /\ envelope'.citations = Citations(claims, shown)
       /\ bundle' = bundle /\ groups' = groups
  BY <1>1, <1>3
<1>14. ASSUME NEW c \in envelope'.citations
       PROVE  LET claim == envelope'.claims[c[1]]
                  at == IF phase' = "sent" THEN bundle'.evidence ELSE groups'
                  named == claim.markers \cap {g.marker : g \in ToSet(at)}
              IN  /\ \E g \in ToSet(at) :
                       /\ g.marker = c[2]
                       /\ 100 * Cardinality(claim.words \cap WordsOf(Context(g)))
                            >= Entailment * Cardinality(claim.words)
                  /\ named = {} \/ c[2] \in named
  <2>1. (IF phase' = "sent" THEN bundle'.evidence ELSE groups') = shown
    BY <1>5, <1>13
  <2> QED BY <1>10, <1>13, <2>1 DEF Markers
<1>15. ASSUME phase' = "sent", NEW i \in DOMAIN envelope'.claims, NEW g \in ToSet(bundle'.evidence)
       PROVE  LET claim == envelope'.claims[i]
              IN  /\ claim.words # {} /\ claim.words \subseteq WordsOf(Context(g))
                  /\ claim.markers \cap {h.marker : h \in ToSet(bundle'.evidence)} = {g.marker}
                  => <<i, g.marker>> \in envelope'.citations
  <2>1. bundle'.evidence = shown
    BY <1>5, <1>13, <1>15
  <2> QED BY <1>11, <1>13, <1>15, <2>1 DEF Markers
<1>16. \A i \in DOMAIN envelope'.claims : \A m \in envelope'.claims[i].markers :
         \/ \E g \in ToSet(bundle'.evidence) : g.marker = m
         \/ -m \in ToSet(bundle'.memory)
  BY <1>12, <1>13
<1> QED BY <1>14, <1>15, <1>16 DEF CitationsHold

LEMMA AnswerStep == AnswerInv /\ [FlowNext]_flowVars => AnswerInv'
<1> SUFFICES ASSUME AnswerInv, [FlowNext]_flowVars PROVE AnswerInv'
  OBVIOUS
<1>0. ContextInv'
  BY ContextStep DEF AnswerInv
<1>1. ASSUME phase' \in {"asked", "refused", "retrieved", "yielded", "abstained", "overflowed"},
             bundle' = NoBundle, draft' = draft
      PROVE  AnswerInv'
  <2>1. ToSet(bundle'.memory) \subseteq Nat
    <3>1. bundle'.memory = << >>
      BY <1>1 DEF NoBundle
    <3> QED BY <3>1 DEF ToSet
  <2>2. DecisionStands' /\ EnvelopeStands' /\ CitationsHold'
    BY <1>1 DEF DecisionStands, EnvelopeStands, CitationsHold, Sent
  <2> QED BY <1>0, <1>1, <2>1, <2>2 DEF AnswerInv
<1>2. ASSUME UNCHANGED <<request, draft, groups, bundle, decision>>,
              phase \in {"built", "generated", "sent", "served", "sent draft"},
              phase \in {"served", "sent draft"} <=> phase' \in {"served", "sent draft"}
       PROVE  DecisionStands'
  <2>1. TheShown' = TheShown
    BY <1>2 DEF TheShown
  <2>2. Decide(TheShown)' = Decide(TheShown)
    BY <1>2, <2>1 DEF Decide, Beaten
  <2> QED BY <1>2, <2>1, <2>2 DEF AnswerInv, DecisionStands
<1>3. CASE RetrieveFused \/ RetrieveReranked
  <2>1. phase = "asked" /\ phase' \in {"refused", "retrieved"} /\ bundle' = bundle /\ draft' = draft
    BY <1>3 DEF RetrieveFused, RetrieveReranked, Retrieve
  <2> QED BY <1>1, <2>1 DEF AnswerInv, ContextInv
<1>4. ASSUME NEW source \in Sources, Quarantine(source) \/ Reinstate(source) PROVE AnswerInv'
  <2>1. phase = "asked" /\ phase' = "asked" /\ bundle' = bundle /\ draft' = draft
    BY <1>4 DEF Quarantine, Reinstate
  <2> QED BY <1>1, <2>1 DEF AnswerInv, ContextInv
<1>5. CASE ShadowYields
  BY <1>1, <1>5 DEF ShadowYields, AnswerInv
<1>6. CASE ShadowServes
  <2>1. /\ phase = "retrieved" /\ bundle' = bundle /\ draft' = draft /\ request' = request /\ groups' = groups
        /\ bundle = NoBundle
    BY <1>6 DEF ShadowServes, AnswerInv
  <2>2. decision' = Decide(groups)
    BY <1>6 DEF ShadowServes
  <2>3. CASE phase' = "abstained"
    BY <1>1, <2>1, <2>3
  <2>4. CASE phase' # "abstained"
    <3>1. /\ decision'.basis # "ABSTAIN" /\ phase' = "served"
          /\ envelope' = [claims |-> draft.claims, citations |-> Citations(draft.claims, groups),
                          warning |-> FALSE, conflicts |-> Decide(groups).conflicts, notes |-> {},
                          band |-> Band(draft.confidence \div 100)]
      BY <1>6, <2>2, <2>4 DEF ShadowServes
    <3>2. TheShown' = groups
      BY <2>1, <3>1 DEF TheShown
    <3>3. Shown(groups)
      BY GroupsAreShown DEF AnswerInv, ContextInv, ScreenInv
    <3>4. Decide(groups)' = Decide(groups)
      BY <2>1 DEF Decide, Beaten
    <3>5. DecisionStands'
      <4>1. TheShown' = groups /\ Shown(groups)
        BY <3>2, <3>3
      <4>2. decision' = Decide(TheShown)'
        BY <2>1, <2>2, <3>2 DEF Decide, Beaten
      <4> QED BY <3>1, <4>1, <4>2 DEF DecisionStands
    <3>6. Claims(draft.claims)
      <4>1. \A answer \in Drafts : \A i \in DOMAIN answer.claims :
              DOMAIN answer.claims[i] = {"words", "number", "markers"}
        BY DraftAssumption
      <4> QED BY <4>1 DEF AnswerInv, Claims
    <3>7. EnvelopeStands'
      <4>1. envelope'.conflicts = decision'.conflicts
        BY <2>2, <3>1
      <4>2. DOMAIN envelope' = {"claims", "citations", "warning", "conflicts", "notes", "band"}
        BY <3>1
      <4>3. Claims(envelope'.claims) /\ envelope'.citations = Citations(envelope'.claims, TheShown')
        BY <3>1, <3>2, <3>6
      <4> QED BY <3>1, <4>1, <4>2, <4>3 DEF EnvelopeStands
    <3>8. CitationsHold'
      BY <3>1 DEF CitationsHold, Sent
    <3>9. bundle' = NoBundle /\ draft' \in Drafts /\ ToSet(bundle'.memory) \subseteq Nat
      BY <2>1 DEF AnswerInv
    <3> QED BY <1>0, <3>1, <3>5, <3>7, <3>8, <3>9 DEF AnswerInv
  <2> QED BY <2>3, <2>4
<1>7. CASE Build
  <2>1. /\ draft' = draft /\ request' = request /\ groups' = groups /\ envelope' = envelope
        /\ phase \in {"retrieved", "yielded"} /\ bundle = NoBundle
    BY <1>7 DEF Build, AnswerInv
  <2>2. \/ bundle' = bundle /\ phase' \in {"abstained", "overflowed"}
        \/ /\ bundle' = BuiltBundle /\ decision' = Decide(bundle'.evidence)
           /\ phase' = IF decision'.basis = "RETRIEVED_EVIDENCE" THEN "built" ELSE "abstained"
           /\ ~(Reserved >= request.window)
    BY <1>7 DEF Build
  <2>3. CASE bundle' = bundle /\ phase' \in {"abstained", "overflowed"}
    BY <1>1, <2>1, <2>3
  <2>4. CASE /\ bundle' = BuiltBundle /\ decision' = Decide(bundle'.evidence)
             /\ phase' = IF decision'.basis = "RETRIEVED_EVIDENCE" THEN "built" ELSE "abstained"
             /\ ~(Reserved >= request.window)
    <3>1. Shown(bundle'.evidence) /\ ToSet(bundle'.memory) \subseteq Nat
      BY <2>4, BuiltIsShown DEF AnswerInv, ContextInv
    <3>2. TheShown' = bundle'.evidence
      BY <2>4 DEF TheShown
    <3>3. DecisionStands'
      <4>1. decision' = Decide(TheShown)'
        BY <2>1, <2>4, <3>2 DEF Decide, Beaten
      <4>2. phase' \in {"built", "generated", "sent", "served", "sent draft"}
              => decision'.basis = "RETRIEVED_EVIDENCE"
        BY <2>4
      <4> QED BY <3>1, <3>2, <4>1, <4>2 DEF DecisionStands
    <3>4. EnvelopeStands' /\ CitationsHold'
      BY <2>4 DEF EnvelopeStands, CitationsHold, Sent
    <3>5. draft' \in Drafts
      BY <2>1 DEF AnswerInv
    <3>6. phase' \in {"built", "abstained"}
      BY <2>4
    <3> QED BY <1>0, <3>1, <3>3, <3>4, <3>5, <3>6 DEF AnswerInv
  <2> QED BY <2>2, <2>3, <2>4
<1>8. ASSUME NEW sentences, Generate(sentences) PROVE AnswerInv'
  <2>1. /\ phase = "built" /\ phase' = "generated"
        /\ request' = request /\ draft' = draft /\ groups' = groups /\ bundle' = bundle /\ decision' = decision
        /\ envelope' = _envelope(extract_claims(sentences))
    BY <1>8 DEF Generate
  <2>2. TheShown = bundle.evidence /\ TheShown' = bundle.evidence
    BY <2>1 DEF TheShown
  <2>3. DecisionStands'
    BY <1>2, <2>1
  <2>4. EnvelopeStands'
    <3>1. /\ DOMAIN envelope' = {"claims", "citations", "warning", "conflicts", "notes", "band"}
          /\ envelope'.claims = extract_claims(sentences)
          /\ envelope'.citations = Citations(extract_claims(sentences), bundle.evidence)
          /\ envelope'.conflicts = decision.conflicts /\ envelope'.notes = Notes
      BY <2>1 DEF _envelope
    <3>2. Claims(extract_claims(sentences))
      BY DEF Claims, extract_claims
    <3>3. Notes' = Notes
      BY <2>1 DEF Notes
    <3> QED BY <2>1, <2>2, <3>1, <3>2, <3>3 DEF EnvelopeStands
  <2>5. CitationsHold'
    BY <2>1 DEF CitationsHold, Sent
  <2>6. draft' \in Drafts /\ ToSet(bundle'.memory) \subseteq Nat
    BY <2>1 DEF AnswerInv
  <2> QED BY <1>0, <2>1, <2>3, <2>4, <2>5, <2>6 DEF AnswerInv
<1>9. CASE Send
  <2>1. /\ phase \in {"generated", "served"} /\ phase' = IF phase = "served" THEN "sent draft" ELSE "sent"
        /\ request' = request /\ draft' = draft /\ groups' = groups /\ bundle' = bundle /\ decision' = decision
        /\ envelope' = [envelope EXCEPT !.claims = Resolved(@, ValidMarkers)]
    BY <1>9 DEF Send
  <2>2. DecisionStands'
    BY <1>2, <2>1
  <2>3. DOMAIN envelope = {"claims", "citations", "warning", "conflicts", "notes", "band"}
    BY <2>1 DEF AnswerInv, EnvelopeStands
  <2>4. envelope'.conflicts = envelope.conflicts /\ envelope'.notes = envelope.notes
    BY <2>1, <2>3
  <2>5. Notes' = Notes
    BY <2>1 DEF Notes
  <2>6. EnvelopeStands'
    BY <2>1, <2>4, <2>5 DEF AnswerInv, EnvelopeStands
  <2>7. CitationsHold'
    BY <1>9, SentCitationsHold
  <2>8. draft' \in Drafts /\ ToSet(bundle'.memory) \subseteq Nat /\ (phase = "served" => bundle' = NoBundle)
    BY <2>1 DEF AnswerInv
  <2> QED BY <1>0, <2>1, <2>2, <2>6, <2>7, <2>8 DEF AnswerInv
<1>10. CASE UNCHANGED flowVars
  <2>1. UNCHANGED <<request, draft, groups, bundle, decision, envelope, phase>>
    BY <1>10 DEF flowVars
  <2>2. TheShown' = TheShown /\ Notes' = Notes /\ Decide(TheShown)' = Decide(TheShown)
    BY <2>1 DEF TheShown, Notes, Decide, Beaten
  <2>3. DecisionStands' /\ EnvelopeStands'
    BY <2>1, <2>2 DEF AnswerInv, DecisionStands, EnvelopeStands
  <2>4. CitationsHold'
    BY <2>1 DEF AnswerInv, CitationsHold, Sent
  <2> QED BY <1>0, <2>1, <2>3, <2>4 DEF AnswerInv
<1> QED BY <1>3, <1>4, <1>5, <1>6, <1>7, <1>8, <1>9, <1>10 DEF FlowNext

LEMMA DraftsAreSure ==
  ASSUME NEW answer \in Drafts
  PROVE  answer.confidence \in Int
<1>1. answer.confidence \in 0..Unit
  BY DraftAssumption
<1>2. Unit \in Int
  BY DEF Unit
<1> QED BY <1>1, <1>2

LEMMA AnswerStarts == FlowInit => AnswerInv
<1> SUFFICES ASSUME FlowInit PROVE AnswerInv
  OBVIOUS
<1>1. Groups(<< >>) /\ ToSet(<< >>) = {}
  BY DEF Groups, ToSet
<1>2. /\ phase = "asked" /\ groups = << >> /\ bundle = NoBundle /\ draft \in Drafts
      /\ request \in Request /\ legs \in Legs
  BY DEF FlowInit, Request
<1>3. ContextInv
  BY <1>1, <1>2 DEF ContextInv, ContextIsAccounted, ScreenInv, NothingForeignIsShown
<1>4. DecisionStands /\ EnvelopeStands /\ CitationsHold
  BY <1>2 DEF DecisionStands, EnvelopeStands, CitationsHold, Sent
<1>5. bundle.memory = << >>
  BY <1>2 DEF NoBundle
<1> QED BY <1>1, <1>2, <1>3, <1>4, <1>5 DEF AnswerInv

LEMMA AnswerStays == FlowSpec => []AnswerInv
<1>1. AnswerInv /\ [FlowNext]_flowVars => AnswerInv'
  BY AnswerStep
<1> QED BY <1>1, AnswerStarts, PTL DEF FlowSpec

\* Whatever the model wrote and whatever it named, the citations of an answer
\* point to groups that were shown to it and that hold enough of the claim, its
\* own markers first, and no marker is left that leads nowhere (the grounding
\* verifier, and the citation guardrail after it).
THEOREM CitationsAreKept == FlowSpec => []CitationsHold
<1>1. AnswerInv => CitationsHold
  BY DEF AnswerInv
<1> QED BY <1>1, AnswerStays, PTL

\* No answer is sent on evidence that scores below the floor unless it is the
\* weights' own, of high confidence and not about the tenant's data; and no
\* number of copies of a source raises the confidence in it (TablePolicy.decide,
\* raw_retrieval_score).
THEOREM EvidenceLicensesAnswers == FlowSpec => []AnswersAreLicensed
<1>1. AnswerInv => AnswersAreLicensed
  <2> SUFFICES ASSUME AnswerInv, Sent PROVE AnswersAreLicensed
    BY DEF AnswersAreLicensed
  <2> DEFINE shown == TheShown
  <2>1. shown = IF phase = "sent" THEN bundle.evidence ELSE groups
    BY DEF TheShown, Sent
  <2>2. /\ Shown(shown) /\ decision = Decide(shown) /\ decision.basis # "ABSTAIN"
        /\ phase = "sent" => decision.basis = "RETRIEVED_EVIDENCE"
    BY DEF AnswerInv, DecisionStands, Sent
  <2> HIDE DEF shown
  <2> DEFINE p == RetrievalConfidence(shown)
  <2>3. /\ decision.p_retrieval = p
        /\ decision.basis = IF \/ p < Moderate /\ request.private
                               \/ p < Moderate /\ draft.confidence < High
                               \/ Stale(shown) /\ request.strict
                            THEN "ABSTAIN" ELSE IF p < Moderate THEN "PARAMETRIC" ELSE "RETRIEVED_EVIDENCE"
    BY <2>2 DEF Decide
  <2>4. p < Moderate => phase # "sent" /\ ~request.private /\ ~(draft.confidence < High)
    BY <2>2, <2>3
  <2>5. ~(p < Moderate) => Grounded(shown)
    BY <2>2, ConfidenceIsGrounded
  <2>6. draft.confidence \in Int /\ High \in Int
    <3>1. draft \in Drafts
      BY DEF AnswerInv
    <3> QED BY <3>1, DraftsAreSure DEF High
  <2>7. RetrievalConfidence(Strongest(shown)) = decision.p_retrieval
    BY <2>2, <2>3, CopiesAddNothing
  <2> HIDE DEF p
  <2>8. /\ phase = "sent" \/ request.private => Grounded(shown)
        /\ Grounded(shown) \/ draft.confidence >= High
    BY <2>4, <2>5, <2>6
  <2> QED BY <2>1, <2>7, <2>8 DEF AnswersAreLicensed
<1> QED BY <1>1, AnswerStays, PTL

\* Wherever two lineages that an answer was written from state the same thing
\* with different quantities, the answer says so, once, prefers the one of more
\* authority if the gap is clear, and counts the other against its agreement
\* (source_conflicts, independent_agreement, _structured_notes).
THEOREM ConflictsReachTheReader == FlowSpec => []DisagreementsAreTold
<1>1. AnswerInv => DisagreementsAreTold
  <2> SUFFICES ASSUME AnswerInv, Sent PROVE DisagreementsAreTold
    BY DEF DisagreementsAreTold
  <2> DEFINE shown == IF phase = "sent" THEN bundle.evidence ELSE groups
             conflicts == source_conflicts(shown)
  <2>1. shown = TheShown
    BY DEF TheShown, Sent
  <2>2. Shown(shown) /\ decision = Decide(shown)
    BY <2>1 DEF AnswerInv, DecisionStands, Sent
  <2>3. envelope.conflicts = decision.conflicts /\ (phase = "sent" => envelope.notes = Notes)
    BY DEF AnswerInv, EnvelopeStands, Sent
  <2> HIDE DEF shown
  <2>4. envelope.conflicts = conflicts /\ decision.conflicts = conflicts
        /\ decision.agreement = independent_agreement(shown, conflicts)
    BY <2>2, <2>3 DEF Decide
  <2>5. \A c \in conflicts : \E g, h \in ToSet(shown) : Says(c, g, h)
    BY <2>2, ConflictsAreOfShown
  <2>6. ASSUME NEW c \in conflicts, phase = "sent" PROVE \E n \in envelope.notes : n[Len(n)] = c.weaker
    <3>1. c \in decision.conflicts /\ envelope.notes = Notes
      BY <2>3, <2>4, <2>6
    <3>2. CASE c.surfaced
      <4> DEFINE n == <<"sources disagree", c.stronger, c.weaker>>
      <4>1. n \in Notes
        BY <3>1, <3>2 DEF Notes
      <4>2. Len(n) = 3 /\ n[3] = c.weaker
        OBVIOUS
      <4> HIDE DEF n
      <4> QED BY <3>1, <4>1, <4>2
    <3>4. CASE ~c.surfaced
      <4> DEFINE n == <<"a lower-authority source disagrees", c.weaker>>
      <4>1. n \in Notes
        BY <3>1, <3>4 DEF Notes
      <4>2. Len(n) = 2 /\ n[2] = c.weaker
        OBVIOUS
      <4> HIDE DEF n
      <4> QED BY <3>1, <4>1, <4>2
    <3> QED BY <3>2, <3>4
  <2>7. ASSUME NEW c \in conflicts, \E k \in ToSet(shown) : k.root = c.weaker /\ k.authority > 0
        PROVE  decision.agreement < 100
    BY <2>2, <2>4, <2>7, LosingCosts
  <2>8. ASSUME NEW g \in ToSet(shown), NEW h \in ToSet(shown), g.root # h.root, Opposed(g, h)
        PROVE  Cardinality({c \in conflicts : {c.stronger, c.weaker} = {g.root, h.root}}) = 1
    <3>0. Shown(shown) /\ g \in ToSet(shown) /\ h \in ToSet(shown) /\ g.root # h.root /\ Opposed(g, h)
      BY <2>2, <2>8
    <3>1. ToldOnce(conflicts, g.root, h.root)
      BY <3>0, OpposedAreTold
    <3>2. PICK c : \A d : d \in conflicts /\ {d.stronger, d.weaker} = {g.root, h.root} <=> d = c
      BY <3>1 DEF ToldOnce
    <3>3. {d \in conflicts : {d.stronger, d.weaker} = {g.root, h.root}} = {c}
      BY <3>2
    <3>4. Cardinality({c}) = 1
      BY FS_Singleton
    <3> QED BY <3>3, <3>4
  <2> HIDE DEF conflicts
  <2>9. \A g, h \in ToSet(shown) : g.root # h.root /\ Opposed(g, h) =>
          LET told == {c \in envelope.conflicts : {c.stronger, c.weaker} = {g.root, h.root}}
          IN  /\ Cardinality(told) = 1
              /\ \A c \in told :
                   /\ phase = "sent" => \E n \in envelope.notes : n[Len(n)] = c.weaker
                   /\ (\E k \in ToSet(shown) : k.root = c.weaker /\ k.authority > 0)
                        => decision.agreement < 100
    BY <2>4, <2>6, <2>7, <2>8
  <2>10. \A c \in envelope.conflicts : \E g, h \in ToSet(shown) :
           /\ g.root = c.stronger /\ h.root = c.weaker /\ g.authority >= h.authority
           /\ c.surfaced <=> g.authority - h.authority < 15
    BY <2>4, <2>5 DEF Says
  <2> QED BY <2>9, <2>10 DEF DisagreementsAreTold, shown
<1> QED BY <1>1, AnswerStays, PTL

-----------------------------------------------------------------------------
(* Sentences. *)

\* A part of a text, from behind a place to a place.
Part(text, a, b) == SubSeq(text, a + 1, b)

LEMMA PartFacts ==
  ASSUME NEW S, NEW text \in Seq(S), NEW a \in Nat, NEW b \in Nat, a <= b, b <= Len(text)
  PROVE  /\ Part(text, a, b) \in Seq(S)
         /\ Len(Part(text, a, b)) = b - a
         /\ \A i \in 1..(b - a) : Part(text, a, b)[i] = text[a + i]
<1>1. Len(text) \in Nat /\ \A i \in 1..Len(text) : text[i] \in S
  BY LenProperties, ElementOfSeq
<1>2. \A i \in (a + 1)..b : text[i] \in S
  BY <1>1
<1> DEFINE m == a + 1
<1>3. m \in Int /\ b \in Int /\ \A i \in m..b : text[i] \in S
  BY <1>2
<1> HIDE DEF m
<1>4. /\ SubSeq(text, m, b) \in Seq(S)
      /\ Len(SubSeq(text, m, b)) = IF m <= b THEN b - m + 1 ELSE 0
      /\ \A i \in 1..(b - m + 1) : SubSeq(text, m, b)[i] = text[m + i - 1]
  BY <1>3, SubSeqProperties
<1>5. b - m + 1 = b - a /\ (~(m <= b) => b - a = 0)
  BY DEF m
<1>6. \A i \in 1..(b - a) : m + i - 1 = a + i
  BY DEF m
<1> QED BY <1>4, <1>5, <1>6 DEF Part, m

LEMMA PartsJoin ==
  ASSUME NEW S, NEW text \in Seq(S), NEW a \in Nat, NEW b \in Nat, NEW c \in Nat,
         a <= b, b <= c, c <= Len(text)
  PROVE  Part(text, a, b) \o Part(text, b, c) = Part(text, a, c)
<1>1. Len(text) \in Nat
  BY LenProperties
<1> DEFINE m == a + 1
<1>2. m \in 1..Len(text) + 1 /\ b \in m - 1..Len(text) /\ c \in b..Len(text)
  BY <1>1
<1> HIDE DEF m
<1>3. SubSeq(text, m, b) \o SubSeq(text, b + 1, c) = SubSeq(text, m, c)
  BY <1>2, ConcatAdjacentSubSeq
<1> QED BY <1>3 DEF Part, m

LEMMA PartAll ==
  ASSUME NEW S, NEW text \in Seq(S)
  PROVE  Part(text, 0, Len(text)) = text
BY SubSeqFull DEF Part

LEMMA PartNone ==
  ASSUME NEW S, NEW text \in Seq(S)
  PROVE  Part(text, 0, 0) = << >>
<1> DEFINE part == Part(text, 0, 0)
           zero == 0
<1>1. zero \in Nat /\ zero <= zero /\ zero <= Len(text) /\ zero - zero = 0
  BY LenProperties
<1> HIDE DEF zero
<1>2. Part(text, zero, zero) \in Seq(S) /\ Len(Part(text, zero, zero)) = 0
  BY <1>1, PartFacts
<1>3. part \in Seq(S) /\ Len(part) = 0
  BY <1>2 DEF zero
<1> HIDE DEF part
<1> QED BY <1>3, EmptySeq DEF part

\* An end of a part is one of the text, unless the part stops there.
LEMMA EndsOfPart ==
  ASSUME NEW text \in Seq(Chars), NEW a \in Nat, NEW b \in Nat, a <= b, b <= Len(text),
         NEW e \in Ends(Part(text, a, b)), e # b - a \/ b = Len(text)
  PROVE  a + e \in Ends(text)
<1> DEFINE part == Part(text, a, b)
           n == b - a
<1>0. n \in Nat /\ Len(text) \in Nat
  BY LenProperties
<1>1. Len(part) = n /\ n \in Nat /\ Len(text) \in Nat
  BY <1>0, PartFacts
<1>2. \A i \in 1..n : part[i] = text[a + i]
  BY PartFacts
<1>3. /\ e \in 2..n /\ part[e] \in White
      /\ e = n \/ part[e + 1] \notin White
      /\ \E j \in 1..(e - 1) : part[j] = Stop /\ \A k \in (j + 1)..e : part[k] \in White
  <2>1. e \in Ends(part)
    OBVIOUS
  <2> HIDE DEF part, n
  <2> QED BY <1>1, <2>1 DEF Ends
<1> HIDE DEF part
<1>4. a + e \in 2..Len(text) /\ text[a + e] \in White
  BY <1>1, <1>2, <1>3
<1>5. a + e = Len(text) \/ text[a + e + 1] \notin White
  <2>1. CASE e = n
    BY <1>1, <2>1
  <2>2. CASE e # n
    <3>1. e + 1 \in 1..n /\ a + (e + 1) = a + e + 1
      BY <1>1, <1>3, <2>2
    <3> QED BY <1>2, <1>3, <2>2, <3>1
  <2> QED BY <2>1, <2>2
<1>6. \E j \in 1..(a + e - 1) : text[j] = Stop /\ \A k \in (j + 1)..(a + e) : text[k] \in White
  <2>1. PICK j \in 1..(e - 1) : part[j] = Stop /\ \A k \in (j + 1)..e : part[k] \in White
    BY <1>3
  <2>2. j \in 1..n /\ a + j \in 1..(a + e - 1)
    BY <1>1, <1>3
  <2>3. text[a + j] = Stop
    BY <1>2, <2>1, <2>2
  <2>4. ASSUME NEW k \in (a + j + 1)..(a + e) PROVE text[k] \in White
    <3>1. k - a \in (j + 1)..e /\ k - a \in 1..n /\ a + (k - a) = k
      BY <1>1, <1>3, <2>2
    <3> QED BY <1>2, <2>1, <3>1
  <2> QED BY <2>2, <2>3, <2>4
<1> QED BY <1>4, <1>5, <1>6 DEF Ends

LEMMA NoWhiteNoEnd ==
  ASSUME NEW text, \A i \in 2..Len(text) : text[i] \notin White
  PROVE  Ends(text) = {}
BY DEF Ends

\* Where the sentences end.
Bound(text, n) == IF n = 0 THEN 0 ELSE InOrder(Ends(text), Earlier(Ends(text)))[n]
Sentences(text) == Cardinality(Ends(text))

Bounded(text, m) ==
  /\ m \in Nat
  /\ \A n \in 0..m : Bound(text, n) \in Nat /\ Bound(text, n) <= Len(text)
  /\ Bound(text, 0) = 0
  /\ \A n \in 1..m : Bound(text, n - 1) < Bound(text, n) /\ Bound(text, n) \in Ends(text)
  /\ \A e \in Ends(text) : \A n \in 1..m : ~(Bound(text, n - 1) < e /\ e < Bound(text, n))
  /\ \A e \in Ends(text) : e <= Bound(text, m)

LEMMA BoundsOfSentences ==
  ASSUME NEW text \in Seq(Chars)
  PROVE  /\ Bounded(text, Sentences(text))
         /\ DOMAIN InOrder(Ends(text), Earlier(Ends(text))) = 1..Sentences(text)
<1> DEFINE E == Ends(text)
           R == Earlier(E)
           row == InOrder(E, R)
           m == Sentences(text)
<1>1. Len(text) \in Nat /\ E \subseteq 2..Len(text)
  BY LenProperties DEF Ends
<1>2. IsFiniteSet(E)
  <2> DEFINE a == 2
             n == Len(text)
  <2>1. a \in Int /\ n \in Int /\ E \subseteq a..n
    BY <1>1
  <2> HIDE DEF a, n, E
  <2> QED BY <2>1, FS_Interval, FS_Subset
<1>3. \A x \in E : x \in Nat /\ 2 <= x /\ x <= Len(text)
  BY <1>1
<1>4. E \subseteq Int /\ \A x, y \in E : <<x, y>> \in R <=> x < y
  BY <1>3 DEF Earlier
<1>5. m = Cardinality(E)
  BY DEF Sentences
<1>5a. \A n : Bound(text, n) = IF n = 0 THEN 0 ELSE row[n]
  BY DEF Bound
<1> HIDE DEF E, R, row, m
<1>6. Orders(R, E)
  BY <1>4 DEF Orders
<1>7. /\ row \in Seq(E) /\ DOMAIN row = 1..m /\ Len(row) = m /\ m \in Nat
      /\ \A x \in E : \E i \in 1..m : row[i] = x
  BY <1>2, <1>5, <1>6, InOrderFacts DEF row
<1>8. \A i \in 1..m : row[i] \in E
  BY <1>7, ElementOfSeq
<1>9. ASSUME NEW i \in 1..m, NEW j \in 1..m, i < j PROVE row[i] < row[j]
  <2>1. <<row[i], row[j]>> \in R
    BY <1>2, <1>5, <1>6, <1>9, InOrderAscends DEF row
  <2> QED BY <1>4, <1>8, <2>1
<1>10. \A n \in 0..m : n = 0 \/ n \in 1..m
  BY <1>7
<1>11. \A n \in 1..m : n # 0 /\ n \in Nat /\ (n = 1 \/ n - 1 \in 1..m) /\ n - 1 < n
  BY <1>7
<1>12. \A n \in 0..m : Bound(text, n) \in Nat /\ Bound(text, n) <= Len(text)
  <2> SUFFICES ASSUME NEW n \in 0..m PROVE Bound(text, n) \in Nat /\ Bound(text, n) <= Len(text)
    OBVIOUS
  <2>1. CASE n = 0
    BY <1>1, <1>5a, <2>1
  <2>2. CASE n \in 1..m /\ n # 0
    BY <1>3, <1>5a, <1>8, <2>2
  <2> QED BY <1>10, <2>1, <2>2
<1>13. ASSUME NEW n \in 1..m PROVE Bound(text, n - 1) < Bound(text, n) /\ Bound(text, n) \in E
  <2>1. Bound(text, n) = row[n] /\ row[n] \in E
    BY <1>5a, <1>8, <1>11
  <2>2. CASE n = 1
    BY <1>3, <1>5a, <2>1, <2>2
  <2>3. CASE n # 1
    <3>1. n - 1 \in 1..m /\ n - 1 < n
      BY <1>11, <2>3
    <3>2. n - 1 # 0
      BY <1>11, <2>3
    <3> QED BY <1>5a, <1>9, <2>1, <3>1, <3>2
  <2> QED BY <2>2, <2>3
<1>14. ASSUME NEW e \in E
       PROVE  /\ \A n \in 1..m : ~(Bound(text, n - 1) < e /\ e < Bound(text, n))
              /\ e <= Bound(text, m)
  <2>1. PICK i \in 1..m : row[i] = e
    BY <1>7
  <2>2. m # 0 /\ m \in 1..m /\ e \in Nat /\ i \in Nat
    BY <1>3, <1>7
  <2>3. e <= Bound(text, m)
    <3>1. i = m \/ i < m
      BY <1>7
    <3>2. row[m] \in Nat
      BY <1>3, <1>8, <2>2
    <3> QED BY <1>5a, <1>9, <2>1, <2>2, <3>1, <3>2
  <2>4. ASSUME NEW n \in 1..m, Bound(text, n - 1) < e, e < Bound(text, n) PROVE FALSE
    <3>1. Bound(text, n) = row[n] /\ row[n] \in Nat /\ n \in Nat
      BY <1>3, <1>5a, <1>8, <1>11
    <3>2. i < n
      <4>1. ~(n < i) /\ n # i
        BY <1>9, <2>1, <2>2, <2>4, <3>1
      <4> QED BY <2>2, <3>1, <4>1
    <3>3. n # 1 /\ n - 1 \in 1..m /\ i <= n - 1 /\ n - 1 # 0
      BY <1>11, <2>2, <3>2
    <3>4. Bound(text, n - 1) = row[n - 1] /\ row[n - 1] \in Nat
      BY <1>3, <1>5a, <1>8, <3>3
    <3>5. i = n - 1 \/ i < n - 1
      BY <2>2, <3>1, <3>3
    <3> QED BY <1>9, <2>1, <2>2, <2>4, <3>3, <3>4, <3>5
  <2> QED BY <2>3, <2>4
<1>15. Bound(text, 0) = 0
  BY <1>5a
<1> QED BY <1>7, <1>12, <1>13, <1>14, <1>15 DEF Bounded, E, R, row, m

\* The sentences and the rest are the text; a sentence ends where it stops and
\* nowhere before, and the rest holds no end.
Sentence(piece) ==
  /\ piece \in Seq(Chars) /\ Len(piece) # 0
  /\ \A e \in Ends(piece) : e = Len(piece)
  /\ piece[Len(piece)] \in White

LEMMA SplitFacts ==
  ASSUME NEW text \in Seq(Chars)
  PROVE  LET s == Split(text)
         IN  /\ s.sentences \in Seq(Seq(Chars))
             /\ \A n \in 1..Len(s.sentences) : Sentence(s.sentences[n])
             /\ s.rest \in Seq(Chars) /\ Ends(s.rest) = {}
             /\ FlattenSeq(s.sentences) \o s.rest = text
<1> DEFINE cuts == InOrder(Ends(text), Earlier(Ends(text)))
           m == Sentences(text)
           b(n) == Bound(text, n)
           pieces == [n \in 1..m |-> Part(text, b(n - 1), b(n))]
           rest == Part(text, b(m), Len(text))
<1>1. Bounded(text, m) /\ DOMAIN cuts = 1..m
  BY BoundsOfSentences
<1>2. m \in Nat /\ Len(text) \in Nat /\ b(0) = 0 /\ m \in 0..m
  BY <1>1, LenProperties DEF Bounded
<1>3. /\ \A n \in 0..m : b(n) \in Nat /\ b(n) <= Len(text)
      /\ \A n \in 1..m : b(n - 1) < b(n) /\ b(n) \in Ends(text)
      /\ \A e \in Ends(text) : \A n \in 1..m : ~(b(n - 1) < e /\ e < b(n))
      /\ \A e \in Ends(text) : e <= b(m)
  BY <1>1 DEF Bounded
<1>4. \A n \in 1..m : n \in Nat /\ n # 0 /\ n - 1 \in 0..m /\ n \in 0..m /\ (n = 1 <=> n - 1 = 0)
  BY <1>2
<1>5. Split(text) = [sentences |-> pieces, rest |-> rest]
  <2>1. Len(cuts) = m
    BY <1>1, <1>2, BoundsOfSentences
  <2>2. \A n \in 1..m : b(n) = cuts[n] /\ b(n - 1) = IF n = 1 THEN 0 ELSE cuts[n - 1]
    BY <1>4 DEF Bound
  <2>3. \A n \in 1..m : (IF n = 1 THEN 1 ELSE cuts[n - 1] + 1) = b(n - 1) + 1
    BY <2>2
  <2>4. (IF m + 1 = 1 THEN 1 ELSE cuts[(m + 1) - 1] + 1) = b(m) + 1
    <3>1. (m + 1 = 1 <=> m = 0) /\ (m + 1) - 1 = m
      BY <1>2
    <3> QED BY <3>1 DEF Bound
  <2> HIDE DEF b, m
  <2>5. [n \in 1..m |-> SubSeq(text, IF n = 1 THEN 1 ELSE cuts[n - 1] + 1, cuts[n])] = pieces
    BY <2>2, <2>3 DEF Part
  <2>6. SubSeq(text, IF m + 1 = 1 THEN 1 ELSE cuts[(m + 1) - 1] + 1, Len(text)) = rest
    BY <2>4 DEF Part
  <2> HIDE DEF pieces, rest
  <2> QED BY <1>1, <2>1, <2>5, <2>6 DEF Split
<1> HIDE DEF m, b
<1>6. ASSUME NEW n \in 1..m
      PROVE  Sentence(pieces[n]) /\ pieces[n] \in Seq(Chars)
  <2> DEFINE lo == b(n - 1)
             hi == b(n)
             piece == Part(text, lo, hi)
  <2>1. lo \in Nat /\ hi \in Nat /\ lo < hi /\ lo <= hi /\ hi <= Len(text) /\ hi \in Ends(text)
        /\ \A e \in Ends(text) : ~(lo < e /\ e < hi)
    BY <1>3, <1>4
  <2>2. pieces[n] = piece
    OBVIOUS
  <2> HIDE DEF lo, hi, pieces
  <2>3. piece \in Seq(Chars) /\ Len(piece) = hi - lo /\ \A i \in 1..(hi - lo) : piece[i] = text[lo + i]
    BY <2>1, PartFacts
  <2>4. hi - lo \in 1..(hi - lo) /\ lo + (hi - lo) = hi /\ hi - lo # 0
    BY <2>1
  <2>5. text[hi] \in White
    BY <2>1 DEF Ends
  <2>6. ASSUME NEW e \in Ends(piece) PROVE e = Len(piece)
    <3> SUFFICES ASSUME e # hi - lo PROVE FALSE
      BY <2>3
    <3>1. lo <= hi /\ e \in Ends(Part(text, lo, hi)) /\ (e # hi - lo \/ hi = Len(text))
      BY <2>1
    <3>2. lo + e \in Ends(text)
      <4> HIDE DEF piece
      <4> QED BY <2>1, <3>1, EndsOfPart
    <3>3. e \in 2..(hi - lo)
      <4>1. e \in 2..Len(piece)
        BY DEF Ends
      <4> QED BY <2>3, <4>1
    <3>4. lo < lo + e /\ lo + e < hi
      BY <2>1, <3>3
    <3> QED BY <2>1, <3>2, <3>4
  <2> HIDE DEF piece
  <2> QED BY <2>2, <2>3, <2>4, <2>5, <2>6 DEF Sentence
<1>7. pieces \in Seq(Seq(Chars)) /\ Len(pieces) = m /\ \A n \in 1..m : pieces[n] = Part(text, b(n - 1), b(n))
  <2>1. \A n \in 1..m : pieces[n] = Part(text, b(n - 1), b(n))
    OBVIOUS
  <2>2. pieces \in [1..m -> Seq(Chars)]
    <3>1. pieces = [n \in 1..m |-> pieces[n]]
      OBVIOUS
    <3> HIDE DEF pieces
    <3> QED BY <1>6, <3>1
  <2> HIDE DEF pieces
  <2>3. pieces \in Seq(Seq(Chars))
    BY <1>2, <2>2, SeqDef
  <2> QED BY <1>2, <2>1, <2>2, <2>3, LenProperties
<1> HIDE DEF pieces
<1>8. rest \in Seq(Chars) /\ Ends(rest) = {}
  <2> DEFINE lo == b(m)
             hi == Len(text)
  <2>1. lo \in Nat /\ lo <= hi /\ hi \in Nat /\ \A e \in Ends(text) : e <= lo
    BY <1>2, <1>3
  <2>2. rest = Part(text, lo, hi)
    OBVIOUS
  <2> HIDE DEF rest, lo
  <2>3. rest \in Seq(Chars) /\ Len(rest) \in Nat
    <3>1. hi <= Len(text)
      BY <2>1
    <3> HIDE DEF hi
    <3>2. rest \in Seq(Chars)
      BY <2>1, <2>2, <3>1, PartFacts
    <3> QED BY <3>2, LenProperties
  <2>4. ASSUME NEW e \in Ends(rest) PROVE FALSE
    <3>1. e \in Ends(Part(text, lo, hi)) /\ (e # hi - lo \/ hi = Len(text)) /\ hi <= Len(text)
      BY <2>1, <2>2
    <3> HIDE DEF hi
    <3>2. lo + e \in Ends(text)
      BY <2>1, <3>1, EndsOfPart
    <3>3. e \in 2..Len(rest)
      BY DEF Ends
    <3> QED BY <2>1, <2>3, <3>2, <3>3
  <2> QED BY <2>3, <2>4
<1>9. FlattenSeq(pieces) = Part(text, 0, b(m))
  <2>1. PICK f : Joins(f, pieces, Chars)
    BY <1>7, JoinsExists
  <2>2. FlattenSeq(pieces) = f[m]
    BY <1>7, <2>1, FlattenJoins
  <2> DEFINE P == {n \in Nat : n <= m => f[n] = Part(text, 0, b(n))}
  <2>3. 0 \in P
    <3>1. f[0] = << >> /\ b(0) = 0
      BY <1>2, <2>1 DEF Joins
    <3> QED BY <3>1, PartNone
  <2>4. ASSUME NEW n \in Nat, n \in P PROVE n + 1 \in P
    <3> SUFFICES ASSUME n + 1 <= m PROVE f[n + 1] = Part(text, 0, b(n + 1))
      OBVIOUS
    <3>1. f[n] = Part(text, 0, b(n)) /\ n + 1 \in 1..m /\ (n + 1) - 1 = n /\ n \in 0..m /\ n + 1 \in 0..m
      BY <1>2, <2>4
    <3>2. f[n + 1] = f[n] \o pieces[n + 1]
      BY <1>7, <2>1, <3>1 DEF Joins
    <3>3. pieces[n + 1] = Part(text, b(n), b(n + 1))
      BY <1>7, <3>1
    <3> DEFINE zero == 0
               lo == b(n)
               hi == b(n + 1)
    <3>4. zero \in Nat /\ lo \in Nat /\ hi \in Nat /\ zero <= lo /\ lo <= hi /\ hi <= Len(text)
      BY <1>3, <3>1
    <3> HIDE DEF zero, lo, hi, P
    <3>5. Part(text, zero, lo) \o Part(text, lo, hi) = Part(text, zero, hi)
      BY <3>4, PartsJoin
    <3> QED BY <3>1, <3>2, <3>3, <3>5 DEF zero, lo, hi
  <2> HIDE DEF P
  <2>5. m \in P
    BY <1>2, <2>3, <2>4, Induction
  <2> QED BY <1>2, <2>2, <2>5 DEF P
<1>10. FlattenSeq(pieces) \o rest = text
  <2> DEFINE zero == 0
             lo == b(m)
             hi == Len(text)
  <2>1. zero \in Nat /\ lo \in Nat /\ hi \in Nat /\ zero <= lo /\ lo <= hi /\ hi <= Len(text)
    BY <1>2, <1>3
  <2>2. FlattenSeq(pieces) = Part(text, zero, lo) /\ rest = Part(text, lo, hi)
    BY <1>9
  <2> HIDE DEF zero, lo, hi, rest
  <2>3. Part(text, zero, lo) \o Part(text, lo, hi) = Part(text, zero, hi)
    BY <2>1, PartsJoin
  <2>4. Part(text, zero, hi) = text
    BY PartAll DEF zero, hi
  <2> QED BY <2>2, <2>3, <2>4
<1> HIDE DEF rest
<1> QED BY <1>5, <1>6, <1>7, <1>8, <1>10

LEMMA CutFacts ==
  ASSUME NEW text \in Seq(Chars)
  PROVE  LET c == Cut(text)
         IN  /\ c \in Nat /\ c <= Len(text)
             /\ c # 0 => /\ c \in 2..Len(text) /\ text[c] = Space
                         /\ \A i \in (c + 1)..Len(text) : text[i] # Space
<1> DEFINE spaces == {i \in 2..Len(text) : text[i] = Space}
           n == Len(text)
<1>1. n \in Nat
  BY LenProperties
<1>2. spaces \in SUBSET (0..n)
  BY <1>1
<1>3. Cut(text) = IF n < MaxChars \/ spaces = {} THEN 0 ELSE Max(spaces)
  BY DEF Cut
<1>4. CASE spaces = {} \/ Cut(text) = 0
  BY <1>1, <1>3, <1>4
<1>5. CASE spaces # {} /\ Cut(text) = Max(spaces)
  <2> HIDE DEF n, spaces
  <2>1. Max(spaces) \in spaces /\ \A i \in spaces : Max(spaces) >= i
    BY <1>1, <1>2, <1>5, MaxProperties
  <2> DEFINE c == Max(spaces)
  <2> HIDE DEF c
  <2>2. c \in 2..n /\ text[c] = Space
    BY <2>1 DEF spaces, n, c
  <2>3. \A i \in (c + 1)..n : text[i] # Space
    <3> SUFFICES ASSUME NEW i \in (c + 1)..n, text[i] = Space PROVE FALSE
      OBVIOUS
    <3>1. i \in 2..n
      BY <1>1, <2>2
    <3>2. i \in spaces
      BY <3>1 DEF spaces, n
    <3>3. c >= i
      BY <2>1, <3>2 DEF c
    <3> QED BY <2>2, <3>3
  <2>4. Cut(text) = c
    BY <1>5 DEF c
  <2> QED BY <1>1, <2>2, <2>3, <2>4 DEF n
<1> QED BY <1>3, <1>4, <1>5

LEMMA NothingToCut ==
  ASSUME NEW text \in Seq(Chars), \A i \in 2..Len(text) : text[i] # Space
  PROVE  Cut(text) = 0
<1>1. {i \in 2..Len(text) : text[i] = Space} = {}
  OBVIOUS
<1> QED BY <1>1 DEF Cut

LEMMA NothingInNone ==
  ASSUME NEW none, none = << >>
  PROVE  Ends(none) = {} /\ Cut(none) = 0
<1>1. none \in Seq(Chars) /\ Len(none) = 0
  OBVIOUS
<1>2. \A i \in 2..Len(none) : none[i] # Space /\ none[i] \notin White
  BY <1>1
<1> QED BY <1>1, <1>2, NothingToCut, NoWhiteNoEnd

\* What a feed hands on of a text, and what it leaves.
HandedOn(text) ==
  LET rest == Split(text).rest
  IN  Split(text).sentences \o IF Cut(rest) = 0 THEN << >> ELSE <<SubSeq(rest, 1, Cut(rest))>>
LeftOver(text) ==
  LET rest == Split(text).rest IN SubSeq(rest, Cut(rest) + 1, Len(rest))

LEMMA FeedFacts ==
  ASSUME NEW text \in Seq(Chars)
  PROVE  /\ HandedOn(text) \in Seq(Seq(Chars))
         /\ \A i \in 1..Len(HandedOn(text)) : Sentence(HandedOn(text)[i])
         /\ LeftOver(text) \in Seq(Chars) /\ Ends(LeftOver(text)) = {} /\ Cut(LeftOver(text)) = 0
         /\ FlattenSeq(HandedOn(text)) \o LeftOver(text) = text
<1> DEFINE sentences == Split(text).sentences
           rest == Split(text).rest
           cut == Cut(rest)
           n == Len(rest)
           first == Part(rest, 0, cut)
           left == Part(rest, cut, n)
<1>1. /\ sentences \in Seq(Seq(Chars)) /\ \A i \in 1..Len(sentences) : Sentence(sentences[i])
      /\ rest \in Seq(Chars) /\ Ends(rest) = {}
      /\ FlattenSeq(sentences) \o rest = text
  BY SplitFacts
<1>2. LeftOver(text) = left /\ HandedOn(text) = sentences \o IF cut = 0 THEN << >> ELSE <<first>>
  BY DEF LeftOver, HandedOn, Part
<1> HIDE DEF sentences, rest
<1>3. /\ cut \in Nat /\ cut <= n /\ n \in Nat
      /\ cut # 0 => /\ cut \in 2..n /\ rest[cut] = Space
                    /\ \A i \in (cut + 1)..n : rest[i] # Space
  BY <1>1, CutFacts, LenProperties
<1>4. CASE cut = 0
  <2>1. left = rest
    <3>1. Part(rest, 0, Len(rest)) = rest
      BY <1>1, PartAll
    <3> QED BY <1>4, <3>1
  <2>2. sentences \o << >> = sentences
    BY <1>1, ConcatEmptySeq
  <2>3. HandedOn(text) = sentences /\ LeftOver(text) = rest
    BY <1>2, <1>4, <2>1, <2>2
  <2> QED BY <1>1, <1>4, <2>3
<1>5. CASE cut # 0
  <2> DEFINE zero == 0
             k == cut
             m == n
  <2>1. /\ zero \in Nat /\ k \in Nat /\ m \in Nat /\ zero <= k /\ k <= m /\ m <= Len(rest) /\ k <= Len(rest)
        /\ k \in 2..m /\ k # 0 /\ k - zero = k
    BY <1>3, <1>5
  <2>2. first = Part(rest, zero, k) /\ left = Part(rest, k, m)
    OBVIOUS
  <2>3. rest[k] = Space /\ \A i \in (k + 1)..m : rest[i] # Space
    BY <1>3, <1>5
  <2>4. Part(rest, zero, m) = rest
    BY <1>1, PartAll
  <2>5. HandedOn(text) = sentences \o <<first>> /\ LeftOver(text) = left
    BY <1>2, <1>5
  <2>6. m = Len(rest)
    OBVIOUS
  <2>6a. \A e : zero + e = 0 + e
    OBVIOUS
  <2> HIDE DEF zero, k, m, cut, n, first, left
  <2>7. /\ first \in Seq(Chars) /\ Len(first) = k /\ \A i \in 1..k : first[i] = rest[zero + i]
    <3>1. /\ Part(rest, zero, k) \in Seq(Chars) /\ Len(Part(rest, zero, k)) = k - zero
          /\ \A i \in 1..(k - zero) : Part(rest, zero, k)[i] = rest[zero + i]
      <4>1. rest \in Seq(Chars) /\ zero \in Nat /\ k \in Nat /\ zero <= k /\ k <= Len(rest)
        BY <1>1, <2>1
      <4> QED BY ONLY <4>1, PartFacts
    <3> QED BY <2>1, <2>2, <3>1
  <2>8. left \in Seq(Chars) /\ Len(left) = m - k /\ \A i \in 1..(m - k) : left[i] = rest[k + i]
    <3>1. /\ Part(rest, k, m) \in Seq(Chars) /\ Len(Part(rest, k, m)) = m - k
          /\ \A i \in 1..(m - k) : Part(rest, k, m)[i] = rest[k + i]
      BY <1>1, <2>1, PartFacts
    <3> QED BY <2>2, <3>1
  <2>9. Sentence(first)
    <3>1. first[k] = Space
      <4>1. k \in 1..k /\ zero + k = k
        BY <2>1 DEF zero
      <4> QED BY <2>3, <2>7, <4>1
    <3>2. ASSUME NEW e \in Ends(first), e # k PROVE FALSE
      <4>1. e \in Ends(Part(rest, zero, k)) /\ (e # k - zero \/ k = Len(rest))
        BY <2>1, <2>2, <3>2
      <4>2. zero + e \in Ends(rest)
        BY <1>1, <2>1, <4>1, EndsOfPart
      <4> QED BY <1>1, <4>2
    <3>3. first[k] \in White
      BY <3>1 DEF White
    <3> QED BY <2>1, <2>7, <3>2, <3>3 DEF Sentence
  <2>10. Ends(left) = {} /\ Cut(left) = 0
    <3>1. \A i \in 2..Len(left) : i \in 1..(m - k) /\ k + i \in (k + 1)..m
      BY <2>1, <2>8
    <3>2. \A i \in 2..Len(left) : left[i] # Space
      BY <2>3, <2>8, <3>1
    <3>3. ASSUME NEW e \in Ends(left) PROVE FALSE
      <4>1. e \in Ends(Part(rest, k, m)) /\ (e # m - k \/ m = Len(rest)) /\ m <= Len(rest)
        BY <2>1, <2>2, <2>6
      <4>2. k + e \in Ends(rest)
        BY <1>1, <2>1, <4>1, EndsOfPart
      <4> QED BY <1>1, <4>2
    <3> QED BY <2>8, <3>2, <3>3, NothingToCut
  <2> DEFINE more == Append(sentences, first)
  <2>11. sentences \o <<first>> = more
    BY <1>1, <2>7, AppendIsConcat
  <2>12. /\ more \in Seq(Seq(Chars)) /\ Len(more) = Len(sentences) + 1 /\ more[Len(sentences) + 1] = first
         /\ \A i \in 1..Len(sentences) : more[i] = sentences[i]
         /\ Len(sentences) \in Nat
    BY <1>1, <2>7, AppendProperties, LenProperties
  <2>13. \A i \in 1..Len(more) : Sentence(more[i])
    <3>1. \A i \in 1..Len(more) : i = Len(sentences) + 1 \/ i \in 1..Len(sentences)
      BY <2>12
    <3> HIDE DEF more
    <3> QED BY <1>1, <2>9, <2>12, <3>1
  <2>14. FlattenSeq(more) = FlattenSeq(sentences) \o first /\ FlattenSeq(sentences) \in Seq(Chars)
    BY <1>1, <2>7, FlattenAppend
  <2>15. FlattenSeq(more) \o left = text
    <3> DEFINE flat == FlattenSeq(sentences)
    <3>1. flat \in Seq(Chars)
      BY <2>14
    <3> HIDE DEF flat, more
    <3>2. Then(Then(flat, first), left) = Then(flat, Then(first, left))
      BY <2>7, <2>8, <3>1, ThenThen
    <3>3. first \o left = rest
      BY <1>1, <2>1, <2>2, <2>4, PartsJoin
    <3> QED BY <1>1, <2>14, <3>2, <3>3 DEF flat, Then
  <2> HIDE DEF more
  <2> QED BY <2>5, <2>8, <2>10, <2>11, <2>12, <2>13, <2>15
<1> QED BY <1>4, <1>5

-----------------------------------------------------------------------------
(* The stream. *)

StreamSpec == StreamInit /\ [][StreamNext]_streamVars

Verdicts == {"kept", "redacted", "withheld"}
Events == [text : Seq(Chars), verdict : Verdicts, ttft : BOOLEAN]

\* The pieces a stream was cut into, and what is left of it.
Exact(pieces, left, all, open) ==
  /\ pieces \in Seq(Seq(Chars))
  /\ FlattenSeq(pieces) \o left = all
  /\ \A i \in 1..Len(pieces) :
       /\ \A e \in Ends(pieces[i]) : e = Len(pieces[i])
       /\ pieces[i][Len(pieces[i])] \in White \/ (~open /\ i = Len(pieces))
  /\ Ends(left) = {} /\ Cut(left) = 0

StreamInv ==
  /\ received \in Seq(Chars) /\ buffer \in Seq(Chars)
  /\ pending \in Seq(Seq(Chars)) /\ events \in Seq(Events)
  /\ stream \in {"open", "flushed", "done", "abandoned"}
  /\ stream \in {"flushed", "done"} => buffer = << >>
  /\ stream = "done" => pending = << >>
  /\ Exact(Checked \o pending, buffer, received, stream = "open")

LEMMA CheckedFacts ==
  ASSUME events \in Seq(Events)
  PROVE  /\ Checked \in Seq(Seq(Chars)) /\ Len(Checked) = Len(events) /\ Len(events) \in Nat
         /\ \A i \in 1..Len(events) : Checked[i] = events[i].text
<1> DEFINE n == Len(events)
<1>1. n \in Nat /\ DOMAIN events = 1..n
  BY LenProperties
<1>2. \A i \in 1..n : events[i].text \in Seq(Chars)
  <2>1. \A i \in 1..n : events[i] \in Events
    BY ElementOfSeq
  <2> QED BY <2>1 DEF Events
<1>3. Checked = [i \in 1..n |-> events[i].text]
  BY <1>1 DEF Checked
<1> HIDE DEF n
<1>4. Checked \in [1..n -> Seq(Chars)] /\ \A i \in 1..n : Checked[i] = events[i].text
  BY <1>2, <1>3
<1>5. Checked \in Seq(Seq(Chars))
  BY <1>1, <1>4, SeqDef
<1> QED BY <1>1, <1>4, <1>5, LenProperties DEF n

LEMMA ExactIsExact == StreamInv => StreamIsExact
<1> SUFFICES ASSUME StreamInv PROVE StreamIsExact
  OBVIOUS
<1> DEFINE pieces == Checked \o pending
<1>1. Exact(pieces, buffer, received, stream = "open")
  BY DEF StreamInv
<1>2. Checked \in Seq(Seq(Chars)) /\ pending \in Seq(Seq(Chars))
  BY CheckedFacts DEF StreamInv
<1>3. stream = "done" => FlattenSeq(Checked) = received
  <2> SUFFICES ASSUME stream = "done" PROVE FlattenSeq(Checked) = received
    OBVIOUS
  <2>1. pending = << >> /\ buffer = << >>
    BY DEF StreamInv
  <2>2. Checked \o << >> = Checked
    BY <1>2, ConcatEmptySeq
  <2>3. FlattenSeq(Checked) \in Seq(Chars)
    <3>1. << >> \in Seq(Chars)
      OBVIOUS
    <3> QED BY <1>2, <3>1, FlattenAppend
  <2>4. FlattenSeq(Checked) \o << >> = FlattenSeq(Checked)
    BY <2>3, ConcatEmptySeq
  <2> QED BY <1>1, <2>1, <2>2, <2>4 DEF Exact
<1>4. DOMAIN pieces = 1..Len(pieces)
  <2>1. pieces \in Seq(Seq(Chars))
    BY <1>1 DEF Exact
  <2> HIDE DEF pieces
  <2> QED BY <2>1, LenProperties
<1>5. /\ FlattenSeq(pieces) \o buffer = received
      /\ \A i \in DOMAIN pieces :
           /\ \A e \in Ends(pieces[i]) : e = Len(pieces[i])
           /\ Last(pieces[i]) \in White \/ (stream # "open" /\ i = Len(pieces))
      /\ Ends(buffer) = {} /\ Cut(buffer) = 0
  <2> HIDE DEF pieces
  <2> QED BY <1>1, <1>4 DEF Exact, Last
<1> QED BY <1>3, <1>5 DEF StreamIsExact

LEMMA ExactCloses ==
  ASSUME NEW pieces, NEW left, NEW all, NEW open, Exact(pieces, left, all, open)
  PROVE  Exact(pieces, left, all, FALSE)
BY DEF Exact

LEMMA ExactGrows ==
  ASSUME NEW pieces \in Seq(Seq(Chars)), NEW left \in Seq(Chars), NEW all, Exact(pieces, left, all, TRUE),
         NEW chunk \in Seq(Chars), NEW text \in Seq(Chars), text = left \o chunk
  PROVE  Exact(pieces \o HandedOn(text), LeftOver(text), all \o chunk, TRUE)
<1> DEFINE new == HandedOn(text)
           rest == LeftOver(text)
           T == Seq(Chars)
<1>1. /\ new \in Seq(T) /\ \A i \in 1..Len(new) : Sentence(new[i])
      /\ rest \in Seq(Chars) /\ Ends(rest) = {} /\ Cut(rest) = 0
      /\ FlattenSeq(new) \o rest = text
  BY FeedFacts
<1> HIDE DEF new, rest
<1>2. /\ FlattenSeq(pieces) \o left = all
      /\ \A i \in 1..Len(pieces) : /\ \A e \in Ends(pieces[i]) : e = Len(pieces[i])
                                   /\ pieces[i][Len(pieces[i])] \in White
  BY DEF Exact
<1> DEFINE more == pieces \o new
<1>3. /\ more \in Seq(T) /\ Len(more) = Len(pieces) + Len(new) /\ Len(pieces) \in Nat /\ Len(new) \in Nat
      /\ \A i \in 1..Len(pieces) : more[i] = pieces[i]
      /\ \A i \in 1..Len(new) : more[Len(pieces) + i] = new[i]
  BY <1>1, ConcatElements
<1>4. FlattenSeq(more) = FlattenSeq(pieces) \o FlattenSeq(new)
  BY <1>1, FlattenConcat
<1>5. FlattenSeq(pieces) \in Seq(Chars) /\ FlattenSeq(new) \in Seq(Chars)
  <2>1. << >> \in Seq(Chars)
    OBVIOUS
  <2> QED BY <1>1, <2>1, FlattenAppend
<1> HIDE DEF more
<1>6. FlattenSeq(more) \o rest = all \o chunk
  <2> DEFINE a == FlattenSeq(pieces)
             b == FlattenSeq(new)
  <2>1. a \in Seq(Chars) /\ b \in Seq(Chars)
    BY <1>5
  <2>2. FlattenSeq(more) = a \o b /\ a \o left = all /\ b \o rest = left \o chunk
    BY <1>1, <1>2, <1>4
  <2> HIDE DEF a, b
  <2>3. Then(Then(a, b), rest) = Then(a, Then(b, rest)) /\ Then(Then(a, left), chunk) = Then(a, Then(left, chunk))
    BY <1>1, <2>1, ThenThen
  <2> QED BY <2>2, <2>3 DEF Then
<1>7. ASSUME NEW i \in 1..Len(more)
      PROVE  /\ \A e \in Ends(more[i]) : e = Len(more[i])
             /\ more[i][Len(more[i])] \in White
  <2>1. CASE i \in 1..Len(pieces)
    BY <1>2, <1>3, <2>1
  <2>2. CASE i \notin 1..Len(pieces)
    <3>1. i - Len(pieces) \in 1..Len(new) /\ Len(pieces) + (i - Len(pieces)) = i
      BY <1>3, <2>2
    <3>2. more[i] = new[i - Len(pieces)] /\ Sentence(new[i - Len(pieces)])
      BY <1>1, <1>3, <3>1
    <3> QED BY <3>2 DEF Sentence
  <2> QED BY <2>1, <2>2
<1> QED BY <1>1, <1>3, <1>6, <1>7 DEF Exact, more, new, rest

LEMMA ExactFlushes ==
  ASSUME NEW pieces \in Seq(Seq(Chars)), NEW left \in Seq(Chars), NEW all, Exact(pieces, left, all, TRUE)
  PROVE  Exact(pieces \o <<left>>, << >>, all, FALSE)
<1> DEFINE T == Seq(Chars)
           more == Append(pieces, left)
           none == << >>
<1>1. more = pieces \o <<left>>
  BY AppendIsConcat
<1>2. /\ more \in Seq(T) /\ Len(more) = Len(pieces) + 1 /\ Len(pieces) \in Nat
      /\ \A i \in 1..Len(pieces) : more[i] = pieces[i]
      /\ more[Len(pieces) + 1] = left
  BY AppendProperties, LenProperties
<1>3. FlattenSeq(more) = FlattenSeq(pieces) \o left /\ FlattenSeq(pieces) \o left = all
      /\ FlattenSeq(pieces) \in Seq(Chars)
  BY FlattenAppend DEF Exact
<1> HIDE DEF more
<1>4. FlattenSeq(more) \o none = all
  <2>1. FlattenSeq(more) \in Seq(Chars)
    <3> DEFINE flat == FlattenSeq(pieces)
    <3>1. flat \in Seq(Chars) /\ FlattenSeq(more) = flat \o left
      BY <1>3
    <3> HIDE DEF flat
    <3> QED BY <3>1, ConcatProperties
  <2>2. FlattenSeq(more) \o << >> = FlattenSeq(more)
    BY <2>1, ConcatEmptySeq
  <2> QED BY <1>3, <2>2
<1>5. Ends(none) = {} /\ Cut(none) = 0
  BY NothingInNone
<1>6. ASSUME NEW i \in 1..Len(more)
      PROVE  /\ \A e \in Ends(more[i]) : e = Len(more[i])
             /\ more[i][Len(more[i])] \in White \/ i = Len(more)
  <2>1. CASE i \in 1..Len(pieces)
    BY <1>2, <2>1 DEF Exact
  <2>2. CASE i = Len(pieces) + 1
    <3>1. Ends(left) = {}
      BY DEF Exact
    <3> QED BY <1>2, <2>2, <3>1
  <2> QED BY <1>2, <2>1, <2>2
<1> HIDE DEF none
<1>7. Exact(more, none, all, FALSE)
  BY <1>2, <1>4, <1>5, <1>6 DEF Exact
<1> QED BY <1>1, <1>7 DEF none

\* The guard moves the first pending piece to the checked ones.
LEMMA GuardedMoves ==
  ASSUME NEW T, NEW s \in Seq(T), NEW t \in Seq(T), t # << >>
  PROVE  Append(s, Head(t)) \o Tail(t) = s \o t
<1> DEFINE h == Head(t)
           u == Tail(t)
           st == s \o t
           sh == Append(s, h)
           both == sh \o u
<1>1. h \in T /\ u \in Seq(T) /\ Len(u) = Len(t) - 1 /\ \A i \in 1..Len(u) : u[i] = t[i + 1]
  BY HeadTailProperties
<1>2. h = t[1]
  OBVIOUS
<1> HIDE DEF h, u
<1>3. sh \in Seq(T) /\ Len(sh) = Len(s) + 1 /\ sh[Len(s) + 1] = h /\ \A i \in 1..Len(s) : sh[i] = s[i]
  BY <1>1, AppendProperties
<1> HIDE DEF sh
<1>4. /\ both \in Seq(T) /\ Len(both) = Len(sh) + Len(u)
      /\ \A i \in 1..Len(sh) : both[i] = sh[i]
  BY <1>1, <1>3, ConcatElements
<1>4a. \A j \in 1..Len(u) : both[Len(sh) + j] = u[j]
  BY <1>1, <1>3, ConcatElements
<1>5. /\ st \in Seq(T) /\ Len(st) = Len(s) + Len(t) /\ Len(s) \in Nat /\ Len(t) \in Nat
      /\ \A i \in 1..Len(s) : st[i] = s[i]
      /\ \A i \in 1..Len(t) : st[Len(s) + i] = t[i]
  BY ConcatElements
<1> HIDE DEF both, st
<1>6. Len(t) # 0
  BY EmptySeq
<1>7. Len(both) = Len(st)
  BY <1>1, <1>3, <1>4, <1>5
<1>8. ASSUME NEW i \in 1..Len(both) PROVE both[i] = st[i]
  <2>1. CASE i \in 1..Len(s)
    <3>1. i \in 1..Len(sh)
      BY <1>3, <1>5, <2>1
    <3> QED BY <1>3, <1>4, <1>5, <2>1, <3>1
  <2>2. CASE i = Len(s) + 1
    <3>1. i \in 1..Len(sh) /\ both[i] = h
      BY <1>3, <1>4, <1>5, <2>2
    <3>2. 1 \in 1..Len(t)
      BY <1>5, <1>6
    <3>3. st[Len(s) + 1] = t[1]
      BY <1>5, <3>2
    <3> QED BY <1>2, <2>2, <3>1, <3>3
  <2>3. CASE i \notin 1..Len(s) /\ i # Len(s) + 1
    <3> DEFINE j == i - Len(sh)
    <3>1. /\ j \in 1..Len(u) /\ Len(sh) + j = i /\ j + 1 \in 1..Len(t) /\ Len(s) + (j + 1) = i
      BY <1>1, <1>3, <1>4, <1>5, <2>3
    <3> HIDE DEF j
    <3>2. both[i] = u[j] /\ u[j] = t[j + 1]
      BY <1>1, <1>4a, <3>1
    <3>3. st[i] = t[j + 1]
      BY <1>5, <3>1
    <3> QED BY <3>2, <3>3
  <2> QED BY <2>1, <2>2, <2>3
<1>9. both = st
  BY <1>4, <1>5, <1>7, <1>8, SeqEqual
<1> QED BY <1>9 DEF both, st, sh, h, u

LEMMA StreamStarts == StreamInit => StreamInv
<1> SUFFICES ASSUME StreamInit PROVE StreamInv
  OBVIOUS
<1> DEFINE none == << >>
           T == Seq(Chars)
<1>1. none \in Seq(Chars) /\ none \in Seq(T) /\ none \in Seq(Events) /\ Len(none) = 0
  OBVIOUS
<1>2. Checked = none
  BY DEF StreamInit, Checked
<1>3. none \o none = none
  OBVIOUS
<1>5. Ends(none) = {} /\ Cut(none) = 0
  BY NothingInNone
<1>6. FlattenSeq(none) = none
  BY FlattenNone
<1>7. received = none /\ buffer = none /\ pending = none /\ events = none /\ stream = "open"
  BY DEF StreamInit
<1> HIDE DEF none
<1>8. Exact(none, none, none, stream = "open")
  BY <1>1, <1>3, <1>5, <1>6 DEF Exact
<1> QED BY <1>1, <1>2, <1>3, <1>7, <1>8 DEF StreamInv

LEMMA StreamStep == StreamInv /\ [StreamNext]_streamVars => StreamInv'
<1> SUFFICES ASSUME StreamInv, [StreamNext]_streamVars PROVE StreamInv'
  OBVIOUS
<1> DEFINE T == Seq(Chars)
<1>0. /\ received \in Seq(Chars) /\ buffer \in Seq(Chars) /\ pending \in Seq(T) /\ events \in Seq(Events)
      /\ stream \in {"open", "flushed", "done", "abandoned"}
      /\ stream \in {"flushed", "done"} => buffer = << >>
      /\ stream = "done" => pending = << >>
      /\ Exact(Checked \o pending, buffer, received, stream = "open")
      /\ Checked \in Seq(T)
  BY CheckedFacts DEF StreamInv
<1>1. ASSUME NEW chunk \in Chunks, Feed(chunk) PROVE StreamInv'
  <2> DEFINE text == buffer \o chunk
  <2>1. chunk \in Seq(Chars)
    BY StreamAssumption
  <2>2. text \in Seq(Chars) /\ received \o chunk \in Seq(Chars)
    BY <1>0, <2>1, ConcatProperties
  <2>3. /\ stream = "open" /\ pending = << >> /\ received' = received \o chunk
        /\ pending' = HandedOn(text) /\ buffer' = LeftOver(text) /\ events' = events /\ stream' = stream
    BY <1>1 DEF Feed, HandedOn, LeftOver
  <2>4. Checked \o << >> = Checked
    BY <1>0, ConcatEmptySeq
  <2>5. Exact(Checked, buffer, received, TRUE)
    BY <1>0, <2>3, <2>4
  <2>6. text = buffer \o chunk
    OBVIOUS
  <2> HIDE DEF text
  <2>7. Exact(Checked \o HandedOn(text), LeftOver(text), received \o chunk, TRUE)
    BY <1>0, <2>1, <2>2, <2>5, <2>6, ExactGrows
  <2>8. HandedOn(text) \in Seq(T) /\ LeftOver(text) \in Seq(Chars)
    BY <2>2, FeedFacts
  <2>9. Checked' = Checked
    BY <2>3 DEF Checked
  <2> QED BY <1>0, <2>2, <2>3, <2>7, <2>8, <2>9 DEF StreamInv
<1>2. ASSUME Flush PROVE StreamInv'
  <2> DEFINE none == << >>
  <2>1. /\ stream = "open" /\ pending = none /\ pending' = IF buffer = none THEN none ELSE <<buffer>>
        /\ buffer' = none /\ stream' = "flushed" /\ received' = received /\ events' = events
    BY <1>2 DEF Flush
  <2>2. Checked \o none = Checked
    BY <1>0, ConcatEmptySeq
  <2>3. Exact(Checked, buffer, received, TRUE)
    BY <1>0, <2>1, <2>2
  <2>4. Checked' = Checked
    BY <2>1 DEF Checked
  <2>5. none \in Seq(Chars) /\ none \in Seq(T) /\ <<buffer>> \in Seq(T)
    BY <1>0
  <2>6. Exact(Checked \o <<buffer>>, none, received, FALSE)
    BY <1>0, <2>3, ExactFlushes
  <2>7. buffer = none => Exact(Checked, none, received, FALSE)
    BY <2>3, ExactCloses
  <2> HIDE DEF none
  <2>8. Exact(Checked' \o pending', buffer', received', FALSE)
    BY <2>1, <2>2, <2>4, <2>6, <2>7
  <2>9. (stream' = "open") = FALSE
    BY <2>1
  <2>10. pending' \in Seq(T) /\ buffer' \in Seq(Chars) /\ received' \in Seq(Chars) /\ events' \in Seq(Events)
    BY <1>0, <2>1, <2>5
  <2> QED BY <2>1, <2>8, <2>9, <2>10 DEF StreamInv, none
<1>3. ASSUME NEW verdict \in Verdicts, Guarded(verdict) PROVE StreamInv'
  <2> DEFINE event == [text |-> Head(pending), verdict |-> verdict,
               ttft |-> verdict # "withheld" /\ \A i \in DOMAIN events : events[i].verdict = "withheld"]
  <2>1. /\ pending # << >> /\ stream \in {"open", "flushed"} /\ pending' = Tail(pending)
        /\ events' = Append(events, event) /\ received' = received /\ buffer' = buffer /\ stream' = stream
    BY <1>3 DEF Guarded
  <2>2. Head(pending) \in Seq(Chars) /\ Tail(pending) \in Seq(T)
    BY <1>0, <2>1, HeadTailProperties
  <2>3. event \in Events /\ event.text = Head(pending)
    BY <2>2 DEF Events
  <2> HIDE DEF event
  <2>4. /\ events' \in Seq(Events) /\ Len(events') = Len(events) + 1 /\ events'[Len(events) + 1] = event
        /\ \A i \in 1..Len(events) : events'[i] = events[i]
    BY <1>0, <2>1, <2>3, AppendProperties
  <2>5. /\ Checked' \in Seq(T) /\ Len(Checked') = Len(events')
        /\ \A i \in 1..Len(events') : Checked'[i] = events'[i].text
    <3> DEFINE n == Len(events')
    <3>1. n \in Nat /\ DOMAIN events' = 1..n
      BY <2>4, LenProperties
    <3>2. \A i \in 1..n : events'[i].text \in Seq(Chars)
      <4>1. \A i \in 1..n : events'[i] \in Events
        BY <2>4, ElementOfSeq
      <4> QED BY <4>1 DEF Events
    <3>3. Checked' = [i \in 1..n |-> events'[i].text]
      BY <3>1 DEF Checked
    <3> HIDE DEF n
    <3>4. Checked' \in [1..n -> T] /\ \A i \in 1..n : Checked'[i] = events'[i].text
      BY <3>2, <3>3
    <3>5. Checked' \in Seq(T)
      BY <3>1, <3>4, SeqDef
    <3> QED BY <3>1, <3>4, <3>5, LenProperties DEF n
  <2>6. Checked' = Append(Checked, Head(pending))
    <3> DEFINE h == Head(pending)
               more == Append(Checked, h)
               now == Checked'
               n == Len(events)
    <3>1. Len(Checked) = n /\ n \in Nat /\ \A i \in 1..n : Checked[i] = events[i].text
      BY <1>0, CheckedFacts
    <3>2. h \in T
      BY <2>2
    <3> HIDE DEF h
    <3>3. more \in Seq(T) /\ Len(more) = n + 1 /\ more[n + 1] = h /\ \A i \in 1..n : more[i] = Checked[i]
      BY <1>0, <3>1, <3>2, AppendProperties
    <3>4. now \in Seq(T) /\ Len(now) = n + 1 /\ now[n + 1] = h /\ \A i \in 1..n : now[i] = Checked[i]
      BY <2>3, <2>4, <2>5, <3>1 DEF h
    <3>5. \A i \in 1..(n + 1) : i = n + 1 \/ i \in 1..n
      BY <3>1
    <3> HIDE DEF now, more, n
    <3>6. now = more
      BY <3>3, <3>4, <3>5, SeqEqual
    <3> QED BY <3>6 DEF now, more, h
  <2>7. Append(Checked, Head(pending)) \o Tail(pending) = Checked \o pending
    BY <1>0, <2>1, GuardedMoves
  <2>8. Exact(Checked' \o pending', buffer', received', stream' = "open")
    BY <1>0, <2>1, <2>6, <2>7
  <2>9. stream' # "done" /\ pending' \in Seq(T)
    BY <2>1, <2>2
  <2> QED BY <1>0, <2>1, <2>4, <2>8, <2>9 DEF StreamInv
<1>4. ASSUME Done PROVE StreamInv'
  <2>1. /\ stream = "flushed" /\ pending = << >> /\ stream' = "done"
        /\ received' = received /\ buffer' = buffer /\ pending' = pending /\ events' = events
    BY <1>4 DEF Done
  <2>2. Checked' = Checked
    BY <2>1 DEF Checked
  <2>3. (stream' = "open") = (stream = "open")
    BY <2>1
  <2> QED BY <1>0, <2>1, <2>2, <2>3 DEF StreamInv
<1>5. ASSUME Abandon PROVE StreamInv'
  <2>1. /\ stream' = "abandoned" /\ received' = received /\ buffer' = buffer /\ pending' = pending
        /\ events' = events
    BY <1>5 DEF Abandon
  <2>2. Checked' = Checked
    BY <2>1 DEF Checked
  <2>3. (stream' = "open") = FALSE
    BY <2>1
  <2>4. Exact(Checked \o pending, buffer, received, FALSE)
    BY <1>0, ExactCloses
  <2> QED BY <1>0, <2>1, <2>2, <2>3, <2>4 DEF StreamInv
<1>6. CASE UNCHANGED streamVars
  BY <1>0, <1>6 DEF StreamInv, streamVars, Checked
<1> QED BY <1>1, <1>2, <1>3, <1>4, <1>5, <1>6 DEF StreamNext, Verdicts

\* Whatever the provider sends and however the guard answers, the sentences
\* are cut exactly.
THEOREM StreamsAreExact == StreamSpec => []StreamIsExact
<1>1. StreamInit => StreamInv
  BY StreamStarts
<1>2. StreamInv /\ [StreamNext]_streamVars => StreamInv'
  BY StreamStep
<1>3. StreamInv => StreamIsExact
  BY ExactIsExact
<1> QED BY <1>1, <1>2, <1>3, PTL DEF StreamSpec

=============================================================================
