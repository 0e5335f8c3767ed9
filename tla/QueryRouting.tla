---------------------------- MODULE QueryRouting -----------------------------
(***************************************************************************)
(* The analyze node and the plan made from it: the rules tier of the       *)
(* analysis, the strategy router with its quality table, the query         *)
(* transforms under their deadline, and the legs of the retrieval plan.    *)
(*                                                                         *)
(* A question is the set of rules its words trigger and what the text      *)
(* heuristics look at.  Qualities are percents, latencies and costs are    *)
(* per mille of what the budget has left.                                  *)
(***************************************************************************)
EXTENDS Integers, SequencesExt

CONSTANTS
  Asks,             \* questions, with what their text is like
  Offers,           \* policy, tier and adapter coverage of the tenant
  Burdens,          \* strategy -> latency and cost, of the budget left
  Recordings,       \* qualities an evaluation may report
  MaxObservations,  \* bound: outcomes recorded
  UtilityWeights,   \* of quality, latency and cost
  HedgeAbove,       \* uncertainty, in eighths
  SourceSpecs,      \* the registered sources, in order
  TopK, MaxSubQueries

\* A greeting is the whole text, and none of the other rules fires on one.
ASSUME RoutingAssumption ==
  /\ {TopK, MaxSubQueries} \subseteq Nat \ {0}
  /\ HedgeAbove \in 0..8 /\ MaxObservations \in Nat
  /\ SourceSpecs \in Seq([text : BOOLEAN, vectors : BOOLEAN, required : BOOLEAN, max_top_k : Nat \ {0}])
  /\ \A a \in Asks : /\ a.parts \in Nat /\ IsFiniteSet(a.rules)
                     /\ "greeting" \in a.rules => a.rules = {"greeting"}

PARAMETRIC == "parametric"
NON_PARAMETRIC == "non_parametric"
HYBRID == "hybrid"
Strategies == <<HYBRID, NON_PARAMETRIC, PARAMETRIC>>   \* in the order of their values

ASSUME BurdenAssumption ==
  /\ Burdens \subseteq [ToSet(Strategies) -> [latency : Nat, cost : Nat]]
  /\ UtilityWeights \in [quality : Nat, latency : Nat, cost : Nat]
  /\ Recordings \subseteq Nat

VARIABLES
  ask, offer,
  quality,      \* QualityTable._observations of this bucket
  step,         \* how far the node is
  analysis, strategy, variants,
  ran,          \* the transforms that finished
  plan

routingVars == <<ask, offer, quality, step, analysis, strategy, variants, ran, plan>>

Nothing == << >>
OnlyRaw == [raw |-> TRUE, sub_queries |-> 0]

\* The fields of the first, and the second's where it has none.
Over(first, second) ==
  [field \in DOMAIN first \cup DOMAIN second |->
    IF field \in DOMAIN first THEN first[field] ELSE second[field]]

RoutingInit ==
  /\ ask \in Asks /\ offer \in Offers
  /\ quality = [s \in ToSet(Strategies) |-> [mean |-> 62, count |-> 0]]
  /\ step = "asked" /\ analysis = Nothing /\ strategy = Nothing
  /\ variants = OnlyRaw /\ ran = {} /\ plan = {}

----------------------------------------------------------------------------
(* The rules. *)

\* What each rule settles when it fires, in the order they are applied.
Rules == <<
  <<{"arithmetic"}, [intent |-> "computation", complexity |-> "simple_factual",
                     external |-> FALSE, citation |-> FALSE]>>,
  <<{"self_referential"}, [external |-> FALSE, citation |-> FALSE]>>,
  <<{"self_referential", "transform"}, [intent |-> "transformation", complexity |-> "simple_factual"]>>,
  <<{"live_data"}, [live |-> TRUE, external |-> TRUE, volatility |-> "realtime"]>>,
  <<{"exact_quotation"}, [quotation |-> TRUE, citation |-> TRUE]>>,
  <<{"private_scope"}, [private |-> TRUE, external |-> TRUE]>>,
  <<{"citation_demand"}, [citation |-> TRUE]>>,
  <<{"multi_hop"}, [multi_hop |-> TRUE, complexity |-> "multi_step"]>> >>

Greeting ==
  [intent |-> "conversational", complexity |-> "trivial", external |-> FALSE, live |-> FALSE,
   private |-> FALSE, citation |-> FALSE, multi_hop |-> FALSE]

\* Mutant: the first rule to settle a field keeps it.
FirstRuleWins(rules) == Min(rules)

\* A later rule overrides an earlier one.
LastRuleWins(rules) == Max(rules)

classify_rules ==
  LET fired == {i \in DOMAIN Rules : Rules[i][1] \subseteq ask.rules}
      about(field) == {i \in fired : field \in DOMAIN Rules[i][2]}
      settled == [field \in UNION {DOMAIN Rules[i][2] : i \in fired} |->
                    Rules[LastRuleWins(about(field))][2][field]]
  IN  IF "greeting" \in ask.rules THEN [settled |-> Greeting, coverage |-> 8]
      ELSE [settled |-> settled, coverage |-> Min({8, Cardinality(DOMAIN settled)})]

Defaults ==
  [intent |-> "lookup", complexity |-> "simple_factual", external |-> TRUE, live |-> FALSE,
   private |-> FALSE, quotation |-> FALSE, citation |-> TRUE, multi_hop |-> FALSE,
   volatility |-> "slow"]

Analyze ==
  LET verdict == classify_rules
  IN  /\ step = "asked"
      /\ analysis' = Over(Over(verdict.settled, Defaults),
           [uncertainty |-> 8 - verdict.coverage,
            ambiguous |-> \/ ask.pronoun /\ ~ask.followup
                          \/ ask.words <= 2 /\ ~ask.question,
            needs_rewrite |-> ask.words < 4 \/ (ask.pronoun /\ ask.followup)])
      /\ step' = "analyzed"
      /\ UNCHANGED <<ask, offer, quality, strategy, variants, ran, plan>>

----------------------------------------------------------------------------
(* The strategy router. *)

\* An evaluation outcome is folded into the bucket, as a running mean.
Record(s, outcome) ==
  LET seen == quality[s]
  IN  /\ step \in {"asked", "analyzed"}
      /\ MapThenSumSet(LAMBDA r : quality[r].count, DOMAIN quality) < MaxObservations
      /\ quality' = [quality EXCEPT ![s] =
           [mean |-> (seen.mean * seen.count + outcome) \div (seen.count + 1),
            count |-> seen.count + 1]]
      /\ UNCHANGED <<ask, offer, step, analysis, strategy, variants, ran, plan>>

\* The measured quality, shrunk to the prior by the size of its sample.
expected_quality(s) ==
  (10 * (quality[s].count * quality[s].mean + 20 * 62)) \div (quality[s].count + 20)

Utility(s, burden) ==
  UtilityWeights.quality * expected_quality(s)
    - UtilityWeights.latency * Min({1000, burden[s].latency})
    - UtilityWeights.cost * Min({1000, burden[s].cost})

ParametricRuledOut ==
  \/ ~offer.enabled
  \/ ~offer.tier \/ offer.covered = "none"
  \/ analysis.live
  \/ analysis.quotation
  \/ analysis.private /\ offer.covered # "tenant"

\* _hard_constraints: hybrid contains the parametric route.
Eliminated ==
  (IF ParametricRuledOut THEN {PARAMETRIC, HYBRID} ELSE {})
    \cup (IF ~analysis.external THEN {NON_PARAMETRIC} ELSE {})

\* A share of the traffic is routed against the argmax, among what survives.
Route(burden, exploring) ==
  LET survivors == {i \in DOMAIN Strategies : Strategies[i] \notin Eliminated}
      score(i) == Utility(Strategies[i], burden)
      above(i, j) == score(i) > score(j) \/ (score(i) = score(j) /\ i > j)
      pick == CHOOSE i \in survivors : \A j \in survivors \ {i} :
                IF exploring THEN above(j, i) ELSE above(i, j)
  IN  /\ step = "analyzed"
      /\ exploring => \E i, j \in survivors : i # j
      /\ strategy' =
           IF survivors = {}
           THEN [route |-> NON_PARAMETRIC, eliminated |-> Eliminated, hedged |-> TRUE]
           ELSE [route |-> Strategies[pick], eliminated |-> Eliminated,
                 hedged |-> /\ analysis.uncertainty > HedgeAbove
                            /\ Strategies[pick] = PARAMETRIC
                            /\ NON_PARAMETRIC \notin Eliminated]
      /\ step' = "rewrite"
      /\ UNCHANGED <<ask, offer, quality, analysis, variants, ran, plan>>

----------------------------------------------------------------------------
(* The transforms. *)

After == [rewrite |-> "coreference", coreference |-> "expansion",
          expansion |-> "decomposition", decomposition |-> "transformed"]

Applies ==
  [rewrite |-> analysis.needs_rewrite \/ ask.framing \in {"filler", "both", "only"},
   coreference |-> ask.pronoun,
   expansion |-> ask.alias # "none",
   decomposition |-> analysis.multi_hop]

\* What a transform adds: nothing where its text would not change.
Produced(transform) ==
  CASE transform = "rewrite" /\ ask.framing \notin {"none", "only"} -> [rewritten |-> TRUE]
    [] transform = "coreference" /\ ask.entities -> [coreference_resolved |-> TRUE]
    [] transform = "expansion" ->
         Over(IF ask.alias = "one form" THEN [expanded |-> TRUE] ELSE Nothing,
              IF ask.entities THEN [entities_only |-> TRUE] ELSE Nothing)
    [] transform = "decomposition" /\ ask.parts >= 2 ->
         [sub_queries |-> Min({ask.parts, MaxSubQueries})]
    [] OTHER -> Nothing

Transform ==
  /\ step \in DOMAIN After /\ Applies[step]
  /\ variants' = Over(Produced(step), variants)
  /\ ran' = ran \cup {step} /\ step' = After[step]
  /\ UNCHANGED <<ask, offer, quality, analysis, strategy, plan>>

\* A transform that does not apply, or fails, is skipped.
SkipTransform ==
  /\ step \in DOMAIN After /\ step' = After[step]
  /\ UNCHANGED <<ask, offer, quality, analysis, strategy, variants, ran, plan>>

\* Once the deadline has passed no other is tried.
TransformsExpire ==
  /\ step \in DOMAIN After /\ step' = "transformed"
  /\ UNCHANGED <<ask, offer, quality, analysis, strategy, variants, ran, plan>>

----------------------------------------------------------------------------
(* The plan. *)

FirstOf(names) ==
  LET there == {i \in DOMAIN names : names[i] \in DOMAIN variants}
  IN  IF there = {} THEN "raw" ELSE names[Min(there)]

_variant_for(spec) ==
  IF spec.text /\ ~spec.vectors
  THEN FirstOf(<<"expanded", "entities_only", "rewritten">>)
  ELSE FirstOf(<<"rewritten", "coreference_resolved">>)

\* Mutant: a sub-query's leg is as required as its source.
RequiredAsSource(spec, sub) == spec.required

\* No hop is required: a wrong decomposition costs recall on that hop only.
RequiredLeg(spec, sub) == sub = 0 /\ spec.required

Leg(i, sub) ==
  LET spec == SourceSpecs[i]
  IN  [source |-> i, sub |-> sub, required |-> RequiredLeg(spec, sub),
       variant |-> IF sub = 0 THEN _variant_for(spec) ELSE "sub_query",
       top_k |-> Min({spec.max_top_k,
                      IF sub = 0 THEN TopK ELSE Max({1, TopK \div 2})})]

build_plan ==
  {Leg(i, 0) : i \in DOMAIN SourceSpecs}
    \cup {Leg(i, sub) : i \in {j \in DOMAIN SourceSpecs : SourceSpecs[j].vectors},
                        sub \in 1..variants.sub_queries}

Plan ==
  /\ step = "transformed"
  /\ plan' = build_plan /\ step' = "planned"
  /\ UNCHANGED <<ask, offer, quality, analysis, strategy, variants, ran>>

RoutingNext ==
  \/ Analyze
  \/ \E s \in ToSet(Strategies), outcome \in Recordings : Record(s, outcome)
  \/ \E burden \in Burdens, exploring \in BOOLEAN : Route(burden, exploring)
  \/ Transform \/ SkipTransform \/ TransformsExpire
  \/ Plan

----------------------------------------------------------------------------
(* Properties                                                              *)

\* Whatever rules fired together, whatever the quality table learned, and in
\* exploration too: the weights answer only what they may (policy, coverage, no
\* live data, no verbatim text, private data with a tenant's adapter only);
\* what is live or private always keeps the retrieval route; a route that was
\* ruled out is taken only when all were; and weights picked for a question the
\* rules hardly understood are hedged with a retrieval.
RoutingHonoursTheQuestion ==
  strategy # Nothing =>
    /\ strategy.route \in {PARAMETRIC, HYBRID} =>
         /\ offer.enabled /\ offer.tier /\ offer.covered # "none"
         /\ ask.rules \cap {"live_data", "exact_quotation"} = {}
         /\ "private_scope" \in ask.rules => offer.covered = "tenant"
    /\ ask.rules \cap {"live_data", "private_scope"} # {} =>
         NON_PARAMETRIC \notin strategy.eliminated
    /\ strategy.route \in strategy.eliminated =>
         strategy.eliminated = ToSet(Strategies) /\ strategy.route = NON_PARAMETRIC
    /\ (strategy.route = PARAMETRIC /\ Cardinality(ask.rules) <= 1 /\ analysis.external)
         => strategy.hedged

\* Whichever transforms failed or came too late, every source is asked: once
\* with the question, as required as the source is, and in words that suit it
\* (a source that embeds never gets a bag of synonyms or names); a sub-question
\* goes to the sources that embed, is never required, and asks for less.
QuestionIsAlwaysAsked ==
  step = "planned" =>
    /\ \A i \in DOMAIN SourceSpecs :
         LET own == {l \in plan : l.source = i}
             spec == SourceSpecs[i]
         IN  /\ Cardinality({l \in own : l.sub = 0}) = 1
             /\ \A l \in own :
                  /\ l.required => spec.required /\ l.sub = 0
                  /\ l.top_k \in 1..spec.max_top_k
                  /\ l.sub = 0 => l.variant \in DOMAIN variants
                  /\ spec.vectors => l.variant \notin {"expanded", "entities_only"}
                  /\ l.sub > 0 => spec.vectors /\ "decomposition" \in ran
             /\ spec.required => \E l \in own : l.required
    /\ "rewritten" \in DOMAIN variants <=> "rewrite" \in ran /\ ask.framing \notin {"none", "only"}
    /\ Cardinality({<<l.source, l.sub>> : l \in plan}) = Cardinality(plan)

=============================================================================
