---------------------------- MODULE EvidenceFlow -----------------------------
(***************************************************************************)
(* From what retrieval returned to the answer that is sent: rank fusion,   *)
(* reranking, grouping and screening (the retrieve node), the check of a   *)
(* parametric draft (the shadow node), context packing and the fusion      *)
(* policy (the build_context node), generation, grounding and citations    *)
(* (the generate node) and the citation guardrail of the output chain.     *)
(*                                                                         *)
(* A text is a set of sentences, a sentence its content words and the      *)
(* quantity it states (0: none).  A sentence costs one token.  Scores are  *)
(* integers out of Unit, authorities out of 100.  An evidence marker E<n>  *)
(* is n, a memory marker M<n> is -n.                                       *)
(***************************************************************************)
EXTENDS Integers, SequencesExt, Selections

CONSTANTS
  Chunk,        \* chunk id -> what retrieval knows of it, and what its text holds
  Legs,         \* what the legs may return: a ranked list of chunk ids each
  Questions,    \* sets of content words
  Drafts,       \* answers of the weights, NoDraft among them
  Answers,      \* what the generator may write
  SessionItems, LongTermItems,  \* in reading order: salience and cost
  Sources, Tenant, Acls,
  InputK, OutputK,          \* of the reranker
  NearDuplicate,            \* percent of common words that makes a duplicate
  Windows,                  \* context windows of the models
  SystemTokens, ExpectedOutput, MemoryCap, MaxEvidence,
  Entailment                \* percent of a claim's words its evidence must hold

Unit == 10000

ASSUME ChunkAssumption ==
  /\ DOMAIN Chunk \subseteq Nat
  /\ \A id \in DOMAIN Chunk :
       /\ IsFiniteSet(Chunk[id].text) /\ IsFiniteSet(Chunk[id].context) /\ Chunk[id].context # {}
       /\ \A s \in Chunk[id].text \cup Chunk[id].context : IsFiniteSet(s.words)
       /\ Chunk[id].authority \in 0..100

ASSUME AskedAssumption ==
  /\ Legs \subseteq Seq(Seq(DOMAIN Chunk))
  /\ \A question \in Questions : IsFiniteSet(question)

ASSUME DraftAssumption == \A answer \in Drafts :
  /\ answer.confidence \in 0..Unit
  /\ \A i \in DOMAIN answer.claims : DOMAIN answer.claims[i] = {"words", "number", "markers"}

ASSUME MemoryAssumption == {SessionItems, LongTermItems} \subseteq Seq([salience : Int, cost : Nat])

ASSUME LimitAssumption ==
  /\ {OutputK, SystemTokens, ExpectedOutput, MemoryCap, MaxEvidence} \subseteq Nat
  /\ InputK \in 0..3500  \* as far as a score out of 10000 tells places in a list apart
  /\ Windows \subseteq Nat
  /\ NearDuplicate \in 1..100 /\ Entailment \in 1..100

VARIABLES
  request,      \* the question, the policy's flags, the budget's level, the model's window,
                \* and whether it belongs to a conversation
  legs, draft,  \* what the legs and the weights returned
  quarantined,  \* sources, by hand
  phase,
  groups,       \* state.evidence: the groups the screen kept
  verdicts,     \* markers of the groups it dropped
  bundle, decision, envelope

flowVars == <<request, legs, draft, quarantined, phase, groups, verdicts, bundle, decision, envelope>>

NoDraft == [claims |-> << >>, confidence |-> 0]
NoBundle == [evidence |-> << >>, dropped |-> {}, memory |-> << >>, used |-> 0, warning |-> FALSE]
NoDecision == [basis |-> "none", p_retrieval |-> 0, agreement |-> 0, stale |-> FALSE,
               conflicts |-> {}, beaten |-> {}]
NoEnvelope == [claims |-> << >>, citations |-> {}, warning |-> FALSE, conflicts |-> {}, notes |-> {},
               band |-> "none"]

\* The first rung of the ladder only skips the reranker, as its failures do.
FlowInit ==
  /\ request \in [question : Questions, private : BOOLEAN, strict : BOOLEAN,
                  level : {0, 2}, window : Windows, session : BOOLEAN]
  /\ legs \in Legs /\ draft \in Drafts /\ quarantined = {}
  /\ phase = "asked" /\ groups = << >> /\ verdicts = {}
  /\ bundle = NoBundle /\ decision = NoDecision /\ envelope = NoEnvelope

----------------------------------------------------------------------------
(* Rank fusion and reranking. *)

WordsOf(sentences) == UNION {s.words : s \in sentences}

Sorted(set, before(_, _)) == InOrder(set, {p \in set \X set : before(p[1], p[2])})

Place(seq, x) == Min({i \in DOMAIN seq : seq[i] = x})

Take(seq, n) == SubSeq(seq, 1, Min({n, Len(seq)}))

\* reciprocal_rank_fusion with k = 60.
Fused(id) ==
  LET share(leg) == IF id \in ToSet(leg) THEN Unit \div (60 + Place(leg, id)) ELSE 0
      score[l \in 0..Len(legs)] == IF l = 0 THEN 0 ELSE score[l - 1] + share(legs[l])
  IN  score[Len(legs)]

fuse_legs ==
  LET before(a, b) == Fused(a) > Fused(b) \/ (Fused(a) = Fused(b) /\ a < b)
  IN  Sorted(UNION {ToSet(legs[l]) : l \in DOMAIN legs}, before)

\* A candidate: its chunk, its fused score, its rerank score or -1.
Unranked(ids) == [i \in DOMAIN ids |-> [id |-> ids[i], fused |-> Fused(ids[i]), rerank |-> -1]]

Effective(c) == IF c.rerank >= 0 THEN c.rerank ELSE c.fused

\* The share some words are of the question's: of a question without content
\* words, none.
Share(words, whole) ==
  IF request.question = {} THEN 0 ELSE (whole * Cardinality(words)) \div Cardinality(request.question)

\* LexicalOverlapReranker: the question's words it holds, and where it stood.
Rerank(ids, position) ==
  LET held == request.question \cap WordsOf(Chunk[ids[position]].context)
  IN  [id |-> ids[position], fused |-> Fused(ids[position]),
       rerank |-> Share(held, 6500) + 3500 \div position]

\* The deadline may pass before every candidate has been scored: those that
\* were come first, the others follow as they came.
Reranked(ids, scored) ==
  LET pool == Take(ids, InputK)
      before(c, d) == \/ c.rerank > d.rerank
                      \/ c.rerank = d.rerank /\ Place(pool, c.id) < Place(pool, d.id)
  IN  Take(Sorted({Rerank(pool, i) : i \in 1..scored}, before)
             \o Unranked(SubSeq(pool, scored + 1, Len(pool))), OutputK)

----------------------------------------------------------------------------
(* Grouping and screening. *)

\* Jaccard overlap of the texts' words; the same text is a case of it.
Similar(c, d) ==
  LET left == WordsOf(Chunk[c.id].text)
      right == WordsOf(Chunk[d.id].text)
  IN  100 * Cardinality(left \cap right) >= NearDuplicate * Cardinality(left \cup right)

Joined(clusters, c) ==
  LET hosts == {i \in DOMAIN clusters : Similar(clusters[i][1], c)}
  IN  IF hosts = {} THEN Append(clusters, <<c>>)
      ELSE [clusters EXCEPT ![Min(hosts)] = Append(@, c)]

Clustered(candidates) ==
  LET made[i \in 0..Len(candidates)] == IF i = 0 THEN << >> ELSE Joined(made[i - 1], candidates[i])
  IN  made[Len(candidates)]

Representative(members) ==
  LET better(i, j) == \/ Chunk[members[i].id].authority > Chunk[members[j].id].authority
                      \/ /\ Chunk[members[i].id].authority = Chunk[members[j].id].authority
                         /\ Effective(members[i]) > Effective(members[j])
  IN  members[Min({i \in DOMAIN members : \A j \in DOMAIN members : ~better(j, i)})]

\* The most authoritative member speaks for a group; the first group of a
\* lineage is independent, every later one is another view of the same source.
group_candidates(candidates) ==
  LET before(c, d) == Effective(c) > Effective(d) \/ (Effective(c) = Effective(d) /\ c.id < d.id)
      clusters == Clustered(Sorted(ToSet(candidates), before))
      voice(i) == Representative(clusters[i])
      root(i) == Chunk[voice(i).id].root
  IN  [i \in DOMAIN clusters |->
        [marker |-> i, members |-> ToSet(clusters[i]), representative |-> voice(i), root |-> root(i),
         authority |-> Max({Chunk[m.id].authority : m \in ToSet(clusters[i])}),
         independent |-> \A j \in 1..(i - 1) : root(j) # root(i)]]

\* Mutant: only the representative is screened.
ScreenedVoice(g) == {g.representative}

Screened(g) == g.members

Breach(g) == \E m \in Screened(g) : Chunk[m.id].canary
Foreign(g) == \E m \in Screened(g) : Chunk[m.id].tenant # Tenant \/ Chunk[m.id].acl \notin Acls
Unhealthy(g) == \E m \in Screened(g) : Chunk[m.id].source \in quarantined
Injected(g) == \E m \in Screened(g) : Chunk[m.id].injected

\* The retrieve node.  The reranker is skipped on the first rung of the
\* ladder, and whatever it raises leaves the fused order.
Retrieve(candidates) ==
  LET all == group_candidates(candidates)
      drops(g) == Foreign(g) \/ Unhealthy(g) \/ Injected(g)
  IN  /\ phase = "asked"
      /\ IF \E i \in DOMAIN all : Breach(all[i])
         THEN phase' = "refused" /\ UNCHANGED <<groups, verdicts>>
         ELSE /\ phase' = "retrieved"
              /\ groups' = Picked(all, {i \in DOMAIN all : ~drops(all[i])})
              /\ verdicts' = {all[i].marker : i \in {j \in DOMAIN all : drops(all[j])}}
      /\ UNCHANGED <<request, legs, draft, quarantined, bundle, decision, envelope>>

RetrieveFused == Retrieve(Take(Unranked(fuse_legs), OutputK))

RetrieveReranked ==
  /\ request.level = 0
  /\ \E scored \in 0..Len(Take(fuse_legs, InputK)) :
       /\ scored = 0 \/ request.question # {}
       /\ Retrieve(Reranked(fuse_legs, scored))

Quarantine(source) ==
  /\ phase = "asked"
  /\ quarantined' = quarantined \cup {source}
  /\ UNCHANGED <<request, legs, draft, phase, groups, verdicts, bundle, decision, envelope>>

Reinstate(source) ==
  /\ phase = "asked"
  /\ quarantined' = quarantined \ {source}
  /\ UNCHANGED <<request, legs, draft, phase, groups, verdicts, bundle, decision, envelope>>

----------------------------------------------------------------------------
(* The fusion policy. *)

Moderate == 4000
High == 7000

Context(g) == Chunk[g.representative.id].context

Score(g) == IF g.representative.rerank >= 0 THEN g.representative.rerank ELSE 0

\* Mutant: a source corroborates when it is half as good as the best.
RelativeFloor(top) == top \div 2

CorroborationFloor(top) == Max({top \div 2, 4000})

\* raw_retrieval_score: half a Unit when nothing was reranked.
RetrievalConfidence(evidence) ==
  LET reranked == {g \in ToSet(evidence) : g.representative.rerank >= 0}
      top == Min({Unit, Max({Score(g) : g \in reranked})})
      roots == {g.root : g \in {h \in ToSet(evidence) : Score(h) >= CorroborationFloor(top)}}
  IN  IF evidence = << >> THEN 0
      ELSE IF reranked = {} THEN Unit \div 2
      ELSE (80 * top + 20 * Min({Unit, (Unit * Cardinality(roots)) \div 2})) \div 100

\* stance: on topic, other quantities contradict and anything else supports.
OnTopic(claim, s) == 100 * Cardinality(claim.words \cap s.words) >= 60 * Cardinality(claim.words)
Contradicts(claim, s) ==
  OnTopic(claim, s) /\ claim.number # 0 /\ s.number # 0 /\ claim.number # s.number
Supports(claim, s) == OnTopic(claim, s) /\ ~Contradicts(claim, s)

Contradicted(claim, evidence) ==
  LET told == UNION {Context(g) : g \in ToSet(evidence)}
  IN  (\E s \in told : Contradicts(claim, s)) /\ ~\E s \in told : Supports(claim, s)

Stale(evidence) == \E g \in ToSet(evidence) : Chunk[g.representative.id].stale

\* Mutant: the passages that matched are compared, not what is read.
DisputesInText(left, right) ==
  \E s \in Chunk[left.representative.id].text, t \in Chunk[right.representative.id].text : Contradicts(s, t)

\* Sentences of two groups state the same thing with different facts; the
\* group that is read first makes the claim.
Disputes(left, right) == \E s \in Context(left), t \in Context(right) : Contradicts(s, t)

\* A clear gap in authority prefers the stronger source; the other is named.
Settled(g, h) ==
  LET stronger == IF g.authority >= h.authority THEN g ELSE h
      weaker == IF stronger = g THEN h ELSE g
  IN  {[stronger |-> stronger.root, weaker |-> weaker.root,
        surfaced |-> stronger.authority - weaker.authority < 15]}

\* source_conflicts: across lineages, and one for a pair of them: the first found.
source_conflicts(evidence) ==
  LET pairs == {p \in (DOMAIN evidence) \X (DOMAIN evidence) :
                  /\ p[1] < p[2] /\ evidence[p[1]].root # evidence[p[2]].root
                  /\ Disputes(evidence[p[1]], evidence[p[2]])}
      between(p) == {evidence[p[1]].root, evidence[p[2]].root}
      earlier(p, q) == p[1] < q[1] \/ (p[1] = q[1] /\ p[2] < q[2])
      found == {p \in pairs : \A q \in pairs : between(q) = between(p) => ~earlier(q, p)}
  IN  UNION {Settled(evidence[p[1]], evidence[p[2]]) : p \in found}

\* The authority-weighted share of the lineages that no conflict was lost to.
independent_agreement(evidence, conflicts) ==
  LET strength(root) == Max({g.authority : g \in {h \in ToSet(evidence) : h.root = root}})
      weight(roots) == Cardinality(UNION {{root} \X (1..strength(root)) : root \in roots})
      roots == {g.root : g \in ToSet(evidence)}
      disputed == {c.weaker : c \in conflicts}
  IN  IF weight(roots) = 0 THEN 0 ELSE (100 * weight(roots \ disputed)) \div weight(roots)

\* _parametric_conflicts: the claims of the draft the evidence beats.
Beaten(evidence) ==
  {i \in DOMAIN draft.claims : Contradicted(draft.claims[i], evidence)}

\* TablePolicy.decide: the hard gates, then the table.  Conflicts are recorded,
\* and decide nothing here.
Decide(evidence) ==
  LET p == RetrievalConfidence(evidence)
      low == p < Moderate
      conflicts == source_conflicts(evidence)
      basis == IF \/ low /\ request.private
                  \/ low /\ draft.confidence < High
                  \/ Stale(evidence) /\ request.strict
               THEN "ABSTAIN" ELSE IF low THEN "PARAMETRIC" ELSE "RETRIEVED_EVIDENCE"
  IN  [basis |-> basis, p_retrieval |-> p, agreement |-> independent_agreement(evidence, conflicts),
       stale |-> Stale(evidence), conflicts |-> conflicts, beaten |-> Beaten(evidence)]

----------------------------------------------------------------------------
(* Grounding. *)

\* A citation is written after the sentence it supports: what stands at the
\* head of the next sentence belongs to the claim before it.
extract_claims(sentences) ==
  LET own(i) == sentences[i].trailing \cup (IF i = 1 THEN sentences[i].leading ELSE {})
      next(i) == IF i < Len(sentences) THEN sentences[i + 1].leading ELSE {}
  IN  [i \in DOMAIN sentences |->
        [words |-> sentences[i].words, number |-> sentences[i].number,
         markers |-> own(i) \cup next(i)]]

\* Mutant: a claim is matched against everything retrieved, shown or not.
InContextRetrieved(shown) == groups

\* The bundle's evidence, which by_marker indexes.
InContext(shown) == shown

Held(claim, g) == Cardinality(claim.words \cap WordsOf(Context(g)))

\* The groups the claim names, or all of them when it names none that is there.
Support(claim, shown) ==
  LET evidence == InContext(shown)
      named == Picked(evidence, {i \in DOMAIN evidence : evidence[i].marker \in claim.markers})
      candidates == IF named = << >> THEN evidence ELSE named
      best == {i \in DOMAIN candidates :
                \A j \in DOMAIN candidates : Held(claim, candidates[j]) <= Held(claim, candidates[i])}
  IN  IF candidates = << >> THEN {} ELSE {candidates[Min(best)]}

\* verify: the markers bound to each claim, none where nothing entails it.
Cited(claim, shown) ==
  {g.marker : g \in {h \in Support(claim, shown) :
     claim.words # {} /\ 100 * Held(claim, h) >= Entailment * Cardinality(claim.words)}}

Citations(claims, shown) ==
  UNION {{<<i, m>> : m \in Cited(claims[i], shown)} : i \in DOMAIN claims}

----------------------------------------------------------------------------
(* The shadow node: a draft is checked against everything retrieved. *)

Band(percent) == IF percent >= 90 THEN "HIGH" ELSE IF percent >= 60 THEN "MEDIUM" ELSE "LOW"

\* The disagreements go with the answer, and no words of its own about them.
ShadowServes ==
  LET claims == draft.claims
      fused == Decide(groups)
  IN  /\ phase = "retrieved" /\ draft # NoDraft
      /\ fused.beaten = {}
      /\ decision' = fused
      /\ IF fused.basis = "ABSTAIN"
         THEN phase' = "abstained" /\ UNCHANGED envelope
         ELSE /\ phase' = "served"
              /\ envelope' = [claims |-> claims, citations |-> Citations(claims, groups),
                              warning |-> FALSE, conflicts |-> fused.conflicts, notes |-> {},
                              band |-> Band(draft.confidence \div 100)]
      /\ UNCHANGED <<request, legs, draft, quarantined, groups, verdicts, bundle>>

\* A contradicted draft, or one the deadline left unchecked: the node falls
\* back to the grounded path.
ShadowYields ==
  /\ phase = "retrieved" /\ draft # NoDraft
  /\ phase' = "yielded"
  /\ UNCHANGED <<request, legs, draft, quarantined, groups, verdicts, bundle, decision, envelope>>

----------------------------------------------------------------------------
(* Context assembly. *)

OutputReserve == (ExpectedOutput * 125) \div 100
Reserved == SystemTokens + Cardinality(request.question) + OutputReserve
MemoryRegion == Min({MemoryCap, request.window - Reserved})
EvidenceRegion ==
  Min({request.window - Reserved - MemoryRegion,
       IF request.level >= 2 THEN MaxEvidence \div 2 ELSE MaxEvidence})

\* _recall: the conversation, where there is one, then what is known of the
\* user; the n-th item is M<n>.
Recalled == (IF request.session THEN SessionItems ELSE << >>) \o LongTermItems

\* _trim_memory: the most salient items that fit.
TrimmedMemory ==
  LET items == Recalled
      before(i, j) == items[i].salience > items[j].salience
                      \/ (items[i].salience = items[j].salience /\ i < j)
      order == Sorted(DOMAIN items, before)
      keep(kept, i) == IF kept.used + items[i].cost > MemoryRegion THEN kept
                       ELSE [items |-> Append(kept.items, i), used |-> kept.used + items[i].cost]
      kept[n \in 0..Len(order)] ==
        IF n = 0 THEN [items |-> << >>, used |-> 0] ELSE keep(kept[n - 1], order[n])
  IN  kept[Len(order)].items

Cost(g) == Cardinality(Context(g))

\* What several groups cost: their sentences.
Tokens(evidence) == Cardinality(UNION {{g} \X Context(g) : g \in evidence})

\* Value per token, given what is selected: relevance, authority, what is not
\* said already, and the aspects of the question it adds.
Density(g, selected) ==
  LET words == WordsOf(Chunk[g.representative.id].text)
      likeness(h) == LET others == WordsOf(Chunk[h.representative.id].text)
                     IN  IF words \cap others = {} THEN 0
                         ELSE (100 * Cardinality(words \cap others)) \div Cardinality(words \cup others)
      redundancy == Max({0} \cup {likeness(h) : h \in selected})
      covered == UNION {WordsOf(Context(h)) : h \in selected}
      fresh == (WordsOf(Context(g)) \cap request.question) \ covered
      base == ((Effective(g.representative) * g.authority) \div 100) * (100 - redundancy)
      bonus == 100 + Share(fresh, 50)
  IN  ((base \div 100) * bonus) \div Cost(g)

\* Mutant: the first group that does not fit ends the packing.
PackUntilFull(packed, best) ==
  IF packed.used + Cost(best) > EvidenceRegion
  THEN [packed EXCEPT !.remaining = {}]
  ELSE [packed EXCEPT !.remaining = @ \ {best}, !.selected = @ \cup {best}, !.used = @ + Cost(best)]

\* One turn of pack_evidence: the best group is taken, or dropped where it
\* does not fit, and the others still have their chance.
PackBest(packed, best) ==
  IF packed.used + Cost(best) > EvidenceRegion
  THEN [packed EXCEPT !.remaining = @ \ {best}, !.dropped = @ \cup {best}]
  ELSE [packed EXCEPT !.remaining = @ \ {best}, !.selected = @ \cup {best}, !.used = @ + Cost(best)]

pack_evidence ==
  LET worst(g, h, selected) == \/ Density(g, selected) < Density(h, selected)
                               \/ Density(g, selected) = Density(h, selected) /\ g.marker > h.marker
      best(packed) == CHOOSE g \in packed.remaining :
        \A h \in packed.remaining \ {g} : ~worst(g, h, packed.selected)
      turn(packed) == IF packed.remaining = {} THEN packed ELSE PackBest(packed, best(packed))
      packed[n \in 0..Len(groups)] ==
        IF n = 0 THEN [remaining |-> ToSet(groups), selected |-> {}, dropped |-> {}, used |-> 0]
        ELSE turn(packed[n - 1])
  IN  packed[Len(groups)]

\* order_groups, edge weighted: the strongest at both ends.
EdgeWeighted(selected) ==
  LET before(g, h) == \/ Effective(g.representative) > Effective(h.representative)
                      \/ Effective(g.representative) = Effective(h.representative) /\ g.marker < h.marker
      ranked == Sorted(selected, before)
      half(parity) == [i \in 1..((Len(ranked) + parity) \div 2) |-> ranked[2 * i - parity]]
  IN  half(1) \o Reverse(half(0))

BuiltBundle ==
  LET packed == pack_evidence
      covered == UNION {WordsOf(Context(g)) : g \in packed.selected}
  IN  [evidence |-> EdgeWeighted(packed.selected), memory |-> TrimmedMemory, used |-> packed.used,
       dropped |-> {g.marker : g \in packed.dropped},
       warning |-> packed.dropped # {} \/ ~(request.question \subseteq covered)]

\* The build_context node.
Build ==
  /\ \/ phase = "retrieved" /\ draft = NoDraft
     \/ phase = "yielded"
  /\ IF groups = << >>
     THEN phase' = "abstained" /\ UNCHANGED <<bundle, decision>>
     ELSE IF Reserved >= request.window
     THEN phase' = "overflowed" /\ UNCHANGED <<bundle, decision>>
     ELSE /\ bundle' = BuiltBundle
          /\ decision' = Decide(bundle'.evidence)
          /\ phase' = IF decision'.basis = "RETRIEVED_EVIDENCE" THEN "built" ELSE "abstained"
  /\ UNCHANGED <<request, legs, draft, quarantined, groups, verdicts, envelope>>

----------------------------------------------------------------------------
(* The generate node, and the output chain. *)

\* The local provider's answer: the sentences of the evidence region that hold
\* enough of the question, the best first, each followed by its group's marker.
Composed ==
  LET lines == UNION {{[said |-> s, marker |-> g.marker] : s \in Context(g)} : g \in ToSet(bundle.evidence)}
      overlap(l) == Cardinality(l.said.words \cap request.question)
      best == Max({0} \cup {overlap(l) : l \in lines})
      scored == {l \in lines : /\ request.question # {}
                              /\ 100 * overlap(l) >= 15 * Cardinality(request.question)
                              /\ 100 * overlap(l) >= 60 * best}
      text == SetToSeq(scored)
      before(l, k) == \/ overlap(l) > overlap(k)
                      \/ overlap(l) = overlap(k) /\ Place(text, l) < Place(text, k)
      kept == Take(Sorted(scored, before), 3)
  IN  IF scored = {} THEN <<[leading |-> {}, words |-> {"unaddressed"}, number |-> 0, trailing |-> {}]>>
      ELSE [i \in DOMAIN kept |->
             [words |-> kept[i].said.words, number |-> kept[i].said.number,
              leading |-> IF i = 1 THEN {} ELSE {kept[i - 1].marker},
              trailing |-> IF i = Len(kept) THEN {kept[i].marker} ELSE {}]]

\* _structured_notes: what the answer says of the conflicts between its
\* sources, and of its age.
Notes ==
  {IF c.surfaced THEN <<"sources disagree", c.stronger, c.weaker>>
   ELSE <<"a lower-authority source disagrees", c.weaker>> : c \in decision.conflicts}
    \cup IF decision.stale THEN {<<"older than it stays accurate">>} ELSE {}

\* The share of the claims that are cited: the confidence of a grounded answer.
Groundedness(claims, shown) ==
  LET substantive == {i \in DOMAIN claims : claims[i].words # {}}
      cited == {i \in substantive : Cited(claims[i], shown) # {}}
  IN  IF substantive = {} THEN 100 ELSE (100 * Cardinality(cited)) \div Cardinality(substantive)

_envelope(claims) ==
  [claims |-> claims, citations |-> Citations(claims, bundle.evidence),
   warning |-> bundle.warning, conflicts |-> decision.conflicts, notes |-> Notes,
   band |-> Band(Groundedness(claims, bundle.evidence))]

Generate(sentences) ==
  /\ phase = "built"
  /\ envelope' = _envelope(extract_claims(sentences))
  /\ phase' = "generated"
  /\ UNCHANGED <<request, legs, draft, quarantined, groups, verdicts, bundle, decision>>

\* CitationValidationGuardrail: markers of what is in context, of either
\* kind, stay.  A served draft has no bundle.
ValidMarkers ==
  {g.marker : g \in ToSet(bundle.evidence)} \cup {-i : i \in ToSet(bundle.memory)}

Resolved(claims, valid) == [i \in DOMAIN claims |-> [claims[i] EXCEPT !.markers = @ \cap valid]]

Send ==
  /\ phase \in {"generated", "served"}
  /\ envelope' = [envelope EXCEPT !.claims = Resolved(@, ValidMarkers)]
  /\ phase' = IF phase = "served" THEN "sent draft" ELSE "sent"
  /\ UNCHANGED <<request, legs, draft, quarantined, groups, verdicts, bundle, decision>>

FlowNext ==
  \/ \E source \in Sources : Quarantine(source) \/ Reinstate(source)
  \/ RetrieveFused \/ RetrieveReranked
  \/ ShadowServes \/ ShadowYields \/ Build
  \/ \E sentences \in Answers \cup {Composed} : Generate(sentences)
  \/ Send

----------------------------------------------------------------------------
(* Properties                                                              *)

Sent == phase \in {"sent", "sent draft"}

\* A citation is evidence: it names a group the request's screen let through
\* and, where the model wrote from a context, one that was in that context; it
\* holds enough of the claim; and no marker is left in the text that the
\* reader cannot resolve.  A claim that names groups in context is cited from
\* none but those, and one that repeats the one group it names is cited from it.
CitationsHold ==
  Sent =>
    /\ \A c \in envelope.citations :
         LET claim == envelope.claims[c[1]]
             shown == IF phase = "sent" THEN bundle.evidence ELSE groups
             named == claim.markers \cap {g.marker : g \in ToSet(shown)}
         IN  /\ \E g \in ToSet(shown) :
                  /\ g.marker = c[2]
                  /\ 100 * Cardinality(claim.words \cap WordsOf(Context(g)))
                       >= Entailment * Cardinality(claim.words)
             /\ named = {} \/ c[2] \in named
    /\ phase = "sent" =>
         \A i \in DOMAIN envelope.claims : \A g \in ToSet(bundle.evidence) :
           LET claim == envelope.claims[i]
           IN  /\ claim.words # {} /\ claim.words \subseteq WordsOf(Context(g))
               /\ claim.markers \cap {h.marker : h \in ToSet(bundle.evidence)} = {g.marker}
               => <<i, g.marker>> \in envelope.citations
    /\ \A i \in DOMAIN envelope.claims : \A m \in envelope.claims[i].markers :
         \/ \E g \in ToSet(bundle.evidence) : g.marker = m
         \/ -m \in ToSet(bundle.memory)

\* No text the caller may not see, of a source in quarantine, or with an
\* instruction in it reaches the evidence, not even as a near duplicate that
\* another chunk speaks for; and what is held back has its verdict.
NothingForeignIsShown ==
  phase \notin {"asked", "refused"} =>
    /\ \A g \in ToSet(groups) : \A m \in g.members :
         /\ Chunk[m.id].tenant = Tenant /\ Chunk[m.id].acl \in Acls
         /\ ~Chunk[m.id].injected /\ ~Chunk[m.id].canary
         /\ Chunk[m.id].source \notin quarantined
    /\ verdicts \cap {g.marker : g \in ToSet(groups)} = {}

\* The regions fit the window, what is packed fits its region, and nothing is
\* left out in silence: every group retrieved is in the context or listed as
\* dropped, and a context without a warning covers the whole question.
ContextIsAccounted ==
  bundle # NoBundle =>
    /\ Reserved + MemoryRegion + EvidenceRegion <= request.window
    /\ MemoryRegion >= 0 /\ EvidenceRegion >= 0
    /\ bundle.used = Tokens(ToSet(bundle.evidence)) /\ bundle.used <= EvidenceRegion
    /\ Len(bundle.evidence) = Cardinality(ToSet(bundle.evidence))
    /\ {g.marker : g \in ToSet(groups)}
         = {g.marker : g \in ToSet(bundle.evidence)} \cup bundle.dropped
    /\ ~bundle.warning =>
         request.question \subseteq UNION {WordsOf(Context(g)) : g \in ToSet(bundle.evidence)}

\* Something scores at least the corroboration floor, unless nothing was reranked.
Grounded(shown) ==
  \/ \E g \in ToSet(shown) : g.representative.rerank >= 4000
  \/ shown # << >> /\ \A g \in ToSet(shown) : g.representative.rerank < 0

Outdoes(h, g) ==
  /\ h.root = g.root
  /\ Score(h) > Score(g) \/ (Score(h) = Score(g) /\ h.marker < g.marker)

\* The best group of each lineage.
Strongest(shown) == Picked(shown, {i \in DOMAIN shown : \A h \in ToSet(shown) : ~Outdoes(h, shown[i])})

\* Weak evidence does not answer, however much of it there is: unless the
\* reranker was skipped, something shown scores at least the corroboration
\* floor; another copy of a source changes nothing; and a question about the
\* tenant's own data is never answered from the weights alone.
AnswersAreLicensed ==
  Sent =>
    LET shown == IF phase = "sent" THEN bundle.evidence ELSE groups
    IN  /\ phase = "sent" \/ request.private => Grounded(shown)
        /\ Grounded(shown) \/ draft.confidence >= High
        /\ RetrievalConfidence(Strongest(shown)) = decision.p_retrieval

Opposed(g, h) ==
  \E s \in Context(g), t \in Context(h) :
    s.words = t.words /\ 0 \notin {s.number, t.number} /\ s.number # t.number

\* "The words and the numbers cannot disagree" (nodes.py:519): whenever two
\* lineages an answer was written from state the same thing with different
\* quantities, the answer says so, once for the two; neither is preferred in
\* silence, nor at all where their authority is comparable; and such an answer
\* is never taken for one its sources agree on, unless the source that disagrees
\* has no authority at all.
DisagreementsAreTold ==
  Sent =>
    LET shown == IF phase = "sent" THEN bundle.evidence ELSE groups
        about(c, g, h) == {c.stronger, c.weaker} = {g.root, h.root}
    IN  /\ \A g, h \in ToSet(shown) : g.root # h.root /\ Opposed(g, h) =>
             LET told == {c \in envelope.conflicts : about(c, g, h)}
             IN  /\ Cardinality(told) = 1
                 /\ \A c \in told :
                      /\ phase = "sent" => \E n \in envelope.notes : n[Len(n)] = c.weaker
                      /\ (\E k \in ToSet(shown) : k.root = c.weaker /\ k.authority > 0)
                           => decision.agreement < 100
        /\ \A c \in envelope.conflicts : \E g, h \in ToSet(shown) :
             /\ g.root = c.stronger /\ h.root = c.weaker /\ g.authority >= h.authority
             /\ c.surfaced <=> g.authority - h.authority < 15

=============================================================================
