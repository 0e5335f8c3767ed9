------------------------------ MODULE MCAnswers ------------------------------
(* An answer from four sides: how the question is routed, what evidence it  *)
(* is answered from, how the answer is streamed, and how concurrent requests *)
(* end.  A behaviour starts on one of the sides a run looks at and stays    *)
(* there: the sides share no variables.                                     *)
EXTENDS EvidenceFlow, SentenceStream, QueryRouting, AnswerRequest

CONSTANT Sides

VARIABLE side

\* Seven chunks: a text with its near duplicates (one of another tenant, one
\* that states another number and is stale), a lineage in two chunks, a chunk
\* with an instruction in it and a canary.
MCChunk ==
  LET s1 == [words |-> {"a", "b"}, number |-> 1]
      s2 == [words |-> {"a", "b"}, number |-> 2]
      s3 == [words |-> {"c"}, number |-> 0]
      s4 == [words |-> {"a", "d"}, number |-> 0]
      chunk == [text |-> {s1}, context |-> {s1, s3}, authority |-> 80, root |-> "r1", source |-> "wiki",
                tenant |-> "own", acl |-> "public", injected |-> FALSE, canary |-> FALSE, stale |-> FALSE]
  IN <<chunk,
       [chunk EXCEPT !.context = {s1}, !.authority = 60, !.tenant = "other"],
       [chunk EXCEPT !.text = {s2}, !.context = {s2}, !.root = "r2", !.authority = 60, !.stale = TRUE],
       [chunk EXCEPT !.text = {s3}, !.context = {s1, s3, s4}, !.authority = 50, !.source = "mail"],
       [chunk EXCEPT !.text = {s3}, !.context = {s3}, !.root = "r3", !.authority = 40, !.injected = TRUE, !.source = "mail"],
       [chunk EXCEPT !.text = {s4}, !.context = {s4}, !.canary = TRUE],
       [chunk EXCEPT !.text = {s4}, !.context = {s4, s1}, !.root = "r3"] >>

MCLegs == {<< <<1, 3>>, <<4, 7>> >>, << <<2, 1>>, <<1, 4>> >>, << <<4>>, <<1, 7>> >>, << << >>, << >> >>,
           << <<5, 4>>, <<3>> >>, << <<6>>, <<1>> >>, << <<7, 3>>, <<3>> >>, << <<7, 3>>, <<4>> >>}

MCQuestions == {{"a", "c"}, {"e"}, {}}
Claim(words, number, markers) == [words |-> words, number |-> number, markers |-> markers]
Sentence(leading, words, number, trailing) ==
  [leading |-> leading, words |-> words, number |-> number, trailing |-> trailing]
MCDrafts == {NoDraft, [claims |-> <<Claim({"a", "b"}, 2, {})>>, confidence |-> 8000],
             [claims |-> <<Claim({"c", "d"}, 0, {2}), Claim({"a", "b"}, 1, {})>>, confidence |-> 6500]}
MCAnswers == {<<Sentence({}, {"a", "b"}, 1, {}), Sentence({1}, {"c"}, 0, {9, -1})>>,
              <<Sentence({3}, {"a", "d"}, 0, {2})>>,
              <<Sentence({}, {"c", "e"}, 0, {-2}), Sentence({}, {"a", "b", "d"}, 0, {})>>}
MCSessionItems == <<[salience |-> 1, cost |-> 1]>>
MCLongTermItems == <<[salience |-> 2, cost |-> 2]>>

MCPieces == {<<"w">>, <<".">>, <<"_">>, <<"w", ".", "_", "_", "w">>, <<"|", "w", "w">>,
             <<"w", "_", "w", "|", ".">>}

Plain == [words |-> 6, question |-> TRUE, pronoun |-> FALSE, followup |-> FALSE, entities |-> FALSE,
          alias |-> "none", framing |-> "none", parts |-> 1]
RuleNames == {"arithmetic", "self_referential", "transform", "live_data", "exact_quotation",
              "private_scope", "citation_demand", "multi_hop"}
\* Every set of rules on a plain text, and a few on every kind of text.
MCAsks ==
  {[rules |-> r] @@ Plain : r \in SUBSET RuleNames \cup {{"greeting"}}}
    \cup [rules : {{}, {"private_scope", "multi_hop"}}, words : {2, 8}, question : {FALSE},
           pronoun : BOOLEAN, followup : BOOLEAN, entities : BOOLEAN, alias : {"none", "one form", "all forms"},
           framing : {"none", "politeness", "filler", "only"}, parts : {1, 3}]
MCOffers == {[enabled |-> TRUE, tier |-> TRUE, covered |-> c] : c \in {"none", "global", "tenant"}}
              \cup {[enabled |-> FALSE, tier |-> TRUE, covered |-> "tenant"],
                    [enabled |-> TRUE, tier |-> FALSE, covered |-> "tenant"]}
Burden(p, n, h) == [parametric |-> p, non_parametric |-> n, hybrid |-> h]
MCBurdens == {Burden([latency |-> 10, cost |-> 20], [latency |-> 30, cost |-> 40], [latency |-> 35, cost |-> 60]),
              Burden([latency |-> 600, cost |-> 20], [latency |-> 2000, cost |-> 40], [latency |-> 2400, cost |-> 60])}
MCUtilityWeights == [quality |-> 10, latency |-> 2, cost |-> 3]
MCSourceSpecs == <<[text |-> TRUE, vectors |-> FALSE, required |-> FALSE, max_top_k |-> 2],
                   [text |-> FALSE, vectors |-> TRUE, required |-> TRUE, max_top_k |-> 5]>>

\* Three requests in two conversations, two adapters: one question selects
\* both, the others the first.
MCSession == <<"s1", "s1", "s2">>
MCQueryTexts == <<{{}}, {{"pii"}, {"injection"}}, {{"pii", "control"}, {}}>>
MCAnswerTexts == <<{{"foreign marker"}}, {{}, {"secret", "foreign marker"}}, {{"canary"}, {}}>>
MCCoverage == << <<80, 70>>, <<70, 10>>, <<90, 40>> >>
MCMaxClaims == <<2, 0, 1>>
MCScreenings == <<{FALSE}, {TRUE}, {FALSE}>>
MCShadowings == <<BOOLEAN, {TRUE}, {TRUE}>>
MCFaults == <<{"none"}, {"none"}, {"none", "payload_limits"}>>
MCEndings == <<{}, {"abstention", "error"}, {"isolation violation", "crash"}>>

Init ==
  /\ side \in Sides
  /\ IF side = "evidence" THEN FlowInit
     ELSE /\ request = [question |-> {"a"}, private |-> FALSE, strict |-> FALSE, level |-> 0, window |-> 0,
                      session |-> FALSE]
          /\ legs = << >> /\ draft = NoDraft /\ quarantined = {} /\ phase = "asked"
          /\ groups = << >> /\ verdicts = {} /\ bundle = NoBundle /\ decision = NoDecision
          /\ envelope = NoEnvelope
  /\ StreamInit /\ RequestInit
  /\ IF side = "routing" THEN RoutingInit
     ELSE /\ ask = Nothing /\ offer = Nothing /\ quality = Nothing /\ step = "asked" /\ analysis = Nothing
          /\ strategy = Nothing /\ variants = OnlyRaw /\ ran = {} /\ plan = {}

Next ==
  \/ side = "evidence" /\ FlowNext /\ UNCHANGED <<side, streamVars, routingVars, requestVars>>
  \/ side = "stream" /\ StreamNext /\ UNCHANGED <<side, flowVars, routingVars, requestVars>>
  \/ side = "routing" /\ RoutingNext /\ UNCHANGED <<side, flowVars, streamVars, requestVars>>
  \/ side = "requests" /\ RequestNext /\ UNCHANGED <<side, flowVars, streamVars, routingVars>>

Spec == Init /\ [][Next]_<<side, flowVars, streamVars, routingVars, requestVars>>

=============================================================================
