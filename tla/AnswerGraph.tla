---------------------------- MODULE AnswerGraph ----------------------------
(***************************************************************************)
(* The two request graphs the platform ships (orchestration/nodes.py and   *)
(* orchestration/parametric.py), run by the engine of GraphEngine.         *)
(*                                                                         *)
(* A field of the request state is abstracted to what routing and the      *)
(* properties tell apart: whether it was produced and by whom.  A node's   *)
(* results are every way its code can end: what it returns, the abstention *)
(* or isolation violation it raises, a typed error (which the engine turns *)
(* into a failure) and an exception nothing catches.                       *)
(***************************************************************************)
EXTENDS Naturals, Sequences

CONSTANTS ParametricTier,  \* the parametric route is enabled
          Timeout,         \* the nodes' timeouts, in ticks
          Costs,           \* what a generation may cost
          WallTotal, UsdTotal

ASSUME TierAssumption == ParametricTier \in BOOLEAN
ASSUME CostAssumption == Costs \subseteq Nat

VARIABLES current, iteration, fields, events, wall, usd, level, path, outcome

-----------------------------------------------------------------------------
(* The graphs. *)

NoNode == "none"
Entry == "analyze"
AbstainNode == "abstain"
MaxSteps == 32
Always == "always"

Node == {"analyze", "retrieve", "build_context", "generate", "abstain"}
        \cup (IF ParametricTier THEN {"parametric", "shadow"} ELSE {})
Terminals == Node \cap {"shadow", "generate", "abstain"}

Edge(to, when) == [to |-> to, when |-> when]

\* (a draft goes straight to the shadow node)
EdgesUnshadowed == [n \in Node |->
    CASE n = "analyze"       -> <<Edge("parametric", "route_parametric"), Edge("retrieve", Always)>>
      [] n = "parametric"    -> <<Edge("shadow", Always)>>
      [] n = "retrieve"      -> <<Edge("build_context", Always)>>
      [] n = "build_context" -> <<Edge("generate", Always)>>
      [] OTHER               -> <<>>]

Edges == [n \in Node |->
    CASE n = "analyze"       -> (IF ParametricTier
                                 THEN <<Edge("parametric", "route_parametric")>> ELSE <<>>)
                                \o <<Edge("retrieve", Always)>>
      [] n = "parametric"    -> <<Edge("retrieve", Always)>>
      [] n = "retrieve"      -> (IF ParametricTier
                                 THEN <<Edge("shadow", "has_parametric_draft")>> ELSE <<>>)
                                \o <<Edge("build_context", Always)>>
      [] n = "build_context" -> <<Edge("generate", Always)>>
      [] OTHER               -> <<>>]

Fallback == [n \in Node |->
    CASE n = "parametric" -> "retrieve" [] n = "shadow" -> "build_context" [] OTHER -> NoNode]

-----------------------------------------------------------------------------
(* The request state. *)

Field == {"raw_query", "analysis", "strategy", "variants", "plan", "pool", "evidence",
          "parametric", "bundle", "decision", "spec", "result"}
Unset == "unset"
InitFields == [f \in Field |-> CASE f = "raw_query" -> "query"
                                 [] f = "evidence"  -> "empty"
                                 [] OTHER           -> Unset]

Reads == [n \in Node |->
    CASE n = "analyze"    -> {"raw_query"}
      [] n = "parametric" -> {"analysis", "strategy"}
      [] n = "retrieve"   -> {"analysis"}
      [] n = "shadow"     -> {"analysis", "parametric", "spec"}
      [] n = "build_context" -> {"analysis"}
      [] n = "generate"   -> {"bundle", "spec", "decision"}
      [] n = "abstain"    -> {}]

Writes == [n \in Node |->
    CASE n = "analyze"    -> {"analysis", "strategy", "variants"}
      [] n = "parametric" -> {"parametric", "spec"}
      [] n = "retrieve"   -> {"plan", "pool", "evidence"}
      [] n = "shadow"     -> {"result", "decision"}
      [] n = "build_context" -> {"bundle", "spec", "decision"}
      [] n = "generate"   -> {"result"}
      [] n = "abstain"    -> {"result"}]

\* (a declined parametric route still counts as a draft)
HoldsWithoutDraft(condition, f) ==
    CASE condition = "route_parametric"     -> f["strategy"] = "PARAMETRIC"
      [] condition = "has_parametric_draft" -> f["strategy"] = "PARAMETRIC"

Holds(condition, f) ==
    CASE condition = "route_parametric"     -> f["strategy"] = "PARAMETRIC"
      [] condition = "has_parametric_draft" -> f["parametric"] = "draft"

-----------------------------------------------------------------------------
(* What each node may do. *)

\* The state with the fields of the record u replaced.
Advanced(f, u) == [x \in Field |-> IF x \in DOMAIN u THEN u[x] ELSE f[x]]

Ok(f, u, es, cost) ==
    [status |-> "ok", fields |-> Advanced(f, u), events |-> es, next |-> NoNode, usd |-> cost]

Ends(f, st, es) == [status |-> st, fields |-> f, events |-> es, next |-> NoNode, usd |-> 0]

AnalyzeResults(f) ==
    {Ok(f, [analysis |-> "done", strategy |-> s, variants |-> "done"], <<>>, 0) :
        s \in {"PARAMETRIC", "NON_PARAMETRIC", "HYBRID"}}
    \cup {Ends(f, st, <<>>) : st \in {"failed", "crashed"}}

\* No adapter selected, a draft below the floor, an adapter that would not
\* load: failures all.  An adapter of another tenant is a breach.
ParametricResults(f) ==
    {Ok(f, [parametric |-> "draft", spec |-> "adapters"], <<>>, c) : c \in Costs}
    \cup {Ends(f, st, <<>>) : st \in {"failed", "breached", "crashed"}}

RetrieveResults(f) ==
    {Ok(f, [plan |-> "done", pool |-> "done", evidence |-> e], <<>>, 0) :
        e \in {"empty", "some"}}
    \cup {Ends(f, st, <<>>) : st \in {"failed", "breached", "crashed"}}

Conflict == "PARAMETRIC_RETRIEVAL_CONFLICT"
Served == "PARAMETRIC_SERVED"

\* (the conflict is recorded and the draft served all the same)
ShadowServesAnyway(f) ==
    {Ok(f, [result |-> "draft", decision |-> "fused"], <<Served>>, 0)}
    \cup {Ends(f, st, <<>>) : st \in {"failed", "abstained", "crashed"}}
    \cup (IF f["evidence"] = "some"
          THEN {Ok(f, [result |-> "draft", decision |-> "fused"], <<Conflict>>, 0)} ELSE {})

\* Evidence that contradicts the draft fails the node, one event per
\* contradicted claim; the policy's gates may refuse to answer at all.
ShadowResults(f) ==
    {Ok(f, [result |-> "draft", decision |-> "fused"], <<Served>>, 0)}
    \cup {Ends(f, st, <<>>) : st \in {"failed", "abstained", "crashed"}}
    \cup (IF f["evidence"] = "some"
          THEN {Ends(f, "failed", es) : es \in {<<Conflict>>, <<Conflict, Conflict>>}} ELSE {})

\* Nothing is assembled without evidence.
BuildContextResults(f) ==
    IF f["evidence"] = "empty" THEN {Ends(f, "abstained", <<>>)}
    ELSE {Ok(f, [bundle |-> "built", spec |-> "profile", decision |-> "fused"], <<>>, 0)}
         \cup {Ends(f, st, <<>>) : st \in {"abstained", "failed", "crashed"}}

GenerateResults(f) ==
    {Ok(f, [result |-> "grounded"], <<>>, c) : c \in Costs}
    \cup {Ends(f, st, <<>>) : st \in {"failed", "crashed"}}

AbstainResults(f) == {Ok(f, [result |-> "abstention"], <<>>, 0)}

NodeResults(n, f) ==
    CASE n = "analyze"       -> AnalyzeResults(f)
      [] n = "parametric"    -> ParametricResults(f)
      [] n = "retrieve"      -> RetrieveResults(f)
      [] n = "shadow"        -> ShadowResults(f)
      [] n = "build_context" -> BuildContextResults(f)
      [] n = "generate"      -> GenerateResults(f)
      [] n = "abstain"       -> AbstainResults(f)

\* The abstention node awaits nothing, so its timeout cannot cut it off.
Suspends == Node \ {"abstain"}

INSTANCE GraphEngine

-----------------------------------------------------------------------------
(* Properties of the shipped graphs. *)

Conflicted == \E i \in DOMAIN events : events[i] = Conflict

\* No order of failures, fallbacks, timeouts and diversions schedules a node
\* before its inputs, strands the traversal or wears out the step cap.
NeverMisconfigured == outcome # "misconfigured"

\* The evidence wins: once a conflict with the evidence is on record the draft
\* is never what the request answers, and no event says it was served.
EvidenceWins ==
    Conflicted => /\ fields["result"] # "draft"
                  /\ \A i \in DOMAIN events : events[i] # Served

\* A draft reaches the caller only from a traversal that retrieved after
\* drafting, and the monitor hears of it exactly once.
DraftsAreShadowed ==
    /\ fields["result"] = "draft" =>
          /\ path[Len(path)].node = "shadow"
          /\ \E i, j \in DOMAIN path : /\ i < j
                                       /\ path[i].node = "parametric" /\ path[i].status = "ok"
                                       /\ path[j].node = "retrieve" /\ path[j].status = "ok"
    /\ fields["result"] = "draft" <=> events = <<Served>>

\* A request that runs out of budget before its last node still gets an
\* envelope that says so.
BrokeRequestsAbstain ==
    (outcome = "running" /\ level = 6) ~> (outcome = "completed" /\ fields["result"] = "abstention")
=============================================================================
