------------------------- MODULE AnswerGraphProofs -------------------------
(***************************************************************************)
(* Theorems about the shipped request graphs, with and without the         *)
(* parametric tier, for every budget, every timeout and every cost.        *)
(***************************************************************************)
EXTENDS AnswerGraph, SequenceTheorems, WellFoundedInduction, TLAPS

Conflicts == {<<>>, <<Conflict>>, <<Conflict, Conflict>>}

\* Nodes that can still run once a conflict is on record.
AfterConflict == {"build_context", "generate", "abstain", NoNode}

\* The draft has been served and the traversal is over, or it has not been
\* served and every event so far is a conflict; after a conflict the traversal
\* is past the nodes that could still serve it.
DraftInv ==
    /\ \/ events = <<Served>> /\ outcome = "completed"
       \/ events \in Conflicts /\ fields["result"] # "draft"
    /\ (outcome = "running" /\ events # <<>>) => current \in AfterConflict

-----------------------------------------------------------------------------
(* What the nodes return. *)

\* No node but the shadow node emits an event or answers with the draft, and no
\* node overrides its edge.
LEMMA QuietNodes ==
  ASSUME NEW n \in Node, n # "shadow", NEW f, NEW r \in NodeResults(n, f)
  PROVE  /\ r.events = <<>> /\ r.next = NoNode
         /\ r.fields["result"] = f["result"] \/ r.fields["result"] # "draft"
<1>1. ASSUME NEW st, NEW es
      PROVE  /\ Ends(f, st, es).events = es /\ Ends(f, st, es).next = NoNode
             /\ Ends(f, st, es).fields = f
  BY DEF Ends
<1>2. ASSUME NEW u, NEW es, NEW c, "result" \notin DOMAIN u
      PROVE  /\ Ok(f, u, es, c).events = es /\ Ok(f, u, es, c).next = NoNode
             /\ Ok(f, u, es, c).fields["result"] = f["result"]
  BY <1>2 DEF Ok, Advanced, Field
<1>3. ASSUME NEW v, NEW es, NEW c
      PROVE  /\ Ok(f, [result |-> v], es, c).events = es
             /\ Ok(f, [result |-> v], es, c).next = NoNode
             /\ Ok(f, [result |-> v], es, c).fields["result"] = v
  BY DEF Ok, Advanced, Field
<1>4. CASE n = "analyze"
  BY <1>1, <1>2, <1>4 DEF NodeResults, AnalyzeResults
<1>5. CASE n = "parametric"
  BY <1>1, <1>2, <1>5 DEF NodeResults, ParametricResults
<1>6. CASE n = "retrieve"
  BY <1>1, <1>2, <1>6 DEF NodeResults, RetrieveResults
<1>7. CASE n = "build_context"
  BY <1>1, <1>2, <1>7 DEF NodeResults, BuildContextResults
<1>8. CASE n = "generate"
  BY <1>1, <1>3, <1>8 DEF NodeResults, GenerateResults
<1>9. CASE n = "abstain"
  BY <1>3, <1>9 DEF NodeResults, AbstainResults
<1> QED BY <1>4, <1>5, <1>6, <1>7, <1>8, <1>9 DEF Node

\* The shadow node serves the draft, or leaves the fields alone and says at
\* most that there were conflicts.
LEMMA ShadowServesOrYields ==
  ASSUME NEW f, NEW r \in NodeResults("shadow", f)
  PROVE  /\ r.next = NoNode
         /\ \/ r.status = "ok" /\ r.events = <<Served>>
            \/ r.status # "ok" /\ r.events \in Conflicts /\ r.fields = f
BY DEF NodeResults, ShadowResults, Ok, Ends, Conflicts

\* A node that succeeds produces every field it declares and touches no other;
\* one that does not leaves the fields alone.
LEMMA DeclaredResults ==
  ASSUME NEW n \in Node, NEW f, DOMAIN f = Field, NEW r \in NodeResults(n, f)
  PROVE  /\ r.next = NoNode
         /\ r.status # "ok" => r.fields = f
         /\ r.status = "ok" =>
              /\ DOMAIN r.fields = Field
              /\ \A x \in Field : IF x \in Writes[n] THEN r.fields[x] # Unset ELSE r.fields[x] = f[x]
<1>1. ASSUME NEW u, NEW es, NEW c, DOMAIN u = Writes[n], \A x \in Writes[n] : u[x] # Unset
      PROVE  LET q == Ok(f, u, es, c)
             IN  /\ q.next = NoNode /\ q.status = "ok"
                 /\ DOMAIN q.fields = Field
                 /\ \A x \in Field : IF x \in Writes[n] THEN q.fields[x] # Unset ELSE q.fields[x] = f[x]
  BY <1>1 DEF Ok, Advanced
<1>2. ASSUME NEW st, NEW es
      PROVE  Ends(f, st, es).next = NoNode /\ Ends(f, st, es).status = st /\ Ends(f, st, es).fields = f
  BY DEF Ends
<1>3. CASE n = "analyze"
  <2>1. Writes[n] = {"analysis", "strategy", "variants"}
    BY <1>3 DEF Writes
  <2> QED BY <1>1, <1>2, <1>3, <2>1 DEF NodeResults, AnalyzeResults, Unset
<1>4. CASE n = "parametric"
  <2>1. Writes[n] = {"parametric", "spec"}
    BY <1>4 DEF Writes
  <2> QED BY <1>1, <1>2, <1>4, <2>1 DEF NodeResults, ParametricResults, Unset
<1>5. CASE n = "retrieve"
  <2>1. Writes[n] = {"plan", "pool", "evidence"}
    BY <1>5 DEF Writes
  <2> QED BY <1>1, <1>2, <1>5, <2>1 DEF NodeResults, RetrieveResults, Unset
<1>6. CASE n = "shadow"
  <2>1. Writes[n] = {"result", "decision"}
    BY <1>6 DEF Writes
  <2> QED BY <1>1, <1>2, <1>6, <2>1 DEF NodeResults, ShadowResults, Unset
<1>7. CASE n = "build_context"
  <2>1. Writes[n] = {"bundle", "spec", "decision"}
    BY <1>7 DEF Writes
  <2> QED BY <1>1, <1>2, <1>7, <2>1 DEF NodeResults, BuildContextResults, Unset
<1>8. CASE n = "generate"
  <2>1. Writes[n] = {"result"}
    BY <1>8 DEF Writes
  <2> QED BY <1>1, <1>2, <1>8, <2>1 DEF NodeResults, GenerateResults, Unset
<1>9. CASE n = "abstain"
  <2>1. Writes[n] = {"result"}
    BY <1>9 DEF Writes
  <2> QED BY <1>1, <1>9, <2>1 DEF NodeResults, AbstainResults, Unset
<1> QED BY <1>3, <1>4, <1>5, <1>6, <1>7, <1>8, <1>9 DEF Node

-----------------------------------------------------------------------------
(* Where the traversal goes. *)

\* A set of numbers has a least one.
LEMMA LeastElement ==
  ASSUME NEW S \in SUBSET Nat, S # {}
  PROVE  Min(S) \in S
<1>1. PICK x \in S : \A y \in S : <<y, x>> \notin OpToRel(<, Nat)
  BY NatLessThanWellFounded, WFMin
<1>2. \A y \in S : y < x => <<y, x>> \in OpToRel(<, Nat)
  BY DEF OpToRel
<1>3. \A y \in S : x =< y
  <2> TAKE y \in S
  <2>1. ~ (y < x)
    BY <1>1, <1>2, Zenon
  <2> QED BY <2>1
<1> QED BY <1>3 DEF Min

\* Where one of a node's edges is always open, the traversal follows an open one.
LEMMA NextNodeIsOpen ==
  ASSUME NEW n \in Node, NEW f, DOMAIN Edges[n] \subseteq Nat,
         \E i \in DOMAIN Edges[n] : Edges[n][i].when = Always
  PROVE  \E i \in DOMAIN Edges[n] :
           /\ NextNode(n, f) = Edges[n][i].to
           /\ Edges[n][i].when = Always \/ Holds(Edges[n][i].when, f)
<1> DEFINE open == {i \in DOMAIN Edges[n] : Edges[n][i].when = Always
                                             \/ Holds(Edges[n][i].when, f)}
<1>1. open # {} /\ open \in SUBSET Nat
  OBVIOUS
<1>2. NextNode(n, f) = Edges[n][Min(open)].to
  BY <1>1 DEF NextNode
<1>3. Min(open) \in open
  <2> HIDE DEF open
  <2> QED BY <1>1, LeastElement
<1> QED BY <1>2, <1>3

\* Two edges in a row.
LEMMA TwoEdges ==
  ASSUME NEW a, NEW b
  PROVE  <<a>> \o <<b>> = <<a, b>>
<1>1. <<a>> \in Seq({a, b}) /\ b \in {a, b}
  OBVIOUS
<1>2. <<a>> \o <<b>> = Append(<<a>>, b)
  BY <1>1, AppendIsConcat
<1>3. /\ Append(<<a>>, b) \in Seq({a, b}) /\ Len(Append(<<a>>, b)) = 2
      /\ Append(<<a>>, b)[1] = a /\ Append(<<a>>, b)[2] = b
  BY <1>1, AppendProperties
<1>4. <<a, b>> \in Seq({a, b}) /\ Len(<<a, b>>) = 2
  OBVIOUS
<1>5. \A i \in 1 .. 2 : Append(<<a>>, b)[i] = <<a, b>>[i]
  BY <1>3
<1>6. Append(<<a>>, b) = <<a, b>>
  BY <1>3, <1>4, <1>5, SeqEqual
<1> QED BY <1>2, <1>6

\* The shadow node is reached along an edge only with a draft to check.
LEMMA EdgesLeadOn ==
  ASSUME NEW f
  PROVE  /\ \/ NextNode("analyze", f) = "retrieve"
            \/ ParametricTier /\ NextNode("analyze", f) = "parametric"
         /\ ParametricTier => NextNode("parametric", f) = "retrieve"
         /\ \/ NextNode("retrieve", f) = "build_context"
            \/ ParametricTier /\ f["parametric"] = "draft" /\ NextNode("retrieve", f) = "shadow"
         /\ NextNode("build_context", f) = "generate"
<1>1. /\ {"analyze", "retrieve", "build_context"} \subseteq Node
      /\ ParametricTier => "parametric" \in Node
  BY DEF Node
<1>2. \/ NextNode("analyze", f) = "retrieve"
      \/ ParametricTier /\ NextNode("analyze", f) = "parametric"
  <2>1. CASE ParametricTier
    <3>1. Edges["analyze"] = <<Edge("parametric", "route_parametric"), Edge("retrieve", Always)>>
      BY <1>1, <2>1, TwoEdges DEF Edges
    <3>2. /\ DOMAIN Edges["analyze"] = 1 .. 2
          /\ Edges["analyze"][1].to = "parametric" /\ Edges["analyze"][2].to = "retrieve"
          /\ Edges["analyze"][2].when = Always
      BY <3>1 DEF Edge
    <3>3. \E i \in DOMAIN Edges["analyze"] : NextNode("analyze", f) = Edges["analyze"][i].to
      BY <1>1, <3>2, NextNodeIsOpen
    <3> QED BY <2>1, <3>2, <3>3
  <2>2. CASE ~ParametricTier
    <3>1. Edges["analyze"] = <<Edge("retrieve", Always)>>
      BY <1>1, <2>2 DEF Edges
    <3>2. /\ DOMAIN Edges["analyze"] = 1 .. 1
          /\ Edges["analyze"][1].to = "retrieve" /\ Edges["analyze"][1].when = Always
      BY <3>1 DEF Edge
    <3>3. \E i \in DOMAIN Edges["analyze"] : NextNode("analyze", f) = Edges["analyze"][i].to
      BY <1>1, <3>2, NextNodeIsOpen
    <3> QED BY <3>2, <3>3
  <2> QED BY <2>1, <2>2
<1>3. ASSUME ParametricTier PROVE NextNode("parametric", f) = "retrieve"
  <2>1. Edges["parametric"] = <<Edge("retrieve", Always)>>
    BY <1>1, <1>3 DEF Edges
  <2>2. /\ DOMAIN Edges["parametric"] = 1 .. 1
        /\ Edges["parametric"][1].to = "retrieve" /\ Edges["parametric"][1].when = Always
    BY <2>1 DEF Edge
  <2>3. \E i \in DOMAIN Edges["parametric"] : NextNode("parametric", f) = Edges["parametric"][i].to
    BY <1>1, <1>3, <2>2, NextNodeIsOpen
  <2> QED BY <2>2, <2>3
<1>4. \/ NextNode("retrieve", f) = "build_context"
      \/ ParametricTier /\ f["parametric"] = "draft" /\ NextNode("retrieve", f) = "shadow"
  <2>1. CASE ParametricTier
    <3>1. Edges["retrieve"] = <<Edge("shadow", "has_parametric_draft"), Edge("build_context", Always)>>
      BY <1>1, <2>1, TwoEdges DEF Edges
    <3>2. /\ DOMAIN Edges["retrieve"] = 1 .. 2
          /\ Edges["retrieve"][1].to = "shadow" /\ Edges["retrieve"][1].when = "has_parametric_draft"
          /\ Edges["retrieve"][2].to = "build_context" /\ Edges["retrieve"][2].when = Always
      BY <3>1 DEF Edge
    <3>3. PICK i \in DOMAIN Edges["retrieve"] :
                              /\ NextNode("retrieve", f) = Edges["retrieve"][i].to
                              /\ \/ Edges["retrieve"][i].when = Always
                                 \/ Holds(Edges["retrieve"][i].when, f)
      BY <1>1, <3>2, NextNodeIsOpen
    <3>4. CASE i = 1
      BY <2>1, <3>2, <3>3, <3>4 DEF Holds, Always
    <3>5. CASE i = 2
      BY <3>2, <3>3, <3>5
    <3> QED BY <3>2, <3>4, <3>5
  <2>2. CASE ~ParametricTier
    <3>1. Edges["retrieve"] = <<Edge("build_context", Always)>>
      BY <1>1, <2>2 DEF Edges
    <3>2. /\ DOMAIN Edges["retrieve"] = 1 .. 1
          /\ Edges["retrieve"][1].to = "build_context" /\ Edges["retrieve"][1].when = Always
      BY <3>1 DEF Edge
    <3>3. \E i \in DOMAIN Edges["retrieve"] : NextNode("retrieve", f) = Edges["retrieve"][i].to
      BY <1>1, <3>2, NextNodeIsOpen
    <3> QED BY <3>2, <3>3
  <2> QED BY <2>1, <2>2
<1>5. NextNode("build_context", f) = "generate"
  <2>1. Edges["build_context"] = <<Edge("generate", Always)>>
    BY <1>1 DEF Edges
  <2>2. /\ DOMAIN Edges["build_context"] = 1 .. 1
        /\ Edges["build_context"][1].to = "generate" /\ Edges["build_context"][1].when = Always
    BY <2>1 DEF Edge
  <2>3. \E i \in DOMAIN Edges["build_context"] : NextNode("build_context", f) = Edges["build_context"][i].to
    BY <1>1, <2>2, NextNodeIsOpen
  <2> QED BY <2>2, <2>3
<1> QED BY <1>2, <1>3, <1>4, <1>5

-----------------------------------------------------------------------------
(* The draft and the evidence. *)

\* A quiet node's result neither serves the draft nor leads back to it.
LEMMA RecordedStep ==
  ASSUME DraftInv, outcome = "running", current \in Node, current # "shadow",
         NEW r, NEW elapsed, Returns(r, elapsed),
         r.events = <<>>, r.next = NoNode,
         r.fields["result"] = fields["result"] \/ r.fields["result"] # "draft"
  PROVE  DraftInv'
<1>1. /\ events' = events /\ events \in Conflicts
      /\ fields' = r.fields /\ fields'["result"] # "draft"
  BY DEF Returns, Finish, Advance, FallBack, Fail, Record, DraftInv, Conflicts
<1>2. ASSUME outcome' = "running", events # <<>>
      PROVE  current' \in AfterConflict
  <2>1. current \in AfterConflict
    BY <1>2 DEF DraftInv
  <2>2. CASE current \in {"generate", "abstain"}
    <3>1. current \in Terminals /\ Fallback[current] = NoNode
      BY <2>2 DEF Terminals, Node, Fallback
    <3> QED BY <1>2, <3>1 DEF Returns, Finish, Advance, FallBack, Fail
  <2>3. CASE current = "build_context"
    <3>1. Fallback[current] = NoNode
      BY <2>3 DEF Fallback, Node
    <3>2. NextNode(current, r.fields) \in AfterConflict
      BY <2>3, EdgesLeadOn DEF AfterConflict
    <3> QED BY <1>2, <3>1, <3>2 DEF Returns, Finish, Advance, FallBack, Fail
  <2> QED BY <2>1, <2>2, <2>3 DEF AfterConflict, NoNode, Node
<1> QED BY <1>1, <1>2 DEF DraftInv

\* Every step keeps it.
LEMMA DraftInvKept == DraftInv /\ [Next]_vars => DraftInv'
<1> SUFFICES ASSUME DraftInv, [Next]_vars
             PROVE  DraftInv'
  OBVIOUS
<1>1. CASE Divert
  BY <1>1 DEF Divert, Stop, Checkpoint, Looping, DraftInv, AfterConflict, AbstainNode
<1>2. CASE UnknownNode \/ UnreadyInputs \/ ExceedCap
  BY <1>2 DEF UnknownNode, UnreadyInputs, ExceedCap, Stop, Checkpoint, Looping,
              DraftInv
<1>3. ASSUME NEW n \in Node, RunNode(n)
      PROVE  DraftInv'
  <2>1. current = n
    BY <1>3 DEF RunNode
  <2>2. ASSUME NEW r, UndeclaredWrite(r) \/ Raise(r)
        PROVE  DraftInv'
    BY <2>2 DEF UndeclaredWrite, Raise, Stop, Start, Checkpoint, Looping, DraftInv
  <2>3. ASSUME NEW r \in NodeResults(n, fields), NEW elapsed, Returns(r, elapsed)
        PROVE  DraftInv'
    <3>1. outcome = "running"
      BY <2>3 DEF Returns, Finish, Advance, FallBack, Fail, Start, Checkpoint, Looping
    <3>2. CASE n # "shadow"
      BY <2>1, <2>3, <3>1, <3>2, QuietNodes, RecordedStep
    <3>3. CASE n = "shadow"
      <4>1. events = <<>> /\ fields["result"] # "draft"
        BY <2>1, <3>1, <3>3 DEF DraftInv, AfterConflict, NoNode
      <4>2. Fallback[current] = "build_context" /\ current \in Terminals
        BY <2>1, <3>3 DEF Fallback, Terminals, Node
      <4>3. CASE r.status = "ok" /\ r.events = <<Served>>
        BY <2>3, <4>1, <4>2, <4>3 DEF Returns, Finish, Advance, FallBack, Fail, Record, DraftInv
      <4>4. CASE r.status # "ok" /\ r.events \in Conflicts /\ r.fields = fields
        <5>1. events' \in Conflicts /\ fields' = fields /\ current' = "build_context"
          BY <2>3, <4>1, <4>2, <4>4
             DEF Returns, Finish, Advance, FallBack, Fail, Record, Conflicts, NoNode
        <5> QED BY <4>1, <5>1 DEF DraftInv, AfterConflict
      <4> QED BY <3>3, <4>3, <4>4, ShadowServesOrYields
    <3> QED BY <3>2, <3>3
  <2>4. ASSUME NEW elapsed, Returns(TimedOut, elapsed)
        PROVE  DraftInv'
    <3>1. outcome = "running"
      BY <2>4 DEF Returns, Finish, Advance, FallBack, Fail, Start, Checkpoint, Looping
    <3>2. TimedOut.events = <<>> /\ TimedOut.next = NoNode /\ TimedOut.fields = fields
          /\ TimedOut.status = "timed_out"
      BY DEF TimedOut
    <3>3. CASE n # "shadow"
      BY <2>1, <2>4, <3>1, <3>2, <3>3, RecordedStep
    <3>4. CASE n = "shadow"
      <4>1. events = <<>> /\ fields["result"] # "draft"
        BY <2>1, <3>1, <3>4 DEF DraftInv, AfterConflict, NoNode
      <4>2. events' = <<>> /\ fields' = fields
        BY <2>4, <3>2, <4>1 DEF Returns, Finish, Advance, FallBack, Fail, Record
      <4> QED BY <4>1, <4>2 DEF DraftInv, Conflicts
    <3> QED BY <3>3, <3>4
  <2> QED BY <1>3, <2>2, <2>3, <2>4 DEF RunNode
<1>4. CASE UNCHANGED vars
  BY <1>4 DEF vars, DraftInv
<1> QED BY <1>1, <1>2, <1>3, <1>4 DEF Next

\* Once a conflict with the evidence is on record the draft is never what the
\* request answers and no event says it was served: neither the fallback path
\* after ShadowNode nor a diversion can bring the draft back.
THEOREM EvidenceAlwaysWins == Spec => []EvidenceWins
<1>1. Init => DraftInv
  BY DEF Init, DraftInv, Conflicts, InitFields, Field, Unset
<1>2. DraftInv => EvidenceWins
  BY DEF DraftInv, EvidenceWins, Conflicted, Conflicts, Conflict, Served
<1> QED BY <1>1, <1>2, DraftInvKept, PTL DEF Spec

-----------------------------------------------------------------------------
(* Inputs before their readers. *)

\* A number for each node that only grows along edges, fallbacks and diversions.
Position == [n \in Node |->
    CASE n = "analyze"  -> 1 [] n = "parametric"    -> 2 [] n = "retrieve" -> 3
      [] n = "shadow"   -> 4 [] n = "build_context" -> 5 [] n = "generate" -> 6
      [] n = "abstain"  -> 7]

\* The node that is to run next has its inputs, and an iteration is left for it.
ReadyAt(n, f) ==
    /\ n \in Node
    /\ \A x \in Reads[n] : f[x] # Unset
    /\ n \notin {"analyze", "abstain"} => f["analysis"] # Unset

ReadyInv ==
    /\ outcome # "misconfigured"
    /\ outcome = "running" =>
          /\ ReadyAt(current, fields)
          /\ iteration \in Nat /\ iteration < Position[current]
          /\ DOMAIN fields = Field
          /\ fields["parametric"] # Unset => fields["spec"] # Unset

\* A node that ended, in whatever way, leaves the next one its inputs.
LEMMA ReadyStep ==
  ASSUME ReadyInv, outcome = "running", NEW r, NEW elapsed, Returns(r, elapsed),
         r.next = NoNode,
         r.status # "ok" => r.fields = fields,
         r.status = "ok" =>
           /\ DOMAIN r.fields = Field
           /\ \A x \in Field : IF x \in Writes[current] THEN r.fields[x] # Unset
                               ELSE r.fields[x] = fields[x]
  PROVE  ReadyInv'
<1>1. /\ outcome' # "misconfigured" /\ fields' = r.fields /\ iteration' = iteration + 1
      /\ outcome' = "running" \/ outcome' \in {"completed", "failed"}
  BY DEF Returns, Finish, Advance, FallBack, Fail, Start, Checkpoint, Record
<1> SUFFICES ASSUME outcome' = "running" PROVE ReadyInv'
  BY <1>1 DEF ReadyInv
<1>2. \/ /\ r.status = "ok" /\ current \notin Terminals
         /\ current' = NextNode(current, r.fields)
      \/ /\ r.status # "ok" /\ Fallback[current] # NoNode
         /\ current' = Fallback[current]
  BY DEF Returns, Finish, Advance, FallBack, Fail
<1>3. /\ current \in Node /\ iteration \in Nat /\ iteration < Position[current]
      /\ DOMAIN fields = Field
  BY DEF ReadyInv, ReadyAt
<1>4. fields["parametric"] # Unset => fields["spec"] # Unset
  BY DEF ReadyInv
<1>5. CASE current = "analyze"
  <2>1. Fallback[current] = NoNode
    BY <1>3, <1>5 DEF Fallback
  <2>2. Writes[current] = {"analysis", "strategy", "variants"}
    BY <1>3, <1>5 DEF Writes
  <2>3. current' = "retrieve" \/ (ParametricTier /\ current' = "parametric")
    BY <1>2, <1>5, <2>1, EdgesLeadOn
  <2>4. /\ fields'["analysis"] # Unset /\ fields'["strategy"] # Unset /\ DOMAIN fields' = Field
        /\ fields'["parametric"] = fields["parametric"] /\ fields'["spec"] = fields["spec"]
    BY <1>1, <1>2, <2>1, <2>2 DEF Field
  <2> QED BY <1>1, <1>3, <1>4, <1>5, <2>3, <2>4 DEF ReadyInv, ReadyAt, Reads, Node, Position
<1>6. CASE current = "parametric"
  <2>1. Writes[current] = {"parametric", "spec"} /\ ParametricTier
    BY <1>3, <1>6 DEF Writes, Node
  <2>2. current' = "retrieve"
    BY <1>2, <1>3, <1>6, <2>1, EdgesLeadOn DEF Fallback
  <2>3. fields["analysis"] # Unset
    BY <1>6 DEF ReadyInv, ReadyAt
  <2>4. /\ fields'["analysis"] # Unset /\ DOMAIN fields' = Field
        /\ fields'["parametric"] # Unset => fields'["spec"] # Unset
    BY <1>1, <1>2, <1>3, <1>4, <2>1, <2>3 DEF Field
  <2> QED BY <1>1, <1>3, <1>6, <2>2, <2>4 DEF ReadyInv, ReadyAt, Reads, Node, Position
<1>7. CASE current = "retrieve"
  <2>1. Writes[current] = {"plan", "pool", "evidence"} /\ Fallback[current] = NoNode
    BY <1>3, <1>7 DEF Writes, Fallback
  <2>2. fields["analysis"] # Unset
    BY <1>7 DEF ReadyInv, ReadyAt
  <2>3. /\ fields'["analysis"] # Unset /\ DOMAIN fields' = Field
        /\ fields'["parametric"] = fields["parametric"] /\ fields'["spec"] = fields["spec"]
    BY <1>1, <1>2, <2>1, <2>2 DEF Field
  <2>4. \/ current' = "build_context"
        \/ ParametricTier /\ fields'["parametric"] = "draft" /\ current' = "shadow"
    BY <1>1, <1>2, <1>7, <2>1, EdgesLeadOn
  <2>5. CASE current' = "build_context"
    BY <1>1, <1>3, <1>4, <1>7, <2>3, <2>5 DEF ReadyInv, ReadyAt, Reads, Node, Position
  <2>6. CASE ParametricTier /\ fields'["parametric"] = "draft" /\ current' = "shadow"
    BY <1>1, <1>3, <1>4, <1>7, <2>3, <2>6 DEF ReadyInv, ReadyAt, Reads, Node, Position, Unset
  <2> QED BY <2>4, <2>5, <2>6
<1>8. CASE current = "shadow"
  <2>1. current \in Terminals /\ Fallback[current] = "build_context"
    BY <1>3, <1>8 DEF Terminals, Fallback
  <2>2. current' = "build_context" /\ fields' = fields
    BY <1>1, <1>2, <2>1
  <2>3. fields["analysis"] # Unset
    BY <1>8 DEF ReadyInv, ReadyAt
  <2> QED BY <1>1, <1>3, <1>4, <1>8, <2>2, <2>3 DEF ReadyInv, ReadyAt, Reads, Node, Position
<1>9. CASE current = "build_context"
  <2>1. Writes[current] = {"bundle", "spec", "decision"} /\ Fallback[current] = NoNode
    BY <1>3, <1>9 DEF Writes, Fallback
  <2>2. fields["analysis"] # Unset
    BY <1>9 DEF ReadyInv, ReadyAt
  <2>3. /\ fields'["analysis"] # Unset /\ DOMAIN fields' = Field
        /\ fields'["bundle"] # Unset /\ fields'["spec"] # Unset /\ fields'["decision"] # Unset
    BY <1>1, <1>2, <2>1, <2>2 DEF Field
  <2>4. current' = "generate"
    BY <1>2, <1>9, <2>1, EdgesLeadOn
  <2> QED BY <1>1, <1>3, <1>9, <2>3, <2>4 DEF ReadyInv, ReadyAt, Reads, Node, Position
<1>10. CASE current \in {"generate", "abstain"}
  <2>1. current \in Terminals /\ Fallback[current] = NoNode
    BY <1>3, <1>10 DEF Terminals, Fallback, Node
  <2> QED BY <1>2, <2>1
<1> QED BY <1>3, <1>5, <1>6, <1>7, <1>8, <1>9, <1>10 DEF Node

\* Every step keeps it.
LEMMA ReadyInvKept == ReadyInv /\ [Next]_vars => ReadyInv'
<1> SUFFICES ASSUME ReadyInv, [Next]_vars
             PROVE  ReadyInv'
  OBVIOUS
<1>1. CASE Divert
  <2>1. /\ outcome = "running" /\ outcome' = "running" /\ current' = "abstain"
        /\ current # "abstain" /\ iteration' = iteration + 1 /\ fields' = fields
    BY <1>1 DEF Divert, Checkpoint, Looping, Affords, AbstainNode, NoNode
  <2>2. current \in Node /\ iteration \in Nat /\ iteration < Position[current]
    BY <2>1 DEF ReadyInv, ReadyAt
  <2>3. iteration < 6
    BY <2>1, <2>2 DEF Position, Node
  <2>4. "abstain" \in Node /\ Position["abstain"] = 7 /\ Reads["abstain"] = {}
    BY DEF Node, Position, Reads
  <2> QED BY <2>1, <2>2, <2>3, <2>4 DEF ReadyInv, ReadyAt
<1>2. CASE UnknownNode
  BY <1>2 DEF UnknownNode, Stop, Checkpoint, ReadyInv
<1>3. CASE UnreadyInputs
  BY <1>3 DEF UnreadyInputs, InputsReady, Checkpoint, Looping, ReadyInv, ReadyAt
<1>4. CASE ExceedCap
  <2>1. outcome = "running" /\ (iteration = MaxSteps \/ current = NoNode)
    BY <1>4 DEF ExceedCap
  <2>2. current \in Node /\ iteration \in Nat /\ iteration < Position[current]
    BY <2>1 DEF ReadyInv, ReadyAt
  <2>3. iteration < 7
    BY <2>2 DEF Position, Node
  <2> QED BY <2>1, <2>2, <2>3 DEF MaxSteps, NoNode, Node
<1>5. ASSUME NEW n \in Node, RunNode(n)
      PROVE  ReadyInv'
  <2>1. current = n
    BY <1>5 DEF RunNode
  <2>2. ASSUME NEW r \in NodeResults(n, fields), UndeclaredWrite(r)
        PROVE  ReadyInv'
    <3>1. outcome = "running" /\ r.status = "ok" /\ ~Declared(r)
      BY <2>2 DEF UndeclaredWrite, Start, Checkpoint, Looping
    <3>2. DOMAIN fields = Field
      BY <3>1 DEF ReadyInv
    <3>3. Declared(r)
      BY <2>1, <3>1, <3>2, DeclaredResults DEF Declared
    <3> QED BY <3>1, <3>3
  <2>3. ASSUME NEW r, Raise(r)
        PROVE  ReadyInv'
    BY <2>3 DEF Raise, Start, Checkpoint, Stop, ReadyInv
  <2>4. ASSUME NEW r \in NodeResults(n, fields), NEW elapsed, Returns(r, elapsed)
        PROVE  ReadyInv'
    <3>1. outcome = "running"
      BY <2>4 DEF Returns, Finish, Advance, FallBack, Fail, Start, Checkpoint, Looping
    <3>2. DOMAIN fields = Field
      BY <3>1 DEF ReadyInv
    <3> QED BY <2>1, <2>4, <3>1, <3>2, DeclaredResults, ReadyStep
  <2>5. ASSUME NEW elapsed, Returns(TimedOut, elapsed)
        PROVE  ReadyInv'
    <3>1. outcome = "running"
      BY <2>5 DEF Returns, Finish, Advance, FallBack, Fail, Start, Checkpoint, Looping
    <3>2. TimedOut.next = NoNode /\ TimedOut.status # "ok" /\ TimedOut.fields = fields
      BY DEF TimedOut
    <3> QED BY <2>5, <3>1, <3>2, ReadyStep
  <2> QED BY <1>5, <2>2, <2>3, <2>4, <2>5 DEF RunNode
<1>6. CASE UNCHANGED vars
  BY <1>6 DEF vars, ReadyInv, ReadyAt
<1> QED BY <1>1, <1>2, <1>3, <1>4, <1>5, <1>6 DEF Next

\* No order of failures, fallbacks, time-outs and diversions runs a node before
\* its inputs, lets it write what it does not declare, strands the traversal or
\* wears out the step cap, with and without the parametric tier.
THEOREM InputsAlwaysReady == Spec => []NeverMisconfigured
<1>1. Init => ReadyInv
  BY DEF Init, ReadyInv, ReadyAt, Entry, Node, Reads, Position, InitFields, Field, Unset
<1>2. ReadyInv => NeverMisconfigured
  BY DEF ReadyInv, NeverMisconfigured
<1> QED BY <1>1, <1>2, ReadyInvKept, PTL DEF Spec

-----------------------------------------------------------------------------
(* A draft is checked before it is served. *)

Did(n) == [node |-> n, status |-> "ok"]

Drafted == \E i \in DOMAIN path : path[i] = Did("parametric")

DraftedThenRetrieved ==
    \E i, j \in DOMAIN path : i < j /\ path[i] = Did("parametric") /\ path[j] = Did("retrieve")

Steps == [node : Node, status : {"ok", "failed", "timed_out"}]

\* What the traversal has behind it, at every node it comes to.
ShadowInv ==
    /\ path \in Seq(Steps)
    /\ fields["result"] = "draft" <=> events = <<Served>>
    /\ fields["result"] = "draft" => DraftedThenRetrieved /\ path[Len(path)].node = "shadow"
    /\ outcome = "running" =>
          /\ fields["parametric"] = "draft" => Drafted
          /\ current = "shadow" => DraftedThenRetrieved

\* What was done stays done when a step is recorded.
LEMMA RecordKeepsHistory ==
  ASSUME path \in Seq(Steps), NEW step \in Steps, path' = Append(path, step)
  PROVE  /\ path' \in Seq(Steps) /\ Len(path') = Len(path) + 1
         /\ path'[Len(path')] = step
         /\ Drafted => Drafted'
         /\ DraftedThenRetrieved => DraftedThenRetrieved'
         /\ step = Did("parametric") => Drafted'
         /\ Drafted /\ step = Did("retrieve") => DraftedThenRetrieved'
<1>1. /\ path' \in Seq(Steps) /\ Len(path') = Len(path) + 1 /\ Len(path) \in Nat
      /\ \A i \in 1 .. Len(path) : path'[i] = path[i]
      /\ path'[Len(path) + 1] = step
  BY AppendProperties
<1>2. DOMAIN path = 1 .. Len(path) /\ DOMAIN path' = 1 .. (Len(path) + 1)
  BY <1>1
<1>3. Drafted => Drafted'
  BY <1>1, <1>2 DEF Drafted, Did
<1>4. DraftedThenRetrieved => DraftedThenRetrieved'
  BY <1>1, <1>2 DEF DraftedThenRetrieved, Did
<1>5. step = Did("parametric") => Drafted'
  BY <1>1, <1>2 DEF Drafted, Did
<1>6. ASSUME Drafted, step = Did("retrieve") PROVE DraftedThenRetrieved'
  <2>1. PICK i \in 1 .. Len(path) : path[i] = Did("parametric")
    BY <1>2, <1>6 DEF Drafted
  <2>2. /\ i \in DOMAIN path' /\ Len(path) + 1 \in DOMAIN path' /\ i < Len(path) + 1
        /\ path'[i] = Did("parametric") /\ path'[Len(path) + 1] = Did("retrieve")
    BY <1>1, <1>2, <1>6, <2>1
  <2> QED BY <2>2 DEF DraftedThenRetrieved, Did
<1> QED BY <1>1, <1>3, <1>4, <1>5, <1>6

\* Where the draft and the retrieval of a request come from.
LEMMA ShadowStep ==
  ASSUME ReadyInv, DraftInv, ShadowInv, outcome = "running",
         NEW r, NEW elapsed, Returns(r, elapsed),
         r.next = NoNode, r.status \in {"ok", "failed", "timed_out"},
         r.fields["parametric"] = fields["parametric"]
           \/ (current = "parametric" /\ r.status = "ok"),
         \/ /\ current # "shadow" /\ r.events = << >>
            /\ r.fields["result"] = fields["result"] \/ r.fields["result"] # "draft"
         \/ /\ current = "shadow" /\ r.status = "ok" /\ r.events = <<Served>>
            /\ r.fields["result"] = "draft"
         \/ /\ current = "shadow" /\ r.status # "ok" /\ r.events \in Conflicts
            /\ r.fields = fields
  PROVE  ShadowInv'
<1> DEFINE step == [node |-> current, status |-> r.status]
<1>1. current \in Node /\ step \in Steps /\ path \in Seq(Steps)
  BY DEF ReadyInv, ReadyAt, Steps, ShadowInv
<1>2. /\ path' = Append(path, step) /\ fields' = r.fields /\ events' = events \o r.events
  BY DEF Returns, Finish, Advance, FallBack, Fail, Record
<1> HIDE DEF step
<1>3. /\ path' \in Seq(Steps) /\ path'[Len(path')] = step
      /\ Drafted => Drafted'
      /\ DraftedThenRetrieved => DraftedThenRetrieved'
      /\ step = Did("parametric") => Drafted'
      /\ Drafted /\ step = Did("retrieve") => DraftedThenRetrieved'
  BY <1>1, <1>2, RecordKeepsHistory
<1>4. fields["result"] # "draft" /\ events \in Conflicts /\ events # <<Served>>
  BY DEF DraftInv, Conflicts, Conflict, Served
<1>5. current = "shadow" => events = << >>
  BY DEF DraftInv, AfterConflict, NoNode
<1>6. fields'["result"] = "draft" <=> events' = <<Served>>
  <2>1. CASE current # "shadow"
    <3>1. r.events = << >> /\ r.fields["result"] # "draft"
      BY <1>4, <2>1
    <3>2. events' = events
      BY <1>2, <1>4, <3>1 DEF Conflicts
    <3> QED BY <1>2, <1>4, <3>1, <3>2
  <2>2. CASE current = "shadow" /\ r.status = "ok"
    <3>1. events' = << >> \o <<Served>> /\ fields'["result"] = "draft"
      BY <1>2, <1>5, <2>2
    <3>2. << >> \o <<Served>> = <<Served>>
      OBVIOUS
    <3> QED BY <3>1, <3>2
  <2>3. CASE current = "shadow" /\ r.status # "ok"
    <3>1. r.events \in Conflicts /\ events' = << >> \o r.events /\ fields' = fields
      BY <1>2, <1>5, <2>3
    <3>2. << >> \o r.events = r.events
      BY <3>1 DEF Conflicts
    <3>3. r.events # <<Served>>
      <4>1. r.events[1] = Conflict \/ r.events = << >>
        BY <3>1 DEF Conflicts
      <4>2. <<Served>>[1] # Conflict /\ <<Served>> # << >>
        BY DEF Conflict, Served
      <4> QED BY <4>1, <4>2
    <3> QED BY <1>4, <3>1, <3>2, <3>3
  <2> QED BY <2>1, <2>2, <2>3
<1>7. fields'["result"] = "draft" => DraftedThenRetrieved' /\ path'[Len(path')].node = "shadow"
  <2> HAVE fields'["result"] = "draft"
  <2>1. current = "shadow"
    BY <1>2, <1>4
  <2>2. DraftedThenRetrieved
    BY <2>1 DEF ShadowInv
  <2> QED BY <1>3, <2>1, <2>2 DEF step
<1>8. ASSUME outcome' = "running", fields'["parametric"] = "draft" PROVE Drafted'
  <2>1. CASE fields["parametric"] = "draft"
    BY <1>3, <2>1 DEF ShadowInv
  <2>2. CASE current = "parametric" /\ r.status = "ok"
    BY <1>3, <2>2 DEF step, Did
  <2> QED BY <1>2, <1>8, <2>1, <2>2
<1>9. ASSUME outcome' = "running", current' = "shadow" PROVE DraftedThenRetrieved'
  <2>1. \/ /\ r.status = "ok" /\ current \notin Terminals
           /\ current' = NextNode(current, r.fields)
        \/ /\ r.status # "ok" /\ Fallback[current] # NoNode
           /\ current' = Fallback[current]
    BY <1>9 DEF Returns, Finish, Advance, FallBack, Fail
  <2>2. Fallback[current] # "shadow"
    BY <1>1 DEF Fallback, NoNode
  <2>3. r.status = "ok" /\ current \notin Terminals /\ NextNode(current, r.fields) = "shadow"
    BY <1>9, <2>1, <2>2
  <2>4. current = "retrieve"
    BY <1>1, <2>3, EdgesLeadOn DEF Node, Terminals
  <2>5. fields["parametric"] = "draft"
    BY <2>3, <2>4, EdgesLeadOn
  <2>6. Drafted /\ step = Did("retrieve")
    BY <2>3, <2>4, <2>5 DEF ShadowInv, step, Did
  <2> QED BY <1>3, <2>6
<1> QED BY <1>3, <1>6, <1>7, <1>8, <1>9 DEF ShadowInv

\* A draft reaches the caller only from a traversal that retrieved after it
\* drafted and then ran the shadow node, and the monitor hears of it exactly
\* once; with and without the parametric tier, on every path of failures,
\* fallbacks, time-outs and diversions.
THEOREM NoDraftUnshadowed == Spec => []DraftsAreShadowed
<1>1. Init => ReadyInv
  BY DEF Init, ReadyInv, ReadyAt, Entry, Node, Reads, Position, InitFields, Field, Unset
<1>2. Init => DraftInv /\ ShadowInv
  BY DEF Init, DraftInv, Conflicts, ShadowInv, InitFields, Field, Unset, Entry
<1>3. ReadyInv /\ DraftInv /\ ShadowInv /\ [Next]_vars => ShadowInv'
  <2> SUFFICES ASSUME ReadyInv, DraftInv, ShadowInv, [Next]_vars
               PROVE  ShadowInv'
    OBVIOUS
  <2>1. CASE Divert \/ UnknownNode \/ UnreadyInputs \/ ExceedCap
    BY <2>1 DEF Divert, UnknownNode, UnreadyInputs, ExceedCap, Stop, Checkpoint, Looping,
                AbstainNode, ShadowInv, Drafted, DraftedThenRetrieved
  <2>2. ASSUME NEW n \in Node, RunNode(n)
        PROVE  ShadowInv'
    <3>1. current = n
      BY <2>2 DEF RunNode
    <3>2. ASSUME NEW r, UndeclaredWrite(r) \/ Raise(r)
          PROVE  ShadowInv'
      BY <3>2 DEF UndeclaredWrite, Raise, Stop, Start, Checkpoint, Looping,
                  ShadowInv, Drafted, DraftedThenRetrieved
    <3>3. ASSUME NEW r \in NodeResults(n, fields), NEW elapsed, Returns(r, elapsed)
          PROVE  ShadowInv'
      <4>1. outcome = "running" /\ r.status \in {"ok", "failed", "timed_out"}
        BY <3>3 DEF Returns, Finish, Advance, FallBack, Fail, Start, Checkpoint, Looping
      <4>2. DOMAIN fields = Field
        BY <4>1 DEF ReadyInv
      <4>3. "parametric" \in Writes[n] => n = "parametric"
        BY DEF Writes, Node
      <4>4. /\ r.next = NoNode
            /\ r.fields["parametric"] = fields["parametric"] \/ (n = "parametric" /\ r.status = "ok")
        BY <4>2, <4>3, DeclaredResults DEF Field
      <4>5. CASE n # "shadow"
        BY <3>1, <3>3, <4>1, <4>4, <4>5, QuietNodes, ShadowStep
      <4>6. CASE n = "shadow"
        <5>1. r.status = "ok" => r.fields["result"] = "draft" /\ r.events = <<Served>>
          BY <4>6 DEF NodeResults, ShadowResults, Ok, Ends, Advanced, Field
        <5>2. r.status # "ok" => r.events \in Conflicts /\ r.fields = fields
          BY <4>6, ShadowServesOrYields
        <5> QED BY <3>1, <3>3, <4>1, <4>4, <4>6, <5>1, <5>2, ShadowStep
      <4> QED BY <4>5, <4>6
    <3>4. ASSUME NEW elapsed, Returns(TimedOut, elapsed)
          PROVE  ShadowInv'
      <4>1. outcome = "running"
        BY <3>4 DEF Returns, Finish, Advance, FallBack, Fail, Start, Checkpoint, Looping
      <4>2. /\ TimedOut.next = NoNode /\ TimedOut.status = "timed_out"
            /\ TimedOut.fields = fields /\ TimedOut.events = << >>
        BY DEF TimedOut
      <4> QED BY <3>4, <4>1, <4>2, ShadowStep DEF Conflicts
    <3> QED BY <2>2, <3>2, <3>3, <3>4 DEF RunNode
  <2>3. CASE UNCHANGED vars
    BY <2>3 DEF vars, ShadowInv, Drafted, DraftedThenRetrieved
  <2> QED BY <2>1, <2>2, <2>3 DEF Next
<1>4. ReadyInv /\ DraftInv /\ ShadowInv => DraftsAreShadowed
  BY DEF ShadowInv, DraftsAreShadowed, DraftedThenRetrieved, Did
<1> QED BY <1>1, <1>2, <1>3, <1>4, DraftInvKept, ReadyInvKept, PTL DEF Spec
=============================================================================
