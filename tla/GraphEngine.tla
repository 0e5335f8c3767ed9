---------------------------- MODULE GraphEngine ----------------------------
(***************************************************************************)
(* The graph interpreter (orchestration/graph/engine.py), the degradation  *)
(* ladder it consults between nodes (core/budget.py) and the budget it     *)
(* spends (core/models/identity.py), for any graph.                        *)
(*                                                                         *)
(* The graph and what its nodes may do are constants: NodeResults(n, f) is *)
(* the set of results node n may return when the request state is f.  One  *)
(* step is one iteration of the traversal loop: the budget checkpoint, then*)
(* a diversion or one node from start to end.  The request state belongs to*)
(* one task, so nothing else writes it while a node is suspended.          *)
(*                                                                         *)
(* A definition whose comment is in parentheses is a faulty variant of the *)
(* one after it, kept to show which property would notice the fault.       *)
(***************************************************************************)
EXTENDS Naturals, Sequences, FiniteSetsExt

CONSTANTS Node, Entry, Terminals, NoNode,
          AbstainNode,        \* where an exhausted budget diverts to, or NoNode
          Edges,              \* Node -> sequence of [to, when] in declaration order
          Fallback,           \* Node -> Node \cup {NoNode}
          Reads, Writes,      \* Node -> SUBSET Field
          MaxSteps,           \* cap on loop iterations
          Field, Unset,       \* fields of the request state; Unset is Python's None
          Always,             \* the condition of a default edge
          Holds(_, _),        \* Holds(condition, fields)
          NodeResults(_, _),  \* NodeResults(node, fields)
          Timeout,            \* Node -> ticks
          Suspends,           \* nodes that await something that may be late
          WallTotal,          \* the request's wall clock, in ticks
          UsdTotal,           \* the request's money, in cost units
          InitFields          \* the request state the traversal starts from

ASSUME BudgetAssumption == WallTotal \in Nat \ {0} /\ UsdTotal \in Nat
ASSUME GraphAssumption ==
    /\ MaxSteps \in Nat \ {0}
    /\ Entry \in Node /\ Terminals \subseteq Node /\ NoNode \notin Node
    /\ AbstainNode \in Node \cup {NoNode}
    /\ Fallback \in [Node -> Node \cup {NoNode}]
    /\ Suspends \subseteq Node
    /\ Timeout \in [Node -> Nat]

VARIABLES current,       \* the node the next iteration is for
          iteration,     \* loop iterations done
          fields,        \* the request state's declared fields
          events,        \* the domain events it has accumulated
          wall, usd,     \* ticks left; money spent
          level,         \* rung of the degradation ladder, 0 to 6
          path,          \* the recorded steps
          outcome        \* how the traversal ended, or "running"

vars == <<current, iteration, fields, events, wall, usd, level, path, outcome>>
budget == <<wall, usd>>

Outcome == {"running", "completed", "abstained", "failed", "misconfigured", "breached", "crashed"}

-----------------------------------------------------------------------------
(* The degradation ladder.  A rung engages when the scarcer resource has   *)
(* at most its threshold left, in percent of the original budget.          *)

Threshold == <<50, 35, 25, 15, 8, 0>>
MustAbstain == 6

UsdLeft == IF usd > UsdTotal THEN 0 ELSE UsdTotal - usd

\* (a rung engages only below its threshold, so the last one never does)
CrossedStrictly(l) ==
    \/ 100 * wall < Threshold[l] * WallTotal
    \/ UsdTotal > 0 /\ 100 * UsdLeft < Threshold[l] * UsdTotal

Crossed(l) ==
    \/ 100 * wall <= Threshold[l] * WallTotal
    \/ UsdTotal > 0 /\ 100 * UsdLeft <= Threshold[l] * UsdTotal

\* A request never climbs back down.
Rung == Max({level} \cup {l \in 1 .. 6 : Crossed(l)})

-----------------------------------------------------------------------------
(* The traversal loop. *)

Looping == outcome = "running" /\ iteration < MaxSteps /\ current # NoNode

\* The checkpoint before every node.
Checkpoint ==
    /\ Looping
    /\ iteration' = iteration + 1
    /\ level' = Rung

Stop(o) ==
    /\ outcome' = o
    /\ UNCHANGED <<current, fields, events, budget, path>>

\* (the abstention node is gated like every other node)
AffordsUngated == Rung < MustAbstain

\* The abstention node runs on an exhausted budget.
Affords == Rung < MustAbstain \/ current = AbstainNode

\* The last rung, before any node but the abstention node.
Divert ==
    /\ Checkpoint
    /\ ~Affords
    /\ IF AbstainNode = NoNode
       THEN Stop("abstained")
       ELSE /\ current' = AbstainNode
            /\ UNCHANGED <<fields, events, budget, path, outcome>>

\* A node's override names a node of no graph.
UnknownNode ==
    /\ Checkpoint
    /\ Affords
    /\ current \notin Node
    /\ Stop("crashed")

InputsReady == \A f \in Reads[current] : fields[f] # Unset

UnreadyInputs ==
    /\ Checkpoint
    /\ Affords
    /\ current \in Node
    /\ ~InputsReady
    /\ Stop("misconfigured")

-----------------------------------------------------------------------------
(* Running one node. *)

Start ==
    /\ Checkpoint
    /\ Affords
    /\ current \in Node
    /\ InputsReady

\* What the node was given: the smaller of its timeout and what is left.
Limit == Min({Timeout[current], wall})

\* A late node is cancelled and leaves the state as it found it.
TimedOut ==
    [status |-> "timed_out", fields |-> fields, events |-> <<>>, next |-> NoNode, usd |-> 0]

\* (the declaration is taken on trust)
DeclaredOnTrust(r) == TRUE

Declared(r) == \A f \in Field : r.fields[f] # fields[f] => f \in Writes[current]

\* (an overrun leaves a negative remainder)
SpendUnclamped(elapsed, cost) ==
    /\ wall' = wall - elapsed
    /\ usd' = usd + cost

\* An overrun is clamped: nothing is left, never less than nothing.
Spend(elapsed, cost) ==
    /\ wall' = IF elapsed > wall THEN 0 ELSE wall - elapsed
    /\ usd' = usd + cost

Record(r, elapsed) ==
    /\ fields' = r.fields
    /\ events' = events \o r.events
    /\ Spend(elapsed, r.usd)
    /\ path' = Append(path, [node |-> current, status |-> r.status])

\* The first edge, in declaration order, that is open.
NextNode(n, f) ==
    LET open == {i \in DOMAIN Edges[n] : Edges[n][i].when = Always \/ Holds(Edges[n][i].when, f)}
    IN  IF open = {} THEN NoNode ELSE Edges[n][Min(open)].to

Finish(r, elapsed) ==
    /\ Start
    /\ r.status = "ok" /\ Declared(r)
    /\ current \in Terminals
    /\ Record(r, elapsed)
    /\ outcome' = "completed"
    /\ UNCHANGED current

Advance(r, elapsed) ==
    /\ Start
    /\ r.status = "ok" /\ Declared(r)
    /\ current \notin Terminals
    /\ Record(r, elapsed)
    /\ current' = IF r.next # NoNode THEN r.next ELSE NextNode(current, r.fields)
    /\ UNCHANGED outcome

UndeclaredWrite(r) ==
    /\ Start
    /\ r.status = "ok" /\ ~Declared(r)
    /\ Stop("misconfigured")

\* (a failed node goes on along its normal edges)
FallThrough(r, elapsed) ==
    /\ Start
    /\ r.status \in {"failed", "timed_out"}
    /\ Fallback[current] # NoNode
    /\ Record(r, elapsed)
    /\ current' = NextNode(current, r.fields)
    /\ UNCHANGED outcome

FallBack(r, elapsed) ==
    /\ Start
    /\ r.status \in {"failed", "timed_out"}
    /\ Fallback[current] # NoNode
    /\ Record(r, elapsed)
    /\ current' = Fallback[current]
    /\ UNCHANGED outcome

Fail(r, elapsed) ==
    /\ Start
    /\ r.status \in {"failed", "timed_out"}
    /\ Fallback[current] = NoNode
    /\ Record(r, elapsed)
    /\ outcome' = "failed"
    /\ UNCHANGED current

\* An abstention, an isolation violation and an unexpected exception pass
\* through the engine; no step is recorded and no budget is spent.
Raise(r) ==
    /\ Start
    /\ r.status \in {"abstained", "breached", "crashed"}
    /\ Stop(r.status)

\* (one iteration too many before the cap is noticed)
ExceedCapLate ==
    /\ outcome = "running"
    /\ iteration > MaxSteps \/ current = NoNode
    /\ Stop("misconfigured")
    /\ UNCHANGED <<iteration, level>>

\* The loop ran out, or the last node had no open edge.
ExceedCap ==
    /\ outcome = "running"
    /\ iteration = MaxSteps \/ current = NoNode
    /\ Stop("misconfigured")
    /\ UNCHANGED <<iteration, level>>

-----------------------------------------------------------------------------
Init ==
    /\ current = Entry
    /\ iteration = 0
    /\ fields = InitFields
    /\ events = <<>>
    /\ wall = WallTotal /\ usd = 0
    /\ level = 0
    /\ path = <<>>
    /\ outcome = "running"

Returns(r, elapsed) ==
    \/ Finish(r, elapsed)
    \/ Advance(r, elapsed)
    \/ FallBack(r, elapsed)
    \/ Fail(r, elapsed)

RunNode(n) ==
    /\ current = n
    /\ \/ \E r \in NodeResults(n, fields) :
             \/ UndeclaredWrite(r)
             \/ Raise(r)
             \/ \E elapsed \in 0 .. WallTotal : Returns(r, elapsed)
       \/ /\ n \in Suspends
          /\ \E elapsed \in Limit .. WallTotal : Returns(TimedOut, elapsed)

Next ==
    \/ Divert
    \/ UnknownNode
    \/ UnreadyInputs
    \/ \E n \in Node : RunNode(n)
    \/ ExceedCap

Spec == Init /\ [][Next]_vars

\* Every node returns, raises or is cut off by its timeout.
FairSpec == Spec /\ WF_vars(Next)

-----------------------------------------------------------------------------
(* Properties of every graph. *)

TypeOK ==
    /\ iteration \in 0 .. MaxSteps
    /\ wall \in 0 .. WallTotal /\ usd \in Nat
    /\ level \in 0 .. 6
    /\ DOMAIN fields = Field
    /\ outcome \in Outcome
    /\ Len(path) <= iteration

Exhausted == wall = 0 \/ (UsdTotal > 0 /\ UsdLeft = 0)

\* Once the clock or the money has run out, only the abstention node does any
\* work: the ladder's last rung engages at zero, not below it.
OnlyAbstentionRunsBroke ==
    [][(path' # path /\ Exhausted) => current = AbstainNode]_vars

\* Whatever the request state holds beyond its input was declared by a node
\* that ran: the graph's static ordering tells the truth about the data.
FieldsAreDeclared ==
    \A f \in Field : fields[f] # InitFields[f] =>
        \E i \in DOMAIN path : f \in Writes[path[i].node]

\* A failure is followed by the node the graph declares for it, unless the
\* budget diverts the request to its abstention.
FailuresFollowTheGraph ==
    \A i \in DOMAIN path :
        (path[i].status # "ok" /\ i < Len(path)) =>
            path[i + 1].node \in {Fallback[path[i].node], AbstainNode}

\* A traversal ends, whatever cycles the graph or its nodes' overrides make.
Terminates == <>(outcome # "running")
=============================================================================
