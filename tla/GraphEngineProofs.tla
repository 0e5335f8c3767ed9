------------------------- MODULE GraphEngineProofs -------------------------
(***************************************************************************)
(* Theorems about GraphEngine, for every graph, every budget and every     *)
(* node.                                                                   *)
(*                                                                         *)
(* What a node returns is a constant operator, so what the theorems ask of *)
(* nodes is stated as an assumption of each: WellFormedResults for types,  *)
(* FailuresKeepTheState for the write declarations.  The budget gate and   *)
(* the routing of failures need neither.                                   *)
(***************************************************************************)
EXTENDS GraphEngine, TLAPS

\* A node returns a request state with the fields it has, and a cost.
WellFormedResults ==
    \A n \in Node : \A f : DOMAIN f = Field =>
        \A r \in NodeResults(n, f) : DOMAIN r.fields = Field /\ r.usd \in Nat

\* A node that fails hands back the fields it was given.
FailuresKeepTheState ==
    \A n \in Node : \A f :
        \A r \in NodeResults(n, f) : r.status # "ok" => r.fields = f

StepRecord == [node : Node, status : {"ok", "failed", "timed_out"}]

PathOK == path \in Seq(StepRecord)

-----------------------------------------------------------------------------
(* The degradation ladder. *)

\* A set of rungs has a highest one.
LEMMA HighestRung ==
  ASSUME NEW S \in SUBSET (0 .. 6), S # {}
  PROVE  Max(S) \in S /\ \A l \in S : Max(S) >= l
<1>1. \E x \in S : \A y \in S : x >= y
  <2>1. CASE 6 \in S BY <2>1
  <2>2. CASE 6 \notin S /\ 5 \in S BY <2>2
  <2>3. CASE 6 \notin S /\ 5 \notin S /\ 4 \in S BY <2>3
  <2>4. CASE 6 \notin S /\ 5 \notin S /\ 4 \notin S /\ 3 \in S BY <2>4
  <2>5. CASE S \subseteq 0 .. 2 /\ 2 \in S BY <2>5
  <2>6. CASE S \subseteq 0 .. 1 /\ 1 \in S BY <2>6
  <2>7. CASE S \subseteq {0}
    <3>1. S = {0} BY <2>7
    <3> QED BY <3>1
  <2> QED BY <2>1, <2>2, <2>3, <2>4, <2>5, <2>6, <2>7
<1> QED BY <1>1 DEF Max

\* The rung engaged at a checkpoint is a rung.
LEMMA RungIsARung ==
  ASSUME level \in 0 .. 6
  PROVE  Rung \in 0 .. 6
<1> DEFINE S == {level} \cup {l \in 1 .. 6 : Crossed(l)}
<1>1. S \in SUBSET (0 .. 6) /\ S # {}
  OBVIOUS
<1>2. Max(S) \in S
  BY <1>1, HighestRung
<1> QED BY <1>1, <1>2 DEF Rung

\* With nothing left of either resource the last rung is engaged.
LEMMA ExhaustionIsTheLastRung ==
  ASSUME level \in 0 .. 6, Exhausted
  PROVE  Rung = MustAbstain
<1> DEFINE S == {level} \cup {l \in 1 .. 6 : Crossed(l)}
<1>1. Crossed(6)
  <2>1. Threshold[6] = 0
    BY DEF Threshold
  <2>2. 0 * WallTotal = 0 /\ 0 * UsdTotal = 0
    BY BudgetAssumption
  <2> QED BY <2>1, <2>2 DEF Crossed, Exhausted
<1>2. S \in SUBSET (0 .. 6) /\ 6 \in S
  BY <1>1
<1>3. Max(S) \in S /\ Max(S) >= 6
  BY <1>2, HighestRung
<1>4. Max(S) \in 0 .. 6
  BY <1>2, <1>3
<1> QED BY <1>3, <1>4 DEF Rung, MustAbstain

\* Every step leaves the request on a rung.
LEMMA LadderInductive ==
  ASSUME level \in 0 .. 6, [Next]_vars
  PROVE  level' \in 0 .. 6
<1>1. CASE level' = level
  BY <1>1
<1>2. CASE level' = Rung
  BY <1>2, RungIsARung
<1> QED BY <1>1, <1>2
    DEF Next, vars, Divert, UnknownNode, UnreadyInputs, RunNode, Returns,
        ExceedCap, Checkpoint, Start, Finish, Advance, FallBack, Fail, UndeclaredWrite, Raise

\* Work is only ever recorded by a node that was allowed to start.
LEMMA OnlyStartedNodesRecord ==
  ASSUME [Next]_vars, path' # path
  PROVE  Affords
BY DEF Next, vars, Divert, UnknownNode, UnreadyInputs, RunNode, Returns,
       ExceedCap, Stop, Start, Finish, Advance, FallBack, Fail, UndeclaredWrite, Raise

\* On an empty budget no node but the abstention node does any work: the gate
\* of GraphEngine._traverse and the thresholds of BudgetController agree at
\* zero, for every graph, every budget and every node.
THEOREM BrokeOnlyAbstains == Spec => OnlyAbstentionRunsBroke
<1>1. Init => level \in 0 .. 6
  BY DEF Init
<1>2. level \in 0 .. 6 /\ [Next]_vars => (level \in 0 .. 6)'
  BY LadderInductive
<1>3. level \in 0 .. 6 /\ [Next]_vars
        => [(path' # path /\ Exhausted) => current = AbstainNode]_vars
  <2> SUFFICES ASSUME level \in 0 .. 6, [Next]_vars, path' # path, Exhausted
               PROVE  current = AbstainNode
    OBVIOUS
  <2>1. Affords
    BY OnlyStartedNodesRecord
  <2>2. Rung = MustAbstain
    BY ExhaustionIsTheLastRung
  <2> QED BY <2>1, <2>2 DEF Affords, MustAbstain
<1> QED BY <1>1, <1>2, <1>3, PTL DEF Spec, OnlyAbstentionRunsBroke

-----------------------------------------------------------------------------
(* Types. *)

\* A late node's result is well formed.
LEMMA TimedOutIsWellFormed ==
  /\ TimedOut.status = "timed_out" /\ TimedOut.fields = fields
  /\ TimedOut.usd = 0 /\ TimedOut.next = NoNode
BY DEF TimedOut

\* What is left of the clock stays between nothing and everything.
LEMMA SpendStaysInBudget ==
  ASSUME wall \in 0 .. WallTotal, usd \in Nat,
         NEW elapsed \in Nat, NEW cost \in Nat, Spend(elapsed, cost)
  PROVE  wall' \in 0 .. WallTotal /\ usd' \in Nat
BY BudgetAssumption DEF Spend

\* Recording a node's result extends the path by one step of that node.
LEMMA RecordProperties ==
  ASSUME TypeOK, PathOK, NEW r, NEW elapsed \in Nat,
         current \in Node, r.status \in {"ok", "failed", "timed_out"},
         DOMAIN r.fields = Field, r.usd \in Nat, Record(r, elapsed)
  PROVE  /\ wall' \in 0 .. WallTotal /\ usd' \in Nat
         /\ DOMAIN fields' = Field
         /\ path' \in Seq(StepRecord)
         /\ Len(path') = Len(path) + 1
<1>1. [node |-> current, status |-> r.status] \in StepRecord
  BY DEF StepRecord
<1>2. wall' \in 0 .. WallTotal /\ usd' \in Nat
  BY SpendStaysInBudget DEF Record, TypeOK
<1> QED BY <1>1, <1>2 DEF Record, PathOK

\* A node that ran returned a well-formed result in time, or was cut off.
LEMMA ReturnsPreservesTypes ==
  ASSUME TypeOK, PathOK, NEW r, NEW elapsed \in Nat,
         DOMAIN r.fields = Field, r.usd \in Nat, Returns(r, elapsed)
  PROVE  TypeOK' /\ PathOK'
<1>1. /\ Start /\ Record(r, elapsed)
      /\ r.status \in {"ok", "failed", "timed_out"}
      /\ outcome' \in Outcome
  BY DEF Returns, Finish, Advance, FallBack, Fail, Outcome, TypeOK
<1>2. /\ current \in Node
      /\ iteration < MaxSteps /\ iteration' = iteration + 1
      /\ level' \in 0 .. 6
  BY <1>1, RungIsARung DEF Start, Checkpoint, Looping, TypeOK
<1>3. iteration' \in 0 .. MaxSteps
  BY <1>2, GraphAssumption DEF TypeOK
<1>4. Len(path') <= iteration'
  <2>1. Len(path') = Len(path) + 1
    BY <1>1, <1>2, RecordProperties
  <2>2. Len(path) \in Nat
    BY DEF PathOK
  <2> QED BY <1>2, <2>1, <2>2 DEF TypeOK
<1> QED BY <1>1, <1>2, <1>3, <1>4, RecordProperties DEF TypeOK, PathOK

\* A step that ends the traversal early keeps the request as it was.
LEMMA StopPreservesTypes ==
  ASSUME TypeOK, PathOK, NEW o \in Outcome, Stop(o),
         Checkpoint \/ UNCHANGED <<iteration, level>>
  PROVE  TypeOK' /\ PathOK'
<1>1. iteration' \in 0 .. MaxSteps /\ level' \in 0 .. 6 /\ Len(path) <= iteration'
  <2>1. CASE Checkpoint
    <3>1. iteration < MaxSteps /\ iteration' = iteration + 1 /\ level' \in 0 .. 6
      BY <2>1, RungIsARung DEF Checkpoint, Looping, TypeOK
    <3>2. Len(path) \in Nat
      BY DEF PathOK
    <3> QED BY <3>1, <3>2, GraphAssumption DEF TypeOK
  <2>2. CASE UNCHANGED <<iteration, level>>
    BY <2>2 DEF TypeOK
  <2> QED BY <2>1, <2>2
<1> QED BY <1>1 DEF Stop, budget, TypeOK, PathOK

\* The engine's variables keep their types as long as nodes return results of
\* the declared shape: the budget never goes negative and no more steps are
\* recorded than iterations were spent.
THEOREM EngineTypes ==
  ASSUME WellFormedResults, DOMAIN InitFields = Field
  PROVE  Spec => []TypeOK
<1>1. Init => TypeOK /\ PathOK
  BY BudgetAssumption, GraphAssumption DEF Init, TypeOK, PathOK, Outcome
<1>2. TypeOK /\ PathOK /\ [Next]_vars => TypeOK' /\ PathOK'
  <2> SUFFICES ASSUME TypeOK, PathOK, [Next]_vars
               PROVE  TypeOK' /\ PathOK'
    OBVIOUS
  <2>1. CASE Divert
    <3>1. iteration < MaxSteps /\ iteration' = iteration + 1 /\ level' \in 0 .. 6
      BY <2>1, RungIsARung DEF Divert, Checkpoint, Looping, TypeOK
    <3>2. Len(path) \in Nat
      BY DEF PathOK
    <3> QED BY <2>1, <3>1, <3>2, GraphAssumption DEF Divert, Stop, budget, TypeOK, PathOK, Outcome
  <2>2. CASE UnknownNode
    BY <2>2, StopPreservesTypes DEF UnknownNode, Outcome
  <2>3. CASE UnreadyInputs
    BY <2>3, StopPreservesTypes DEF UnreadyInputs, Outcome
  <2>4. ASSUME NEW n \in Node, RunNode(n)
        PROVE  TypeOK' /\ PathOK'
    <3>1. ASSUME NEW r \in NodeResults(n, fields), UndeclaredWrite(r)
          PROVE  TypeOK' /\ PathOK'
      BY <3>1, StopPreservesTypes DEF UndeclaredWrite, Start, Outcome
    <3>2. ASSUME NEW r \in NodeResults(n, fields), Raise(r)
          PROVE  TypeOK' /\ PathOK'
      BY <3>2, StopPreservesTypes DEF Raise, Start, Outcome
    <3>3. ASSUME NEW r \in NodeResults(n, fields), NEW elapsed \in 0 .. WallTotal,
                 Returns(r, elapsed)
          PROVE  TypeOK' /\ PathOK'
      <4>1. DOMAIN r.fields = Field /\ r.usd \in Nat
        BY WellFormedResults DEF WellFormedResults, TypeOK
      <4> QED BY <3>3, <4>1, ReturnsPreservesTypes
    <3>4. ASSUME NEW elapsed \in Limit .. WallTotal, Returns(TimedOut, elapsed),
                 current = n
          PROVE  TypeOK' /\ PathOK'
      <4>1. elapsed \in Nat
        <5>1. Timeout[current] \in Nat /\ wall \in Nat
          BY <3>4, GraphAssumption DEF TypeOK
        <5>2. Limit \in Nat
          BY <5>1 DEF Limit, Min
        <5> QED BY <5>2
      <4>2. DOMAIN TimedOut.fields = Field /\ TimedOut.usd \in Nat
        BY TimedOutIsWellFormed DEF TypeOK
      <4> QED BY <3>4, <4>1, <4>2, ReturnsPreservesTypes
    <3> QED BY <2>4, <3>1, <3>2, <3>3, <3>4 DEF RunNode
  <2>5. CASE ExceedCap
    BY <2>5, StopPreservesTypes DEF ExceedCap, Outcome
  <2>6. CASE UNCHANGED vars
    BY <2>6 DEF vars, TypeOK, PathOK, Exhausted
  <2> QED BY <2>1, <2>2, <2>3, <2>4, <2>5, <2>6 DEF Next
<1> QED BY <1>1, <1>2, PTL DEF Spec

-----------------------------------------------------------------------------
(* The path and the data. *)

\* A step that records nothing leaves the request where it stood, diverts it
\* to the abstention node, or ends it.
Idles ==
    /\ path' = path /\ fields' = fields
    /\ current' \in {current, AbstainNode}
    /\ outcome' = "running" => outcome = "running"

\* A step that records one does so for the current node, with the status of the
\* result whose fields the request takes over.
Extends(r) ==
    /\ path' = Append(path, [node |-> current, status |-> r.status])
    /\ fields' = r.fields
    /\ \/ r.status = "ok" /\ Declared(r)
       \/ r.status \in {"failed", "timed_out"}

\* Every step of the traversal loop does one or the other.
LEMMA StepsExtendThePath ==
  ASSUME [Next]_vars
  PROVE  \/ Idles
         \/ \E r : /\ current \in Node /\ Extends(r)
                   /\ r = TimedOut \/ r \in NodeResults(current, fields)
                   /\ outcome = "running"
                   /\ r.status # "ok" => outcome' = "failed" \/ current' = Fallback[current]
<1>1. CASE \E n \in Node : RunNode(n)
  <2>1. PICK n \in Node : RunNode(n)
    BY <1>1
  <2>2. current = n
    BY <2>1 DEF RunNode
  <2>3. ASSUME NEW r, NEW elapsed, Returns(r, elapsed)
        PROVE  /\ Extends(r) /\ outcome = "running"
               /\ r.status # "ok" => outcome' = "failed" \/ current' = Fallback[current]
    BY <2>3 DEF Returns, Finish, Advance, FallBack, Fail, Record, Extends, Start,
                Checkpoint, Looping
  <2>4. CASE \E r \in NodeResults(n, fields) : UndeclaredWrite(r) \/ Raise(r)
    BY <2>4 DEF UndeclaredWrite, Raise, Stop, Start, Checkpoint, Looping, Idles
  <2>5. CASE \E r \in NodeResults(n, fields), elapsed \in 0 .. WallTotal : Returns(r, elapsed)
    BY <2>2, <2>3, <2>5
  <2>6. CASE \E elapsed \in Limit .. WallTotal : Returns(TimedOut, elapsed)
    BY <2>2, <2>3, <2>6
  <2> QED BY <2>1, <2>4, <2>5, <2>6 DEF RunNode
<1>2. CASE ~ \E n \in Node : RunNode(n)
  BY <1>2 DEF Next, vars, Divert, UnknownNode, UnreadyInputs, ExceedCap, Stop,
                 Checkpoint, Looping, Idles
<1> QED BY <1>1, <1>2

\* A step keeps the path a sequence of step records.
LEMMA PathInductive ==
  ASSUME PathOK, [Next]_vars
  PROVE  PathOK'
<1>1. CASE Idles
  BY <1>1 DEF PathOK, Idles
<1>2. CASE \E r : current \in Node /\ Extends(r)
  <2>1. PICK r : current \in Node /\ Extends(r)
    BY <1>2
  <2>2. [node |-> current, status |-> r.status] \in StepRecord
    BY <2>1 DEF StepRecord, Extends
  <2> QED BY <2>1, <2>2 DEF PathOK, Extends
<1> QED BY <1>1, <1>2, StepsExtendThePath

\* As long as a failing node hands back the fields it was given, whatever the
\* request holds beyond its input was declared by a node that ran: the write
\* check of GraphEngine._run_node, on every path through every graph.
THEOREM DeclarationsTellTheTruth ==
  ASSUME FailuresKeepTheState
  PROVE  Spec => []FieldsAreDeclared
<1>1. Init => PathOK /\ FieldsAreDeclared
  BY DEF Init, PathOK, FieldsAreDeclared
<1>2. PathOK /\ FieldsAreDeclared /\ [Next]_vars => PathOK' /\ FieldsAreDeclared'
  <2> SUFFICES ASSUME PathOK, FieldsAreDeclared, [Next]_vars
               PROVE  FieldsAreDeclared'
    BY PathInductive
  <2>1. CASE Idles
    BY <2>1 DEF FieldsAreDeclared, Idles
  <2>2. CASE \E r : /\ current \in Node /\ Extends(r)
                    /\ r = TimedOut \/ r \in NodeResults(current, fields)
    <3>1. PICK r : /\ current \in Node /\ Extends(r)
                   /\ r = TimedOut \/ r \in NodeResults(current, fields)
      BY <2>2
    <3> DEFINE step == [node |-> current, status |-> r.status]
    <3>2. path' = Append(path, step) /\ step \in StepRecord
      BY <3>1 DEF Extends, StepRecord
    <3>3. \A i \in DOMAIN path : i \in DOMAIN path' /\ path'[i] = path[i]
      BY <3>2 DEF PathOK
    <3>4. Len(path) + 1 \in DOMAIN path' /\ path'[Len(path) + 1] = step
      BY <3>2 DEF PathOK
    <3>5. \A f \in Field : fields'[f] # fields[f] => f \in Writes[current]
      <4>1. CASE r.status = "ok" /\ Declared(r)
        BY <3>1, <4>1 DEF Extends, Declared
      <4>2. CASE r.status # "ok" /\ r = TimedOut
        BY <3>1, <4>2, TimedOutIsWellFormed DEF Extends
      <4>3. CASE r.status # "ok" /\ r \in NodeResults(current, fields)
        BY <3>1, <4>3, FailuresKeepTheState DEF Extends, FailuresKeepTheState
      <4> QED BY <3>1, <4>1, <4>2, <4>3 DEF Extends
    <3> SUFFICES ASSUME NEW f \in Field, fields'[f] # InitFields[f]
                 PROVE  \E i \in DOMAIN path' : f \in Writes[path'[i].node]
      BY DEF FieldsAreDeclared
    <3>6. CASE fields'[f] = fields[f]
      BY <3>3, <3>6 DEF FieldsAreDeclared
    <3>7. CASE fields'[f] # fields[f]
      BY <3>4, <3>5, <3>7
    <3> QED BY <3>6, <3>7
  <2> QED BY <2>1, <2>2, StepsExtendThePath
<1> QED BY <1>1, <1>2, PTL DEF Spec

\* After a failure the traversal stands at the declared fallback or at the
\* abstention node, or it has ended.
FailureRouted ==
    (path # <<>> /\ path[Len(path)].status # "ok") =>
        outcome # "running" \/ current \in {Fallback[path[Len(path)].node], AbstainNode}

\* A failed or late node is followed by its declared fallback or by the
\* abstention, for every graph and whatever its nodes return.
THEOREM FailuresAreRouted == Spec => []FailuresFollowTheGraph
<1> DEFINE Inv == PathOK /\ FailureRouted /\ FailuresFollowTheGraph
<1>1. Init => Inv
  BY DEF Init, PathOK, FailureRouted, FailuresFollowTheGraph
<1>2. Inv /\ [Next]_vars => Inv'
  <2> SUFFICES ASSUME Inv, [Next]_vars
               PROVE  FailureRouted' /\ FailuresFollowTheGraph'
    BY PathInductive
  <2>1. CASE Idles
    BY <2>1 DEF Idles, FailuresFollowTheGraph, FailureRouted
  <2>2. CASE \E r : /\ current \in Node /\ Extends(r) /\ outcome = "running"
                    /\ r.status # "ok" => outcome' = "failed" \/ current' = Fallback[current]
    <3>1. PICK r : /\ current \in Node /\ Extends(r) /\ outcome = "running"
                   /\ r.status # "ok" => outcome' = "failed" \/ current' = Fallback[current]
      BY <2>2
    <3> DEFINE step == [node |-> current, status |-> r.status]
               n == Len(path)
    <3>2. path' = Append(path, step) /\ step \in StepRecord
      BY <3>1 DEF Extends, StepRecord
    <3>3. /\ n \in Nat /\ DOMAIN path = 1 .. n
          /\ Len(path') = n + 1 /\ DOMAIN path' = 1 .. n + 1
          /\ path'[n + 1] = step /\ \A i \in 1 .. n : path'[i] = path[i]
      BY <3>2 DEF PathOK
    <3> HIDE DEF n
    <3>4. FailureRouted'
      BY <3>1, <3>3 DEF FailureRouted
    <3>5. FailuresFollowTheGraph'
      <4> SUFFICES ASSUME NEW i \in 1 .. n, path'[i].status # "ok"
                   PROVE  path'[i + 1].node \in {Fallback[path'[i].node], AbstainNode}
        BY <3>3 DEF FailuresFollowTheGraph
      <4>1. CASE i < n
        BY <3>3, <4>1 DEF FailuresFollowTheGraph, n
      <4>2. CASE i = n
        <5>1. path # <<>> /\ path[Len(path)].status # "ok"
          BY <3>3, <4>2 DEF n
        <5>2. current \in {Fallback[path[Len(path)].node], AbstainNode}
          BY <3>1, <5>1 DEF FailureRouted
        <5> QED BY <3>3, <4>2, <5>2 DEF n
      <4> QED BY <3>3, <4>1, <4>2
    <3> QED BY <3>4, <3>5
  <2> QED BY <2>1, <2>2, StepsExtendThePath
<1> QED BY <1>1, <1>2, PTL DEF Spec
=============================================================================
