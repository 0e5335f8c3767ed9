-------------------- MODULE RetrievalOrchestratorProofs --------------------
(***************************************************************************)
(* Theorems about RetrievalOrchestrator, for any number of requests,       *)
(* sources and sub-queries, either policy and every threshold.             *)
(***************************************************************************)
EXTENDS RetrievalOrchestrator, FiniteSetTheorems, TLAPS

\* The inductive invariant.  That an outage is contained needs the two parts of
\* the breaker to agree: a call is admitted on the flag, and counted.
IInv == TypeOK /\ BreakerCoherent /\ OutageIsContained

Step(r, l) ==
    \/ StartUnregistered(r, l) \/ Skip(r, l) \/ Call(r, l)
    \/ Return(r, l) \/ RunLate(r, l) \/ Raise(r, l)

-----------------------------------------------------------------------------
(* Calls and their number. *)

LEMMA CallsAreFinite ==
  ASSUME NEW s \in Source
  PROVE  IsFiniteSet(Calls(s)) /\ Cardinality(Calls(s)) \in Nat
<1>1. IsFiniteSet({Main})
  BY FS_Singleton
<1>2. IsFiniteSet(Source \X {Main}) /\ IsFiniteSet(Dense \X Hop)
  BY <1>1, PlanAssumption, FS_Product, FS_Subset
<1>3. IsFiniteSet(Leg)
  BY <1>2, FS_Union DEF Leg
<1>4. IsFiniteSet(Request \X Leg)
  BY <1>3, PlanAssumption, FS_Product
<1>5. Calls(s) \subseteq Request \X Leg
  BY DEF Calls
<1> QED BY <1>4, <1>5, FS_Subset, FS_CardinalityType

LEMMA SubsetOfCalls ==
  ASSUME NEW s \in Source, NEW S \in SUBSET Calls(s)
  PROVE  /\ IsFiniteSet(S) /\ Cardinality(S) \in Nat
         /\ Cardinality(S) <= Cardinality(Calls(s))
         /\ \A T \in SUBSET S : Cardinality(T) \in Nat /\ Cardinality(T) <= Cardinality(S)
<1>1. IsFiniteSet(S) /\ Cardinality(S) <= Cardinality(Calls(s))
  BY CallsAreFinite, FS_Subset
<1> QED BY <1>1, FS_Subset, FS_CardinalityType

LEMMA NeededAreLegs == Needed \subseteq Leg
BY PlanAssumption DEF Needed, Leg

LEMMA SourceOfLeg == ASSUME NEW l \in Leg PROVE l[1] \in Source
BY PlanAssumption DEF Leg

-----------------------------------------------------------------------------
(* One source's share of the invariant. *)

Contained(s) == failures[s] + Cardinality(InFlight(s)) < Threshold + Cardinality(Calls(s))

\* A breaker that is closed contains its outage whoever is calling.
LEMMA ClosedIsContained ==
  ASSUME NEW s \in Source, failures'[s] \in Nat, failures'[s] < Threshold
  PROVE  Contained(s)'
<1>1. InFlight(s)' \in SUBSET Calls(s) /\ Calls(s)' = Calls(s)
  BY DEF InFlight, Calls
<1>2. /\ Cardinality(InFlight(s)') \in Nat /\ Cardinality(Calls(s)) \in Nat
      /\ Cardinality(InFlight(s)') <= Cardinality(Calls(s))
  BY <1>1, SubsetOfCalls, CallsAreFinite
<1> QED BY <1>1, <1>2, ThresholdAssumption DEF Contained

\* Calls that end without a failure keep an outage contained.
LEMMA FewerCallsAreContained ==
  ASSUME NEW s \in Source, failures[s] \in Nat, failures'[s] = failures[s],
         InFlight(s)' \subseteq InFlight(s), Contained(s)
  PROVE  Contained(s)'
<1>1. InFlight(s) \in SUBSET Calls(s) /\ Calls(s)' = Calls(s)
  BY DEF InFlight, Calls
<1>2. /\ Cardinality(InFlight(s)') \in Nat /\ Cardinality(InFlight(s)) \in Nat
      /\ Cardinality(Calls(s)) \in Nat
      /\ Cardinality(InFlight(s)') <= Cardinality(InFlight(s))
  BY <1>1, SubsetOfCalls, CallsAreFinite
<1> QED BY <1>1, <1>2, ThresholdAssumption DEF Contained

-----------------------------------------------------------------------------
(* The steps. *)

\* A step of one leg moves that leg only, so other sources' calls are the same.
LEMMA OthersUntouched ==
  ASSUME TypeOK, NEW r \in Request, NEW l \in Leg, NEW st \in LegState, To(r, l, st)
  PROVE  /\ leg' \in [Request -> [Leg -> LegState]]
         /\ \A s \in Source : st # "calling" => InFlight(s)' \subseteq InFlight(s)
         /\ \A s \in Source \ {l[1]} : InFlight(s)' = InFlight(s)
         /\ st # "calling" => <<r, l>> \notin InFlight(l[1])'
<1>1. /\ leg \in [Request -> [Leg -> LegState]]
      /\ leg' = [leg EXCEPT ![r] = [leg[r] EXCEPT ![l] = st]]
  BY DEF TypeOK, To
<1>2. leg' \in [Request -> [Leg -> LegState]]
  BY <1>1
<1>3. \A c \in Request \X Leg :
         leg'[c[1]][c[2]] = IF c = <<r, l>> THEN st ELSE leg[c[1]][c[2]]
  BY <1>1
<1> QED BY <1>2, <1>3 DEF InFlight, Calls

LEMMA LegStep ==
  ASSUME IInv, NEW r \in Request, NEW l \in Leg, Step(r, l)
  PROVE  IInv'
<1> DEFINE src == l[1]
<1>1. src \in Source
  BY SourceOfLeg
<1>2. /\ failures \in [Source -> Nat] /\ opened \in [Source -> {"no", "hot", "cooled"}]
      /\ TypeOK /\ BreakerCoherent
      /\ \A s \in Source : Contained(s)
  BY DEF IInv, TypeOK, OutageIsContained, Contained
<1>3. CASE StartUnregistered(r, l) \/ Skip(r, l) \/ RunLate(r, l)
  <2>1. To(r, l, "unusable") /\ UNCHANGED <<failures, opened, request>>
    BY <1>3 DEF StartUnregistered, Skip, RunLate, breaker
  <2>2. /\ leg' \in [Request -> [Leg -> LegState]]
        /\ \A s \in Source : InFlight(s)' \subseteq InFlight(s)
    BY <1>2, <2>1, OthersUntouched DEF LegState
  <2>3. TypeOK' /\ BreakerCoherent'
    BY <1>2, <2>1, <2>2 DEF TypeOK, BreakerCoherent
  <2>4. \A s \in Source : Contained(s)'
    BY <1>2, <2>1, <2>2, FewerCallsAreContained
  <2> QED BY <2>3, <2>4 DEF IInv, OutageIsContained, Contained
<1>4. CASE Call(r, l) \/ Return(r, l)
  <2>1. PICK st \in {"calling", "usable"} : To(r, l, st)
    BY <1>4 DEF Call, Return
  <2>2. /\ leg' \in [Request -> [Leg -> LegState]]
        /\ \A s \in Source \ {src} : InFlight(s)' = InFlight(s)
    BY <1>2, <2>1, OthersUntouched DEF LegState
  <2>3. /\ failures' \in [Source -> Nat] /\ opened' \in [Source -> {"no", "hot", "cooled"}]
        /\ opened'[src] = "no" /\ failures'[src] < Threshold
        /\ \A s \in Source \ {src} : failures'[s] = failures[s] /\ opened'[s] = opened[s]
        /\ request' = request
    <3>1. CASE Return(r, l)
      BY <3>1, <1>1, <1>2, ThresholdAssumption DEF Return, RecordSuccess
    <3>2. CASE Call(r, l) /\ opened[src] = "cooled"
      BY <3>2, <1>1, <1>2, ThresholdAssumption DEF Call, Admit
    <3>3. CASE Call(r, l) /\ opened[src] # "cooled"
      BY <3>3, <1>1, <1>2, ThresholdAssumption DEF Call, Admit, breaker, BreakerCoherent
    <3> QED BY <1>4, <3>1, <3>2, <3>3
  <2>4. TypeOK' /\ BreakerCoherent'
    <3>1. TypeOK'
      BY <1>2, <2>2, <2>3 DEF TypeOK
    <3>2. opened'[src] # "no" <=> failures'[src] >= Threshold
      BY <1>1, <2>3, ThresholdAssumption
    <3>3. \A s \in Source \ {src} : opened'[s] # "no" <=> failures'[s] >= Threshold
      BY <1>2, <2>3 DEF BreakerCoherent
    <3> QED BY <3>1, <3>2, <3>3 DEF BreakerCoherent
  <2>5. \A s \in Source : Contained(s)'
    <3>1. Contained(src)'
      BY <1>1, <2>3, ClosedIsContained
    <3>2. \A s \in Source \ {src} : Contained(s)'
      BY <1>2, <2>2, <2>3, FewerCallsAreContained
    <3> QED BY <3>1, <3>2
  <2> QED BY <2>4, <2>5 DEF IInv, OutageIsContained, Contained
<1>5. CASE Raise(r, l)
  <2>1. To(r, l, "unusable") /\ <<r, l>> \in InFlight(src) /\ request' = request
    BY <1>5 DEF Raise, Running, InFlight, Calls
  <2>2. /\ leg' \in [Request -> [Leg -> LegState]]
        /\ \A s \in Source : InFlight(s)' \subseteq InFlight(s)
        /\ <<r, l>> \notin InFlight(src)'
    BY <1>2, <2>1, OthersUntouched DEF LegState
  <2>3. /\ failures' = [failures EXCEPT ![src] = failures[src] + 1]
        /\ opened' = [opened EXCEPT ![src] =
              IF failures[src] + 1 >= Threshold THEN "hot" ELSE opened[src]]
    BY <1>5 DEF Raise, RecordFailure
  <2>4. TypeOK' /\ BreakerCoherent'
    BY <1>1, <1>2, <2>1, <2>2, <2>3, ThresholdAssumption DEF TypeOK, BreakerCoherent
  <2>5. Contained(src)'
    <3>1. InFlight(src) \in SUBSET Calls(src) /\ Calls(src)' = Calls(src)
      BY DEF InFlight, Calls
    <3>2. IsFiniteSet(InFlight(src)) /\ Cardinality(Calls(src)) \in Nat
      BY <1>1, <3>1, SubsetOfCalls, CallsAreFinite
    <3>3. /\ Cardinality(InFlight(src) \ {<<r, l>>}) = Cardinality(InFlight(src)) - 1
          /\ Cardinality(InFlight(src)) \in Nat
      BY <2>1, <3>2, FS_RemoveElement, FS_CardinalityType
    <3>4. InFlight(src)' \in SUBSET (InFlight(src) \ {<<r, l>>})
      BY <1>1, <2>2
    <3>5. /\ Cardinality(InFlight(src)') \in Nat
          /\ Cardinality(InFlight(src)') <= Cardinality(InFlight(src)) - 1
      BY <1>1, <3>1, <3>3, <3>4, SubsetOfCalls
    <3>6. failures'[src] = failures[src] + 1 /\ failures[src] \in Nat
      BY <1>1, <1>2, <2>3
    <3> QED BY <1>1, <1>2, <3>1, <3>2, <3>3, <3>5, <3>6, ThresholdAssumption DEF Contained
  <2>6. \A s \in Source \ {src} : Contained(s)'
    BY <1>2, <2>2, <2>3, FewerCallsAreContained
  <2> QED BY <2>4, <2>5, <2>6 DEF IInv, OutageIsContained, Contained
<1> QED BY <1>3, <1>4, <1>5 DEF Step

\* A request that begins or ends leaves the breaker alone and calls nobody.
LEMMA RequestStep ==
  ASSUME IInv, NEW r \in Request, Execute(r) \/ Gather(r) \/ Expire(r)
  PROVE  IInv'
<1>1. PICK f \in [Leg -> LegState \ {"calling"}], o \in {"running", "pool", "failed"} :
         /\ leg' = [leg EXCEPT ![r] = f]
         /\ request' = [request EXCEPT ![r] = o]
         /\ UNCHANGED <<failures, opened>>
  <2>1. CASE Execute(r)
    <3> DEFINE f == [l \in Leg |-> "created"]
    <3>1. f \in [Leg -> LegState \ {"calling"}]
      BY DEF LegState
    <3> QED BY <2>1, <3>1 DEF Execute, breaker
  <2>2. CASE Gather(r) \/ Expire(r)
    <3> DEFINE f == [l \in Leg |-> IF leg[r][l] = "calling" THEN "unusable" ELSE leg[r][l]]
    <3>1. Conclude(r)
      BY <2>2 DEF Gather, Expire
    <3>2. f \in [Leg -> LegState \ {"calling"}]
      BY DEF LegState, IInv, TypeOK
    <3>3. leg' = [leg EXCEPT ![r] = f] /\ UNCHANGED <<failures, opened>>
      BY <3>1 DEF Conclude, breaker
    <3>4. \E o \in {"pool", "failed"} : request' = [request EXCEPT ![r] = o]
      BY <3>1 DEF Conclude
    <3> HIDE DEF f
    <3> QED BY <3>2, <3>3, <3>4
  <2> QED BY <2>1, <2>2
<1>2. /\ TypeOK' /\ BreakerCoherent'
      /\ \A s \in Source : InFlight(s)' \subseteq InFlight(s)
  BY <1>1 DEF IInv, TypeOK, BreakerCoherent, InFlight, Calls
<1>3. \A s \in Source : Contained(s) /\ failures[s] \in Nat /\ failures'[s] = failures[s]
  BY <1>1 DEF IInv, TypeOK, OutageIsContained, Contained
<1>4. \A s \in Source : Contained(s)'
  BY <1>2, <1>3, FewerCallsAreContained
<1> QED BY <1>2, <1>4 DEF IInv, OutageIsContained, Contained

LEMMA CoolDownStep ==
  ASSUME IInv, NEW s \in Source, CoolDown(s)
  PROVE  IInv'
<1>1. TypeOK' /\ BreakerCoherent'
  BY DEF IInv, CoolDown, TypeOK, BreakerCoherent
<1>2. OutageIsContained'
  BY DEF IInv, CoolDown, OutageIsContained, InFlight, Calls
<1> QED BY <1>1, <1>2 DEF IInv

-----------------------------------------------------------------------------
(* The theorems. *)

LEMMA IInvHolds == Spec => []IInv
<1>1. Init => IInv
  <2> SUFFICES ASSUME Init PROVE IInv
    OBVIOUS
  <2>1. TypeOK /\ BreakerCoherent
    BY ThresholdAssumption DEF Init, TypeOK, BreakerCoherent, LegState
  <2>2. ASSUME NEW s \in Source PROVE Contained(s)
    <3>1. InFlight(s) \in SUBSET Calls(s) /\ failures[s] = 0
      BY DEF InFlight, Init
    <3>2. /\ Cardinality(InFlight(s)) \in Nat /\ Cardinality(Calls(s)) \in Nat
          /\ Cardinality(InFlight(s)) <= Cardinality(Calls(s))
      BY <3>1, SubsetOfCalls, CallsAreFinite
    <3> QED BY <3>1, <3>2, ThresholdAssumption DEF Contained
  <2> QED BY <2>1, <2>2 DEF IInv, OutageIsContained, Contained
<1>2. IInv /\ [Next]_vars => IInv'
  <2> SUFFICES ASSUME IInv, [Next]_vars PROVE IInv'
    OBVIOUS
  <2>1. ASSUME NEW r \in Request, NEW l \in Leg, Step(r, l) PROVE IInv'
    BY <2>1, LegStep
  <2>2. ASSUME NEW r \in Request, Execute(r) \/ Gather(r) \/ Expire(r) PROVE IInv'
    BY <2>2, RequestStep
  <2>3. ASSUME NEW s \in Source, CoolDown(s) PROVE IInv'
    BY <2>3, CoolDownStep
  <2>4. CASE UNCHANGED vars
    BY <2>4 DEF vars, IInv, TypeOK, BreakerCoherent, OutageIsContained, InFlight, Calls
  <2> QED BY <2>1, <2>2, <2>3, <2>4 DEF Next, Arrival, Step
<1> QED BY <1>1, <1>2, PTL DEF Spec

\* The variables keep their types; the count of failures is never negative.
THEOREM OrchestratorTypes == Spec => []TypeOK
<1>1. IInv => TypeOK
  BY DEF IInv
<1> QED BY <1>1, IInvHolds, PTL

\* The breaker's flag and its count never disagree.
THEOREM BreakerNeverTorn == Spec => []BreakerCoherent
<1>1. IInv => BreakerCoherent
  BY DEF IInv
<1> QED BY <1>1, IInvHolds, PTL

\* However many requests are hit by an outage, the calls it can take are bounded
\* by the threshold and by what can be in flight at once.
THEOREM OutagesAreContained == Spec => []OutageIsContained
<1>1. IInv => OutageIsContained
  BY DEF IInv
<1> QED BY <1>1, IInvHolds, PTL

\* Under either policy, a pool is returned only when every needed leg answered
\* before the deadline.
THEOREM PoolsAreSufficient == Spec => NeededLegsAnswered
<1> DEFINE A == \A r \in Request : (request[r] = "running" /\ request'[r] = "pool") =>
                  \A l \in Needed : leg[r][l] = "usable"
<1>1. IInv /\ [Next]_vars => [A]_vars
  <2> SUFFICES ASSUME IInv, [Next]_vars, NEW r \in Request,
                      request[r] = "running", request'[r] = "pool", NEW l \in Needed
               PROVE  leg[r][l] = "usable"
    BY DEF A
  <2>1. l \in Leg /\ TypeOK
    BY NeededAreLegs DEF IInv
  <2>2. Gather(r) \/ Expire(r)
    <3>1. request' # request
      BY <2>1
    <3>2. ASSUME NEW q \in Request, Execute(q) PROVE FALSE
      BY <3>2, <2>1 DEF Execute, TypeOK
    <3>3. ASSUME NEW q \in Request, Gather(q) \/ Expire(q), q # r PROVE FALSE
      BY <3>3, <2>1 DEF Gather, Expire, Conclude, TypeOK
    <3> QED BY <3>1, <3>2, <3>3
            DEF Next, Arrival, vars, StartUnregistered, Skip, Call, Return, RunLate, Raise, CoolDown
  <2>3. Conclude(r)
    BY <2>2 DEF Gather, Expire
  <2>4. leg'[r][l] = "usable"
    BY <2>1, <2>3 DEF Conclude, TypeOK
  <2>5. leg'[r][l] = IF leg[r][l] = "calling" THEN "unusable" ELSE leg[r][l]
    BY <2>1, <2>3 DEF Conclude, TypeOK
  <2> QED BY <2>4, <2>5
<1> QED BY <1>1, IInvHolds, PTL DEF Spec, NeededLegsAnswered
=============================================================================
