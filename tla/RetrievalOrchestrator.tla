----------------------- MODULE RetrievalOrchestrator -----------------------
(***************************************************************************)
(* Concurrent executions of retrieval plans (retrieval/orchestrator.py)    *)
(* over the circuit breaker they share, with the plans SourcePlanner makes *)
(* (retrieval/planner.py).                                                 *)
(*                                                                         *)
(* A leg suspends only inside its source, so what it does before and after *)
(* the call is one step each.  Leg tasks are scheduled before the timer of *)
(* the plan's deadline, so every leg has started when the deadline passes. *)
(* A monotonic clock is abstracted to whether an open breaker's cool-down  *)
(* has elapsed.  A slot of Request serves one request after another.       *)
(*                                                                         *)
(* A definition whose comment is in parentheses is a faulty variant of the *)
(* one after it, kept to show which property would notice the fault.       *)
(***************************************************************************)
EXTENDS Integers, FiniteSets

CONSTANTS Request,       \* slots for concurrent requests
          Source,        \* the sources the planner knows
          Registered,    \* those the orchestrator can call
          Dense,         \* those that search vectors
          Required,      \* those whose main leg a plan cannot do without
          Hop,           \* the sub-queries of a decomposed query
          Main,          \* the leg for the query itself
          AllOrNothing,  \* the plan's partial-results policy
          Threshold      \* consecutive failures that open a breaker

ASSUME PlanAssumption ==
    /\ IsFiniteSet(Request) /\ IsFiniteSet(Source) /\ IsFiniteSet(Hop)
    /\ Registered \subseteq Source /\ Dense \subseteq Source /\ Required \subseteq Source
    /\ Main \notin Hop
    /\ AllOrNothing \in BOOLEAN
ASSUME ThresholdAssumption == Threshold \in Nat \ {0}

VARIABLES failures,  \* consecutive failures of a source
          opened,    \* whether its breaker is open: "no", "hot" or "cooled"
          leg,       \* what each leg of each request is doing, or how it ended
          request    \* "idle", "running", or how the slot's last request ended

vars == <<failures, opened, leg, request>>
breaker == <<failures, opened>>

\* The plan: a leg per source, and one per hop and source that searches vectors.
Leg == (Source \X {Main}) \cup (Dense \X Hop)

\* The policy the planner always writes, and the one a caller may substitute.
Needed == IF AllOrNothing THEN Leg ELSE Required \X {Main}

LegState == {"created", "calling", "usable", "unusable"}

-----------------------------------------------------------------------------
(* The circuit breaker. *)

\* (the flag of an open breaker is forgotten)
ForgetFailures(s) ==
    /\ failures' = [failures EXCEPT ![s] = 0]
    /\ UNCHANGED opened

\* A call that began before the breaker opened may end here and close it.
RecordSuccess(s) ==
    /\ failures' = [failures EXCEPT ![s] = 0]
    /\ opened' = [opened EXCEPT ![s] = "no"]

\* A failure of a call in flight starts the cool-down of an open breaker anew.
RecordFailure(s) ==
    /\ failures' = [failures EXCEPT ![s] = @ + 1]
    /\ opened' = [opened EXCEPT ![s] = IF failures[s] + 1 >= Threshold THEN "hot" ELSE @]

\* (calls go through, and the breaker stays where it is)
AdmitOpen(s) == UNCHANGED breaker

\* (the count of failures is kept)
AdmitCounting(s) ==
    /\ opened' = [opened EXCEPT ![s] = "no"]
    /\ UNCHANGED failures

\* The first call after the cool-down closes the breaker, one failure away from
\* opening again.
Admit(s) ==
    IF opened[s] = "cooled"
    THEN /\ opened' = [opened EXCEPT ![s] = "no"]
         /\ failures' = [failures EXCEPT ![s] = Threshold - 1]
    ELSE UNCHANGED breaker

CoolDown(s) ==
    /\ opened[s] = "hot"
    /\ opened' = [opened EXCEPT ![s] = "cooled"]
    /\ UNCHANGED <<failures, leg, request>>

-----------------------------------------------------------------------------
(* One leg of one request. *)

To(r, l, st) == leg' = [leg EXCEPT ![r][l] = st]

Running(r, l, st) == request[r] = "running" /\ leg[r][l] = st

StartUnregistered(r, l) ==
    /\ Running(r, l, "created")
    /\ l[1] \notin Registered
    /\ To(r, l, "unusable")
    /\ UNCHANGED <<breaker, request>>

Skip(r, l) ==
    /\ Running(r, l, "created")
    /\ l[1] \in Registered
    /\ opened[l[1]] = "hot"
    /\ To(r, l, "unusable")
    /\ UNCHANGED <<breaker, request>>

Call(r, l) ==
    /\ Running(r, l, "created")
    /\ l[1] \in Registered
    /\ opened[l[1]] # "hot"
    /\ Admit(l[1])
    /\ To(r, l, "calling")
    /\ UNCHANGED request

\* A complete result, or what the source had when its own deadline passed: the
\* breaker counts both as a success.
Return(r, l) ==
    /\ Running(r, l, "calling")
    /\ RecordSuccess(l[1])
    /\ To(r, l, "usable")
    /\ UNCHANGED request

\* The source raised DeadlineExceeded, which the breaker does not hear of.
RunLate(r, l) ==
    /\ Running(r, l, "calling")
    /\ To(r, l, "unusable")
    /\ UNCHANGED <<breaker, request>>

Raise(r, l) ==
    /\ Running(r, l, "calling")
    /\ RecordFailure(l[1])
    /\ To(r, l, "unusable")
    /\ UNCHANGED request

-----------------------------------------------------------------------------
(* One request. *)

Execute(r) ==
    /\ request[r] # "running"
    /\ request' = [request EXCEPT ![r] = "running"]
    /\ leg' = [leg EXCEPT ![r] = [l \in Leg |-> "created"]]
    /\ UNCHANGED breaker

Started(r) == \A l \in Leg : leg[r][l] # "created"
Finished(r) == \A l \in Leg : leg[r][l] \in {"usable", "unusable"}

\* (a late leg leaves no result, and the policy consults results only)
ConcludeOnResults(r) ==
    /\ leg' = [leg EXCEPT ![r] =
                  [l \in Leg |-> IF @[l] = "calling" THEN "unusable" ELSE @[l]]]
    /\ request' = [request EXCEPT ![r] =
                      IF \A l \in Needed : leg[r][l] # "unusable" THEN "pool" ELSE "failed"]
    /\ UNCHANGED breaker

\* Late legs are cancelled and count as timed out; the breaker hears of none.
Conclude(r) ==
    /\ leg' = [leg EXCEPT ![r] =
                  [l \in Leg |-> IF @[l] = "calling" THEN "unusable" ELSE @[l]]]
    /\ request' = [request EXCEPT ![r] =
                      IF \A l \in Needed : leg'[r][l] = "usable" THEN "pool" ELSE "failed"]
    /\ UNCHANGED breaker

Gather(r) ==
    /\ request[r] = "running"
    /\ Finished(r)
    /\ Conclude(r)

\* (the deadline waits for a first result)
ExpireWithResult(r) ==
    /\ request[r] = "running"
    /\ Started(r) /\ ~Finished(r)
    /\ \E l \in Leg : leg[r][l] = "usable"
    /\ Conclude(r)

Expire(r) ==
    /\ request[r] = "running"
    /\ Started(r) /\ ~Finished(r)
    /\ Conclude(r)

-----------------------------------------------------------------------------
Init ==
    /\ failures = [s \in Source |-> 0]
    /\ opened = [s \in Source |-> "no"]
    /\ leg = [r \in Request |-> [l \in Leg |-> "unusable"]]
    /\ request = [r \in Request |-> "idle"]

Start(r, l) == StartUnregistered(r, l) \/ Skip(r, l) \/ Call(r, l)

Arrival == \E r \in Request : Execute(r)

Next ==
    \/ Arrival
    \/ \E r \in Request, l \in Leg :
          \/ StartUnregistered(r, l) \/ Skip(r, l) \/ Call(r, l)
          \/ Return(r, l) \/ RunLate(r, l) \/ Raise(r, l)
    \/ \E r \in Request : Gather(r) \/ Expire(r)
    \/ \E s \in Source : CoolDown(s)

Spec == Init /\ [][Next]_vars

\* Tasks that can run are scheduled, deadlines pass and cool-downs elapse.
\* Nothing says that a source ever answers or that requests arrive.
FairSpec ==
    /\ Spec
    /\ \A r \in Request, l \in Leg : WF_vars(Start(r, l))
    /\ \A r \in Request : WF_vars(Gather(r) \/ Expire(r))
    /\ \A s \in Source : WF_vars(CoolDown(s))

-----------------------------------------------------------------------------
(* Properties. *)

TypeOK ==
    /\ failures \in [Source -> Nat]
    /\ opened \in [Source -> {"no", "hot", "cooled"}]
    /\ leg \in [Request -> [Leg -> LegState]]
    /\ request \in [Request -> {"idle", "running", "pool", "failed"}]

\* The two dictionaries of the breaker agree, whatever order calls of different
\* requests end in: it is open exactly when the count has reached the threshold.
BreakerCoherent ==
    \A s \in Source : opened[s] # "no" <=> failures[s] >= Threshold

Calls(s) == {c \in Request \X Leg : c[2][1] = s}
InFlight(s) == {c \in Calls(s) : leg[c[1]][c[2]] = "calling"}

\* An outage costs a source no more calls than were in flight when the breaker
\* opened: the count cannot run past the threshold by more than that.
OutageIsContained ==
    \A s \in Source :
        failures[s] + Cardinality(InFlight(s)) < Threshold + Cardinality(Calls(s))

\* A request goes on only with every leg its policy needs: a required leg that
\* was cancelled at the deadline has not succeeded.
NeededLegsAnswered ==
    [][\A r \in Request :
          (request[r] = "running" /\ request'[r] = "pool") =>
              \A l \in Needed : leg[r][l] = "usable"]_vars

\* A stuck source never keeps a request.
RequestsEnd == \A r \in Request : request[r] = "running" ~> request[r] # "running"

\* As long as requests keep arriving, no breaker stays open for ever, even if
\* its source never answers again.
BreakersReclose ==
    []<><<Arrival>>_vars =>
        \A s \in Registered : opened[s] # "no" ~> opened[s] = "no"
=============================================================================
