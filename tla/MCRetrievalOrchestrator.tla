---------------------- MODULE MCRetrievalOrchestrator ----------------------
(***************************************************************************)
(* RetrievalOrchestrator for TLC, with a history variable that remembers   *)
(* the call a cooled breaker let through.                                  *)
(***************************************************************************)
EXTENDS RetrievalOrchestrator

CONSTANTS NoCall

VARIABLE probe  \* per source, the call that half-opened its breaker

NewCalls(s) == {c \in Calls(s) : leg[c[1]][c[2]] # "calling" /\ leg'[c[1]][c[2]] = "calling"}

ProbeInit == Init /\ probe = [s \in Source |-> NoCall]

ProbeNext ==
    /\ Next
    /\ probe' = [s \in Source |->
          IF opened[s] = "cooled" /\ NewCalls(s) # {} THEN CHOOSE c \in NewCalls(s) : TRUE
          ELSE IF probe[s] \in InFlight(s)' THEN probe[s]
          ELSE NoCall]

ProbeSpec == ProbeInit /\ [][ProbeNext]_<<vars, probe>>

\* orchestrator.py:69 says of a breaker whose cool-down has elapsed: "let one
\* request through to find out whether the source recovered".  While that call
\* is in flight no other call to the source begins.
OneProbe ==
    [][\A s \in Source : probe[s] \in InFlight(s) => NewCalls(s) = {}]_<<vars, probe>>
=============================================================================
