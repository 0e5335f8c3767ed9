-------------------------- MODULE MCAdapterRegistry --------------------------
(***************************************************************************)
(* Small instances of AdapterRegistry.                                     *)
(***************************************************************************)
EXTENDS AdapterRegistry, TLC

CONSTANTS own, shared,   \* a tenant's adapter and a global one
          t1, t2         \* tenants

MCScopeOf == [a \in Adapters |-> IF a = shared THEN Global ELSE t1]
MCSymmetry == Permutations(Weights) \cup Permutations(Documents)
=============================================================================
