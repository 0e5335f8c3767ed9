---------------------------- MODULE AdapterModel ----------------------------
(***************************************************************************)
(* Adapter versions, their registry rows and the rules that decide who may *)
(* load them (core/models/parametric.py, parametric/store.py).  Shared by  *)
(* the catalogue that says what the registry promises and by the registry  *)
(* itself.                                                                 *)
(***************************************************************************)
EXTENDS Naturals, FiniteSets

CONSTANTS Adapters,   \* adapter ids; the id names the adapter's tenant scope
          Versions,   \* version labels of one adapter
          Weights,    \* weight blobs; a blob stands for its SHA-256 too
          Documents,  \* source documents an adapter may be trained on
          Tenants,    \* tenant ids
          Global,     \* the scope of an adapter that may serve any tenant
          ScopeOf,    \* Adapters -> Tenants \cup {Global}
          NoRow,      \* the lookup result for an unregistered version
          NoTenant    \* a load that names no tenant (mirrored traffic)

Key == Adapters \X Versions
Status == {"candidate", "shadow", "active", "deprecated", "revoked"}
Row == [status : Status, digest : Weights, docs : SUBSET Documents]

ASSUME KeyAssumption == IsFiniteSet(Adapters) /\ IsFiniteSet(Versions) /\ Versions \subseteq Nat
ASSUME NoRowAssumption == NoRow \notin Row
ASSUME ScopeAssumption == ScopeOf \in [Adapters -> Tenants \cup {Global}]
ASSUME TenantAssumption == /\ Global \notin Tenants
                           /\ NoTenant \notin Tenants \cup {Global}

\* A tenant the adapter may be merged for.  Traffic that names no tenant is
\* checked against nothing: the caller vouches for it.
InScope(k, t) == t = NoTenant \/ ScopeOf[k[1]] \in {Global, t}

\* Only an active version serves; mirrored traffic also runs shadow versions.
Allowed(includeShadow) ==
    IF includeShadow THEN {"active", "shadow"} ELSE {"active"}

\* Status is the one mutable field of a row: the rows r with those of K moved.
WithStatus(r, K, st) ==
    [k \in Key |-> IF k \in K THEN [r[k] EXCEPT !.status = st] ELSE r[k]]

\* What a load returns.
NoReply == [outcome |-> "none"]
Refusal(k, t) == [outcome |-> "refused", key |-> k, tenant |-> t]
Loaded(k, t, w) == [outcome |-> "loaded", key |-> k, tenant |-> t, data |-> w]
Reply == {NoReply}
         \cup {Refusal(k, t) : k \in Key, t \in Tenants \cup {NoTenant}}
         \cup {Loaded(k, t, w) : k \in Key, t \in Tenants \cup {NoTenant}, w \in Weights}
=============================================================================
