--------------------------- MODULE AdapterRegistry ---------------------------
(***************************************************************************)
(* The adapter registry (parametric/registry.py) over the in-memory        *)
(* adapter repository, with the blob store and the LRU residency cache     *)
(* (parametric/store.py) and the two pipeline steps that write it          *)
(* (parametric/pipeline.py).                                               *)
(*                                                                         *)
(* One action is one call.  Every method here is a coroutine, but none of  *)
(* the awaits inside it reaches a suspension point: the repository, the    *)
(* blob store and the cache are in-process dictionaries.  Concurrent       *)
(* requests therefore interleave between calls and not within them.        *)
(*                                                                         *)
(* A definition whose comment is in parentheses is a faulty variant of the *)
(* one after it, kept to show which property would notice the fault.       *)
(***************************************************************************)
EXTENDS AdapterModel

CONSTANTS HotAdapters,  \* the configured cache capacity; the schema allows 0
          NoBlob,       \* the blob store's answer for a key it does not hold
          Damaged       \* the bytes of a truncated or corrupted blob

ASSUME CapacityAssumption == HotAdapters \in Nat
ASSUME BlobAssumption == NoBlob \notin Weights /\ Damaged \notin Weights \cup {NoBlob}

VARIABLES rows,      \* the repository: Key -> Row \cup {NoRow}
          reply,     \* what the latest load returned
          snapshot,  \* the registry's in-memory routing snapshot
          blobs,     \* the object store, by adapter version
          bytes,     \* the weights held resident, NoBlob when absent
          age,       \* place in the LRU order: 1 newest, 0 not resident
          served     \* versions live requests have used: the monitor's input

vars == <<rows, reply, snapshot, blobs, bytes, age, served>>
cache == <<bytes, age>>

Registered == {k \in Key : rows[k] # NoRow}

\* A configured capacity of nothing still holds the adapter being served.
CapacityAsConfigured == HotAdapters
Capacity == IF HotAdapters < 1 THEN 1 ELSE HotAdapters
Resident == {k \in Key : age[k] > 0}

-----------------------------------------------------------------------------
(* The LRU order.  The ordered dictionary is a place per resident key,     *)
(* counted from its most recently used end.                                *)

\* Places for the keys of R, in the order of the places f gave them.
Places(f, R) ==
    [k \in Key |-> IF k \in R THEN 1 + Cardinality({j \in R : f[j] < f[k]}) ELSE 0]

\* The order once k has moved to the most recent end.
Touched(k) == Places([age EXCEPT ![k] = 0], Resident \cup {k})

\* Drop what lies beyond the capacity, oldest first.
Trimmed(f) == [k \in Key |-> IF f[k] > Capacity THEN 0 ELSE f[k]]

Evict(K) ==
    /\ age' = Places(age, Resident \ K)
    /\ bytes' = [k \in Key |-> IF k \in K THEN NoBlob ELSE bytes[k]]

-----------------------------------------------------------------------------
(* Registration. *)

\* (the row keeps the empty checksum it was handed)
RegisterUnsigned(k, w, D) ==
    /\ rows[k] = NoRow
    /\ blobs' = [blobs EXCEPT ![k] = w]
    /\ rows' = [rows EXCEPT ![k] = [status |-> "candidate", digest |-> NoBlob, docs |-> D]]
    /\ snapshot' = [snapshot EXCEPT ![k] = rows'[k]]
    /\ UNCHANGED <<reply, cache, served>>

\* The blob is written before the row, so a row never lacks a blob.
Register(k, w, D) ==
    /\ rows[k] = NoRow
    /\ blobs' = [blobs EXCEPT ![k] = w]
    /\ rows' = [rows EXCEPT ![k] = [status |-> "candidate", digest |-> w, docs |-> D]]
    /\ snapshot' = [snapshot EXCEPT ![k] = rows'[k]]
    /\ UNCHANGED <<reply, cache, served>>

\* The repository refuses a second registration of a version with a
\* StorageError; the blob has been overwritten by then.
RegisterDuplicate(k, w) ==
    /\ rows[k] # NoRow
    /\ blobs' = [blobs EXCEPT ![k] = w]
    /\ UNCHANGED <<rows, reply, snapshot, cache, served>>

\* A cluster that passes every gate of the pipeline: the lowest version not
\* yet taken is registered and moved to shadow.
Parameterize(k, w, D) ==
    /\ rows[k] = NoRow
    /\ \A v \in Versions : v < k[2] => rows[<<k[1], v>>] # NoRow
    /\ blobs' = [blobs EXCEPT ![k] = w]
    /\ rows' = [rows EXCEPT ![k] = [status |-> "shadow", digest |-> w, docs |-> D]]
    /\ snapshot' = [snapshot EXCEPT ![k] = rows'[k]]
    /\ Evict({k})
    /\ UNCHANGED <<reply, served>>

-----------------------------------------------------------------------------
(* Status changes.  Each writes the row, copies it into the snapshot and   *)
(* evicts a version that may no longer serve.                              *)

\* (the snapshot is not refreshed)
SetStatusesInRepository(K, st) ==
    /\ rows' = WithStatus(rows, K, st)
    /\ UNCHANGED snapshot

SetStatuses(K, st) ==
    /\ rows' = WithStatus(rows, K, st)
    /\ snapshot' = [k \in Key |-> IF k \in K THEN rows'[k] ELSE snapshot[k]]

\* The conflict monitor found a version that served critically stale: it is
\* demoted, whatever its status has become since.
Demote(k) ==
    /\ k \in served
    /\ SetStatuses({k}, "deprecated")
    /\ Evict({k})
    /\ UNCHANGED <<reply, blobs, served>>

\* (a roll-back to an older version overlooks the newer one)
SupersededOlder(k) ==
    {j \in Key : /\ j[1] = k[1]
                 /\ j[2] < k[2]
                 /\ snapshot[j] # NoRow
                 /\ snapshot[j].status = "active"}

\* The other versions of k's adapter that the snapshot shows active.
Superseded(k) ==
    {j \in Key : /\ j[1] = k[1]
                 /\ j[2] # k[2]
                 /\ snapshot[j] # NoRow
                 /\ snapshot[j].status = "active"}

Promote(k) ==
    /\ k \in Registered
    /\ rows' = [WithStatus(rows, Superseded(k), "deprecated")
                   EXCEPT ![k] = [rows[k] EXCEPT !.status = "active"]]
    /\ snapshot' = [j \in Key |->
                       IF j \in Superseded(k) \cup {k} THEN rows'[j] ELSE snapshot[j]]
    /\ Evict(Superseded(k))
    /\ UNCHANGED <<reply, blobs, served>>

\* Promoting a version that was never registered fails on its last step,
\* after the version in service has been deprecated.
PromoteUnregistered(k) ==
    /\ rows[k] = NoRow
    /\ SetStatuses(Superseded(k), "deprecated")
    /\ Evict(Superseded(k))
    /\ UNCHANGED <<reply, blobs, served>>

\* (only versions trained on nothing else)
TrainedOnlyOn(D) == {k \in Registered : rows[k].docs \subseteq D}

TrainedOn(D) == {k \in Registered : rows[k].docs \cap D # {}}

\* Erasing documents revokes every version trained on any of them.
RevokeDocuments(D) ==
    LET K == {k \in TrainedOn(D) : rows[k].status # "revoked"}
    IN  /\ SetStatuses(K, "revoked")
        /\ Evict(K)
        /\ UNCHANGED <<reply, blobs, served>>

-----------------------------------------------------------------------------
(* Loading an adapter, and reading the weights it made resident. *)

LoadForeign(k, t) ==
    /\ k \in Registered
    /\ ~InScope(k, t)
    /\ reply' = Refusal(k, t)
    /\ UNCHANGED <<rows, snapshot, blobs, cache, served>>

LoadNotServable(k, t, includeShadow) ==
    /\ k \in Registered => /\ InScope(k, t)
                           /\ rows[k].status \notin Allowed(includeShadow)
    /\ reply' = Refusal(k, t)
    /\ Evict({k})
    /\ UNCHANGED <<rows, snapshot, blobs, served>>

\* (the scope is not rechecked)
LoadableByAnyone(k, t, includeShadow) ==
    /\ k \in Registered
    /\ rows[k].status \in Allowed(includeShadow)

Loadable(k, t, includeShadow) ==
    /\ k \in Registered
    /\ InScope(k, t)
    /\ rows[k].status \in Allowed(includeShadow)

\* Mirrored shadow traffic is compared offline: no event reports it.
Used(k, includeShadow) == served' = IF includeShadow THEN served ELSE served \cup {k}

LoadWarm(k, t, includeShadow) ==
    /\ Loadable(k, t, includeShadow)
    /\ k \in Resident
    /\ age' = Touched(k)
    /\ reply' = Loaded(k, t, bytes[k])
    /\ Used(k, includeShadow)
    /\ UNCHANGED <<rows, snapshot, blobs, bytes>>

\* The checksum is verified on a cold load only, and before the cache changes.
LoadDamaged(k, t, includeShadow) ==
    /\ Loadable(k, t, includeShadow)
    /\ k \notin Resident
    /\ blobs[k] # rows[k].digest
    /\ reply' = Refusal(k, t)
    /\ UNCHANGED <<rows, snapshot, blobs, cache, served>>

\* (a cold load trusts the blob)
LoadColdUnchecked(k, t, includeShadow) ==
    /\ Loadable(k, t, includeShadow)
    /\ k \notin Resident
    /\ age' = Trimmed(Touched(k))
    /\ bytes' = [j \in Key |-> IF age'[j] = 0 THEN NoBlob
                               ELSE IF j = k THEN blobs[k] ELSE bytes[j]]
    /\ reply' = Loaded(k, t, blobs[k])
    /\ Used(k, includeShadow)
    /\ UNCHANGED <<rows, snapshot, blobs>>

LoadCold(k, t, includeShadow) ==
    /\ Loadable(k, t, includeShadow)
    /\ k \notin Resident
    /\ blobs[k] = rows[k].digest
    /\ age' = Trimmed(Touched(k))
    /\ bytes' = [j \in Key |-> IF age'[j] = 0 THEN NoBlob
                               ELSE IF j = k THEN blobs[k] ELSE bytes[j]]
    /\ reply' = IF age'[k] = 0 THEN Refusal(k, t) ELSE Loaded(k, t, blobs[k])
    /\ Used(k, includeShadow)
    /\ UNCHANGED <<rows, snapshot, blobs>>

\* The object store loses part of a blob.
Damage(k) ==
    /\ blobs[k] # NoBlob
    /\ blobs' = [blobs EXCEPT ![k] = Damaged]
    /\ UNCHANGED <<rows, reply, snapshot, cache, served>>

-----------------------------------------------------------------------------
Init ==
    /\ rows = [k \in Key |-> NoRow]
    /\ reply = NoReply
    /\ snapshot = rows
    /\ blobs = [k \in Key |-> NoBlob]
    /\ bytes = [k \in Key |-> NoBlob]
    /\ age = [k \in Key |-> 0]
    /\ served = {}

LoadNext(k, t, includeShadow) ==
    \/ LoadForeign(k, t)
    \/ LoadNotServable(k, t, includeShadow)
    \/ LoadWarm(k, t, includeShadow)
    \/ LoadDamaged(k, t, includeShadow)
    \/ LoadCold(k, t, includeShadow)

KeyNext(k) ==
    \/ \E w \in Weights, D \in SUBSET Documents : Register(k, w, D)
    \/ \E w \in Weights : RegisterDuplicate(k, w)
    \/ \E w \in Weights, D \in (SUBSET Documents) \ {{}} : Parameterize(k, w, D)
    \/ Demote(k)
    \/ Promote(k)
    \/ PromoteUnregistered(k)
    \/ Damage(k)
    \/ \E t \in Tenants \cup {NoTenant}, s \in BOOLEAN : LoadNext(k, t, s)

Next ==
    \/ \E k \in Key : KeyNext(k)
    \/ \E D \in SUBSET Documents : RevokeDocuments(D)

Spec == Init /\ [][Next]_vars

-----------------------------------------------------------------------------
(* Properties. *)

\* Every variable has its type; a resident key holds weights, an absent one none.
TypeOK ==
    /\ rows \in [Key -> Row \cup {NoRow}]
    /\ snapshot \in [Key -> Row \cup {NoRow}]
    /\ blobs \in [Key -> Weights \cup {NoBlob, Damaged}]
    /\ bytes \in [Key -> Weights \cup {NoBlob, Damaged}]
    /\ age \in [Key -> Nat]
    /\ served \subseteq Registered
    /\ reply \in Reply

\* Routing reads the snapshot without awaiting the repository: the two never
\* disagree, so promotion finds the version in service and routing offers no
\* version that was retired.
SnapshotAgrees == snapshot = rows

\* Resident weights belong to a version that may still run and are the weights
\* its row was registered with, whatever has happened to the blob since: a
\* revoked or demoted version is out of the cache the moment its status moves,
\* and a corrupted or overwritten blob never reaches the serving provider.
ResidencyCoherent ==
    \A k \in Resident : /\ k \in Registered
                        /\ rows[k].status \in {"active", "shadow"}
                        /\ bytes[k] = rows[k].digest

\* Promotion and demotion leave an adapter with one active version at most.
OneActiveVersion ==
    \A j, k \in Registered :
        (rows[j].status = "active" /\ rows[k].status = "active" /\ j[1] = k[1]) => j = k

\* Registered rows are immutable but for their status: the registry can always
\* say which weights and which documents stand behind a version.
RowsAreImmutable ==
    [][\A k \in Registered : /\ rows'[k] # NoRow
                             /\ rows'[k].digest = rows[k].digest
                             /\ rows'[k].docs = rows[k].docs]_vars

\* A cold load of a servable version whose blob is intact serves it: the weights
\* just loaded are still resident when the provider reads them, even with a
\* cache configured to hold nothing.
ColdLoadServes ==
    [][\A k \in Key, t \in Tenants \cup {NoTenant}, s \in BOOLEAN :
          LoadCold(k, t, s) => reply'.outcome = "loaded"]_vars

\* Erasing documents leaves no version trained on them servable or resident.
ErasureIsImmediate ==
    [][\A D \in SUBSET Documents :
          RevokeDocuments(D) =>
              \A k \in Registered : rows[k].docs \cap D # {} =>
                  rows'[k].status = "revoked" /\ age'[k] = 0]_vars

\* The registry, its snapshot and its cache implement the catalogue: one active
\* version per adapter, and loads that return the registered weights of a
\* servable version to a tenant in its scope or nothing.
Catalog == INSTANCE AdapterCatalog WITH rows <- rows, reply <- reply
ImplementsCatalog == Catalog!Spec

-----------------------------------------------------------------------------
(* What the source says of the registry and the code does not keep. *)

\* models/parametric.py: "REVOKED is terminal and immediate."
RevokedIsTerminal ==
    [][\A k \in Registered : rows[k].status = "revoked" => rows'[k].status = "revoked"]_vars

=============================================================================
