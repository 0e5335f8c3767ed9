----------------------- MODULE AdapterRegistryProofs -----------------------
(***************************************************************************)
(* Theorems about AdapterRegistry, for every set of adapters, versions,    *)
(* tenants, documents and weights, and every cache capacity.               *)
(*                                                                         *)
(* The inductive invariant joins four of the model's invariants.  They     *)
(* lean on each other: a warm load returns registered weights only because *)
(* residency is coherent, and promotion finds the version in service only  *)
(* because the snapshot agrees with the rows.                              *)
(***************************************************************************)
EXTENDS AdapterRegistry, FiniteSetTheorems, TLAPS

IInv == TypeOK /\ SnapshotAgrees /\ ResidencyCoherent /\ OneActiveVersion

-----------------------------------------------------------------------------
(* Lemmas about the operators. *)

\* There are finitely many adapter versions.
LEMMA KeyIsFinite == IsFiniteSet(Key)
  BY KeyAssumption, FS_Product DEF Key

\* The cache always has room for one adapter.
LEMMA CapacityIsPositive == Capacity \in Nat /\ Capacity >= 1
  BY CapacityAssumption DEF Capacity

\* Places are numbers, and exactly the keys of R have one above zero.
LEMMA PlacesProperties ==
  ASSUME NEW f \in [Key -> Nat], NEW R \in SUBSET Key
  PROVE  /\ Places(f, R) \in [Key -> Nat]
         /\ \A k \in Key : Places(f, R)[k] > 0 <=> k \in R
<1>1. \A k \in Key : Cardinality({j \in R : f[j] < f[k]}) \in Nat
  <2> TAKE k \in Key
  <2>1. {j \in R : f[j] < f[k]} \in SUBSET Key
    OBVIOUS
  <2> QED BY <2>1, KeyIsFinite, FS_Subset, FS_CardinalityType
<1> QED BY <1>1 DEF Places

\* Evicting K takes K out of the cache and leaves the rest as it was.
LEMMA EvictProperties ==
  ASSUME NEW K \in SUBSET Key, age \in [Key -> Nat],
         bytes \in [Key -> Weights \cup {NoBlob, Damaged}],
         Evict(K)
  PROVE  /\ age' \in [Key -> Nat]
         /\ bytes' \in [Key -> Weights \cup {NoBlob, Damaged}]
         /\ Resident' = Resident \ K
         /\ \A k \in Resident' : bytes'[k] = bytes[k]
<1>1. Resident \ K \in SUBSET Key
  BY DEF Resident
<1>2. /\ age' \in [Key -> Nat]
      /\ \A k \in Key : age'[k] > 0 <=> k \in Resident \ K
  BY <1>1, PlacesProperties DEF Evict
<1> QED BY <1>2 DEF Evict, Resident

\* Touching k makes it the newest resident adapter and keeps the others.
LEMMA TouchedProperties ==
  ASSUME NEW k \in Key, age \in [Key -> Nat]
  PROVE  /\ Touched(k) \in [Key -> Nat]
         /\ \A j \in Key : Touched(k)[j] > 0 <=> j \in Resident \cup {k}
         /\ Touched(k)[k] = 1
<1> DEFINE f == [age EXCEPT ![k] = 0]
<1>1. f \in [Key -> Nat] /\ Resident \cup {k} \in SUBSET Key
  BY DEF Resident
<1>2. {j \in Resident \cup {k} : f[j] < f[k]} = {}
  BY <1>1 DEF Resident
<1>3. Touched(k) = Places(f, Resident \cup {k})
  BY DEF Touched
<1>4. Touched(k)[k] = 1
  <2>1. Touched(k)[k] = 1 + Cardinality({j \in Resident \cup {k} : f[j] < f[k]})
    BY <1>3 DEF Places
  <2> QED BY <2>1, <1>2, FS_EmptySet
<1> HIDE DEF f
<1> QED BY <1>1, <1>3, <1>4, PlacesProperties

\* Moving statuses keeps each row's digest and documents, and registers nothing.
LEMMA WithStatusProperties ==
  ASSUME NEW r \in [Key -> Row \cup {NoRow}], NEW st \in Status,
         NEW K \in SUBSET {k \in Key : r[k] # NoRow}
  PROVE  /\ WithStatus(r, K, st) \in [Key -> Row \cup {NoRow}]
         /\ \A k \in Key : WithStatus(r, K, st)[k] # NoRow <=> r[k] # NoRow
         /\ \A k \in Key \ K : WithStatus(r, K, st)[k] = r[k]
         /\ \A k \in K : /\ WithStatus(r, K, st)[k].status = st
                         /\ WithStatus(r, K, st)[k].digest = r[k].digest
                         /\ WithStatus(r, K, st)[k].docs = r[k].docs
<1>1. \A k \in K : /\ r[k] \in Row
                   /\ [r[k] EXCEPT !.status = st] \in Row
                   /\ [r[k] EXCEPT !.status = st].status = st
                   /\ [r[k] EXCEPT !.status = st].digest = r[k].digest
                   /\ [r[k] EXCEPT !.status = st].docs = r[k].docs
  BY DEF Row
<1> QED BY <1>1, NoRowAssumption DEF WithStatus

-----------------------------------------------------------------------------
(* The steps. *)

\* Versions leave service together: their rows and the snapshot move and the
\* cache drops them, in one call.
LEMMA RetirementStep ==
  ASSUME IInv, NEW K \in SUBSET Registered, NEW st \in Status \ {"active"},
         SetStatuses(K, st), Evict(K), UNCHANGED <<reply, blobs, served>>
  PROVE  IInv'
<1> USE DEF IInv
<1>1. /\ rows \in [Key -> Row \cup {NoRow}] /\ K \in SUBSET {k \in Key : rows[k] # NoRow}
      /\ rows' = WithStatus(rows, K, st) /\ st \in Status
  BY DEF TypeOK, SetStatuses, Registered
<1>2. /\ rows' \in [Key -> Row \cup {NoRow}]
      /\ Registered' = Registered
      /\ \A k \in Key \ K : rows'[k] = rows[k]
      /\ \A k \in K : rows'[k].status = st
  BY <1>1, WithStatusProperties DEF Registered
<1>3. /\ age' \in [Key -> Nat]
      /\ bytes' \in [Key -> Weights \cup {NoBlob, Damaged}]
      /\ Resident' = Resident \ K
      /\ \A k \in Resident' : bytes'[k] = bytes[k]
  BY <1>1, EvictProperties DEF TypeOK
<1>4. snapshot' = rows'
  BY <1>1, <1>2 DEF SetStatuses, SnapshotAgrees, TypeOK
<1>5. TypeOK'
  BY <1>2, <1>3, <1>4 DEF TypeOK
<1>6. ResidencyCoherent'
  BY <1>2, <1>3 DEF ResidencyCoherent, Resident
<1>7. OneActiveVersion'
  BY <1>2 DEF OneActiveVersion, Registered
<1> QED BY <1>4, <1>5, <1>6, <1>7 DEF SnapshotAgrees

\* A version enters in a status that serves nobody.
LEMMA EnrolmentStep ==
  ASSUME IInv, NEW k \in Key, rows[k] = NoRow,
         NEW row \in Row, row.status # "active",
         rows' = [rows EXCEPT ![k] = row],
         snapshot' = [snapshot EXCEPT ![k] = rows'[k]],
         Evict({k}) \/ UNCHANGED cache,
         blobs' \in [Key -> Weights \cup {NoBlob, Damaged}],
         UNCHANGED <<reply, served>>
  PROVE  IInv'
<1> USE DEF IInv
<1>1. k \notin Resident
  BY DEF ResidencyCoherent, Registered
<1>2. /\ age' \in [Key -> Nat]
      /\ bytes' \in [Key -> Weights \cup {NoBlob, Damaged}]
      /\ Resident' = Resident
      /\ \A j \in Resident' : bytes'[j] = bytes[j]
  <2>1. CASE UNCHANGED cache
    BY <2>1 DEF cache, Resident, TypeOK
  <2>2. CASE Evict({k})
    <3>1. /\ {k} \in SUBSET Key /\ age \in [Key -> Nat]
          /\ bytes \in [Key -> Weights \cup {NoBlob, Damaged}]
      BY DEF TypeOK
    <3>2. /\ age' \in [Key -> Nat]
          /\ bytes' \in [Key -> Weights \cup {NoBlob, Damaged}]
          /\ Resident' = Resident \ {k}
          /\ \A j \in Resident' : bytes'[j] = bytes[j]
      <4> HIDE DEF IInv
      <4> QED BY ONLY <2>2, <3>1, EvictProperties
    <3> QED BY <3>2, <1>1
  <2> QED BY <2>1, <2>2
<1>3. /\ rows' \in [Key -> Row \cup {NoRow}]
      /\ rows'[k] = row
      /\ \A j \in Key \ {k} : rows'[j] = rows[j]
      /\ snapshot' = rows'
      /\ Registered' = Registered \cup {k}
  BY NoRowAssumption DEF TypeOK, SnapshotAgrees, Registered
<1>4. TypeOK'
  BY <1>2, <1>3 DEF TypeOK
<1>5. ResidencyCoherent'
  BY <1>1, <1>2, <1>3 DEF ResidencyCoherent, Resident
<1>6. OneActiveVersion'
  BY <1>3 DEF OneActiveVersion, Registered
<1> QED BY <1>3, <1>4, <1>5, <1>6 DEF SnapshotAgrees

\* Promotion retires the version in service as it puts its own in place.
LEMMA PromotionStep ==
  ASSUME IInv, NEW k \in Key, Promote(k)
  PROVE  IInv'
<1> USE DEF IInv
<1> DEFINE S == Superseded(k)
<1> DEFINE r == WithStatus(rows, S, "deprecated")
<1>1. /\ rows \in [Key -> Row \cup {NoRow}]
      /\ S \in SUBSET {j \in Key : rows[j] # NoRow}
      /\ k \in Registered /\ k \notin S
  BY DEF TypeOK, SnapshotAgrees, Superseded, Promote
<1>2. /\ r \in [Key -> Row \cup {NoRow}]
      /\ \A j \in Key : r[j] # NoRow <=> rows[j] # NoRow
      /\ \A j \in Key \ S : r[j] = rows[j]
      /\ \A j \in S : r[j].status = "deprecated"
  BY <1>1, WithStatusProperties DEF Status
<1>3. rows[k] \in Row /\ [rows[k] EXCEPT !.status = "active"] \in Row
  BY <1>1 DEF Registered, Row, Status
<1>4. /\ rows' = [r EXCEPT ![k] = [rows[k] EXCEPT !.status = "active"]]
      /\ snapshot' = [j \in Key |-> IF j \in S \cup {k} THEN rows'[j] ELSE snapshot[j]]
      /\ Evict(S)
      /\ UNCHANGED <<reply, blobs, served>>
  BY DEF Promote
<1>5. /\ rows'[k].status = "active"
      /\ rows'[k].digest = rows[k].digest
  BY <1>2, <1>3, <1>4 DEF Row
<1> HIDE DEF r, S
<1>6. /\ rows' \in [Key -> Row \cup {NoRow}]
      /\ Registered' = Registered
      /\ \A j \in Key \ (S \cup {k}) : rows'[j] = rows[j]
      /\ \A j \in S : rows'[j].status = "deprecated"
  BY <1>1, <1>2, <1>3, <1>4, NoRowAssumption DEF Registered
<1>7. /\ age' \in [Key -> Nat]
      /\ bytes' \in [Key -> Weights \cup {NoBlob, Damaged}]
      /\ Resident' = Resident \ S
      /\ \A j \in Resident' : bytes'[j] = bytes[j]
  BY <1>1, <1>4, EvictProperties DEF TypeOK
<1>8. snapshot' = rows'
  BY <1>4, <1>6 DEF SnapshotAgrees, TypeOK
<1>9. TypeOK'
  BY <1>4, <1>6, <1>7, <1>8 DEF TypeOK
<1>10. ResidencyCoherent'
  BY <1>1, <1>5, <1>6, <1>7 DEF ResidencyCoherent, Resident
<1>11. \A j \in Registered' : (rows'[j].status = "active" /\ j[1] = k[1]) => j = k
  <2> SUFFICES ASSUME NEW j \in Registered, rows'[j].status = "active",
                      j[1] = k[1], j # k
               PROVE  FALSE
    BY <1>6
  <2>1. j \notin S /\ rows[j].status = "active"
    BY <1>6 DEF Registered
  <2>2. j[2] # k[2]
    BY DEF Registered, Key
  <2> QED BY <2>1, <2>2 DEF S, Superseded, SnapshotAgrees, Registered
<1>12. OneActiveVersion'
  <2> SUFFICES ASSUME NEW i \in Registered', NEW j \in Registered',
                      rows'[i].status = "active", rows'[j].status = "active",
                      i[1] = j[1]
               PROVE  i = j
    BY DEF OneActiveVersion
  <2>1. CASE i = k \/ j = k
    BY <2>1, <1>11
  <2>2. CASE i # k /\ j # k
    BY <2>2, <1>6 DEF OneActiveVersion, Registered
  <2> QED BY <2>1, <2>2
<1> QED BY <1>8, <1>9, <1>10, <1>12 DEF SnapshotAgrees

\* What a load answers is a reply.
LEMMA RepliesAreTyped ==
  ASSUME NEW k \in Key, NEW t \in Tenants \cup {NoTenant}
  PROVE  /\ Refusal(k, t) \in Reply
         /\ \A w \in Weights : Loaded(k, t, w) \in Reply
  BY DEF Reply

\* The weights a load makes resident are those of a registered row, and the
\* version just loaded is among them.
LEMMA ColdLoadStep ==
  ASSUME IInv, NEW k \in Key, NEW t \in Tenants \cup {NoTenant},
         NEW s \in BOOLEAN, LoadCold(k, t, s)
  PROVE  /\ IInv'
         /\ reply' = Loaded(k, t, rows[k].digest)
<1> USE DEF IInv
<1>1. /\ k \in Registered /\ rows[k] \in Row
      /\ rows[k].status \in {"active", "shadow"}
      /\ rows[k].digest \in Weights
      /\ blobs[k] = rows[k].digest
      /\ UNCHANGED <<rows, snapshot, blobs>>
  BY DEF LoadCold, Loadable, Allowed, Registered, TypeOK, Row
<1>2. /\ Touched(k) \in [Key -> Nat]
      /\ \A j \in Key : Touched(k)[j] > 0 <=> j \in Resident \cup {k}
      /\ Touched(k)[k] = 1
  BY TouchedProperties DEF TypeOK
<1>3. /\ age' \in [Key -> Nat]
      /\ \A j \in Key : age'[j] > 0 => j \in Resident \cup {k}
      /\ age'[k] = 1
  BY <1>2, CapacityIsPositive DEF LoadCold, Trimmed
<1>4. /\ bytes' = [j \in Key |-> IF age'[j] = 0 THEN NoBlob
                                 ELSE IF j = k THEN blobs[k] ELSE bytes[j]]
      /\ reply' = Loaded(k, t, rows[k].digest)
      /\ served' \subseteq served \cup {k}
  BY <1>1, <1>3 DEF LoadCold, Used
<1>5. reply' \in Reply
  BY <1>1, <1>4, RepliesAreTyped
<1>6. bytes' \in [Key -> Weights \cup {NoBlob, Damaged}]
  BY <1>1, <1>4 DEF TypeOK
<1>7. TypeOK'
  BY <1>1, <1>3, <1>4, <1>5, <1>6 DEF TypeOK, Registered
<1>8. ResidencyCoherent'
  <2> SUFFICES ASSUME NEW j \in Key, age'[j] > 0
               PROVE  /\ j \in Registered
                      /\ rows[j].status \in {"active", "shadow"}
                      /\ bytes'[j] = rows[j].digest
    BY <1>1 DEF ResidencyCoherent, Resident, Registered
  <2>1. CASE j = k
    BY <2>1, <1>1, <1>3, <1>4
  <2>2. CASE j # k
    BY <2>2, <1>3, <1>4 DEF ResidencyCoherent, Resident
  <2> QED BY <2>1, <2>2
<1>9. SnapshotAgrees' /\ OneActiveVersion'
  BY <1>1 DEF SnapshotAgrees, OneActiveVersion, Registered
<1> QED BY <1>4, <1>7, <1>8, <1>9

\* A warm load answers with the resident weights, which are the registered ones.
LEMMA WarmLoadStep ==
  ASSUME IInv, NEW k \in Key, NEW t \in Tenants \cup {NoTenant},
         NEW s \in BOOLEAN, LoadWarm(k, t, s)
  PROVE  /\ IInv'
         /\ reply' = Loaded(k, t, rows[k].digest)
<1> USE DEF IInv
<1>1. /\ k \in Registered /\ rows[k] \in Row
      /\ rows[k].digest \in Weights
      /\ bytes[k] = rows[k].digest
      /\ UNCHANGED <<rows, snapshot, blobs, bytes>>
  BY DEF LoadWarm, Loadable, Registered, TypeOK, ResidencyCoherent, Row
<1>2. /\ age' \in [Key -> Nat]
      /\ \A j \in Key : age'[j] > 0 <=> j \in Resident
      /\ served' \subseteq served \cup {k}
  BY TouchedProperties DEF LoadWarm, Used, TypeOK
<1>3. reply' = Loaded(k, t, rows[k].digest) /\ reply' \in Reply
  BY <1>1, RepliesAreTyped DEF LoadWarm
<1>4. TypeOK'
  BY <1>1, <1>2, <1>3 DEF TypeOK, Registered
<1>5. ResidencyCoherent'
  BY <1>1, <1>2 DEF ResidencyCoherent, Resident, Registered
<1>6. SnapshotAgrees' /\ OneActiveVersion'
  BY <1>1 DEF SnapshotAgrees, OneActiveVersion, Registered
<1> QED BY <1>3, <1>4, <1>5, <1>6

\* A refused load changes the cache at most, and only by an eviction.
LEMMA RefusedLoadStep ==
  ASSUME IInv, NEW k \in Key, NEW t \in Tenants \cup {NoTenant},
         reply' = Refusal(k, t), Evict({k}) \/ UNCHANGED cache,
         UNCHANGED <<rows, snapshot, blobs, served>>
  PROVE  IInv'
<1> USE DEF IInv
<1>1. reply' \in Reply
  BY RepliesAreTyped
<1>2. /\ age' \in [Key -> Nat]
      /\ bytes' \in [Key -> Weights \cup {NoBlob, Damaged}]
      /\ Resident' \subseteq Resident
      /\ \A j \in Resident' : bytes'[j] = bytes[j]
  <2>1. CASE UNCHANGED cache
    BY <2>1 DEF cache, Resident, TypeOK
  <2>2. CASE Evict({k})
    BY <2>2, EvictProperties DEF TypeOK
  <2> QED BY <2>1, <2>2
<1>3. TypeOK'
  BY <1>1, <1>2 DEF TypeOK, Registered
<1>4. ResidencyCoherent'
  BY <1>2 DEF ResidencyCoherent, Registered
<1>5. SnapshotAgrees' /\ OneActiveVersion'
  BY DEF SnapshotAgrees, OneActiveVersion, Registered
<1> QED BY <1>3, <1>4, <1>5

\* A change to the blob store alone disturbs no invariant: resident weights
\* are compared with the row, never with the blob.
LEMMA BlobStep ==
  ASSUME IInv, blobs' \in [Key -> Weights \cup {NoBlob, Damaged}],
         UNCHANGED <<rows, reply, snapshot, cache, served>>
  PROVE  IInv'
<1> USE DEF IInv
<1>1. TypeOK'
  BY DEF TypeOK, cache, Registered
<1>2. ResidencyCoherent'
  BY DEF ResidencyCoherent, cache, Resident, Registered
<1>3. SnapshotAgrees' /\ OneActiveVersion'
  BY DEF SnapshotAgrees, OneActiveVersion, Registered
<1> QED BY <1>1, <1>2, <1>3

-----------------------------------------------------------------------------
(* The invariant. *)

LEMMA InitEstablishes == Init => IInv
<1> SUFFICES ASSUME Init PROVE IInv
  OBVIOUS
<1>1. Registered = {} /\ Resident = {}
  BY DEF Init, Registered, Resident
<1>2. NoReply \in Reply
  BY DEF Reply
<1> QED BY <1>1, <1>2 DEF Init, IInv, TypeOK, SnapshotAgrees, ResidencyCoherent, OneActiveVersion

LEMMA LoadsPreserve ==
  ASSUME IInv, NEW k \in Key, NEW t \in Tenants \cup {NoTenant},
         NEW s \in BOOLEAN, LoadNext(k, t, s)
  PROVE  IInv'
<1>1. CASE LoadForeign(k, t)
  BY <1>1, RefusedLoadStep DEF LoadForeign
<1>2. CASE LoadNotServable(k, t, s)
  BY <1>2, RefusedLoadStep DEF LoadNotServable
<1>3. CASE LoadWarm(k, t, s)
  BY <1>3, WarmLoadStep
<1>4. CASE LoadDamaged(k, t, s)
  BY <1>4, RefusedLoadStep DEF LoadDamaged
<1>5. CASE LoadCold(k, t, s)
  BY <1>5, ColdLoadStep
<1> QED BY <1>1, <1>2, <1>3, <1>4, <1>5 DEF LoadNext

LEMMA KeyStepsPreserve ==
  ASSUME IInv, NEW k \in Key, KeyNext(k)
  PROVE  IInv'
<1>1. ASSUME NEW w \in Weights, NEW D \in SUBSET Documents, Register(k, w, D)
      PROVE  IInv'
  <2> DEFINE row == [status |-> "candidate", digest |-> w, docs |-> D]
  <2>1. row \in Row /\ row.status # "active"
    BY DEF Row, Status
  <2>2. blobs' \in [Key -> Weights \cup {NoBlob, Damaged}]
    BY <1>1 DEF Register, IInv, TypeOK
  <2>3. /\ rows[k] = NoRow /\ rows' = [rows EXCEPT ![k] = row]
        /\ snapshot' = [snapshot EXCEPT ![k] = rows'[k]]
        /\ UNCHANGED cache /\ UNCHANGED <<reply, served>>
    BY <1>1 DEF Register
  <2> HIDE DEF row
  <2> QED BY <2>1, <2>2, <2>3, EnrolmentStep
<1>2. ASSUME NEW w \in Weights, NEW D \in SUBSET Documents, Parameterize(k, w, D)
      PROVE  IInv'
  <2> DEFINE row == [status |-> "shadow", digest |-> w, docs |-> D]
  <2>1. row \in Row /\ row.status # "active"
    BY DEF Row, Status
  <2>2. blobs' \in [Key -> Weights \cup {NoBlob, Damaged}]
    BY <1>2 DEF Parameterize, IInv, TypeOK
  <2>3. /\ rows[k] = NoRow /\ rows' = [rows EXCEPT ![k] = row]
        /\ snapshot' = [snapshot EXCEPT ![k] = rows'[k]]
        /\ Evict({k}) /\ UNCHANGED <<reply, served>>
    BY <1>2 DEF Parameterize
  <2> HIDE DEF row
  <2> QED BY <2>1, <2>2, <2>3, EnrolmentStep
<1>3. ASSUME NEW w \in Weights, RegisterDuplicate(k, w)
      PROVE  IInv'
  <2>1. blobs' \in [Key -> Weights \cup {NoBlob, Damaged}]
    BY <1>3 DEF RegisterDuplicate, IInv, TypeOK
  <2> QED BY <1>3, <2>1, BlobStep DEF RegisterDuplicate
<1>4. CASE Demote(k)
  <2>1. {k} \in SUBSET Registered /\ "deprecated" \in Status \ {"active"}
    BY <1>4 DEF Demote, IInv, TypeOK, Status
  <2> QED BY <1>4, <2>1, RetirementStep DEF Demote
<1>5. CASE Promote(k)
  BY <1>5, PromotionStep
<1>6. CASE PromoteUnregistered(k)
  <2>1. Superseded(k) \in SUBSET Registered /\ "deprecated" \in Status \ {"active"}
    BY DEF IInv, SnapshotAgrees, Superseded, Registered, Status
  <2> QED BY <1>6, <2>1, RetirementStep DEF PromoteUnregistered
<1>7. CASE Damage(k)
  <2>1. blobs' \in [Key -> Weights \cup {NoBlob, Damaged}]
    BY <1>7 DEF Damage, IInv, TypeOK
  <2> QED BY <1>7, <2>1, BlobStep DEF Damage
<1>8. ASSUME NEW t \in Tenants \cup {NoTenant}, NEW s \in BOOLEAN, LoadNext(k, t, s)
      PROVE  IInv'
  BY <1>8, LoadsPreserve
<1> QED BY <1>1, <1>2, <1>3, <1>4, <1>5, <1>6, <1>7, <1>8 DEF KeyNext

LEMMA NextPreserves == IInv /\ [Next]_vars => IInv'
<1> SUFFICES ASSUME IInv, [Next]_vars PROVE IInv'
  OBVIOUS
<1>1. ASSUME NEW k \in Key, KeyNext(k) PROVE IInv'
  BY <1>1, KeyStepsPreserve
<1>2. ASSUME NEW D \in SUBSET Documents, RevokeDocuments(D) PROVE IInv'
  <2> DEFINE K == {k \in TrainedOn(D) : rows[k].status # "revoked"}
  <2>1. K \in SUBSET Registered /\ "revoked" \in Status \ {"active"}
    BY DEF TrainedOn, Status
  <2>2. SetStatuses(K, "revoked") /\ Evict(K) /\ UNCHANGED <<reply, blobs, served>>
    BY <1>2 DEF RevokeDocuments
  <2> HIDE DEF K
  <2> QED BY <2>1, <2>2, RetirementStep
<1>3. CASE UNCHANGED vars
  <2>1. UNCHANGED <<rows, reply, snapshot, cache, served>>
    BY <1>3 DEF vars, cache
  <2>2. blobs' \in [Key -> Weights \cup {NoBlob, Damaged}]
    BY <1>3 DEF vars, IInv, TypeOK
  <2> QED BY <2>1, <2>2, BlobStep
<1> QED BY <1>1, <1>2, <1>3 DEF Next

LEMMA Invariance == Spec => []IInv
  BY InitEstablishes, NextPreserves, PTL DEF Spec

\* Every variable keeps its type through every interleaving of registrations,
\* promotions, revocations and loads.
THEOREM TypeCorrectness == Spec => []TypeOK
<1>1. IInv => TypeOK
  BY DEF IInv
<1> QED BY <1>1, Invariance, PTL

\* The routing snapshot never disagrees with the repository (registry.py).
THEOREM SnapshotNeverStale == Spec => []SnapshotAgrees
<1>1. IInv => SnapshotAgrees
  BY DEF IInv
<1> QED BY <1>1, Invariance, PTL

\* The cache only ever holds the registered weights of a version that may
\* still run, whatever happens to the blob store (store.py, registry.py).
THEOREM OnlyRegisteredWeightsResident == Spec => []ResidencyCoherent
<1>1. IInv => ResidencyCoherent
  BY DEF IInv
<1> QED BY <1>1, Invariance, PTL

\* No adapter ever has two active versions (registry.py, promote).
THEOREM AtMostOneActive == Spec => []OneActiveVersion
<1>1. IInv => OneActiveVersion
  BY DEF IInv
<1> QED BY <1>1, Invariance, PTL

-----------------------------------------------------------------------------
(* Refinement: each step of the registry is a step of the catalogue.       *)

\* The catalogue and the registry share their vocabulary.
LEMMA SameVocabulary ==
  /\ Catalog!Key = Key /\ Catalog!Status = Status /\ Catalog!NoReply = NoReply
  /\ Catalog!Registered = Registered
  /\ \A k, t : Catalog!InScope(k, t) = InScope(k, t)
  /\ \A s : Catalog!Allowed(s) = Allowed(s)
  /\ \A k, t : Catalog!Refusal(k, t) = Refusal(k, t)
  /\ \A k, t, w : Catalog!Loaded(k, t, w) = Loaded(k, t, w)
  /\ \A r, K, st : Catalog!WithStatus(r, K, st) = WithStatus(r, K, st)
<1>1. Catalog!Key = Key
  BY DEF Key, Catalog!Key
<1>2. \A r, K, st : Catalog!WithStatus(r, K, st) = WithStatus(r, K, st)
  BY <1>1 DEF WithStatus, Catalog!WithStatus
<1>3. /\ Catalog!Status = Status /\ Catalog!NoReply = NoReply
      /\ Catalog!Registered = Registered
      /\ \A s : Catalog!Allowed(s) = Allowed(s)
  BY <1>1 DEF Status, Catalog!Status, NoReply, Catalog!NoReply, Allowed, Catalog!Allowed,
              Registered, Catalog!Registered
<1>4. /\ \A k, t : Catalog!InScope(k, t) = InScope(k, t)
      /\ \A k, t : Catalog!Refusal(k, t) = Refusal(k, t)
      /\ \A k, t, w : Catalog!Loaded(k, t, w) = Loaded(k, t, w)
  BY DEF InScope, Catalog!InScope, Refusal, Catalog!Refusal, Loaded, Catalog!Loaded
<1> QED BY <1>1, <1>2, <1>3, <1>4

\* Retiring versions together is one step of the catalogue.
LEMMA RetirementImplements ==
  ASSUME NEW K \in SUBSET Registered, NEW st \in {"deprecated", "revoked"},
         SetStatuses(K, st), UNCHANGED reply
  PROVE  Catalog!Next
<1>1. K \in SUBSET Key /\ st \in Status
  BY DEF Registered, Status
<1>2. Catalog!Retire(K, st)
  BY SameVocabulary DEF Catalog!Retire, SetStatuses
<1> QED BY <1>1, <1>2, SameVocabulary DEF Catalog!Next

\* A registration is an enrolment.
LEMMA EnrolmentImplements ==
  ASSUME NEW k \in Key, NEW w \in Weights, NEW D \in SUBSET Documents,
         NEW st \in {"candidate", "shadow"}, rows[k] = NoRow,
         rows' = [rows EXCEPT ![k] = [status |-> st, digest |-> w, docs |-> D]],
         UNCHANGED reply
  PROVE  Catalog!Next
<1>1. st \in Status /\ Catalog!Enroll(k, w, D, st)
  BY SameVocabulary DEF Catalog!Enroll, Status
<1> QED BY <1>1, SameVocabulary DEF Catalog!Next

\* A promotion retires exactly the versions the catalogue says it retires,
\* because the snapshot it reads agrees with the rows.
LEMMA PromotionImplements ==
  ASSUME IInv, NEW k \in Key, Promote(k)
  PROVE  Catalog!Next
<1>1. Superseded(k) = {j \in Key : j # k /\ j[1] = k[1] /\ Catalog!Active(j)}
  <2>1. \A j \in Key : j[1] = k[1] => (j[2] # k[2] <=> j # k)
    BY DEF Key
  <2> QED BY <2>1, SameVocabulary DEF Superseded, Catalog!Active, IInv, SnapshotAgrees
<1>2. Catalog!Activate(k)
  BY <1>1, SameVocabulary DEF Promote, Catalog!Activate
<1> QED BY <1>2, SameVocabulary DEF Catalog!Next

\* A load answers with the registered weights or refuses.
LEMMA LoadImplements ==
  ASSUME IInv, NEW k \in Key, NEW t \in Tenants \cup {NoTenant},
         NEW s \in BOOLEAN, LoadNext(k, t, s)
  PROVE  Catalog!Next
<1>1. ASSUME Loadable(k, t, s), reply' = Loaded(k, t, rows[k].digest), rows' = rows
      PROVE  Catalog!Load(k, t, s)
  BY <1>1, SameVocabulary DEF Catalog!Load, Loadable
<1>2. ASSUME reply' = Refusal(k, t), rows' = rows
      PROVE  Catalog!Load(k, t, s)
  BY <1>2, SameVocabulary DEF Catalog!Load
<1>3. CASE LoadForeign(k, t)
  BY <1>2, <1>3, SameVocabulary DEF LoadForeign, Catalog!Next
<1>4. CASE LoadNotServable(k, t, s)
  BY <1>2, <1>4, SameVocabulary DEF LoadNotServable, Catalog!Next
<1>5. CASE LoadDamaged(k, t, s)
  BY <1>2, <1>5, SameVocabulary DEF LoadDamaged, Catalog!Next
<1>6. CASE LoadWarm(k, t, s)
  <2>1. Loadable(k, t, s) /\ rows' = rows
    BY <1>6 DEF LoadWarm
  <2>2. reply' = Loaded(k, t, rows[k].digest)
    BY <1>6, WarmLoadStep
  <2> QED BY <2>1, <2>2, <1>1, SameVocabulary DEF Catalog!Next
<1>7. CASE LoadCold(k, t, s)
  <2>1. Loadable(k, t, s) /\ rows' = rows
    BY <1>7 DEF LoadCold
  <2>2. reply' = Loaded(k, t, rows[k].digest)
    BY <1>7, ColdLoadStep
  <2> QED BY <2>1, <2>2, <1>1, SameVocabulary DEF Catalog!Next
<1> QED BY <1>3, <1>4, <1>5, <1>6, <1>7 DEF LoadNext

LEMMA KeyStepsImplement ==
  ASSUME IInv, NEW k \in Key, KeyNext(k)
  PROVE  Catalog!Next \/ UNCHANGED <<rows, reply>>
<1>1. ASSUME NEW w \in Weights, NEW D \in SUBSET Documents, Register(k, w, D)
      PROVE  Catalog!Next
  BY <1>1, EnrolmentImplements DEF Register
<1>2. ASSUME NEW w \in Weights, NEW D \in SUBSET Documents, Parameterize(k, w, D)
      PROVE  Catalog!Next
  BY <1>2, EnrolmentImplements DEF Parameterize
<1>3. ASSUME NEW w \in Weights, RegisterDuplicate(k, w)
      PROVE  UNCHANGED <<rows, reply>>
  BY <1>3 DEF RegisterDuplicate
<1>4. CASE Demote(k)
  <2>1. {k} \in SUBSET Registered
    BY <1>4 DEF Demote, IInv, TypeOK
  <2> QED BY <1>4, <2>1, RetirementImplements DEF Demote
<1>5. CASE Promote(k)
  BY <1>5, PromotionImplements
<1>6. CASE PromoteUnregistered(k)
  <2>1. Superseded(k) \in SUBSET Registered
    BY DEF IInv, SnapshotAgrees, Superseded, Registered
  <2> QED BY <1>6, <2>1, RetirementImplements DEF PromoteUnregistered
<1>7. CASE Damage(k)
  BY <1>7 DEF Damage
<1>8. ASSUME NEW t \in Tenants \cup {NoTenant}, NEW s \in BOOLEAN, LoadNext(k, t, s)
      PROVE  Catalog!Next
  BY <1>8, LoadImplements
<1> QED BY <1>1, <1>2, <1>3, <1>4, <1>5, <1>6, <1>7, <1>8 DEF KeyNext

LEMMA StepsImplement ==
  ASSUME IInv, [Next]_vars
  PROVE  [Catalog!Next]_<<rows, reply>>
<1>1. ASSUME NEW k \in Key, KeyNext(k)
      PROVE  Catalog!Next \/ UNCHANGED <<rows, reply>>
  BY <1>1, KeyStepsImplement
<1>2. ASSUME NEW D \in SUBSET Documents, RevokeDocuments(D)
      PROVE  Catalog!Next
  <2> DEFINE K == {k \in TrainedOn(D) : rows[k].status # "revoked"}
  <2>1. K \in SUBSET Registered
    BY DEF TrainedOn
  <2>2. SetStatuses(K, "revoked") /\ UNCHANGED reply
    BY <1>2 DEF RevokeDocuments
  <2> HIDE DEF K
  <2> QED BY <2>1, <2>2, RetirementImplements
<1>3. CASE UNCHANGED vars
  BY <1>3 DEF vars
<1> QED BY <1>1, <1>2, <1>3 DEF Next

\* The registry with its cache, blob store and snapshot implements the
\* catalogue: one active version at most, immutable rows, and loads that
\* return the registered weights of a servable version in scope or refuse.
THEOREM RegistryImplementsCatalog == Spec => ImplementsCatalog
<1>1. Init => Catalog!Init
  BY SameVocabulary DEF Init, Catalog!Init
<1>2. IInv /\ [Next]_vars => [Catalog!Next]_<<rows, reply>>
  BY StepsImplement
<1> QED BY <1>1, <1>2, Invariance, PTL DEF Spec, ImplementsCatalog, Catalog!Spec

-----------------------------------------------------------------------------
(* Action properties. *)

\* A step of the catalogue changes the status of a row and nothing else of it.
LEMMA CatalogKeepsRows ==
  ASSUME rows \in [Key -> Row \cup {NoRow}], [Catalog!Next]_<<rows, reply>>,
         NEW k \in Registered
  PROVE  /\ rows'[k] # NoRow
         /\ rows'[k].digest = rows[k].digest
         /\ rows'[k].docs = rows[k].docs
<1>1. k \in Key /\ rows[k] \in Row /\ rows[k] # NoRow
  BY DEF Registered
<1>2. ASSUME NEW j \in Key, NEW w \in Weights, NEW D \in SUBSET Documents,
             NEW st \in Status, Catalog!Enroll(j, w, D, st)
      PROVE  rows'[k] = rows[k]
  BY <1>1, <1>2 DEF Catalog!Enroll
<1>3. ASSUME NEW K \in SUBSET Key, NEW st \in Status, Catalog!Retire(K, st)
      PROVE  /\ rows'[k] # NoRow
             /\ rows'[k].digest = rows[k].digest
             /\ rows'[k].docs = rows[k].docs
  <2>1. K \in SUBSET {j \in Key : rows[j] # NoRow} /\ rows' = WithStatus(rows, K, st)
    BY <1>3, SameVocabulary DEF Catalog!Retire, Registered
  <2> QED BY <2>1, <1>1, WithStatusProperties
<1>4. ASSUME NEW j \in Key, Catalog!Activate(j)
      PROVE  /\ rows'[k] # NoRow
             /\ rows'[k].digest = rows[k].digest
             /\ rows'[k].docs = rows[k].docs
  <2> DEFINE S == {i \in Key : i # j /\ i[1] = j[1] /\ Catalog!Active(i)}
  <2> DEFINE r == WithStatus(rows, S, "deprecated")
  <2>1. S \in SUBSET {i \in Key : rows[i] # NoRow} /\ "deprecated" \in Status
    BY DEF Catalog!Active, Status
  <2>2. /\ r \in [Key -> Row \cup {NoRow}]
        /\ r[k] # NoRow
        /\ r[k].digest = rows[k].digest
        /\ r[k].docs = rows[k].docs
    BY <2>1, <1>1, WithStatusProperties
  <2>3. rows' = [r EXCEPT ![j] = [rows[j] EXCEPT !.status = "active"]] /\ j \in Registered
    BY <1>4, SameVocabulary DEF Catalog!Activate
  <2> HIDE DEF r
  <2>4. CASE j # k
    BY <2>2, <2>3, <2>4, <1>1
  <2>5. CASE j = k
    <3>1. rows'[k] = [rows[k] EXCEPT !.status = "active"]
      BY <2>2, <2>3, <2>5, <1>1
    <3>2. [rows[k] EXCEPT !.status = "active"] \in Row
      BY <1>1 DEF Row, Status
    <3> QED BY <3>1, <3>2, <1>1, NoRowAssumption DEF Row
  <2> QED BY <2>4, <2>5
<1>5. ASSUME NEW j \in Key, NEW t \in Tenants \cup {NoTenant}, NEW s \in BOOLEAN,
             Catalog!Load(j, t, s)
      PROVE  rows' = rows
  BY <1>5 DEF Catalog!Load
<1> QED BY <1>1, <1>2, <1>3, <1>4, <1>5, SameVocabulary DEF Catalog!Next

\* No step of the registry removes a row or changes what it records of the
\* weights and of the documents they were trained on.
THEOREM RowsNeverRewritten == Spec => RowsAreImmutable
<1>1. ASSUME IInv, [Next]_vars, NEW k \in Registered
      PROVE  /\ rows'[k] # NoRow
             /\ rows'[k].digest = rows[k].digest
             /\ rows'[k].docs = rows[k].docs
  BY <1>1, StepsImplement, CatalogKeepsRows DEF IInv, TypeOK
<1>2. IInv /\ [Next]_vars =>
        [\A k \in Registered : /\ rows'[k] # NoRow
                               /\ rows'[k].digest = rows[k].digest
                               /\ rows'[k].docs = rows[k].docs]_vars
  BY <1>1
<1> QED BY <1>2, Invariance, PTL DEF Spec, RowsAreImmutable

\* A cold load of an intact blob serves it, whatever the configured capacity.
THEOREM ColdLoadsServe == Spec => ColdLoadServes
<1>1. IInv /\ [Next]_vars =>
        [\A k \in Key, t \in Tenants \cup {NoTenant}, s \in BOOLEAN :
            LoadCold(k, t, s) => reply'.outcome = "loaded"]_vars
  <2> SUFFICES ASSUME IInv, NEW k \in Key, NEW t \in Tenants \cup {NoTenant},
                      NEW s \in BOOLEAN, LoadCold(k, t, s)
               PROVE  reply'.outcome = "loaded"
    OBVIOUS
  <2>1. reply' = Loaded(k, t, rows[k].digest)
    BY ColdLoadStep
  <2> QED BY <2>1 DEF Loaded
<1> QED BY <1>1, Invariance, PTL DEF Spec, ColdLoadServes

\* The moment documents are erased, no version trained on any of them may
\* serve or is still in the cache.
THEOREM ErasureLeavesNothing == Spec => ErasureIsImmediate
<1>1. IInv /\ [Next]_vars =>
        [\A D \in SUBSET Documents :
            RevokeDocuments(D) =>
                \A k \in Registered : rows[k].docs \cap D # {} =>
                    rows'[k].status = "revoked" /\ age'[k] = 0]_vars
  <2> SUFFICES ASSUME IInv, NEW D \in SUBSET Documents, RevokeDocuments(D),
                      NEW k \in Registered, rows[k].docs \cap D # {}
               PROVE  rows'[k].status = "revoked" /\ age'[k] = 0
    OBVIOUS
  <2> DEFINE K == {j \in TrainedOn(D) : rows[j].status # "revoked"}
  <2>1. /\ K \in SUBSET {j \in Key : rows[j] # NoRow} /\ "revoked" \in Status
        /\ k \in TrainedOn(D) /\ k \in Key
        /\ rows' = WithStatus(rows, K, "revoked") /\ Evict(K)
    BY DEF RevokeDocuments, SetStatuses, TrainedOn, Registered, Status
  <2>2. age' \in [Key -> Nat] /\ Resident' = Resident \ K
    BY <2>1, EvictProperties DEF IInv, TypeOK
  <2>3. CASE k \in K
    <3>1. rows'[k].status = "revoked"
      BY <2>1, <2>3, WithStatusProperties DEF IInv, TypeOK
    <3> QED BY <3>1, <2>1, <2>2, <2>3 DEF Resident
  <2>4. CASE k \notin K
    <3>1. rows'[k] = rows[k] /\ rows[k].status = "revoked"
      BY <2>1, <2>4, WithStatusProperties DEF IInv, TypeOK
    <3>2. k \notin Resident
      BY <3>1 DEF IInv, ResidencyCoherent
    <3> QED BY <3>1, <3>2, <2>1, <2>2 DEF Resident
  <2> QED BY <2>3, <2>4
<1> QED BY <1>1, Invariance, PTL DEF Spec, ErasureIsImmediate

=============================================================================
