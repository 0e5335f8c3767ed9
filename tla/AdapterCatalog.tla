--------------------------- MODULE AdapterCatalog ---------------------------
(***************************************************************************)
(* What the adapter registry and its store promise to their callers,       *)
(* without the cache, the blob store or the routing snapshot they are      *)
(* built from.                                                             *)
(*                                                                         *)
(* A catalogue holds one row per adapter version.  A row never disappears  *)
(* and never changes its digest or its source documents; only its status   *)
(* moves, and no adapter ever has two active versions.  A load either is   *)
(* refused or returns exactly the weights that were registered, and only   *)
(* to a tenant inside the adapter's scope.                                 *)
(***************************************************************************)
EXTENDS AdapterModel

VARIABLES rows,   \* the registry: Key -> Row \cup {NoRow}
          reply   \* what the latest load returned

Registered == {k \in Key : rows[k] # NoRow}
Active(k) == rows[k] # NoRow /\ rows[k].status = "active"

Init ==
    /\ rows = [k \in Key |-> NoRow]
    /\ reply = NoReply

(* A new version enters in a status that serves nobody. *)
Enroll(k, w, D, st) ==
    /\ rows[k] = NoRow
    /\ st \in {"candidate", "shadow"}
    /\ rows' = [rows EXCEPT ![k] = [status |-> st, digest |-> w, docs |-> D]]
    /\ UNCHANGED reply

(* Versions leave service together, as deprecated or as revoked. *)
Retire(K, st) ==
    /\ K \subseteq Registered
    /\ st \in {"deprecated", "revoked"}
    /\ rows' = WithStatus(rows, K, st)
    /\ UNCHANGED reply

(* One version takes over from whichever version of its adapter served. *)
Activate(k) ==
    /\ k \in Registered
    /\ LET others == {j \in Key : j # k /\ j[1] = k[1] /\ Active(j)}
       IN  rows' = [WithStatus(rows, others, "deprecated")
                       EXCEPT ![k] = [rows[k] EXCEPT !.status = "active"]]
    /\ UNCHANGED reply

Load(k, t, includeShadow) ==
    /\ \/ reply' = Refusal(k, t)
       \/ /\ k \in Registered
          /\ rows[k].status \in Allowed(includeShadow)
          /\ InScope(k, t)
          /\ reply' = Loaded(k, t, rows[k].digest)
    /\ UNCHANGED rows

Next ==
    \/ \E k \in Key, w \in Weights, D \in SUBSET Documents, st \in Status :
          Enroll(k, w, D, st)
    \/ \E K \in SUBSET Key, st \in Status : Retire(K, st)
    \/ \E k \in Key : Activate(k)
    \/ \E k \in Key, t \in Tenants \cup {NoTenant}, s \in BOOLEAN : Load(k, t, s)

Spec == Init /\ [][Next]_<<rows, reply>>
=============================================================================
