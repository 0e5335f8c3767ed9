------------------------------ MODULE MCStores ------------------------------
(***************************************************************************)
(* The two stores of the platform side by side: a behaviour runs either    *)
(* the indexes or one memory store.  They share no state in the code.      *)
(***************************************************************************)
EXTENDS Ingestion, Memory

MCContents == {<< >>, <<<<"x">>>>, <<<<"x", "y">>, <<"x">>>>}

\* Texts of one word and of two.
MCTexts == SUBSET Vocabulary \ {{}}

VARIABLE side

vars == <<ingestVars, memoryVars, side>>

Init ==
  /\ IngestInit /\ MemoryInit /\ side \in {"indexes", "memory"}
  /\ side = "indexes" => namespace = "SESSION"  \* which it does not look at

Next ==
  \/ side = "indexes" /\ IngestNext /\ UNCHANGED <<memoryVars, side>>
  \/ side = "memory" /\ MemoryNext /\ UNCHANGED <<ingestVars, side>>

Spec == Init /\ [][Next]_vars

\* Nothing tells one ingestor, tenant, word or session from another of its kind.
Symmetry ==
  UNION {Permutations(Ingestors), Permutations(Tenants), Permutations(Vocabulary), Permutations(Sessions)}

=============================================================================
