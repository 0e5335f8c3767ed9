---------------------------- MODULE StoresProofs -----------------------------
(***************************************************************************)
(* Theorems about Ingestion and its searches, for any number of            *)
(* ingestions, documents and tenants, any contents and any batch size;     *)
(* about Memory, for any conversations, facts, saliences and capacity; and *)
(* about DocumentPipeline and Chunker, for documents of any length.        *)
(*                                                                         *)
(* That both indexes agree once the writers are done is no inductive       *)
(* invariant.  What is: while a document is undisturbed it has one writer, *)
(* the writer's remaining chunks are those the BM25 index has, and every   *)
(* other chunk of the document is the same in both indexes.                *)
(***************************************************************************)
EXTENDS Ingestion, Memory, DocumentPipeline, SelectionsProofs, FiniteSetTheorems

IngestSpec == IngestInit /\ [][IngestNext]_ingestVars

\* A payload, and the chunks of one ingestion: of one document, and no id twice.
Entry == [chunk_id : Documents \X Nat, document_id : Documents, tenant_id : Tenants,
          acl_hash : Acls, text : Seq(Terms)]

Coherent(batch) ==
  \A n \in DOMAIN batch :
    /\ batch[n].chunk_id[1] = batch[n].document_id
    /\ batch[n].document_id = batch[1].document_id
    /\ \A m \in DOMAIN batch : batch[m].chunk_id = batch[n].chunk_id => m = n

IdsOf(batch) == {batch[n].chunk_id : n \in DOMAIN batch}

PendingOK ==
  /\ pending \in [Ingestors -> Seq(Entry)]
  /\ \A i \in Ingestors : Coherent(pending[i])

NeverAhead ==
  /\ DOMAIN points \subseteq DOMAIN lexical
  /\ \A i \in Ingestors : IdsOf(pending[i]) \subseteq DOMAIN lexical

OneWriter ==
  \A i, j \in Ingestors :
    /\ pending[i] # << >> /\ pending[j] # << >>
    /\ pending[i][1].document_id = pending[j][1].document_id
    /\ pending[i][1].document_id \notin disturbed
    => i = j

WriterIsCurrent ==
  \A i \in Ingestors : \A n \in DOMAIN pending[i] :
    pending[i][n].document_id \notin disturbed =>
      lexical[pending[i][n].chunk_id] = pending[i][n]

RestAgrees ==
  \A id \in DOMAIN lexical :
    \/ id[1] \in disturbed
    \/ id \in DOMAIN points /\ points[id] = lexical[id]
    \/ \E i \in Ingestors : id \in IdsOf(pending[i])

IInv == PendingOK /\ NeverAhead /\ OneWriter /\ WriterIsCurrent /\ RestAgrees

-----------------------------------------------------------------------------
(* Lemmas about the operators. *)

\* A batch replaces exactly its own chunks.
LEMMA OverwrittenProperties ==
  ASSUME NEW index, NEW batch \in Seq(Entry), Coherent(batch)
  PROVE  LET after == Overwritten(index, batch)
         IN  /\ DOMAIN after = DOMAIN index \cup IdsOf(batch)
             /\ \A n \in DOMAIN batch : after[batch[n].chunk_id] = batch[n]
             /\ \A id \in DOMAIN index \ IdsOf(batch) : after[id] = index[id]
<1> DEFINE after == Overwritten(index, batch)
           new(id) == {p \in ToSet(batch) : p.chunk_id = id}
<1>1. ToSet(batch) = {batch[n] : n \in DOMAIN batch}
  BY DEF ToSet
<1>2. {p.chunk_id : p \in ToSet(batch)} = IdsOf(batch)
  BY <1>1 DEF IdsOf
<1>3. after = [id \in DOMAIN index \cup IdsOf(batch) |->
                 IF new(id) = {} THEN index[id] ELSE CHOOSE p \in new(id) : TRUE]
  BY <1>2 DEF Overwritten
<1>4. ASSUME NEW n \in DOMAIN batch PROVE after[batch[n].chunk_id] = batch[n]
  <2>1. new(batch[n].chunk_id) = {batch[n]}
    BY <1>1 DEF Coherent
  <2>2. batch[n].chunk_id \in IdsOf(batch)
    BY DEF IdsOf
  <2> QED BY <1>3, <2>1, <2>2
<1>5. ASSUME NEW id \in DOMAIN index \ IdsOf(batch) PROVE after[id] = index[id]
  <2>1. new(id) = {}
    BY <1>1 DEF IdsOf
  <2> QED BY <1>3, <2>1
<1> HIDE DEF after
<1>6. DOMAIN after = DOMAIN index \cup IdsOf(batch)
  BY <1>3
<1> QED BY <1>4, <1>5, <1>6 DEF after

\* A turn of the loop takes at least one chunk and no more than there are.
LEMMA BatchSizes ==
  ASSUME NEW length \in Nat \ {0}
  PROVE  Min({BatchSize, length}) \in 1..length
<1>1. BatchSize \in Nat \ {0}
  BY IngestionAssumption
<1> DEFINE least(x) == x \in {BatchSize, length} /\ \A y \in {BatchSize, length} : x <= y
<1>2. \E x : least(x)
  <2>1. CASE BatchSize <= length
    <3>1. least(BatchSize)
      BY <1>1, <2>1
    <3> QED BY <3>1
  <2>2. CASE ~(BatchSize <= length)
    <3>1. least(length)
      BY <1>1, <2>2
    <3> QED BY <3>1
  <2> QED BY <2>1, <2>2
<1>3. Min({BatchSize, length}) = CHOOSE x \in {BatchSize, length} : \A y \in {BatchSize, length} : x <= y
  BY DEF Min
<1>4. least(Min({BatchSize, length}))
  BY <1>2, <1>3
<1> QED BY <1>1, <1>4

\* What a turn of the loop writes and what it leaves are parts of the batch.
LEMMA BatchParts ==
  ASSUME NEW batch \in Seq(Entry), Coherent(batch), NEW k \in 1..Len(batch)
  PROVE  LET sent == SubSeq(batch, 1, k)
             left == SubSeq(batch, k + 1, Len(batch))
         IN  /\ sent \in Seq(Entry) /\ left \in Seq(Entry)
             /\ Coherent(sent) /\ Coherent(left)
             /\ \A n \in DOMAIN sent : n \in DOMAIN batch /\ n <= k /\ sent[n] = batch[n]
             /\ \A n \in DOMAIN left : n + k \in DOMAIN batch /\ left[n] = batch[n + k]
             /\ IdsOf(batch) = IdsOf(sent) \cup IdsOf(left)
             /\ left # << >> => left[1].document_id = batch[1].document_id
<1> DEFINE sent == SubSeq(batch, 1, k)
           left == SubSeq(batch, k + 1, Len(batch))
<1>0. Len(batch) \in Nat /\ DOMAIN batch = 1..Len(batch)
  OBVIOUS
<1>1. /\ sent \in Seq(Entry) /\ Len(sent) = k
      /\ \A n \in 1..k : sent[n] = batch[n]
  BY <1>0, SubSeqProperties
<1>2. /\ left \in Seq(Entry) /\ Len(left) = Len(batch) - k
      /\ \A n \in 1..(Len(batch) - k) : left[n] = batch[n + k]
  <2>1. \A n \in (k + 1)..Len(batch) : batch[n] \in Entry
    BY <1>0
  <2>2. /\ left \in Seq(Entry)
        /\ Len(left) = IF k + 1 <= Len(batch) THEN Len(batch) - (k + 1) + 1 ELSE 0
        /\ \A n \in 1..(Len(batch) - (k + 1) + 1) : left[n] = batch[(k + 1) + n - 1]
    BY <2>1, <1>0, SubSeqProperties
  <2> HIDE DEF left
  <2>3. Len(left) = Len(batch) - k
    <3>1. k \in Nat /\ k <= Len(batch) /\ Len(batch) \in Nat
      BY <1>0
    <3>2. CASE k + 1 <= Len(batch)
      <4>1. Len(left) = Len(batch) - (k + 1) + 1
        BY <2>2, <3>2
      <4> QED BY <3>1, <4>1
    <3>3. CASE ~(k + 1 <= Len(batch))
      <4>1. Len(left) = 0
        BY <2>2, <3>3
      <4>2. k = Len(batch)
        BY <3>1, <3>3
      <4> QED BY <3>1, <4>1, <4>2
    <3> QED BY <3>2, <3>3
  <2>4. ASSUME NEW n \in 1..(Len(batch) - k) PROVE left[n] = batch[n + k]
    <3>1. n \in 1..(Len(batch) - (k + 1) + 1) /\ (k + 1) + n - 1 = n + k
      BY <1>0
    <3>2. left[n] = batch[(k + 1) + n - 1]
      BY <3>1, <2>2
    <3> QED BY <3>1, <3>2
  <2> QED BY <2>2, <2>3, <2>4
<1> HIDE DEF sent, left
<1>3. DOMAIN sent = 1..k /\ DOMAIN left = 1..(Len(batch) - k)
  BY <1>1, <1>2
<1>4. \A n \in DOMAIN sent : n \in DOMAIN batch /\ n <= k /\ sent[n] = batch[n]
  BY <1>0, <1>1, <1>3
<1>5. \A n \in DOMAIN left : n + k \in DOMAIN batch /\ left[n] = batch[n + k]
  BY <1>0, <1>2, <1>3
<1>6. Coherent(sent)
  <2> SUFFICES ASSUME NEW n \in DOMAIN sent
               PROVE  /\ sent[n].chunk_id[1] = sent[n].document_id
                      /\ sent[n].document_id = sent[1].document_id
                      /\ \A m \in DOMAIN sent : sent[m].chunk_id = sent[n].chunk_id => m = n
    BY DEF Coherent
  <2>1. 1 \in DOMAIN sent
    BY <1>3
  <2> QED BY <1>4, <2>1 DEF Coherent
<1>7. Coherent(left)
  <2> SUFFICES ASSUME NEW n \in DOMAIN left
               PROVE  /\ left[n].chunk_id[1] = left[n].document_id
                      /\ left[n].document_id = left[1].document_id
                      /\ \A m \in DOMAIN left : left[m].chunk_id = left[n].chunk_id => m = n
    BY DEF Coherent
  <2>1. 1 \in DOMAIN left
    BY <1>3
  <2>2. /\ left[n].chunk_id[1] = left[n].document_id
        /\ left[n].document_id = left[1].document_id
    BY <1>5, <2>1 DEF Coherent
  <2>3. ASSUME NEW m \in DOMAIN left, left[m].chunk_id = left[n].chunk_id PROVE m = n
    <3>1. m + k = n + k
      BY <1>5, <2>3 DEF Coherent
    <3> QED BY <3>1, <1>3
  <2> QED BY <2>2, <2>3
<1>8. IdsOf(batch) = IdsOf(sent) \cup IdsOf(left)
  <2>1. ASSUME NEW n \in DOMAIN batch
        PROVE  batch[n].chunk_id \in IdsOf(sent) \cup IdsOf(left)
    <3>1. CASE n <= k
      <4>1. n \in DOMAIN sent /\ sent[n] = batch[n]
        BY <1>0, <1>3, <1>4, <3>1
      <4> QED BY <4>1 DEF IdsOf
    <3>2. CASE n > k
      <4>1. n - k \in DOMAIN left /\ (n - k) + k = n
        BY <1>0, <1>3, <3>2
      <4>2. left[n - k] = batch[n]
        BY <4>1, <1>5
      <4> QED BY <4>1, <4>2 DEF IdsOf
    <3> QED BY <1>0, <3>1, <3>2
  <2>2. IdsOf(sent) \subseteq IdsOf(batch)
    BY <1>4 DEF IdsOf
  <2>3. IdsOf(left) \subseteq IdsOf(batch)
    BY <1>5 DEF IdsOf
  <2>4. IdsOf(batch) \subseteq IdsOf(sent) \cup IdsOf(left)
    BY <2>1 DEF IdsOf
  <2> QED BY <2>2, <2>3, <2>4
<1>9. ASSUME left # << >> PROVE left[1].document_id = batch[1].document_id
  <2>1. 1 \in DOMAIN left
    BY <1>0, <1>2, <1>3, <1>9
  <2> QED BY <2>1, <1>5 DEF Coherent
<1> QED BY <1>1, <1>2, <1>4, <1>5, <1>6, <1>7, <1>8, <1>9 DEF sent, left

\* The payloads of an ingestion are a batch of its document.
LEMMA PayloadsProperties ==
  ASSUME NEW tenant \in Tenants, NEW acl \in Acls, NEW d \in Documents, NEW texts \in Contents
  PROVE  LET batch == Payloads(tenant, acl, d, texts)
         IN  /\ batch \in Seq(Entry) /\ Coherent(batch)
             /\ \A n \in DOMAIN batch : batch[n].document_id = d /\ batch[n].chunk_id[1] = d
<1> DEFINE batch == Payloads(tenant, acl, d, texts)
<1>1. texts \in Seq(Seq(Terms))
  BY IngestionAssumption
<1>2. batch = [n \in 1..Len(texts) |-> build_payload(tenant, acl, d, n, texts[n])]
  BY <1>1 DEF Payloads
<1>3. \A n \in 1..Len(texts) :
        /\ batch[n] \in Entry
        /\ batch[n].document_id = d /\ batch[n].chunk_id = <<d, n>>
  BY <1>1, <1>2 DEF build_payload, ChunkId, Entry
<1>4. batch \in Seq(Entry) /\ DOMAIN batch = 1..Len(texts)
  <2>1. Len(texts) \in Nat
    BY <1>1
  <2>2. batch \in [1..Len(texts) -> Entry]
    BY <1>2, <1>3
  <2> QED BY <2>1, <2>2
<1> HIDE DEF batch
<1>5. Coherent(batch)
  <2> SUFFICES ASSUME NEW n \in DOMAIN batch
               PROVE  /\ batch[n].chunk_id[1] = batch[n].document_id
                      /\ batch[n].document_id = batch[1].document_id
                      /\ \A m \in DOMAIN batch : batch[m].chunk_id = batch[n].chunk_id => m = n
    BY DEF Coherent
  <2>1. 1 \in DOMAIN batch
    BY <1>1, <1>4
  <2> QED BY <1>3, <1>4, <2>1
<1> QED BY <1>3, <1>4, <1>5 DEF batch

-----------------------------------------------------------------------------
(* The invariant: one lemma per action. *)

LEMMA InitIInv == IngestInit => IInv
<1> SUFFICES ASSUME IngestInit PROVE IInv
  OBVIOUS
<1>1. DOMAIN lexical = {} /\ DOMAIN points = {}
  BY DEF IngestInit
<1>2. \A i \in Ingestors : pending[i] = << >> /\ DOMAIN pending[i] = {}
  BY DEF IngestInit
<1>3. PendingOK
  BY <1>2 DEF IngestInit, PendingOK, Coherent
<1> QED BY <1>1, <1>2, <1>3 DEF IInv, NeverAhead, OneWriter, WriterIsCurrent, RestAgrees, IdsOf

\* A chunk's document is that of its ingestion.
LEMMA SameDocument ==
  ASSUME PendingOK, NEW i \in Ingestors, NEW n \in DOMAIN pending[i]
  PROVE  /\ pending[i] # << >>
         /\ pending[i][n].document_id = pending[i][1].document_id
         /\ pending[i][n].chunk_id[1] = pending[i][1].document_id
  BY DEF PendingOK, Coherent

LEMMA IngestKeeps ==
  ASSUME IInv, NEW i \in Ingestors, NEW tenant \in Tenants, NEW acl \in Acls,
         NEW d \in Documents, NEW texts \in Contents, Ingest(i, tenant, acl, d, texts)
  PROVE  IInv'
<1> DEFINE batch == Payloads(tenant, acl, d, texts)
           others == {j \in Ingestors : pending[j] # << >> /\ pending[j][1].document_id = d}
<1>1. /\ batch \in Seq(Entry) /\ Coherent(batch)
      /\ \A n \in DOMAIN batch : batch[n].document_id = d /\ batch[n].chunk_id[1] = d
  BY PayloadsProperties
<1>2. /\ pending[i] = << >>
      /\ lexical' = Overwritten(lexical, batch)
      /\ pending' = [pending EXCEPT ![i] = batch]
      /\ disturbed' = disturbed \cup (IF others = {} THEN {} ELSE {d})
      /\ points' = points
  BY DEF Ingest, IndexDocuments
<1> HIDE DEF batch
<1>3. /\ DOMAIN lexical' = DOMAIN lexical \cup IdsOf(batch)
      /\ \A n \in DOMAIN batch : lexical'[batch[n].chunk_id] = batch[n]
      /\ \A id \in DOMAIN lexical \ IdsOf(batch) : lexical'[id] = lexical[id]
  BY <1>1, <1>2, OverwrittenProperties
<1>4. /\ pending'[i] = batch
      /\ \A j \in Ingestors \ {i} : pending'[j] = pending[j]
      /\ pending' \in [Ingestors -> Seq(Entry)]
  BY <1>1, <1>2 DEF IInv, PendingOK
<1>5. PendingOK'
  BY <1>1, <1>4 DEF IInv, PendingOK
<1>6. NeverAhead'
  BY <1>2, <1>3, <1>4 DEF IInv, NeverAhead
<1>7. ASSUME NEW j \in Ingestors \ {i}, pending[j] # << >>, pending[j][1].document_id \notin disturbed'
      PROVE  pending[j][1].document_id # d /\ pending[j][1].document_id \notin disturbed
  BY <1>2, <1>7
<1>8. ASSUME batch # << >> PROVE batch[1].document_id = d
  <2>1. 1 \in DOMAIN batch
    BY <1>1, <1>8
  <2> QED BY <1>1, <2>1
<1>9. OneWriter'
  BY <1>2, <1>4, <1>7, <1>8 DEF IInv, OneWriter
<1>10. WriterIsCurrent'
  <2> SUFFICES ASSUME NEW j \in Ingestors, NEW n \in DOMAIN pending'[j],
                      pending'[j][n].document_id \notin disturbed'
               PROVE  lexical'[pending'[j][n].chunk_id] = pending'[j][n]
    BY DEF WriterIsCurrent
  <2>1. CASE j = i
    BY <1>3, <1>4, <2>1
  <2>2. CASE j # i
    <3>1. /\ pending'[j] = pending[j] /\ pending[j] # << >>
          /\ pending[j][n].document_id = pending[j][1].document_id
          /\ pending[j][n].chunk_id[1] = pending[j][1].document_id
      BY <1>4, <2>2, SameDocument DEF IInv
    <3>2. pending[j][n].chunk_id[1] # d /\ pending[j][n].document_id \notin disturbed
      BY <1>7, <2>2, <3>1
    <3>3. pending[j][n].chunk_id \notin IdsOf(batch)
      BY <1>1, <3>2 DEF IdsOf
    <3>4. pending[j][n].chunk_id \in DOMAIN lexical
      BY <3>1 DEF IInv, NeverAhead, IdsOf
    <3> QED BY <1>3, <3>1, <3>2, <3>3, <3>4 DEF IInv, WriterIsCurrent
  <2> QED BY <2>1, <2>2
<1>11. RestAgrees'
  <2> SUFFICES ASSUME NEW id \in DOMAIN lexical', id[1] \notin disturbed'
               PROVE  \/ id \in DOMAIN points' /\ points'[id] = lexical'[id]
                      \/ \E j \in Ingestors : id \in IdsOf(pending'[j])
    BY DEF RestAgrees, IdsOf
  <2>1. CASE id \in IdsOf(batch)
    BY <1>4, <2>1
  <2>2. CASE id \notin IdsOf(batch)
    <3>1. id \in DOMAIN lexical /\ lexical'[id] = lexical[id] /\ id[1] \notin disturbed
      BY <1>2, <1>3, <2>2
    <3>2. CASE id \in DOMAIN points /\ points[id] = lexical[id]
      BY <1>2, <3>1, <3>2
    <3>3. ASSUME NEW j \in Ingestors, id \in IdsOf(pending[j])
          PROVE  id \in IdsOf(pending'[j])
      <4>1. j # i
        BY <1>2, <3>3 DEF IdsOf
      <4> QED BY <1>4, <3>3, <4>1
    <3> QED BY <3>1, <3>2, <3>3 DEF IInv, RestAgrees
  <2> QED BY <2>1, <2>2
<1> QED BY <1>5, <1>6, <1>9, <1>10, <1>11 DEF IInv

LEMMA UpsertKeeps ==
  ASSUME IInv, NEW i \in Ingestors, Upsert(i)
  PROVE  IInv'
<1> DEFINE k == Min({BatchSize, Len(pending[i])})
           sent == SubSeq(pending[i], 1, k)
           left == SubSeq(pending[i], k + 1, Len(pending[i]))
<1>1. /\ pending[i] # << >> /\ pending[i] \in Seq(Entry) /\ Coherent(pending[i])
      /\ points' = Overwritten(points, sent)
      /\ pending' = [pending EXCEPT ![i] = left]
      /\ lexical' = lexical /\ disturbed' = disturbed
  BY DEF IInv, PendingOK, Upsert
<1>2. k \in 1..Len(pending[i])
  <2>1. Len(pending[i]) \in Nat \ {0}
    BY <1>1
  <2> QED BY <2>1, BatchSizes
<1>3. /\ sent \in Seq(Entry) /\ left \in Seq(Entry)
      /\ Coherent(sent) /\ Coherent(left)
      /\ \A n \in DOMAIN sent : n \in DOMAIN pending[i] /\ sent[n] = pending[i][n]
      /\ \A n \in DOMAIN left : n + k \in DOMAIN pending[i] /\ left[n] = pending[i][n + k]
      /\ IdsOf(pending[i]) = IdsOf(sent) \cup IdsOf(left)
      /\ left # << >> => left[1].document_id = pending[i][1].document_id
  <2> HIDE DEF k
  <2> QED BY <1>1, <1>2, BatchParts
<1> HIDE DEF k, sent, left
<1>4. /\ DOMAIN points' = DOMAIN points \cup IdsOf(sent)
      /\ \A n \in DOMAIN sent : points'[sent[n].chunk_id] = sent[n]
      /\ \A id \in DOMAIN points \ IdsOf(sent) : points'[id] = points[id]
  <2>1. sent \in Seq(Entry) /\ Coherent(sent) /\ points' = Overwritten(points, sent)
    BY <1>1, <1>3
  <2> DEFINE after == Overwritten(points, sent)
  <2>2. /\ DOMAIN after = DOMAIN points \cup IdsOf(sent)
        /\ \A n \in DOMAIN sent : after[sent[n].chunk_id] = sent[n]
        /\ \A id \in DOMAIN points \ IdsOf(sent) : after[id] = points[id]
    BY <2>1, OverwrittenProperties
  <2>3. points' = after
    BY <2>1
  <2> HIDE DEF after
  <2> QED BY <2>2, <2>3
<1>5. /\ pending'[i] = left
      /\ \A j \in Ingestors \ {i} : pending'[j] = pending[j]
      /\ pending' \in [Ingestors -> Seq(Entry)]
  BY <1>1, <1>3 DEF IInv, PendingOK
<1>6. PendingOK'
  BY <1>3, <1>5 DEF IInv, PendingOK
<1>7. NeverAhead'
  BY <1>1, <1>3, <1>4, <1>5 DEF IInv, NeverAhead
<1>8. \A j \in Ingestors : pending'[j] # << >> =>
        pending[j] # << >> /\ pending'[j][1].document_id = pending[j][1].document_id
  BY <1>1, <1>3, <1>5
<1>9. OneWriter'
  BY <1>1, <1>8 DEF IInv, OneWriter
<1>10. WriterIsCurrent'
  <2> SUFFICES ASSUME NEW j \in Ingestors, NEW n \in DOMAIN pending'[j],
                      pending'[j][n].document_id \notin disturbed'
               PROVE  lexical'[pending'[j][n].chunk_id] = pending'[j][n]
    BY DEF WriterIsCurrent
  <2>1. \E m \in DOMAIN pending[j] : pending'[j][n] = pending[j][m]
    BY <1>3, <1>5
  <2> QED BY <1>1, <2>1 DEF IInv, WriterIsCurrent
<1>11. RestAgrees'
  <2> SUFFICES ASSUME NEW id \in DOMAIN lexical, id[1] \notin disturbed
               PROVE  \/ id \in DOMAIN points' /\ points'[id] = lexical[id]
                      \/ \E j \in Ingestors : id \in IdsOf(pending'[j])
    BY <1>1 DEF RestAgrees, IdsOf
  <2>1. CASE id \in IdsOf(sent)
    <3>1. PICK n \in DOMAIN sent : id = sent[n].chunk_id
      BY <2>1 DEF IdsOf
    <3>2. n \in DOMAIN pending[i] /\ sent[n] = pending[i][n]
      BY <1>3
    <3>3. sent[n].document_id \notin disturbed
      BY <1>3, <3>1 DEF Coherent
    <3>4. lexical[id] = sent[n]
      BY <3>1, <3>2, <3>3 DEF IInv, WriterIsCurrent
    <3> QED BY <1>4, <2>1, <3>1, <3>4
  <2>2. CASE id \notin IdsOf(sent)
    <3>1. CASE id \in DOMAIN points /\ points[id] = lexical[id]
      BY <1>4, <2>2, <3>1
    <3>2. ASSUME NEW j \in Ingestors, id \in IdsOf(pending[j])
          PROVE  id \in IdsOf(pending'[j])
      BY <1>3, <1>5, <2>2, <3>2
    <3> QED BY <3>1, <3>2 DEF IInv, RestAgrees
  <2> QED BY <2>1, <2>2
<1> QED BY <1>6, <1>7, <1>9, <1>10, <1>11 DEF IInv

LEMMA AbortKeeps ==
  ASSUME IInv, NEW i \in Ingestors, Abort(i)
  PROVE  IInv'
<1>1. /\ pending[i] # << >>
      /\ disturbed' = disturbed \cup {pending[i][1].document_id}
      /\ pending' = [pending EXCEPT ![i] = << >>]
      /\ lexical' = lexical /\ points' = points
  BY DEF Abort
<1>2. /\ pending'[i] = << >> /\ DOMAIN pending'[i] = {}
      /\ \A j \in Ingestors \ {i} : pending'[j] = pending[j]
      /\ pending' \in [Ingestors -> Seq(Entry)]
  BY <1>1 DEF IInv, PendingOK
<1>3. PendingOK'
  <2>1. Coherent(pending'[i])
    BY <1>2 DEF Coherent
  <2>2. \A j \in Ingestors \ {i} : Coherent(pending'[j])
    BY <1>2 DEF IInv, PendingOK
  <2> QED BY <1>2, <2>1, <2>2 DEF PendingOK
<1>4. NeverAhead'
  BY <1>1, <1>2 DEF IInv, NeverAhead, IdsOf
<1>5. OneWriter'
  BY <1>1, <1>2 DEF IInv, OneWriter
<1>6. WriterIsCurrent'
  BY <1>1, <1>2 DEF IInv, WriterIsCurrent
<1>7. RestAgrees'
  <2> SUFFICES ASSUME NEW id \in DOMAIN lexical, id[1] \notin disturbed'
               PROVE  \/ id \in DOMAIN points /\ points[id] = lexical[id]
                      \/ \E j \in Ingestors : id \in IdsOf(pending'[j])
    BY <1>1 DEF RestAgrees, IdsOf
  <2>1. id \notin IdsOf(pending[i])
    <3> SUFFICES ASSUME NEW n \in DOMAIN pending[i], id = pending[i][n].chunk_id PROVE FALSE
      BY DEF IdsOf
    <3>1. id[1] = pending[i][1].document_id
      BY SameDocument DEF IInv
    <3> QED BY <1>1, <3>1
  <2> QED BY <1>1, <1>2, <2>1 DEF IInv, RestAgrees
<1> QED BY <1>3, <1>4, <1>5, <1>6, <1>7 DEF IInv

LEMMA StepIInv == IInv /\ [IngestNext]_ingestVars => IInv'
<1> SUFFICES ASSUME IInv, [IngestNext]_ingestVars PROVE IInv'
  OBVIOUS
<1>1. ASSUME NEW i \in Ingestors, NEW tenant \in Tenants, NEW acl \in Acls, NEW d \in Documents,
             NEW texts \in Contents, Ingest(i, tenant, acl, d, texts)
      PROVE  IInv'
  BY <1>1, IngestKeeps
<1>2. ASSUME NEW i \in Ingestors, Upsert(i) PROVE IInv'
  BY <1>2, UpsertKeeps
<1>3. ASSUME NEW i \in Ingestors, Abort(i) PROVE IInv'
  BY <1>3, AbortKeeps
<1>4. CASE UNCHANGED ingestVars
  BY <1>4 DEF ingestVars, IInv, PendingOK, NeverAhead, OneWriter, WriterIsCurrent, RestAgrees, IdsOf, Coherent
<1> QED BY <1>1, <1>2, <1>3, <1>4 DEF IngestNext

-----------------------------------------------------------------------------
(* The theorem. *)

\* Once the writers of a document are done, the rest of it agrees as well.
LEMMA InvariantImpliesAgreement == IInv => IndexesAgree
<1> SUFFICES ASSUME IInv, NEW d \in Documents \ disturbed, ~Writing(d)
             PROVE  OfDocument(points, d) = OfDocument(lexical, d)
  BY DEF IndexesAgree, IInv, NeverAhead
<1>1. ASSUME NEW id \in DOMAIN lexical, id[1] = d
      PROVE  id \in DOMAIN points /\ points[id] = lexical[id]
  <2>1. ASSUME NEW i \in Ingestors, id \in IdsOf(pending[i]) PROVE FALSE
    <3>1. PICK n \in DOMAIN pending[i] : id = pending[i][n].chunk_id
      BY <2>1 DEF IdsOf
    <3>2. pending[i] # << >> /\ pending[i][1].document_id = d
      BY <1>1, <3>1, SameDocument DEF IInv
    <3> QED BY <3>2 DEF Writing
  <2> QED BY <1>1, <2>1 DEF IInv, RestAgrees
<1>2. DOMAIN points \subseteq DOMAIN lexical
  BY DEF IInv, NeverAhead
<1> QED BY <1>1, <1>2 DEF OfDocument

\* Both indexes hold the same chunks of a document that no ingestion failed
\* on or overlapped, once its writers are done; the vector store is never
\* ahead of the BM25 index.
THEOREM IndexesConverge == IngestSpec => []IndexesAgree
<1>1. IngestInit => IInv
  BY InitIInv
<1>2. IInv /\ [IngestNext]_ingestVars => IInv'
  BY StepIInv
<1>3. IInv => IndexesAgree
  BY InvariantImpliesAgreement
<1> QED BY <1>1, <1>2, <1>3, PTL DEF IngestSpec

-----------------------------------------------------------------------------
(* The counters of the BM25 index. *)

\* Some leave a set and others come to it.
LEMMA Recounted ==
  ASSUME NEW held, IsFiniteSet(held), NEW gone \in SUBSET held, NEW added, IsFiniteSet(added),
         (held \ gone) \cap added = {}
  PROVE  Cardinality((held \ gone) \cup added) = Cardinality(held) - Cardinality(gone) + Cardinality(added)
<1>1. IsFiniteSet(gone)
  BY FS_Subset
<1>2. Cardinality(gone) \in Nat /\ Cardinality(held) \in Nat /\ Cardinality(added) \in Nat
  BY <1>1, FS_CardinalityType
<1> DEFINE kept == held \ gone
<1>3. IsFiniteSet(kept) /\ Cardinality(kept) = Cardinality(held) - Cardinality(gone)
  <2>1. held \cap gone = gone
    OBVIOUS
  <2> QED BY <2>1, FS_Difference
<1> HIDE DEF kept
<1>4. Cardinality(kept \cup added) = Cardinality(kept) + Cardinality(added) - Cardinality(kept \cap added)
  BY <1>3, FS_Union
<1>5. Cardinality(kept \cap added) = 0
  <2>1. kept \cap added = {}
    BY DEF kept
  <2> QED BY <2>1, FS_EmptySet
<1> QED BY <1>2, <1>3, <1>4, <1>5 DEF kept

Places(payloads) == UNION {{p} \X DOMAIN p.text : p \in payloads}

LEMMA PlacesAreFinite ==
  ASSUME NEW payloads \in SUBSET Entry, IsFiniteSet(payloads)
  PROVE  IsFiniteSet(Places(payloads))
<1> DEFINE of(p) == {p} \X DOMAIN p.text
           all == {of(p) : p \in payloads}
<1>1. ASSUME NEW p \in payloads PROVE IsFiniteSet(of(p))
  <2>1. p.text \in Seq(Terms)
    BY DEF Entry
  <2>2. DOMAIN p.text = 1..Len(p.text) /\ Len(p.text) \in Nat
    BY <2>1, LenProperties
  <2>3. IsFiniteSet(DOMAIN p.text)
    <3> DEFINE n == Len(p.text)
    <3>1. n \in Nat /\ DOMAIN p.text = 1..n
      BY <2>2
    <3> HIDE DEF n
    <3>2. IsFiniteSet(1..n)
      BY <3>1, FS_Interval
    <3> QED BY <3>1, <3>2
  <2> QED BY <2>3, FS_Singleton, FS_Product
<1>2. IsFiniteSet(all)
  <2> DEFINE f == [p \in payloads |-> of(p)]
  <2>1. f \in Surjection(payloads, all)
    BY DEF Surjection
  <2> HIDE DEF f, all
  <2> QED BY <2>1, FS_Surjection DEF ExistsSurjection
<1>3. \A T \in all : IsFiniteSet(T)
  BY <1>1
<1> HIDE DEF all
<1>4. IsFiniteSet(UNION all)
  BY <1>2, <1>3, FS_UNION
<1> QED BY <1>4 DEF all, Places

Held == {lexical[id] : id \in DOMAIN lexical}

IndexOK(index) ==
  /\ IsFiniteSet(DOMAIN index)
  /\ \A id \in DOMAIN index : index[id] \in Entry /\ index[id].chunk_id = id

StatsInv == IndexOK(lexical) /\ CountersExact

LEMMA OverwrittenIsOK ==
  ASSUME NEW index, IndexOK(index), NEW batch \in Seq(Entry), Coherent(batch)
  PROVE  IndexOK(Overwritten(index, batch)) /\ IsFiniteSet(IdsOf(batch))
<1> DEFINE after == Overwritten(index, batch)
<1>1. /\ DOMAIN after = DOMAIN index \cup IdsOf(batch)
      /\ \A n \in DOMAIN batch : after[batch[n].chunk_id] = batch[n]
      /\ \A id \in DOMAIN index \ IdsOf(batch) : after[id] = index[id]
  BY OverwrittenProperties
<1> HIDE DEF after
<1>2. /\ DOMAIN batch = 1..Len(batch) /\ Len(batch) \in Nat
      /\ \A n \in DOMAIN batch : batch[n] \in Entry
  <2>1. batch \in Seq(Entry)
    OBVIOUS
  <2> QED BY <2>1, LenProperties, ElementOfSeq
<1>3. IsFiniteSet(IdsOf(batch))
  <2>1. IsFiniteSet(DOMAIN batch)
    BY <1>2, FS_Interval
  <2> DEFINE g == [n \in DOMAIN batch |-> batch[n].chunk_id]
  <2>2. g \in Surjection(DOMAIN batch, IdsOf(batch))
    BY DEF Surjection, IdsOf
  <2> HIDE DEF g
  <2> QED BY <2>1, <2>2, FS_Surjection DEF ExistsSurjection
<1>4. IsFiniteSet(DOMAIN index)
  BY DEF IndexOK
<1>5. IsFiniteSet(DOMAIN index \cup IdsOf(batch))
  BY <1>3, <1>4, FS_Union
<1>6. \A id \in IdsOf(batch) : \E n \in DOMAIN batch : id = batch[n].chunk_id
  BY DEF IdsOf
<1>7. \A id \in DOMAIN after : after[id] \in Entry /\ after[id].chunk_id = id
  BY <1>1, <1>2, <1>6 DEF IndexOK
<1>8. IndexOK(after)
  BY <1>1, <1>5, <1>7 DEF IndexOK
<1> QED BY <1>3, <1>8 DEF after

\* What is indexed takes the place of what it replaces.
LEMMA IngestReplaces ==
  ASSUME StatsInv, NEW batch \in Seq(Entry), Coherent(batch), lexical' = Overwritten(lexical, batch)
  PROVE  LET gone == Removed(batch)
             added == ToSet(batch)
         IN  /\ IsFiniteSet(Held) /\ IsFiniteSet(added)
             /\ Held \in SUBSET Entry /\ added \in SUBSET Entry /\ gone \in SUBSET Held
             /\ Held' = (Held \ gone) \cup added
             /\ (Held \ gone) \cap added = {}
<1> DEFINE gone == Removed(batch)
           added == ToSet(batch)
<1>1. /\ DOMAIN lexical' = DOMAIN lexical \cup IdsOf(batch)
      /\ \A n \in DOMAIN batch : lexical'[batch[n].chunk_id] = batch[n]
      /\ \A id \in DOMAIN lexical \ IdsOf(batch) : lexical'[id] = lexical[id]
  <2> DEFINE after == Overwritten(lexical, batch)
  <2>1. /\ DOMAIN after = DOMAIN lexical \cup IdsOf(batch)
        /\ \A n \in DOMAIN batch : after[batch[n].chunk_id] = batch[n]
        /\ \A id \in DOMAIN lexical \ IdsOf(batch) : after[id] = lexical[id]
    BY OverwrittenProperties
  <2>2. lexical' = after
    OBVIOUS
  <2> HIDE DEF after
  <2> QED BY <2>1, <2>2
<1>2. added = {batch[n] : n \in DOMAIN batch} /\ DOMAIN batch = 1..Len(batch) /\ Len(batch) \in Nat
      /\ \A n \in DOMAIN batch : batch[n] \in Entry
  <2>1. batch \in Seq(Entry)
    OBVIOUS
  <2> QED BY <2>1, LenProperties, ElementOfSeq DEF ToSet
<1>3. gone = {lexical[id] : id \in DOMAIN lexical \cap IdsOf(batch)}
  BY <1>2 DEF Removed, IdsOf
<1>4. IsFiniteSet(added)
  <2>1. IsFiniteSet(DOMAIN batch)
    BY <1>2, FS_Interval
  <2> DEFINE f == [n \in DOMAIN batch |-> batch[n]]
  <2>2. f \in Surjection(DOMAIN batch, added)
    BY <1>2 DEF Surjection
  <2> HIDE DEF f, added
  <2> QED BY <2>1, <2>2, FS_Surjection DEF ExistsSurjection
<1>5. IsFiniteSet(Held)
  <2> DEFINE f == [id \in DOMAIN lexical |-> lexical[id]]
  <2>1. f \in Surjection(DOMAIN lexical, Held)
    BY DEF Surjection, Held
  <2> HIDE DEF f
  <2> QED BY <2>1, FS_Surjection DEF ExistsSurjection, StatsInv, IndexOK
<1>6. \A id \in DOMAIN lexical : lexical[id] \in Entry /\ lexical[id].chunk_id = id
  BY DEF StatsInv, IndexOK
<1>7. \A id \in IdsOf(batch) : \E n \in DOMAIN batch : id = batch[n].chunk_id /\ lexical'[id] = batch[n]
  BY <1>1 DEF IdsOf
<1> HIDE DEF gone, added
<1>8. Held \ gone = {lexical[id] : id \in DOMAIN lexical \ IdsOf(batch)}
  BY <1>3, <1>6 DEF Held
<1>9. Held' = (Held \ gone) \cup added
  <2>1. Held' = {lexical'[id] : id \in DOMAIN lexical'}
    BY DEF Held
  <2>2. {lexical'[id] : id \in IdsOf(batch)} = added
    <3>1. \A id \in IdsOf(batch) : lexical'[id] \in added
      BY <1>2, <1>7
    <3>2. \A n \in DOMAIN batch : batch[n].chunk_id \in IdsOf(batch) /\ lexical'[batch[n].chunk_id] = batch[n]
      BY <1>1 DEF IdsOf
    <3> QED BY <1>2, <3>1, <3>2
  <2>3. {lexical'[id] : id \in DOMAIN lexical \ IdsOf(batch)} = Held \ gone
    BY <1>1, <1>8
  <2>4. DOMAIN lexical' = (DOMAIN lexical \ IdsOf(batch)) \cup IdsOf(batch)
    BY <1>1
  <2> QED BY <2>1, <2>2, <2>3, <2>4
<1>10. (Held \ gone) \cap added = {}
  <2>1. \A x \in added : x.chunk_id \in IdsOf(batch)
    BY <1>2 DEF IdsOf
  <2> QED BY <1>6, <1>8, <2>1
<1>11. Held \in SUBSET Entry /\ added \in SUBSET Entry /\ gone \in SUBSET Held
  BY <1>2, <1>3, <1>6 DEF Held
<1> QED BY <1>4, <1>5, <1>9, <1>10, <1>11 DEF gone, added

LEMMA IngestCounts ==
  ASSUME StatsInv, NEW i \in Ingestors, NEW tenant \in Tenants, NEW acl \in Acls,
         NEW d \in Documents, NEW texts \in Contents, Ingest(i, tenant, acl, d, texts)
  PROVE  StatsInv'
<1> DEFINE batch == Payloads(tenant, acl, d, texts)
           gone == Removed(batch)
           added == ToSet(batch)
<1>1. batch \in Seq(Entry) /\ Coherent(batch)
  BY PayloadsProperties
<1>2. /\ lexical' = Overwritten(lexical, batch)
      /\ frequency' = [t \in Terms |-> frequency[t] - Postings(t, gone) + Postings(t, added)]
      /\ total' = total - Length(gone) + Length(added)
  BY DEF Ingest, IndexDocuments
<1> HIDE DEF batch
<1>3. /\ IsFiniteSet(Held) /\ IsFiniteSet(added)
      /\ Held \in SUBSET Entry /\ added \in SUBSET Entry /\ gone \in SUBSET Held
      /\ Held' = (Held \ gone) \cup added
      /\ (Held \ gone) \cap added = {}
  BY <1>1, <1>2, IngestReplaces
<1> HIDE DEF gone, added
<1>4. /\ \A t \in Terms : frequency[t] = Postings(t, Held)
      /\ total = Length(Held)
  BY DEF StatsInv, CountersExact, Held
<1>5. ASSUME NEW t \in Terms PROVE frequency'[t] = Postings(t, Held')
  <2> DEFINE with(ps) == {p \in ps : t \in ToSet(p.text)}
  <2>1. IsFiniteSet(with(Held)) /\ IsFiniteSet(with(added))
    BY <1>3, FS_Subset
  <2>2. /\ with(gone) \in SUBSET with(Held)
        /\ (with(Held) \ with(gone)) \cap with(added) = {}
        /\ with(Held') = (with(Held) \ with(gone)) \cup with(added)
    BY <1>3
  <2> DEFINE h == with(Held)
             g == with(gone)
             a == with(added)
  <2> HIDE DEF h, g, a
  <2>3. Cardinality((h \ g) \cup a) = Cardinality(h) - Cardinality(g) + Cardinality(a)
    BY <2>1, <2>2, Recounted DEF h, g, a
  <2>4. Postings(t, Held) = Cardinality(h) /\ Postings(t, gone) = Cardinality(g)
        /\ Postings(t, added) = Cardinality(a) /\ Postings(t, Held') = Cardinality((h \ g) \cup a)
    BY <2>2 DEF Postings, h, g, a
  <2> QED BY <1>2, <1>4, <2>3, <2>4
<1>6. total' = Length(Held')
  <2>1. IsFiniteSet(Places(Held)) /\ IsFiniteSet(Places(added))
    BY <1>3, PlacesAreFinite
  <2>2. /\ Places(gone) \in SUBSET Places(Held)
        /\ (Places(Held) \ Places(gone)) \cap Places(added) = {}
        /\ Places(Held') = (Places(Held) \ Places(gone)) \cup Places(added)
    BY <1>3 DEF Places
  <2> DEFINE h == Places(Held)
             g == Places(gone)
             a == Places(added)
  <2> HIDE DEF h, g, a
  <2>3. Cardinality((h \ g) \cup a) = Cardinality(h) - Cardinality(g) + Cardinality(a)
    BY <2>1, <2>2, Recounted DEF h, g, a
  <2>4. Length(Held) = Cardinality(h) /\ Length(gone) = Cardinality(g)
        /\ Length(added) = Cardinality(a) /\ Length(Held') = Cardinality((h \ g) \cup a)
    BY <2>2 DEF Length, Places, h, g, a
  <2> QED BY <1>2, <1>4, <2>3, <2>4
<1>7. IndexOK(lexical)'
  <2> DEFINE after == Overwritten(lexical, batch)
  <2>1. IndexOK(after) /\ lexical' = after
    BY <1>1, <1>2, OverwrittenIsOK DEF StatsInv
  <2> HIDE DEF after
  <2> QED BY <2>1 DEF IndexOK
<1> QED BY <1>5, <1>6, <1>7 DEF StatsInv, CountersExact, Held

\* The BM25 index scores with the statistics of the chunks it holds, however
\* often documents are ingested again and by whom: a chunk that is replaced takes
\* its postings and its length with it (InMemoryLexicalIndex.index, _remove).
THEOREM StatisticsAreExact == IngestSpec => []CountersExact
<1>1. IngestInit => StatsInv
  <2> SUFFICES ASSUME IngestInit PROVE StatsInv
    OBVIOUS
  <2>1. DOMAIN lexical = {} /\ Held = {} /\ IsFiniteSet({}) /\ Cardinality({}) = 0
    BY FS_EmptySet DEF IngestInit, Held
  <2>2. \A t \in Terms : Postings(t, {}) = 0 /\ frequency[t] = 0
    BY <2>1 DEF Postings, IngestInit
  <2>3. Length({}) = 0 /\ total = 0
    <3>1. UNION {{p} \X DOMAIN p.text : p \in {}} = {}
      OBVIOUS
    <3> QED BY <2>1, <3>1 DEF Length, IngestInit
  <2> QED BY <2>1, <2>2, <2>3 DEF StatsInv, IndexOK, CountersExact, Held
<1>2. StatsInv /\ [IngestNext]_ingestVars => StatsInv'
  <2> SUFFICES ASSUME StatsInv, [IngestNext]_ingestVars PROVE StatsInv'
    OBVIOUS
  <2>1. ASSUME NEW i \in Ingestors, NEW tenant \in Tenants, NEW acl \in Acls, NEW d \in Documents,
               NEW texts \in Contents, Ingest(i, tenant, acl, d, texts)
        PROVE  StatsInv'
    BY <2>1, IngestCounts
  <2>2. ASSUME UNCHANGED <<lexical, frequency, total>> PROVE StatsInv'
    BY <2>2 DEF StatsInv, IndexOK, CountersExact
  <2>3. ASSUME NEW i \in Ingestors, Upsert(i) \/ Abort(i) PROVE StatsInv'
    BY <2>2, <2>3 DEF Upsert, Abort
  <2>4. CASE UNCHANGED ingestVars
    BY <2>2, <2>4 DEF ingestVars
  <2> QED BY <2>1, <2>3, <2>4 DEF IngestNext
<1>3. StatsInv => CountersExact
  BY DEF StatsInv
<1> QED BY <1>1, <1>2, <1>3, PTL DEF IngestSpec

-----------------------------------------------------------------------------
(* Searches. *)

LEMMA MinOfTwo ==
  ASSUME NEW a \in Nat, NEW b \in Nat
  PROVE  Min({a, b}) = IF a <= b THEN a ELSE b
<1> DEFINE least(x) == x \in {a, b} /\ \A y \in {a, b} : x <= y
           m == IF a <= b THEN a ELSE b
<1>1. Min({a, b}) = CHOOSE x \in {a, b} : \A y \in {a, b} : x <= y
  BY DEF Min
<1>2. least(m)
  OBVIOUS
<1>3. \A x : least(x) => x = m
  OBVIOUS
<1> HIDE DEF m
<1> QED BY <1>1, <1>2, <1>3 DEF m

LEMMA MinOfThree ==
  ASSUME NEW a \in Nat, NEW b \in Nat, NEW c \in Nat
  PROVE  Min({a, b, c}) = Min({Min({a, b}), c})
<1> DEFINE least(x) == x \in {a, b, c} /\ \A y \in {a, b, c} : x <= y
           d == IF a <= b THEN a ELSE b
           m == IF d <= c THEN d ELSE c
<1>1. Min({a, b, c}) = CHOOSE x \in {a, b, c} : \A y \in {a, b, c} : x <= y
  BY DEF Min
<1>2. least(m)
  OBVIOUS
<1>3. \A x : least(x) => x = m
  OBVIOUS
<1>4. Min({a, b}) = d /\ d \in Nat
  BY MinOfTwo
<1>5. Min({d, c}) = m
  <2> HIDE DEF d
  <2> QED BY <1>4, MinOfTwo
<1> HIDE DEF m, d
<1> QED BY <1>1, <1>2, <1>3, <1>4, <1>5

IdsDistinct(payloads) == \A p, q \in payloads : p.chunk_id = q.chunk_id => p = q

ByScore(payloads, query) == {r \in payloads \X payloads : Better(r[1], r[2], query)}

LEMMA TermsAreFinite ==
  ASSUME NEW p \in Entry, NEW query
  PROVE  IsFiniteSet(query \cap ToSet(p.text))
<1>1. p.text \in Seq(Terms)
  BY DEF Entry
<1> DEFINE t == p.text
           n == Len(t)
<1>2. n \in Nat /\ DOMAIN t = 1..n
  BY <1>1, LenProperties
<1> HIDE DEF n, t
<1>3. IsFiniteSet(1..n)
  BY <1>2, FS_Interval
<1>4. [i \in 1..n |-> t[i]] \in Surjection(1..n, ToSet(t))
  BY <1>2 DEF Surjection, ToSet
<1>5. IsFiniteSet(ToSet(t))
  BY <1>3, <1>4, FS_Surjection DEF ExistsSurjection
<1>6. IsFiniteSet(query \cap ToSet(t))
  BY <1>5, FS_Subset
<1> QED BY <1>6 DEF t

LEMMA ScoresAreNumbers ==
  ASSUME NEW p \in Entry, NEW query
  PROVE  Score(p, query) \in Nat
BY TermsAreFinite, FS_CardinalityType DEF Score

\* It scores exactly if it shares a term.
LEMMA ScoreOfNone ==
  ASSUME NEW p \in Entry, NEW query
  PROVE  Score(p, query) > 0 <=> query \cap ToSet(p.text) # {}
<1> DEFINE S == query \cap ToSet(p.text)
<1>1. Score(p, query) \in Nat /\ Score(p, query) = Cardinality(S)
  BY ScoresAreNumbers DEF Score
<1>2. IsFiniteSet(S)
  BY TermsAreFinite
<1> HIDE DEF S
<1>3. Cardinality(S) = 0 <=> S = {}
  BY <1>2, FS_EmptySet
<1> QED BY <1>1, <1>3 DEF S

\* By score and then by id, payloads of different ids stand in a row.
LEMMA ScoreOrders ==
  ASSUME NEW payloads \in SUBSET Entry, IdsDistinct(payloads), NEW query
  PROVE  /\ Orders(ByScore(payloads, query), payloads)
         /\ \A p \in payloads : Rank(p, payloads, query) = RankIn(p, ByScore(payloads, query), payloads)
<1> DEFINE R == ByScore(payloads, query)
           better(p, q) == Better(p, q, query)
<1>1. ASSUME NEW p \in payloads
      PROVE  /\ Score(p, query) \in Nat
             /\ p.chunk_id[1] \in Nat /\ p.chunk_id[2] \in Nat /\ p.chunk_id = <<p.chunk_id[1], p.chunk_id[2]>>
  <2>1. p.chunk_id \in Nat \X Nat
    BY IngestionAssumption DEF Entry
  <2>2. Score(p, query) \in Nat
    BY ScoresAreNumbers
  <2> QED BY <2>1, <2>2
<1>2. \A p, q \in payloads : <<p, q>> \in R <=> better(p, q)
  BY DEF ByScore
<1>3. \A p \in payloads : ~better(p, p)
  <2> SUFFICES ASSUME NEW p \in payloads PROVE ~better(p, p)
    OBVIOUS
  <2> QED BY <1>1 DEF Better
<1>4. \A p, q \in payloads : p # q => better(p, q) \/ better(q, p)
  <2> SUFFICES ASSUME NEW p \in payloads, NEW q \in payloads, p # q
               PROVE  better(p, q) \/ better(q, p)
    OBVIOUS
  <2>1. p.chunk_id[1] # q.chunk_id[1] \/ p.chunk_id[2] # q.chunk_id[2]
    BY <1>1 DEF IdsDistinct
  <2> QED BY <1>1, <2>1 DEF Better
<1>5. \A p, q, r \in payloads : better(p, q) /\ better(q, r) => better(p, r)
  <2> SUFFICES ASSUME NEW p \in payloads, NEW q \in payloads, NEW r \in payloads, better(p, q), better(q, r)
               PROVE  better(p, r)
    OBVIOUS
  <2> QED BY <1>1 DEF Better
<1> HIDE DEF better, R
<1>6. Orders(R, payloads)
  BY <1>2, <1>3, <1>4, <1>5 DEF Orders
<1>7. ASSUME NEW p \in payloads PROVE Rank(p, payloads, query) = RankIn(p, R, payloads)
  <2>1. {q \in payloads : Better(q, p, query)} = Before(p, R, payloads)
    BY <1>2 DEF Before, better
  <2> QED BY <2>1 DEF Rank, RankIn
<1> QED BY <1>6, <1>7 DEF R

Matching(index, filters) == {p \in {index[id] : id \in DOMAIN index} : matches(p, filters)}

FirstOf(payloads, query, n) == {p \in payloads : Rank(p, payloads, query) <= n}
Elements(seq) == {seq[i] : i \in 1..Len(seq)}

LEMMA MatchingFacts ==
  ASSUME NEW index, IndexOK(index), NEW filters
  PROVE  LET own == Matching(index, filters)
         IN  own \in SUBSET Entry /\ IsFiniteSet(own) /\ IdsDistinct(own)
<1> DEFINE all == {index[id] : id \in DOMAIN index}
           own == Matching(index, filters)
<1>1. own \in SUBSET all
  BY DEF Matching
<1>2. IsFiniteSet(all)
  <2> DEFINE f == [id \in DOMAIN index |-> index[id]]
  <2>1. f \in Surjection(DOMAIN index, all)
    BY DEF Surjection
  <2> HIDE DEF f, all
  <2> QED BY <2>1, FS_Surjection DEF ExistsSurjection, IndexOK
<1>3. all \in SUBSET Entry /\ IdsDistinct(all)
  BY DEF IndexOK, IdsDistinct
<1> HIDE DEF all, own
<1>4. IsFiniteSet(own)
  BY <1>1, <1>2, FS_Subset
<1>5. IdsDistinct(own)
  BY <1>1, <1>3 DEF IdsDistinct
<1> QED BY <1>1, <1>3, <1>4, <1>5 DEF own

\* A search finds what is ranked among the first of what matches.
LEMMA SearchFinds ==
  ASSUME NEW index, IndexOK(index), NEW query, NEW n \in Nat, NEW filters
  PROVE  LET own == Matching(index, filters)
             hits == Search(index, query, n, filters)
         IN  /\ hits \in Seq(own)
             /\ Elements(hits) = FirstOf(own, query, n)
<1> DEFINE own == Matching(index, filters)
           c == Cardinality(own)
           ranked == Ranked(own, query)
           k == IF n <= c THEN n ELSE c
           hits == Search(index, query, n, filters)
           R == ByScore(own, query)
           f == [p \in own |-> RankIn(p, R, own)]
<1>1. own \in SUBSET Entry /\ IsFiniteSet(own) /\ IdsDistinct(own)
  BY MatchingFacts
<1> HIDE DEF own
<1>2. Orders(R, own) /\ \A p \in own : Rank(p, own, query) = RankIn(p, R, own)
  BY <1>1, ScoreOrders
<1>3. c \in Nat /\ k \in Nat
  BY <1>1, FS_CardinalityType
<1>4. f \in Bijection(own, 1..c)
  <2> HIDE DEF R
  <2> QED BY <1>1, <1>2, RanksCount
<1>5. /\ \A p \in own : f[p] \in 1..c /\ f[p] = Rank(p, own, query)
      /\ \A p, q \in own : f[p] = f[q] => p = q
      /\ \A i \in 1..c : \E p \in own : f[p] = i
  <2>1. \A p \in own : f[p] = Rank(p, own, query)
    BY <1>2
  <2> HIDE DEF f, c
  <2>2. /\ f \in [own -> 1..c] /\ \A p, q \in own : f[p] = f[q] => p = q
        /\ \A i \in 1..c : \E p \in own : f[p] = i
    BY <1>4 DEF Bijection, Injection, Surjection, IsInjective
  <2> QED BY <2>1, <2>2
<1>6. ranked = [i \in 1..c |-> CHOOSE p \in own : Rank(p, own, query) = i]
  BY DEF Ranked
<1> HIDE DEF f, R
<1>7. \A i \in 1..c : ranked[i] \in own /\ Rank(ranked[i], own, query) = i
  <2> SUFFICES ASSUME NEW i \in 1..c
               PROVE  ranked[i] \in own /\ Rank(ranked[i], own, query) = i
    OBVIOUS
  <2>1. \E p \in own : Rank(p, own, query) = i
    BY <1>5
  <2>2. ranked[i] = CHOOSE p \in own : Rank(p, own, query) = i
    BY <1>6
  <2> HIDE DEF ranked
  <2> QED BY <2>1, <2>2
<1>8. ranked \in Seq(own) /\ Len(ranked) = c
  <2>1. ranked \in [1..c -> own]
    BY <1>6, <1>7
  <2> HIDE DEF ranked, c
  <2> QED BY <1>3, <2>1
<1>9. hits = SubSeq(ranked, 1, k)
  <2>1. hits = Cut(ranked, n)
    BY DEF Search, Matching, own
  <2>2. Min({n, c}) = k
    <3> HIDE DEF c
    <3> QED BY <1>3, MinOfTwo
  <2> HIDE DEF ranked, c, k
  <2> QED BY <1>8, <2>1, <2>2 DEF Cut
<1> HIDE DEF ranked, c, hits
<1>10. hits \in Seq(own) /\ Len(hits) = k /\ \A i \in 1..k : hits[i] = ranked[i]
  <2>1. k <= c
    BY <1>3
  <2>2. \A i \in 1..k : ranked[i] \in own
    BY <1>3, <1>7, <2>1
  <2>3. SubSeq(ranked, 1, k) = [i \in 1..k |-> ranked[i]]
    BY <1>3, <1>8
  <2> HIDE DEF k
  <2> QED BY <1>3, <1>9, <2>2, <2>3
<1>11. {hits[i] : i \in 1..k} = {p \in own : Rank(p, own, query) <= n}
  <2>1. ASSUME NEW i \in 1..k PROVE hits[i] \in own /\ Rank(hits[i], own, query) <= n
    <3>1. i \in 1..c /\ i <= n
      BY <1>3
    <3> QED BY <1>7, <1>10, <3>1
  <2>2. ASSUME NEW p \in own, Rank(p, own, query) <= n PROVE \E i \in 1..k : hits[i] = p
    <3>1. Rank(p, own, query) \in 1..c
      BY <1>5
    <3>2. Rank(p, own, query) \in 1..k
      BY <1>3, <2>2, <3>1
    <3>3. ranked[Rank(p, own, query)] = p
      BY <1>5, <1>7, <3>1
    <3> QED BY <1>10, <3>2, <3>3
  <2> QED BY <2>1, <2>2
<1> QED BY <1>10, <1>11 DEF own, hits, Elements, FirstOf

\* What is ranked among the first n, of what is wanted, fills the n.
LEMMA FirstFill ==
  ASSUME NEW best \in SUBSET Entry, IsFiniteSet(best), IdsDistinct(best), NEW query, NEW n \in Nat
  PROVE  LET hits == FirstOf(best, query, n)
         IN  /\ Cardinality(hits) = Min({n, Cardinality(best)})
             /\ \A hit \in hits, other \in best \ hits : Score(hit, query) >= Score(other, query)
<1> DEFINE R == ByScore(best, query)
           hits == FirstOf(best, query, n)
           first == {p \in best : RankIn(p, R, best) <= n}
<1>1. Orders(R, best) /\ \A p \in best : Rank(p, best, query) = RankIn(p, R, best)
  BY ScoreOrders
<1>2. hits = first
  BY <1>1 DEF FirstOf
<1>3. \A p, q \in best : <<p, q>> \in R => Better(p, q, query)
  BY DEF ByScore
<1>4. \A p, q \in best : Better(p, q, query) => Score(p, query) >= Score(q, query)
  <2>1. \A p \in best : Score(p, query) \in Nat
    BY ScoresAreNumbers
  <2> QED BY <2>1 DEF Better
<1>5. Cardinality(best) \in Nat
  BY FS_CardinalityType
<1> HIDE DEF R
<1>6. /\ Cardinality(first) = IF n <= Cardinality(best) THEN n ELSE Cardinality(best)
      /\ \A x \in first, y \in best \ first : <<x, y>> \in R
  BY <1>1, FirstOfRow
<1>7. Min({n, Cardinality(best)}) = IF n <= Cardinality(best) THEN n ELSE Cardinality(best)
  BY <1>5, MinOfTwo
<1>8. Cardinality(hits) = Min({n, Cardinality(best)})
  BY <1>2, <1>6, <1>7
<1>9. \A hit \in hits, other \in best \ hits : Score(hit, query) >= Score(other, query)
  <2>1. \A hit \in hits, other \in best \ hits : <<hit, other>> \in R /\ hit \in best
    BY <1>2, <1>6
  <2> QED BY <1>3, <1>4, <2>1
<1> QED BY <1>8, <1>9

Returned(result) == {Fields(c) : c \in ToSet(result.candidates)}

\* What a leg returns is what was found, with its source and its rank.
LEMMA FoundIsWhatHit ==
  ASSUME NEW hits \in Seq(Entry), NEW source
  PROVE  Returned(Found(source, hits)) = Elements(hits)
<1>1. DOMAIN hits = 1..Len(hits) /\ \A i \in 1..Len(hits) : hits[i] \in Entry
  BY LenProperties, ElementOfSeq
<1> DEFINE found == Found(source, hits).candidates
           fields == {"chunk_id", "document_id", "text", "tenant_id", "acl_hash"}
<1>2. found = [rank \in 1..Len(hits) |-> Candidate(source, hits[rank], rank)]
  BY <1>1 DEF Found
<1>3. ToSet(found) = {Candidate(source, hits[rank], rank) : rank \in 1..Len(hits)}
  BY <1>2 DEF ToSet
<1>4. ASSUME NEW i \in 1..Len(hits) PROVE Fields(Candidate(source, hits[i], i)) = hits[i]
  <2> DEFINE p == hits[i]
             c == Candidate(source, p, i)
  <2>1. p \in Entry
    BY <1>1
  <2> HIDE DEF p
  <2>2. \A field \in fields : Fields(p)[field] = p[field]
    BY DEF Fields
  <2>3. c = Over([source_id |-> source, rank |-> i], Fields(p))
    BY DEF Candidate
  <2>4. \A field \in fields : c[field] = p[field]
    BY <2>2, <2>3 DEF Fields, Over
  <2> HIDE DEF c
  <2>5. Fields(c) = [field \in fields |-> p[field]]
    BY <2>4 DEF Fields
  <2>6. p = [field \in fields |-> p[field]]
    BY <2>1 DEF Entry
  <2> QED BY <2>5, <2>6 DEF c, p
<1> HIDE DEF found
<1> QED BY <1>3, <1>4 DEF found, Returned, Elements

Fills(hits, best, n, query) ==
  /\ hits \subseteq best
  /\ Cardinality(hits) = Min({n, Cardinality(best)})
  /\ \A hit \in hits, other \in best \ hits : Score(hit, query) >= Score(other, query)

LEMMA VectorFills ==
  ASSUME IndexOK(points), NEW leg, NEW principal, leg.query # {}, leg.top_k \in Nat
  PROVE  Fills(Returned(VectorRetrieve(leg, principal, "none")),
               Matching(points, Merged(leg, principal)), Min({leg.top_k, MaxTopK}), leg.query)
<1> DEFINE n == Min({leg.top_k, MaxTopK})
           query == leg.query
           filters == Merged(leg, principal)
           hits == Search(points, query, n, filters)
           own == Matching(points, filters)
<1>1. n \in Nat
  <2>1. MaxTopK \in Nat
    BY IngestionAssumption
  <2> QED BY <2>1, MinOfTwo
<1>2. VectorRetrieve(leg, principal, "none") = Found("vector", hits)
  BY DEF VectorRetrieve
<1> HIDE DEF n, filters, query
<1>3. own \in SUBSET Entry /\ IsFiniteSet(own) /\ IdsDistinct(own)
  BY MatchingFacts
<1>4. hits \in Seq(own) /\ Elements(hits) = FirstOf(own, query, n)
  BY <1>1, SearchFinds
<1> HIDE DEF own, hits
<1>5. hits \in Seq(Entry)
  <2>1. DOMAIN hits = 1..Len(hits) /\ Len(hits) \in Nat /\ \A i \in 1..Len(hits) : hits[i] \in own
    BY <1>4, LenProperties, ElementOfSeq
  <2> QED BY <1>3, <1>4, <2>1
<1> DEFINE found == FirstOf(own, query, n)
<1>6. Returned(Found("vector", hits)) = found
  BY <1>4, <1>5, FoundIsWhatHit
<1>7. /\ Cardinality(found) = Min({n, Cardinality(own)})
      /\ \A hit \in found, other \in own \ found : Score(hit, query) >= Score(other, query)
  BY <1>1, <1>3, FirstFill
<1>8. found \subseteq own
  BY DEF FirstOf
<1> HIDE DEF found
<1>9. Fills(found, own, n, query)
  BY <1>7, <1>8 DEF Fills
<1> QED BY <1>2, <1>6, <1>9 DEF n, query, filters, own

\* BM25 returns no chunk without a term of the query: what is left out so was
\* ranked behind everything it returns.
LEMMA LexicalFills ==
  ASSUME IndexOK(lexical), NEW leg, NEW principal, leg.query # {}, leg.top_k \in Nat
  PROVE  LET own == Matching(lexical, Merged(leg, principal))
         IN  Fills(Returned(LexicalRetrieve(leg, principal, FALSE)),
                   {p \in own : Score(p, leg.query) > 0}, Min({leg.top_k, MaxTopK}), leg.query)
<1> DEFINE n == Min({leg.top_k, MaxTopK})
           query == leg.query
           filters == Merged(leg, principal)
           hits == Search(lexical, query, n, filters)
           own == Matching(lexical, filters)
           best == {p \in own : Score(p, query) > 0}
           K == {i \in DOMAIN hits : Score(hits[i], query) > 0}
           picked == Picked(hits, K)
<1>1. n \in Nat
  <2>1. MaxTopK \in Nat
    BY IngestionAssumption
  <2> QED BY <2>1, MinOfTwo
<1>2. LexicalRetrieve(leg, principal, FALSE) = Found("lexical", picked)
  BY DEF LexicalRetrieve
<1> HIDE DEF n, filters, query
<1>3. own \in SUBSET Entry /\ IsFiniteSet(own) /\ IdsDistinct(own)
  BY MatchingFacts
<1>4. hits \in Seq(own) /\ Elements(hits) = FirstOf(own, query, n)
  BY <1>1, SearchFinds
<1> HIDE DEF own, hits
<1>5. DOMAIN hits = 1..Len(hits) /\ Len(hits) \in Nat /\ \A i \in 1..Len(hits) : hits[i] \in own
  BY <1>4, LenProperties, ElementOfSeq
<1>6. hits \in Seq(Entry)
  BY <1>3, <1>4, <1>5
<1>7. K \in SUBSET (1..Len(hits))
  BY <1>5
<1>8. picked \in Seq(Entry) /\ Elements(picked) = {hits[i] : i \in K}
  <2> HIDE DEF K
  <2>1. picked \in Seq(Entry)
    BY <1>6, PickedLocates
  <2>2. {picked[j] : j \in 1..Len(picked)} = {hits[i] : i \in K}
    BY <1>6, <1>7, PickedHolds
  <2> QED BY <2>1, <2>2 DEF Elements
<1>9. best \in SUBSET Entry /\ IsFiniteSet(best) /\ IdsDistinct(best)
  <2>1. best \in SUBSET own
    OBVIOUS
  <2> HIDE DEF best
  <2>2. IsFiniteSet(best)
    BY <1>3, <2>1, FS_Subset
  <2> QED BY <1>3, <2>1, <2>2 DEF IdsDistinct
<1>10. \A p \in best : Rank(p, best, query) = Rank(p, own, query)
  <2> SUFFICES ASSUME NEW p \in best PROVE Rank(p, best, query) = Rank(p, own, query)
    OBVIOUS
  <2>1. \A q \in own : Better(q, p, query) => Score(q, query) > 0
    <3>1. \A q \in own : Score(q, query) \in Nat
      BY <1>3, ScoresAreNumbers
    <3> QED BY <3>1 DEF Better
  <2>2. {q \in best : Better(q, p, query)} = {q \in own : Better(q, p, query)}
    BY <2>1
  <2> QED BY <2>2 DEF Rank
<1> DEFINE found == FirstOf(best, query, n)
<1>11. {hits[i] : i \in K} = found
  <2>1. {hits[i] : i \in K} = {p \in {hits[i] : i \in 1..Len(hits)} : Score(p, query) > 0}
    BY <1>5
  <2>2. {p \in FirstOf(own, query, n) : Score(p, query) > 0} = found
    BY <1>10 DEF FirstOf
  <2> HIDE DEF found, K
  <2> QED BY <1>4, <2>1, <2>2 DEF Elements
<1> HIDE DEF best, K, picked
<1>12. Returned(Found("lexical", picked)) = found
  BY <1>8, <1>11, FoundIsWhatHit
<1>13. /\ Cardinality(found) = Min({n, Cardinality(best)})
       /\ \A hit \in found, other \in best \ found : Score(hit, query) >= Score(other, query)
  BY <1>1, <1>9, FirstFill
<1>14. found \subseteq best
  BY DEF FirstOf
<1> HIDE DEF found
<1>15. Fills(found, best, n, query)
  BY <1>13, <1>14 DEF Fills
<1> QED BY <1>2, <1>12, <1>15 DEF n, query, filters, own, best

\* The filters that are merged let through exactly the caller's own.
LEMMA MergedIsOwn ==
  ASSUME NEW tenant, NEW acls, NEW leg, NEW p \in Entry,
         leg.filters \in {<< >>} \cup [{"document_id"} -> SUBSET Documents] \cup [{"tenant_id"} -> SUBSET Tenants]
  PROVE  matches(p, Merged(leg, [tenant |-> tenant, acls |-> acls])) <=>
           /\ p.tenant_id = tenant /\ p.acl_hash \in acls \cup {"public"}
           /\ "document_id" \in DOMAIN leg.filters => p.document_id \in leg.filters["document_id"]
<1> DEFINE f == leg.filters
           a == acl_filter([tenant |-> tenant, acls |-> acls])
           g == Merged(leg, [tenant |-> tenant, acls |-> acls])
<1>1. DOMAIN f \in {{}, {"document_id"}, {"tenant_id"}}
  OBVIOUS
<1>2. DOMAIN a = {"tenant_id", "acl_hash"} /\ a["tenant_id"] = {tenant} /\ a["acl_hash"] = acls \cup {"public"}
  BY DEF acl_filter
<1>3. g = Over(a, f)
  BY DEF Merged
<1> HIDE DEF f, a, g
<1>4. /\ DOMAIN g = DOMAIN a \cup DOMAIN f
      /\ \A field \in DOMAIN g : g[field] = IF field \in DOMAIN a THEN a[field] ELSE f[field]
  BY <1>3 DEF Over
<1>5. g["tenant_id"] = {tenant} /\ g["acl_hash"] = acls \cup {"public"}
  BY <1>2, <1>4
<1>6. "document_id" \in DOMAIN f => "document_id" \in DOMAIN g /\ g["document_id"] = f["document_id"]
  BY <1>2, <1>4
<1>7. \A field \in DOMAIN g : field \in {"tenant_id", "acl_hash"} \/ (field = "document_id" /\ field \in DOMAIN f)
  BY <1>1, <1>2, <1>4
<1>8. {"tenant_id", "acl_hash"} \subseteq DOMAIN g
  BY <1>2, <1>4
<1>9. matches(p, g) <=> \A field \in DOMAIN g : p[field] \in g[field]
  BY DEF matches
<1>10. p.tenant_id = p["tenant_id"] /\ p.acl_hash = p["acl_hash"] /\ p.document_id = p["document_id"]
  OBVIOUS
<1> QED BY <1>5, <1>6, <1>7, <1>8, <1>9, <1>10 DEF f, g

-----------------------------------------------------------------------------

SearchInv == PendingOK /\ IndexOK(lexical) /\ IndexOK(points)

LEMMA SearchesFill == SearchInv => SearchFillsTopK
<1> SUFFICES ASSUME SearchInv,
                    NEW tenant \in Tenants, NEW acls \in {{}, Acls}, NEW query \in (SUBSET Terms) \ {{}},
                    NEW top_k \in 1..(MaxTopK + 1),
                    NEW filters \in {<< >>} \cup [document_id : {{d} : d \in Documents}]
                                           \cup [tenant_id : {{t} : t \in Tenants}]
             PROVE
    LET leg == [query |-> query, top_k |-> top_k, filters |-> filters]
        principal == [tenant |-> tenant, acls |-> acls]
        wanted(p) == "document_id" \in DOMAIN filters => p.document_id \in filters.document_id
        own(index) == {p \in {index[id] : id \in DOMAIN index} :
                         p.tenant_id = tenant /\ p.acl_hash \in acls \cup {"public"} /\ wanted(p)}
        fills(result, best) ==
          LET hits == {Fields(c) : c \in ToSet(result.candidates)}
          IN  /\ hits \subseteq best
              /\ Cardinality(hits) = Min({top_k, MaxTopK, Cardinality(best)})
              /\ \A hit \in hits, other \in best \ hits :
                   Cardinality(query \cap ToSet(hit.text)) >= Cardinality(query \cap ToSet(other.text))
    IN  /\ fills(LexicalRetrieve(leg, principal, FALSE),
                {p \in own(lexical) : query \cap ToSet(p.text) # {}})
        /\ fills(VectorRetrieve(leg, principal, "none"), own(points))
  BY DEF SearchFillsTopK
<1> DEFINE leg == [query |-> query, top_k |-> top_k, filters |-> filters]
           principal == [tenant |-> tenant, acls |-> acls]
           wanted(p) == "document_id" \in DOMAIN filters => p.document_id \in filters.document_id
           own(index) == {p \in {index[id] : id \in DOMAIN index} :
                            p.tenant_id = tenant /\ p.acl_hash \in acls \cup {"public"} /\ wanted(p)}
           n == Min({top_k, MaxTopK})
           vector == VectorRetrieve(leg, principal, "none")
           lex == LexicalRetrieve(leg, principal, FALSE)
           scored == {p \in own(lexical) : query \cap ToSet(p.text) # {}}
<1>1. top_k \in Nat /\ MaxTopK \in Nat
  BY IngestionAssumption
<1>2. filters \in {<< >>} \cup [{"document_id"} -> SUBSET Documents] \cup [{"tenant_id"} -> SUBSET Tenants]
  OBVIOUS
<1>3. leg.query = query /\ leg.top_k = top_k /\ leg.filters = filters /\ leg.query # {}
  OBVIOUS
<1> HIDE DEF leg
<1>4. ASSUME NEW index, IndexOK(index) PROVE own(index) = Matching(index, Merged(leg, principal))
  <2>1. \A id \in DOMAIN index : index[id] \in Entry
    BY <1>4 DEF IndexOK
  <2>2. \A p \in Entry : matches(p, Merged(leg, principal)) <=>
           /\ p.tenant_id = tenant /\ p.acl_hash \in acls \cup {"public"}
           /\ "document_id" \in DOMAIN filters => p.document_id \in filters["document_id"]
    BY <1>2, <1>3, MergedIsOwn
  <2> QED BY <2>1, <2>2 DEF Matching
<1>5. Fills(Returned(vector), own(points), n, query)
  <2>1. Fills(Returned(vector), Matching(points, Merged(leg, principal)), n, query)
    BY <1>1, <1>3, VectorFills DEF SearchInv
  <2> QED BY <1>4, <2>1 DEF SearchInv
<1>6. Fills(Returned(lex), scored, n, query)
  <2> DEFINE all == Matching(lexical, Merged(leg, principal))
             best == {p \in all : Score(p, query) > 0}
  <2>1. Fills(Returned(lex), best, n, query)
    BY <1>1, <1>3, LexicalFills DEF SearchInv
  <2>2. all = own(lexical) /\ all \in SUBSET Entry
    BY <1>4, MatchingFacts DEF SearchInv
  <2> HIDE DEF all, own
  <2>3. \A p \in Entry : Score(p, query) > 0 <=> query \cap ToSet(p.text) # {}
    BY ScoreOfNone
  <2>4. best = scored
    BY <2>2, <2>3
  <2> QED BY <2>1, <2>4
<1>7. IsFiniteSet(own(points)) /\ IsFiniteSet(scored)
  <2>1. IsFiniteSet(own(points)) /\ IsFiniteSet(own(lexical))
    <3>1. IndexOK(points) /\ IndexOK(lexical)
      BY DEF SearchInv
    <3>2. IsFiniteSet(Matching(points, Merged(leg, principal))) /\ IsFiniteSet(Matching(lexical, Merged(leg, principal)))
      BY <3>1, MatchingFacts
    <3>3. /\ own(points) = Matching(points, Merged(leg, principal))
          /\ own(lexical) = Matching(lexical, Merged(leg, principal))
      BY <1>4, <3>1
    <3> HIDE DEF own
    <3> QED BY <3>2, <3>3
  <2>2. scored \in SUBSET own(lexical)
    OBVIOUS
  <2> HIDE DEF scored, own
  <2> QED BY <2>1, <2>2, FS_Subset
<1>8. \A best : IsFiniteSet(best) => Min({top_k, MaxTopK, Cardinality(best)}) = Min({n, Cardinality(best)})
  BY <1>1, MinOfThree, FS_CardinalityType
<1> HIDE DEF vector, lex, scored, own, n
<1>9. /\ Returned(vector) \subseteq own(points)
      /\ Cardinality(Returned(vector)) = Min({top_k, MaxTopK, Cardinality(own(points))})
      /\ \A hit \in Returned(vector), other \in own(points) \ Returned(vector) :
           Cardinality(query \cap ToSet(hit.text)) >= Cardinality(query \cap ToSet(other.text))
  BY <1>5, <1>7, <1>8 DEF Fills, Score
<1>10. /\ Returned(lex) \subseteq scored
       /\ Cardinality(Returned(lex)) = Min({top_k, MaxTopK, Cardinality(scored)})
       /\ \A hit \in Returned(lex), other \in scored \ Returned(lex) :
            Cardinality(query \cap ToSet(hit.text)) >= Cardinality(query \cap ToSet(other.text))
  BY <1>6, <1>7, <1>8 DEF Fills, Score
<1> QED BY <1>9, <1>10 DEF Returned, vector, lex, scored, own, leg

LEMMA SearchStep == SearchInv /\ IInv /\ [IngestNext]_ingestVars => SearchInv'
<1> SUFFICES ASSUME SearchInv, IInv, [IngestNext]_ingestVars PROVE SearchInv'
  OBVIOUS
<1>1. PendingOK'
  BY StepIInv DEF IInv
<1>2. ASSUME NEW i \in Ingestors, NEW tenant \in Tenants, NEW acl \in Acls, NEW d \in Documents,
             NEW texts \in Contents, Ingest(i, tenant, acl, d, texts)
      PROVE  IndexOK(lexical)' /\ IndexOK(points)'
  <2> DEFINE batch == Payloads(tenant, acl, d, texts)
             after == Overwritten(lexical, batch)
  <2>1. lexical' = after /\ points' = points
    BY <1>2 DEF Ingest, IndexDocuments
  <2>2. batch \in Seq(Entry) /\ Coherent(batch)
    BY PayloadsProperties
  <2> HIDE DEF batch
  <2>3. IndexOK(after)
    BY <2>2, OverwrittenIsOK DEF SearchInv
  <2> HIDE DEF after
  <2> QED BY <2>1, <2>3 DEF SearchInv, IndexOK
<1>3. ASSUME NEW i \in Ingestors, Upsert(i)
      PROVE  IndexOK(lexical)' /\ IndexOK(points)'
  <2> DEFINE k == Min({BatchSize, Len(pending[i])})
             batch == SubSeq(pending[i], 1, k)
             after == Overwritten(points, batch)
  <2>1. points' = after /\ lexical' = lexical
    BY <1>3 DEF Upsert
  <2>2. pending[i] \in Seq(Entry) /\ Coherent(pending[i]) /\ pending[i] # << >>
    BY <1>3 DEF Upsert, SearchInv, PendingOK
  <2>3. k \in 1..Len(pending[i])
    <3>1. Len(pending[i]) \in Nat \ {0}
      BY <2>2
    <3> QED BY <3>1, BatchSizes
  <2> HIDE DEF k
  <2>4. batch \in Seq(Entry) /\ Coherent(batch)
    BY <2>2, <2>3, BatchParts
  <2> HIDE DEF batch
  <2>5. IndexOK(after)
    BY <2>4, OverwrittenIsOK DEF SearchInv
  <2> HIDE DEF after
  <2> QED BY <2>1, <2>5 DEF SearchInv, IndexOK
<1>4. ASSUME UNCHANGED <<lexical, points>> PROVE IndexOK(lexical)' /\ IndexOK(points)'
  BY <1>4 DEF SearchInv, IndexOK
<1>5. ASSUME NEW i \in Ingestors, Abort(i) PROVE IndexOK(lexical)' /\ IndexOK(points)'
  BY <1>4, <1>5 DEF Abort
<1>6. CASE UNCHANGED ingestVars
  BY <1>1, <1>4, <1>6 DEF ingestVars, SearchInv
<1>7. IndexOK(lexical)' /\ IndexOK(points)'
  BY <1>2, <1>3, <1>4, <1>5 DEF IngestNext, ingestVars
<1> QED BY <1>1, <1>7 DEF SearchInv

\* What the caller may not see costs it nothing, in either index, for any
\* contents, tenants, groups, query and cap: a leg returns the best of the caller's
\* own chunks, and fewer than it asked for only when there are no more, whatever
\* tenant the leg itself asks for (the filters of InMemoryLexicalIndex.search and
\* InMemoryVectorStore.search, applied before the cut).
THEOREM SearchesFillTopK == IngestSpec => []SearchFillsTopK
<1>1. IngestInit => IInv /\ SearchInv
  <2>1. IngestInit => IInv
    BY InitIInv
  <2>2. IngestInit => IndexOK(lexical) /\ IndexOK(points)
    <3>1. IngestInit => DOMAIN lexical = {} /\ DOMAIN points = {}
      BY DEF IngestInit
    <3> QED BY <3>1, FS_EmptySet DEF IndexOK
  <2> QED BY <2>1, <2>2 DEF SearchInv, IInv
<1>2. IInv /\ SearchInv /\ [IngestNext]_ingestVars => IInv' /\ SearchInv'
  BY StepIInv, SearchStep
<1>3. SearchInv => SearchFillsTopK
  BY SearchesFill
<1> QED BY <1>1, <1>2, <1>3, PTL DEF IngestSpec

-----------------------------------------------------------------------------
(* Memory.  That the least valued fact goes needs to know that no fact is of *)
(* the future: then one just read carries the whole of its salience.         *)

MemorySpec == MemoryInit /\ [][MemoryNext]_memoryVars

MemoryItem == [id : Nat, text : Texts, provenance : {"USER_ASSERTED", "MODEL_GENERATED"},
          salience : Nat, session : Sessions \cup {"none"},
          created : 0..MaxTime, accessed : 0..MaxTime]

MemoryTypes ==
  /\ namespace \in {"SESSION", "LONG_TERM"}
  /\ items \in Seq(MemoryItem)
  /\ DOMAIN summaries = Sessions
  /\ now \in 0..MaxTime
  /\ written \in Nat

\* Nothing was written or read after t.
Past(seq, t) == \A i \in 1..Len(seq) : seq[i].created <= t /\ seq[i].accessed <= t

\* No fact is kept twice.
NoTextTwice(seq) == \A i, j \in 1..Len(seq) : seq[i].text = seq[j].text => i = j

\* A turn of a conversation is worth as much as any other.
TurnItem == {x \in MemoryItem : x.salience = 1}

TurnsInv == namespace = "SESSION" => items \in Seq(TurnItem)

FactsInv ==
  namespace = "LONG_TERM" => Past(items, now) /\ Len(items) <= MaxItems /\ NoTextTwice(items)

\* A selection is no longer than the list.
LEMMA PickedIsShorter ==
  ASSUME NEW S, NEW seq \in Seq(S), NEW K
  PROVE  Len(Picked(seq, K)) <= Len(seq)
<1> DEFINE P == {n \in Nat : n <= Len(seq) => Len(Kept(seq, K)[n]) <= n}
<1>0. Len(seq) \in Nat
  BY LenProperties
<1>1. 0 \in P
  <2>1. Kept(seq, K)[0] = << >>
    BY KeptFacts
  <2> QED BY <2>1
<1>2. ASSUME NEW n \in Nat, n \in P PROVE n + 1 \in P
  <2> SUFFICES ASSUME n + 1 <= Len(seq) PROVE Len(Kept(seq, K)[n + 1]) <= n + 1
    OBVIOUS
  <2> DEFINE kept == Kept(seq, K)[n]
             x == seq[n + 1]
  <2>1. n < Len(seq) /\ n \in 0..Len(seq) /\ n + 1 \in 1..Len(seq) /\ Len(kept) <= n
    BY <1>0, <1>2
  <2>2. kept \in Seq(S) /\ x \in S
    BY <2>1, KeptFacts, ElementOfSeq
  <2>3. /\ n + 1 \in K => Kept(seq, K)[n + 1] = Append(kept, x)
        /\ n + 1 \notin K => Kept(seq, K)[n + 1] = kept
    BY <2>1, KeptNext
  <2> HIDE DEF kept, x
  <2>4. Len(Append(kept, x)) = Len(kept) + 1 /\ Len(kept) \in Nat
    BY <2>2, AppendProperties, LenProperties
  <2> QED BY <2>1, <2>3, <2>4
<1> HIDE DEF P
<1>3. Len(seq) \in P
  BY <1>0, <1>1, <1>2, Induction
<1> QED BY <1>0, <1>3 DEF P, Picked

\* What holds of any two elements of a list holds of any two of a selection.
LEMMA PickedKeepsFacts ==
  ASSUME NEW seq \in Seq(MemoryItem), NEW K, NEW t
  PROVE  LET picked == Picked(seq, K)
         IN  /\ picked \in Seq(MemoryItem) /\ Len(picked) <= Len(seq)
             /\ Past(seq, t) => Past(picked, t)
             /\ NoTextTwice(seq) => NoTextTwice(picked)
<1> DEFINE picked == Picked(seq, K)
<1>1. picked \in Seq(MemoryItem) /\ \E at : Locates(at, picked, seq, K \cap (1..Len(seq)))
  BY PickedLocates
<1>2. Len(picked) <= Len(seq)
  BY PickedIsShorter
<1> HIDE DEF picked
<1>3. PICK at : Locates(at, picked, seq, K \cap (1..Len(seq)))
  BY <1>1
<1>4. /\ \A j \in 1..Len(picked) : at[j] \in 1..Len(seq) /\ picked[j] = seq[at[j]]
      /\ \A j, k \in 1..Len(picked) : j < k => at[j] < at[k]
  BY <1>3 DEF Locates
<1>5. ASSUME Past(seq, t) PROVE Past(picked, t)
  BY <1>4, <1>5 DEF Past
<1>6. ASSUME NoTextTwice(seq) PROVE NoTextTwice(picked)
  <2> SUFFICES ASSUME NEW i \in 1..Len(picked), NEW j \in 1..Len(picked),
                      picked[i].text = picked[j].text
               PROVE  i = j
    BY DEF NoTextTwice
  <2>1. at[i] \in 1..Len(seq) /\ at[j] \in 1..Len(seq) /\ seq[at[i]].text = seq[at[j]].text
    BY <1>4
  <2>2. at[i] = at[j]
    BY <1>6, <2>1 DEF NoTextTwice
  <2>3. Len(picked) \in Nat
    BY <1>1, LenProperties
  <2> QED BY <1>4, <2>1, <2>2, <2>3
<1> QED BY <1>1, <1>2, <1>5, <1>6 DEF picked

\* The list without one element.
LEMMA RemovedAt ==
  ASSUME NEW S, NEW s \in Seq(S), NEW m \in 1..Len(s)
  PROVE  /\ RemoveAt(s, m) \in Seq(S)
         /\ Len(RemoveAt(s, m)) = Len(s) - 1
         /\ \A j \in 1..(Len(s) - 1) : RemoveAt(s, m)[j] = IF j < m THEN s[j] ELSE s[j + 1]
<1> DEFINE n == Len(s)
           a == SubSeq(s, 1, m - 1)
           b == SubSeq(s, m + 1, n)
<1>0. n \in Nat /\ m \in Nat /\ 1 <= m /\ m <= n /\ \A i \in 1..n : s[i] \in S
  BY LenProperties, ElementOfSeq
<1> HIDE DEF n
<1>1. a \in Seq(S) /\ Len(a) = m - 1 /\ \A j \in 1..(m - 1) : a[j] = s[j]
  <2>1. 1 \in Int /\ m - 1 \in Int /\ \A i \in 1..(m - 1) : s[i] \in S
    BY <1>0
  <2>2. /\ a \in Seq(S)
        /\ Len(a) = IF 1 <= m - 1 THEN (m - 1) - 1 + 1 ELSE 0
        /\ \A j \in 1..((m - 1) - 1 + 1) : a[j] = s[1 + j - 1]
    BY <2>1, SubSeqProperties
  <2>3. (m - 1) - 1 + 1 = m - 1 /\ \A j \in 1..(m - 1) : 1 + j - 1 = j
    BY <1>0
  <2> HIDE DEF a
  <2> QED BY <1>0, <2>2, <2>3
<1>2. b \in Seq(S) /\ Len(b) = n - m /\ \A j \in 1..(n - m) : b[j] = s[m + j]
  <2>1. m + 1 \in Int /\ n \in Int /\ \A i \in (m + 1)..n : s[i] \in S
    BY <1>0
  <2>2. /\ b \in Seq(S)
        /\ Len(b) = IF m + 1 <= n THEN n - (m + 1) + 1 ELSE 0
        /\ \A j \in 1..(n - (m + 1) + 1) : b[j] = s[(m + 1) + j - 1]
    BY <2>1, SubSeqProperties
  <2>3. n - (m + 1) + 1 = n - m /\ \A j \in 1..(n - m) : (m + 1) + j - 1 = m + j
    BY <1>0
  <2> HIDE DEF b
  <2> QED BY <1>0, <2>2, <2>3
<1>3. RemoveAt(s, m) = a \o b
  BY DEF RemoveAt, n
<1> HIDE DEF a, b
<1>4. /\ a \o b \in Seq(S) /\ Len(a \o b) = Len(a) + Len(b)
      /\ \A i \in 1..Len(a) : (a \o b)[i] = a[i]
      /\ \A i \in 1..Len(b) : (a \o b)[Len(a) + i] = b[i]
  BY <1>1, <1>2, ConcatElements
<1> DEFINE r == a \o b
<1>5. r \in Seq(S) /\ Len(r) = n - 1
  BY <1>0, <1>1, <1>2, <1>4
<1>6. /\ \A i \in 1..(m - 1) : r[i] = s[i]
      /\ \A i \in 1..(n - m) : r[(m - 1) + i] = s[m + i]
  BY <1>1, <1>2, <1>4
<1> HIDE DEF r
<1>7. ASSUME NEW j \in 1..(n - 1) PROVE r[j] = IF j < m THEN s[j] ELSE s[j + 1]
  <2>1. CASE j < m
    <3>1. j \in 1..(m - 1)
      BY <1>0, <2>1
    <3> QED BY <1>6, <2>1, <3>1
  <2>2. CASE ~(j < m)
    <3> DEFINE i == j - m + 1
    <3>1. i \in 1..(n - m) /\ (m - 1) + i = j /\ m + i = j + 1
      BY <1>0, <2>2
    <3> HIDE DEF i
    <3> QED BY <1>6, <2>2, <3>1
  <2> QED BY <2>1, <2>2
<1> QED BY <1>3, <1>5, <1>7 DEF r, n

\* The powers of two.
LEMMA DoubledFacts ==
  /\ \A t \in 0..MaxTime : Doubled[t] \in Nat /\ Doubled[t] >= 1
  /\ \A t \in 0..MaxTime, u \in 0..MaxTime : t <= u => Doubled[t] <= Doubled[u]
<1>0. MaxTime \in Nat
  BY MemoryAssumption
<1> DEFINE IsDoubled(g) == g = [t \in 0..MaxTime |-> IF t = 0 THEN 1 ELSE 2 * g[t - 1]]
           F == CHOOSE g : IsDoubled(g)
           next == [i \in 1..MaxTime |-> [v \in Nat |-> 2 * v]]
<1>1. \E f : Walks(f, Nat, 1, MaxTime, next)
  <2>1. next \in [1..MaxTime -> [Nat -> Nat]] /\ 1 \in Nat
    OBVIOUS
  <2> HIDE DEF next
  <2> QED BY <1>0, <2>1, StepsExist
<1>2. PICK f : Walks(f, Nat, 1, MaxTime, next)
  BY <1>1
<1>3. /\ f \in [0..MaxTime -> Nat] /\ f[0] = 1
      /\ \A i \in 1..MaxTime : f[i] = 2 * f[i - 1]
  <2>1. f \in [0..MaxTime -> Nat] /\ f[0] = 1 /\ \A i \in 1..MaxTime : f[i] = next[i][f[i - 1]]
    BY <1>2 DEF Walks
  <2>2. \A i \in 1..MaxTime : i - 1 \in 0..MaxTime
    BY <1>0
  <2>3. \A i \in 1..MaxTime : f[i - 1] \in Nat
    BY <2>1, <2>2
  <2>4. \A i \in 1..MaxTime : \A v \in Nat : next[i][v] = 2 * v
    OBVIOUS
  <2> HIDE DEF next
  <2> QED BY <2>1, <2>3, <2>4
<1>4. IsDoubled(f)
  <2>1. \A t \in 0..MaxTime : t = 0 \/ t \in 1..MaxTime
    BY <1>0
  <2>2. \A t \in 0..MaxTime : f[t] = IF t = 0 THEN 1 ELSE 2 * f[t - 1]
    BY <1>3, <2>1
  <2> QED BY <1>3, <2>2
<1>5. IsDoubled(F)
  <2> HIDE DEF IsDoubled
  <2> QED BY <1>4
<1>6. Doubled = F
  BY DEF Doubled
<1> HIDE DEF F
<1>7. F[0] = 1 /\ \A t \in 1..MaxTime : F[t] = 2 * F[t - 1]
  <2>1. F = [t \in 0..MaxTime |-> IF t = 0 THEN 1 ELSE 2 * F[t - 1]]
    BY <1>5
  <2>2. 0 \in 0..MaxTime /\ \A t \in 1..MaxTime : t \in 0..MaxTime /\ t # 0
    BY <1>0
  <2> QED BY <2>1, <2>2
<1>8. \A t \in 0..MaxTime : F[t] \in Nat /\ F[t] >= 1
  <2> DEFINE P == {t \in Nat : t <= MaxTime => F[t] \in Nat /\ F[t] >= 1}
  <2>1. 0 \in P
    BY <1>7
  <2>2. ASSUME NEW t \in Nat, t \in P PROVE t + 1 \in P
    <3> SUFFICES ASSUME t + 1 <= MaxTime PROVE F[t + 1] \in Nat /\ F[t + 1] >= 1
      OBVIOUS
    <3>1. t + 1 \in 1..MaxTime /\ (t + 1) - 1 = t /\ F[t] \in Nat /\ F[t] >= 1
      BY <1>0, <2>2
    <3>2. F[t + 1] = 2 * F[t]
      BY <1>7, <3>1
    <3> QED BY <3>1, <3>2
  <2> HIDE DEF P
  <2>3. Nat \subseteq P
    BY <2>1, <2>2, Induction
  <2> QED BY <1>0, <2>3 DEF P
<1>9. ASSUME NEW t \in 0..MaxTime
      PROVE  \A u \in 0..MaxTime : t <= u => F[t] <= F[u]
  <2> DEFINE P == {u \in Nat : u <= MaxTime /\ t <= u => F[t] <= F[u]}
  <2>1. 0 \in P
    BY <1>8
  <2>2. ASSUME NEW u \in Nat, u \in P PROVE u + 1 \in P
    <3> SUFFICES ASSUME u + 1 <= MaxTime, t <= u + 1 PROVE F[t] <= F[u + 1]
      OBVIOUS
    <3>1. CASE t = u + 1
      BY <1>8, <3>1
    <3>2. CASE t <= u
      <4>1. F[t] <= F[u]
        BY <1>0, <2>2, <3>2
      <4>2. u + 1 \in 1..MaxTime /\ (u + 1) - 1 = u /\ u \in 0..MaxTime
        BY <1>0
      <4>3. F[u + 1] = 2 * F[u]
        BY <1>7, <4>2
      <4> QED BY <1>8, <4>1, <4>2, <4>3
    <3> QED BY <3>1, <3>2
  <2> HIDE DEF P
  <2>3. Nat \subseteq P
    BY <2>1, <2>2, Induction
  <2> QED BY <1>0, <2>3 DEF P
<1> QED BY <1>6, <1>8, <1>9


\* Salience and time are numbers, and so is what an item is worth.
LEMMA WorthIsANumber ==
  ASSUME NEW i \in MemoryItem
  PROVE  /\ Max({i.created, i.accessed}) = IF i.created <= i.accessed THEN i.accessed ELSE i.created
         /\ Max({i.created, i.accessed}) \in 0..MaxTime
         /\ Decayed(i) \in Nat
         /\ i.created \in Nat
<1> DEFINE a == i.created
           b == i.accessed
           latest(x) == x \in {a, b} /\ \A y \in {a, b} : x >= y
           m == IF a <= b THEN b ELSE a
<1>0. a \in 0..MaxTime /\ b \in 0..MaxTime /\ a \in Nat /\ b \in Nat /\ i.salience \in Nat
  BY MemoryAssumption DEF MemoryItem
<1>1. Max({a, b}) = CHOOSE x \in {a, b} : \A y \in {a, b} : x >= y
  BY DEF Max
<1> HIDE DEF a, b
<1>2. latest(m)
  BY <1>0
<1>3. \A x : latest(x) => x = m
  BY <1>0
<1>4. m \in 0..MaxTime
  BY <1>0
<1> HIDE DEF m
<1>5. Max({a, b}) = m
  BY <1>1, <1>2, <1>3
<1>6. Doubled[m] \in Nat
  BY <1>4, DoubledFacts
<1>7. Decayed(i) = IF namespace = "SESSION" THEN i.salience ELSE i.salience * Doubled[m]
  BY <1>5 DEF Decayed, a, b
<1>8. i.salience \in Nat /\ i.salience * Doubled[m] \in Nat
  BY <1>0, <1>6
<1> QED BY <1>0, <1>4, <1>5, <1>7, <1>8 DEF m, a, b

\* A product grows with either factor.
LEMMA ProductsGrow ==
  ASSUME NEW s \in Nat, NEW t \in Nat, NEW d \in Nat, NEW e \in Nat,
         d >= 1, e <= d, s * d <= t * e
  PROVE  s <= t
<1> SUFFICES ASSUME t + 1 <= s PROVE FALSE
  OBVIOUS
<1>1. t * e <= t * d
  <2> DEFINE P == {n \in Nat : n * e <= n * d}
  <2>1. 0 \in P
    OBVIOUS
  <2>2. ASSUME NEW n \in Nat, n \in P PROVE n + 1 \in P
    <3>1. (n + 1) * e = n * e + e /\ (n + 1) * d = n * d + d /\ n * e \in Nat /\ n * d \in Nat
      OBVIOUS
    <3>2. n * e <= n * d
      BY <2>2
    <3> QED BY <3>1, <3>2
  <2> HIDE DEF P
  <2>3. t \in P
    BY <2>1, <2>2, Induction
  <2> QED BY <2>3 DEF P
<1>2. (t + 1) * d <= s * d
  <2> DEFINE k == s - (t + 1)
  <2>1. k \in Nat /\ s = (t + 1) + k
    OBVIOUS
  <2>2. s * d = (t + 1) * d + k * d /\ k * d \in Nat /\ (t + 1) * d \in Nat
    BY <2>1
  <2> QED BY <2>2
<1>3. (t + 1) * d = t * d + d /\ t * d \in Nat /\ t * e \in Nat /\ s * d \in Nat
  OBVIOUS
<1> QED BY <1>1, <1>2, <1>3

\* Some item is worth the least.
LEMMA SomethingIsLeast ==
  ASSUME NEW seq \in Seq(MemoryItem), Len(seq) > 0
  PROVE  LET least == {k \in DOMAIN seq : \A j \in DOMAIN seq : ~WorthLess(seq[j], seq[k])}
         IN  Min(least) \in least
<1> DEFINE n == Len(seq)
           worth == {Decayed(seq[k]) : k \in 1..n}
           least == {k \in DOMAIN seq : \A j \in DOMAIN seq : ~WorthLess(seq[j], seq[k])}
<1>0. n \in Nat /\ n > 0 /\ DOMAIN seq = 1..n /\ 1 \in 1..n
  BY LenProperties
<1>1. \A k \in 1..n : Decayed(seq[k]) \in Nat /\ seq[k].created \in Nat
  <2> SUFFICES ASSUME NEW k \in 1..n PROVE Decayed(seq[k]) \in Nat /\ seq[k].created \in Nat
    OBVIOUS
  <2>1. seq[k] \in MemoryItem
    BY ElementOfSeq
  <2> QED BY <2>1, WorthIsANumber
<1> HIDE DEF n
<1>2. PICK w \in worth : \A v \in worth : w <= v
  <2>1. worth \in SUBSET Nat /\ worth # {}
    BY <1>0, <1>1
  <2> QED BY <2>1, LeastNumber
<1> DEFINE ages == {seq[k].created : k \in {x \in 1..n : Decayed(seq[x]) = w}}
<1>3. PICK a \in ages : \A b \in ages : a <= b
  <2>1. ages \in SUBSET Nat /\ ages # {}
    BY <1>1
  <2> QED BY <2>1, LeastNumber
<1>4. PICK k \in 1..n : Decayed(seq[k]) = w /\ seq[k].created = a
  OBVIOUS
<1>5. ASSUME NEW j \in 1..n PROVE ~WorthLess(seq[j], seq[k])
  <2>1. w <= Decayed(seq[j]) /\ w \in Nat /\ a \in Nat /\ Decayed(seq[j]) \in Nat /\ seq[j].created \in Nat
    BY <1>1, <1>2, <1>4
  <2>2. Decayed(seq[j]) = w => a <= seq[j].created
    BY <1>3
  <2> QED BY <1>4, <2>1, <2>2 DEF WorthLess
<1>6. k \in least
  BY <1>0, <1>4, <1>5
<1>7. least \in SUBSET Nat
  BY <1>0
<1> HIDE DEF least
<1>8. \E m \in least : \A x \in least : m <= x
  <2>1. least # {}
    BY <1>6
  <2> QED BY <1>7, <2>1, LeastNumber
<1>9. Min(least) \in least
  BY <1>8 DEF Min
<1> QED BY <1>9 DEF least

\* Eviction drops one item, and nothing that stays is worth less.
LEMMA EvictedDrops ==
  ASSUME NEW seq \in Seq(MemoryItem), Len(seq) > MaxItems
  PROVE  \E m \in 1..Len(seq) :
           /\ Evicted(seq) = RemoveAt(seq, m)
           /\ \A j \in 1..Len(seq) : ~WorthLess(seq[j], seq[m])
<1> DEFINE least == {k \in DOMAIN seq : \A j \in DOMAIN seq : ~WorthLess(seq[j], seq[k])}
           m == Min(least)
<1>1. Len(seq) \in Nat /\ DOMAIN seq = 1..Len(seq) /\ MaxItems \in Nat
  BY LenProperties, MemoryAssumption
<1>2. m \in least
  <2>1. Len(seq) > 0
    BY <1>1
  <2> QED BY <2>1, SomethingIsLeast
<1>3. Evicted(seq) = RemoveAt(seq, m)
  BY DEF Evicted
<1> HIDE DEF m
<1>4. m \in 1..Len(seq) /\ \A j \in 1..Len(seq) : ~WorthLess(seq[j], seq[m])
  BY <1>1, <1>2
<1> QED BY <1>3, <1>4


LEMMA EvictedKeepsFacts ==
  ASSUME NEW seq \in Seq(MemoryItem), NEW t
  PROVE  LET kept == Evicted(seq)
         IN  /\ kept \in Seq(MemoryItem)
             /\ Len(seq) <= MaxItems + 1 => Len(kept) <= MaxItems
             /\ Past(seq, t) => Past(kept, t)
             /\ NoTextTwice(seq) => NoTextTwice(kept)
<1> DEFINE kept == Evicted(seq)
           n == Len(seq)
<1>0. n \in Nat /\ MaxItems \in Nat
  BY LenProperties, MemoryAssumption
<1>1. CASE ~(Len(seq) > MaxItems)
  <2>1. kept = seq
    BY <1>1 DEF Evicted
  <2> HIDE DEF kept
  <2> QED BY <1>0, <1>1, <2>1 DEF kept
<1>2. CASE Len(seq) > MaxItems
  <2>1. PICK m \in 1..Len(seq) : kept = RemoveAt(seq, m)
    BY <1>2, EvictedDrops
  <2> HIDE DEF kept
  <2>2. /\ kept \in Seq(MemoryItem) /\ Len(kept) = n - 1
        /\ \A j \in 1..(n - 1) : kept[j] = IF j < m THEN seq[j] ELSE seq[j + 1]
    BY <2>1, RemovedAt
  <2> DEFINE at(j) == IF j < m THEN j ELSE j + 1
  <2>3. \A j \in 1..Len(kept) : at(j) \in 1..n /\ kept[j] = seq[at(j)]
    BY <1>0, <2>2
  <2>4. \A i, j \in 1..Len(kept) : at(i) = at(j) => i = j
    BY <1>0, <2>2
  <2> HIDE DEF at
  <2>5. ASSUME Past(seq, t) PROVE Past(kept, t)
    BY <2>3, <2>5 DEF Past
  <2>6. ASSUME NoTextTwice(seq) PROVE NoTextTwice(kept)
    <3> SUFFICES ASSUME NEW i \in 1..Len(kept), NEW j \in 1..Len(kept), kept[i].text = kept[j].text
                 PROVE  i = j
      BY DEF NoTextTwice
    <3>1. at(i) \in 1..n /\ at(j) \in 1..n /\ seq[at(i)].text = seq[at(j)].text
      BY <2>3
    <3>2. at(i) = at(j)
      BY <2>6, <3>1 DEF NoTextTwice
    <3> QED BY <2>4, <3>2
  <2> QED BY <1>0, <2>2, <2>5, <2>6 DEF kept
<1> QED BY <1>1, <1>2

\* Items that are refreshed where they stand.
LEMMA RefreshedKeepsFacts ==
  ASSUME NEW seq \in Seq(MemoryItem), NEW t \in 0..MaxTime, Past(seq, t), NEW new,
         new = [i \in DOMAIN seq |-> new[i]],
         \A i \in DOMAIN seq :
           /\ new[i] \in MemoryItem /\ new[i].text = seq[i].text /\ new[i].created = seq[i].created
           /\ new[i].accessed \in {seq[i].accessed, t}
  PROVE  /\ new \in Seq(MemoryItem) /\ Len(new) = Len(seq)
         /\ Past(new, t)
         /\ NoTextTwice(seq) => NoTextTwice(new)
<1> DEFINE n == Len(seq)
<1>0. n \in Nat /\ DOMAIN seq = 1..n /\ t \in Nat
  BY LenProperties, MemoryAssumption
<1> HIDE DEF n
<1>1. new \in Seq(MemoryItem) /\ Len(new) = n
  <2>1. new \in [1..n -> MemoryItem]
    <3>1. \A i \in 1..n : new[i] \in MemoryItem
      BY <1>0
    <3> QED BY <1>0, <3>1
  <2> QED BY <1>0, <2>1
<1>2. Past(new, t)
  BY <1>0, <1>1 DEF Past, n
<1>3. NoTextTwice(seq) => NoTextTwice(new)
  BY <1>0, <1>1 DEF NoTextTwice, n
<1> QED BY <1>1, <1>2, <1>3 DEF n


-----------------------------------------------------------------------------
(* The actions of memory. *)

LEMMA ItemIsAnItem ==
  ASSUME NEW id \in Nat, NEW text \in Texts, NEW provenance \in {"USER_ASSERTED", "MODEL_GENERATED"},
         NEW salience \in Nat, NEW s \in Sessions \cup {"none"}, now \in 0..MaxTime
  PROVE  Item(id, text, provenance, salience, s) \in MemoryItem
<1>1. 0 \in 0..MaxTime
  BY MemoryAssumption
<1> QED BY <1>1 DEF Item, MemoryItem

LEMMA LiveIsAList ==
  ASSUME MemoryTypes
  PROVE  Live \in Seq(MemoryItem)
<1> DEFINE K == {i \in DOMAIN items : items[i].created >= now - Ttl}
<1>1. items \in Seq(MemoryItem)
  BY DEF MemoryTypes
<1> HIDE DEF K
<1>2. Picked(items, K) \in Seq(MemoryItem)
  BY <1>1, PickedLocates
<1>3. Live = IF namespace = "SESSION" THEN Picked(items, K) ELSE items
  BY DEF Live, K
<1> QED BY <1>1, <1>2, <1>3

\* What a turn leaves behind.
Turn(s, text, answered) ==
  LET question == Item(written + 1, text, "USER_ASSERTED", 1, s)
      answer == Item(written + 2, text, "MODEL_GENERATED", 1, s)
  IN  IF answered THEN <<question, answer>> ELSE <<question>>

LEMMA TurnIsAList ==
  ASSUME MemoryTypes, NEW s \in Sessions, NEW text \in Texts, NEW answered \in BOOLEAN
  PROVE  LET turn == Turn(s, text, answered)
             after == Live \o turn
         IN  /\ turn \in Seq(MemoryItem) /\ Len(turn) \in {1, 2}
             /\ after \in Seq(MemoryItem) /\ Len(after) > 0
             /\ Last(after).session = s
<1> DEFINE question == Item(written + 1, text, "USER_ASSERTED", 1, s)
           answer == Item(written + 2, text, "MODEL_GENERATED", 1, s)
           turn == Turn(s, text, answered)
           after == Live \o turn
<1>1. question \in MemoryItem /\ question.session = s
  BY ItemIsAnItem DEF MemoryTypes, Item
<1>2. answer \in MemoryItem /\ answer.session = s
  BY ItemIsAnItem DEF MemoryTypes, Item
<1>3. turn = IF answered THEN <<question, answer>> ELSE <<question>>
  BY DEF Turn
<1> HIDE DEF question, answer, turn
<1>4. turn \in Seq(MemoryItem) /\ Len(turn) \in {1, 2} /\ turn[Len(turn)].session = s
  BY <1>1, <1>2, <1>3
<1>5. Live \in Seq(MemoryItem)
  BY LiveIsAList
<1> DEFINE live == Live
<1> HIDE DEF live
<1>6. /\ live \o turn \in Seq(MemoryItem) /\ Len(live \o turn) = Len(live) + Len(turn)
      /\ Len(live) \in Nat
      /\ \A i \in 1..Len(turn) : (live \o turn)[Len(live) + i] = turn[i]
  BY <1>4, <1>5, ConcatElements DEF live
<1>7. (live \o turn)[Len(live \o turn)].session = s /\ Len(live \o turn) > 0
  <2>1. Len(turn) \in 1..Len(turn)
    BY <1>4
  <2>2. (live \o turn)[Len(live) + Len(turn)] = turn[Len(turn)]
    BY <1>6, <2>1
  <2> DEFINE joined == live \o turn
             k == Len(live)
             n == Len(turn)
  <2>3. k \in Nat /\ n \in {1, 2} /\ Len(joined) = k + n /\ joined[k + n] = turn[n] /\ turn[n].session = s
    BY <1>4, <1>6, <2>2
  <2> HIDE DEF joined, k, n
  <2>4. Len(joined) > 0 /\ joined[Len(joined)].session = s
    BY <2>3
  <2> QED BY <2>4 DEF joined
<1>8. after \in Seq(MemoryItem) /\ Len(after) > 0 /\ after[Len(after)].session = s
  BY <1>6, <1>7 DEF live
<1>9. Last(after) = after[Len(after)]
  BY DEF Last
<1> HIDE DEF after
<1>10. Last(after).session = s
  BY <1>8, <1>9
<1> QED BY <1>4, <1>8, <1>10 DEF turn, after

LEMMA RememberTurnIs ==
  ASSUME NEW s, NEW text, NEW answered, RememberTurn(s, text, answered)
  PROVE  LET turn == Turn(s, text, answered)
             after == Live \o turn
             conversation == OfSession(after, s)
         IN  /\ namespace = "SESSION" /\ namespace' = namespace /\ now' = now
             /\ items' = after
             /\ written' = written + Len(turn)
             /\ summaries' = IF Len(conversation) > SummarizeAfter
                             THEN [summaries EXCEPT ![s] = Summary(conversation)] ELSE summaries
  BY DEF RememberTurn, Turn

LEMMA RememberKeeps ==
  ASSUME MemoryTypes, FactsInv, NEW text \in Texts, NEW salience \in Saliences, Remember(text, salience)
  PROVE  MemoryTypes' /\ FactsInv'
<1>0. /\ items \in Seq(MemoryItem) /\ now \in 0..MaxTime /\ written \in Nat
      /\ namespace = "LONG_TERM" /\ namespace' = namespace /\ now' = now /\ summaries' = summaries
      /\ written' = written + 1
      /\ Past(items, now) /\ Len(items) <= MaxItems /\ NoTextTwice(items)
      /\ salience \in Nat /\ MaxItems \in Nat /\ MaxTime \in Nat
  BY MemoryAssumption DEF MemoryTypes, FactsInv, Remember
<1>1. CASE \E i \in DOMAIN items : items[i].text = text
  <2> DEFINE new == Restated(text, salience)
  <2>1. items' = new
    BY <1>1 DEF Remember
  <2>2. new = [i \in DOMAIN items |-> new[i]]
    BY DEF Restated
  <2>3. ASSUME NEW i \in DOMAIN items
        PROVE  /\ new[i] \in MemoryItem /\ new[i].text = items[i].text
               /\ new[i].created = items[i].created /\ new[i].accessed \in {items[i].accessed, now}
    <3>1. items[i] \in MemoryItem
      BY <1>0, ElementOfSeq
    <3> DEFINE x == items[i]
               m == Max({x.salience, salience})
    <3>2. m \in Nat
      <4>1. m = CHOOSE n \in {x.salience, salience} : \A k \in {x.salience, salience} : n >= k
        BY DEF Max
      <4>2. x.salience \in Nat
        BY <3>1 DEF MemoryItem
      <4>3. \E n \in {x.salience, salience} : \A k \in {x.salience, salience} : n >= k
        BY <1>0, <4>2
      <4> HIDE DEF m, x
      <4> QED BY <1>0, <4>1, <4>2, <4>3
    <3>3. new[i] = IF x.text = text THEN [x EXCEPT !.salience = m, !.accessed = now] ELSE x
      BY DEF Restated
    <3> HIDE DEF new, m, x
    <3>4. x \in MemoryItem
      BY <3>1 DEF x
    <3> QED BY <1>0, <3>2, <3>3, <3>4 DEF MemoryItem, x
  <2> HIDE DEF new
  <2>4. new \in Seq(MemoryItem) /\ Len(new) = Len(items) /\ Past(new, now)
        /\ (NoTextTwice(items) => NoTextTwice(new))
    BY <1>0, <2>2, <2>3, RefreshedKeepsFacts
  <2> QED BY <1>0, <2>1, <2>4 DEF MemoryTypes, FactsInv
<1>2. CASE ~ \E i \in DOMAIN items : items[i].text = text
  <2> DEFINE x == Item(written + 1, text, "USER_ASSERTED", salience, "none")
             more == Append(items, x)
             n == Len(items)
  <2>1. items' = Evicted(more)
    BY <1>2 DEF Remember
  <2>2. x \in MemoryItem /\ x.text = text /\ x.created = now /\ x.accessed = 0
    BY <1>0, ItemIsAnItem DEF Item
  <2> HIDE DEF x
  <2>3. /\ more \in Seq(MemoryItem) /\ Len(more) = n + 1 /\ n \in Nat /\ DOMAIN items = 1..n
        /\ \A i \in 1..n : more[i] = items[i]
        /\ more[n + 1] = x
    BY <1>0, <2>2, AppendProperties, LenProperties
  <2> HIDE DEF more, n
  <2>4. \A i \in 1..(n + 1) : i = n + 1 \/ i \in 1..n
    BY <2>3
  <2>5. Past(more, now)
    BY <1>0, <2>2, <2>3, <2>4 DEF Past, n
  <2>6. NoTextTwice(more)
    <3> SUFFICES ASSUME NEW i \in 1..(n + 1), NEW j \in 1..(n + 1), more[i].text = more[j].text
                 PROVE  i = j
      BY <2>3 DEF NoTextTwice
    <3>1. \A k \in 1..n : items[k].text # text
      BY <1>2, <2>3
    <3>2. CASE i \in 1..n /\ j \in 1..n
      BY <1>0, <2>3, <3>2 DEF NoTextTwice, n
    <3> QED BY <2>2, <2>3, <2>4, <3>1, <3>2
  <2>7. Len(more) <= MaxItems + 1
    BY <1>0, <2>3 DEF n
  <2> DEFINE kept == Evicted(more)
  <2>8. kept \in Seq(MemoryItem) /\ Len(kept) <= MaxItems /\ Past(kept, now) /\ NoTextTwice(kept)
    BY <2>3, <2>5, <2>6, <2>7, EvictedKeepsFacts
  <2> HIDE DEF kept
  <2>9. items' = kept
    BY <2>1 DEF kept
  <2> QED BY <1>0, <2>8, <2>9 DEF MemoryTypes, FactsInv
<1> QED BY <1>1, <1>2

LEMMA RecallKeeps ==
  ASSUME MemoryTypes, FactsInv, NEW asked \in SUBSET Vocabulary, Recall(asked)
  PROVE  MemoryTypes' /\ FactsInv'
<1>0. /\ items \in Seq(MemoryItem) /\ now \in 0..MaxTime
      /\ namespace' = namespace /\ now' = now /\ summaries' = summaries /\ written' = written
      /\ namespace \in {"SESSION", "LONG_TERM"}
  BY DEF MemoryTypes, Recall
<1>1. CASE namespace = "SESSION"
  <2>1. items' = Live
    BY <1>1 DEF Recall
  <2>2. Live \in Seq(MemoryItem)
    BY LiveIsAList
  <2> QED BY <1>0, <1>1, <2>1, <2>2 DEF MemoryTypes, FactsInv
<1>2. CASE namespace = "LONG_TERM"
  <2> DEFINE chosen == Chosen(asked)
             new == [i \in DOMAIN items |->
                      IF i \in chosen THEN [items[i] EXCEPT !.accessed = now] ELSE items[i]]
  <2>1. items' = new
    BY <1>2 DEF Recall
  <2> HIDE DEF chosen
  <2>2. new = [i \in DOMAIN items |-> new[i]]
    OBVIOUS
  <2>3. ASSUME NEW i \in DOMAIN items
        PROVE  /\ new[i] \in MemoryItem /\ new[i].text = items[i].text
               /\ new[i].created = items[i].created /\ new[i].accessed \in {items[i].accessed, now}
    <3> DEFINE x == items[i]
    <3>1. x \in MemoryItem
      BY <1>0, ElementOfSeq
    <3>2. new[i] = IF i \in chosen THEN [x EXCEPT !.accessed = now] ELSE x
      OBVIOUS
    <3> HIDE DEF new, x
    <3> QED BY <1>0, <3>1, <3>2 DEF MemoryItem, x
  <2> HIDE DEF new
  <2>4. Past(items, now) /\ Len(items) <= MaxItems /\ NoTextTwice(items)
    BY <1>2 DEF FactsInv
  <2>5. new \in Seq(MemoryItem) /\ Len(new) = Len(items) /\ Past(new, now)
        /\ (NoTextTwice(items) => NoTextTwice(new))
    BY <1>0, <2>2, <2>3, <2>4, RefreshedKeepsFacts
  <2> QED BY <1>0, <2>1, <2>4, <2>5 DEF MemoryTypes, FactsInv
<1> QED BY <1>0, <1>1, <1>2

LEMMA MemoryStep == MemoryTypes /\ FactsInv /\ [MemoryNext]_memoryVars => MemoryTypes' /\ FactsInv'
<1> SUFFICES ASSUME MemoryTypes, FactsInv, [MemoryNext]_memoryVars
             PROVE  MemoryTypes' /\ FactsInv'
  OBVIOUS
<1>1. ASSUME NEW s \in Sessions, NEW text \in Texts, NEW answered \in BOOLEAN,
             RememberTurn(s, text, answered)
      PROVE  MemoryTypes' /\ FactsInv'
  <2> DEFINE turn == Turn(s, text, answered)
             after == Live \o turn
             rolled == [summaries EXCEPT ![s] = Summary(OfSession(after, s))]
  <2>1. /\ namespace = "SESSION" /\ namespace' = namespace /\ now' = now /\ items' = after
        /\ written' = written + Len(turn) /\ summaries' \in {rolled, summaries}
    BY <1>1, RememberTurnIs
  <2>2. after \in Seq(MemoryItem) /\ Len(turn) \in {1, 2}
    BY TurnIsAList
  <2>3. DOMAIN rolled = DOMAIN summaries
    OBVIOUS
  <2> HIDE DEF after, turn, rolled
  <2> QED BY <2>1, <2>2, <2>3 DEF MemoryTypes, FactsInv
<1>2. ASSUME NEW selector \in Selectors, Forget(selector)
      PROVE  MemoryTypes' /\ FactsInv'
  <2> DEFINE K == {i \in DOMAIN items : ~Matches(items[i], selector)}
             kept == Picked(items, K)
  <2>1. /\ items' = kept /\ namespace' = namespace /\ now' = now /\ written' = written
        /\ DOMAIN summaries' = Sessions
    BY <1>2 DEF Forget
  <2>2. items \in Seq(MemoryItem)
    BY DEF MemoryTypes
  <2> HIDE DEF K
  <2>3. /\ kept \in Seq(MemoryItem) /\ Len(kept) <= Len(items)
        /\ Past(items, now) => Past(kept, now)
        /\ NoTextTwice(items) => NoTextTwice(kept)
    BY <2>2, PickedKeepsFacts
  <2> HIDE DEF kept
  <2>4. Len(items) \in Nat /\ Len(kept) \in Nat /\ MaxItems \in Nat
    BY <2>2, <2>3, LenProperties, MemoryAssumption
  <2> QED BY <2>1, <2>3, <2>4 DEF MemoryTypes, FactsInv
<1>3. CASE Tick
  <2>1. /\ now \in Nat /\ now < MaxTime /\ MaxTime \in Nat /\ now' = now + 1 /\ items' = items
        /\ namespace' = namespace /\ summaries' = summaries /\ written' = written
    BY <1>3, MemoryAssumption DEF Tick, MemoryTypes
  <2>2. now' \in 0..MaxTime
    BY <2>1
  <2>3. ASSUME Past(items, now) PROVE Past(items, now')
    <3> SUFFICES ASSUME NEW i \in 1..Len(items)
                 PROVE  items[i].created <= now' /\ items[i].accessed <= now'
      BY DEF Past
    <3>1. items[i] \in MemoryItem
      BY ElementOfSeq DEF MemoryTypes
    <3>2. items[i].created <= now /\ items[i].accessed <= now
      BY <2>3 DEF Past
    <3>3. items[i].created \in Nat /\ items[i].accessed \in Nat
      BY <2>1, <3>1 DEF MemoryItem
    <3> QED BY <2>1, <3>2, <3>3
  <2> QED BY <2>1, <2>2, <2>3 DEF MemoryTypes, FactsInv
<1>4. CASE UNCHANGED memoryVars
  BY <1>4 DEF memoryVars, MemoryTypes, FactsInv
<1> QED BY <1>1, <1>2, <1>3, <1>4, RememberKeeps, RecallKeeps DEF MemoryNext


\* The first m of a list are what is there, where it is.
LEMMA FirstOnes ==
  ASSUME NEW S, NEW seq \in Seq(S), NEW m \in 0..Len(seq)
  PROVE  /\ SubSeq(seq, 1, m) \in Seq(S) /\ Len(SubSeq(seq, 1, m)) = m
         /\ \A i \in 1..m : SubSeq(seq, 1, m)[i] = seq[i]
<1> DEFINE first == SubSeq(seq, 1, m)
<1>1. 1 \in Int /\ m \in Int /\ m \in Nat /\ \A i \in 1..m : seq[i] \in S
  BY LenProperties, ElementOfSeq
<1>2. /\ first \in Seq(S) /\ Len(first) = IF 1 <= m THEN m - 1 + 1 ELSE 0
      /\ \A i \in 1..(m - 1 + 1) : first[i] = seq[1 + i - 1]
  BY <1>1, SubSeqProperties
<1>3. m - 1 + 1 = m /\ \A i \in 1..m : 1 + i - 1 = i
  BY <1>1
<1> HIDE DEF first
<1>4. first \in Seq(S) /\ Len(first) = m /\ \A i \in 1..m : first[i] = seq[i]
  BY <1>1, <1>2, <1>3
<1> QED BY <1>4 DEF first

LEMMA IdsOfAll ==
  ASSUME NEW seq \in Seq(MemoryItem)
  PROVE  /\ ToSet(Ids(seq)) = {seq[i].id : i \in 1..Len(seq)}
         /\ Len(Ids(seq)) = Len(seq)
<1>1. Len(seq) \in Nat /\ DOMAIN seq = 1..Len(seq)
  BY LenProperties
<1> DEFINE n == Len(seq)
           ids == Ids(seq)
<1>2. ids = [i \in 1..n |-> seq[i].id]
  BY <1>1 DEF Ids
<1> HIDE DEF n
<1>3. DOMAIN ids = 1..n /\ Len(ids) = n /\ \A i \in 1..n : ids[i] = seq[i].id
  BY <1>1, <1>2 DEF n
<1> HIDE DEF ids
<1>4. ToSet(ids) = {seq[i].id : i \in 1..n}
  BY <1>3 DEF ToSet
<1> QED BY <1>3, <1>4 DEF ids, n

-----------------------------------------------------------------------------
(* What the next turn is given. *)

LEMMA SharedIsANumber ==
  ASSUME NEW x \in MemoryItem, NEW asked \in SUBSET Vocabulary
  PROVE  Shared(x, asked) \in Nat
<1>1. IsFiniteSet(asked)
  BY FS_Subset, MemoryAssumption
<1>2. asked \cap x.text \in SUBSET asked
  OBVIOUS
<1>3. IsFiniteSet(asked \cap x.text)
  BY <1>1, <1>2, FS_Subset
<1> QED BY <1>3, FS_CardinalityType DEF Shared

\* A read puts any items of a list in a row.
LEMMA ReadsInOrder ==
  ASSUME NEW seq \in Seq(MemoryItem), NEW asked \in SUBSET Vocabulary, NEW S \in SUBSET (1..Len(seq))
  PROVE  IsFiniteSet(S) /\ Orders(Ahead(seq, asked), S)
<1> DEFINE n == Len(seq)
           R == Ahead(seq, asked)
           bears == [i \in 1..n |-> Shared(seq[i], asked)]
           worth == [i \in 1..n |-> Decayed(seq[i])]
           born == [i \in 1..n |-> seq[i].created]
<1>0. n \in Nat /\ DOMAIN seq = 1..n
  BY LenProperties
<1>1. IsFiniteSet(S)
  <2>1. IsFiniteSet(1..n)
    BY <1>0, FS_Interval
  <2> QED BY <2>1, FS_Subset
<1>2. ASSUME NEW i \in 1..n PROVE bears[i] \in Nat /\ worth[i] \in Nat /\ born[i] \in Nat
  <2>1. seq[i] \in MemoryItem
    BY ElementOfSeq
  <2> QED BY <2>1, SharedIsANumber, WorthIsANumber
<1>3. ASSUME NEW i \in 1..n, NEW j \in 1..n
      PROVE  <<i, j>> \in R <=>
               \/ bears[i] > bears[j]
               \/ /\ bears[i] = bears[j]
                  /\ \/ worth[j] < worth[i] \/ (worth[j] = worth[i] /\ born[j] < born[i])
                     \/ /\ ~(worth[i] < worth[j] \/ (worth[i] = worth[j] /\ born[i] < born[j]))
                        /\ i < j
  BY <1>0 DEF Ahead, WorthLess
<1> HIDE DEF R, bears, worth, born, n
<1>4. \A i \in 1..n : i \in Nat
  BY <1>0
<1>5. S \subseteq 1..n
  BY DEF n
<1>6. ASSUME NEW x \in S PROVE <<x, x>> \notin R
  <2>1. x \in 1..n /\ x \in Nat
    BY <1>4, <1>5
  <2> QED BY <1>2, <1>3, <2>1
<1>7. ASSUME NEW x \in S, NEW y \in S, x # y PROVE <<x, y>> \in R \/ <<y, x>> \in R
  <2>1. x \in 1..n /\ x \in Nat /\ y \in 1..n /\ y \in Nat
    BY <1>4, <1>5
  <2>2. /\ bears[x] \in Nat /\ worth[x] \in Nat /\ born[x] \in Nat
        /\ bears[y] \in Nat /\ worth[y] \in Nat /\ born[y] \in Nat
    BY <1>2, <2>1
  <2> QED BY <1>3, <1>7, <2>1, <2>2
<1>8. ASSUME NEW x \in S, NEW y \in S, NEW z \in S, <<x, y>> \in R, <<y, z>> \in R
      PROVE  <<x, z>> \in R
  <2>1. /\ x \in 1..n /\ x \in Nat /\ y \in 1..n /\ y \in Nat /\ z \in 1..n /\ z \in Nat
    BY <1>4, <1>5
  <2>2. /\ bears[x] \in Nat /\ worth[x] \in Nat /\ born[x] \in Nat
        /\ bears[y] \in Nat /\ worth[y] \in Nat /\ born[y] \in Nat
        /\ bears[z] \in Nat /\ worth[z] \in Nat /\ born[z] \in Nat
    BY <1>2, <2>1
  <2> DEFINE under(i, j) == \/ worth[i] < worth[j]
                            \/ worth[i] = worth[j] /\ born[i] < born[j]
             row(i, j) == \/ bears[i] > bears[j]
                          \/ bears[i] = bears[j] /\ (under(j, i) \/ (~under(i, j) /\ i < j))
  <2>3. row(x, y) /\ row(y, z)
    BY <1>3, <1>8, <2>1
  <2>4. row(x, z)
    <3> DEFINE a1 == bears[x]
               a2 == bears[y]
               a3 == bears[z]
               b1 == worth[x]
               b2 == worth[y]
               b3 == worth[z]
               c1 == born[x]
               c2 == born[y]
               c3 == born[z]
    <3>1. {a1, a2, a3, b1, b2, b3, c1, c2, c3, x, y, z} \subseteq Nat
      BY <2>1, <2>2
    <3> HIDE DEF a1, a2, a3, b1, b2, b3, c1, c2, c3
    <3>2. a1 >= a2 /\ a2 >= a3
      BY <2>3, <3>1 DEF a1, a2, a3
    <3>3. CASE a1 > a2 \/ a2 > a3
      <4>1. a1 > a3
        BY <3>1, <3>2, <3>3
      <4> QED BY <4>1 DEF a1, a3
    <3>4. CASE a1 = a2 /\ a2 = a3
      <4>1. /\ b2 < b1 \/ (b2 = b1 /\ (c2 < c1 \/ (c1 = c2 /\ x < y)))
            /\ b3 < b2 \/ (b3 = b2 /\ (c3 < c2 \/ (c2 = c3 /\ y < z)))
        BY <2>3, <3>1, <3>4 DEF a1, a2, a3, b1, b2, b3, c1, c2, c3
      <4>2. b3 < b1 \/ (b3 = b1 /\ (c3 < c1 \/ (c1 = c3 /\ x < z)))
        BY <3>1, <4>1
      <4>3. \/ b3 < b1 \/ (b3 = b1 /\ c3 < c1)
            \/ ~(b1 < b3 \/ (b1 = b3 /\ c1 < c3)) /\ x < z
        BY <3>1, <4>2
      <4> QED BY <3>4, <4>3 DEF a1, a3, b1, b3, c1, c3
    <3> QED BY <3>1, <3>2, <3>3, <3>4
  <2> QED BY <1>3, <2>1, <2>4
<1>9. Orders(R, S)
  BY <1>6, <1>7, <1>8 DEF Orders
<1> QED BY <1>1, <1>9 DEF R

\* What a read passes over is outranked by all it returns, which is as many as it may.
LEMMA BestFacts ==
  ASSUME NEW seq \in Seq(MemoryItem), NEW asked \in SUBSET Vocabulary, NEW S \in SUBSET (1..Len(seq)),
         NEW i \in S, i \notin Best(seq, S, asked)
  PROVE  LET best == Best(seq, S, asked)
         IN  /\ Cardinality(best) = Limit
             /\ \A j \in best : j \in S /\ <<j, i>> \in Ahead(seq, asked)
<1> DEFINE R == Ahead(seq, asked)
           best == Best(seq, S, asked)
           first == {x \in S : RankIn(x, R, S) <= Limit}
<1>1. IsFiniteSet(S) /\ Orders(R, S) /\ Limit \in Nat
  BY ReadsInOrder, MemoryAssumption
<1>2. best = first
  BY DEF Best
<1> HIDE DEF R
<1>3. /\ Cardinality(first) = IF Limit <= Cardinality(S) THEN Limit ELSE Cardinality(S)
      /\ \A x \in first, y \in S \ first : <<x, y>> \in R
  BY <1>1, FirstOfRow
<1>4. first \in SUBSET S
  OBVIOUS
<1> HIDE DEF first, best
<1>5. i \in S \ first
  BY <1>2 DEF best
<1>6. Cardinality(first) # Cardinality(S)
  BY <1>1, <1>4, <1>5, FS_Subset
<1>7. Cardinality(best) = Limit /\ \A j \in best : j \in S /\ <<j, i>> \in R
  BY <1>2, <1>3, <1>4, <1>5, <1>6
<1> QED BY <1>7 DEF best, R

\* A turn of the window that the read passes over.
LEMMA WindowIsRead ==
  ASSUME NEW c \in Seq(TurnItem), namespace = "SESSION", NEW asked \in SUBSET Vocabulary,
         NEW i \in 1..Len(c), i > Len(c) - Window, i \notin Recalled(c, asked)
  PROVE  PassedOver(i, c, Recalled(c, asked), asked)
<1> DEFINE S == Latest(c)
           recalled == Recalled(c, asked)
<1>0. Len(c) \in Nat /\ DOMAIN c = 1..Len(c) /\ Window \in Nat
  BY LenProperties, MemoryAssumption
<1>1. c \in Seq(MemoryItem) /\ \A k \in 1..Len(c) : c[k] \in MemoryItem /\ c[k].salience = 1
  <2>1. \A k \in 1..Len(c) : c[k] \in TurnItem
    BY ElementOfSeq
  <2>2. \A k \in 1..Len(c) : c[k] \in MemoryItem /\ c[k].salience = 1
    BY <2>1 DEF TurnItem
  <2>3. c \in [1..Len(c) -> MemoryItem]
    BY <1>0, <2>2
  <2> QED BY <1>0, <2>2, <2>3
<1>2. S \in SUBSET (1..Len(c)) /\ i \in S
  BY <1>0 DEF Latest
<1>3. recalled = Best(c, S, asked)
  BY DEF Recalled
<1> HIDE DEF S, recalled
<1>4. i \notin Best(c, S, asked)
  BY <1>3 DEF recalled
<1>5. /\ Cardinality(recalled) = Limit
      /\ \A j \in recalled : j \in S /\ <<j, i>> \in Ahead(c, asked)
  BY <1>1, <1>2, <1>3, <1>4, BestFacts
<1>6. ASSUME NEW j \in recalled
      PROVE  \/ Shared(c[j], asked) > Shared(c[i], asked)
             \/ /\ Shared(c[j], asked) = Shared(c[i], asked)
                /\ c[j].created >= c[i].created
  <2>1. j \in 1..Len(c) /\ <<j, i>> \in Ahead(c, asked)
    BY <1>2, <1>5
  <2>2. /\ Decayed(c[j]) = 1 /\ Decayed(c[i]) = 1
        /\ c[j].created \in Nat /\ c[i].created \in Nat
    BY <1>1, <2>1, WorthIsANumber DEF Decayed
  <2>3. \/ Shared(c[j], asked) > Shared(c[i], asked)
        \/ /\ Shared(c[j], asked) = Shared(c[i], asked)
           /\ WorthLess(c[i], c[j]) \/ ~WorthLess(c[j], c[i])
    BY <2>1 DEF Ahead
  <2> QED BY <2>2, <2>3 DEF WorthLess
<1> QED BY <1>5, <1>6 DEF PassedOver, recalled

\* A turn before the window is not read, and is in the prose while there is room.
LEMMA ProseHasTheRest ==
  ASSUME NEW c \in Seq(MemoryItem), NEW asked, NEW i \in 1..Len(c), ~(i > Len(c) - Window)
  PROVE  /\ i \notin Recalled(c, asked)
         /\ Len(c) > Window
         /\ LET prose == Summary(c).prose IN c[i].id \in ToSet(prose) \/ Len(prose) = MaxProse
<1> DEFINE n == Len(c)
           m == n - Window
           older == Older(c)
           k == Min({MaxProse, Len(older)})
           cut == SubSeq(older, 1, k)
           prose == Summary(c).prose
<1>0. /\ n \in Nat /\ Window \in Nat /\ MaxProse \in Nat /\ Window > 0
      /\ n > Window /\ m \in 0..Len(c) /\ m \in Nat /\ i <= m /\ i \in Nat /\ i >= 1
  BY LenProperties, MemoryAssumption
<1>1. i \notin Recalled(c, asked)
  BY <1>0 DEF Recalled, Best, Latest
<1>2. older = SubSeq(c, 1, m)
  BY <1>0 DEF Older
<1> HIDE DEF m, n
<1>3. /\ older \in Seq(MemoryItem) /\ Len(older) = m
      /\ \A j \in 1..m : older[j] = c[j]
  <2>1. /\ SubSeq(c, 1, m) \in Seq(MemoryItem) /\ Len(SubSeq(c, 1, m)) = m
        /\ \A j \in 1..m : SubSeq(c, 1, m)[j] = c[j]
    BY <1>0, FirstOnes
  <2> HIDE DEF older
  <2> QED BY <1>2, <2>1
<1>4. prose = Ids(cut)
  BY DEF Summary
<1> HIDE DEF older, prose
<1>5. k = IF MaxProse <= m THEN MaxProse ELSE m
  BY <1>0, <1>3, MinOfTwo
<1> HIDE DEF k
<1>6. k \in 0..Len(older) /\ k \in Nat /\ k <= m
  BY <1>0, <1>3, <1>5
<1>7. cut \in Seq(MemoryItem) /\ Len(cut) = k /\ \A j \in 1..k : cut[j] = older[j]
  BY <1>3, <1>6, FirstOnes
<1> HIDE DEF cut
<1>8. ToSet(prose) = {cut[j].id : j \in 1..k} /\ Len(prose) = k
  <2>1. ToSet(Ids(cut)) = {cut[j].id : j \in 1..Len(cut)} /\ Len(Ids(cut)) = Len(cut)
    BY <1>7, IdsOfAll
  <2> QED BY <1>4, <1>7, <2>1
<1>9. CASE MaxProse <= m
  BY <1>0, <1>1, <1>5, <1>8, <1>9 DEF prose, n
<1>10. CASE ~(MaxProse <= m)
  <2>1. k = m /\ i \in 1..k /\ i \in 1..m
    BY <1>0, <1>5, <1>10
  <2>2. cut[i] = c[i]
    BY <1>3, <1>7, <2>1
  <2>3. c[i].id \in ToSet(prose)
    BY <1>8, <2>1, <2>2
  <2> QED BY <1>0, <1>1, <2>3 DEF prose, n
<1> QED BY <1>9, <1>10

\* Every turn is worth as much as any other.
LEMMA TurnStays ==
  ASSUME MemoryTypes, TurnsInv, namespace = "SESSION",
         NEW s \in Sessions, NEW text \in Texts, NEW answered \in BOOLEAN
  PROVE  Live \in Seq(TurnItem) /\ Live \o Turn(s, text, answered) \in Seq(TurnItem)
<1> DEFINE question == Item(written + 1, text, "USER_ASSERTED", 1, s)
           answer == Item(written + 2, text, "MODEL_GENERATED", 1, s)
           turn == Turn(s, text, answered)
<1>1. question \in TurnItem
  BY ItemIsAnItem DEF MemoryTypes, Item, TurnItem
<1>2. answer \in TurnItem
  BY ItemIsAnItem DEF MemoryTypes, Item, TurnItem
<1>3. turn = IF answered THEN <<question, answer>> ELSE <<question>>
  BY DEF Turn
<1> HIDE DEF question, answer, turn
<1>4. turn \in Seq(TurnItem)
  BY <1>1, <1>2, <1>3
<1>5. Live \in Seq(TurnItem)
  <2> DEFINE K == {i \in DOMAIN items : items[i].created >= now - Ttl}
  <2>1. Live = Picked(items, K)
    BY DEF Live
  <2>2. items \in Seq(TurnItem)
    BY DEF TurnsInv
  <2> HIDE DEF K
  <2> QED BY <2>1, <2>2, PickedLocates
<1> DEFINE live == Live
<1> HIDE DEF live
<1>6. live \o turn \in Seq(TurnItem)
  BY <1>4, <1>5, ConcatElements DEF live
<1> QED BY <1>5, <1>6 DEF live, turn

LEMMA TurnsStep == MemoryTypes /\ TurnsInv /\ [MemoryNext]_memoryVars => TurnsInv'
<1> SUFFICES ASSUME MemoryTypes, TurnsInv, [MemoryNext]_memoryVars, namespace' = "SESSION"
             PROVE  items' \in Seq(TurnItem)
  BY DEF TurnsInv
<1>0. namespace = "SESSION" /\ items \in Seq(TurnItem)
  BY DEF TurnsInv, MemoryNext, memoryVars, RememberTurn, Remember, Recall, Forget, Tick
<1>1. ASSUME NEW s \in Sessions, NEW text \in Texts, NEW answered \in BOOLEAN,
             RememberTurn(s, text, answered)
      PROVE  items' \in Seq(TurnItem)
  <2>1. items' = Live \o Turn(s, text, answered)
    BY <1>1, RememberTurnIs
  <2> QED BY <1>0, <2>1, TurnStays
<1>2. ASSUME NEW selector \in Selectors, Forget(selector)
      PROVE  items' \in Seq(TurnItem)
  <2> DEFINE K == {i \in DOMAIN items : ~Matches(items[i], selector)}
  <2>1. items' = Picked(items, K)
    BY <1>2 DEF Forget
  <2> HIDE DEF K
  <2> QED BY <1>0, <2>1, PickedLocates
<1>3. ASSUME NEW asked \in SUBSET Vocabulary, Recall(asked)
      PROVE  items' \in Seq(TurnItem)
  <2> DEFINE K == {i \in DOMAIN items : items[i].created >= now - Ttl}
  <2>1. items' = Picked(items, K)
    BY <1>0, <1>3 DEF Recall, Live
  <2> HIDE DEF K
  <2> QED BY <1>0, <2>1, PickedLocates
<1>4. ASSUME NEW text \in Texts, NEW salience \in Saliences, Remember(text, salience)
      PROVE  items' \in Seq(TurnItem)
  BY <1>0, <1>4 DEF Remember
<1>5. CASE Tick
  BY <1>0, <1>5 DEF Tick
<1>6. CASE UNCHANGED memoryVars
  BY <1>0, <1>6 DEF memoryVars
<1> QED BY <1>1, <1>2, <1>3, <1>4, <1>5, <1>6 DEF MemoryNext

\* Whatever is asked next: no turn falls between the window and the summary.
NoneFalls(turns, prose) ==
  \A asked \in SUBSET Vocabulary :
    LET recalled == Recalled(turns, asked)
    IN  \A i \in DOMAIN turns :
          IF i > Len(turns) - Window
          THEN i \in recalled \/ PassedOver(i, turns, recalled, asked)
          ELSE /\ i \notin recalled
               /\ turns[i].id \in ToSet(prose) \/ Len(prose) = MaxProse

LEMMA TurnsStay ==
  ASSUME MemoryTypes, TurnsInv, [MemoryNext]_memoryVars, namespace = "SESSION", written' # written
  PROVE  LET s == Last(items').session
         IN  NoneFalls(OfSession(items', s), summaries'[s].prose)
<1>1. PICK s \in Sessions, text \in Texts, answered \in BOOLEAN : RememberTurn(s, text, answered)
  <2>1. ASSUME NEW text \in Texts, NEW salience \in Saliences, Remember(text, salience) PROVE FALSE
    BY <2>1 DEF Remember
  <2>2. ASSUME NEW asked \in SUBSET Vocabulary, Recall(asked) PROVE FALSE
    BY <2>2 DEF Recall
  <2>3. ASSUME NEW selector \in Selectors, Forget(selector) PROVE FALSE
    BY <2>3 DEF Forget
  <2>4. CASE Tick
    BY <2>4 DEF Tick
  <2>5. CASE UNCHANGED memoryVars
    BY <2>5 DEF memoryVars
  <2> QED BY <2>1, <2>2, <2>3, <2>4, <2>5 DEF MemoryNext
<1> DEFINE after == Live \o Turn(s, text, answered)
           c == OfSession(after, s)
           summary == Summary(c)
           rolled == [summaries EXCEPT ![s] = summary]
           prose == summaries'[s].prose
<1>2. /\ items' = after
      /\ summaries' = IF Len(c) > SummarizeAfter THEN rolled ELSE summaries
  BY <1>1, RememberTurnIs
<1>3. after \in Seq(MemoryItem) /\ Last(after).session = s /\ after \in Seq(TurnItem)
  BY TurnIsAList, TurnStays
<1>4. c \in Seq(MemoryItem) /\ c \in Seq(TurnItem)
  <2> DEFINE K == {i \in DOMAIN after : after[i].session = s}
  <2>1. c = Picked(after, K)
    BY DEF OfSession
  <2> HIDE DEF K, after
  <2>2. Picked(after, K) \in Seq(MemoryItem) /\ Picked(after, K) \in Seq(TurnItem)
    BY <1>3, PickedLocates
  <2> HIDE DEF c
  <2> QED BY <2>1, <2>2
<1>5. Last(items').session = s /\ OfSession(items', s) = c
  BY <1>2, <1>3
<1>6. rolled[s] = summary
  <2>1. s \in DOMAIN summaries
    BY DEF MemoryTypes
  <2> HIDE DEF summary
  <2> QED BY <2>1
<1> HIDE DEF rolled, after, c
<1>7. SummarizeAfter = Window /\ Window \in Nat /\ Len(c) \in Nat /\ DOMAIN c = 1..Len(c)
  BY <1>4, LenProperties, MemoryAssumption
<1>8. Len(c) > Window => prose = summary.prose
  BY <1>2, <1>6, <1>7
<1> HIDE DEF prose
<1>9. ASSUME NEW asked \in SUBSET Vocabulary, NEW i \in 1..Len(c)
      PROVE  IF i > Len(c) - Window
             THEN i \in Recalled(c, asked) \/ PassedOver(i, c, Recalled(c, asked), asked)
             ELSE /\ i \notin Recalled(c, asked)
                  /\ c[i].id \in ToSet(prose) \/ Len(prose) = MaxProse
  <2>1. CASE i > Len(c) - Window
    BY <1>4, <2>1, WindowIsRead
  <2>2. CASE ~(i > Len(c) - Window)
    <3>1. /\ i \notin Recalled(c, asked) /\ Len(c) > Window
          /\ c[i].id \in ToSet(summary.prose) \/ Len(summary.prose) = MaxProse
      BY <1>4, <2>2, ProseHasTheRest
    <3> HIDE DEF summary
    <3> QED BY <1>8, <2>2, <3>1
  <2> QED BY <2>1, <2>2
<1>10. NoneFalls(c, prose)
  BY <1>7, <1>9 DEF NoneFalls
<1> QED BY <1>5, <1>10 DEF prose

\* What makes room for a fact is worth no more than anything that stays.
LEMMA ValuableStay ==
  ASSUME MemoryTypes, FactsInv, [MemoryNext]_memoryVars, namespace = "LONG_TERM"
  PROVE  \A k \in DOMAIN items, j \in DOMAIN items' :
            (written' # written /\ items[k].id \notin ToSet(Ids(items'))) =>
              /\ items[k].accessed < now
                 \/ items[k].salience <= items'[j].salience
              /\ Decayed(items[k]) <= Decayed(items'[j])
<1> SUFFICES ASSUME NEW k \in DOMAIN items, NEW j \in DOMAIN items', written' # written,
                    items[k].id \notin ToSet(Ids(items'))
             PROVE  /\ items[k].accessed < now
                       \/ items[k].salience <= items'[j].salience
                    /\ Decayed(items[k]) <= Decayed(items'[j])
  OBVIOUS
<1>0. items \in Seq(MemoryItem) /\ written \in Nat /\ now \in 0..MaxTime /\ Past(items, now)
  BY DEF MemoryTypes, FactsInv
<1>1. PICK text \in Texts, salience \in Saliences : Remember(text, salience)
  <2>1. ASSUME NEW s \in Sessions, NEW text \in Texts, NEW answered \in BOOLEAN,
               RememberTurn(s, text, answered)
        PROVE  FALSE
    BY <2>1 DEF RememberTurn
  <2>2. ASSUME NEW asked \in SUBSET Vocabulary, Recall(asked) PROVE FALSE
    BY <2>2 DEF Recall
  <2>3. ASSUME NEW selector \in Selectors, Forget(selector) PROVE FALSE
    BY <2>3 DEF Forget
  <2>4. CASE Tick
    BY <2>4 DEF Tick
  <2>5. CASE UNCHANGED memoryVars
    BY <2>5 DEF memoryVars
  <2> QED BY <2>1, <2>2, <2>3, <2>4, <2>5 DEF MemoryNext
<1>2. items' \in Seq(MemoryItem)
  BY MemoryStep DEF MemoryTypes
<1> DEFINE kept == items'
           n == Len(items)
<1>3. /\ kept \in Seq(MemoryItem) /\ DOMAIN kept = 1..Len(kept) /\ n \in Nat /\ DOMAIN items = 1..n
      /\ \A i \in 1..Len(kept) : items[k].id # kept[i].id
  <2>1. ToSet(Ids(kept)) = {kept[i].id : i \in 1..Len(kept)}
    BY <1>2, IdsOfAll
  <2> QED BY <1>0, <1>2, <2>1, LenProperties
<1> HIDE DEF n
<1>4. ~ \E i \in DOMAIN items : items[i].text = text
  <2> SUFFICES ASSUME \E i \in DOMAIN items : items[i].text = text PROVE FALSE
    OBVIOUS
  <2>1. kept = Restated(text, salience)
    BY <1>1 DEF Remember
  <2>2. k \in DOMAIN kept /\ kept[k].id = items[k].id
    <3> DEFINE y == items[k]
               m == Max({y.salience, salience})
    <3>1. y \in MemoryItem
      BY <1>0, <1>3, ElementOfSeq DEF n
    <3>2. /\ k \in DOMAIN kept
          /\ kept[k] = IF y.text = text THEN [y EXCEPT !.salience = m, !.accessed = now] ELSE y
      BY <2>1 DEF Restated
    <3> HIDE DEF m, y, kept
    <3>3. kept[k].id = y.id
      BY <3>1, <3>2 DEF MemoryItem
    <3> QED BY <3>2, <3>3 DEF y
  <2> HIDE DEF kept
  <2> QED BY <1>3, <2>2
<1> DEFINE x == Item(written + 1, text, "USER_ASSERTED", salience, "none")
           more == Append(items, x)
<1>5. kept = Evicted(more)
  BY <1>1, <1>4 DEF Remember
<1> HIDE DEF kept
<1>6. x \in MemoryItem /\ x.created = now /\ x.accessed = 0
  <2>1. salience \in Nat /\ written + 1 \in Nat
    BY <1>0, MemoryAssumption
  <2> QED BY <1>0, <2>1, ItemIsAnItem DEF Item
<1> HIDE DEF x
<1>7. /\ more \in Seq(MemoryItem) /\ Len(more) = n + 1
      /\ \A i \in 1..n : more[i] = items[i]
      /\ more[n + 1] = x
  BY <1>0, <1>6, AppendProperties DEF n
<1>8. Past(more, now)
  <2>1. \A i \in 1..(n + 1) : i = n + 1 \/ i \in 1..n
    BY <1>3
  <2>2. 0 <= now /\ now <= now
    BY <1>0, MemoryAssumption
  <2> HIDE DEF more
  <2> QED BY <1>0, <1>6, <1>7, <2>1, <2>2 DEF Past, n
<1> HIDE DEF more
<1>9. Len(more) > MaxItems
  <2> SUFFICES ASSUME ~(Len(more) > MaxItems) PROVE FALSE
    OBVIOUS
  <2>1. kept = more
    BY <1>5 DEF Evicted
  <2>2. k \in 1..Len(kept) /\ kept[k] = items[k]
    BY <1>3, <1>7, <2>1
  <2> QED BY <1>3, <2>2
<1>10. PICK m \in 1..Len(more) : /\ kept = RemoveAt(more, m)
                                 /\ \A i \in 1..Len(more) : ~WorthLess(more[i], more[m])
  BY <1>5, <1>7, <1>9, EvictedDrops
<1>11. /\ Len(kept) = n
       /\ \A i \in 1..n : kept[i] = IF i < m THEN more[i] ELSE more[i + 1]
  <2>1. /\ Len(kept) = Len(more) - 1
        /\ \A i \in 1..(Len(more) - 1) : kept[i] = IF i < m THEN more[i] ELSE more[i + 1]
    BY <1>7, <1>10, RemovedAt
  <2> QED BY <1>3, <1>7, <2>1
<1>12. k = m
  <2> SUFFICES ASSUME k # m PROVE FALSE
    OBVIOUS
  <2>1. k \in 1..n /\ k \in Nat /\ m \in Nat /\ m \in 1..(n + 1)
    BY <1>3, <1>7
  <2> DEFINE i == IF k < m THEN k ELSE k - 1
  <2>2. i \in 1..n /\ kept[i] = more[k]
    BY <1>3, <1>11, <2>1
  <2> HIDE DEF i
  <2>3. kept[i].id = items[k].id
    BY <1>7, <2>1, <2>2
  <2> QED BY <1>3, <1>11, <2>2, <2>3
<1>13. PICK i \in 1..(n + 1) : kept[j] = more[i]
  <2>1. j \in 1..n
    BY <1>3, <1>11 DEF kept
  <2>2. j \in 1..(n + 1) /\ j + 1 \in 1..(n + 1)
    BY <1>3, <2>1
  <2> QED BY <1>11, <2>1, <2>2
<1> DEFINE a == items[k]
           b == kept[j]
<1>14. /\ a \in MemoryItem /\ b \in MemoryItem /\ ~WorthLess(b, a)
       /\ a.accessed <= now /\ a.created <= now /\ b.accessed <= now /\ b.created <= now
  <2>1. more[m] = a /\ m \in 1..Len(more) /\ i \in 1..Len(more) /\ b = more[i]
    BY <1>3, <1>7, <1>12, <1>13
  <2>2. more[m] \in MemoryItem /\ more[i] \in MemoryItem
    BY <1>7, <2>1, ElementOfSeq
  <2> HIDE DEF a, b
  <2> QED BY <1>8, <1>10, <2>1, <2>2 DEF Past
<1> HIDE DEF a, b
<1>15. Decayed(a) <= Decayed(b)
  <2>1. Decayed(a) \in Nat /\ Decayed(b) \in Nat
    BY <1>14, WorthIsANumber
  <2> QED BY <1>14, <2>1 DEF WorthLess
<1>16. ASSUME ~(a.accessed < now) PROVE a.salience <= b.salience
  <2> DEFINE d == Doubled[now]
             t == Max({b.created, b.accessed})
             e == Doubled[t]
  <2>1. a.accessed \in Nat /\ a.created \in Nat /\ b.accessed \in Nat /\ b.created \in Nat
        /\ a.salience \in Nat /\ b.salience \in Nat /\ now \in Nat
    BY <1>0, <1>14, MemoryAssumption DEF MemoryItem
  <2>2. Max({a.created, a.accessed}) = now
    <3>1. a.accessed = now
      BY <1>14, <1>16, <2>1
    <3>2. Max({a.created, a.accessed}) = IF a.created <= a.accessed THEN a.accessed ELSE a.created
      BY <1>14, WorthIsANumber
    <3> QED BY <1>14, <3>1, <3>2
  <2>3. t \in 0..MaxTime /\ t <= now
    <3>1. t = IF b.created <= b.accessed THEN b.accessed ELSE b.created
      BY <1>14, WorthIsANumber
    <3>2. t \in 0..MaxTime
      BY <1>14, WorthIsANumber
    <3> HIDE DEF t
    <3> QED BY <1>14, <3>1, <3>2
  <2>4. Decayed(a) = a.salience * d /\ Decayed(b) = b.salience * e
    BY <2>2 DEF Decayed
  <2> HIDE DEF t
  <2>5. d \in Nat /\ e \in Nat /\ d >= 1 /\ e <= d
    BY <1>0, <2>3, DoubledFacts
  <2> HIDE DEF d, e
  <2>6. a.salience * d <= b.salience * e
    BY <1>15, <2>4
  <2> DEFINE p == a.salience
             q == b.salience
  <2>7. p \in Nat /\ q \in Nat /\ p * d <= q * e
    BY <2>1, <2>6
  <2> HIDE DEF p, q
  <2>8. p <= q
    BY <2>5, <2>7, ProductsGrow
  <2> QED BY <2>8 DEF p, q
<1>17. a.accessed < now \/ a.salience <= b.salience
  BY <1>16
<1> QED BY <1>15, <1>17 DEF a, b, kept


LEMMA MemoryStarts == MemoryInit => MemoryTypes /\ FactsInv
<1> SUFFICES ASSUME MemoryInit PROVE MemoryTypes /\ FactsInv
  OBVIOUS
<1>1. /\ namespace \in {"SESSION", "LONG_TERM"} /\ items = << >> /\ now = 0 /\ written = 0
      /\ DOMAIN summaries = Sessions
  BY DEF MemoryInit
<1>2. << >> \in Seq(MemoryItem) /\ Len(<< >>) = 0
  BY EmptySeq
<1>3. 0 \in 0..MaxTime /\ 0 <= MaxItems
  BY MemoryAssumption
<1>4. Past(<< >>, 0) /\ NoTextTwice(<< >>)
  BY DEF Past, NoTextTwice
<1> QED BY <1>1, <1>2, <1>3, <1>4 DEF MemoryTypes, FactsInv

-----------------------------------------------------------------------------

\* For any conversations, questions, expiry, window, read limit and room for prose: after
\* each turn, no turn that has not expired falls between what the next read looks at and
\* what the rolling summary keeps, and the read passes over a turn of its window only for
\* as many as it may return that bear on the question no less (Platform._remember_turn,
\* PrincipalMemoryStore.read and summarize).
THEOREM TurnsReachTheNext == MemorySpec => TurnsAreRecalled
<1>1. MemoryInit => MemoryTypes /\ FactsInv /\ TurnsInv
  <2> SUFFICES ASSUME MemoryInit PROVE TurnsInv
    BY MemoryStarts
  <2>1. items = << >>
    BY DEF MemoryInit
  <2> QED BY <2>1, EmptySeq DEF TurnsInv
<1>2. MemoryTypes /\ FactsInv /\ TurnsInv /\ [MemoryNext]_memoryVars =>
        MemoryTypes' /\ FactsInv' /\ TurnsInv'
  BY MemoryStep, TurnsStep
<1>3. MemoryTypes /\ TurnsInv /\ [MemoryNext]_memoryVars =>
        [namespace = "SESSION" /\ written' # written =>
           LET s == Last(items').session
               turns == OfSession(items', s)
               prose == summaries'[s].prose
           IN  \A asked \in SUBSET Vocabulary :
                 LET recalled == Recalled(turns, asked)
                 IN  \A i \in DOMAIN turns :
                       IF i > Len(turns) - Window
                       THEN i \in recalled \/ PassedOver(i, turns, recalled, asked)
                       ELSE /\ i \notin recalled
                            /\ turns[i].id \in ToSet(prose) \/ Len(prose) = MaxProse]_memoryVars
  BY TurnsStay DEF NoneFalls
<1> QED BY <1>1, <1>2, <1>3, PTL DEF MemorySpec, TurnsAreRecalled

\* For any number of facts, saliences, reads, erasures and any capacity: a long-term
\* store is never over its limit, never holds a fact twice, and gives up to a new fact
\* one that is worth no more than any it keeps, be it just read or restated
\* (PrincipalMemoryStore.write and _decayed).
THEOREM TheLeastValuedGoes == MemorySpec => ValuableFactsStay
<1>1. MemoryInit => MemoryTypes /\ FactsInv
  BY MemoryStarts
<1>2. MemoryTypes /\ FactsInv /\ [MemoryNext]_memoryVars => MemoryTypes' /\ FactsInv'
  BY MemoryStep
<1>3. MemoryTypes /\ FactsInv /\ [MemoryNext]_memoryVars =>
        [namespace = "LONG_TERM" =>
           /\ Len(items') <= MaxItems
           /\ \A i, j \in DOMAIN items' : items'[i].text = items'[j].text => i = j
           /\ \A k \in DOMAIN items, j \in DOMAIN items' :
                (written' # written /\ items[k].id \notin ToSet(Ids(items'))) =>
                  /\ items[k].accessed < now
                     \/ items[k].salience <= items'[j].salience
                  /\ Decayed(items[k]) <= Decayed(items'[j])]_memoryVars
  <2> SUFFICES ASSUME MemoryTypes, FactsInv, [MemoryNext]_memoryVars, namespace = "LONG_TERM"
               PROVE  /\ Len(items') <= MaxItems
                      /\ \A i, j \in DOMAIN items' : items'[i].text = items'[j].text => i = j
                      /\ \A k \in DOMAIN items, j \in DOMAIN items' :
                           (written' # written /\ items[k].id \notin ToSet(Ids(items'))) =>
                             /\ items[k].accessed < now
                                \/ items[k].salience <= items'[j].salience
                             /\ Decayed(items[k]) <= Decayed(items'[j])
    OBVIOUS
  <2>1. MemoryTypes' /\ FactsInv'
    BY <1>2
  <2>2. namespace' = "LONG_TERM"
    BY DEF MemoryNext, memoryVars, RememberTurn, Remember, Recall, Forget, Tick
  <2>3. items' \in Seq(MemoryItem) /\ Len(items') <= MaxItems /\ NoTextTwice(items')
    BY <2>1, <2>2 DEF MemoryTypes, FactsInv
  <2>4. DOMAIN items' = 1..Len(items')
    BY <2>3, LenProperties
  <2>5. \A i, j \in DOMAIN items' : items'[i].text = items'[j].text => i = j
    BY <2>3, <2>4 DEF NoTextTwice
  <2> QED BY <2>3, <2>5, ValuableStay
<1> QED BY <1>1, <1>2, <1>3, PTL DEF MemorySpec, ValuableFactsStay

-----------------------------------------------------------------------------
(* Chunking.                                                               *)

Word == [line : Nat, word : Nat]

\* A set of texts, with the empty one and their concatenations.
Closed(W) == W \subseteq Seq(Word) /\ << >> \in W /\ \A v, w \in W : v \o w \in W

LEMMA SeqWithin ==
  ASSUME NEW S, NEW W, W \subseteq S, NEW s \in Seq(W)
  PROVE  s \in Seq(S)
<1>1. Len(s) \in Nat /\ s \in [1..Len(s) -> W]
  BY LenProperties, ElementOfSeq
<1>2. s \in [1..Len(s) -> S]
  BY <1>1
<1> QED BY <1>1, <1>2

LEMMA WordsClosed == Closed(Seq(Word))
<1>1. \A v, w \in Seq(Word) : v \o w \in Seq(Word)
  BY ConcatProperties
<1> QED BY <1>1 DEF Closed

\* The end of the last part, extended.
LEMMA ExtendedIs ==
  ASSUME NEW S, NEW parts \in Seq(Seq(S)), parts # << >>, NEW x \in S
  PROVE  /\ Extended(parts, x) \in Seq(Seq(S)) /\ Extended(parts, x) # << >>
         /\ FlattenSeq(Extended(parts, x)) = Append(FlattenSeq(parts), x)
<1> DEFINE n == Len(parts)
           z == <<x>>
           old == parts[n]
           y == old \o z
           new == Extended(parts, x)
<1>1. n \in Nat /\ n # 0
  BY LenProperties, EmptySeq
<1>2. old \in Seq(S)
  BY <1>1, ElementOfSeq
<1>3. z \in Seq(S) /\ Append(old, x) = y /\ y \in Seq(S)
  <2>1. z \in Seq(S)
    OBVIOUS
  <2> HIDE DEF old, z
  <2>2. Append(old, x) = old \o <<x>>
    BY <1>2, AppendIsConcat
  <2> QED BY <1>2, <2>1, <2>2, ConcatProperties DEF z
<1>4. new = Replaced(parts, y)
  <2>1. new = [parts EXCEPT ![n] = Append(old, x)]
    BY DEF Extended
  <2> HIDE DEF new, y, old, z
  <2> QED BY <1>3, <2>1 DEF Replaced
<1>5. FlattenSeq(parts) \in Seq(S)
  <2>1. << >> \in Seq(S)
    OBVIOUS
  <2> QED BY <2>1, FlattenAppend
<1>6. Prolongs(y, parts, z) /\ y \in Seq(S) /\ z \in Seq(S)
  BY <1>3 DEF Prolongs
<1> HIDE DEF new, y, n, old
<1>7. new \in Seq(Seq(S)) /\ new # << >> /\ FlattenSeq(new) = FlattenSeq(parts) \o z
  <2> HIDE DEF z
  <2>1. FlattenSeq(Replaced(parts, y)) = FlattenSeq(parts) \o z
    BY <1>6, LastExtended
  <2>2. Replaced(parts, y) \in Seq(Seq(S)) /\ Replaced(parts, y) # << >>
    BY <1>6, ReplacedIs
  <2> QED BY <1>4, <2>1, <2>2
<1> DEFINE a == FlattenSeq(parts)
<1>8. a \o z = Append(a, x)
  <2> HIDE DEF a
  <2>1. Append(a, x) = a \o <<x>>
    BY <1>5, AppendIsConcat DEF a
  <2> QED BY <2>1 DEF z
<1> QED BY <1>7, <1>8 DEF new

\* A part of its own.
LEMMA SingletonAdded ==
  ASSUME NEW S, NEW parts \in Seq(Seq(S)), NEW x \in S
  PROVE  /\ Append(parts, <<x>>) \in Seq(Seq(S))
         /\ FlattenSeq(Append(parts, <<x>>)) = Append(FlattenSeq(parts), x)
<1> DEFINE z == <<x>>
           a == FlattenSeq(parts)
<1>1. z \in Seq(S)
  OBVIOUS
<1>2. a \o z = Append(a, x)
  <2>1. a \in Seq(S)
    BY <1>1, FlattenAppend
  <2> HIDE DEF a
  <2>2. Append(a, x) = a \o <<x>>
    BY <2>1, AppendIsConcat
  <2> QED BY <2>2
<1> HIDE DEF z
<1>3. Append(parts, z) \in Seq(Seq(S)) /\ FlattenSeq(Append(parts, z)) = FlattenSeq(parts) \o z
  BY <1>1, FlattenAppend, AppendProperties
<1> QED BY <1>2, <1>3 DEF z

\* The lines of a text are the text.
LEMMA TokenAdded ==
  /\ << >> \in Seq(Seq(Word))
  /\ \A lines \in Seq(Seq(Word)) : \A t \in Word :
       /\ AddToken(lines, t) \in Seq(Seq(Word))
       /\ FlattenSeq(AddToken(lines, t)) = Append(FlattenSeq(lines), t)
<1>1. ASSUME NEW lines \in Seq(Seq(Word)), NEW t \in Word
      PROVE  /\ AddToken(lines, t) \in Seq(Seq(Word))
             /\ FlattenSeq(AddToken(lines, t)) = Append(FlattenSeq(lines), t)
  <2>1. CASE lines # << >> /\ Last(Last(lines)).line = t.line
    <3>1. AddToken(lines, t) = Extended(lines, t)
      BY <2>1 DEF AddToken
    <3> QED BY <2>1, <3>1, ExtendedIs
  <2>2. CASE ~(lines # << >> /\ Last(Last(lines)).line = t.line)
    <3>1. AddToken(lines, t) = Append(lines, <<t>>)
      BY <2>2 DEF AddToken
    <3> QED BY <3>1, SingletonAdded
  <2> QED BY <2>1, <2>2
<1> QED BY <1>1

\* The run of Lines.
LinesRun(g, text) ==
  /\ g \in [0..Len(text) -> Seq(Seq(Word))] /\ g[0] = << >>
  /\ \A i \in 1..Len(text) : g[i] = AddToken(g[i - 1], text[i]) /\ g[i - 1] \in Seq(Seq(Word)) /\ text[i] \in Word
  /\ Lines(text) = g[Len(text)] /\ g[Len(text)] \in Seq(Seq(Word))

LEMMA LinesRuns ==
  ASSUME NEW text \in Seq(Word)
  PROVE  \E g : LinesRun(g, text)
<1> DEFINE n == Len(text)
           V == Seq(Seq(Word))
           first == << >>
           next == [i \in 1..n |-> [acc \in V |-> AddToken(acc, text[i])]]
           IsRun(g) == g = [i \in 0..n |-> IF i = 0 THEN first ELSE AddToken(g[i - 1], text[i])]
           F == CHOOSE g : IsRun(g)
<1>1. n \in Nat /\ \A i \in 1..n : text[i] \in Word
  BY LenProperties, ElementOfSeq
<1>2. \A i \in 1..n : \A acc \in V : AddToken(acc, text[i]) \in V
  <2> HIDE DEF n
  <2> QED BY <1>1, TokenAdded
<1>3. first \in V
  BY TokenAdded
<1>4. next \in [1..n -> [V -> V]] /\ \A i \in 1..n : \A acc \in V : next[i][acc] = AddToken(acc, text[i])
  <2> HIDE DEF n, V
  <2> QED BY <1>2
<1> HIDE DEF n, V, first, next
<1>5. PICK h : Walks(h, V, first, n, next)
  BY <1>1, <1>3, <1>4, StepsExist
<1>6. IsRun(h)
  <2>1. \A i \in 0..n : i = 0 \/ (i \in 1..n /\ i - 1 \in 0..n)
    BY <1>1
  <2>2. \A i \in 0..n : h[i] = IF i = 0 THEN first ELSE AddToken(h[i - 1], text[i])
    BY <1>4, <1>5, <2>1 DEF Walks
  <2>3. h \in [0..n -> V]
    BY <1>5 DEF Walks
  <2> QED BY <2>2, <2>3
<1>7. IsRun(F)
  <2> HIDE DEF IsRun
  <2> QED BY <1>6
<1>8. Lines(text) = F[n]
  BY DEF Lines, n, first
<1> HIDE DEF F
<1>9. F[0] = first /\ DOMAIN F = 0..n /\ F = [i \in 0..n |-> F[i]] /\ \A i \in 1..n : F[i] = AddToken(F[i - 1], text[i])
  <2>1. 0 \in 0..n /\ \A i \in 1..n : i \in 0..n /\ i # 0
    BY <1>1
  <2> QED BY <1>7, <2>1
<1> HIDE DEF IsRun
<1> DEFINE P == {m \in Nat : m <= n => F[m] \in V}
<1>10. 0 \in P
  BY <1>3, <1>9
<1>11. ASSUME NEW m \in Nat, m \in P PROVE m + 1 \in P
  <2> SUFFICES ASSUME m + 1 <= n PROVE F[m + 1] \in V
    OBVIOUS
  <2>1. m + 1 \in 1..n /\ (m + 1) - 1 = m /\ F[m] \in V
    BY <1>1, <1>11
  <2> HIDE DEF P
  <2>2. F[m + 1] = AddToken(F[(m + 1) - 1], text[m + 1])
    BY <1>9, <2>1
  <2> QED BY <1>2, <2>1, <2>2
<1> HIDE DEF P
<1>12. Nat \subseteq P
  BY <1>10, <1>11, Induction
<1>13. \A i \in 0..n : F[i] \in V
  <2>1. \A i \in 0..n : i \in Nat /\ i <= n
    BY <1>1
  <2> QED BY <1>12, <2>1 DEF P
<1>14. F \in [0..n -> V]
  BY <1>9, <1>13
<1>15. \A i \in 1..n : F[i - 1] \in V
  <2>1. \A i \in 1..n : i - 1 \in 0..n
    BY <1>1
  <2> QED BY <1>13, <2>1
<1>16. F[n] \in V
  BY <1>1, <1>13
<1> QED BY <1>1, <1>8, <1>9, <1>14, <1>15, <1>16 DEF LinesRun, n, V, first

LEMMA LinesAre ==
  ASSUME NEW text \in Seq(Word)
  PROVE  Lines(text) \in Seq(Seq(Word)) /\ FlattenSeq(Lines(text)) = text
<1>1. PICK g : LinesRun(g, text)
  BY LinesRuns
<1> DEFINE n == Len(text)
           f == [i \in 0..n |-> FlattenSeq(g[i])]
<1>2. n \in Nat
  BY LenProperties
<1>3. \A i \in 1..n : FlattenSeq(g[i]) = Append(FlattenSeq(g[i - 1]), text[i])
  BY <1>1, TokenAdded DEF LinesRun
<1>4. f[0] = << >>
  <2>1. 0 \in 0..n
    BY <1>2
  <2> QED BY <1>1, <2>1, FlattenNone DEF LinesRun
<1>5. \A i \in 1..n : f[i] = Append(f[i - 1], text[i])
  <2>1. \A i \in 1..n : i \in 0..n /\ i - 1 \in 0..n
    BY <1>2
  <2> QED BY <1>3, <2>1
<1>6. f[n] = FlattenSeq(g[n])
  <2>1. n \in 0..n
    BY <1>2
  <2> QED BY <2>1
<1> HIDE DEF f
<1>7. f[n] = text
  BY <1>4, <1>5, PrefixesGrow
<1> QED BY <1>1, <1>6, <1>7 DEF LinesRun, n

\* The sections of a document are its blocks.
LEMMA BlockAdded ==
  ASSUME NEW B
  PROVE  /\ << >> \in Seq(Seq(B))
         /\ \A sections \in Seq(Seq(B)) : \A b \in B :
              /\ AddBlock(sections, b) \in Seq(Seq(B))
              /\ FlattenSeq(AddBlock(sections, b)) = Append(FlattenSeq(sections), b)
<1>1. ASSUME NEW sections \in Seq(Seq(B)), NEW b \in B
      PROVE  /\ AddBlock(sections, b) \in Seq(Seq(B))
             /\ FlattenSeq(AddBlock(sections, b)) = Append(FlattenSeq(sections), b)
  <2>1. CASE sections = << >> \/ IsHeading(b)
    <3>1. AddBlock(sections, b) = Append(sections, <<b>>)
      BY <2>1 DEF AddBlock
    <3> QED BY <3>1, SingletonAdded
  <2>2. CASE ~(sections = << >> \/ IsHeading(b))
    <3>1. AddBlock(sections, b) = Extended(sections, b)
      BY <2>2 DEF AddBlock
    <3> QED BY <2>2, <3>1, ExtendedIs
  <2> QED BY <2>1, <2>2
<1> QED BY <1>1

\* The run of Sections.
SectionsRun(g, bs, B) ==
  /\ g \in [0..Len(bs) -> Seq(Seq(B))] /\ g[0] = << >>
  /\ \A i \in 1..Len(bs) : g[i] = AddBlock(g[i - 1], bs[i]) /\ g[i - 1] \in Seq(Seq(B)) /\ bs[i] \in B
  /\ Sections(bs) = g[Len(bs)] /\ g[Len(bs)] \in Seq(Seq(B))

LEMMA SectionsRuns ==
  ASSUME NEW B, NEW bs \in Seq(B)
  PROVE  \E g : SectionsRun(g, bs, B)
<1> DEFINE n == Len(bs)
           V == Seq(Seq(B))
           first == << >>
           next == [i \in 1..n |-> [acc \in V |-> AddBlock(acc, bs[i])]]
           IsRun(g) == g = [i \in 0..n |-> IF i = 0 THEN first ELSE AddBlock(g[i - 1], bs[i])]
           F == CHOOSE g : IsRun(g)
<1>1. n \in Nat /\ \A i \in 1..n : bs[i] \in B
  BY LenProperties, ElementOfSeq
<1>2. \A i \in 1..n : \A acc \in V : AddBlock(acc, bs[i]) \in V
  <2> HIDE DEF n
  <2> QED BY <1>1, BlockAdded
<1>3. first \in V
  BY BlockAdded
<1>4. next \in [1..n -> [V -> V]] /\ \A i \in 1..n : \A acc \in V : next[i][acc] = AddBlock(acc, bs[i])
  <2> HIDE DEF n, V
  <2> QED BY <1>2
<1> HIDE DEF n, V, first, next
<1>5. PICK h : Walks(h, V, first, n, next)
  BY <1>1, <1>3, <1>4, StepsExist
<1>6. IsRun(h)
  <2>1. \A i \in 0..n : i = 0 \/ (i \in 1..n /\ i - 1 \in 0..n)
    BY <1>1
  <2>2. \A i \in 0..n : h[i] = IF i = 0 THEN first ELSE AddBlock(h[i - 1], bs[i])
    BY <1>4, <1>5, <2>1 DEF Walks
  <2>3. h \in [0..n -> V]
    BY <1>5 DEF Walks
  <2> QED BY <2>2, <2>3
<1>7. IsRun(F)
  <2> HIDE DEF IsRun
  <2> QED BY <1>6
<1>8. Sections(bs) = F[n]
  BY DEF Sections, n, first
<1> HIDE DEF F
<1>9. F[0] = first /\ DOMAIN F = 0..n /\ F = [i \in 0..n |-> F[i]] /\ \A i \in 1..n : F[i] = AddBlock(F[i - 1], bs[i])
  <2>1. 0 \in 0..n /\ \A i \in 1..n : i \in 0..n /\ i # 0
    BY <1>1
  <2> QED BY <1>7, <2>1
<1> HIDE DEF IsRun
<1> DEFINE P == {m \in Nat : m <= n => F[m] \in V}
<1>10. 0 \in P
  BY <1>3, <1>9
<1>11. ASSUME NEW m \in Nat, m \in P PROVE m + 1 \in P
  <2> SUFFICES ASSUME m + 1 <= n PROVE F[m + 1] \in V
    OBVIOUS
  <2>1. m + 1 \in 1..n /\ (m + 1) - 1 = m /\ F[m] \in V
    BY <1>1, <1>11
  <2> HIDE DEF P
  <2>2. F[m + 1] = AddBlock(F[(m + 1) - 1], bs[m + 1])
    BY <1>9, <2>1
  <2> QED BY <1>2, <2>1, <2>2
<1> HIDE DEF P
<1>12. Nat \subseteq P
  BY <1>10, <1>11, Induction
<1>13. \A i \in 0..n : F[i] \in V
  <2>1. \A i \in 0..n : i \in Nat /\ i <= n
    BY <1>1
  <2> QED BY <1>12, <2>1 DEF P
<1>14. F \in [0..n -> V]
  BY <1>9, <1>13
<1>15. \A i \in 1..n : F[i - 1] \in V
  <2>1. \A i \in 1..n : i - 1 \in 0..n
    BY <1>1
  <2> QED BY <1>13, <2>1
<1>16. F[n] \in V
  BY <1>1, <1>13
<1> QED BY <1>1, <1>8, <1>9, <1>14, <1>15, <1>16 DEF SectionsRun, n, V, first

LEMMA SectionsAre ==
  ASSUME NEW B, NEW bs \in Seq(B)
  PROVE  Sections(bs) \in Seq(Seq(B)) /\ FlattenSeq(Sections(bs)) = bs
<1>1. PICK g : SectionsRun(g, bs, B)
  BY SectionsRuns
<1> DEFINE n == Len(bs)
           f == [i \in 0..n |-> FlattenSeq(g[i])]
<1>2. n \in Nat
  BY LenProperties
<1>3. \A i \in 1..n : FlattenSeq(g[i]) = Append(FlattenSeq(g[i - 1]), bs[i])
  BY <1>1, BlockAdded DEF SectionsRun
<1>4. f[0] = << >>
  <2>1. 0 \in 0..n
    BY <1>2
  <2> QED BY <1>1, <2>1, FlattenNone DEF SectionsRun
<1>5. \A i \in 1..n : f[i] = Append(f[i - 1], bs[i])
  <2>1. \A i \in 1..n : i \in 0..n /\ i - 1 \in 0..n
    BY <1>2
  <2> QED BY <1>3, <2>1
<1>6. f[n] = FlattenSeq(g[n])
  <2>1. n \in 0..n
    BY <1>2
  <2> QED BY <2>1
<1> HIDE DEF f
<1>7. f[n] = bs
  BY <1>4, <1>5, PrefixesGrow
<1> QED BY <1>1, <1>6, <1>7 DEF SectionsRun, n

\* Small sections wait for the next one; nothing is dropped.
Mergings(B) == [merged : Seq(Seq(B)), pending : Seq(B)]
MergedBlocks(acc) == FlattenSeq(acc.merged) \o acc.pending

LEMMA FlattenType ==
  ASSUME NEW S, NEW parts \in Seq(Seq(S))
  PROVE  FlattenSeq(parts) \in Seq(S)
<1>1. << >> \in Seq(S)
  OBVIOUS
<1> QED BY <1>1, FlattenAppend

LEMMA SectionAdded ==
  ASSUME NEW B
  PROVE  /\ NothingMerged \in Mergings(B) /\ MergedBlocks(NothingMerged) = << >>
         /\ \A acc \in Mergings(B) : \A s \in Seq(B) :
              /\ AddSection(acc, s) \in Mergings(B)
              /\ MergedBlocks(AddSection(acc, s)) = MergedBlocks(acc) \o s
              /\ MergedBlocks(acc) \in Seq(B)
<1>0. /\ NothingMerged \in Mergings(B) /\ MergedBlocks(NothingMerged) = << >>
  <2>1. << >> \in Seq(B) /\ << >> \in Seq(Seq(B)) /\ << >> \o << >> = << >>
    OBVIOUS
  <2> QED BY <2>1, FlattenNone DEF NothingMerged, Mergings, MergedBlocks
<1>1. ASSUME NEW acc \in Mergings(B), NEW s \in Seq(B)
      PROVE  /\ AddSection(acc, s) \in Mergings(B)
             /\ MergedBlocks(AddSection(acc, s)) = MergedBlocks(acc) \o s
             /\ MergedBlocks(acc) \in Seq(B)
  <2> DEFINE m == acc.merged
             p == acc.pending
             a == FlattenSeq(m)
             ps == p \o s
  <2>1. m \in Seq(Seq(B)) /\ p \in Seq(B)
    BY DEF Mergings
  <2> HIDE DEF m, p
  <2>2. a \in Seq(B) /\ ps \in Seq(B) /\ a \o p \in Seq(B) /\ Append(m, ps) \in Seq(Seq(B)) /\ << >> \in Seq(B)
    <3>1. a \in Seq(B) /\ ps \in Seq(B)
      BY <2>1, FlattenType, ConcatProperties
    <3>2. << >> \in Seq(B)
      OBVIOUS
    <3> HIDE DEF a, ps
    <3> QED BY <2>1, <3>1, <3>2, ConcatProperties, AppendProperties
  <2>3. FlattenSeq(Append(m, ps)) = a \o ps
    <3> HIDE DEF ps
    <3> QED BY <2>1, <2>2, FlattenAppend
  <2> HIDE DEF a
  <2>4. Then(Then(a, p), s) = Then(a, Then(p, s))
    BY <2>1, <2>2, ThenThen
  <2>5. a \o ps = (a \o p) \o s
    BY <2>4 DEF Then
  <2>6. (a \o ps) \o << >> = a \o ps
    <3> DEFINE x == a \o ps
    <3>1. x \in Seq(B)
      BY <2>2, ConcatProperties
    <3> HIDE DEF x
    <3> QED BY <3>1, ConcatEmptySeq DEF x
  <2>7. AddSection(acc, s) = [merged |-> m, pending |-> ps] \/ AddSection(acc, s) = [merged |-> Append(m, ps), pending |-> << >>]
    BY DEF AddSection, m, p
  <2> HIDE DEF ps
  <2>8. AddSection(acc, s) \in Mergings(B)
    <3> DEFINE more == Append(m, ps)
               none == << >>
    <3>1. more \in Seq(Seq(B)) /\ none \in Seq(B)
      BY <2>2
    <3>2. AddSection(acc, s) = [merged |-> m, pending |-> ps] \/ AddSection(acc, s) = [merged |-> more, pending |-> none]
      BY <2>7
    <3> HIDE DEF more, none
    <3>3. [merged |-> m, pending |-> ps] \in Mergings(B) /\ [merged |-> more, pending |-> none] \in Mergings(B)
      BY <2>1, <2>2, <3>1 DEF Mergings
    <3> QED BY <3>2, <3>3
  <2>9. MergedBlocks(acc) = a \o p /\ MergedBlocks([merged |-> m, pending |-> ps]) = a \o ps
        /\ MergedBlocks([merged |-> Append(m, ps), pending |-> << >>]) = (a \o ps) \o << >>
    BY <2>3 DEF MergedBlocks, a, m, p
  <2> QED BY <2>2, <2>5, <2>6, <2>7, <2>8, <2>9
<1> QED BY <1>0, <1>1

\* The run of Merging.
MergingRun(g, sections, B) ==
  /\ g \in [0..Len(sections) -> Mergings(B)] /\ g[0] = NothingMerged
  /\ \A i \in 1..Len(sections) : g[i] = AddSection(g[i - 1], sections[i]) /\ g[i - 1] \in Mergings(B) /\ sections[i] \in Seq(B)
  /\ Merging(sections) = g[Len(sections)] /\ g[Len(sections)] \in Mergings(B)

LEMMA MergingRuns ==
  ASSUME NEW B, NEW sections \in Seq(Seq(B))
  PROVE  \E g : MergingRun(g, sections, B)
<1> DEFINE n == Len(sections)
           V == Mergings(B)
           first == NothingMerged
           next == [i \in 1..n |-> [acc \in V |-> AddSection(acc, sections[i])]]
           IsRun(g) == g = [i \in 0..n |-> IF i = 0 THEN first ELSE AddSection(g[i - 1], sections[i])]
           F == CHOOSE g : IsRun(g)
<1>1. n \in Nat /\ \A i \in 1..n : sections[i] \in Seq(B)
  BY LenProperties, ElementOfSeq
<1>2. \A i \in 1..n : \A acc \in V : AddSection(acc, sections[i]) \in V
  <2> HIDE DEF n
  <2> QED BY <1>1, SectionAdded
<1>3. first \in V
  BY SectionAdded
<1>4. next \in [1..n -> [V -> V]] /\ \A i \in 1..n : \A acc \in V : next[i][acc] = AddSection(acc, sections[i])
  <2> HIDE DEF n, V
  <2> QED BY <1>2
<1> HIDE DEF n, V, first, next
<1>5. PICK h : Walks(h, V, first, n, next)
  BY <1>1, <1>3, <1>4, StepsExist
<1>6. IsRun(h)
  <2>1. \A i \in 0..n : i = 0 \/ (i \in 1..n /\ i - 1 \in 0..n)
    BY <1>1
  <2>2. \A i \in 0..n : h[i] = IF i = 0 THEN first ELSE AddSection(h[i - 1], sections[i])
    BY <1>4, <1>5, <2>1 DEF Walks
  <2>3. h \in [0..n -> V]
    BY <1>5 DEF Walks
  <2> QED BY <2>2, <2>3
<1>7. IsRun(F)
  <2> HIDE DEF IsRun
  <2> QED BY <1>6
<1>8. Merging(sections) = F[n]
  BY DEF Merging, n, first
<1> HIDE DEF F
<1>9. F[0] = first /\ DOMAIN F = 0..n /\ F = [i \in 0..n |-> F[i]] /\ \A i \in 1..n : F[i] = AddSection(F[i - 1], sections[i])
  <2>1. 0 \in 0..n /\ \A i \in 1..n : i \in 0..n /\ i # 0
    BY <1>1
  <2> QED BY <1>7, <2>1
<1> HIDE DEF IsRun
<1> DEFINE P == {m \in Nat : m <= n => F[m] \in V}
<1>10. 0 \in P
  BY <1>3, <1>9
<1>11. ASSUME NEW m \in Nat, m \in P PROVE m + 1 \in P
  <2> SUFFICES ASSUME m + 1 <= n PROVE F[m + 1] \in V
    OBVIOUS
  <2>1. m + 1 \in 1..n /\ (m + 1) - 1 = m /\ F[m] \in V
    BY <1>1, <1>11
  <2> HIDE DEF P
  <2>2. F[m + 1] = AddSection(F[(m + 1) - 1], sections[m + 1])
    BY <1>9, <2>1
  <2> QED BY <1>2, <2>1, <2>2
<1> HIDE DEF P
<1>12. Nat \subseteq P
  BY <1>10, <1>11, Induction
<1>13. \A i \in 0..n : F[i] \in V
  <2>1. \A i \in 0..n : i \in Nat /\ i <= n
    BY <1>1
  <2> QED BY <1>12, <2>1 DEF P
<1>14. F \in [0..n -> V]
  BY <1>9, <1>13
<1>15. \A i \in 1..n : F[i - 1] \in V
  <2>1. \A i \in 1..n : i - 1 \in 0..n
    BY <1>1
  <2> QED BY <1>13, <2>1
<1>16. F[n] \in V
  BY <1>1, <1>13
<1> QED BY <1>1, <1>8, <1>9, <1>14, <1>15, <1>16 DEF MergingRun, n, V, first

LEMMA MergingIs ==
  ASSUME NEW B, NEW sections \in Seq(Seq(B))
  PROVE  Merging(sections) \in Mergings(B) /\ MergedBlocks(Merging(sections)) = FlattenSeq(sections)
<1>1. PICK g : MergingRun(g, sections, B)
  BY MergingRuns
<1> DEFINE n == Len(sections)
           f == [i \in 0..n |-> MergedBlocks(g[i])]
<1>2. n \in Nat
  BY LenProperties
<1>3. \A i \in 1..n : MergedBlocks(g[i]) = MergedBlocks(g[i - 1]) \o sections[i]
  BY <1>1, SectionAdded DEF MergingRun
<1>4. \A i \in 0..n : g[i] \in Mergings(B) /\ MergedBlocks(g[i]) \in Seq(B)
  <2>1. \A i \in 0..n : g[i] \in Mergings(B)
    BY <1>1 DEF MergingRun
  <2>2. << >> \in Seq(B)
    OBVIOUS
  <2> QED BY <2>1, <2>2, SectionAdded
<1>5. MergedBlocks(g[0]) = << >>
  BY <1>1, SectionAdded DEF MergingRun
<1>6. f \in [0..n -> Seq(B)] /\ f[0] = << >> /\ f[n] = MergedBlocks(g[n])
  <2>1. 0 \in 0..n /\ n \in 0..n
    BY <1>2
  <2> QED BY <1>4, <1>5, <2>1
<1>7. \A i \in 1..n : f[i] = f[i - 1] \o sections[i]
  <2>1. \A i \in 1..n : i \in 0..n /\ i - 1 \in 0..n
    BY <1>2
  <2> QED BY <1>3, <2>1
<1> HIDE DEF f
<1>8. Joins(f, sections, B)
  BY <1>6, <1>7 DEF Joins
<1>9. FlattenSeq(sections) = f[Len(sections)]
  BY <1>8, FlattenJoins
<1> QED BY <1>1, <1>6, <1>9 DEF MergingRun

LEMMA MergeSmallIs ==
  ASSUME NEW B, NEW sections \in Seq(Seq(B))
  PROVE  /\ MergeSmall(sections) \in Seq(Seq(B))
         /\ FlattenSeq(MergeSmall(sections)) = FlattenSeq(sections)
<1> DEFINE last == Merging(sections)
           m == last.merged
           p == last.pending
           n == Len(m)
<1>1. last \in Mergings(B) /\ FlattenSeq(m) \o p = FlattenSeq(sections)
  BY MergingIs DEF MergedBlocks
<1>2. m \in Seq(Seq(B)) /\ p \in Seq(B)
  BY <1>1 DEF Mergings
<1>3. MergeSmall(sections) = IF p = << >> THEN m ELSE IF n = 0 THEN <<p>> ELSE [m EXCEPT ![n] = @ \o p]
  BY DEF MergeSmall
<1>a. p = << >> => MergeSmall(sections) = m
  BY DEF MergeSmall
<1> HIDE DEF last
<1> HIDE DEF m, p
<1>4. FlattenSeq(m) \in Seq(B) /\ n \in Nat
  BY <1>2, FlattenType, LenProperties
<1>5. CASE p = << >>
  <2> DEFINE a == FlattenSeq(m)
  <2>1. a \o << >> = a
    <3> HIDE DEF a
    <3>1. a \in Seq(B)
      BY <1>4 DEF a
    <3> QED BY <3>1, ConcatEmptySeq
  <2>2. MergeSmall(sections) = m
    BY <1>a, <1>5
  <2>3. a \o << >> = FlattenSeq(sections)
    BY <1>1, <1>5
  <2>4. a = FlattenSeq(sections)
    BY <2>1, <2>3
  <2> QED BY <1>2, <2>2, <2>4
<1>6. CASE p # << >> /\ n = 0
  <2>1. m = << >>
    BY <1>2, <1>6, EmptySeq
  <2>2. MergeSmall(sections) = <<p>>
    BY <1>3, <1>6
  <2>3. <<p>> = Append(<< >>, p) /\ << >> \in Seq(Seq(B))
    OBVIOUS
  <2>4. FlattenSeq(Append(<< >>, p)) = FlattenSeq(<< >>) \o p
    BY <1>2, <2>3, FlattenAppend
  <2>5. <<p>> \in Seq(Seq(B))
    BY <1>2
  <2> QED BY <1>1, <2>1, <2>2, <2>3, <2>4, <2>5
<1>7. CASE p # << >> /\ n # 0
  <2> DEFINE old == m[n]
             y == old \o p
  <2>1. old \in Seq(B) /\ m # << >>
    <3>1. n \in 1..n
      BY <1>4, <1>7
    <3> QED BY <1>2, <1>7, <3>1, ElementOfSeq, EmptySeq
  <2>2. y \in Seq(B) /\ Prolongs(y, m, p)
    <3> HIDE DEF old
    <3>1. y \in Seq(B)
      BY <1>2, <2>1, ConcatProperties
    <3> QED BY <3>1 DEF Prolongs, old
  <2>3. MergeSmall(sections) = Replaced(m, y)
    BY <1>3, <1>7 DEF Replaced
  <2> HIDE DEF y
  <2>4. Replaced(m, y) \in Seq(Seq(B))
    BY <1>2, <2>1, <2>2, ReplacedIs
  <2>5. FlattenSeq(Replaced(m, y)) = FlattenSeq(m) \o p
    BY <1>2, <2>1, <2>2, LastExtended
  <2> QED BY <1>1, <2>3, <2>4, <2>5
<1> QED BY <1>5, <1>6, <1>7

\* Packing loses nothing, and puts together only what is packed.
Packings(W) == [done : Seq(W), buffer : W]
PackedText(acc) == FlattenSeq(acc.done) \o acc.buffer

LEMMA PartAdded ==
  ASSUME NEW W, Closed(W)
  PROVE  /\ NothingPacked \in Packings(W) /\ PackedText(NothingPacked) = << >>
         /\ \A target : \A acc \in Packings(W) : \A part \in W :
              /\ AddPart(acc, part, target) \in Packings(W)
              /\ PackedText(AddPart(acc, part, target)) = Then(PackedText(acc), part)
              /\ PackedText(acc) \in Seq(Word)
<1>0. /\ NothingPacked \in Packings(W) /\ PackedText(NothingPacked) = << >>
  <2>1. << >> \in W /\ << >> \in Seq(W) /\ << >> \o << >> = << >>
    BY DEF Closed
  <2> QED BY <2>1, FlattenNone DEF NothingPacked, Packings, PackedText
<1>1. ASSUME NEW target, NEW acc \in Packings(W), NEW part \in W
      PROVE  /\ AddPart(acc, part, target) \in Packings(W)
             /\ PackedText(AddPart(acc, part, target)) = Then(PackedText(acc), part)
             /\ PackedText(acc) \in Seq(Word)
  <2> DEFINE d == acc.done
             b == acc.buffer
             a == FlattenSeq(d)
             bp == b \o part
             more == Append(d, b)
  <2>1. d \in Seq(W) /\ b \in W
    BY DEF Packings
  <2> HIDE DEF d, b
  <2>2. bp \in W /\ b \in Seq(Word) /\ part \in Seq(Word) /\ W \subseteq Seq(Word)
    BY <2>1 DEF Closed
  <2>3. more \in Seq(W) /\ d \in Seq(Seq(Word))
    BY <2>1, <2>2, SeqWithin, AppendProperties
  <2>4. a \in Seq(Word) /\ FlattenSeq(more) = a \o b
    BY <2>2, <2>3, FlattenAppend
  <2>5. a \o b \in Seq(Word)
    <3> HIDE DEF a
    <3> QED BY <2>2, <2>4, ConcatProperties
  <2> HIDE DEF a
  <2>6. Then(Then(a, b), part) = Then(a, Then(b, part))
    BY <2>2, <2>4, ThenThen
  <2>7. a \o bp = (a \o b) \o part
    BY <2>6 DEF Then
  <2>8. AddPart(acc, part, target) = [done |-> more, buffer |-> part] \/ AddPart(acc, part, target) = [done |-> d, buffer |-> bp]
    BY DEF AddPart, d, b
  <2> HIDE DEF bp, more
  <2>9. [done |-> more, buffer |-> part] \in Packings(W) /\ [done |-> d, buffer |-> bp] \in Packings(W)
    BY <2>1, <2>2, <2>3 DEF Packings
  <2>10. PackedText(acc) = a \o b /\ PackedText([done |-> more, buffer |-> part]) = (a \o b) \o part
         /\ PackedText([done |-> d, buffer |-> bp]) = a \o bp
    BY <2>4 DEF PackedText, a, d, b
  <2> QED BY <2>5, <2>7, <2>8, <2>9, <2>10 DEF Then
<1> QED BY <1>0, <1>1

\* The run of Packed.
PackedRun(g, parts, target, W) ==
  /\ g \in [0..Len(parts) -> Packings(W)] /\ g[0] = NothingPacked
  /\ \A i \in 1..Len(parts) : g[i] = AddPart(g[i - 1], parts[i], target) /\ g[i - 1] \in Packings(W) /\ parts[i] \in W
  /\ Packed(parts, target) = g[Len(parts)] /\ g[Len(parts)] \in Packings(W)

LEMMA PackedRuns ==
  ASSUME NEW W, Closed(W), NEW target, NEW parts \in Seq(W)
  PROVE  \E g : PackedRun(g, parts, target, W)
<1> DEFINE n == Len(parts)
           V == Packings(W)
           first == NothingPacked
           next == [i \in 1..n |-> [acc \in V |-> AddPart(acc, parts[i], target)]]
           IsRun(g) == g = [i \in 0..n |-> IF i = 0 THEN first ELSE AddPart(g[i - 1], parts[i], target)]
           F == CHOOSE g : IsRun(g)
<1>1. n \in Nat /\ \A i \in 1..n : parts[i] \in W
  BY LenProperties, ElementOfSeq
<1>2. \A i \in 1..n : \A acc \in V : AddPart(acc, parts[i], target) \in V
  <2> HIDE DEF n
  <2> QED BY <1>1, PartAdded
<1>3. first \in V
  BY PartAdded
<1>4. next \in [1..n -> [V -> V]] /\ \A i \in 1..n : \A acc \in V : next[i][acc] = AddPart(acc, parts[i], target)
  <2> HIDE DEF n, V
  <2> QED BY <1>2
<1> HIDE DEF n, V, first, next
<1>5. PICK h : Walks(h, V, first, n, next)
  BY <1>1, <1>3, <1>4, StepsExist
<1>6. IsRun(h)
  <2>1. \A i \in 0..n : i = 0 \/ (i \in 1..n /\ i - 1 \in 0..n)
    BY <1>1
  <2>2. \A i \in 0..n : h[i] = IF i = 0 THEN first ELSE AddPart(h[i - 1], parts[i], target)
    BY <1>4, <1>5, <2>1 DEF Walks
  <2>3. h \in [0..n -> V]
    BY <1>5 DEF Walks
  <2> QED BY <2>2, <2>3
<1>7. IsRun(F)
  <2> HIDE DEF IsRun
  <2> QED BY <1>6
<1>8. Packed(parts, target) = F[n]
  BY DEF Packed, n, first
<1> HIDE DEF F
<1>9. F[0] = first /\ DOMAIN F = 0..n /\ F = [i \in 0..n |-> F[i]] /\ \A i \in 1..n : F[i] = AddPart(F[i - 1], parts[i], target)
  <2>1. 0 \in 0..n /\ \A i \in 1..n : i \in 0..n /\ i # 0
    BY <1>1
  <2> QED BY <1>7, <2>1
<1> HIDE DEF IsRun
<1> DEFINE P == {m \in Nat : m <= n => F[m] \in V}
<1>10. 0 \in P
  BY <1>3, <1>9
<1>11. ASSUME NEW m \in Nat, m \in P PROVE m + 1 \in P
  <2> SUFFICES ASSUME m + 1 <= n PROVE F[m + 1] \in V
    OBVIOUS
  <2>1. m + 1 \in 1..n /\ (m + 1) - 1 = m /\ F[m] \in V
    BY <1>1, <1>11
  <2> HIDE DEF P
  <2>2. F[m + 1] = AddPart(F[(m + 1) - 1], parts[m + 1], target)
    BY <1>9, <2>1
  <2> QED BY <1>2, <2>1, <2>2
<1> HIDE DEF P
<1>12. Nat \subseteq P
  BY <1>10, <1>11, Induction
<1>13. \A i \in 0..n : F[i] \in V
  <2>1. \A i \in 0..n : i \in Nat /\ i <= n
    BY <1>1
  <2> QED BY <1>12, <2>1 DEF P
<1>14. F \in [0..n -> V]
  BY <1>9, <1>13
<1>15. \A i \in 1..n : F[i - 1] \in V
  <2>1. \A i \in 1..n : i - 1 \in 0..n
    BY <1>1
  <2> QED BY <1>13, <2>1
<1>16. F[n] \in V
  BY <1>1, <1>13
<1> QED BY <1>1, <1>8, <1>9, <1>14, <1>15, <1>16 DEF PackedRun, n, V, first

LEMMA PackedIs ==
  ASSUME NEW W, Closed(W), NEW target, NEW parts \in Seq(W)
  PROVE  Packed(parts, target) \in Packings(W) /\ PackedText(Packed(parts, target)) = FlattenSeq(parts)
<1>1. PICK g : PackedRun(g, parts, target, W)
  BY PackedRuns
<1> DEFINE n == Len(parts)
           f == [i \in 0..n |-> PackedText(g[i])]
<1>2. n \in Nat
  BY LenProperties
<1>3. \A i \in 1..n : PackedText(g[i]) = PackedText(g[i - 1]) \o parts[i]
  <2> SUFFICES ASSUME NEW i \in 1..n
               PROVE  PackedText(g[i]) = PackedText(g[i - 1]) \o parts[i]
    OBVIOUS
  <2> DEFINE acc == g[i - 1]
             part == parts[i]
  <2>1. acc \in Packings(W) /\ part \in W /\ g[i] = AddPart(acc, part, target)
    BY <1>1 DEF PackedRun
  <2> HIDE DEF acc, part
  <2>2. PackedText(AddPart(acc, part, target)) = Then(PackedText(acc), part)
    BY <2>1, PartAdded
  <2> QED BY <2>1, <2>2 DEF acc, part, Then
<1>4. \A i \in 0..n : g[i] \in Packings(W) /\ PackedText(g[i]) \in Seq(Word)
  <2>1. \A i \in 0..n : g[i] \in Packings(W)
    BY <1>1 DEF PackedRun
  <2>2. << >> \in W
    BY DEF Closed
  <2> QED BY <2>1, <2>2, PartAdded
<1>5. PackedText(g[0]) = << >>
  BY <1>1, PartAdded DEF PackedRun
<1>6. f \in [0..n -> Seq(Word)] /\ f[0] = << >> /\ f[n] = PackedText(g[n])
  <2>1. 0 \in 0..n /\ n \in 0..n
    BY <1>2
  <2> QED BY <1>4, <1>5, <2>1
<1>7. \A i \in 1..n : f[i] = f[i - 1] \o parts[i]
  <2>1. \A i \in 1..n : i \in 0..n /\ i - 1 \in 0..n
    BY <1>2
  <2> QED BY <1>3, <2>1
<1> HIDE DEF f
<1>8. Joins(f, parts, Word)
  BY <1>6, <1>7 DEF Joins
<1>9. parts \in Seq(Seq(Word))
  BY SeqWithin DEF Closed
<1>10. FlattenSeq(parts) = f[Len(parts)]
  BY <1>8, <1>9, FlattenJoins
<1> QED BY <1>1, <1>6, <1>10 DEF PackedRun

LEMMA PackIs ==
  ASSUME NEW W, Closed(W), NEW target, NEW parts \in Seq(W)
  PROVE  Pack(parts, target) \in Seq(W) /\ FlattenSeq(Pack(parts, target)) = FlattenSeq(parts)
<1> DEFINE last == Packed(parts, target)
           d == last.done
           b == last.buffer
<1>1. last \in Packings(W) /\ FlattenSeq(d) \o b = FlattenSeq(parts)
  BY PackedIs DEF PackedText
<1>2. d \in Seq(W) /\ b \in W
  BY <1>1 DEF Packings
<1>3. Pack(parts, target) = IF b = << >> THEN d ELSE Append(d, b)
  BY DEF Pack
<1> HIDE DEF last
<1> HIDE DEF d, b
<1>4. d \in Seq(Seq(Word)) /\ b \in Seq(Word) /\ Append(d, b) \in Seq(W)
  BY <1>2, SeqWithin, AppendProperties DEF Closed
<1>5. FlattenSeq(d) \in Seq(Word) /\ FlattenSeq(Append(d, b)) = FlattenSeq(d) \o b
  BY <1>4, FlattenAppend
<1>6. b = << >> => FlattenSeq(d) \o b = FlattenSeq(d)
  BY <1>5, ConcatEmptySeq
<1> QED BY <1>1, <1>2, <1>3, <1>4, <1>5, <1>6

\* The texts of blocks; B is a set of blocks, W one of texts that holds theirs.
Worded(B, W) == \A b \in B : b.text \in W
TextFn(B) == [b \in B |-> b.text]

LEMMA TextIs ==
  ASSUME NEW B, NEW W, Worded(B, W), NEW bs \in Seq(B)
  PROVE  /\ Maps(TextFn(B), B, W)
         /\ Mapped(TextFn(B), bs) \in Seq(W)
         /\ Text(bs) = FlattenSeq(Mapped(TextFn(B), bs))
<1>1. Maps(TextFn(B), B, W)
  BY DEF TextFn, Maps, Worded
<1>2. Mapped(TextFn(B), bs) \in Seq(W)
  BY <1>1, MappedIs
<1>3. \A i \in DOMAIN bs : bs[i] \in B
  BY LenProperties, ElementOfSeq
<1>4. Mapped(TextFn(B), bs) = [i \in DOMAIN bs |-> bs[i].text]
  <2>1. \A i \in DOMAIN bs : TextFn(B)[bs[i]] = bs[i].text
    BY <1>3 DEF TextFn
  <2> QED BY <2>1 DEF Mapped
<1> QED BY <1>1, <1>2, <1>4 DEF Text

LEMMA TextNone == Text(<< >>) = << >>
<1>1. [i \in DOMAIN << >> |-> << >>[i].text] = << >>
  OBVIOUS
<1> QED BY <1>1, FlattenNone DEF Text

LEMMA TextType ==
  ASSUME NEW B, NEW W, Closed(W), Worded(B, W), NEW bs \in Seq(B)
  PROVE  Text(bs) \in Seq(Word)
<1>1. Mapped(TextFn(B), bs) \in Seq(W) /\ W \subseteq Seq(Word)
  BY TextIs DEF Closed
<1>2. Mapped(TextFn(B), bs) \in Seq(Seq(Word))
  BY <1>1, SeqWithin
<1>3. FlattenSeq(Mapped(TextFn(B), bs)) \in Seq(Word)
  BY <1>2, FlattenType
<1> QED BY <1>3, TextIs

LEMMA TextAppend ==
  ASSUME NEW B, NEW W, Closed(W), Worded(B, W), NEW bs \in Seq(B), NEW b \in B
  PROVE  Text(Append(bs, b)) = Then(Text(bs), b.text)
<1> DEFINE F == TextFn(B)
           m == Mapped(F, bs)
           more == Append(bs, b)
           y == b.text
<1>1. Maps(F, B, W) /\ m \in Seq(W) /\ Text(bs) = FlattenSeq(m)
  BY TextIs
<1>2. more \in Seq(B)
  BY AppendProperties
<1> HIDE DEF F, m, more
<1>3. Text(more) = FlattenSeq(Mapped(F, more))
  BY <1>2, TextIs DEF F
<1>4. Mapped(F, Append(bs, b)) = Append(m, F[b])
  BY <1>1, MappedAppend DEF m
<1>5. F[b] = y
  BY DEF F, TextFn
<1>6. y \in Seq(Word) /\ m \in Seq(Seq(Word))
  BY <1>1, SeqWithin DEF Closed, Worded
<1> HIDE DEF y
<1>7. FlattenSeq(Append(m, y)) = FlattenSeq(m) \o y
  BY <1>6, FlattenAppend
<1> QED BY <1>1, <1>3, <1>4, <1>5, <1>7 DEF y, more, Then

LEMMA TextConcat ==
  ASSUME NEW B, NEW W, Closed(W), Worded(B, W), NEW s \in Seq(B), NEW t \in Seq(B)
  PROVE  Text(s \o t) = Text(s) \o Text(t)
<1> DEFINE F == TextFn(B)
           m == Mapped(F, s)
           p == Mapped(F, t)
           st == s \o t
<1>1. Maps(F, B, W) /\ m \in Seq(W) /\ Text(s) = FlattenSeq(m) /\ p \in Seq(W) /\ Text(t) = FlattenSeq(p)
  BY TextIs
<1>2. st \in Seq(B)
  BY ConcatProperties
<1> HIDE DEF F, m, p, st
<1>3. Text(st) = FlattenSeq(Mapped(F, st))
  BY <1>2, TextIs DEF F
<1>4. Mapped(F, st) = m \o p
  BY <1>1, MappedConcat DEF m, p, st
<1>5. m \in Seq(Seq(Word)) /\ p \in Seq(Seq(Word))
  BY <1>1, SeqWithin DEF Closed
<1>6. FlattenSeq(m \o p) = FlattenSeq(m) \o FlattenSeq(p)
  BY <1>5, FlattenConcat
<1> QED BY <1>1, <1>3, <1>4, <1>6 DEF st

\* The text of a flattening is that of its parts.
SectionText(B) == [s \in Seq(B) |-> Text(s)]

LEMMA TextFlatten ==
  ASSUME NEW B, NEW W, Closed(W), Worded(B, W), NEW parts \in Seq(Seq(B))
  PROVE  /\ Maps(SectionText(B), Seq(B), Seq(Word))
         /\ Text(FlattenSeq(parts)) = FlattenSeq(Mapped(SectionText(B), parts))
<1> DEFINE F == SectionText(B)
           U == Seq(B)
           whole == FlattenSeq(parts)
<1>1. \A s \in U : F[s] = Text(s)
  BY DEF SectionText
<1>2. \A s \in U : Text(s) \in Seq(Word)
  BY TextType
<1>3. Maps(F, U, Seq(Word))
  <2> HIDE DEF U
  <2> QED BY <1>2 DEF Maps, SectionText, U
<1>4. << >> \in U /\ F[<< >>] = << >>
  <2>1. << >> \in U
    OBVIOUS
  <2> QED BY <1>1, <2>1, TextNone
<1>5. \A s, t \in U : F[s \o t] = F[s] \o F[t]
  <2> SUFFICES ASSUME NEW s \in U, NEW t \in U PROVE F[s \o t] = F[s] \o F[t]
    OBVIOUS
  <2>1. s \o t \in U
    BY ConcatProperties
  <2>2. Text(s \o t) = Text(s) \o Text(t)
    BY TextConcat
  <2>3. F[s \o t] = Text(s \o t) /\ F[s] = Text(s) /\ F[t] = Text(t)
    BY <1>1, <2>1
  <2> QED BY <2>2, <2>3
<1>6. whole \in U /\ F[whole] = Text(whole)
  BY <1>1, FlattenType
<1> HIDE DEF F
<1>7. F[FlattenSeq(parts)] = FlattenSeq(Mapped(F, parts))
  BY <1>3, <1>4, <1>5, FlattenMapped DEF U
<1> QED BY <1>3, <1>6, <1>7 DEF F

\* A list is its first element, and the rest.
LEMMA FirstAndRest ==
  ASSUME NEW S, NEW s \in Seq(S), s # << >>
  PROVE  s[1] \in S /\ Tail(s) \in Seq(S) /\ Then(<<s[1]>>, Tail(s)) = s
<1> DEFINE z == <<s[1]>>
           t == Tail(s)
           r == Then(z, t)
           n == Len(s)
<1>1. n \in Nat /\ n # 0
  BY LenProperties, EmptySeq
<1>2. s[1] \in S
  BY <1>1, ElementOfSeq
<1>3. t \in Seq(S) /\ Len(t) = n - 1 /\ \A i \in 1..Len(t) : t[i] = s[i + 1]
  BY HeadTailProperties
<1>4. z \in Seq(S) /\ Len(z) = 1 /\ z[1] = s[1]
  BY <1>2
<1> HIDE DEF z, t, n
<1>5. /\ r \in Seq(S) /\ Len(r) = 1 + (n - 1)
      /\ r[1] = z[1]
      /\ \A i \in 1..(n - 1) : r[1 + i] = t[i]
  <2>1. /\ r \in Seq(S) /\ Len(r) = Len(z) + Len(t)
        /\ \A i \in 1..Len(z) : r[i] = z[i]
        /\ \A i \in 1..Len(t) : r[Len(z) + i] = t[i]
    <3>1. z \in Seq(S) /\ t \in Seq(S)
      BY <1>3, <1>4
    <3> DEFINE zt == z \o t
    <3>2. /\ zt \in Seq(S) /\ Len(zt) = Len(z) + Len(t)
          /\ \A i \in 1..Len(z) : zt[i] = z[i]
          /\ \A i \in 1..Len(t) : zt[Len(z) + i] = t[i]
      BY <3>1, ConcatElements
    <3>3. r = zt
      BY DEF Then
    <3> HIDE DEF zt, r
    <3> QED BY <3>2, <3>3
  <2> HIDE DEF r
  <2> QED BY <1>1, <1>3, <1>4, <2>1
<1> HIDE DEF r
<1>6. ASSUME NEW i \in 1..n
      PROVE  r[i] = s[i]
  <2>1. CASE i = 1
    BY <1>4, <1>5, <2>1
  <2>2. CASE i # 1
    <3> DEFINE j == i - 1
    <3>1. j \in 1..(n - 1) /\ i = 1 + j /\ i = j + 1
      BY <1>1, <2>2
    <3> HIDE DEF j
    <3> QED BY <1>3, <1>5, <3>1
  <2> QED BY <2>1, <2>2
<1>7. r = s
  BY <1>1, <1>5, <1>6, SeqEqual DEF n
<1> QED BY <1>2, <1>3, <1>7 DEF r, z, t

LEMMA FlattenFirst ==
  ASSUME NEW S, NEW s \in Seq(Seq(S)), s # << >>
  PROVE  FlattenSeq(s) = Then(s[1], FlattenSeq(Tail(s)))
<1> DEFINE z == <<s[1]>>
           t == Tail(s)
           x == s[1]
<1>1. x \in Seq(S) /\ t \in Seq(Seq(S)) /\ z \o t = s
  BY FirstAndRest DEF Then
<1>2. z = Append(<< >>, x) /\ << >> \in Seq(Seq(S))
  OBVIOUS
<1>3. z \in Seq(Seq(S))
  BY <1>1
<1> HIDE DEF z, t, x
<1>4. FlattenSeq(z \o t) = FlattenSeq(z) \o FlattenSeq(t)
  BY <1>1, <1>3, FlattenConcat
<1>5. FlattenSeq(Append(<< >>, x)) = FlattenSeq(<< >>) \o x
  BY <1>1, <1>2, FlattenAppend
<1>6. << >> \o x = x
  BY <1>1, ConcatEmptySeq
<1> QED BY <1>1, <1>2, <1>4, <1>5, <1>6, FlattenNone DEF t, x, Then

\* A block that is split comes to pieces that are its text.
LEMMA PiecesAre ==
  ASSUME NEW b, b.text \in Seq(Word)
  PROVE  SplitOversized(b) \in Seq(Seq(Word)) /\ FlattenSeq(SplitOversized(b)) = b.text
<1> DEFINE text == b.text
           lines == Lines(text)
           one == <<text>>
<1>1. lines \in Seq(Seq(Word)) /\ FlattenSeq(lines) = text
  BY LinesAre
<1> HIDE DEF text, lines
<1>2. Pack(lines, TargetChild) \in Seq(Seq(Word)) /\ FlattenSeq(Pack(lines, TargetChild)) = text
  <2> DEFINE W == Seq(Word)
  <2>1. Closed(W) /\ lines \in Seq(W)
    BY <1>1, WordsClosed
  <2> HIDE DEF W
  <2>2. Pack(lines, TargetChild) \in Seq(W) /\ FlattenSeq(Pack(lines, TargetChild)) = FlattenSeq(lines)
    BY <2>1, PackIs
  <2> QED BY <1>1, <2>2 DEF W
<1>3. one \in Seq(Seq(Word)) /\ FlattenSeq(one) = text
  <2>1. one = Append(<< >>, text) /\ << >> \in Seq(Seq(Word)) /\ text \in Seq(Word)
    BY DEF text
  <2>2. FlattenSeq(Append(<< >>, text)) = FlattenSeq(<< >>) \o text
    BY <2>1, FlattenAppend
  <2>3. << >> \o text = text
    BY <2>1, ConcatEmptySeq
  <2>4. one \in Seq(Seq(Word))
    BY <2>1
  <2> QED BY <2>1, <2>2, <2>3, <2>4, FlattenNone
<1>4. SplitOversized(b) = IF IsSplittable(b) THEN Pack(lines, TargetChild) ELSE one
  BY DEF SplitOversized, lines, text
<1> HIDE DEF one
<1> QED BY <1>2, <1>3, <1>4 DEF text

\* A block whose text, and what it is split into, are in W.
Fits(W, b) == b.text \in W /\ SplitOversized(b) \in Seq(W)

\* Children in the making; headings that nothing has followed yet.
Childings(W) == [children : Seq(W), buffer : W, content : BOOLEAN]
ChildText(acc) == FlattenSeq(acc.children) \o acc.buffer
Unhung(acc) == acc.children = << >> /\ ~acc.content

LEMMA ChildTextType ==
  ASSUME NEW W, Closed(W), NEW acc \in Childings(W)
  PROVE  /\ acc.children \in Seq(W) /\ acc.children \in Seq(Seq(Word))
         /\ acc.buffer \in W /\ acc.buffer \in Seq(Word) /\ acc.content \in BOOLEAN
         /\ FlattenSeq(acc.children) \in Seq(Word)
         /\ ChildText(acc) \in Seq(Word)
<1> DEFINE c == acc.children
           b == acc.buffer
           a == FlattenSeq(c)
<1>1. c \in Seq(W) /\ b \in W /\ acc.content \in BOOLEAN
  BY DEF Childings
<1> HIDE DEF c, b
<1>2. W \subseteq Seq(Word) /\ b \in Seq(Word)
  BY <1>1 DEF Closed
<1>3. c \in Seq(Seq(Word))
  BY <1>1, <1>2, SeqWithin
<1>4. a \in Seq(Word)
  BY <1>3, FlattenType
<1> HIDE DEF a
<1>5. a \o b \in Seq(Word)
  BY <1>2, <1>4, ConcatProperties
<1> QED BY <1>1, <1>2, <1>3, <1>4, <1>5 DEF a, b, c, ChildText

LEMMA FlushIs ==
  ASSUME NEW W, Closed(W), NEW acc \in Childings(W)
  PROVE  /\ FlushChild(acc) \in Childings(W)
         /\ acc.content => ChildText(FlushChild(acc)) = ChildText(acc) /\ ~Unhung(FlushChild(acc))
<1> DEFINE c == acc.children
           b == acc.buffer
           a == FlattenSeq(c)
           more == Append(c, b)
           none == << >>
           new == FlushChild(acc)
<1>1. /\ c \in Seq(W) /\ c \in Seq(Seq(Word)) /\ b \in W /\ b \in Seq(Word) /\ acc.content \in BOOLEAN
      /\ a \in Seq(Word) /\ a \o b \in Seq(Word) /\ ChildText(acc) = a \o b
  BY ChildTextType DEF ChildText
<1>2. new = [children |-> IF acc.content THEN more ELSE c, buffer |-> none, content |-> FALSE]
  BY DEF FlushChild
<1> HIDE DEF new, c, b
<1>3. more \in Seq(W) /\ Len(more) = Len(c) + 1 /\ Len(c) \in Nat /\ FlattenSeq(more) = a \o b
  BY <1>1, FlattenAppend, AppendProperties, LenProperties
<1>4. none \in W
  BY DEF Closed
<1> HIDE DEF more, none
<1>5. new \in Childings(W)
  BY <1>1, <1>2, <1>3, <1>4 DEF Childings
<1>6. more # << >>
  <2>1. Len(more) # 0
    BY <1>3
  <2> QED BY <2>1
<1>7. ASSUME acc.content
      PROVE  ChildText(new) = ChildText(acc) /\ ~Unhung(new)
  <2> DEFINE x == a \o b
  <2>1. ChildText(new) = FlattenSeq(more) \o none
    BY <1>2, <1>7 DEF ChildText
  <2>2. x \in Seq(Word) /\ FlattenSeq(more) = x
    BY <1>1, <1>3
  <2> HIDE DEF x
  <2>3. x \o << >> = x
    BY <2>2, ConcatEmptySeq
  <2>4. ChildText(new) = x
    BY <2>1, <2>2, <2>3 DEF none
  <2>5. ~Unhung(new)
    BY <1>2, <1>6, <1>7 DEF Unhung
  <2> QED BY <1>1, <2>4, <2>5 DEF x
<1> QED BY <1>5, <1>7 DEF new

LEMMA WholeIs ==
  ASSUME NEW W, Closed(W), NEW acc \in Childings(W), NEW b, b.text \in W
  PROVE  /\ AddWhole(acc, b) \in Childings(W)
         /\ ChildText(AddWhole(acc, b)) = Then(ChildText(acc), b.text)
         /\ Unhung(AddWhole(acc, b)) <=> Unhung(acc) /\ IsHeading(b)
<1> DEFINE c == acc.children
           u == acc.buffer
           a == FlattenSeq(c)
           t == b.text
           ut == u \o t
           new == AddWhole(acc, b)
<1>1. /\ c \in Seq(W) /\ u \in W /\ u \in Seq(Word) /\ acc.content \in BOOLEAN
      /\ a \in Seq(Word) /\ ChildText(acc) = a \o u
  BY ChildTextType DEF ChildText
<1>2. new = [children |-> c, buffer |-> ut, content |-> acc.content \/ ~IsHeading(b)]
  BY DEF AddWhole
<1>3. t \in W /\ t \in Seq(Word) /\ ut \in W
  BY <1>1 DEF Closed
<1> HIDE DEF new, c, u, t, a
<1>4. Then(Then(a, u), t) = Then(a, Then(u, t))
  BY <1>1, <1>3, ThenThen
<1> HIDE DEF ut
<1>5. new \in Childings(W)
  BY <1>1, <1>2, <1>3 DEF Childings
<1>6. ChildText(new) = a \o ut
  BY <1>2 DEF ChildText, a
<1>7. Unhung(new) <=> Unhung(acc) /\ IsHeading(b)
  BY <1>1, <1>2 DEF Unhung, c
<1>8. ChildText(new) = Then(ChildText(acc), t)
  BY <1>1, <1>4, <1>6 DEF Then, ut
<1> QED BY <1>5, <1>7, <1>8 DEF new, t

LEMMA PiecesAdded ==
  ASSUME NEW W, Closed(W), NEW acc \in Childings(W), NEW pieces \in Seq(W), pieces # << >>
  PROVE  /\ AddPieces(acc, pieces) \in Childings(W)
         /\ ChildText(AddPieces(acc, pieces)) = Then(ChildText(acc), FlattenSeq(pieces))
         /\ ~Unhung(AddPieces(acc, pieces))
<1> DEFINE c == FlushChild(acc).children
           u == acc.buffer
           p == pieces[1]
           rest == Tail(pieces)
           first == IF acc.content THEN p ELSE u \o p
           one == <<first>>
           front == c \o one
           all == front \o rest
           none == << >>
           new == AddPieces(acc, pieces)
           a == FlattenSeq(c)
           r == FlattenSeq(rest)
<1>0. W \subseteq Seq(Word)
  BY DEF Closed
<1>1. /\ acc.buffer \in W /\ acc.buffer \in Seq(Word) /\ acc.content \in BOOLEAN
      /\ ChildText(acc) = FlattenSeq(acc.children) \o u /\ ChildText(acc) \in Seq(Word)
  BY ChildTextType DEF ChildText
<1>2. p \in W /\ rest \in Seq(W)
  BY FirstAndRest
<1>3. c \in Seq(W)
  BY FlushIs DEF Childings
<1>4. pieces \in Seq(Seq(Word)) /\ rest \in Seq(Seq(Word)) /\ p \in Seq(Word) /\ c \in Seq(Seq(Word))
  <2> HIDE DEF c, rest, p
  <2> QED BY <1>0, <1>2, <1>3, SeqWithin
<1>5. FlattenSeq(pieces) = Then(p, r) /\ r \in Seq(Word) /\ a \in Seq(Word)
  <2>1. FlattenSeq(pieces) = Then(p, r)
    BY <1>4, FlattenFirst
  <2> HIDE DEF c, rest
  <2> QED BY <1>4, <2>1, FlattenType
<1>6. new = [children |-> all, buffer |-> none, content |-> FALSE]
  BY DEF AddPieces
<1>7. ASSUME acc.content
      PROVE  ChildText(acc) = a
  <2> DEFINE f == FlushChild(acc)
             fb == f.buffer
  <2>1. ChildText(f) = ChildText(acc) /\ ChildText(f) = a \o fb
    BY <1>7, FlushIs DEF ChildText
  <2>2. fb = << >>
    BY DEF FlushChild
  <2> HIDE DEF f, fb, a
  <2>3. a \o << >> = a
    BY <1>5, ConcatEmptySeq
  <2> QED BY <2>1, <2>2, <2>3
<1>8. ~acc.content => c = acc.children
  BY DEF FlushChild
<1> HIDE DEF c, p, rest, u, new
<1>9. u \o p \in W /\ u \in Seq(Word)
  BY <1>1, <1>2 DEF Closed, u
<1>10. first \in W /\ first \in Seq(Word)
  BY <1>0, <1>2, <1>9
<1> HIDE DEF first
<1>11. one \in Seq(W) /\ one \in Seq(Seq(Word)) /\ Len(one) = 1
  BY <1>10
<1>12. FlattenSeq(one) = first
  <2>1. one = Append(<< >>, first) /\ << >> \in Seq(Seq(Word))
    OBVIOUS
  <2>2. FlattenSeq(Append(<< >>, first)) = FlattenSeq(<< >>) \o first
    BY <1>10, <2>1, FlattenAppend
  <2>3. << >> \o first = first
    BY <1>10, ConcatEmptySeq
  <2> QED BY <2>1, <2>2, <2>3, FlattenNone
<1> HIDE DEF one
<1>13. front \in Seq(W) /\ front \in Seq(Seq(Word)) /\ Len(front) = Len(c) + 1 /\ Len(c) \in Nat
  <2>1. front \in Seq(W)
    BY <1>3, <1>11, ConcatProperties
  <2>2. Len(front) = Len(c) + Len(one)
    BY <1>3, <1>11, ConcatProperties
  <2>3. Len(c) \in Nat
    BY <1>3, LenProperties
  <2> HIDE DEF front
  <2>4. front \in Seq(Seq(Word))
    BY <1>0, <2>1, SeqWithin
  <2> QED BY <1>11, <2>1, <2>2, <2>3, <2>4
<1>14. FlattenSeq(front) = a \o first
  BY <1>4, <1>11, <1>12, FlattenConcat
<1> HIDE DEF front
<1>15. all \in Seq(W) /\ Len(all) = Len(front) + Len(rest) /\ Len(rest) \in Nat
  BY <1>2, <1>13, ConcatProperties, LenProperties
<1>16. FlattenSeq(all) = (a \o first) \o r
  BY <1>4, <1>13, <1>14, FlattenConcat
<1>17. none \in W
  BY DEF Closed
<1> HIDE DEF all, none
<1>18. new \in Childings(W)
  BY <1>6, <1>15, <1>17 DEF Childings
<1>19. ~Unhung(new)
  <2>1. Len(all) # 0
    BY <1>13, <1>15
  <2>2. all # << >>
    BY <2>1
  <2> QED BY <1>6, <2>2 DEF Unhung
<1>20. ChildText(new) = Then(Then(a, first), r)
  <2> DEFINE x == (a \o first) \o r
  <2>1. ChildText(new) = FlattenSeq(all) \o none
    BY <1>6 DEF ChildText
  <2>2. x \in Seq(Word)
    <3> DEFINE y == a \o first
    <3>1. y \in Seq(Word)
      <4> HIDE DEF a
      <4> QED BY <1>5, <1>10, ConcatProperties
    <3> HIDE DEF y, r
    <3>2. y \o r \in Seq(Word)
      BY <1>5, <3>1, ConcatProperties
    <3> QED BY <3>2 DEF y
  <2>3. FlattenSeq(all) = x
    BY <1>16
  <2> HIDE DEF x
  <2>4. x \o << >> = x
    BY <2>2, ConcatEmptySeq
  <2> QED BY <2>1, <2>3, <2>4 DEF none, x, Then
<1> HIDE DEF a, r
<1>21. Then(Then(a, first), r) = Then(ChildText(acc), Then(p, r))
  <2>1. CASE acc.content
    <3>1. first = p /\ ChildText(acc) = a
      BY <1>7, <2>1 DEF first
    <3> QED BY <1>4, <1>5, <3>1, ThenThen
  <2>2. CASE ~acc.content
    <3>1. first = Then(u, p) /\ ChildText(acc) = Then(a, u)
      BY <1>1, <1>8, <2>2 DEF first, Then, a
    <3>2. Then(Then(a, u), p) = Then(a, Then(u, p))
      BY <1>4, <1>5, <1>9, ThenThen
    <3> DEFINE w == Then(a, u)
    <3>3. w \in Seq(Word)
      BY <1>1, <3>1
    <3> HIDE DEF w
    <3>4. Then(Then(w, p), r) = Then(w, Then(p, r))
      BY <1>4, <1>5, <3>3, ThenThen
    <3> QED BY <3>1, <3>2, <3>4 DEF w
  <2> QED BY <2>1, <2>2
<1> QED BY <1>5, <1>18, <1>19, <1>20, <1>21 DEF new

\* The blocks of B, and what they are split into, are in W.
AllFit(W, B) == \A b \in B : Fits(W, b)

\* A heading that is no chunk of its own.
Short(b) == IsHeading(b) /\ Len(b.text) <= MaxChild
HeadingsOnly(bs) == \A i \in 1..Len(bs) : Short(bs[i])

LEMMA PackedBlock ==
  ASSUME NEW W, Closed(W), NEW acc \in Childings(W), NEW b, Fits(W, b)
  PROVE  /\ PackBlock(acc, b) \in Childings(W)
         /\ ChildText(PackBlock(acc, b)) = Then(ChildText(acc), b.text)
         /\ Unhung(PackBlock(acc, b)) <=> Unhung(acc) /\ Short(b)
<1> DEFINE t == b.text
           pieces == SplitOversized(b)
<1>1. t \in W /\ t \in Seq(Word) /\ pieces \in Seq(W)
  BY DEF Fits, Closed
<1>2. FlattenSeq(pieces) = t
  BY <1>1, PiecesAre
<1> HIDE DEF t, pieces
<1>3. Len(t) \in Nat /\ MaxChild \in Nat
  BY <1>1, LenProperties, ChunkerAssumption
<1>4. CASE Len(t) > MaxChild
  <2>1. PackBlock(acc, b) = AddPieces(acc, pieces)
    BY <1>4 DEF PackBlock, t, pieces
  <2>2. pieces # << >>
    <3>1. SUFFICES ASSUME pieces = << >> PROVE FALSE
      OBVIOUS
    <3>2. t = << >>
      BY <1>2, <3>1, FlattenNone
    <3>3. Len(t) = 0
      BY <3>2
    <3> QED BY <1>3, <1>4, <3>3
  <2>3. ~Short(b)
    BY <1>3, <1>4 DEF Short, t
  <2>4. /\ AddPieces(acc, pieces) \in Childings(W)
        /\ ChildText(AddPieces(acc, pieces)) = Then(ChildText(acc), FlattenSeq(pieces))
        /\ ~Unhung(AddPieces(acc, pieces))
    BY <1>1, <2>2, PiecesAdded
  <2> QED BY <1>2, <2>1, <2>3, <2>4 DEF t
<1>5. CASE ~(Len(t) > MaxChild) /\ acc.content /\ Len(acc.buffer) + Len(t) > TargetChild
  <2> DEFINE f == FlushChild(acc)
  <2>1. PackBlock(acc, b) = AddWhole(f, b)
    BY <1>5 DEF PackBlock, t
  <2>2. f \in Childings(W) /\ ChildText(f) = ChildText(acc) /\ ~Unhung(f)
    BY <1>5, FlushIs
  <2>3. ~Unhung(acc)
    BY <1>5 DEF Unhung
  <2> HIDE DEF f
  <2>4. /\ AddWhole(f, b) \in Childings(W)
        /\ ChildText(AddWhole(f, b)) = Then(ChildText(f), b.text)
        /\ Unhung(AddWhole(f, b)) <=> Unhung(f) /\ IsHeading(b)
    BY <1>1, <2>2, WholeIs DEF t
  <2> QED BY <2>1, <2>2, <2>3, <2>4
<1>6. CASE ~(Len(t) > MaxChild) /\ ~(acc.content /\ Len(acc.buffer) + Len(t) > TargetChild)
  <2>1. PackBlock(acc, b) = AddWhole(acc, b)
    BY <1>6 DEF PackBlock, t
  <2>2. Short(b) <=> IsHeading(b)
    BY <1>3, <1>6 DEF Short, t
  <2>3. /\ AddWhole(acc, b) \in Childings(W)
        /\ ChildText(AddWhole(acc, b)) = Then(ChildText(acc), b.text)
        /\ Unhung(AddWhole(acc, b)) <=> Unhung(acc) /\ IsHeading(b)
    BY <1>1, WholeIs DEF t
  <2> QED BY <2>1, <2>2, <2>3
<1> QED BY <1>4, <1>5, <1>6

LEMMA BlockPacked ==
  ASSUME NEW W, Closed(W), NEW B, AllFit(W, B)
  PROVE  /\ NoChildren \in Childings(W) /\ ChildText(NoChildren) = << >> /\ Unhung(NoChildren)
         /\ \A acc \in Childings(W) : \A b \in B :
              /\ PackBlock(acc, b) \in Childings(W)
              /\ ChildText(PackBlock(acc, b)) = Then(ChildText(acc), b.text)
              /\ Unhung(PackBlock(acc, b)) <=> Unhung(acc) /\ Short(b)
<1>1. NoChildren \in Childings(W) /\ ChildText(NoChildren) = << >> /\ Unhung(NoChildren)
  <2>1. << >> \in W /\ << >> \in Seq(W) /\ << >> \o << >> = << >>
    BY DEF Closed
  <2> QED BY <2>1, FlattenNone DEF NoChildren, Childings, ChildText, Unhung
<1>2. ASSUME NEW acc \in Childings(W), NEW b \in B
      PROVE  /\ PackBlock(acc, b) \in Childings(W)
             /\ ChildText(PackBlock(acc, b)) = Then(ChildText(acc), b.text)
             /\ Unhung(PackBlock(acc, b)) <=> Unhung(acc) /\ Short(b)
  <2>1. Fits(W, b)
    BY DEF AllFit
  <2> QED BY <2>1, PackedBlock
<1> QED BY <1>1, <1>2

\* The run of Children.
ChildrenRun(g, bs, W, B) ==
  /\ g \in [0..Len(bs) -> Childings(W)] /\ g[0] = NoChildren
  /\ \A i \in 1..Len(bs) : g[i] = PackBlock(g[i - 1], bs[i]) /\ g[i - 1] \in Childings(W) /\ bs[i] \in B
  /\ Children(bs) = g[Len(bs)] /\ g[Len(bs)] \in Childings(W)

LEMMA ChildrenRuns ==
  ASSUME NEW W, Closed(W), NEW B, AllFit(W, B), NEW bs \in Seq(B)
  PROVE  \E g : ChildrenRun(g, bs, W, B)
<1> DEFINE n == Len(bs)
           V == Childings(W)
           first == NoChildren
           next == [i \in 1..n |-> [acc \in V |-> PackBlock(acc, bs[i])]]
           IsRun(g) == g = [i \in 0..n |-> IF i = 0 THEN first ELSE PackBlock(g[i - 1], bs[i])]
           F == CHOOSE g : IsRun(g)
<1>1. n \in Nat /\ \A i \in 1..n : bs[i] \in B
  BY LenProperties, ElementOfSeq
<1>2. \A i \in 1..n : \A acc \in V : PackBlock(acc, bs[i]) \in V
  <2> HIDE DEF n
  <2> QED BY <1>1, BlockPacked
<1>3. first \in V
  BY BlockPacked
<1>4. next \in [1..n -> [V -> V]] /\ \A i \in 1..n : \A acc \in V : next[i][acc] = PackBlock(acc, bs[i])
  <2> HIDE DEF n, V
  <2> QED BY <1>2
<1> HIDE DEF n, V, first, next
<1>5. PICK h : Walks(h, V, first, n, next)
  BY <1>1, <1>3, <1>4, StepsExist
<1>6. IsRun(h)
  <2>1. \A i \in 0..n : i = 0 \/ (i \in 1..n /\ i - 1 \in 0..n)
    BY <1>1
  <2>2. \A i \in 0..n : h[i] = IF i = 0 THEN first ELSE PackBlock(h[i - 1], bs[i])
    BY <1>4, <1>5, <2>1 DEF Walks
  <2>3. h \in [0..n -> V]
    BY <1>5 DEF Walks
  <2> QED BY <2>2, <2>3
<1>7. IsRun(F)
  <2> HIDE DEF IsRun
  <2> QED BY <1>6
<1>8. Children(bs) = F[n]
  BY DEF Children, n, first
<1> HIDE DEF F
<1>9. F[0] = first /\ DOMAIN F = 0..n /\ F = [i \in 0..n |-> F[i]] /\ \A i \in 1..n : F[i] = PackBlock(F[i - 1], bs[i])
  <2>1. 0 \in 0..n /\ \A i \in 1..n : i \in 0..n /\ i # 0
    BY <1>1
  <2> QED BY <1>7, <2>1
<1> HIDE DEF IsRun
<1> DEFINE P == {m \in Nat : m <= n => F[m] \in V}
<1>10. 0 \in P
  BY <1>3, <1>9
<1>11. ASSUME NEW m \in Nat, m \in P PROVE m + 1 \in P
  <2> SUFFICES ASSUME m + 1 <= n PROVE F[m + 1] \in V
    OBVIOUS
  <2>1. m + 1 \in 1..n /\ (m + 1) - 1 = m /\ F[m] \in V
    BY <1>1, <1>11
  <2> HIDE DEF P
  <2>2. F[m + 1] = PackBlock(F[(m + 1) - 1], bs[m + 1])
    BY <1>9, <2>1
  <2> QED BY <1>2, <2>1, <2>2
<1> HIDE DEF P
<1>12. Nat \subseteq P
  BY <1>10, <1>11, Induction
<1>13. \A i \in 0..n : F[i] \in V
  <2>1. \A i \in 0..n : i \in Nat /\ i <= n
    BY <1>1
  <2> QED BY <1>12, <2>1 DEF P
<1>14. F \in [0..n -> V]
  BY <1>9, <1>13
<1>15. \A i \in 1..n : F[i - 1] \in V
  <2>1. \A i \in 1..n : i - 1 \in 0..n
    BY <1>1
  <2> QED BY <1>13, <2>1
<1>16. F[n] \in V
  BY <1>1, <1>13
<1> QED BY <1>1, <1>8, <1>9, <1>14, <1>15, <1>16 DEF ChildrenRun, n, V, first

LEMMA FittingTexts ==
  ASSUME NEW W, NEW B, AllFit(W, B)
  PROVE  Worded(B, W)
BY DEF AllFit, Fits, Worded

LEMMA ChildrenAre ==
  ASSUME NEW W, Closed(W), NEW B, AllFit(W, B), NEW bs \in Seq(B)
  PROVE  /\ Children(bs) \in Childings(W)
         /\ ChildText(Children(bs)) = Text(bs)
         /\ Unhung(Children(bs)) <=> HeadingsOnly(bs)
<1>1. PICK g : ChildrenRun(g, bs, W, B)
  BY ChildrenRuns
<1> DEFINE n == Len(bs)
           f == [i \in 0..n |-> ChildText(g[i])]
           m == Mapped(TextFn(B), bs)
<1>2. n \in Nat
  BY LenProperties
<1>3. ASSUME NEW i \in 1..n
      PROVE  /\ ChildText(g[i]) = Then(ChildText(g[i - 1]), bs[i].text)
             /\ Unhung(g[i]) <=> Unhung(g[i - 1]) /\ Short(bs[i])
  <2> DEFINE acc == g[i - 1]
             b == bs[i]
  <2>1. acc \in Childings(W) /\ b \in B /\ g[i] = PackBlock(acc, b)
    BY <1>1 DEF ChildrenRun
  <2> HIDE DEF acc, b
  <2>2. /\ ChildText(PackBlock(acc, b)) = Then(ChildText(acc), b.text)
        /\ Unhung(PackBlock(acc, b)) <=> Unhung(acc) /\ Short(b)
    BY <2>1, BlockPacked
  <2> QED BY <2>1, <2>2 DEF acc, b
<1>4. \A i \in 0..n : g[i] \in Childings(W) /\ ChildText(g[i]) \in Seq(Word)
  <2>1. \A i \in 0..n : g[i] \in Childings(W)
    BY <1>1 DEF ChildrenRun
  <2> QED BY <2>1, ChildTextType
<1>5. ChildText(g[0]) = << >> /\ Unhung(g[0])
  BY <1>1, BlockPacked DEF ChildrenRun
<1>6. f \in [0..n -> Seq(Word)] /\ f[0] = << >> /\ f[n] = ChildText(g[n])
  <2>1. 0 \in 0..n /\ n \in 0..n
    BY <1>2
  <2> QED BY <1>4, <1>5, <2>1
<1>7. /\ Worded(B, W) /\ m \in Seq(W) /\ Text(bs) = FlattenSeq(m)
      /\ Len(m) = n /\ \A i \in 1..n : m[i] = bs[i].text
  <2>1. Worded(B, W)
    BY FittingTexts
  <2>2. Maps(TextFn(B), B, W) /\ m \in Seq(W) /\ Text(bs) = FlattenSeq(m)
    BY <2>1, TextIs
  <2>3. Len(m) = n /\ \A i \in 1..n : m[i] = TextFn(B)[bs[i]] /\ bs[i] \in B
    BY <2>2, MappedIs
  <2>4. \A b \in B : TextFn(B)[b] = b.text
    BY DEF TextFn
  <2> HIDE DEF m
  <2> QED BY <2>1, <2>2, <2>3, <2>4
<1> HIDE DEF m
<1>8. \A i \in 1..n : f[i] = f[i - 1] \o m[i]
  <2>1. \A i \in 1..n : i \in 0..n /\ i - 1 \in 0..n
    BY <1>2
  <2> QED BY <1>3, <1>7, <2>1 DEF Then
<1> HIDE DEF f
<1>9. Joins(f, m, Word)
  BY <1>6, <1>7, <1>8 DEF Joins
<1>10. m \in Seq(Seq(Word))
  BY <1>7, SeqWithin DEF Closed
<1>11. FlattenSeq(m) = f[Len(m)]
  BY <1>9, <1>10, FlattenJoins
<1> DEFINE P == {k \in Nat : k <= n => (Unhung(g[k]) <=> \A j \in 1..k : Short(bs[j]))}
<1>12. 0 \in P
  BY <1>5
<1>13. ASSUME NEW k \in Nat, k \in P PROVE k + 1 \in P
  <2> SUFFICES ASSUME k + 1 <= n
               PROVE  Unhung(g[k + 1]) <=> \A j \in 1..(k + 1) : Short(bs[j])
    OBVIOUS
  <2>1. k + 1 \in 1..n /\ (k + 1) - 1 = k /\ (Unhung(g[k]) <=> \A j \in 1..k : Short(bs[j]))
    BY <1>2, <1>13
  <2> HIDE DEF P
  <2>2. Unhung(g[k + 1]) <=> Unhung(g[(k + 1) - 1]) /\ Short(bs[k + 1])
    BY <1>3, <2>1
  <2>3. \A j \in 1..(k + 1) : j = k + 1 \/ j \in 1..k
    OBVIOUS
  <2>4. \A j \in 1..k : j \in 1..(k + 1)
    OBVIOUS
  <2>5. k + 1 \in 1..(k + 1)
    OBVIOUS
  <2> QED BY <2>1, <2>2, <2>3, <2>4, <2>5
<1> HIDE DEF P
<1>14. n \in P
  BY <1>2, <1>12, <1>13, Induction
<1>15. Unhung(g[n]) <=> HeadingsOnly(bs)
  BY <1>2, <1>14 DEF P, HeadingsOnly
<1> QED BY <1>1, <1>6, <1>7, <1>11, <1>15 DEF ChildrenRun

LEMMA NonemptyIs ==
  ASSUME NEW W, Closed(W), NEW texts \in Seq(W)
  PROVE  Nonempty(texts) \in Seq(W) /\ FlattenSeq(Nonempty(texts)) = FlattenSeq(texts)
<1> DEFINE same == [w \in W |-> w]
           K == {i \in DOMAIN texts : texts[i] # << >>}
           T == Seq(Word)
           kept == Picked(texts, K)
<1>1. \A s \in Seq(W) : Mapped(same, s) = s
  <2> SUFFICES ASSUME NEW s \in Seq(W) PROVE Mapped(same, s) = s
    OBVIOUS
  <2>1. s = [i \in DOMAIN s |-> s[i]] /\ \A i \in DOMAIN s : s[i] \in W
    BY LenProperties, ElementOfSeq
  <2> QED BY <2>1 DEF Mapped
<1>2. Maps(same, W, T)
  BY DEF Maps, Closed
<1>3. \A i \in 1..Len(texts) : i \notin K => same[texts[i]] = << >>
  BY LenProperties, ElementOfSeq
<1>4. kept \in Seq(W)
  BY PickedLocates
<1> HIDE DEF same, K, kept
<1>5. FlattenSeq(Mapped(same, Picked(texts, K))) = FlattenSeq(Mapped(same, texts))
  BY <1>2, <1>3, FlattenPicked
<1>6. Nonempty(texts) = kept
  BY DEF Nonempty, kept, K
<1> QED BY <1>1, <1>4, <1>5, <1>6 DEF kept

\* Everything a section says is in its children, unless it says nothing but headings.
LEMMA PackChildrenIs ==
  ASSUME NEW W, Closed(W), NEW B, AllFit(W, B), NEW bs \in Seq(B)
  PROVE  /\ PackChildren(bs) \in Seq(W)
         /\ FlattenSeq(PackChildren(bs)) = IF HeadingsOnly(bs) THEN << >> ELSE Text(bs)
<1> DEFINE last == Children(bs)
           c == last.children
           u == last.buffer
           n == Len(c)
           y == c[n] \o u
           all == IF last.content \/ n = 0 THEN FlushChild(last).children
                  ELSE [c EXCEPT ![n] = @ \o u]
<1>1. /\ last \in Childings(W) /\ ChildText(last) = Text(bs)
      /\ Unhung(last) <=> HeadingsOnly(bs)
  BY ChildrenAre
<1>2. PackChildren(bs) = Nonempty(all)
  BY DEF PackChildren
<1> HIDE DEF last
<1>3. /\ c \in Seq(W) /\ c \in Seq(Seq(Word)) /\ u \in W /\ u \in Seq(Word) /\ last.content \in BOOLEAN
      /\ FlattenSeq(c) \in Seq(Word) /\ ChildText(last) = FlattenSeq(c) \o u
  BY <1>1, ChildTextType DEF ChildText
<1>4. n \in Nat /\ (n = 0 <=> c = << >>)
  BY <1>3, LenProperties, EmptySeq
<1>5. all \in Seq(W) /\ FlattenSeq(all) = IF HeadingsOnly(bs) THEN << >> ELSE Text(bs)
  <2>1. CASE last.content
    <3> DEFINE more == Append(c, u)
    <3>1. all = more
      BY <2>1 DEF FlushChild
    <3> HIDE DEF c, u, all
    <3>2. more \in Seq(W) /\ FlattenSeq(more) = FlattenSeq(c) \o u
      BY <1>3, FlattenAppend, AppendProperties
    <3>3. ~HeadingsOnly(bs)
      BY <1>1, <2>1 DEF Unhung
    <3> HIDE DEF more
    <3> QED BY <1>1, <1>3, <3>1, <3>2, <3>3
  <2>2. CASE ~last.content /\ n = 0
    <3>1. all = c /\ c = << >>
      BY <1>4, <2>2 DEF FlushChild
    <3>2. HeadingsOnly(bs)
      BY <1>1, <2>2, <3>1 DEF Unhung
    <3> HIDE DEF c, all
    <3> QED BY <1>3, <3>1, <3>2, FlattenNone
  <2>3. CASE ~last.content /\ n # 0
    <3>1. all = Replaced(c, y)
      BY <2>3 DEF Replaced
    <3>2. ~HeadingsOnly(bs) /\ c # << >>
      BY <1>1, <1>4, <2>3 DEF Unhung
    <3>3. n \in 1..n
      BY <1>4, <2>3
    <3> HIDE DEF c, u, all
    <3>4. c[n] \in W
      BY <1>3, <3>3, ElementOfSeq
    <3>5. y \in W /\ y \in Seq(Word) /\ Prolongs(y, c, u)
      BY <1>3, <3>4 DEF Closed, Prolongs
    <3> HIDE DEF y
    <3>6. Replaced(c, y) \in Seq(W)
      BY <1>3, <3>2, <3>5, ReplacedIs
    <3>7. FlattenSeq(Replaced(c, y)) = FlattenSeq(c) \o u
      BY <1>3, <3>2, <3>5, LastExtended
    <3> QED BY <1>1, <1>3, <3>1, <3>2, <3>6, <3>7
  <2> QED BY <1>3, <2>1, <2>2, <2>3
<1> HIDE DEF all
<1> QED BY <1>2, <1>5, NonemptyIs

\* One function after another.
Composes(h, g, f, S) == \A x \in S : h[x] = g[f[x]]

LEMMA MappedMapped ==
  ASSUME NEW S, NEW T, NEW f, Maps(f, S, T), NEW g, NEW h, Composes(h, g, f, S),
         NEW s \in Seq(S)
  PROVE  Mapped(g, Mapped(f, s)) = Mapped(h, s)
<1> DEFINE m == Mapped(f, s)
<1>1. m \in Seq(T) /\ Len(m) = Len(s) /\ \A i \in 1..Len(s) : m[i] = f[s[i]] /\ s[i] \in S
  BY MappedIs
<1>2. DOMAIN m = 1..Len(s) /\ DOMAIN s = 1..Len(s)
  BY <1>1, LenProperties
<1> HIDE DEF m
<1>3. \A i \in 1..Len(s) : g[m[i]] = h[s[i]]
  BY <1>1 DEF Composes
<1>4. [i \in DOMAIN m |-> g[m[i]]] = [i \in DOMAIN s |-> h[s[i]]]
  BY <1>2, <1>3
<1> QED BY <1>4 DEF Mapped, m

\* The chunks of a section are its children.
ChunkType(W, B) ==
  [text : W, path : {HeadingPath(s) : s \in Seq(B)}, context : {Truncate(Text(s)) : s \in Seq(B)}]

LEMMA ChunksWorded ==
  ASSUME NEW W, NEW B
  PROVE  Worded(ChunkType(W, B), W)
BY DEF Worded, ChunkType

LEMMA SectionChunksAre ==
  ASSUME NEW W, Closed(W), NEW B, AllFit(W, B), NEW s \in Seq(B)
  PROVE  /\ SectionChunks(s) \in Seq(ChunkType(W, B))
         /\ Text(SectionChunks(s)) = IF HeadingsOnly(s) THEN << >> ELSE Text(s)
<1> DEFINE c == PackChildren(s)
           n == Len(c)
           path == HeadingPath(s)
           parent == Truncate(Text(s))
           C == ChunkType(W, B)
           x == SectionChunks(s)
<1>1. c \in Seq(W) /\ FlattenSeq(c) = IF HeadingsOnly(s) THEN << >> ELSE Text(s)
  BY PackChildrenIs
<1>2. x = [i \in DOMAIN c |-> [text |-> c[i], path |-> path, context |-> parent]]
  BY DEF SectionChunks
<1>3. \A w \in W : [text |-> w, path |-> path, context |-> parent] \in C
  BY DEF ChunkType
<1> HIDE DEF c, path, parent, C, x
<1>4. n \in Nat /\ DOMAIN c = 1..n /\ \A i \in 1..n : c[i] \in W
  BY <1>1, LenProperties, ElementOfSeq
<1>5. x \in [1..n -> C] /\ DOMAIN x = DOMAIN c
  BY <1>2, <1>3, <1>4
<1>6. x \in Seq(C)
  BY <1>4, <1>5
<1>7. [i \in DOMAIN x |-> x[i].text] = c
  <2>1. \A i \in DOMAIN c : x[i].text = c[i]
    BY <1>2
  <2>2. c = [i \in DOMAIN c |-> c[i]]
    BY <1>1, <1>4, LenProperties, ElementOfSeq
  <2> QED BY <1>5, <2>1, <2>2
<1>8. Text(x) = FlattenSeq(c)
  BY <1>7 DEF Text
<1> QED BY <1>1, <1>6, <1>8 DEF x, C

\* What a section says, if it says more than headings.
Spoken(B) == [s \in Seq(B) |-> IF HeadingsOnly(s) THEN << >> ELSE Text(s)]

LEMMA SpokenMaps ==
  ASSUME NEW W, Closed(W), NEW B, AllFit(W, B)
  PROVE  Maps(Spoken(B), Seq(B), Seq(Word))
<1>1. \A s \in Seq(B) : Text(s) \in Seq(Word)
  BY FittingTexts, TextType
<1>2. << >> \in Seq(Word)
  OBVIOUS
<1> QED BY <1>1, <1>2 DEF Maps, Spoken

MergedSections(bs) == MergeSmall(Sections(bs))

LEMMA MergedSectionsAre ==
  ASSUME NEW B, NEW bs \in Seq(B)
  PROVE  MergedSections(bs) \in Seq(Seq(B)) /\ FlattenSeq(MergedSections(bs)) = bs
<1> DEFINE sections == Sections(bs)
<1>1. sections \in Seq(Seq(B)) /\ FlattenSeq(sections) = bs
  BY SectionsAre
<1> HIDE DEF sections
<1>2. MergeSmall(sections) \in Seq(Seq(B)) /\ FlattenSeq(MergeSmall(sections)) = FlattenSeq(sections)
  BY <1>1, MergeSmallIs
<1> QED BY <1>1, <1>2 DEF MergedSections, sections

LEMMA StructureAwareIs ==
  ASSUME NEW W, Closed(W), NEW B, AllFit(W, B), NEW bs \in Seq(B)
  PROVE  /\ StructureAware(bs) \in Seq(ChunkType(W, B))
         /\ Text(StructureAware(bs)) = FlattenSeq(Mapped(Spoken(B), MergedSections(bs)))
<1> DEFINE U == Seq(B)
           C == ChunkType(W, B)
           V == Seq(C)
           merged == MergedSections(bs)
           K == {i \in DOMAIN merged : Text(merged[i]) # << >>}
           sections == Picked(merged, K)
           f == [s \in U |-> SectionChunks(s)]
           groups == Mapped(f, sections)
           E == Spoken(B)
<1>1. merged \in Seq(U)
  BY MergedSectionsAre
<1>2. StructureAware(bs) = FlattenSeq([i \in DOMAIN sections |-> SectionChunks(sections[i])])
  BY DEF StructureAware, MergedSections
<1>3. \A s \in U : SectionChunks(s) \in V /\ Text(SectionChunks(s)) = E[s]
  <2> SUFFICES ASSUME NEW s \in U
               PROVE  SectionChunks(s) \in V /\ Text(SectionChunks(s)) = E[s]
    OBVIOUS
  <2>1. E[s] = IF HeadingsOnly(s) THEN << >> ELSE Text(s)
    BY DEF Spoken
  <2>2. /\ SectionChunks(s) \in Seq(ChunkType(W, B))
        /\ Text(SectionChunks(s)) = IF HeadingsOnly(s) THEN << >> ELSE Text(s)
    BY SectionChunksAre
  <2> QED BY <2>1, <2>2
<1> HIDE DEF V, merged
<1>4. \A i \in 1..Len(merged) : i \notin K => E[merged[i]] = << >>
  <2>1. \A i \in 1..Len(merged) : i \in DOMAIN merged /\ merged[i] \in U
    BY <1>1, LenProperties, ElementOfSeq
  <2> QED BY <2>1 DEF Spoken
<1> HIDE DEF K
<1>5. sections \in Seq(U)
  BY <1>1, PickedLocates
<1>6. FlattenSeq(Mapped(E, sections)) = FlattenSeq(Mapped(E, merged))
  <2>1. Maps(E, U, Seq(Word))
    BY SpokenMaps
  <2> HIDE DEF U, E
  <2> QED BY <1>1, <1>4, <2>1, FlattenPicked
<1> HIDE DEF sections
<1>7. Maps(f, U, V)
  <2> HIDE DEF U
  <2> QED BY <1>3 DEF Maps
<1>8. groups = [i \in DOMAIN sections |-> SectionChunks(sections[i])]
  <2>1. \A i \in DOMAIN sections : sections[i] \in U
    BY <1>5, LenProperties, ElementOfSeq
  <2> QED BY <2>1 DEF Mapped
<1> HIDE DEF U
<1>9. groups \in Seq(V)
  <2> HIDE DEF f
  <2> QED BY <1>5, <1>7, MappedIs
<1> HIDE DEF groups, C
<1>10. StructureAware(bs) = FlattenSeq(groups)
  BY <1>2, <1>8
<1>11. FlattenSeq(groups) \in Seq(C)
  BY <1>9, FlattenType DEF V
<1> DEFINE G == SectionText(C)
<1>12. Worded(C, W)
  BY ChunksWorded DEF C
<1>13. Maps(G, V, Seq(Word)) /\ Text(FlattenSeq(groups)) = FlattenSeq(Mapped(G, groups))
  BY <1>9, <1>12, TextFlatten DEF V
<1>14. Composes(E, G, f, U)
  <2>1. \A s \in U : f[s] \in V /\ f[s] = SectionChunks(s)
    BY <1>3
  <2>2. \A x \in V : G[x] = Text(x)
    BY DEF SectionText, V
  <2> HIDE DEF f, G, E
  <2> QED BY <1>3, <2>1, <2>2 DEF Composes
<1> HIDE DEF f, G, E
<1>15. Mapped(G, Mapped(f, sections)) = Mapped(E, sections)
  BY <1>5, <1>7, <1>14, MappedMapped
<1> QED BY <1>6, <1>10, <1>11, <1>13, <1>15 DEF groups, C, E, merged

\* A text without certain words.
Without(t, X) == Picked(t, {i \in DOMAIN t : t[i] \notin X})

LEMMA WithoutNone == \A X : Without(<< >>, X) = << >>
BY PickedEmpty DEF Without

LEMMA WithoutType ==
  ASSUME NEW t \in Seq(Word), NEW X
  PROVE  Without(t, X) \in Seq(Word)
BY PickedLocates DEF Without

LEMMA WithoutConcat ==
  ASSUME NEW s \in Seq(Word), NEW t \in Seq(Word), NEW X
  PROVE  Without(s \o t, X) = Without(s, X) \o Without(t, X)
<1> DEFINE st == s \o t
           m == Len(s)
           n == Len(t)
           K == {i \in DOMAIN st : st[i] \notin X}
           KS == {i \in DOMAIN s : s[i] \notin X}
           KT == {i \in DOMAIN t : t[i] \notin X}
           L == {i \in 1..n : m + i \in K}
<1>1. /\ st \in Seq(Word) /\ Len(st) = m + n /\ m \in Nat /\ n \in Nat
      /\ \A i \in 1..m : st[i] = s[i]
      /\ \A i \in 1..n : st[m + i] = t[i]
  BY ConcatElements
<1>2. DOMAIN st = 1..(m + n) /\ DOMAIN s = 1..m /\ DOMAIN t = 1..n
  BY <1>1, LenProperties
<1>3. Picked(st, K) = Picked(s, K) \o Picked(t, L)
  <2> HIDE DEF K
  <2> QED BY PickedConcat
<1> HIDE DEF st, m, n
<1>4. \A i \in 1..m : i \in K <=> i \in KS
  <2>1. \A i \in 1..m : i \in 1..(m + n)
    BY <1>1
  <2> QED BY <1>1, <1>2, <2>1
<1>5. \A i \in 1..n : i \in L <=> i \in KT
  <2>1. \A i \in 1..n : m + i \in 1..(m + n)
    BY <1>1
  <2> QED BY <1>1, <1>2, <2>1
<1> HIDE DEF K, KS, KT, L
<1>6. Picked(s, K) = Picked(s, KS)
  BY <1>4, PickedAgree DEF m
<1>7. Picked(t, L) = Picked(t, KT)
  BY <1>5, PickedAgree DEF n
<1> QED BY <1>3, <1>6, <1>7 DEF Without, st, K, KS, KT

LEMMA WithoutAll ==
  ASSUME NEW t \in Seq(Word), NEW X, ToSet(t) \subseteq X
  PROVE  Without(t, X) = << >>
<1> DEFINE K == {i \in DOMAIN t : t[i] \notin X}
<1>1. \A i \in 1..Len(t) : i \notin K
  <2>1. \A i \in DOMAIN t : t[i] \in X
    BY DEF ToSet
  <2> QED BY <2>1
<1> HIDE DEF K
<1>2. Picked(t, K) = << >>
  BY <1>1, PickedNone
<1> QED BY <1>2 DEF Without, K

LEMMA WithoutAny ==
  ASSUME NEW t \in Seq(Word), NEW X, ToSet(t) \cap X = {}
  PROVE  Without(t, X) = t
<1> DEFINE K == {i \in DOMAIN t : t[i] \notin X}
<1>1. \A i \in 1..Len(t) : i \in K
  <2>1. \A i \in DOMAIN t : t[i] \notin X
    BY DEF ToSet
  <2>2. DOMAIN t = 1..Len(t)
    BY LenProperties
  <2> QED BY <2>1, <2>2
<1> HIDE DEF K
<1>2. Picked(t, K) = t
  BY <1>1, PickedAll
<1> QED BY <1>2 DEF Without, K

\* The words that no chunk holds: those of the sections of nothing but headings.
BareSections(bs) == {s \in ToSet(MergedSections(bs)) : HeadingsOnly(s)}
VainWords(bs) == UNION {ToSet(Text(s)) : s \in BareSections(bs)}

\* Every other word is in the chunks, once and in order.
LEMMA StructureKeepsWords ==
  ASSUME NEW B, AllFit(Seq(Word), B), NEW bs \in Seq(B), Distinct(Text(bs))
  PROVE  Text(StructureAware(bs)) = Without(Text(bs), VainWords(bs))
<1> DEFINE W == Seq(Word)
           U == Seq(B)
           merged == MergedSections(bs)
           n == Len(merged)
           T == SectionText(B)
           E == Spoken(B)
           X == VainWords(bs)
           f == [t \in W |-> Without(t, X)]
           texts == Mapped(T, merged)
<1>1. Closed(W) /\ Worded(B, W)
  BY WordsClosed, FittingTexts
<1>2. merged \in Seq(U) /\ FlattenSeq(merged) = bs
  BY MergedSectionsAre
<1>3. Text(StructureAware(bs)) = FlattenSeq(Mapped(E, merged))
  <2>1. AllFit(W, B)
    OBVIOUS
  <2> HIDE DEF W, E, merged
  <2>2. Text(StructureAware(bs)) = FlattenSeq(Mapped(Spoken(B), MergedSections(bs)))
    BY <1>1, <2>1, StructureAwareIs
  <2> QED BY <2>2 DEF E, merged
<1> HIDE DEF merged, U
<1>4. Maps(T, U, W) /\ Text(FlattenSeq(merged)) = FlattenSeq(texts)
  <2> HIDE DEF T
  <2> QED BY <1>1, <1>2, TextFlatten DEF T, U, texts, W
<1>5. /\ texts \in Seq(W) /\ Len(texts) = n /\ n \in Nat
      /\ \A i \in 1..n : texts[i] = T[merged[i]] /\ merged[i] \in U
  <2> HIDE DEF T, W
  <2> QED BY <1>2, <1>4, MappedIs
<1>6. \A s \in U : T[s] = Text(s) /\ E[s] = IF HeadingsOnly(s) THEN << >> ELSE Text(s)
  BY DEF SectionText, Spoken, U
<1> HIDE DEF T, E, texts, X
<1>7. Distinct(FlattenSeq(texts))
  BY <1>2, <1>4
<1>8. Apart(texts)
  BY <1>5, <1>7, FlattenApart
<1>9. f[FlattenSeq(texts)] = FlattenSeq(Mapped(f, texts))
  <2>1. Maps(f, W, W)
    BY WithoutType DEF Maps
  <2>2. f[<< >>] = << >>
    <3>1. << >> \in W
      OBVIOUS
    <3> QED BY <3>1, WithoutNone
  <2>3. \A s, t \in W : f[s \o t] = f[s] \o f[t]
    <3> SUFFICES ASSUME NEW s \in W, NEW t \in W PROVE f[s \o t] = f[s] \o f[t]
      OBVIOUS
    <3>1. s \o t \in W
      BY ConcatProperties
    <3>2. Without(s \o t, X) = Without(s, X) \o Without(t, X)
      BY WithoutConcat
    <3>3. f[s \o t] = Without(s \o t, X) /\ f[s] = Without(s, X) /\ f[t] = Without(t, X)
      BY <3>1
    <3> QED BY <3>2, <3>3
  <2> HIDE DEF f
  <2>4. /\ Maps(f, Seq(Word), Seq(Word)) /\ f[<< >>] = << >> /\ texts \in Seq(Seq(Word))
        /\ \A s, t \in Seq(Word) : f[s \o t] = f[s] \o f[t]
    BY <1>5, <2>1, <2>2, <2>3
  <2> QED BY <2>4, FlattenMapped
<1>10. FlattenSeq(texts) = Text(bs) /\ Text(bs) \in W
  <2>1. Text(bs) \in Seq(Word)
    BY <1>1, TextType
  <2> QED BY <1>2, <1>4, <2>1
<1>11. f[FlattenSeq(texts)] = Without(Text(bs), X)
  BY <1>10
<1>12. X = UNION {ToSet(Text(s)) : s \in {s \in ToSet(merged) : HeadingsOnly(s)}}
  BY DEF X, VainWords, BareSections, merged
<1>13. DOMAIN merged = 1..n /\ ToSet(merged) = {merged[i] : i \in 1..n}
  <2>1. DOMAIN merged = 1..n
    BY <1>2, LenProperties
  <2> QED BY <2>1 DEF ToSet
<1>14. ASSUME NEW k \in 1..n
       PROVE  f[texts[k]] = E[merged[k]]
  <2> DEFINE s == merged[k]
             t == Text(s)
  <2>1. s \in U /\ texts[k] = t /\ t \in W
    <3>1. s \in U /\ texts[k] = t
      BY <1>5, <1>6
    <3>2. texts[k] \in W
      BY <1>5, ElementOfSeq
    <3> QED BY <3>1, <3>2
  <2>2. f[texts[k]] = Without(t, X)
    BY <2>1
  <2>3. CASE HeadingsOnly(s)
    <3>1. ToSet(t) \subseteq X
      <4>1. s \in {r \in ToSet(merged) : HeadingsOnly(r)}
        BY <1>13, <2>3
      <4> HIDE DEF s
      <4> QED BY <1>12, <4>1
    <3>2. Without(t, X) = << >>
      <4> HIDE DEF t
      <4> QED BY <2>1, <3>1, WithoutAll
    <3> QED BY <1>6, <2>1, <2>2, <2>3, <3>2
  <2>4. CASE ~HeadingsOnly(s)
    <3>1. ASSUME NEW j \in 1..n, HeadingsOnly(merged[j])
          PROVE  ToSet(Text(merged[j])) \cap ToSet(t) = {}
      <4>1. j # k
        BY <2>4, <3>1
      <4>2. texts[j] = Text(merged[j])
        BY <1>5, <1>6
      <4>3. ToSet(texts[j]) \cap ToSet(texts[k]) = {}
        BY <1>5, <1>8, <4>1 DEF Apart
      <4> HIDE DEF t
      <4> QED BY <2>1, <4>2, <4>3
    <3>2. ToSet(t) \cap X = {}
      <4> HIDE DEF t
      <4> QED BY <1>12, <1>13, <3>1
    <3>3. Without(t, X) = t
      <4> HIDE DEF t
      <4> QED BY <2>1, <3>2, WithoutAny
    <3> QED BY <1>6, <2>1, <2>2, <2>4, <3>3
  <2> QED BY <2>3, <2>4
<1>15. Mapped(f, texts) = Mapped(E, merged)
  <2>1. DOMAIN texts = 1..n
    BY <1>5, LenProperties
  <2> HIDE DEF f
  <2>2. [i \in DOMAIN texts |-> f[texts[i]]] = [i \in DOMAIN merged |-> E[merged[i]]]
    BY <1>13, <1>14, <2>1
  <2> QED BY <2>2 DEF Mapped
<1> HIDE DEF f
<1> QED BY <1>3, <1>9, <1>11, <1>15 DEF X

\* The texts that hold all of A or nothing of it.
WholeOrNone(A) == {w \in Seq(Word) : ToSet(w) \cap A \in {{}, A}}

LEMMA WholeOrNoneClosed == \A A : Closed(WholeOrNone(A))
<1> SUFFICES ASSUME NEW A PROVE Closed(WholeOrNone(A))
  OBVIOUS
<1>1. << >> \in WholeOrNone(A)
  <2>1. << >> \in Seq(Word)
    OBVIOUS
  <2>2. ToSet(<< >>) \cap A = {}
    BY ToSetNone
  <2> QED BY <2>1, <2>2 DEF WholeOrNone
<1>2. ASSUME NEW v \in WholeOrNone(A), NEW w \in WholeOrNone(A)
      PROVE  v \o w \in WholeOrNone(A)
  <2> DEFINE vw == v \o w
  <2>1. v \in Seq(Word) /\ w \in Seq(Word) /\ ToSet(v) \cap A \in {{}, A} /\ ToSet(w) \cap A \in {{}, A}
    BY DEF WholeOrNone
  <2>2. vw \in Seq(Word) /\ ToSet(vw) = ToSet(v) \cup ToSet(w)
    BY <2>1, ConcatProperties, ToSetConcat
  <2> HIDE DEF vw
  <2>3. ToSet(vw) \cap A = (ToSet(v) \cap A) \cup (ToSet(w) \cap A)
    BY <2>2
  <2>4. ToSet(vw) \cap A \in {{}, A}
    BY <2>1, <2>3
  <2> QED BY <2>2, <2>4 DEF WholeOrNone, vw
<1>3. WholeOrNone(A) \subseteq Seq(Word)
  BY DEF WholeOrNone
<1> QED BY <1>1, <1>2, <1>3 DEF Closed

\* The parts of a text hold what it holds.
LEMMA PartsWithin ==
  ASSUME NEW parts \in Seq(Seq(Word)), NEW k \in 1..Len(parts)
  PROVE  parts[k] \in Seq(Word) /\ ToSet(parts[k]) \subseteq ToSet(FlattenSeq(parts))
<1>1. k \in DOMAIN parts /\ parts[k] \in Seq(Word)
  BY LenProperties, ElementOfSeq
<1>2. parts[k] \in ToSet(parts)
  BY <1>1 DEF ToSet
<1>3. ToSet(FlattenSeq(parts)) = UNION {ToSet(part) : part \in ToSet(parts)}
  BY FlattenHolds
<1> QED BY <1>1, <1>2, <1>3

\* The blocks of a document fit the texts that keep one of its atoms whole.
LEMMA AtomFits ==
  ASSUME NEW B, Worded(B, Seq(Word)), NEW bs \in Seq(B), Distinct(Text(bs)),
         NEW i \in 1..Len(bs), ~IsSplittable(bs[i])
  PROVE  AllFit(WholeOrNone(ToSet(bs[i].text)), ToSet(bs)) /\ bs \in Seq(ToSet(bs))
<1> DEFINE A == ToSet(bs[i].text)
           W == WholeOrNone(A)
           n == Len(bs)
           texts == Mapped(TextFn(B), bs)
<1>1. n \in Nat /\ DOMAIN bs = 1..n /\ \A j \in 1..n : bs[j] \in B /\ bs[j].text \in Seq(Word)
  BY LenProperties, ElementOfSeq DEF Worded
<1>2. ToSet(bs) = {bs[j] : j \in 1..n}
  BY <1>1 DEF ToSet
<1>3. bs \in Seq(ToSet(bs))
  <2>1. \A j \in 1..n : bs[j] \in ToSet(bs)
    BY <1>2
  <2>2. bs \in [1..n -> B]
    BY <1>1, LenProperties
  <2>3. bs \in [1..n -> ToSet(bs)]
    BY <2>1, <2>2
  <2> QED BY <1>1, <2>3
<1>4. Apart(texts) /\ Len(texts) = n /\ \A j \in 1..n : texts[j] = bs[j].text
  <2> DEFINE V == Seq(Word)
  <2>1. Maps(TextFn(B), B, V) /\ texts \in Seq(V) /\ Text(bs) = FlattenSeq(texts)
    <3> HIDE DEF V
    <3>1. Worded(B, V)
      BY DEF V
    <3> QED BY <3>1, TextIs
  <2>2. Apart(texts)
    <3> HIDE DEF texts
    <3> QED BY <2>1, FlattenApart
  <2>3. Len(texts) = n /\ \A j \in 1..n : texts[j] = TextFn(B)[bs[j]]
    <3> HIDE DEF V
    <3> QED BY <2>1, MappedIs
  <2>4. \A b \in B : TextFn(B)[b] = b.text
    BY DEF TextFn
  <2> HIDE DEF texts
  <2> QED BY <1>1, <2>2, <2>3, <2>4
<1> HIDE DEF texts
<1>5. ASSUME NEW j \in 1..n
      PROVE  Fits(W, bs[j])
  <2> DEFINE b == bs[j]
             pieces == SplitOversized(b)
             m == Len(pieces)
  <2>1. b.text \in Seq(Word)
    BY <1>1
  <2>2. pieces \in Seq(Seq(Word)) /\ FlattenSeq(pieces) = b.text
    <3> HIDE DEF b
    <3> QED BY <2>1, PiecesAre
  <2>3. CASE j = i
    <3>1. b.text \in W
      <4>1. ToSet(b.text) \cap A = A
        BY <2>3
      <4> HIDE DEF b, A
      <4> QED BY <2>1, <4>1 DEF WholeOrNone
    <3>2. pieces = <<b.text>>
      BY <2>3 DEF SplitOversized
    <3>3. pieces \in Seq(W)
      <4> HIDE DEF W, b, pieces
      <4> QED BY <3>1, <3>2
    <3> QED BY <3>1, <3>3 DEF Fits
  <2>4. CASE j # i
    <3>1. ToSet(b.text) \cap A = {}
      BY <1>4, <2>4 DEF Apart
    <3> HIDE DEF b, A, pieces
    <3>2. b.text \in W
      BY <2>1, <3>1 DEF WholeOrNone
    <3>3. m \in Nat /\ pieces \in [1..m -> Seq(Word)]
      BY <2>2, LenProperties
    <3>4. ASSUME NEW k \in 1..m PROVE pieces[k] \in W
      <4>1. pieces[k] \in Seq(Word) /\ ToSet(pieces[k]) \subseteq ToSet(FlattenSeq(pieces))
        BY <2>2, PartsWithin
      <4>2. ToSet(pieces[k]) \cap A = {}
        BY <2>2, <3>1, <4>1
      <4> QED BY <4>1, <4>2 DEF WholeOrNone
    <3> HIDE DEF W, m
    <3>5. pieces \in [1..m -> W]
      BY <3>3, <3>4
    <3>6. pieces \in Seq(W)
      BY <3>3, <3>5
    <3> QED BY <3>2, <3>6 DEF Fits, b, pieces
  <2> QED BY <2>3, <2>4
<1> HIDE DEF W
<1>6. AllFit(W, ToSet(bs))
  BY <1>2, <1>5 DEF AllFit
<1> QED BY <1>3, <1>6 DEF W

\* An atom is whole in a chunk, or not in it.
LEMMA AtomsKept ==
  ASSUME NEW B, Worded(B, Seq(Word)), NEW bs \in Seq(B), Distinct(Text(bs)),
         NEW i \in 1..Len(bs), ~IsSplittable(bs[i]), NEW j \in DOMAIN StructureAware(bs)
  PROVE  ToSet(StructureAware(bs)[j].text) \cap ToSet(bs[i].text) \in {{}, ToSet(bs[i].text)}
<1> DEFINE A == ToSet(bs[i].text)
           W == WholeOrNone(A)
           D == ToSet(bs)
           C == ChunkType(W, D)
           cs == StructureAware(bs)
<1>1. Closed(W)
  BY WholeOrNoneClosed
<1>2. AllFit(W, D) /\ bs \in Seq(D)
  BY AtomFits
<1> HIDE DEF W, D
<1>3. cs \in Seq(C)
  BY <1>1, <1>2, StructureAwareIs
<1> HIDE DEF C
<1>4. cs[j] \in C
  <2> HIDE DEF cs
  <2>1. j \in DOMAIN cs
    BY DEF cs
  <2> QED BY <1>3, <2>1, LenProperties, ElementOfSeq
<1>5. cs[j].text \in W
  BY <1>4 DEF C, ChunkType
<1> QED BY <1>5 DEF W, WholeOrNone

\* The words of a text are the text.
LEMMA WordsAre ==
  ASSUME NEW text \in Seq(Word)
  PROVE  Words(text) \in Seq(Seq(Word)) /\ FlattenSeq(Words(text)) = text
<1> DEFINE n == Len(text)
           parts == Words(text)
<1>1. n \in Nat /\ DOMAIN text = 1..n /\ \A i \in 1..n : text[i] \in Word
  BY LenProperties, ElementOfSeq
<1>2. parts = [i \in 1..n |-> <<text[i]>>]
  BY <1>1 DEF Words
<1> HIDE DEF parts, n
<1>3. \A i \in 1..n : <<text[i]>> \in Seq(Word)
  BY <1>1
<1>4. parts \in [1..n -> Seq(Word)]
  BY <1>2, <1>3
<1>5. parts \in Seq(Seq(Word)) /\ Len(parts) = n
  <2>1. parts \in Seq(Seq(Word))
    BY <1>1, <1>4
  <2> QED BY <1>1, <1>4, <2>1, LenProperties
<1>6. PICK f : Joins(f, parts, Word)
  BY <1>5, JoinsExists
<1>7. \A i \in 1..n : f[i] = Append(f[i - 1], text[i])
  <2> SUFFICES ASSUME NEW i \in 1..n PROVE f[i] = Append(f[i - 1], text[i])
    OBVIOUS
  <2>1. f[i] = f[i - 1] \o parts[i] /\ f[i - 1] \in Seq(Word)
    <3>1. i - 1 \in 0..n
      BY <1>1
    <3> QED BY <1>5, <1>6, <3>1 DEF Joins
  <2> DEFINE s == f[i - 1]
             x == text[i]
  <2>2. parts[i] = <<x>> /\ x \in Word
    BY <1>1, <1>2
  <2> HIDE DEF s, x
  <2>3. s \in Seq(Word)
    BY <2>1 DEF s
  <2>4. Append(s, x) = s \o <<x>>
    BY <2>2, <2>3, AppendIsConcat
  <2> QED BY <2>1, <2>2, <2>4 DEF s, x
<1>8. f[0] = << >>
  BY <1>6 DEF Joins
<1>9. f[n] = text
  BY <1>7, <1>8, PrefixesGrow DEF n
<1>10. FlattenSeq(parts) = f[Len(parts)]
  BY <1>5, <1>6, FlattenJoins
<1> QED BY <1>5, <1>9, <1>10 DEF parts

\* Splitting the parts of a text leaves the text.
LEMMA SplitParts ==
  ASSUME NEW f, Maps(f, Seq(Word), Seq(Seq(Word))), \A w \in Seq(Word) : FlattenSeq(f[w]) = w,
         NEW pieces \in Seq(Seq(Word))
  PROVE  /\ FlattenSeq(Mapped(f, pieces)) \in Seq(Seq(Word))
         /\ FlattenSeq(FlattenSeq(Mapped(f, pieces))) = FlattenSeq(pieces)
<1> DEFINE W == Seq(Word)
           V == Seq(W)
           F == [x \in V |-> FlattenSeq(x)]
           same == [w \in W |-> w]
           parts == Mapped(f, pieces)
<1>1. parts \in Seq(V)
  <2>1. Maps(f, W, V) /\ pieces \in Seq(W)
    OBVIOUS
  <2> HIDE DEF V
  <2> QED BY <2>1, MappedIs
<1>2. FlattenSeq(parts) \in V
  <2> HIDE DEF parts
  <2> QED BY <1>1, FlattenType
<1>3. Maps(F, V, W)
  <2>1. \A x \in V : FlattenSeq(x) \in W
    BY FlattenType
  <2> HIDE DEF V, W
  <2> QED BY <2>1 DEF Maps
<1>4. F[<< >>] = << >>
  <2>1. << >> \in V
    OBVIOUS
  <2> QED BY <2>1, FlattenNone
<1>5. \A s, t \in V : F[s \o t] = F[s] \o F[t]
  <2> SUFFICES ASSUME NEW s \in V, NEW t \in V PROVE F[s \o t] = F[s] \o F[t]
    OBVIOUS
  <2>1. s \o t \in V
    BY ConcatProperties
  <2>2. FlattenSeq(s \o t) = FlattenSeq(s) \o FlattenSeq(t)
    BY FlattenConcat
  <2>3. F[s \o t] = FlattenSeq(s \o t) /\ F[s] = FlattenSeq(s) /\ F[t] = FlattenSeq(t)
    BY <2>1
  <2> QED BY <2>2, <2>3
<1>6. F[FlattenSeq(parts)] = FlattenSeq(parts \o << >>) \/ F[FlattenSeq(parts)] = FlattenSeq(FlattenSeq(parts))
  BY <1>2
<1> HIDE DEF parts
<1>7. F[FlattenSeq(parts)] = FlattenSeq(Mapped(F, parts))
  <2> HIDE DEF F
  <2>1. /\ Maps(F, Seq(W), Seq(Word)) /\ F[<< >>] = << >> /\ parts \in Seq(Seq(W))
        /\ \A s, t \in Seq(W) : F[s \o t] = F[s] \o F[t]
    BY <1>1, <1>3, <1>4, <1>5
  <2> HIDE DEF W
  <2> QED BY <2>1, FlattenMapped
<1>8. F[FlattenSeq(parts)] = FlattenSeq(FlattenSeq(parts))
  BY <1>2
<1>9. Mapped(F, Mapped(f, pieces)) = Mapped(same, pieces)
  <2>1. Composes(same, F, f, W)
    <3>1. \A w \in W : f[w] \in V
      BY DEF Maps
    <3> HIDE DEF V, W
    <3>2. \A w \in W : FlattenSeq(f[w]) = w
      BY DEF W
    <3> QED BY <3>1, <3>2 DEF Composes
  <2>2. Maps(f, W, V) /\ pieces \in Seq(W)
    OBVIOUS
  <2> HIDE DEF W, V, F, same
  <2> QED BY <2>1, <2>2, MappedMapped
<1>10. Mapped(same, pieces) = pieces
  <2>1. pieces = [i \in DOMAIN pieces |-> pieces[i]] /\ \A i \in DOMAIN pieces : pieces[i] \in W
    BY LenProperties, ElementOfSeq
  <2> QED BY <2>1 DEF Mapped
<1> QED BY <1>2, <1>7, <1>8, <1>9, <1>10 DEF parts

\* What each round of the recursive chunker makes of a piece.
ByLines == [w \in Seq(Word) |-> IF Len(w) > RecursiveTarget THEN Pack(Lines(w), RecursiveTarget) ELSE <<w>>]
ByWords == [w \in Seq(Word) |-> IF Len(w) > RecursiveTarget THEN Pack(Words(w), RecursiveTarget) ELSE <<w>>]

LEMMA RoundsAre ==
  /\ Maps(ByLines, Seq(Word), Seq(Seq(Word))) /\ \A w \in Seq(Word) : FlattenSeq(ByLines[w]) = w
  /\ Maps(ByWords, Seq(Word), Seq(Seq(Word))) /\ \A w \in Seq(Word) : FlattenSeq(ByWords[w]) = w
<1> DEFINE W == Seq(Word)
           t == RecursiveTarget
<1>1. \A w \in W : <<w>> \in Seq(W) /\ FlattenSeq(<<w>>) = w
  <2> SUFFICES ASSUME NEW w \in W PROVE <<w>> \in Seq(W) /\ FlattenSeq(<<w>>) = w
    OBVIOUS
  <2>1. <<w>> = Append(<< >>, w) /\ << >> \in Seq(W) /\ <<w>> \in Seq(W)
    OBVIOUS
  <2>2. FlattenSeq(Append(<< >>, w)) = FlattenSeq(<< >>) \o w
    BY <2>1, FlattenAppend
  <2>3. << >> \o w = w
    BY ConcatEmptySeq
  <2> QED BY <2>1, <2>2, <2>3, FlattenNone
<1>2. ASSUME NEW parts \in Seq(W)
      PROVE  Pack(parts, t) \in Seq(W) /\ FlattenSeq(Pack(parts, t)) = FlattenSeq(parts)
  <2>1. Closed(W)
    BY WordsClosed
  <2> HIDE DEF W, t
  <2> QED BY <2>1, PackIs
<1>3. \A w \in W : Pack(Lines(w), t) \in Seq(W) /\ FlattenSeq(Pack(Lines(w), t)) = w
  <2> SUFFICES ASSUME NEW w \in W PROVE Pack(Lines(w), t) \in Seq(W) /\ FlattenSeq(Pack(Lines(w), t)) = w
    OBVIOUS
  <2> DEFINE p == Lines(w)
  <2>1. p \in Seq(W) /\ FlattenSeq(p) = w
    BY LinesAre
  <2> HIDE DEF p
  <2> QED BY <1>2, <2>1 DEF p
<1>4. \A w \in W : Pack(Words(w), t) \in Seq(W) /\ FlattenSeq(Pack(Words(w), t)) = w
  <2> SUFFICES ASSUME NEW w \in W PROVE Pack(Words(w), t) \in Seq(W) /\ FlattenSeq(Pack(Words(w), t)) = w
    OBVIOUS
  <2> DEFINE p == Words(w)
  <2>1. p \in Seq(W) /\ FlattenSeq(p) = w
    BY WordsAre
  <2> HIDE DEF p
  <2> QED BY <1>2, <2>1 DEF p
<1>5. Maps(ByLines, W, Seq(W)) /\ \A w \in W : FlattenSeq(ByLines[w]) = w
  <2>1. \A w \in W : ByLines[w] = IF Len(w) > t THEN Pack(Lines(w), t) ELSE <<w>>
    BY DEF ByLines
  <2>2. ByLines = [w \in W |-> IF Len(w) > t THEN Pack(Lines(w), t) ELSE <<w>>]
    BY DEF ByLines
  <2> DEFINE S == Seq(W)
             one == [w \in W |-> <<w>>]
  <2>3. \A w \in W : one[w] \in S /\ one[w] = <<w>>
    BY <1>1
  <2>4. \A w \in W : Pack(Lines(w), t) \in S
    BY <1>3
  <2> HIDE DEF W, t, S, one
  <2>5. \A w \in W : ByLines[w] \in S
    BY <2>1, <2>3, <2>4
  <2>6. Maps(ByLines, W, S)
    <3>1. DOMAIN ByLines = W /\ ByLines = [w \in W |-> ByLines[w]]
      BY <2>2
    <3> QED BY <2>5, <3>1 DEF Maps
  <2>7. \A w \in W : FlattenSeq(ByLines[w]) = w
    BY <1>1, <1>3, <2>1
  <2> QED BY <2>6, <2>7 DEF S
<1>6. Maps(ByWords, W, Seq(W)) /\ \A w \in W : FlattenSeq(ByWords[w]) = w
  <2>1. \A w \in W : ByWords[w] = IF Len(w) > t THEN Pack(Words(w), t) ELSE <<w>>
    BY DEF ByWords
  <2>2. ByWords = [w \in W |-> IF Len(w) > t THEN Pack(Words(w), t) ELSE <<w>>]
    BY DEF ByWords
  <2> DEFINE S == Seq(W)
             one == [w \in W |-> <<w>>]
  <2>3. \A w \in W : one[w] \in S /\ one[w] = <<w>>
    BY <1>1
  <2>4. \A w \in W : Pack(Words(w), t) \in S
    BY <1>4
  <2> HIDE DEF W, t, S, one
  <2>5. \A w \in W : ByWords[w] \in S
    BY <2>1, <2>3, <2>4
  <2>6. Maps(ByWords, W, S)
    <3>1. DOMAIN ByWords = W /\ ByWords = [w \in W |-> ByWords[w]]
      BY <2>2
    <3> QED BY <2>5, <3>1 DEF Maps
  <2>7. \A w \in W : FlattenSeq(ByWords[w]) = w
    BY <1>1, <1>4, <2>1
  <2> QED BY <2>6, <2>7 DEF S
<1> QED BY <1>5, <1>6

\* The pieces of a document are its text.
LEMMA SplitIs ==
  ASSUME NEW B, Worded(B, Seq(Word)), NEW bs \in Seq(B)
  PROVE  Split(bs) \in Seq(Seq(Word)) /\ FlattenSeq(Split(bs)) = Text(bs)
<1> DEFINE texts == [i \in DOMAIN bs |-> bs[i].text]
           p == Pack(texts, RecursiveTarget)
           q == FlattenSeq(Mapped(ByLines, p))
           r == FlattenSeq(Mapped(ByWords, q))
<1>1. texts \in Seq(Seq(Word)) /\ FlattenSeq(texts) = Text(bs)
  <2>1. \A i \in DOMAIN bs : bs[i].text \in Seq(Word)
    BY LenProperties, ElementOfSeq DEF Worded
  <2>2. Len(bs) \in Nat /\ DOMAIN bs = 1..Len(bs)
    BY LenProperties
  <2>3. texts \in [1..Len(bs) -> Seq(Word)]
    BY <2>1, <2>2
  <2> HIDE DEF texts
  <2>4. texts \in Seq(Seq(Word))
    BY <2>2, <2>3
  <2> QED BY <2>4 DEF Text, texts
<1>2. p \in Seq(Seq(Word)) /\ FlattenSeq(p) = FlattenSeq(texts)
  <2> DEFINE W == Seq(Word)
  <2>1. Closed(W) /\ texts \in Seq(W)
    BY <1>1, WordsClosed
  <2> HIDE DEF W, texts
  <2>2. Pack(texts, RecursiveTarget) \in Seq(W) /\ FlattenSeq(Pack(texts, RecursiveTarget)) = FlattenSeq(texts)
    BY <2>1, PackIs
  <2> QED BY <2>2 DEF W
<1> HIDE DEF p
<1>3. q \in Seq(Seq(Word)) /\ FlattenSeq(q) = FlattenSeq(p)
  BY <1>2, RoundsAre, SplitParts
<1>4. \A i \in DOMAIN p : p[i] \in Seq(Word)
  BY <1>2, LenProperties, ElementOfSeq
<1>5. q = FlattenSeq([i \in DOMAIN p |->
            IF Len(p[i]) > RecursiveTarget THEN Pack(Lines(p[i]), RecursiveTarget) ELSE <<p[i]>>])
  <2>1. \A i \in DOMAIN p : ByLines[p[i]] =
            IF Len(p[i]) > RecursiveTarget THEN Pack(Lines(p[i]), RecursiveTarget) ELSE <<p[i]>>
    BY <1>4 DEF ByLines
  <2> QED BY <2>1 DEF Mapped
<1> HIDE DEF q
<1>6. r \in Seq(Seq(Word)) /\ FlattenSeq(r) = FlattenSeq(q)
  BY <1>3, RoundsAre, SplitParts
<1>7. \A i \in DOMAIN q : q[i] \in Seq(Word)
  BY <1>3, LenProperties, ElementOfSeq
<1>8. r = FlattenSeq([i \in DOMAIN q |->
            IF Len(q[i]) > RecursiveTarget THEN Pack(Words(q[i]), RecursiveTarget) ELSE <<q[i]>>])
  <2>1. \A i \in DOMAIN q : ByWords[q[i]] =
            IF Len(q[i]) > RecursiveTarget THEN Pack(Words(q[i]), RecursiveTarget) ELSE <<q[i]>>
    BY <1>7 DEF ByWords
  <2> QED BY <2>1 DEF Mapped
<1> HIDE DEF r
<1>9. Split(bs) = r
  BY <1>5, <1>8 DEF Split, SplitWith, p
<1> QED BY <1>1, <1>2, <1>3, <1>6, <1>9

\* The chunks, with their overlaps, hold the words of the document and no other.
LEMMA RecursiveKeepsWords ==
  ASSUME NEW B, Worded(B, Seq(Word)), NEW bs \in Seq(B)
  PROVE  UNION {ToSet(RecursiveCharacter(bs)[i].text) : i \in DOMAIN RecursiveCharacter(bs)} = ToSet(Text(bs))
<1> DEFINE pieces == Split(bs)
           over(i) == IF i = 1 THEN pieces[i] ELSE OverlapTail(pieces[i - 1]) \o pieces[i]
           cs == RecursiveCharacter(bs)
           n == Len(pieces)
<1>1. pieces \in Seq(Seq(Word)) /\ FlattenSeq(pieces) = Text(bs)
  BY SplitIs
<1>2. cs = [i \in DOMAIN pieces |-> [text |-> over(i), path |-> << >>, context |-> over(i)]]
  BY DEF RecursiveCharacter
<1> HIDE DEF pieces, cs
<1>3. n \in Nat /\ DOMAIN pieces = 1..n /\ \A i \in 1..n : pieces[i] \in Seq(Word)
  BY <1>1, LenProperties, ElementOfSeq
<1> HIDE DEF n
<1>4. ASSUME NEW t \in Seq(Word)
      PROVE  OverlapTail(t) \in Seq(Word) /\ ToSet(OverlapTail(t)) \subseteq ToSet(t)
  <2> DEFINE m == Len(t)
             from == IF m > OverlapTokens THEN m - OverlapTokens + 1 ELSE 1
             sub == SubSeq(t, from, m)
             k == m - from + 1
  <2>1. m \in Nat /\ DOMAIN t = 1..m /\ t \in [1..m -> Word]
    BY LenProperties
  <2>2. OverlapTokens \in Nat
    BY ChunkerAssumption
  <2>3. OverlapTail(t) = sub
    BY DEF OverlapTail
  <2> HIDE DEF m
  <2>4. from \in 1..(m + 1) /\ k \in Nat
    BY <2>1, <2>2
  <2> HIDE DEF from
  <2>5. sub = [j \in 1..k |-> t[from + j - 1]]
    BY <2>1, <2>4 DEF m
  <2> HIDE DEF sub
  <2>6. \A j \in 1..k : from + j - 1 \in 1..m
    BY <2>1, <2>4
  <2>7. \A j \in 1..k : sub[j] \in Word /\ sub[j] \in ToSet(t)
    <3>1. \A i \in 1..m : t[i] \in Word /\ t[i] \in ToSet(t)
      BY <2>1 DEF ToSet
    <3> QED BY <2>5, <2>6, <3>1
  <2> HIDE DEF k
  <2>8. sub \in [1..k -> Word] /\ DOMAIN sub = 1..k
    BY <2>5, <2>7
  <2>9. sub \in Seq(Word)
    BY <2>4, <2>8
  <2>10. ToSet(sub) \subseteq ToSet(t)
    BY <2>7, <2>8 DEF ToSet
  <2> QED BY <2>3, <2>9, <2>10
<1>5. ASSUME NEW i \in 1..n
      PROVE  ToSet(pieces[i]) \subseteq ToSet(over(i)) /\ ToSet(over(i)) \subseteq ToSet(Text(bs))
  <2>1. \A k \in 1..n : ToSet(pieces[k]) \subseteq ToSet(Text(bs))
    BY <1>1, PartsWithin DEF n
  <2>2. CASE i = 1
    BY <2>1, <2>2
  <2>3. CASE i # 1
    <3> DEFINE s == OverlapTail(pieces[i - 1])
               t == pieces[i]
    <3>1. i - 1 \in 1..n
      BY <1>3, <2>3
    <3>2. s \in Seq(Word) /\ ToSet(s) \subseteq ToSet(pieces[i - 1]) /\ t \in Seq(Word)
      BY <1>3, <1>4, <3>1
    <3>3. over(i) = s \o t
      BY <2>3
    <3> HIDE DEF s, t, over
    <3>4. ToSet(s \o t) = ToSet(s) \cup ToSet(t)
      BY <3>2, ToSetConcat
    <3> QED BY <2>1, <3>1, <3>2, <3>3, <3>4 DEF t
  <2> QED BY <2>2, <2>3
<1>6. DOMAIN cs = 1..n /\ \A i \in 1..n : cs[i].text = over(i)
  BY <1>2, <1>3
<1>7. ToSet(Text(bs)) = UNION {ToSet(part) : part \in ToSet(pieces)}
  BY <1>1, FlattenHolds
<1>8. ToSet(pieces) = {pieces[i] : i \in 1..n}
  BY <1>3 DEF ToSet
<1> HIDE DEF over
<1>9. UNION {ToSet(cs[i].text) : i \in DOMAIN cs} = ToSet(Text(bs))
  <2>1. ASSUME NEW i \in 1..n PROVE ToSet(cs[i].text) \subseteq ToSet(Text(bs))
    BY <1>5, <1>6
  <2>2. ASSUME NEW x \in ToSet(Text(bs)) PROVE \E i \in 1..n : x \in ToSet(cs[i].text)
    <3>1. PICK i \in 1..n : x \in ToSet(pieces[i])
      BY <1>7, <1>8
    <3> QED BY <1>5, <1>6, <3>1
  <2> QED BY <1>6, <2>1, <2>2
<1> QED BY <1>9 DEF cs

-----------------------------------------------------------------------------
(* Documents.                                                              *)

BlockType == [kind : Kinds, text : Seq(Word), path : Seq(Nat), level : Nat, name : Nat]
OpenHeading == [level : Nat, name : Nat]

DocTypes ==
  /\ format \in {"markdown", "html", "text"}
  /\ blocks \in Seq(BlockType)
  /\ stack \in Seq(OpenHeading)
  /\ paragraph \in [text : Seq(Word), clause : BOOLEAN]
  /\ inFence \in BOOLEAN /\ fenced \in Seq(Word)
  /\ tag \in [kind : {"none", "HEADING"} \cup BlockTags, level : Nat, skip : Nat]
  /\ read \in Nat /\ content \in Seq(Word) /\ done \in BOOLEAN

\* The headings of a list of blocks that enclose its i-th block, and those that
\* would enclose one more.
Closes(bs, k, j) == IsHeading(bs[k]) /\ bs[k].level <= bs[j].level
Enclosing(bs, i) ==
  {j \in DOMAIN bs : j < i /\ IsHeading(bs[j]) /\ \A k \in (j + 1)..i : ~Closes(bs, k, j)}
OpenIn(bs) ==
  {j \in DOMAIN bs : IsHeading(bs[j]) /\ \A k \in (j + 1)..Len(bs) : ~Closes(bs, k, j)}

Ancestry(bs) == \A i \in DOMAIN bs : bs[i].path = Trail(Picked(bs, Enclosing(bs, i)))

Openings(bs) == [i \in DOMAIN bs |-> [level |-> bs[i].level, name |-> bs[i].name]]
StackOf(bs) == Openings(Picked(bs, OpenIn(bs)))

PathInv == format # "text" => Ancestry(blocks) /\ stack = StackOf(blocks)

LEMMA MaxOfPart ==
  ASSUME NEW c \in Nat, c # 0
  PROVE  Max(1..c) = c
BY DEF Max

\* The blocks read later change no selection of the earlier ones.
LEMMA PickedEarlier ==
  ASSUME NEW bs \in Seq(BlockType), NEW b \in BlockType, NEW K, NEW L,
         Len(bs) + 1 \notin K, \A i \in 1..Len(bs) : i \in K <=> i \in L
  PROVE  Picked(Append(bs, b), K) = Picked(bs, L)
<1>1. Picked(Append(bs, b), K) = Picked(bs, K)
  BY PickedAppend
<1>2. Picked(bs, K) = Picked(bs, L)
  BY PickedAgree
<1> QED BY <1>1, <1>2

LEMMA AppendedBlock ==
  ASSUME NEW bs \in Seq(BlockType), NEW b \in BlockType
  PROVE  LET more == Append(bs, b)
             n == Len(bs)
         IN  /\ more \in Seq(BlockType) /\ n \in Nat /\ Len(more) = n + 1
             /\ DOMAIN more = 1..(n + 1) /\ DOMAIN bs = 1..n
             /\ \A i \in 1..n : more[i] = bs[i] /\ bs[i] \in BlockType
             /\ more[n + 1] = b
<1> DEFINE more == Append(bs, b)
           n == Len(bs)
<1>1. /\ more \in Seq(BlockType) /\ n \in Nat /\ Len(more) = n + 1
      /\ \A i \in 1..n : more[i] = bs[i]
      /\ more[n + 1] = b
  BY AppendProperties, LenProperties
<1>2. DOMAIN more = 1..(n + 1) /\ DOMAIN bs = 1..n /\ \A i \in 1..n : bs[i] \in BlockType
  BY <1>1, LenProperties, ElementOfSeq
<1> QED BY <1>1, <1>2

\* Earlier blocks keep their enclosing headings.
LEMMA EnclosingEarlier ==
  ASSUME NEW bs \in Seq(BlockType), NEW b \in BlockType, NEW i \in 1..Len(bs)
  PROVE  Picked(Append(bs, b), Enclosing(Append(bs, b), i)) = Picked(bs, Enclosing(bs, i))
<1> DEFINE more == Append(bs, b)
           n == Len(bs)
           K == Enclosing(more, i)
           L == Enclosing(bs, i)
<1>1. /\ n \in Nat /\ DOMAIN more = 1..(n + 1) /\ DOMAIN bs = 1..n
      /\ \A j \in 1..n : more[j] = bs[j]
  BY AppendedBlock
<1> HIDE DEF more, n
<1>2. n + 1 \notin K
  BY <1>1 DEF Enclosing, n
<1>3. ASSUME NEW j \in 1..n PROVE j \in K <=> j \in L
  <2>1. \A k \in (j + 1)..i : k \in 1..n
    BY <1>1, <1>3 DEF n
  <2>2. \A k \in (j + 1)..i : Closes(more, k, j) <=> Closes(bs, k, j)
    BY <1>1, <1>3, <2>1 DEF Closes
  <2>3. IsHeading(more[j]) <=> IsHeading(bs[j])
    BY <1>1, <1>3
  <2>4. j \in DOMAIN more /\ j \in DOMAIN bs
    BY <1>1, <1>3
  <2> QED BY <2>2, <2>3, <2>4 DEF Enclosing
<1> HIDE DEF K, L
<1>4. Picked(more, K) = Picked(bs, L)
  BY <1>2, <1>3, PickedEarlier DEF more, n
<1> QED BY <1>4 DEF more, K, L

\* A block that is no heading is enclosed by the headings that are open, and closes none.
LEMMA PlainBlock ==
  ASSUME NEW bs \in Seq(BlockType), NEW b \in BlockType, ~IsHeading(b),
         b.path = Trail(StackOf(bs)), Ancestry(bs)
  PROVE  Ancestry(Append(bs, b)) /\ StackOf(Append(bs, b)) = StackOf(bs)
<1> DEFINE more == Append(bs, b)
           n == Len(bs)
<1>1. /\ n \in Nat /\ DOMAIN more = 1..(n + 1) /\ DOMAIN bs = 1..n /\ Len(more) = n + 1
      /\ \A j \in 1..n : more[j] = bs[j]
      /\ more[n + 1] = b
  BY AppendedBlock
<1> HIDE DEF more, n
<1>2. Trail(StackOf(bs)) = Trail(Picked(bs, OpenIn(bs)))
  BY DEF Trail, StackOf, Openings
<1>3. ASSUME NEW j \in 1..n
      PROVE  /\ j \in Enclosing(more, n + 1) <=> j \in OpenIn(bs)
             /\ j \in OpenIn(more) <=> j \in OpenIn(bs)
  <2>1. ~IsHeading(more[n + 1])
    BY <1>1
  <2>2. \A k \in (j + 1)..(n + 1) : k \in (j + 1)..n \/ k = n + 1
    BY <1>1, <1>3
  <2>3. \A k \in (j + 1)..n : k \in 1..n /\ k \in (j + 1)..(n + 1)
    BY <1>1, <1>3
  <2>4. \A k \in (j + 1)..n : Closes(more, k, j) <=> Closes(bs, k, j)
    BY <1>1, <1>3, <2>3 DEF Closes
  <2>5. ~Closes(more, n + 1, j)
    BY <2>1 DEF Closes
  <2>6. /\ j \in DOMAIN more /\ j \in DOMAIN bs /\ j < n + 1
        /\ IsHeading(more[j]) <=> IsHeading(bs[j])
    BY <1>1, <1>3
  <2>7. (\A k \in (j + 1)..(n + 1) : ~Closes(more, k, j)) <=> (\A k \in (j + 1)..n : ~Closes(bs, k, j))
    BY <2>2, <2>3, <2>4, <2>5
  <2> QED BY <1>1, <2>6, <2>7 DEF Enclosing, OpenIn, n
<1>4. n + 1 \notin Enclosing(more, n + 1) /\ n + 1 \notin OpenIn(more)
  BY <1>1 DEF Enclosing, OpenIn
<1>5. /\ Picked(more, Enclosing(more, n + 1)) = Picked(bs, OpenIn(bs))
      /\ Picked(more, OpenIn(more)) = Picked(bs, OpenIn(bs))
  <2> DEFINE K == Enclosing(more, n + 1)
             M == OpenIn(more)
             L == OpenIn(bs)
  <2>1. /\ n + 1 \notin K /\ n + 1 \notin M
        /\ \A j \in 1..n : (j \in K <=> j \in L) /\ (j \in M <=> j \in L)
    BY <1>3, <1>4
  <2> HIDE DEF K, M, L
  <2>2. Picked(more, K) = Picked(bs, L) /\ Picked(more, M) = Picked(bs, L)
    BY <2>1, PickedEarlier DEF more, n
  <2> QED BY <2>2 DEF K, M, L
<1>6. ASSUME NEW i \in DOMAIN more
      PROVE  more[i].path = Trail(Picked(more, Enclosing(more, i)))
  <2>1. CASE i = n + 1
    BY <1>1, <1>2, <1>5, <2>1
  <2>2. CASE i \in 1..n
    <3>1. more[i] = bs[i] /\ i \in DOMAIN bs
      BY <1>1, <2>2
    <3>2. Picked(more, Enclosing(more, i)) = Picked(bs, Enclosing(bs, i))
      BY <2>2, EnclosingEarlier DEF more, n
    <3> QED BY <3>1, <3>2 DEF Ancestry
  <2> QED BY <1>1, <1>6, <2>1, <2>2
<1>7. StackOf(more) = StackOf(bs)
  BY <1>5 DEF StackOf
<1> QED BY <1>6, <1>7 DEF Ancestry, more

\* What is left open by a heading of level l, and how much of the stack that is.
Outranking(bs, l) == {j \in OpenIn(bs) : bs[j].level < l}

LEMMA OpenAscend ==
  ASSUME NEW bs \in Seq(BlockType), NEW j \in OpenIn(bs), NEW k \in OpenIn(bs), j < k
  PROVE  bs[j].level < bs[k].level
<1> DEFINE n == Len(bs)
<1>1. n \in Nat /\ DOMAIN bs = 1..n /\ \A i \in 1..n : bs[i] \in BlockType
  BY LenProperties, ElementOfSeq
<1>2. j \in 1..n /\ k \in 1..n /\ k \in (j + 1)..n
  BY <1>1 DEF OpenIn
<1>3. IsHeading(bs[k]) /\ ~Closes(bs, k, j)
  BY <1>2 DEF OpenIn
<1>4. bs[j].level \in Nat /\ bs[k].level \in Nat
  BY <1>1, <1>2 DEF BlockType
<1> QED BY <1>3, <1>4 DEF Closes

LEMMA TrimmedStack ==
  ASSUME NEW bs \in Seq(BlockType), NEW l \in Nat, stack = StackOf(bs)
  PROVE  _trim_heading_path(l) = Openings(Picked(bs, Outranking(bs, l)))
<1> DEFINE O == OpenIn(bs)
           K == Outranking(bs, l)
           p == Picked(bs, O)
           q == Picked(bs, K)
           m == Len(p)
           D == {i \in 1..m : p[i].level < l}
<1>1. O \subseteq 1..Len(bs) /\ K \subseteq O /\ O \in SUBSET Nat /\ K \in SUBSET Nat
  <2>1. DOMAIN bs = 1..Len(bs)
    BY LenProperties
  <2> QED BY <2>1 DEF OpenIn, Outranking
<1>2. O \cap (1..Len(bs)) = O /\ K \cap (1..Len(bs)) = K
  BY <1>1
<1> HIDE DEF O, K
<1>3. p \in Seq(BlockType) /\ q \in Seq(BlockType)
  BY PickedLocates
<1>4. PICK at : Locates(at, p, bs, O)
  <2>1. \E at : Locates(at, p, bs, O \cap (1..Len(bs)))
    BY PickedLocates
  <2> QED BY <1>2, <2>1
<1>5. PICK bt : Locates(bt, q, bs, K)
  <2>1. \E bt : Locates(bt, q, bs, K \cap (1..Len(bs)))
    BY PickedLocates
  <2> QED BY <1>2, <2>1
<1> HIDE DEF p, q
<1>6. /\ m \in Nat /\ DOMAIN p = 1..m
      /\ \A i \in 1..m : p[i] \in BlockType /\ p[i].level \in Nat
  <2>1. m \in Nat /\ DOMAIN p = 1..m /\ \A i \in 1..m : p[i] \in BlockType
    BY <1>3, LenProperties, ElementOfSeq
  <2> QED BY <2>1 DEF BlockType
<1> HIDE DEF m
<1>7. /\ \A i \in 1..m : at[i] \in O /\ p[i] = bs[at[i]]
      /\ \A i, j \in 1..m : i < j => at[i] < at[j]
      /\ \A i \in O : \E j \in 1..m : at[j] = i
  BY <1>4 DEF Locates, m
<1>8. ASSUME NEW i \in 1..m, NEW j \in 1..m, j < i
      PROVE  p[j].level < p[i].level
  <2>1. at[j] \in O /\ at[i] \in O /\ at[j] < at[i]
    BY <1>7, <1>8
  <2>2. bs[at[j]].level < bs[at[i]].level
    BY <2>1, OpenAscend DEF O
  <2> QED BY <1>7, <2>2
<1>9. ASSUME NEW i \in D, NEW j \in 1..m, j < i
      PROVE  j \in D
  <2>1. p[j].level < p[i].level /\ p[j].level \in Nat /\ p[i].level \in Nat /\ p[i].level < l
    BY <1>6, <1>8, <1>9
  <2> QED BY <2>1
<1>10. D \in SUBSET (1..m)
  OBVIOUS
<1> HIDE DEF D
<1>11. PICK c \in 0..m : D = 1..c
  BY <1>6, <1>9, <1>10, InitialPart
<1> DEFINE r == SubSeq(p, 1, c)
<1>12. /\ r \in Seq(BlockType) /\ Len(r) = c /\ c \in Nat
       /\ \A i \in 1..c : r[i] = p[i] /\ i \in 1..m
  <2>1. c \in Nat /\ c <= m
    BY <1>6, <1>11
  <2>2. CASE c = 0
    <3>1. r = << >>
      BY <1>3, <2>2, SubSeqProperties
    <3> QED BY <2>2, <3>1
  <2>3. CASE c # 0
    <3>1. 1 \in 1..(c + 1) /\ c \in 1..Len(p) /\ 1 \in 1..Len(p)
      BY <1>6, <2>1, <2>3 DEF m
    <3>2. r \in Seq(BlockType) /\ Len(r) = c /\ \A i \in 1..c : r[i] = p[i]
      BY <1>3, <1>6, <2>1, <2>3, <3>1, SubSeqProperties
    <3> QED BY <1>6, <2>1, <3>2
  <2> QED BY <2>2, <2>3
<1> HIDE DEF r
<1>13. Locates([i \in 1..c |-> at[i]], r, bs, K)
  <2> DEFINE ct == [i \in 1..c |-> at[i]]
  <2>1. \A i \in 1..m : i \in 1..c <=> bs[at[i]].level < l
    BY <1>7, <1>11 DEF D
  <2>2. \A i \in O : i \in K <=> bs[i].level < l
    BY DEF K, O, Outranking
  <2>3. \A i \in 1..c : at[i] \in K /\ ct[i] = at[i]
    BY <1>7, <1>12, <2>1, <2>2
  <2>4. ct \in [1..Len(r) -> K]
    BY <1>12, <2>3
  <2>5. \A i \in 1..c : r[i] = bs[ct[i]]
    BY <1>7, <1>12, <2>3
  <2>6. \A i, j \in 1..c : i < j => ct[i] < ct[j]
    BY <1>7, <1>12, <2>3
  <2>7. ASSUME NEW i \in K
        PROVE  \E j \in 1..c : ct[j] = i
    <3>1. i \in O /\ bs[i].level < l
      BY <1>1, <2>2, <2>7
    <3>2. PICK j \in 1..m : at[j] = i
      BY <1>7, <3>1
    <3>3. j \in 1..c /\ ct[j] = i
      BY <2>1, <2>3, <3>1, <3>2
    <3> QED BY <3>3
  <2> HIDE DEF ct
  <2>8. Locates(ct, r, bs, K)
    BY <1>12, <2>4, <2>5, <2>6, <2>7 DEF Locates
  <2> QED BY <2>8 DEF ct
<1>14. r = q
  <2> DEFINE ct == [i \in 1..c |-> at[i]]
  <2>1. Locates(ct, r, bs, K)
    BY <1>13
  <2> HIDE DEF ct
  <2> QED BY <1>1, <1>3, <1>5, <1>12, <2>1, LocatesOnce
<1>15. stack = Openings(p) /\ DOMAIN stack = 1..m /\ Len(stack) = m
       /\ \A i \in 1..m : stack[i] = [level |-> p[i].level, name |-> p[i].name]
  <2>1. stack = Openings(p)
    BY DEF StackOf, p, O
  <2>2. DOMAIN stack = 1..m /\ \A i \in 1..m : stack[i] = [level |-> p[i].level, name |-> p[i].name]
    BY <1>6, <2>1 DEF Openings
  <2>3. stack \in [1..m -> OpenHeading]
    <3>1. \A i \in 1..m : p[i].level \in Nat /\ p[i].name \in Nat
      BY <1>6 DEF BlockType
    <3>2. \A i \in 1..m : stack[i] \in OpenHeading
      BY <2>2, <3>1 DEF OpenHeading
    <3>3. stack = [i \in 1..m |-> stack[i]]
      BY <1>6, <2>1, <2>2 DEF Openings
    <3> QED BY <3>2, <3>3
  <2>4. Len(stack) = m
    BY <1>6, <2>3, LenProperties
  <2> QED BY <2>1, <2>2, <2>4
<1>16. {i \in DOMAIN stack : stack[i].level < l} = D
  BY <1>15 DEF D
<1>17. _trim_heading_path(l) = SubSeq(stack, 1, c)
  <2>1. CASE c = 0
    <3>1. D = {}
      BY <1>11, <2>1
    <3> QED BY <1>16, <2>1, <3>1 DEF _trim_heading_path
  <2>2. CASE c # 0
    <3>1. D # {} /\ Max(D) = c
      <4>1. c \in 1..c
        BY <1>12, <2>2
      <4> QED BY <1>11, <1>12, <2>2, <4>1, MaxOfPart
    <3> QED BY <1>16, <3>1 DEF _trim_heading_path
  <2> QED BY <2>1, <2>2
<1>18. SubSeq(stack, 1, c) = Openings(r)
  <2> DEFINE o == Openings(r)
             t == SubSeq(stack, 1, c)
  <2>1. stack \in Seq(OpenHeading)
    <3>1. \A i \in 1..m : p[i].level \in Nat /\ p[i].name \in Nat
      BY <1>6 DEF BlockType
    <3>2. \A i \in 1..m : stack[i] \in OpenHeading
      BY <1>15, <3>1 DEF OpenHeading
    <3>3. stack = [i \in 1..m |-> stack[i]]
      BY <1>6, <1>15 DEF Openings
    <3>4. stack \in [1..m -> OpenHeading]
      BY <3>2, <3>3
    <3> QED BY <1>6, <3>4
  <2>2. DOMAIN r = 1..c
    BY <1>12, LenProperties
  <2>3. o = [i \in 1..c |-> [level |-> r[i].level, name |-> r[i].name]]
    BY <2>2 DEF Openings
  <2>4. o = [i \in 1..c |-> stack[i]]
    <3>1. \A i \in 1..c : [level |-> r[i].level, name |-> r[i].name] = stack[i]
      BY <1>12, <1>15
    <3> QED BY <2>3, <3>1
  <2>5. t = [i \in 1..c |-> stack[i]]
    BY <1>12, <1>15, <2>1 DEF SubSeq
  <2> QED BY <2>4, <2>5
<1> QED BY <1>14, <1>17, <1>18 DEF q, K

\* A heading is enclosed by those it does not close, and is open itself.
LEMMA HeadingRead ==
  ASSUME NEW bs \in Seq(BlockType), NEW b \in BlockType, IsHeading(b),
         b.path = Trail(Openings(Picked(bs, Outranking(bs, b.level)))), Ancestry(bs)
  PROVE  /\ Ancestry(Append(bs, b))
         /\ StackOf(Append(bs, b)) =
              Append(Openings(Picked(bs, Outranking(bs, b.level))), [level |-> b.level, name |-> b.name])
<1> DEFINE more == Append(bs, b)
           n == Len(bs)
           l == b.level
           q == Picked(bs, Outranking(bs, l))
<1>1. /\ n \in Nat /\ DOMAIN more = 1..(n + 1) /\ DOMAIN bs = 1..n /\ Len(more) = n + 1
      /\ \A j \in 1..n : more[j] = bs[j] /\ bs[j] \in BlockType
      /\ more[n + 1] = b
  BY AppendedBlock
<1> HIDE DEF more, n
<1>2. Trail(Openings(q)) = Trail(q)
  BY DEF Trail, Openings
<1>3. ASSUME NEW j \in 1..n
      PROVE  /\ j \in Enclosing(more, n + 1) <=> j \in Outranking(bs, l)
             /\ j \in OpenIn(more) <=> j \in Outranking(bs, l)
  <2>1. IsHeading(more[n + 1]) /\ more[n + 1].level = l /\ l \in Nat
    BY <1>1 DEF BlockType
  <2>2. \A k \in (j + 1)..(n + 1) : k \in (j + 1)..n \/ k = n + 1
    BY <1>1, <1>3
  <2>3. /\ \A k \in (j + 1)..n : k \in 1..n /\ k \in (j + 1)..(n + 1)
        /\ n + 1 \in (j + 1)..(n + 1)
    BY <1>1, <1>3
  <2>4. \A k \in (j + 1)..n : Closes(more, k, j) <=> Closes(bs, k, j)
    BY <1>1, <1>3, <2>3 DEF Closes
  <2>5. Closes(more, n + 1, j) <=> ~(bs[j].level < l)
    <3>1. bs[j].level \in Nat /\ more[j] = bs[j]
      BY <1>1, <1>3 DEF BlockType
    <3>2. Closes(more, n + 1, j) <=> l <= bs[j].level
      BY <2>1, <3>1 DEF Closes
    <3> QED BY <2>1, <3>1, <3>2
  <2>6. /\ j \in DOMAIN more /\ j \in DOMAIN bs /\ j < n + 1
        /\ IsHeading(more[j]) <=> IsHeading(bs[j])
    BY <1>1, <1>3
  <2>7. (\A k \in (j + 1)..(n + 1) : ~Closes(more, k, j)) <=>
        (\A k \in (j + 1)..n : ~Closes(bs, k, j)) /\ bs[j].level < l
    BY <2>2, <2>3, <2>4, <2>5
  <2> QED BY <1>1, <2>6, <2>7 DEF Enclosing, OpenIn, Outranking, n
<1>4. n + 1 \notin Enclosing(more, n + 1)
  BY <1>1 DEF Enclosing
<1>5. n + 1 \in OpenIn(more)
  <2>1. \A k \in (n + 2)..(n + 1) : FALSE
    BY <1>1
  <2>2. (n + 1) + 1 = n + 2 /\ n + 1 \in DOMAIN more /\ IsHeading(more[n + 1])
    BY <1>1
  <2> QED BY <1>1, <2>1, <2>2 DEF OpenIn
<1>6. /\ Picked(more, Enclosing(more, n + 1)) = q
      /\ Picked(more, OpenIn(more)) = Append(q, b)
  <2> DEFINE K == Enclosing(more, n + 1)
             M == OpenIn(more)
             L == Outranking(bs, l)
  <2>1. /\ n + 1 \notin K /\ n + 1 \in M
        /\ \A j \in 1..n : (j \in K <=> j \in L) /\ (j \in M <=> j \in L)
    BY <1>3, <1>4, <1>5
  <2> HIDE DEF K, M, L
  <2>2. Picked(more, K) = Picked(bs, L)
    BY <2>1, PickedEarlier DEF more, n
  <2>3. Picked(more, M) = Append(Picked(bs, M), b)
    BY <2>1, PickedAppend DEF more, n
  <2>4. Picked(bs, M) = Picked(bs, L)
    BY <2>1, PickedAgree DEF n
  <2> QED BY <2>2, <2>3, <2>4 DEF K, M, L
<1>7. ASSUME NEW i \in DOMAIN more
      PROVE  more[i].path = Trail(Picked(more, Enclosing(more, i)))
  <2>1. CASE i = n + 1
    BY <1>1, <1>2, <1>6, <2>1
  <2>2. CASE i \in 1..n
    <3>1. more[i] = bs[i] /\ i \in DOMAIN bs
      BY <1>1, <2>2
    <3>2. Picked(more, Enclosing(more, i)) = Picked(bs, Enclosing(bs, i))
      BY <2>2, EnclosingEarlier DEF more, n
    <3> QED BY <3>1, <3>2 DEF Ancestry
  <2> QED BY <1>1, <1>7, <2>1, <2>2
<1>8. Openings(Append(q, b)) = Append(Openings(q), [level |-> l, name |-> b.name])
  <2> DEFINE o == Openings(q)
             x == [level |-> l, name |-> b.name]
             r == Append(q, b)
             m == Len(q)
  <2>1. q \in Seq(BlockType)
    BY PickedLocates
  <2> HIDE DEF q
  <2>2. /\ m \in Nat /\ DOMAIN q = 1..m /\ DOMAIN r = 1..(m + 1)
        /\ \A i \in 1..m : r[i] = q[i] /\ q[i] \in BlockType
        /\ r[m + 1] = b
    BY <2>1, AppendedBlock
  <2> HIDE DEF r, m
  <2>3. o \in Seq(OpenHeading) /\ Len(o) = m /\ \A i \in 1..m : o[i] = [level |-> q[i].level, name |-> q[i].name]
    <3>1. \A i \in 1..m : [level |-> q[i].level, name |-> q[i].name] \in OpenHeading
      BY <2>2 DEF BlockType, OpenHeading
    <3>2. o = [i \in 1..m |-> [level |-> q[i].level, name |-> q[i].name]]
      BY <2>2 DEF Openings
    <3>3. o \in [1..m -> OpenHeading]
      BY <3>1, <3>2
    <3> QED BY <2>2, <3>2, <3>3, LenProperties
  <2>4. x \in OpenHeading
    BY DEF BlockType, OpenHeading
  <2> HIDE DEF o, x
  <2>5. /\ Append(o, x) \in Seq(OpenHeading) /\ Len(Append(o, x)) = m + 1
        /\ \A i \in 1..m : Append(o, x)[i] = o[i]
        /\ Append(o, x)[m + 1] = x
    BY <2>3, <2>4, AppendProperties
  <2>6. Openings(r) = [i \in 1..(m + 1) |-> [level |-> r[i].level, name |-> r[i].name]]
    BY <2>2 DEF Openings
  <2>7. Append(o, x) = [i \in 1..(m + 1) |-> Append(o, x)[i]]
    <3>1. DOMAIN Append(o, x) = 1..(m + 1)
      BY <2>5, LenProperties
    <3> QED BY <2>2, <2>5, <3>1, LenProperties
  <2>8. ASSUME NEW i \in 1..(m + 1)
        PROVE  [level |-> r[i].level, name |-> r[i].name] = Append(o, x)[i]
    <3>1. CASE i \in 1..m
      BY <2>2, <2>3, <2>5, <3>1
    <3>2. CASE i = m + 1
      BY <2>2, <2>5, <3>2 DEF x
    <3>3. m \in Nat /\ i \in 1..(m + 1)
      BY <2>2
    <3>4. i \in 1..m \/ i = m + 1
      BY ONLY <3>3
    <3> QED BY <3>1, <3>2, <3>4
  <2>9. Openings(r) = Append(o, x)
    BY <2>6, <2>7, <2>8
  <2> QED BY <2>9 DEF o, x, r
<1>9. StackOf(more) = Append(Openings(q), [level |-> l, name |-> b.name])
  BY <1>6, <1>8 DEF StackOf
<1> QED BY <1>7, <1>9 DEF Ancestry, more

-----------------------------------------------------------------------------
(* Steps. *)

\* One block more, of either sort.
BlocksOK(bs, st) == bs \in Seq(BlockType) /\ (format # "text" => Ancestry(bs) /\ st = StackOf(bs))

LEMMA AddPlain ==
  ASSUME NEW bs, BlocksOK(bs, stack), stack \in Seq(OpenHeading), read \in Nat,
         NEW kind \in Kinds, kind # "HEADING", NEW text \in Seq(Word)
  PROVE  BlocksOK(Append(bs, Block(kind, text, Trail(stack), 0)), stack)
<1> DEFINE b == Block(kind, text, Trail(stack), 0)
<1>1. Trail(stack) \in Seq(Nat)
  <2>1. DOMAIN stack = 1..Len(stack) /\ Len(stack) \in Nat /\ \A i \in 1..Len(stack) : stack[i] \in OpenHeading
    BY LenProperties, ElementOfSeq
  <2>2. \A i \in 1..Len(stack) : stack[i].name \in Nat
    BY <2>1 DEF OpenHeading
  <2>3. Trail(stack) \in [1..Len(stack) -> Nat]
    BY <2>1, <2>2 DEF Trail
  <2> QED BY <2>1, <2>3
<1>2. b \in BlockType /\ b.path = Trail(stack) /\ ~IsHeading(b)
  BY <1>1 DEF Block, BlockType, IsHeading
<1> HIDE DEF b
<1>3. bs \in Seq(BlockType)
  BY DEF BlocksOK
<1>4. Append(bs, b) \in Seq(BlockType)
  BY <1>2, <1>3, AppendProperties
<1>5. ASSUME format # "text"
      PROVE  Ancestry(Append(bs, b)) /\ stack = StackOf(Append(bs, b))
  <2>1. Ancestry(bs) /\ stack = StackOf(bs)
    BY <1>5 DEF BlocksOK
  <2> QED BY <1>2, <1>3, <2>1, PlainBlock
<1>6. BlocksOK(Append(bs, b), stack)
  BY <1>4, <1>5 DEF BlocksOK
<1> QED BY <1>6 DEF b

LEMMA AddHeading ==
  ASSUME NEW bs, BlocksOK(bs, stack), stack \in Seq(OpenHeading), read \in Nat, format # "text",
         NEW l \in Nat, NEW text \in Seq(Word), HeadingBlock(bs, l, text)
  PROVE  /\ blocks' \in Seq(BlockType) /\ Ancestry(blocks') /\ stack' = StackOf(blocks')
         /\ stack' \in Seq(OpenHeading)
<1> DEFINE kept == _trim_heading_path(l)
           b == Block("HEADING", text, Trail(kept), l)
           x == [level |-> l, name |-> read + 1]
           q == Picked(bs, Outranking(bs, l))
<1>1. blocks' = Append(bs, b) /\ stack' = Append(kept, x)
  BY DEF HeadingBlock
<1>2. bs \in Seq(BlockType) /\ Ancestry(bs) /\ stack = StackOf(bs)
  BY DEF BlocksOK
<1>3. kept = Openings(q)
  BY <1>2, TrimmedStack
<1> HIDE DEF kept
<1>4. kept \in Seq(OpenHeading)
  <2>1. q \in Seq(BlockType)
    BY <1>2, PickedLocates
  <2> HIDE DEF q
  <2>2. DOMAIN q = 1..Len(q) /\ Len(q) \in Nat /\ \A i \in 1..Len(q) : q[i] \in BlockType
    BY <2>1, LenProperties, ElementOfSeq
  <2>3. \A i \in 1..Len(q) : [level |-> q[i].level, name |-> q[i].name] \in OpenHeading
    BY <2>2 DEF BlockType, OpenHeading
  <2>4. kept \in [1..Len(q) -> OpenHeading]
    BY <1>3, <2>2, <2>3 DEF Openings
  <2> QED BY <2>2, <2>4
<1>5. Trail(kept) \in Seq(Nat)
  <2>1. DOMAIN kept = 1..Len(kept) /\ Len(kept) \in Nat /\ \A i \in 1..Len(kept) : kept[i] \in OpenHeading
    BY <1>4, LenProperties, ElementOfSeq
  <2>2. \A i \in 1..Len(kept) : kept[i].name \in Nat
    BY <2>1 DEF OpenHeading
  <2>3. Trail(kept) \in [1..Len(kept) -> Nat]
    BY <2>1, <2>2 DEF Trail
  <2> QED BY <2>1, <2>3
<1>6. b \in BlockType /\ b.path = Trail(kept) /\ IsHeading(b) /\ b.level = l /\ b.name = read + 1
  BY <1>5 DEF Block, BlockType, IsHeading, Kinds
<1>7. x \in OpenHeading
  BY DEF OpenHeading
<1>8. x = [level |-> b.level, name |-> b.name]
  BY <1>6
<1> HIDE DEF b, x, q
<1>9. blocks' \in Seq(BlockType) /\ stack' \in Seq(OpenHeading)
  BY <1>1, <1>2, <1>4, <1>6, <1>7, AppendProperties
<1>10. Ancestry(Append(bs, b)) /\ StackOf(Append(bs, b)) = Append(Openings(q), x)
  BY <1>2, <1>3, <1>6, <1>8, HeadingRead DEF q
<1> QED BY <1>1, <1>3, <1>9, <1>10

LEMMA WordsAreWords ==
  ASSUME NEW n \in Nat, read \in Nat
  PROVE  NewWords(n) \in Seq(Word)
<1>1. \A i \in 1..n : [line |-> read + 1, word |-> i] \in Word
  BY DEF Word
<1>2. NewWords(n) \in [1..n -> Word]
  BY <1>1 DEF NewWords
<1> QED BY <1>2

LEMMA WordsConcat ==
  ASSUME NEW s \in Seq(Word), NEW t \in Seq(Word)
  PROVE  s \o t \in Seq(Word)
BY ConcatElements

DocInv == DocTypes /\ PathInv

LEMMA BlocksAreOK == DocInv => BlocksOK(blocks, stack)
BY DEF DocInv, DocTypes, PathInv, BlocksOK

LEMMA FlushedIsOK == DocInv => BlocksOK(Flushed, stack)
<1> SUFFICES ASSUME DocInv
             PROVE  BlocksOK(Flushed, stack)
  OBVIOUS
<1>1. BlocksOK(blocks, stack)
  BY BlocksAreOK
<1>2. stack \in Seq(OpenHeading) /\ read \in Nat /\ paragraph.text \in Seq(Word)
  BY DEF DocInv, DocTypes
<1>3. "CLAUSE" \in Kinds /\ "PARAGRAPH" \in Kinds
  BY DEF Kinds
<1>4. BlocksOK(Append(blocks, Block("CLAUSE", paragraph.text, Trail(stack), 0)), stack)
  BY <1>1, <1>2, <1>3, AddPlain
<1>5. BlocksOK(Append(blocks, Block("PARAGRAPH", paragraph.text, Trail(stack), 0)), stack)
  BY <1>1, <1>2, <1>3, AddPlain
<1> QED BY <1>1, <1>4, <1>5 DEF Flushed

\* What a step leaves of the invariant when it says what the next blocks are.
StepOK ==
  /\ BlocksOK(blocks', stack') /\ format' = format /\ stack' \in Seq(OpenHeading)
  /\ format \in {"markdown", "html", "text"}
  /\ paragraph' \in [text : Seq(Word), clause : BOOLEAN]
  /\ inFence' \in BOOLEAN /\ fenced' \in Seq(Word)
  /\ tag' \in [kind : {"none", "HEADING"} \cup BlockTags, level : Nat, skip : Nat]
  /\ read' \in Nat /\ content' \in Seq(Word) /\ done' \in BOOLEAN

LEMMA StepKeepsDoc == StepOK => DocInv'
<1>1. StepOK => DocTypes'
  BY DEF StepOK, DocTypes, BlocksOK
<1>2. StepOK => PathInv'
  BY DEF StepOK, PathInv, BlocksOK
<1> QED BY <1>1, <1>2 DEF DocInv

LEMMA ReadKeeps ==
  ASSUME DocInv, NEW f, NEW n \in Nat, Read(f, n)
  PROVE  /\ format = f /\ format' = format /\ read' \in Nat /\ content' \in Seq(Word) /\ done' \in BOOLEAN
         /\ NewWords(n) \in Seq(Word) /\ content' = content \o NewWords(n) /\ ~done /\ done' = done
<1>1. read \in Nat /\ content \in Seq(Word) /\ done \in BOOLEAN
  BY DEF DocInv, DocTypes
<1>2. NewWords(n) \in Seq(Word)
  BY <1>1, WordsAreWords
<1>3. content \o NewWords(n) \in Seq(Word)
  BY <1>1, <1>2, WordsConcat
<1> QED BY <1>1, <1>2, <1>3 DEF Read

LEMMA NothingIsText == << >> \in Seq(Word) /\ NoParagraph \in [text : Seq(Word), clause : BOOLEAN]
<1>1. << >> \in Seq(Word)
  OBVIOUS
<1> QED BY <1>1 DEF NoParagraph

LEMMA FenceKeeps == DocInv /\ ReadFence => DocInv'
<1> SUFFICES ASSUME DocInv, ReadFence
             PROVE  DocInv'
  OBVIOUS
<1>1. Read("markdown", 0) /\ 0 \in Nat
  BY DEF ReadFence
<1>2. /\ format' = format /\ read' \in Nat /\ content' \in Seq(Word) /\ done' \in BOOLEAN
  BY <1>1, ReadKeeps
<1>3. /\ stack \in Seq(OpenHeading) /\ read \in Nat /\ fenced \in Seq(Word) /\ inFence \in BOOLEAN
      /\ format \in {"markdown", "html", "text"}
      /\ tag \in [kind : {"none", "HEADING"} \cup BlockTags, level : Nat, skip : Nat]
  BY DEF DocInv, DocTypes
<1>4. BlocksOK(blocks, stack) /\ BlocksOK(Flushed, stack)
  BY BlocksAreOK, FlushedIsOK
<1>5. "CODE" \in Kinds
  BY DEF Kinds
<1>6. BlocksOK(Append(blocks, Block("CODE", fenced, Trail(stack), 0)), stack)
  BY <1>3, <1>4, <1>5, AddPlain
<1>7. /\ paragraph' = NoParagraph /\ stack' = stack /\ tag' = tag
      /\ inFence' \in BOOLEAN /\ fenced' \in {<< >>, fenced}
      /\ \/ blocks' = Append(blocks, Block("CODE", fenced, Trail(stack), 0))
         \/ blocks' = Flushed
  BY <1>3 DEF ReadFence
<1>8. BlocksOK(blocks', stack)
  BY <1>4, <1>6, <1>7
<1>9. BlocksOK(blocks', stack')
  BY <1>2, <1>7, <1>8 DEF BlocksOK
<1>10. StepOK
  BY <1>2, <1>3, <1>7, <1>9, NothingIsText DEF StepOK
<1> QED BY <1>10, StepKeepsDoc

LEMMA CodeKeeps ==
  ASSUME DocInv, NEW n \in Nat, ReadCode(n)
  PROVE  StepOK
<1>1. /\ format' = format /\ read' \in Nat /\ content' \in Seq(Word) /\ done' \in BOOLEAN
      /\ NewWords(n) \in Seq(Word)
  BY ReadKeeps DEF ReadCode
<1>2. /\ blocks' = blocks /\ stack' = stack /\ paragraph' = paragraph /\ inFence' = inFence /\ tag' = tag
      /\ fenced' = fenced \o NewWords(n)
  BY DEF ReadCode
<1>3. fenced' \in Seq(Word)
  BY <1>1, <1>2, WordsConcat DEF DocInv, DocTypes
<1>4. BlocksOK(blocks', stack')
  BY <1>1, <1>2, BlocksAreOK DEF BlocksOK
<1> QED BY <1>1, <1>2, <1>3, <1>4 DEF StepOK, DocInv, DocTypes

LEMMA HeadingKeeps ==
  ASSUME DocInv, NEW l \in Levels, ReadHeading(l)
  PROVE  StepOK
<1>1. Read("markdown", 1) /\ 1 \in Nat /\ l \in Nat
  BY PipelineAssumption DEF ReadHeading
<1>2. /\ format = "markdown" /\ format' = format /\ read' \in Nat /\ content' \in Seq(Word)
      /\ done' \in BOOLEAN /\ NewWords(1) \in Seq(Word)
  BY <1>1, ReadKeeps
<1>3. HeadingBlock(Flushed, l, NewWords(1)) /\ paragraph' = NoParagraph /\ inFence' = inFence
      /\ fenced' = fenced /\ tag' = tag
  BY DEF ReadHeading
<1>4. stack \in Seq(OpenHeading) /\ read \in Nat /\ format # "text"
  BY <1>2 DEF DocInv, DocTypes
<1>5. /\ blocks' \in Seq(BlockType) /\ Ancestry(blocks') /\ stack' = StackOf(blocks')
      /\ stack' \in Seq(OpenHeading)
  BY <1>1, <1>2, <1>3, <1>4, FlushedIsOK, AddHeading
<1>6. BlocksOK(blocks', stack')
  BY <1>5 DEF BlocksOK
<1> QED BY <1>2, <1>3, <1>5, <1>6, NothingIsText DEF StepOK, DocInv, DocTypes

LEMMA BlankKeeps ==
  ASSUME DocInv, ReadBlank
  PROVE  StepOK
<1>1. Read("markdown", 0) /\ 0 \in Nat
  BY DEF ReadBlank
<1>2. /\ format' = format /\ read' \in Nat /\ content' \in Seq(Word) /\ done' \in BOOLEAN
  BY <1>1, ReadKeeps
<1>3. /\ blocks' = Flushed /\ stack' = stack /\ paragraph' = NoParagraph /\ inFence' = inFence
      /\ fenced' = fenced /\ tag' = tag
  BY DEF ReadBlank
<1>4. BlocksOK(blocks', stack')
  BY <1>2, <1>3, FlushedIsOK DEF BlocksOK
<1> QED BY <1>2, <1>3, <1>4, NothingIsText DEF StepOK, DocInv, DocTypes

LEMMA DividerKeeps ==
  ASSUME DocInv, ReadDivider
  PROVE  StepOK
<1>1. Read("markdown", 0) /\ 0 \in Nat
  BY DEF ReadDivider
<1>2. /\ format' = format /\ read' \in Nat /\ content' \in Seq(Word) /\ done' \in BOOLEAN
  BY <1>1, ReadKeeps
<1>3. /\ blocks' = blocks /\ stack' = stack /\ paragraph' = paragraph /\ inFence' = inFence
      /\ fenced' = fenced /\ tag' = tag
  BY DEF ReadDivider
<1>4. BlocksOK(blocks', stack')
  BY <1>2, <1>3, BlocksAreOK DEF BlocksOK
<1> QED BY <1>2, <1>3, <1>4 DEF StepOK, DocInv, DocTypes

LEMMA BlockKeeps ==
  ASSUME DocInv, NEW kind \in Kinds, kind # "HEADING", NEW n \in Nat, ReadBlock(kind, n)
  PROVE  StepOK
<1>1. Read("markdown", n)
  BY DEF ReadBlock
<1>2. /\ format' = format /\ read' \in Nat /\ content' \in Seq(Word) /\ done' \in BOOLEAN
      /\ NewWords(n) \in Seq(Word)
  BY <1>1, ReadKeeps
<1>3. /\ blocks' = Append(Flushed, Block(kind, NewWords(n), Trail(stack), 0))
      /\ stack' = stack /\ paragraph' = NoParagraph /\ inFence' = inFence
      /\ fenced' = fenced /\ tag' = tag
  BY DEF ReadBlock
<1>4. stack \in Seq(OpenHeading) /\ read \in Nat
  BY DEF DocInv, DocTypes
<1>5. BlocksOK(blocks', stack)
  BY <1>2, <1>3, <1>4, FlushedIsOK, AddPlain
<1>6. BlocksOK(blocks', stack')
  BY <1>2, <1>3, <1>5 DEF BlocksOK
<1> QED BY <1>2, <1>3, <1>6, NothingIsText DEF StepOK, DocInv, DocTypes

LEMMA MoreText ==
  ASSUME DocInv, NEW clause \in BOOLEAN, NEW words \in Seq(Word)
  PROVE  [text |-> paragraph.text \o words,
          clause |-> IF paragraph.text = << >> THEN clause ELSE paragraph.clause]
           \in [text : Seq(Word), clause : BOOLEAN]
<1>1. paragraph.text \in Seq(Word) /\ paragraph.clause \in BOOLEAN
  BY DEF DocInv, DocTypes
<1>2. paragraph.text \o words \in Seq(Word)
  BY <1>1, WordsConcat
<1> QED BY <1>1, <1>2

LEMMA ProseKeeps ==
  ASSUME DocInv, NEW clause \in BOOLEAN, NEW n \in Nat, ReadProse(clause, n)
  PROVE  StepOK
<1>1. /\ format' = format /\ read' \in Nat /\ content' \in Seq(Word) /\ done' \in BOOLEAN
      /\ NewWords(n) \in Seq(Word)
  BY ReadKeeps DEF ReadProse
<1>2. /\ blocks' = blocks /\ stack' = stack /\ inFence' = inFence /\ fenced' = fenced /\ tag' = tag
      /\ paragraph' = [text |-> paragraph.text \o NewWords(n),
                       clause |-> IF paragraph.text = << >> THEN clause ELSE paragraph.clause]
  BY DEF ReadProse
<1>3. paragraph' \in [text : Seq(Word), clause : BOOLEAN]
  BY <1>1, <1>2, MoreText
<1>4. BlocksOK(blocks', stack')
  BY <1>1, <1>2, BlocksAreOK DEF BlocksOK
<1> QED BY <1>1, <1>2, <1>3, <1>4 DEF StepOK, DocInv, DocTypes

LEMMA MarkdownKeeps == DocInv /\ MarkdownNext => DocInv'
<1> SUFFICES ASSUME DocInv, MarkdownNext
             PROVE  DocInv'
  OBVIOUS
<1>0. RowKind \in Kinds /\ RowKind # "HEADING" /\ "QUOTE" \in Kinds /\ "LIST_ITEM" \in Kinds /\ Sizes \subseteq Nat
  BY PipelineAssumption DEF RowKind, Kinds
<1>1. CASE ReadFence
  BY <1>1, FenceKeeps
<1>2. CASE ReadBlank
  BY <1>2, BlankKeeps, StepKeepsDoc
<1>3. CASE ReadDivider
  BY <1>3, DividerKeeps, StepKeepsDoc
<1>4. CASE \E level \in Levels : ReadHeading(level)
  BY <1>4, HeadingKeeps, StepKeepsDoc
<1>5. ASSUME NEW n \in Sizes, ReadCode(n) PROVE DocInv'
  BY <1>0, <1>5, CodeKeeps, StepKeepsDoc
<1>6. ASSUME NEW n \in Sizes, ReadBlock(RowKind, n) PROVE DocInv'
  <2> DEFINE kind == RowKind
  <2>1. kind \in Kinds /\ kind # "HEADING" /\ n \in Nat /\ ReadBlock(kind, n)
    BY <1>0, <1>6
  <2> HIDE DEF kind
  <2> QED BY <2>1, BlockKeeps, StepKeepsDoc
<1>7. ASSUME NEW n \in Sizes, NEW kind \in {"QUOTE", "LIST_ITEM"}, ReadBlock(kind, n) PROVE DocInv'
  <2>1. kind \in Kinds /\ kind # "HEADING" /\ n \in Nat
    BY <1>0
  <2> QED BY <1>7, <2>1, BlockKeeps, StepKeepsDoc
<1>8. ASSUME NEW n \in Sizes, NEW clause \in BOOLEAN, ReadProse(clause, n) PROVE DocInv'
  BY <1>0, <1>8, ProseKeeps, StepKeepsDoc
<1> QED BY <1>1, <1>2, <1>3, <1>4, <1>5, <1>6, <1>7, <1>8 DEF MarkdownNext

LEMMA HtmlFlushKeeps ==
  ASSUME DocInv, HtmlFlush, format = "html", format' = format
  PROVE  BlocksOK(blocks', stack') /\ stack' \in Seq(OpenHeading)
<1>1. /\ stack \in Seq(OpenHeading) /\ read \in Nat /\ paragraph.text \in Seq(Word) /\ tag.level \in Nat
      /\ tag.kind \in {"none", "HEADING"} \cup BlockTags
  BY DEF DocInv, DocTypes
<1>2. CASE tag.kind = "none" \/ paragraph.text = << >>
  <2>1. blocks' = blocks /\ stack' = stack
    BY <1>2 DEF HtmlFlush
  <2> QED BY <1>1, <2>1, BlocksAreOK DEF BlocksOK
<1>3. CASE tag.kind = "HEADING" /\ paragraph.text # << >>
  <2>1. HeadingBlock(blocks, tag.level, paragraph.text)
    BY <1>3 DEF HtmlFlush
  <2>2. /\ blocks' \in Seq(BlockType) /\ Ancestry(blocks') /\ stack' = StackOf(blocks')
        /\ stack' \in Seq(OpenHeading)
    <3> DEFINE l == tag.level
               text == paragraph.text
    <3>1. format # "text" /\ l \in Nat /\ text \in Seq(Word) /\ HeadingBlock(blocks, l, text)
      BY <1>1, <2>1
    <3> HIDE DEF l, text
    <3> QED BY <1>1, <3>1, BlocksAreOK, AddHeading
  <2> QED BY <2>2 DEF BlocksOK
<1>4. CASE tag.kind # "none" /\ tag.kind # "HEADING" /\ paragraph.text # << >>
  <2> DEFINE kind == IF paragraph.clause THEN "CLAUSE" ELSE tag.kind
             text == paragraph.text
  <2>1. kind \in Kinds /\ kind # "HEADING" /\ text \in Seq(Word)
    BY <1>1, <1>4 DEF Kinds, BlockTags
  <2>2. blocks' = Append(blocks, Block(kind, text, Trail(stack), 0)) /\ stack' = stack
    BY <1>4 DEF HtmlFlush
  <2> HIDE DEF kind, text
  <2>3. BlocksOK(blocks', stack)
    BY <1>1, <2>1, <2>2, BlocksAreOK, AddPlain
  <2> QED BY <1>1, <2>2, <2>3 DEF BlocksOK
<1> QED BY <1>2, <1>3, <1>4

LEMMA OpenTagKeeps ==
  ASSUME DocInv, NEW kind \in {"HEADING"} \cup BlockTags, NEW l \in Nat, OpenBlockTag(kind, l)
  PROVE  StepOK
<1>1. Read("html", 0) /\ 0 \in Nat
  BY DEF OpenBlockTag
<1>2. /\ format = "html" /\ format' = format /\ read' \in Nat /\ content' \in Seq(Word) /\ done' \in BOOLEAN
  BY <1>1, ReadKeeps
<1>3. BlocksOK(blocks', stack') /\ stack' \in Seq(OpenHeading)
  BY <1>2, HtmlFlushKeeps DEF OpenBlockTag
<1>4. /\ paragraph' = NoParagraph /\ inFence' = inFence /\ fenced' = fenced
      /\ tag' = [tag EXCEPT !.kind = kind, !.level = l]
  BY DEF OpenBlockTag
<1>5. tag' \in [kind : {"none", "HEADING"} \cup BlockTags, level : Nat, skip : Nat]
  BY <1>4 DEF DocInv, DocTypes
<1> QED BY <1>2, <1>3, <1>4, <1>5, NothingIsText DEF StepOK, DocInv, DocTypes

LEMMA CloseTagKeeps ==
  ASSUME DocInv, CloseBlockTag
  PROVE  StepOK
<1>1. Read("html", 0) /\ 0 \in Nat
  BY DEF CloseBlockTag
<1>2. /\ format = "html" /\ format' = format /\ read' \in Nat /\ content' \in Seq(Word) /\ done' \in BOOLEAN
  BY <1>1, ReadKeeps
<1>3. BlocksOK(blocks', stack') /\ stack' \in Seq(OpenHeading)
  BY <1>2, HtmlFlushKeeps DEF CloseBlockTag
<1>4. paragraph' = NoParagraph /\ inFence' = inFence /\ fenced' = fenced /\ tag' = NoTag
  BY DEF CloseBlockTag
<1>5. tag' \in [kind : {"none", "HEADING"} \cup BlockTags, level : Nat, skip : Nat]
  BY <1>4 DEF NoTag
<1> QED BY <1>2, <1>3, <1>4, <1>5, NothingIsText DEF StepOK, DocInv, DocTypes

LEMMA SkipTagsKeep ==
  ASSUME DocInv, OpenSkipTag \/ CloseSkipTag
  PROVE  StepOK
<1>1. Read("html", 0) /\ 0 \in Nat
  BY DEF OpenSkipTag, CloseSkipTag
<1>2. /\ format' = format /\ read' \in Nat /\ content' \in Seq(Word) /\ done' \in BOOLEAN
  BY <1>1, ReadKeeps
<1>3. /\ blocks' = blocks /\ stack' = stack /\ paragraph' = paragraph /\ inFence' = inFence
      /\ fenced' = fenced
      /\ \/ tag' = [tag EXCEPT !.skip = @ + 1]
         \/ tag' = [tag EXCEPT !.skip = IF @ = 0 THEN 0 ELSE @ - 1]
  BY DEF OpenSkipTag, CloseSkipTag
<1>4. tag \in [kind : {"none", "HEADING"} \cup BlockTags, level : Nat, skip : Nat]
  BY DEF DocInv, DocTypes
<1>5. tag' \in [kind : {"none", "HEADING"} \cup BlockTags, level : Nat, skip : Nat]
  BY <1>3, <1>4
<1>6. BlocksOK(blocks', stack')
  BY <1>2, <1>3, BlocksAreOK DEF BlocksOK
<1> QED BY <1>2, <1>3, <1>5, <1>6 DEF StepOK, DocInv, DocTypes

LEMMA DataKeeps ==
  ASSUME DocInv, NEW clause \in BOOLEAN, NEW n \in Nat, HtmlData(clause, n)
  PROVE  StepOK
<1>1. /\ format' = format /\ read' \in Nat /\ content' \in Seq(Word) /\ done' \in BOOLEAN
      /\ NewWords(n) \in Seq(Word)
  BY ReadKeeps DEF HtmlData
<1>2. /\ blocks' = blocks /\ stack' = stack /\ inFence' = inFence /\ fenced' = fenced /\ tag' = tag
      /\ paragraph' = [text |-> paragraph.text \o NewWords(n),
                       clause |-> IF paragraph.text = << >> THEN clause ELSE paragraph.clause]
  BY DEF HtmlData
<1>3. paragraph' \in [text : Seq(Word), clause : BOOLEAN]
  BY <1>1, <1>2, MoreText
<1>4. BlocksOK(blocks', stack')
  BY <1>1, <1>2, BlocksAreOK DEF BlocksOK
<1> QED BY <1>1, <1>2, <1>3, <1>4 DEF StepOK, DocInv, DocTypes

LEMMA HtmlKeeps == DocInv /\ HtmlNext => DocInv'
<1> SUFFICES ASSUME DocInv, HtmlNext
             PROVE  DocInv'
  OBVIOUS
<1>0. DataSizes \subseteq Nat /\ Levels \subseteq Nat
  BY PipelineAssumption DEF DataSizes
<1>1. ASSUME NEW l \in Levels, OpenBlockTag("HEADING", l) PROVE DocInv'
  <2> DEFINE kind == "HEADING"
  <2>1. kind \in {"HEADING"} \cup BlockTags /\ l \in Nat /\ OpenBlockTag(kind, l)
    BY <1>0, <1>1
  <2> HIDE DEF kind
  <2> QED BY <2>1, OpenTagKeeps, StepKeepsDoc
<1>2. ASSUME NEW kind \in BlockTags, OpenBlockTag(kind, 0) PROVE DocInv'
  <2> DEFINE l == 0
  <2>1. kind \in {"HEADING"} \cup BlockTags /\ l \in Nat /\ OpenBlockTag(kind, l)
    BY <1>2
  <2> HIDE DEF l
  <2> QED BY <2>1, OpenTagKeeps, StepKeepsDoc
<1>3. CASE CloseBlockTag
  BY <1>3, CloseTagKeeps, StepKeepsDoc
<1>4. CASE OpenSkipTag \/ CloseSkipTag
  BY <1>4, SkipTagsKeep, StepKeepsDoc
<1>5. ASSUME NEW n \in DataSizes, NEW clause \in BOOLEAN, HtmlData(clause, n) PROVE DocInv'
  BY <1>0, <1>5, DataKeeps, StepKeepsDoc
<1> QED BY <1>1, <1>2, <1>3, <1>4, <1>5 DEF HtmlNext

LEMMA PartKeeps ==
  ASSUME DocInv, NEW kind \in {"SPEAKER_TURN", "CLAUSE", "PARAGRAPH"}, NEW n \in Nat, ReadPart(kind, n)
  PROVE  StepOK
<1>1. /\ format = "text" /\ format' = format /\ read' \in Nat /\ content' \in Seq(Word)
      /\ done' \in BOOLEAN /\ NewWords(n) \in Seq(Word)
  BY ReadKeeps DEF ReadPart
<1>2. /\ blocks' = Append(blocks, Block(kind, NewWords(n), << >>, 0))
      /\ stack' = stack /\ paragraph' = paragraph /\ inFence' = inFence /\ fenced' = fenced /\ tag' = tag
  BY DEF ReadPart
<1>3. Block(kind, NewWords(n), << >>, 0) \in BlockType
  <2>1. kind \in Kinds /\ << >> \in Seq(Nat) /\ read \in Nat /\ 0 \in Nat /\ read + 1 \in Nat
    BY DEF Kinds, DocInv, DocTypes
  <2> QED BY <1>1, <2>1 DEF Block, BlockType
<1>4. blocks' \in Seq(BlockType)
  BY <1>2, <1>3, AppendProperties DEF DocInv, DocTypes
<1>5. BlocksOK(blocks', stack')
  BY <1>1, <1>4 DEF BlocksOK
<1> QED BY <1>1, <1>2, <1>5 DEF StepOK, DocInv, DocTypes

LEMMA NoTagIsATag ==
  NoTag \in [kind : {"none", "HEADING"} \cup BlockTags, level : Nat, skip : Nat]
BY DEF NoTag

LEMMA FinishKeeps ==
  ASSUME DocInv, Finish
  PROVE  StepOK
<1>1. /\ format' = format /\ read' = read /\ content' = content /\ done' = TRUE
      /\ paragraph' = NoParagraph /\ inFence' = FALSE /\ fenced' = << >> /\ tag' = NoTag
  BY DEF Finish
<1>2. /\ format \in {"markdown", "html", "text"} /\ stack \in Seq(OpenHeading) /\ read \in Nat
      /\ fenced \in Seq(Word)
  BY DEF DocInv, DocTypes
<1>3. CASE format = "markdown"
  <2>1. blocks' = Unterminated /\ stack' = stack
    BY <1>3 DEF Finish
  <2>2. BlocksOK(Append(Flushed, Block("CODE", fenced, Trail(stack), 0)), stack)
    <3>1. "CODE" \in Kinds
      BY DEF Kinds
    <3> QED BY <1>2, <3>1, FlushedIsOK, AddPlain
  <2>3. BlocksOK(Unterminated, stack)
    BY <2>2, FlushedIsOK DEF Unterminated
  <2>4. BlocksOK(blocks', stack')
    BY <1>1, <2>1, <2>3 DEF BlocksOK
  <2> QED BY <1>1, <1>2, <2>1, <2>4, NothingIsText, NoTagIsATag DEF StepOK, DocInv, DocTypes
<1>4. CASE format = "html"
  <2>1. HtmlFlush
    BY <1>4 DEF Finish
  <2>2. BlocksOK(blocks', stack') /\ stack' \in Seq(OpenHeading)
    BY <1>1, <1>4, <2>1, HtmlFlushKeeps
  <2> QED BY <1>1, <1>2, <2>2, NothingIsText, NoTagIsATag DEF StepOK, DocInv, DocTypes
<1>5. CASE format = "text"
  <2>1. blocks' = blocks /\ stack' = stack
    BY <1>5 DEF Finish
  <2>2. BlocksOK(blocks', stack')
    BY <1>1, <2>1, BlocksAreOK DEF BlocksOK
  <2> QED BY <1>1, <1>2, <2>1, <2>2, NothingIsText, NoTagIsATag DEF StepOK, DocInv, DocTypes
<1> QED BY <1>2, <1>3, <1>4, <1>5

LEMMA DocInit == Init => DocInv
<1> SUFFICES ASSUME Init
             PROVE  DocInv
  OBVIOUS
<1>1. DocTypes
  <2>1. format \in {"markdown", "html", "text"}
    BY PipelineAssumption DEF Init
  <2>2. blocks \in Seq(BlockType) /\ stack \in Seq(OpenHeading)
    BY DEF Init
  <2> QED BY <2>1, <2>2, NothingIsText, NoTagIsATag DEF DocTypes, Init
<1>2. Ancestry(blocks) /\ stack = StackOf(blocks)
  <2>1. blocks = << >> /\ stack = << >>
    BY DEF Init
  <2>2. Picked(<< >>, OpenIn(<< >>)) = << >>
    BY PickedEmpty
  <2>3. Openings(<< >>) = << >>
    BY DEF Openings
  <2>4. Ancestry(<< >>)
    BY DEF Ancestry
  <2> QED BY <2>1, <2>2, <2>3, <2>4 DEF StackOf
<1> QED BY <1>1, <1>2 DEF DocInv, PathInv

LEMMA DocStep == DocInv /\ [Next]_vars => DocInv'
<1> SUFFICES ASSUME DocInv, [Next]_vars
             PROVE  DocInv'
  OBVIOUS
<1>1. CASE MarkdownNext
  BY <1>1, MarkdownKeeps
<1>2. CASE HtmlNext
  BY <1>2, HtmlKeeps
<1>3. CASE TextNext
  BY <1>3, PartKeeps, StepKeepsDoc, PipelineAssumption DEF TextNext
<1>4. CASE Finish
  BY <1>4, FinishKeeps, StepKeepsDoc
<1>5. CASE UNCHANGED vars
  BY <1>5 DEF vars, DocInv, DocTypes, PathInv
<1> QED BY <1>1, <1>2, <1>3, <1>4, <1>5 DEF Next

LEMMA InvariantImpliesAncestry == DocInv => HeadingPathIsAncestry
<1> SUFFICES ASSUME DocInv, format # "text", NEW i \in DOMAIN blocks
             PROVE  blocks[i].path = Trail(Picked(blocks, {j \in DOMAIN blocks : Encloses(j, i)}))
  BY DEF HeadingPathIsAncestry
<1>1. {j \in DOMAIN blocks : Encloses(j, i)} = Enclosing(blocks, i)
  BY DEF Enclosing, Encloses, Closes
<1>2. blocks[i].path = Trail(Picked(blocks, Enclosing(blocks, i)))
  BY DEF DocInv, PathInv, Ancestry
<1> QED BY <1>1, <1>2

\* A block's path names exactly the headings that enclose it, for documents of
\* any length, in markdown or in HTML, whatever the order of their headings.
THEOREM PathsAreAncestries == Spec => []HeadingPathIsAncestry
BY DocInit, DocStep, InvariantImpliesAncestry, PTL DEF Spec

-----------------------------------------------------------------------------
(* What a document says, and where it is on its way to a chunk.            *)

\* The words that wait for the end of a fence or of a paragraph.
Waiting == IF inFence THEN fenced ELSE paragraph.text

WaitInv ==
  /\ inFence => format = "markdown" /\ paragraph.text = << >>
  /\ ~inFence => fenced = << >>
  /\ format = "html" /\ tag.kind = "none" => paragraph.text = << >>
  /\ format = "text" => paragraph.text = << >>

\* Every word taken in is in a block or waits for one, in the order of the document.
FlowInv == content = Then(Text(blocks), Waiting)

\* No word is taken in twice.
FreshInv == Distinct(content) /\ \A i \in 1..Len(content) : content[i].line <= read

DoneInv == done => Waiting = << >> /\ chunks = Chunked(blocks)

ContentInv == WaitInv /\ FlowInv /\ FreshInv /\ DoneInv

LEMMA BlocksWorded == Worded(BlockType, Seq(Word))
BY DEF Worded, BlockType

LEMMA ThenNothing ==
  ASSUME NEW s \in Seq(Word)
  PROVE  Then(s, << >>) = s
BY ConcatProperties DEF Then

LEMMA BlockAppended ==
  ASSUME NEW bs \in Seq(BlockType), NEW kind, NEW text, NEW path, NEW level,
         Append(bs, Block(kind, text, path, level)) \in Seq(BlockType)
  PROVE  Text(Append(bs, Block(kind, text, path, level))) = Then(Text(bs), text)
<1> DEFINE b == Block(kind, text, path, level)
           n == Len(bs)
<1>1. b.text = text
  BY DEF Block
<1> HIDE DEF b
<1>2. b \in BlockType
  <2> DEFINE more == Append(bs, b)
             D == BlockType \cup {b}
  <2>1. bs \in Seq(D) /\ b \in D
    BY SeqWithin
  <2> HIDE DEF D
  <2>2. n \in Nat /\ Len(more) = n + 1 /\ more[n + 1] = b
    BY <2>1, AppendProperties, LenProperties
  <2>3. more \in Seq(BlockType)
    BY DEF b
  <2> HIDE DEF more, n
  <2>4. n + 1 \in 1..Len(more)
    BY <2>2
  <2>5. more[n + 1] \in BlockType
    BY <2>3, <2>4, ElementOfSeq
  <2> QED BY <2>2, <2>5
<1>3. Text(Append(bs, b)) = Then(Text(bs), b.text)
  BY <1>2, BlocksWorded, WordsClosed, TextAppend
<1> QED BY <1>1, <1>3 DEF b

LEMMA BlocksText ==
  ASSUME NEW bs \in Seq(BlockType)
  PROVE  Text(bs) \in Seq(Word)
BY BlocksWorded, WordsClosed, TextType

\* flush_paragraph puts the paragraph at the end.
LEMMA FlushedText == DocInv => Text(Flushed) = Then(Text(blocks), paragraph.text)
<1> SUFFICES ASSUME DocInv
             PROVE  Text(Flushed) = Then(Text(blocks), paragraph.text)
  OBVIOUS
<1>1. blocks \in Seq(BlockType) /\ Flushed \in Seq(BlockType)
  BY BlocksAreOK, FlushedIsOK DEF BlocksOK
<1>2. Text(blocks) \in Seq(Word)
  BY <1>1, BlocksText
<1>3. CASE paragraph.text = << >>
  <2>1. Flushed = blocks
    BY <1>3 DEF Flushed
  <2> QED BY <1>2, <1>3, <2>1, ThenNothing
<1>4. CASE paragraph.text # << >>
  <2> DEFINE kind == IF paragraph.clause THEN "CLAUSE" ELSE "PARAGRAPH"
             text == paragraph.text
             path == Trail(stack)
             level == 0
  <2>1. Flushed = Append(blocks, Block(kind, text, path, level))
    BY <1>4 DEF Flushed
  <2> HIDE DEF kind, text, path, level
  <2>2. Append(blocks, Block(kind, text, path, level)) \in Seq(BlockType)
    BY <1>1, <2>1
  <2>3. Text(Append(blocks, Block(kind, text, path, level))) = Then(Text(blocks), text)
    BY <1>1, <2>2, BlockAppended
  <2> QED BY <2>1, <2>3 DEF text
<1> QED BY <1>3, <1>4

LEMMA HtmlFlushText ==
  ASSUME DocInv, HtmlFlush, format = "html", format' = format, WaitInv
  PROVE  Text(blocks') = Then(Text(blocks), paragraph.text)
<1>1. blocks \in Seq(BlockType) /\ blocks' \in Seq(BlockType)
  BY BlocksAreOK, HtmlFlushKeeps DEF BlocksOK
<1>2. Text(blocks) \in Seq(Word)
  BY <1>1, BlocksText
<1>3. CASE paragraph.text = << >>
  <2>1. blocks' = blocks
    BY <1>3 DEF HtmlFlush
  <2> QED BY <1>2, <1>3, <2>1, ThenNothing
<1>4. CASE paragraph.text # << >>
  <2>1. tag.kind # "none"
    BY <1>4 DEF WaitInv
  <2>2. \E kind, path, level : blocks' = Append(blocks, Block(kind, paragraph.text, path, level))
    <3>1. CASE tag.kind = "HEADING"
      <4>1. HeadingBlock(blocks, tag.level, paragraph.text)
        BY <1>4, <3>1 DEF HtmlFlush
      <4> QED BY <4>1 DEF HeadingBlock
    <3>2. CASE tag.kind # "HEADING"
      BY <1>4, <2>1, <3>2 DEF HtmlFlush
    <3> QED BY <3>1, <3>2
  <2> DEFINE text == paragraph.text
  <2>3. PICK kind, path, level : blocks' = Append(blocks, Block(kind, text, path, level))
    BY <2>2
  <2> HIDE DEF text
  <2>4. Append(blocks, Block(kind, text, path, level)) \in Seq(BlockType)
    BY <1>1, <2>3
  <2>5. Text(Append(blocks, Block(kind, text, path, level))) = Then(Text(blocks), text)
    BY <1>1, <2>4, BlockAppended
  <2> QED BY <2>3, <2>5 DEF text
<1> QED BY <1>3, <1>4

LEMMA NoNewWords == NewWords(0) = << >>
BY DEF NewWords

\* What a step says of the words: those it read, if any, are at the end.
FlowStep == content' = Then(Text(blocks'), IF inFence' THEN fenced' ELSE paragraph'.text)

\* No word is read: the waiting ones are in a block, or still wait.
LEMMA NothingRead ==
  ASSUME DocInv, NEW f, Read(f, 0)
  PROVE  content' = content
<1>1. content' = content \o NewWords(0) /\ content \in Seq(Word)
  BY DEF Read, DocInv, DocTypes
<1> QED BY <1>1, NoNewWords, ConcatProperties

\* The new words follow what is already taken in.
LEMMA WordsFollow ==
  ASSUME DocInv, FlowInv, NEW f, NEW n \in Nat, Read(f, n)
  PROVE  /\ content' = Then(content, NewWords(n))
         /\ content' = Then(Text(blocks), Then(Waiting, NewWords(n)))
<1>1. content' = Then(content, NewWords(n)) /\ NewWords(n) \in Seq(Word)
  BY ReadKeeps DEF Then
<1>2. Waiting \in Seq(Word) /\ blocks \in Seq(BlockType)
  BY DEF Waiting, DocInv, DocTypes
<1>3. Text(blocks) \in Seq(Word)
  BY <1>2, BlocksText
<1> DEFINE t == Text(blocks)
           w == Waiting
           x == NewWords(n)
<1>4. t \in Seq(Word) /\ w \in Seq(Word) /\ x \in Seq(Word) /\ content = Then(t, w)
  BY <1>1, <1>2, <1>3 DEF FlowInv
<1> HIDE DEF t, w, x
<1>5. Then(Then(t, w), x) = Then(t, Then(w, x))
  BY <1>4, ThenThen
<1>6. content' = Then(content, x)
  BY <1>1 DEF x
<1> QED BY <1>4, <1>5, <1>6 DEF t, w, x

LEMMA FenceFlows ==
  ASSUME DocInv, WaitInv, FlowInv, ReadFence
  PROVE  FlowStep
<1>1. content' = content
  BY NothingRead DEF ReadFence
<1>2. paragraph'.text = << >> /\ (inFence' <=> ~inFence) /\ inFence \in BOOLEAN
  BY DEF ReadFence, NoParagraph, DocInv, DocTypes
<1>3. content \in Seq(Word) /\ blocks \in Seq(BlockType)
  BY DEF DocInv, DocTypes
<1>4. CASE inFence
  <2> DEFINE kind == "CODE"
             path == Trail(stack)
             level == 0
  <2>1. blocks' = Append(blocks, Block(kind, fenced, path, level)) /\ ~inFence'
    BY <1>2, <1>4 DEF ReadFence
  <2> HIDE DEF kind, path, level
  <2>2. blocks' \in Seq(BlockType)
    BY FenceKeeps DEF DocInv, DocTypes
  <2>3. Text(blocks') = Then(Text(blocks), fenced)
    <3>1. Append(blocks, Block(kind, fenced, path, level)) \in Seq(BlockType)
      BY <2>1, <2>2
    <3>2. Text(Append(blocks, Block(kind, fenced, path, level))) = Then(Text(blocks), fenced)
      BY <1>3, <3>1, BlockAppended
    <3> QED BY <2>1, <3>2
  <2>4. Text(blocks') = content
    BY <1>4, <2>3 DEF FlowInv, Waiting
  <2> QED BY <1>1, <1>2, <1>3, <2>1, <2>4, ThenNothing DEF FlowStep
<1>5. CASE ~inFence
  <2>1. blocks' = Flushed /\ fenced' = fenced /\ fenced = << >> /\ inFence'
    BY <1>2, <1>5 DEF ReadFence, WaitInv
  <2>2. Text(blocks') = content
    BY <1>5, <2>1, FlushedText DEF FlowInv, Waiting
  <2> QED BY <1>1, <1>3, <2>1, <2>2, ThenNothing DEF FlowStep
<1> QED BY <1>2, <1>4, <1>5

LEMMA CodeFlows ==
  ASSUME DocInv, WaitInv, FlowInv, NEW n \in Nat, ReadCode(n)
  PROVE  FlowStep
<1>1. content' = Then(Text(blocks), Then(Waiting, NewWords(n)))
  BY WordsFollow DEF ReadCode
<1>2. inFence /\ inFence' = inFence /\ blocks' = blocks /\ fenced' = fenced \o NewWords(n)
  BY DEF ReadCode
<1>3. fenced' = Then(Waiting, NewWords(n))
  BY <1>2 DEF Waiting, Then
<1> QED BY <1>1, <1>2, <1>3 DEF FlowStep

\* The paragraph is flushed, and a block of the new words follows it.
LEMMA BlockFlows ==
  ASSUME DocInv, WaitInv, FlowInv, NEW n \in Nat, Read("markdown", n),
         NEW kind, NEW path, NEW level, blocks' = Append(Flushed, Block(kind, NewWords(n), path, level)),
         blocks' \in Seq(BlockType), ~inFence, inFence' = inFence, paragraph' = NoParagraph
  PROVE  FlowStep
<1> DEFINE x == NewWords(n)
<1>1. content' = Then(content, x)
  BY WordsFollow
<1> HIDE DEF x
<1>2. Flushed \in Seq(BlockType)
  BY FlushedIsOK DEF BlocksOK
<1>3. Append(Flushed, Block(kind, x, path, level)) \in Seq(BlockType)
  BY DEF x
<1>4. Text(Append(Flushed, Block(kind, x, path, level))) = Then(Text(Flushed), x)
  BY <1>2, <1>3, BlockAppended
<1>5. Text(Flushed) = content
  BY FlushedText DEF FlowInv, Waiting
<1>6. Text(blocks') = content'
  BY <1>1, <1>4, <1>5 DEF x
<1>7. Text(blocks') \in Seq(Word)
  BY BlocksText
<1>8. ~inFence' /\ paragraph'.text = << >>
  BY DEF NoParagraph
<1> QED BY <1>6, <1>7, <1>8, ThenNothing DEF FlowStep

LEMMA HeadingFlows ==
  ASSUME DocInv, WaitInv, FlowInv, NEW l \in Levels, ReadHeading(l)
  PROVE  FlowStep
<1> DEFINE n == 1
           kind == "HEADING"
           path == Trail(_trim_heading_path(l))
<1>1. /\ blocks' = Append(Flushed, Block(kind, NewWords(n), path, l))
      /\ n \in Nat /\ Read("markdown", n)
      /\ ~inFence /\ inFence' = inFence /\ paragraph' = NoParagraph
  BY DEF ReadHeading, HeadingBlock
<1>2. blocks' \in Seq(BlockType)
  BY HeadingKeeps DEF StepOK, BlocksOK
<1> HIDE DEF n, kind, path
<1> QED BY <1>1, <1>2, BlockFlows

LEMMA BlankFlows ==
  ASSUME DocInv, WaitInv, FlowInv, ReadBlank
  PROVE  FlowStep
<1>1. content' = content /\ content \in Seq(Word)
  BY NothingRead DEF ReadBlank, DocInv, DocTypes
<1>2. blocks' = Flushed /\ ~inFence /\ inFence' = inFence /\ paragraph'.text = << >>
  BY DEF ReadBlank, NoParagraph
<1>3. Text(blocks') = content
  BY <1>2, FlushedText DEF FlowInv, Waiting
<1> QED BY <1>1, <1>2, <1>3, ThenNothing DEF FlowStep

LEMMA DividerFlows ==
  ASSUME DocInv, WaitInv, FlowInv, ReadDivider
  PROVE  FlowStep
<1>1. content' = content
  BY NothingRead DEF ReadDivider
<1>2. blocks' = blocks /\ inFence' = inFence /\ fenced' = fenced /\ paragraph' = paragraph
  BY DEF ReadDivider
<1> QED BY <1>1, <1>2 DEF FlowStep, FlowInv, Waiting

LEMMA PlainFlows ==
  ASSUME DocInv, WaitInv, FlowInv, NEW kind \in Kinds, kind # "HEADING", NEW n \in Nat, ReadBlock(kind, n)
  PROVE  FlowStep
<1> DEFINE path == Trail(stack)
           level == 0
<1>1. /\ blocks' = Append(Flushed, Block(kind, NewWords(n), path, level))
      /\ Read("markdown", n)
      /\ ~inFence /\ inFence' = inFence /\ paragraph' = NoParagraph
  BY DEF ReadBlock
<1>2. blocks' \in Seq(BlockType)
  BY BlockKeeps DEF StepOK, BlocksOK
<1> HIDE DEF path, level
<1> QED BY <1>1, <1>2, BlockFlows

\* The paragraph grows.
LEMMA TextFlows ==
  ASSUME DocInv, FlowInv, NEW f, NEW n \in Nat, Read(f, n), ~inFence, inFence' = inFence,
         blocks' = blocks, paragraph'.text = paragraph.text \o NewWords(n)
  PROVE  FlowStep
<1>1. content' = Then(Text(blocks), Then(Waiting, NewWords(n)))
  BY WordsFollow
<1>2. paragraph'.text = Then(Waiting, NewWords(n))
  BY DEF Waiting, Then
<1> QED BY <1>1, <1>2 DEF FlowStep

LEMMA ProseFlows ==
  ASSUME DocInv, WaitInv, FlowInv, NEW clause \in BOOLEAN, NEW n \in Nat, ReadProse(clause, n)
  PROVE  FlowStep
BY TextFlows DEF ReadProse

LEMMA OpenTagFlows ==
  ASSUME DocInv, WaitInv, FlowInv, NEW kind \in {"HEADING"} \cup BlockTags, NEW l \in Nat,
         OpenBlockTag(kind, l) \/ CloseBlockTag
  PROVE  FlowStep
<1>1. /\ Read("html", 0) /\ HtmlFlush /\ inFence' = inFence /\ paragraph' = NoParagraph
      /\ format = "html" /\ format' = format
  BY DEF OpenBlockTag, CloseBlockTag, Read
<1>2. content' = content /\ content \in Seq(Word)
  BY <1>1, NothingRead DEF DocInv, DocTypes
<1>3. ~inFence /\ ~inFence' /\ paragraph'.text = << >>
  BY <1>1 DEF WaitInv, NoParagraph
<1>4. Text(blocks') = content
  BY <1>1, <1>3, HtmlFlushText DEF FlowInv, Waiting
<1> QED BY <1>2, <1>3, <1>4, ThenNothing DEF FlowStep

LEMMA SkipTagsFlow ==
  ASSUME DocInv, WaitInv, FlowInv, OpenSkipTag \/ CloseSkipTag
  PROVE  FlowStep
<1>1. Read("html", 0)
  BY DEF OpenSkipTag, CloseSkipTag
<1>2. content' = content
  BY <1>1, NothingRead
<1>3. blocks' = blocks /\ inFence' = inFence /\ fenced' = fenced /\ paragraph' = paragraph
  BY DEF OpenSkipTag, CloseSkipTag
<1> QED BY <1>2, <1>3 DEF FlowStep, FlowInv, Waiting

LEMMA DataFlows ==
  ASSUME DocInv, WaitInv, FlowInv, NEW clause \in BOOLEAN, NEW n \in Nat, HtmlData(clause, n)
  PROVE  FlowStep
<1>1. Read("html", n) /\ format = "html"
  BY DEF HtmlData, Read
<1>2. ~inFence
  BY <1>1 DEF WaitInv
<1> QED BY <1>1, <1>2, TextFlows DEF HtmlData

LEMMA PartFlows ==
  ASSUME DocInv, WaitInv, FlowInv, NEW kind \in {"SPEAKER_TURN", "CLAUSE", "PARAGRAPH"}, NEW n \in Nat,
         ReadPart(kind, n)
  PROVE  FlowStep
<1> DEFINE x == NewWords(n)
           path == << >>
           level == 0
<1>1. content' = Then(content, x)
  BY WordsFollow DEF ReadPart
<1>2. /\ blocks' = Append(blocks, Block(kind, x, path, level)) /\ format = "text"
      /\ paragraph' = paragraph /\ inFence' = inFence
  BY DEF ReadPart, Read
<1>3. blocks \in Seq(BlockType) /\ blocks' \in Seq(BlockType)
  BY PartKeeps DEF StepOK, BlocksOK, DocInv, DocTypes
<1> HIDE DEF x, path, level
<1>4. Append(blocks, Block(kind, x, path, level)) \in Seq(BlockType)
  BY <1>2, <1>3
<1>5. Text(Append(blocks, Block(kind, x, path, level))) = Then(Text(blocks), x)
  BY <1>3, <1>4, BlockAppended
<1>6. ~inFence /\ paragraph.text = << >>
  BY <1>2 DEF WaitInv
<1>7. Text(blocks) = content
  <2>1. Text(blocks) \in Seq(Word)
    BY <1>3, BlocksText
  <2> QED BY <1>6, <2>1, ThenNothing DEF FlowInv, Waiting
<1>8. Text(blocks') = content' /\ Text(blocks') \in Seq(Word)
  BY <1>1, <1>2, <1>3, <1>5, <1>7, BlocksText
<1> QED BY <1>2, <1>6, <1>8, ThenNothing DEF FlowStep

\* An unterminated fence keeps its content.
LEMMA UnterminatedText ==
  ASSUME DocInv, WaitInv, FlowInv
  PROVE  Unterminated \in Seq(BlockType) => Text(Unterminated) = content
<1> SUFFICES ASSUME Unterminated \in Seq(BlockType)
             PROVE  Text(Unterminated) = content
  OBVIOUS
<1>1. /\ blocks \in Seq(BlockType) /\ Flushed \in Seq(BlockType) /\ content \in Seq(Word)
      /\ inFence \in BOOLEAN
  BY FlushedIsOK DEF BlocksOK, DocInv, DocTypes
<1>2. Text(Flushed) = Then(Text(blocks), paragraph.text) /\ Text(blocks) \in Seq(Word)
  BY <1>1, FlushedText, BlocksText
<1>3. CASE fenced = << >>
  <2>1. Waiting = paragraph.text
    BY <1>1, <1>3 DEF Waiting, WaitInv
  <2> QED BY <1>2, <1>3, <2>1 DEF Unterminated, FlowInv
<1>4. CASE fenced # << >>
  <2>1. inFence /\ paragraph.text = << >>
    BY <1>1, <1>4 DEF WaitInv
  <2>2. Text(Flushed) = Text(blocks)
    BY <1>2, <2>1, ThenNothing
  <2> DEFINE kind == "CODE"
             path == Trail(stack)
             level == 0
  <2>3. Unterminated = Append(Flushed, Block(kind, fenced, path, level))
    BY <1>4 DEF Unterminated
  <2> HIDE DEF kind, path, level
  <2>4. Text(Unterminated) = Then(Text(Flushed), fenced)
    <3>1. Append(Flushed, Block(kind, fenced, path, level)) \in Seq(BlockType)
      BY <2>3
    <3>2. Text(Append(Flushed, Block(kind, fenced, path, level))) = Then(Text(Flushed), fenced)
      BY <1>1, <3>1, BlockAppended
    <3> QED BY <2>3, <3>2
  <2> QED BY <2>1, <2>2, <2>4 DEF FlowInv, Waiting
<1> QED BY <1>3, <1>4

LEMMA FinishFlows ==
  ASSUME DocInv, WaitInv, FlowInv, Finish
  PROVE  FlowStep
<1>1. /\ content' = content /\ paragraph'.text = << >> /\ ~inFence' /\ format' = format
  BY DEF Finish, NoParagraph
<1>2. format \in {"markdown", "html", "text"} /\ content \in Seq(Word) /\ blocks \in Seq(BlockType)
  BY DEF DocInv, DocTypes
<1>3. blocks' \in Seq(BlockType)
  BY FinishKeeps DEF StepOK, BlocksOK
<1>4. CASE format = "markdown"
  <2>1. blocks' = Unterminated
    BY <1>4 DEF Finish
  <2>2. Text(Unterminated) = content
    BY <1>3, <2>1, UnterminatedText
  <2> QED BY <1>1, <1>2, <2>1, <2>2, ThenNothing DEF FlowStep
<1>5. CASE format = "html"
  <2>1. HtmlFlush /\ ~inFence
    BY <1>5 DEF Finish, WaitInv
  <2>2. Text(blocks') = content
    BY <1>1, <1>5, <2>1, HtmlFlushText DEF FlowInv, Waiting
  <2> QED BY <1>1, <1>2, <2>2, ThenNothing DEF FlowStep
<1>6. CASE format = "text"
  <2>1. blocks' = blocks /\ ~inFence /\ paragraph.text = << >>
    BY <1>6 DEF Finish, WaitInv
  <2>2. content' = Then(Text(blocks), << >>)
    BY <1>1, <2>1 DEF FlowInv, Waiting
  <2> QED BY <1>1, <2>1, <2>2 DEF FlowStep
<1> QED BY <1>2, <1>4, <1>5, <1>6

\* Every step reads a line, ends the document or changes nothing.
LEMMA StepReads ==
  ASSUME Next
  PROVE  Finish \/ \E f, n : n \in Nat /\ Read(f, n)
<1>1. Sizes \subseteq Nat /\ 0 \in Nat /\ 1 \in Nat
  BY PipelineAssumption
<1>2. CASE MarkdownNext
  BY <1>1, <1>2 DEF MarkdownNext, ReadFence, ReadBlank, ReadDivider, ReadHeading, ReadCode, ReadBlock, ReadProse
<1>3. CASE HtmlNext
  <2>1. DataSizes \subseteq Nat
    BY <1>1 DEF DataSizes
  <2>2. CASE \E n \in DataSizes, clause \in BOOLEAN : HtmlData(clause, n)
    BY <2>1, <2>2 DEF HtmlData
  <2>3. CASE \/ \E kind, l : OpenBlockTag(kind, l)
             \/ CloseBlockTag \/ OpenSkipTag \/ CloseSkipTag
    BY <1>1, <2>3 DEF OpenBlockTag, CloseBlockTag, OpenSkipTag, CloseSkipTag
  <2> QED BY <1>3, <2>2, <2>3 DEF HtmlNext
<1>4. CASE TextNext
  BY <1>1, <1>4 DEF TextNext, ReadPart
<1> QED BY <1>2, <1>3, <1>4 DEF Next

LEMMA NewWordsAreNew ==
  ASSUME read \in Nat, NEW n \in Nat
  PROVE  /\ NewWords(n) \in Seq(Word) /\ Len(NewWords(n)) = n /\ Distinct(NewWords(n))
         /\ \A i \in 1..n : NewWords(n)[i].line = read + 1
<1>1. NewWords(n) \in Seq(Word)
  BY WordsAreWords
<1>2. Len(NewWords(n)) = n /\ \A i \in 1..n : NewWords(n)[i] = [line |-> read + 1, word |-> i]
  BY DEF NewWords
<1>3. Distinct(NewWords(n))
  BY <1>2 DEF Distinct
<1> QED BY <1>1, <1>2, <1>3

LEMMA ReadIsFresh ==
  ASSUME DocInv, FreshInv, NEW f, NEW n \in Nat, Read(f, n)
  PROVE  FreshInv'
<1> DEFINE x == NewWords(n)
           more == content \o x
<1>1. read \in Nat /\ content \in Seq(Word) /\ content' = more /\ read' = read + 1
  BY DEF DocInv, DocTypes, Read
<1>2. x \in Seq(Word) /\ Len(x) = n /\ Distinct(x) /\ \A i \in 1..n : x[i].line = read + 1
  BY <1>1, NewWordsAreNew
<1> HIDE DEF x
<1>3. ToSet(content) \cap ToSet(x) = {}
  <2>1. \A w \in ToSet(content) : w.line <= read
    <3>1. DOMAIN content = 1..Len(content)
      BY <1>1, LenProperties
    <3> QED BY <3>1 DEF ToSet, FreshInv
  <2>2. \A w \in ToSet(x) : w.line = read + 1
    <3>1. DOMAIN x = 1..n
      BY <1>2, LenProperties
    <3> QED BY <1>2, <3>1 DEF ToSet
  <2> QED BY <1>1, <2>1, <2>2
<1>4. Distinct(more)
  BY <1>1, <1>2, <1>3, DistinctConcat DEF FreshInv
<1>5. \A i \in 1..Len(more) : more[i].line <= read + 1
  <2> DEFINE m == Len(content)
  <2>1. /\ m \in Nat /\ Len(more) = m + n
        /\ \A i \in 1..m : more[i] = content[i]
        /\ \A i \in 1..n : more[m + i] = x[i]
    <3> DEFINE t == content
    <3>1. t \in Seq(Word) /\ x \in Seq(Word)
      BY <1>1, <1>2
    <3> HIDE DEF t
    <3>2. Len(t \o x) = Len(t) + Len(x) /\ Len(t) \in Nat
      BY <3>1, ConcatElements
    <3>3. \A i \in 1..Len(t) : (t \o x)[i] = t[i]
      BY <3>1, ConcatElements
    <3>4. \A i \in 1..Len(x) : (t \o x)[Len(t) + i] = x[i]
      BY <3>1, ConcatElements
    <3> QED BY <1>2, <3>2, <3>3, <3>4 DEF t
  <2>2. \A i \in 1..m : content[i].line <= read /\ content[i].line \in Nat
    <3>1. \A i \in 1..m : content[i] \in Word
      BY <1>1, ElementOfSeq
    <3> QED BY <3>1 DEF FreshInv, Word
  <2> HIDE DEF more, m
  <2>3. ASSUME NEW i \in 1..(m + n)
        PROVE  more[i].line <= read + 1
    <3>1. CASE i \in 1..m
      BY <1>1, <2>1, <2>2, <3>1
    <3>2. CASE i \notin 1..m
      <4>1. i - m \in 1..n /\ m + (i - m) = i
        BY <2>1, <2>3, <3>2
      <4>2. more[i] = x[i - m] /\ x[i - m].line = read + 1
        BY <1>2, <2>1, <4>1
      <4> QED BY <1>1, <4>2
    <3> QED BY <3>1, <3>2
  <2> QED BY <2>1, <2>3
<1> HIDE DEF more
<1>6. Distinct(content') /\ \A i \in 1..Len(content') : content'[i].line <= read'
  BY <1>1, <1>4, <1>5
<1> QED BY <1>6 DEF FreshInv, Distinct

LEMMA WaitMarkdown ==
  ASSUME DocInv, WaitInv, MarkdownNext
  PROVE  WaitInv'
<1>1. format = "markdown" /\ format' = "markdown" /\ inFence \in BOOLEAN
  BY DEF MarkdownNext, ReadFence, ReadBlank, ReadDivider, ReadHeading, ReadCode, ReadBlock, ReadProse,
         Read, DocInv, DocTypes
<1>2. CASE ReadFence
  BY <1>1, <1>2 DEF ReadFence, WaitInv, NoParagraph
<1>3. CASE \/ ReadBlank \/ \E level \in Levels : ReadHeading(level)
           \/ \E kind : \E n \in Sizes : ReadBlock(kind, n)
  <2>1. inFence' = inFence /\ ~inFence /\ fenced' = fenced /\ paragraph' = NoParagraph
    BY <1>3 DEF ReadBlank, ReadHeading, ReadBlock
  <2> QED BY <1>1, <2>1 DEF WaitInv, NoParagraph
<1>4. CASE ReadDivider
  BY <1>1, <1>4 DEF ReadDivider, WaitInv
<1>5. CASE \E n \in Sizes : ReadCode(n)
  BY <1>1, <1>5 DEF ReadCode, WaitInv
<1>6. CASE \E n \in Sizes, clause \in BOOLEAN : ReadProse(clause, n)
  BY <1>1, <1>6 DEF ReadProse, WaitInv
<1> QED BY <1>2, <1>3, <1>4, <1>5, <1>6 DEF MarkdownNext

LEMMA WaitHtml ==
  ASSUME DocInv, WaitInv, HtmlNext
  PROVE  WaitInv'
<1>1. format = "html" /\ format' = "html"
  BY DEF HtmlNext, OpenBlockTag, CloseBlockTag, OpenSkipTag, CloseSkipTag, HtmlData, Read
<1>2. inFence' = inFence /\ fenced' = fenced /\ ~inFence /\ fenced = << >>
  BY <1>1 DEF HtmlNext, OpenBlockTag, CloseBlockTag, OpenSkipTag, CloseSkipTag, HtmlData, WaitInv
<1>3. tag'.kind = "none" => paragraph'.text = << >>
  <2>1. CASE CloseBlockTag \/ \E kind, l : OpenBlockTag(kind, l)
    <3>1. paragraph' = NoParagraph
      BY <2>1 DEF CloseBlockTag, OpenBlockTag
    <3> QED BY <3>1 DEF NoParagraph
  <2>2. CASE OpenSkipTag \/ CloseSkipTag
    <3>1. /\ tag \in [kind : {"none", "HEADING"} \cup BlockTags, level : Nat, skip : Nat]
      BY DEF DocInv, DocTypes
    <3>2. paragraph' = paragraph /\ tag'.kind = tag.kind
      BY <2>2, <3>1 DEF OpenSkipTag, CloseSkipTag
    <3> QED BY <1>1, <3>2 DEF WaitInv
  <2>3. CASE \E n \in DataSizes, clause \in BOOLEAN : HtmlData(clause, n)
    BY <2>3 DEF HtmlData
  <2> QED BY <2>1, <2>2, <2>3 DEF HtmlNext
<1> QED BY <1>1, <1>2, <1>3 DEF WaitInv

LEMMA WaitStep ==
  ASSUME DocInv, WaitInv, [Next]_vars
  PROVE  WaitInv'
<1>1. CASE MarkdownNext
  BY <1>1, WaitMarkdown
<1>2. CASE HtmlNext
  BY <1>2, WaitHtml
<1>3. CASE TextNext
  BY <1>3 DEF TextNext, ReadPart, Read, WaitInv
<1>4. CASE Finish
  BY <1>4 DEF Finish, WaitInv, NoParagraph
<1>5. CASE UNCHANGED vars
  BY <1>5 DEF vars, WaitInv
<1> QED BY <1>1, <1>2, <1>3, <1>4, <1>5 DEF Next

LEMMA FlowIsKept ==
  ASSUME DocInv, WaitInv, FlowInv, [Next]_vars
  PROVE  FlowInv'
<1>0. Sizes \subseteq Nat /\ Levels \subseteq Nat
  BY PipelineAssumption
<1>1. FlowStep => FlowInv'
  BY DEF FlowStep, FlowInv, Waiting
<1>2. CASE MarkdownNext
  <2>1. RowKind \in Kinds /\ RowKind # "HEADING" /\ \A kind \in {"QUOTE", "LIST_ITEM"} : kind \in Kinds /\ kind # "HEADING"
    BY DEF RowKind, Kinds
  <2>2. ASSUME NEW n \in Sizes, ReadBlock(RowKind, n) PROVE FlowStep
    <3> DEFINE kind == RowKind
    <3>1. kind \in Kinds /\ kind # "HEADING" /\ n \in Nat /\ ReadBlock(kind, n)
      BY <1>0, <2>1, <2>2
    <3> HIDE DEF kind
    <3> QED BY <3>1, PlainFlows
  <2>3. ASSUME NEW n \in Sizes, NEW kind \in {"QUOTE", "LIST_ITEM"}, ReadBlock(kind, n) PROVE FlowStep
    <3>1. kind \in Kinds /\ kind # "HEADING" /\ n \in Nat
      BY <1>0, <2>1
    <3> QED BY <2>3, <3>1, PlainFlows
  <2>4. ASSUME NEW n \in Sizes, ReadCode(n) PROVE FlowStep
    BY <1>0, <2>4, CodeFlows
  <2>5. ASSUME NEW n \in Sizes, NEW clause \in BOOLEAN, ReadProse(clause, n) PROVE FlowStep
    BY <1>0, <2>5, ProseFlows
  <2>6. ASSUME NEW level \in Levels, ReadHeading(level) PROVE FlowStep
    BY <2>6, HeadingFlows
  <2>7. ReadFence \/ ReadBlank \/ ReadDivider => FlowStep
    BY FenceFlows, BlankFlows, DividerFlows
  <2> QED BY <1>1, <1>2, <2>2, <2>3, <2>4, <2>5, <2>6, <2>7 DEF MarkdownNext
<1>3. CASE HtmlNext
  <2>1. ASSUME NEW kind \in {"HEADING"} \cup BlockTags, NEW l \in Nat,
               OpenBlockTag(kind, l) \/ CloseBlockTag
        PROVE  FlowStep
    BY <2>1, OpenTagFlows
  <2>2. CloseBlockTag => FlowStep
    BY <2>1
  <2>3. ASSUME NEW l \in Levels, OpenBlockTag("HEADING", l) PROVE FlowStep
    BY <1>0, <2>1, <2>3
  <2>4. ASSUME NEW kind \in BlockTags, OpenBlockTag(kind, 0) PROVE FlowStep
    BY <2>1, <2>4
  <2>5. OpenSkipTag \/ CloseSkipTag => FlowStep
    BY SkipTagsFlow
  <2>6. ASSUME NEW n \in DataSizes, NEW clause \in BOOLEAN, HtmlData(clause, n) PROVE FlowStep
    <3>1. n \in Nat
      BY <1>0, <2>6 DEF DataSizes
    <3> QED BY <2>6, <3>1, DataFlows
  <2> QED BY <1>1, <1>3, <2>2, <2>3, <2>4, <2>5, <2>6 DEF HtmlNext
<1>4. CASE TextNext
  <2>1. ASSUME NEW kind \in {"SPEAKER_TURN", "CLAUSE", "PARAGRAPH"}, NEW n \in Sizes, ReadPart(kind, n)
        PROVE  FlowStep
    BY <1>0, <2>1, PartFlows
  <2> QED BY <1>1, <1>4, <2>1 DEF TextNext
<1>5. CASE Finish
  BY <1>1, <1>5, FinishFlows
<1>6. CASE UNCHANGED vars
  BY <1>6 DEF vars, FlowInv, Waiting
<1> QED BY <1>2, <1>3, <1>4, <1>5, <1>6 DEF Next

LEMMA FreshStep ==
  ASSUME DocInv, FreshInv, [Next]_vars
  PROVE  FreshInv'
<1>1. ASSUME NEW f, NEW n \in Nat, Read(f, n) PROVE FreshInv'
  BY <1>1, ReadIsFresh
<1>2. CASE Finish
  <2>1. content' = content /\ read' = read
    BY <1>2 DEF Finish
  <2> QED BY <2>1 DEF FreshInv, Distinct
<1>3. CASE UNCHANGED vars
  <2>1. content' = content /\ read' = read
    BY <1>3 DEF vars
  <2> QED BY <2>1 DEF FreshInv, Distinct
<1> QED BY <1>1, <1>2, <1>3, StepReads

LEMMA DoneStep ==
  ASSUME DoneInv, [Next]_vars
  PROVE  DoneInv'
<1>1. ASSUME NEW f, NEW n \in Nat, Read(f, n) PROVE DoneInv'
  BY <1>1 DEF Read, DoneInv
<1>2. CASE Finish
  <2>1. ~inFence' /\ paragraph' = NoParagraph /\ chunks' = Chunked(blocks')
    BY <1>2 DEF Finish
  <2>2. Waiting' = << >>
    BY <2>1 DEF Waiting, NoParagraph
  <2> QED BY <2>1, <2>2 DEF DoneInv
<1>3. CASE UNCHANGED vars
  BY <1>3 DEF vars, DoneInv, Waiting
<1> QED BY <1>1, <1>2, <1>3, StepReads

LEMMA ContentInit == Init => DocInv /\ ContentInv
<1> SUFFICES ASSUME Init
             PROVE  DocInv /\ ContentInv
  OBVIOUS
<1>1. /\ blocks = << >> /\ content = << >> /\ paragraph.text = << >> /\ ~inFence /\ fenced = << >>
      /\ ~done
  BY DEF Init, NoParagraph
<1>2. FlowInv
  <2>1. << >> \in Seq(Word)
    OBVIOUS
  <2> QED BY <1>1, <2>1, TextNone, ThenNothing DEF FlowInv, Waiting
<1>3. FreshInv
  <2>1. Len(content) = 0
    BY <1>1
  <2> QED BY <2>1 DEF FreshInv, Distinct
<1>4. WaitInv /\ DoneInv
  BY <1>1 DEF WaitInv, DoneInv
<1> QED BY <1>2, <1>3, <1>4, DocInit DEF ContentInv

LEMMA ContentStep == DocInv /\ ContentInv /\ [Next]_vars => (DocInv /\ ContentInv)'
<1> SUFFICES ASSUME DocInv, ContentInv, [Next]_vars
             PROVE  DocInv' /\ ContentInv'
  OBVIOUS
<1>1. DocInv'
  BY DocStep
<1>2. WaitInv' /\ FlowInv'
  BY WaitStep, FlowIsKept DEF ContentInv
<1>3. FreshInv' /\ DoneInv'
  BY FreshStep, DoneStep DEF ContentInv
<1> QED BY <1>1, <1>2, <1>3 DEF ContentInv

\* When the document is read, its blocks say exactly what was taken in.
LEMMA AllInBlocks ==
  ASSUME DocInv, ContentInv, done
  PROVE  Text(blocks) = content /\ Distinct(Text(blocks)) /\ chunks = Chunked(blocks)
<1>1. Text(blocks) \in Seq(Word)
  BY BlocksText DEF DocInv, DocTypes
<1>2. Waiting = << >> /\ chunks = Chunked(blocks) /\ Distinct(content)
  BY DEF ContentInv, DoneInv, FreshInv
<1>3. Text(blocks) = content
  BY <1>1, <1>2, ThenNothing DEF ContentInv, FlowInv
<1> QED BY <1>2, <1>3

LEMMA BlocksFit == AllFit(Seq(Word), BlockType)
<1>1. ASSUME NEW b \in BlockType PROVE Fits(Seq(Word), b)
  <2>1. b.text \in Seq(Word)
    BY DEF BlockType
  <2> QED BY <2>1, PiecesAre DEF Fits
<1> QED BY <1>1 DEF AllFit

LEMMA BareAreBare ==
  ASSUME blocks \in Seq(BlockType)
  PROVE  Bare = BareSections(blocks)
<1>1. MergedSections(blocks) \in Seq(Seq(BlockType))
  BY MergedSectionsAre
<1>2. ASSUME NEW s \in ToSet(MergedSections(blocks))
      PROVE  HeadingsOnly(s) <=> \A i \in DOMAIN s : IsHeading(s[i]) /\ Len(s[i].text) <= MaxChild
  <2> DEFINE m == MergedSections(blocks)
  <2>1. s \in Seq(BlockType)
    <3>1. PICK i \in DOMAIN m : m[i] = s
      BY <1>2 DEF ToSet
    <3>2. m \in Seq(Seq(BlockType))
      BY <1>1
    <3> HIDE DEF m
    <3>3. i \in 1..Len(m)
      BY <3>1, <3>2, LenProperties
    <3> QED BY <3>1, <3>2, <3>3, ElementOfSeq
  <2>2. DOMAIN s = 1..Len(s)
    BY <2>1, LenProperties
  <2> QED BY <2>2 DEF HeadingsOnly, Short
<1>3. Bare = {s \in ToSet(MergedSections(blocks)) :
                \A i \in DOMAIN s : IsHeading(s[i]) /\ Len(s[i].text) <= MaxChild}
  BY DEF Bare, MergedSections
<1> QED BY <1>2, <1>3 DEF BareSections

LEMMA InvariantImpliesNothingLost == DocInv /\ ContentInv => NothingIsLost
<1> SUFFICES ASSUME DocInv, ContentInv, done
             PROVE  NothingIsLost
  BY DEF NothingIsLost
<1>1. blocks \in Seq(BlockType)
  BY DEF DocInv, DocTypes
<1>2. Text(blocks) = content /\ Distinct(Text(blocks)) /\ chunks = Chunked(blocks)
  BY AllInBlocks
<1>3. CASE select_strategy(blocks) = "STRUCTURE_AWARE"
  <2>1. chunks = StructureAware(blocks)
    BY <1>2, <1>3 DEF Chunked
  <2>2. Text(chunks) = Without(content, VainWords(blocks))
    BY <1>1, <1>2, <2>1, BlocksFit, StructureKeepsWords
  <2>3. VainWords(blocks) = UNION {ToSet(Text(s)) : s \in Bare}
    BY <1>1, BareAreBare DEF VainWords
  <2> DEFINE K == {i \in DOMAIN content : \A s \in Bare : content[i] \notin ToSet(Text(s))}
  <2>4. {i \in DOMAIN content : content[i] \notin VainWords(blocks)} = K
    BY <2>3
  <2>5. Text(chunks) = Picked(content, K)
    BY <2>2, <2>4 DEF Without
  <2>6. FlattenSeq([i \in DOMAIN chunks |-> chunks[i].text]) = Picked(content, K)
    BY <2>5 DEF Text
  <2> QED BY <1>3, <2>6 DEF NothingIsLost
<1>4. CASE select_strategy(blocks) # "STRUCTURE_AWARE"
  <2>1. chunks = RecursiveCharacter(blocks)
    BY <1>2, <1>4 DEF Chunked
  <2>2. UNION {ToSet(chunks[i].text) : i \in DOMAIN chunks} = ToSet(content)
    BY <1>1, <1>2, <2>1, BlocksWorded, RecursiveKeepsWords
  <2> QED BY <1>4, <2>2 DEF NothingIsLost
<1> QED BY <1>3, <1>4

LEMMA InvariantImpliesAtomsWhole == DocInv /\ ContentInv => AtomsStayWhole
<1> SUFFICES ASSUME DocInv, ContentInv, done, select_strategy(blocks) = "STRUCTURE_AWARE",
                    NEW i \in DOMAIN blocks, ~IsSplittable(blocks[i]), NEW j \in DOMAIN chunks
             PROVE  LET here == ToSet(blocks[i].text) \cap ToSet(chunks[j].text)
                    IN  here = {} \/ here = ToSet(blocks[i].text)
  BY DEF AtomsStayWhole
<1>1. blocks \in Seq(BlockType)
  BY DEF DocInv, DocTypes
<1>2. Distinct(Text(blocks)) /\ chunks = StructureAware(blocks)
  BY AllInBlocks DEF Chunked
<1>3. i \in 1..Len(blocks) /\ j \in DOMAIN StructureAware(blocks)
  BY <1>1, <1>2, LenProperties
<1>4. ToSet(StructureAware(blocks)[j].text) \cap ToSet(blocks[i].text) \in {{}, ToSet(blocks[i].text)}
  BY <1>1, <1>2, <1>3, BlocksWorded, AtomsKept
<1> QED BY <1>2, <1>4

\* Every word a normalizer takes in reaches a chunk, for documents of any length
\* and any sizes of line, block and chunk; where the chunker follows the
\* document's structure the chunks hold it once, in the order of the document,
\* but for the sections that are nothing but short headings.
THEOREM NothingReadIsLost == Spec => []NothingIsLost
<1>1. Spec => [](DocInv /\ ContentInv)
  BY ContentInit, ContentStep, PTL DEF Spec
<1> QED BY <1>1, InvariantImpliesNothingLost, PTL

\* No code block, table row or clause is ever cut by the structure-aware
\* chunker, however large it is: of the words of one, a chunk has none or all.
THEOREM AtomsAreWhole == Spec => []AtomsStayWhole
<1>1. Spec => [](DocInv /\ ContentInv)
  BY ContentInit, ContentStep, PTL DEF Spec
<1> QED BY <1>1, InvariantImpliesAtomsWhole, PTL

=============================================================================
