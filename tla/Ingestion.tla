----------------------------- MODULE Ingestion ------------------------------
(***************************************************************************)
(* Where ingest_markdown puts the chunks of a document: the BM25 index,    *)
(* then, a batch at a time, the vector store (api/composition.py,          *)
(* ingestion/indexing.py, retrieval/sources/lexical.py,                    *)
(* storage/vectorstore/in_memory.py).                                      *)
(*                                                                         *)
(* Documents are ingested concurrently: an ingestion gives way to others   *)
(* where it awaits the embedding provider, and its deadline can end it     *)
(* before every batch.  Nothing here deletes: the platform never calls     *)
(* delete on either index.  The hashing provider always returns vectors of *)
(* the collection's dimension, so that a point is its payload.             *)
(***************************************************************************)
EXTENDS Integers, SequencesExt, Selections

CONSTANTS Ingestors,      \* concurrent calls of ingest_markdown
          Documents, Tenants,
          Terms,
          Contents,       \* a content: the chunks' terms, in order
          Acls,           \* acl hashes, "public" among them
          BatchSize,      \* chunks embedded and written together
          MaxTopK         \* a source's max_top_k

ASSUME IngestionAssumption ==
  /\ BatchSize \in Nat \ {0} /\ MaxTopK \in Nat \ {0} /\ "public" \in Acls
  /\ Documents \subseteq Nat /\ Contents \subseteq Seq(Seq(Terms))

VARIABLES
  lexical,    \* chunk id -> payload: InMemoryLexicalIndex._documents
  frequency,  \* term -> chunks that hold it: _document_frequency
  total,      \* _total_length
  points,     \* chunk id -> payload: the points of the collection
  pending,    \* ingestor -> the chunks it has still to write
  disturbed   \* documents of which an ingestion failed or met another one

ingestVars == <<lexical, frequency, total, points, pending, disturbed>>

IngestInit ==
  /\ lexical = << >> /\ points = << >>
  /\ frequency = [t \in Terms |-> 0] /\ total = 0
  /\ pending = [i \in Ingestors |-> << >>]
  /\ disturbed = {}

----------------------------------------------------------------------------

\* A chunk's id is derived from the document's id, its version, which
\* ingest_markdown leaves at "v1", and its position: not from the tenant.
ChunkId(document, order) == <<document, order>>

build_payload(tenant, acl, document, order, terms) ==
  [chunk_id |-> ChunkId(document, order), document_id |-> document,
   tenant_id |-> tenant, acl_hash |-> acl, text |-> terms]

Payloads(tenant, acl, document, content) ==
  [order \in DOMAIN content |-> build_payload(tenant, acl, document, order, content[order])]

\* A batch of payloads written over an index, by id.
Overwritten(index, payloads) ==
  [id \in DOMAIN index \cup {p.chunk_id : p \in ToSet(payloads)} |->
    LET new == {p \in ToSet(payloads) : p.chunk_id = id}
    IN  IF new = {} THEN index[id] ELSE CHOOSE p \in new : TRUE]

\* The chunks a term is posted for, and every place of a term in them.
Postings(term, payloads) == Cardinality({p \in payloads : term \in ToSet(p.text)})
Length(payloads) == Cardinality(UNION {{p} \X DOMAIN p.text : p \in payloads})

\* Mutant: a replaced chunk keeps its old postings.
RemovedNothing(payloads) == {}

\* The old postings of the chunks a batch replaces: _remove.
Removed(payloads) ==
  {lexical[id] : id \in DOMAIN lexical \cap {p.chunk_id : p \in ToSet(payloads)}}

IndexDocuments(payloads) ==
  LET added == ToSet(payloads)
      gone == Removed(payloads)
  IN  /\ lexical' = Overwritten(lexical, payloads)
      /\ frequency' = [t \in Terms |-> frequency[t] - Postings(t, gone) + Postings(t, added)]
      /\ total' = total - Length(gone) + Length(added)

\* ingest_markdown up to its first await: the chunks are in the BM25 index.
Ingest(i, tenant, acl, document, content) ==
  LET payloads == Payloads(tenant, acl, document, content)
      others == {j \in Ingestors : pending[j] # << >> /\ pending[j][1].document_id = document}
  IN  /\ pending[i] = << >>
      /\ IndexDocuments(payloads)
      /\ pending' = [pending EXCEPT ![i] = payloads]
      /\ disturbed' = disturbed \cup (IF others = {} THEN {} ELSE {document})
      /\ UNCHANGED points

\* Mutant: the loop stops after its first batch.
UpsertOnce(i) ==
  /\ pending[i] # << >>
  /\ points' = Overwritten(points, SubSeq(pending[i], 1, Min({BatchSize, Len(pending[i])})))
  /\ pending' = [pending EXCEPT ![i] = << >>]
  /\ UNCHANGED <<lexical, frequency, total, disturbed>>

\* index_chunks, one turn of its loop: embed, then upsert.
Upsert(i) ==
  /\ pending[i] # << >>
  /\ LET n == Min({BatchSize, Len(pending[i])})
     IN  /\ points' = Overwritten(points, SubSeq(pending[i], 1, n))
         /\ pending' = [pending EXCEPT ![i] = SubSeq(@, n + 1, Len(@))]
  /\ UNCHANGED <<lexical, frequency, total, disturbed>>

\* deadline.raise_if_expired, or the embedder: the rest is never written.
Abort(i) ==
  /\ pending[i] # << >>
  /\ disturbed' = disturbed \cup {pending[i][1].document_id}
  /\ pending' = [pending EXCEPT ![i] = << >>]
  /\ UNCHANGED <<lexical, frequency, total, points>>

IngestNext ==
  \/ \E i \in Ingestors, tenant \in Tenants, acl \in Acls, d \in Documents, content \in Contents :
       Ingest(i, tenant, acl, d, content)
  \/ \E i \in Ingestors : Upsert(i) \/ Abort(i)

----------------------------------------------------------------------------
(* Search: filter, score, rank, cut.  BM25 and the cosine are abstracted to *)
(* the number of the query's terms a chunk holds.                           *)

\* A filter gives some fields of a payload the values it admits.
acl_filter(principal) ==
  [tenant_id |-> {principal.tenant}, acl_hash |-> principal.acls \cup {"public"}]

matches(payload, filters) == \A field \in DOMAIN filters : payload[field] \in filters[field]

Score(payload, query) == Cardinality(query \cap ToSet(payload.text))

\* Ties are broken by id.
Better(p, q, query) ==
  LET earlier(id, other) == id[1] < other[1] \/ (id[1] = other[1] /\ id[2] < other[2])
  IN  \/ Score(p, query) > Score(q, query)
      \/ Score(p, query) = Score(q, query) /\ earlier(p.chunk_id, q.chunk_id)

\* A payload comes after those that are better.
Rank(p, payloads, query) == 1 + Cardinality({q \in payloads : Better(q, p, query)})

Ranked(payloads, query) ==
  [n \in 1..Cardinality(payloads) |-> CHOOSE p \in payloads : Rank(p, payloads, query) = n]

Cut(ranked, n) == SubSeq(ranked, 1, Min({n, Len(ranked)}))

\* Mutant: the filter comes after the cut.
SearchThenFilter(index, query, n, filters) ==
  SelectSeq(Cut(Ranked({index[id] : id \in DOMAIN index}, query), n), LAMBDA p : matches(p, filters))

Search(index, query, n, filters) ==
  Cut(Ranked({p \in {index[id] : id \in DOMAIN index} : matches(p, filters)}, query), n)

----------------------------------------------------------------------------
(* The two knowledge sources: one leg of a plan, run for a principal.       *)

\* payload_to_fields: payloads of this writer have every field.
Fields(payload) ==
  [field \in {"chunk_id", "document_id", "text", "tenant_id", "acl_hash"} |-> payload[field]]

\* f where it is defined, and g elsewhere.
Over(f, g) == [x \in DOMAIN f \cup DOMAIN g |-> IF x \in DOMAIN f THEN f[x] ELSE g[x]]

Candidate(source, payload, rank) == Over([source_id |-> source, rank |-> rank], Fields(payload))

Unavailable == [status |-> "FAILED", candidates |-> << >>]   \* SourceUnavailable is raised
OutOfTime == [status |-> "PARTIAL", candidates |-> << >>]

Found(source, hits) ==
  [status |-> "OK", candidates |-> [rank \in DOMAIN hits |-> Candidate(source, hits[rank], rank)]]

\* The principal's filter is merged over the leg's, never under it.
Merged(leg, principal) == Over(acl_filter(principal), leg.filters)

\* A chunk without a term of the query is no hit of BM25.
LexicalRetrieve(leg, principal, expired) ==
  LET hits == Search(lexical, leg.query, Min({leg.top_k, MaxTopK}), Merged(leg, principal))
  IN  IF leg.query = {} THEN Unavailable
      ELSE IF expired THEN OutOfTime
      ELSE Found("lexical", Picked(hits, {n \in DOMAIN hits : Score(hits[n], leg.query) > 0}))

\* The deadline may pass before or in the embedding, before or in the search;
\* any other failure of the two is the source's.
VectorRetrieve(leg, principal, trouble) ==
  IF leg.query = {} \/ trouble = "failure" THEN Unavailable
  ELSE IF trouble = "deadline" THEN OutOfTime
  ELSE Found("vector", Search(points, leg.query, Min({leg.top_k, MaxTopK}), Merged(leg, principal)))

----------------------------------------------------------------------------
(* Properties                                                              *)

\* The statistics BM25 scores with are those of the chunks it holds: a chunk
\* indexed again takes its old postings and its old length with it.  A term
\* frequency that only grows makes a document ingested often ever harder to
\* find, and no request fails.
CountersExact ==
  LET held == {lexical[id] : id \in DOMAIN lexical}
  IN  /\ \A t \in Terms : frequency[t] = Postings(t, held)
      /\ total = Length(held)

OfDocument(index, document) == {index[id] : id \in {k \in DOMAIN index : k[1] = document}}

Writing(document) ==
  \E i \in Ingestors : pending[i] # << >> /\ pending[i][1].document_id = document

\* "Both indexes are written from the same chunks" (composition.py:515): once
\* no ingestion of a document is under way, both hold the same chunks of it,
\* provided no ingestion of it failed or overlapped another.  The vector
\* store is never ahead: what it knows the BM25 index knows.
IndexesAgree ==
  /\ DOMAIN points \subseteq DOMAIN lexical
  /\ \A d \in Documents \ disturbed :
       ~Writing(d) => OfDocument(points, d) = OfDocument(lexical, d)

\* What the caller may not see costs it nothing: a leg returns the best of the
\* caller's own chunks, and fewer than it asked for only when there are no
\* more, however many better ones of other tenants and groups share the index,
\* and whatever tenant the leg itself asks for; every candidate names the
\* owner and the group the screen will check again.
SearchFillsTopK ==
  \A tenant \in Tenants, acls \in {{}, Acls}, query \in (SUBSET Terms) \ {{}}, top_k \in 1..(MaxTopK + 1),
     filters \in {<< >>} \cup [document_id : {{d} : d \in Documents}] \cup [tenant_id : {{t} : t \in Tenants}] :
    LET leg == [query |-> query, top_k |-> top_k, filters |-> filters]
        principal == [tenant |-> tenant, acls |-> acls]
        wanted(p) == "document_id" \in DOMAIN filters => p.document_id \in filters.document_id
        own(index) == {p \in {index[id] : id \in DOMAIN index} :
                         p.tenant_id = tenant /\ p.acl_hash \in acls \cup {"public"} /\ wanted(p)}
        fills(result, best) ==
          LET hits == {Fields(c) : c \in ToSet(result.candidates)}
          IN  /\ hits \subseteq best
              /\ Cardinality(hits) = Min({top_k, MaxTopK, Cardinality(best)})
              /\ \A hit \in hits, other \in best \ hits :
                   Cardinality(query \cap ToSet(hit.text)) >= Cardinality(query \cap ToSet(other.text))
    IN  /\ fills(LexicalRetrieve(leg, principal, FALSE),
                {p \in own(lexical) : query \cap ToSet(p.text) # {}})
        /\ fills(VectorRetrieve(leg, principal, "none"), own(points))

=============================================================================
