# Formal model of prag-platform

prag-platform answers questions over a tenant's documents.  A request runs
through a graph of nodes: it is analysed, may be answered by fine-tuned adapter
weights (the parametric route), is checked against or answered from retrieved
evidence, and abstains when it has neither evidence nor budget.  This directory
holds TLA+ models of that program, the TLC runs that check them on small
instances, and TLAPS proofs of the properties that matter most.

Paths below are relative to `src/src/prag/`.  `PROJECT.json` maps every
definition to the lines it stands for.

- [Reading the modules](#reading-the-modules)
- [Inventory of the system](#inventory-of-the-system)
- [What is modelled](#what-is-modelled)
- [The runs](#the-runs)
- [What is proved](#what-is-proved)
- [Where the code and its documentation disagree](#where-the-code-and-its-documentation-disagree)
- [What is only model-checked, and what is not modelled](#what-is-only-model-checked-and-what-is-not-modelled)
- [Plan](#plan)

## Reading the modules

| Module | Content |
| --- | --- |
| `AdapterModel` | adapter versions, their rows, statuses and scope rules; shared vocabulary |
| `AdapterCatalog` | abstract specification: what the adapter registry promises |
| `AdapterRegistry` | the registry, its snapshot, the blob store and the LRU residency cache |
| `MCAdapterRegistry` | small instances of it |
| `AdapterRegistryProofs` | theorems for every instance of it |
| `GraphEngine` | the graph interpreter, the degradation ladder and the budget, for any graph |
| `MCGraphEngine` | a small graph with the features the shipped graphs lack |
| `GraphEngineProofs` | theorems for every graph |
| `AnswerGraph` | the two shipped graphs, as an instance of `GraphEngine` |
| `MCAnswerGraph` | the parametric graph with the shipped timeouts |
| `AnswerGraphProofs` | theorems about the shipped graphs |
| `RetrievalOrchestrator` | concurrent executions of retrieval plans over shared circuit breakers |
| `MCRetrievalOrchestrator` | it with a history variable for the half-open probe |
| `RetrievalOrchestratorProofs` | theorems for any plan, threshold and number of requests |
| `Chunker` | block and chunk vocabulary: classification, strategy, both chunkers, validation |
| `DocumentPipeline` | the three normalizers, line by line, and the chunks made of what they return |
| `Ingestion` | the BM25 index and the vector store under concurrent ingestion, and searches of both |
| `StoresProofs` | theorems about both stores, for any contents, sizes and number of ingestions, and about documents of any length and their chunks |
| `Memory` | session and long-term memory |
| `MCStores` | small instances of the two stores side by side |
| `EvidenceFlow` | what the nodes do with evidence: fuse, rerank, group, screen, shadow, pack, decide, cite |
| `SentenceStream` | the sentence buffer and its guard |
| `QueryRouting` | analysis, strategy routing, query transforms, retrieval plan |
| `AnswersProofs` | theorems about routing and evidence, for any questions, sources, chunks and limits |
| `AnswerRequest` | concurrent requests through the platform: guards, selection, events, monitor, memory |
| `RequestProofs` | theorems for any requests, adapters, texts, windows and capacity |
| `Selections` | the elements of a list at some positions, in their order; a set, sorted |
| `SelectionsProofs` | what such lists, and lists of lists put together, hold; induction in a first-order form |
| `MCAnswers` | small instances of these four sides of an answer |

A definition whose comment begins with *Mutant* is a faulty variant of the
definition that follows it: the code with one plausible bug.  Nothing uses it.
Putting it in place of the correct one must make TLC report the property that
`PROJECT.json` pairs it with; that is how each property is known to depend on
the code.

Lists are walked by recursive functions over their prefixes (`RunChain`, `Hears`,
`Kept`, the loops of `Chunker`) and not by `RECURSIVE` operators or the library's folds, because the prover
can reason about the former.  Where the code filters a list, the model takes the
elements at a set of positions (`Picked`).

## Inventory of the system

Each component with its state, its operations, whom it talks to, and what makes
it correct.  The ones in bold are modelled.

### The parametric tier

**Adapter registry** (`parametric/registry.py`, `parametric/store.py`,
`storage/repositories/in_memory.py`).  State: the repository's rows by
`(adapter_id, version)` with an index by source document, the registry's routing
snapshot, the blobs, and the store's ordered dictionary of resident weights.
Operations: register, set status, promote, revoke documents, load, read weights,
evict.  Callers: the parameterization pipeline, the selector (snapshot), the
serving provider (load and weights), the platform (demotions), erasure.
Hard: four copies of the same fact that must change together, calls of
concurrent requests in any order, a cache at its limit, a blob that is damaged,
failures half way through promotion and registration.  Correct when no adapter
has two active versions, a version taken out of service is neither routable nor
resident, weights that run are the registered ones, and no tenant loads another
tenant's adapter.

**Parameterization pipeline** (`parametric/pipeline.py`, `eligibility.py`,
`local.py`).  Stateless; a chain of gates that ends in a registration at
`shadow`, and later a promotion.  Hard: the promotion happens long after the
registration and rechecks nothing but faithfulness.

**Selection and serving** (`parametric/selection.py`, `serving.py`).  Select from
the snapshot by coverage, then load each selected adapter.  Hard: the snapshot
read and the load are separated by an await.  Correct when what is loaded and
reported is what was selected.

**Conflict monitor** (`fusion/conflicts.py`), **event bus**
(`observability/events.py`).  State: per adapter a sliding window of outcomes,
pending decisions, adapters already acted upon; a bounded buffer of events.
Operations: publish, observe, take.  Hard: requests interleave in one window;
decisions are applied after the requests that caused them; the buffer drops its
oldest events.  Correct when an adapter is acted upon exactly when a window was
critical, and no decision is lost.

**Shadowing and fusion** (`fusion/shadowing.py`, `policy.py`).  Pure: decide
whether evidence contradicts a draft or another source, and on what basis to
answer or whether to abstain.  Hard: the boundaries of a decision table, and
comparisons whose result depends on the order of the evidence.

### The request path

**Graph interpreter** (`orchestration/graph/engine.py`, `definition.py`).
State of one run: the node to run next, the request state, the steps recorded,
the iterations spent.  One operation: the traversal loop.  Hard: it combines
time-outs that cancel a node half way, declared fallbacks, edge overrides, a
budget checkpoint that may divert to the abstention node before any node, and
three kinds of exception.  Correct when it ends, when nothing runs on an empty
budget but the abstention, and when data and control follow the graph's
declarations.

**Budget and degradation ladder** (`core/budget.py`, `core/models/identity.py`).
Pure functions on a frozen budget: spend, and pick the rung.  Hard: thresholds
met exactly, two resources, and a level that must never fall.

**Request graphs and nodes** (`orchestration/nodes.py`,
`orchestration/parametric.py`, `core/models/state.py`).  Nodes are functions
from request state to result.  Correct when the evidence always wins over the
weights' draft, no answer is generated without evidence, and no order of
failures strands a request.

**Platform** (`api/composition.py`).  Guardrail chains around the graph, then the
finish step: publish events, apply the monitor's decisions, remember the turn.
Hard: every way a request can end must go through the finish step.

**Retrieval orchestrator and breakers** (`retrieval/orchestrator.py`).  State: per
source a failure count and an opening time, shared by all requests.  Operations:
run the legs of a plan concurrently under one deadline, record outcomes, apply
the plan's partial-results policy.  Hard: half-open probes of concurrent
requests, cancelled legs that record no outcome, late successes.

**Retrieval planning, sources and rank fusion** (`retrieval/`), **evidence grouping
and reranking** (`evidence/`), **context budgets and packing** (`context/`): pure
algorithms over candidates and tokens.  Correct when filters come before cuts,
nothing of another audience passes, and the tokens the code counts are accounted for.

**Generation, grounding and streaming** (`generation/`).  Claims are cited from the
context; the sentence buffer holds text back until a sentence is complete.  Hard:
evidence that was retrieved and never shown; text in the buffer when the stream
ends.

**Guardrails** (`guardrails/`).  Ordered chains of checks that pass, rewrite or
block; a screen that drops evidence groups and raises on a foreign tenant.  Hard:
a check that raises, a rewrite that later checks must see.

**Query intelligence** (`intelligence/`).  Rules settle what is known of a question,
a router picks a strategy from constraints and learned qualities, transforms
rewrite the question under a deadline.  Hard: rules that fire together; transforms
that do not finish.

### Around the request path

**Memory** (`memory/stores.py`).  State: items and summaries per principal, bounded,
with time to live.  Operations: read, write, summarise, forget.  Hard: eviction
against recency, erasure against summaries, expiry against the window, a read's
limit against both.

**Ingestion** (`ingestion/`, the vector store).  State: two indexes.  Operations:
normalise, chunk, validate, index.  Hard: the indexes are written one after the
other, in batches, under a deadline, over what an earlier content left; headings nest;
limits of several kinds decide where a text is cut.

Cache keys (`caching/keys.py`), repositories for knowledge, lineage and
evaluation, evaluation (`evaluation/`), observability, configuration, the HTTP
layer: pure functions, dictionaries, recording and I/O.

## What is modelled

### Adapter registry: `AdapterModel`, `AdapterCatalog`, `AdapterRegistry`

| Variable | Code |
| --- | --- |
| `rows` | `InMemoryAdapterRepository._records` |
| `snapshot` | `AdapterRegistry._snapshot` |
| `blobs` | `InMemoryBlobStore` |
| `bytes`, `age` | `LruAdapterStore._resident`: its values and its order |
| `reply` | what the latest `load` returned or raised |
| `served` | the versions live requests have run, which is what the conflict monitor can decide upon |

One action is one call of a method.  The methods are coroutines, but no await in
them reaches a suspension point: repository, blob store and cache are
dictionaries of the same process.  Requests therefore interleave between calls
and never within one.  A weight blob and its SHA-256 are the same model value, so
the checksum comparison is exact.  Timestamps, probe results, domain coverage and
load counters are left out: no decision of this component reads them.

The LRU order is a function from versions to places (1 is the most recent, 0 is
not resident), so that `move_to_end`, `pop` and `popitem` are operators on places
and the bound of the cache is a statement about numbers.

`Demote` is the platform's `_apply_adapter_decisions`: any version that served
may be demoted at any later time, because the monitor's decision is taken from
the events of earlier requests and nothing rechecks the status when it is
applied.  `Promote` may happen to any registered version at any time, because
`promote_from_shadow` checks only the numbers it is handed.

`AdapterCatalog` is the promise: rows that never disappear or change but for
their status, one active version per adapter, and loads that are refused or
return the registered weights of a servable version to a tenant in scope.  The
refinement mapping is the identity on `rows` and `reply`; snapshot, blobs and
cache are hidden, which is the point: a stale cache or an overwritten blob must
not show through.

### Graph interpreter: `GraphEngine`

The graph and its nodes are constants: edges with named conditions, fallbacks,
declared reads and writes, time-outs, and `NodeResults(n, f)`, the results node
`n` may return when the request state is `f`.  A step is one iteration of the
loop in `_traverse`: the budget checkpoint, then a diversion, a configuration
error, or one node from start to end.

| Action | Code |
| --- | --- |
| `Divert` | the last rung, with and without an abstention node |
| `UnreadyInputs`, `UndeclaredWrite`, `UnknownNode` | `_check_reads`, `_check_writes`, an override that names no node |
| `Finish`, `Advance` | a node that succeeded, terminal or not |
| `FallBack`, `Fail` | a node that failed or was late, with and without a declared fallback |
| `Raise` | exceptions that pass through: abstention, isolation violation, anything else |
| `ExceedCap` | the loop ended without a terminal node |

Time is discrete: a node's run takes `elapsed` ticks, any number up to the whole
budget, since a node that does not suspend cannot be cut off.  A late node is one
of `Suspends`, and it is cancelled no earlier than the smaller of its time-out
and the remaining budget.  Success stands for the statuses `OK`, `FELL_BACK` and
`SKIPPED`, which the engine treats alike.

### Request graphs: `AnswerGraph`

The two graphs, chosen by `ParametricTier`, with every result each node's code
can produce.  A field of the request state is abstracted to whether it was
produced and by whom: `evidence` is empty or not, `result` is a draft, a grounded
answer or an abstention.  What the classifiers, the retriever, the shadower, the
fusion policy and the model compute is a nondeterministic choice among the
outcomes the code distinguishes.

### Retrieval orchestrator: `RetrievalOrchestrator`

| Variable | Code |
| --- | --- |
| `failures`, `opened` | `CircuitBreaker._failures`, `_opened_at` |
| `leg` | the tasks `execute` created for the legs of a request, and their results |
| `request` | the call of `execute` a slot is serving |

A leg's task suspends only inside `source.retrieve`.  What it does before the call
(look the source up, ask the breaker, half-open it) is one step, what it does after
(record an outcome, return) is another, and everything else may run in between:
legs of the same request, of other requests, the deadline.  `execute` resumes once,
when every leg has ended (`Gather`) or at the deadline (`Expire`), and from there to
its end it does not suspend: cancelling late legs, turning outcomes into results,
and the policy's verdict are one step.  The event loop runs new tasks before a timer
that was set after them, so no leg is still unstarted at the deadline.

The plan is the planner's: a leg per source, plus one per sub-query for each source
that searches vectors; only main legs can be required.  A result is `usable` (`OK`,
or `PARTIAL`: a source that ran out of its own time and returned what it had) or
`unusable` (`TIMED_OUT`, `FAILED`, `SKIPPED_BREAKER_OPEN`), because that is all the
policy and the breaker look at.  The monotonic clock is abstracted to whether an
open breaker's cool-down has elapsed (`"hot"`, `"cooled"`).

Two consequences of the code are visible in the model and deliberate in its
comments: a call that began before the breaker opened closes it by succeeding, and a
source that only ever hangs or raises `DeadlineExceeded` never opens its breaker.

### Documents: `Chunker`, `DocumentPipeline`

`DocumentPipeline` reads a document of an arbitrary kind of lines (Markdown), tags
(HTML) or parts (plain text) one at a time; the variables are the locals of the
normalizer's loop.  `Finish` is the rest of `ingest_markdown` before the indexes:
classification, choice of a chunker, chunking, validation.  A text is a sequence
of tokens that each name the line they come from, so that "what happened to this
line" can be asked of a chunk; the token estimate of a text is its length.
`Chunker` holds the pure part.  Regular expressions, separators inside a line and
the rounding of estimates are left out.

### Stores: `Ingestion`, `Memory`

| Variable | Code |
| --- | --- |
| `lexical`, `frequency`, `total` | `InMemoryLexicalIndex`: documents, document frequencies, total length |
| `points` | the points of the collection |
| `pending` | what each running `ingest_markdown` has still to write to the vector store |
| `items`, `summaries`, `now` | `PrincipalMemoryStore` of one principal and namespace, and its clock |

`Ingest` is everything up to the first await: the BM25 index is complete.  Each
`Upsert` is one turn of the loop of `index_chunks`, `Abort` a deadline that passed
or an embedder that raised.  Searches change nothing and are operators: both
knowledge sources, with the merging of filters and the deadline, over a score that
is the number of terms in common.  A chunk's id is made of the document and the
position, not of the tenant, as in the code.

A turn is remembered by one action (`_remember_turn`: question, answer, summary),
a fact by another.  `Recall` is a read with a question and the limit `Limit`: of the
last `Window` items of a session, or of the facts that share a word with the question,
the first by words in common, then by decayed salience, then by age.  `Recalled` is
what it returns of a conversation, which is all of the conversation that enters the
context: the summary goes with the request's `SessionContext`, of which the nodes read
only the turn's number.  Time advances by half-lives, so that decayed values compare as
integers.

### Evidence: `EvidenceFlow`

One action per node of the grounded path (`Retrieve*`, `ShadowServes`,
`ShadowYields`, `Build`, `Generate`, `Send`) and the operator's `Quarantine` and
`Reinstate`.  The legs' results, the draft of the weights and the text the model
writes are inputs; everything between is computed as the code does: rank fusion,
reranking, grouping, the screen, region budgets, packing by density, confidence,
conflicts, the decision table, claims, entailment, citations.  Tokens are those the
packer and the builder count (a group's cost, the question, the memory's items): the
preamble and the attribution the renderer writes around each block
(`context/renderer.py:34-70`) are in no count of the code, and in none here.  Scores are integers
out of 10 000.  A text is a set of sentences, a sentence its content words and the
quantity it states: what overlap, stance and entailment look at.

### Streaming: `SentenceStream`

The consumer pulls: `Feed` is one chunk of the provider, `Guarded` one release,
`Flush` the tail.  `Abandon` may come between any two.  White space is two kinds of
characters, because a sentence ends at either and an overfull buffer is cut only at a
literal space.

### Routing: `QueryRouting`

The rules tier, the analyzer's defaults, the router (with `Record`, an evaluation
that reports a quality while requests run), the four transforms, each of which may
be skipped or fail or find the deadline passed, and the planner.

### Requests: `AnswerRequest`

| Variable | Code |
| --- | --- |
| `run` | the call of `Platform.answer` of each request and its `RequestState` |
| `bus`, `monitor`, `retrain_queue` | `InMemoryEventBus`, `ConflictMonitor`, `Platform.retrain_queue` |
| `status` | the adapters' status in the registry |
| `turns` | session memory |
| `published`, `demoted` | history: all events, all decisions applied |

`Receive` is the input chain; `Select` reads the snapshot and `Draft` loads what was
selected, with anything in between; `Answer` and `EndOtherwise` are the rest of the
graph and the output chain with every ending, a shadow node among them that failed or was
late before it served or contradicted the draft; `Finish` publishes and takes the
monitor's decisions (no await between the two); each registry write and each memory
write is a step of its own, because each is awaited.

## The runs

Sizes and times are from a two-core machine.

| Run | Checks | Distinct states |
| --- | --- | --- |
| `registry_versions` | `TypeOK`, `SnapshotAgrees`, `OneActiveVersion`, `ResidencyCoherent`, `ErasureIsImmediate`, `ColdLoadServes`, and the refinement `ImplementsCatalog` | 108 000, 3 minutes |
| `engine_cycles` | `TypeOK`, `FieldsAreDeclared`, `FailuresFollowTheGraph`, `OnlyAbstentionRunsBroke`, `Terminates` | 1 400 |
| `graph_parametric` | `NeverMisconfigured`, `EvidenceWins`, `DraftsAreShadowed`, `BrokeRequestsAbstain` | 1 850 |
| `retrieval_breaker` | `BreakerCoherent`, `OutageIsContained`, `NeededLegsAnswered`, `RequestsEnd`, `BreakersReclose` | 6 400 |
| `documents` | `HeadingPathIsAncestry`, `NothingIsLost`, `AtomsStayWhole` | 832 000 |
| `stores` | `CountersExact`, `IndexesAgree`, `SearchFillsTopK` for the indexes; `TurnsAreRecalled`, `ValuableFactsStay` for memory | 50 600, up to symmetry, 2 minutes |
| `answers` | `CitationsHold`, `NothingForeignIsShown`, `ContextIsAccounted`, `AnswersAreLicensed`, `DisagreementsAreTold` for evidence; `StreamIsExact` for the stream; `RoutingHonoursTheQuestion`, `QuestionIsAlwaysAsked` for routing; `MonitorActsExactlyWhenCritical`, `EventsHeardOnce`, `MemoryHoldsWhatPassed` for requests | 1 240 000, 4 minutes |
| `revoked_terminal`, `half_open_probe`, `matched_text_rendered`, `erased_is_gone`, `honest_denominator` | one property each, expected to be violated | |

**`registry_versions`** has one adapter with two versions, two weight blobs, two
documents, two tenants and `HotAdapters = 0`, the smallest capacity the
configuration schema admits, which the store makes one slot.  Two versions are
what promotion, roll-back and eviction need; one slot makes every second load an
eviction; two blobs let a blob differ from its row; two documents let an erasure
hit one version and not the other; the second tenant is the one that must be
refused.  A third version or adapter adds no new relation between keys: no
operation looks at more than the versions of one adapter.  Weights and documents
are symmetric: no definition names one of them.  An adapter of global scope is
covered by the proofs only.

**`engine_cycles`** runs the interpreter on a three-node graph with a cycle made
by an override and one made by a failure, an override that names no node, a node
that writes an undeclared field, conditions that may all be false, an input that
may be missing, and no abstention path: the branches of the engine that the
shipped graphs never take.  Money is zero in this run, so the branch of the ladder
that ignores cost is taken as well.  Five iterations allow the cycle to be taken
twice.

**`graph_parametric`** runs the parametric graph in the interactive tier's budget
of three seconds, in ticks of half a second, with the shipped time-outs rounded
up to ticks.  `analyze` and `abstain` fit a tick, `parametric` may use up the
whole budget and `generate` can outlast it: each node can be the one that exhausts
the request.  A generation costs nothing or two of three cost units, so that two
generations exhaust the money and one does not.  The standard graph is the
parametric one without its two extra nodes: its paths are among those this run
takes through `route_parametric` being false.

**`retrieval_breaker`** has two concurrent requests of two legs each for one live
source, and a main leg for a source that is not registered: up to four calls of the
live source at once, against a threshold of two, so a breaker can open, half-open
and open again with calls of every age in flight.  One live source is enough,
because breakers of different sources share nothing; a slot serves request after
request, so there is no bound on the length of a run, and `OutageIsContained` is
what keeps its state space finite.

**`documents`** takes every document of at most five lines of two sizes and two
heading levels: enough for a heading that climbs back, a fence left open, a table
between paragraphs, and a section that is too small, fits, or is too large for one
child and for one parent.  HTML has its headings, of one word per piece of data, and the
six other kinds of block.  `AtomsStayWhole` is about the structure-aware chunker: a
document that goes to the recursive one may have its tables and code cut, and the
property says nothing of it.  The limits are scaled to it (children of 4 and at most 5
tokens, sections of 4, parents of 9, recursive pieces of 3 with an overlap of 1).

**`stores`**: two ingestors, one document, two tenants, contents of no, one and two
chunks in batches of one, so that an ingestion has an await between two batches and
a shorter content follows a longer one; texts of two words and all their mixtures, two
sessions, a window of two, reads of one item, a summary of two, four writes and two
half-lives, so that items expire, are
evicted, summarised and restated.  Indexes and memory share no state in the code,
so a behaviour exercises one of them.  Ingestors, tenants, words and sessions are symmetric:
no definition names one, and ties are broken by chunk ids, which hold none of them.

**`answers`**: four sides that share no variables, each explored on its own (`Sides`
names the ones a run explores: `honest_denominator` needs only the requests), because what one hands to the next (an analysis, a bundle, a draft, an
answer) is an input enumerated by the next.
- Evidence: seven chunks, chosen to hold near-duplicates of another tenant and of
  another quantity, two chunks of one lineage, an instruction, a canary and stale
  content; eight pairs of legs; windows of 6 and 14 tokens, one that cannot hold
  everything and one that can; degradation levels 0 and 2, with and without
  reranking; three questions, one without content words.
- Stream: six pieces with full stops, spaces and other white space at their ends,
  inside, and not at all, up to six characters in a buffer of four.
- Routing: every subset of the eight rules on a plain question, and every
  combination of text features on a few; budgets that are plenty and short; five
  offers of a tenant; one recorded quality.
- Requests: three requests in two conversations over two adapters, one question
  that selects both, a draft contradicted in up to two claims, guards that refuse and one that raises,
  a shadow node that fails in one of the requests, a bus of three events and a monitor window of three
  with at least two samples, so that the bus
  overflows, windows slide, and a decision is made with requests in flight.

Deadlock checking is off in the engine's runs and in those of documents, stores
and answers because a traversal, a document, a bounded number of writes and a
request have an end; `Terminates` and the safety properties of final states say
what must have been reached by then.  It is on in the registry's and the
orchestrator's runs.

**Fairness.**  `FairSpec` is weak fairness of the next-state relation: an engine
that can take a step takes one.  The code justifies it: every iteration awaits
one node under `asyncio.wait_for`, and a node either returns, raises or is
cancelled at its deadline.  The registry has no liveness property: nothing there
is obliged to happen.  In the orchestrator's `FairSpec` leg tasks get scheduled, the
deadline passes (it is a timer of the event loop) and a cool-down elapses (it is a
clock); a source need never answer, and requests need not arrive, which is why
`BreakersReclose` has their arrival as its premise.  The other modules state no
liveness: an ingestion may be aborted, a stream abandoned, a request raise, and
nothing in the code retries them.

## What is proved

The theorems hold for every value of the constants; the assumptions they use are
the named `ASSUME`s of the modules, which TLC evaluates on every run.

**`AdapterRegistryProofs`.**  None of the safety properties is inductive alone:
that a load returns registered weights needs the cache to be coherent; that the
cache stays coherent through a promotion needs every version that loses its
status to be found and evicted, and it is found in the snapshot; that promotion
leaves one active version needs the snapshot to agree with the rows.  The
inductive invariant is therefore the conjunction
`IInv == TypeOK /\ SnapshotAgrees /\ ResidencyCoherent /\ OneActiveVersion`,
proved with one step per action.  The lemmas about `Places`, `Evict`, `Touched`,
`WithStatus` say what the operators return and are cited by name.  From `IInv`
follow:

- `TypeCorrectness`, `SnapshotNeverStale`, `OnlyRegisteredWeightsResident`,
  `AtMostOneActive`: the four invariants;
- `RowsNeverRewritten`, `ErasureLeavesNothing`, `ColdLoadsServe`: the action
  properties;
- `RegistryImplementsCatalog`: the refinement.  Registration maps to enrolling,
  demotion, revocation and a failed promotion to retiring, promotion to
  activation, loads to loads, and damage to the blob store to a stutter.

**`GraphEngineProofs`.**  For every graph.  What nodes return is a constant
operator about which nothing is assumed globally; a theorem that needs something
of nodes says so in its own assumption.

- `BrokeOnlyAbstains`: with either resource exhausted, only the abstention node
  records work.  The argument is about the boundary: an exhausted budget has
  crossed the sixth threshold exactly, so the highest crossed rung is the
  abstention rung, whatever the others are.  Needs only `level \in 0..6`.
- `EngineTypes`: types, if nodes return results of the declared shape.
- `DeclarationsTellTheTruth`: `FieldsAreDeclared`, if a failing node hands back
  the fields it was given.  The assumption is necessary: the engine does not check
  the writes of a node that failed (see below).
- `FailuresAreRouted`: `FailuresFollowTheGraph`, from the strengthening that
  after a failure the traversal stands at the fallback or the abstention node, or
  has ended.

**`AnswerGraphProofs`.**  `EvidenceAlwaysWins`: `EvidenceWins` for both shipped
graphs, every budget, time-out and cost.  The invariant `DraftInv` says that
after the first conflict the traversal is at a node from which no path leads back
to the shadow node; the lemmas say what each node can return and where the edges
lead.

`InputsAlwaysReady`: `NeverMisconfigured`.  The invariant `ReadyInv` is about the node
that runs next: everything it reads has been written, and the iterations so far are
fewer than its `Position`, a numbering of the nodes that only grows along edges,
fallbacks and diversions.  The numbering is what rules out the step cap, and the inputs
are ready on every path because each edge into a node leaves a node that wrote them
(`ReadyStep`), or one that failed and whose fallback reads less.

`NoDraftUnshadowed`: `DraftsAreShadowed`.  The invariant `ShadowInv` carries the order of
the path along with the fields: at the shadow node, a retrieval followed the draft; and
the draft is the result exactly if its serving was the one event.  `RecordKeepsHistory`
says that a recorded step takes nothing away from the path.

**`AnswersProofs`.**  Routing and evidence.  `RoutesAreLicensed`: `RoutingHonoursTheQuestion` for every question,
tenant, burden, weighting and learned quality, and for exploration.  `RouteInv` adds to the
property that the qualities learned are numbers and that the analysis follows from the
rules that fired (`Understood`).  The route must survive the elimination
(`RouteIsHonest`), some route has the greatest utility whatever the weights (`OneIsBest`),
and a question at most one rule understood has at least six eighths of uncertainty
(`OneRuleSettlesLittle`).  The theorem has one hypothesis: the hedge sets in above five
eighths or less.  The shipped 0.35 is two eighths; a configuration that sets it near one
asks for no hedge, and gets none.

`EverySourceIsAsked`: `QuestionIsAlwaysAsked` for any sources, caps and questions,
whichever transforms failed or came too late.  `PlanInv` says which transform a variant of
the question comes from.  That no leg is planned twice is the equality of two
cardinalities, by a bijection from the planned positions to the legs.

`ForeignTextIsScreened`: `NothingForeignIsShown` for any chunks, legs, quarantine and
thresholds, wherever the reranker's time runs out.  The invariant `ScreenInv` adds types
and that the groups were made by the screen.  Under it, a leg lists chunks and fusion
makes a list of each of them once (`FuseFacts`); reranking a part of them and cutting
keeps candidates (`RerankedFacts`); grouping makes groups of members that were
candidates, each with its own marker (`GroupFacts`), which is why a marker that was held
back names no group that is shown.

`NothingIsLeftOutInSilence`: `ContextIsAccounted` for any groups, windows, memory, budgets
and questions.  The packing is a recursive function, so what every turn keeps is the
invariant of a lemma (`PackFacts`, over `Packing`): remaining, selected and dropped groups
partition those there were, what is counted is what the selected cost, within the region,
and one group fewer remains after each turn.  The last is why the turns suffice.  It needs
that some group is best (`OneIsBestGroup`), hence that densities are numbers, hence that no
context is free (`NothingIsFree`).  That the order from both ends loses no group and
repeats none is a bijection of positions (`EdgeWeightedFacts`).

`CitationsAreKept`, `EvidenceLicensesAnswers` and `ConflictsReachTheReader`:
`CitationsHold`, `AnswersAreLicensed` and `DisagreementsAreTold`, for any generated text,
draft, evidence and thresholds.  They share `AnswerInv`, which carries what is known of a
request from the node that establishes it to the end of the request: the decision is the
policy's decision on exactly the groups that are shown (`DecisionStands`), the answer
names the decision's conflicts and is cited from those groups (`EnvelopeStands`), and a
draft is served before there is a bundle.  It is needed because the properties speak of a
sent answer and its causes lie three nodes earlier.  On top of it:

- citations: of the groups a claim names, or of all, the first that holds most of the claim
  exists and is shown (`OneHoldsMost`, `SupportFacts`); a claim repeated from the one
  group it names has no other candidate and holds enough of itself (`CitedFacts`); the
  guardrail removes either every marker of what is shown (a draft) or none, so it does not
  change what a claim names (`CitationsAreEvidence`);
- licence: below the floor nothing corroborates, so the confidence stays below moderate
  (`ConfidenceIsGrounded`), and the best group of each lineage alone has the same greatest
  score and the same corroborating lineages (`CopiesAddNothing`);
- disagreement: sentences about the same with different quantities dispute each other in
  both reading orders (`OppositesDispute`); of the disputes between two lineages exactly one
  is first (`OneDisputeIsFirst`, `FirstIsOne`), so there is exactly one conflict
  (`OpposedAreTold`); and the loser's weight is missing from the agreement (`LosingCosts`).

`StreamsAreExact`: `StreamIsExact` for any pieces of text, any size of the buffer and any
answers of the guard.  The invariant adds types, that nothing is buffered once the
stream is flushed and that nothing is pending once it is done.  A feed is exact
(`FeedFacts`) because the ends of the sentences in a text, sorted, cut it into adjacent
parts (`BoundsOfSentences`, `SplitFacts`), an end inside a part would be an end of the
text (`EndsOfPart`), and behind the last space there is neither (`CutFacts`,
`NothingToCut`).  The guard moves a piece from one list to the other, which leaves the two
together as they were (`GuardedMoves`).

What the theorems on evidence assume of the constants: legs list chunks that exist, texts
and questions are finite, a chunk's context holds a sentence (the chunkers emit no empty
text, `ingestion/chunking/recursive.py:63`) and authority is a percentage
(`ChunkAssumption`, `AskedAssumption`); a draft's confidence is a share and its claims are
claims (`DraftAssumption`); items of memory have a salience and a cost
(`MemoryAssumption`); sizes are numbers, thresholds percentages, and the reranker is given at
most 3500 candidates (`LimitAssumption`), because the model's integer scores out of 10 000 no
longer tell the places of a longer list apart; the code's floating-point scores do, and the
configured tiers are given 20 to 40 (`config/schema.py:320`).

**`RequestProofs`.**  Three properties of requests that interleave, for any number of
requests, sessions, adapters, texts, faults of the guards, windows and capacities, each
on top of the invariants before it.

- `MemoryIsOfWhatPassed`: `MemoryHoldsWhatPassed`.  `MemoryInv` is the types, `RunInv` and
  `TurnInv`.  The property looks at turns and needs to know of runs: the question a run
  carries is clean once it left the input chain unblocked (`InputPasses`), its answer once
  the output chain let it through (`OutputPasses`); a turn is written only by the last
  stages, in which neither changes; and a run in a stage before the answer is written has
  no answer in memory, so that none comes twice.
- `EventsAreHeardOnce`: `EventsHeardOnce`.  `EventInv` says that what a run accumulated is
  its own (`EventsFrom`) and already says how the run ended (`SaidOK`), and that what was
  published of a run is that or nothing.  A run's events are the selection of its positions
  in the whole history, so the step that publishes them rests on selecting from two lists
  put together (`PickedConcat`); the bus is the end of the history (`EndOf`) by
  arithmetic on positions.
- `MonitorActsWhenCritical`: `MonitorActsExactlyWhenCritical`.  The monitor's windows are
  those of the history (`Knows`): dropping old outcomes one event at a time leaves what
  dropping them at the end would (`LatestOfMore`), and an adapter was acted on exactly if some
  prefix of its history ended in a critical window (`HadHotGrows`).  A decision is in one of
  three places, the monitor, the run that took it, the registry or the queue (`Demoted`,
  `Queued`); `Finish` is one step, so the first is empty between steps.

**`SelectionsProofs`.**  The facts these proofs share.  `Induction` is stated over a set
of numbers (`0 \in P`, closed under successor), which the provers can instantiate; from it,
`StepsExist` gives the function that a recursive definition describes, and the lemmas about
`Picked` say what a selection keeps: only chosen elements, all of them, in their order,
piece by piece over a concatenation.  `RanksCount` says that the rank of an element in a
strict total order of a finite set numbers the set, `FirstOfRow` what the first of it are,
`InOrderFacts` that sorting a set loses nothing and repeats nothing,
and `InOrderAscends` that an element comes before those the order puts behind it.
`FlattenAppend`, `FlattenConcat` and `FlattenMapped` say what a list of lists put together
is, `LastExtended` what extending its last part adds, and `FlattenApart` that its parts
share nothing if it repeats nothing.

**`RetrievalOrchestratorProofs`.**  The inductive invariant is
`IInv == TypeOK /\ BreakerCoherent /\ OutageIsContained`.  That the count of failures
and the calls in flight together stay below threshold plus capacity is inductive
only because the breaker is coherent: a call is admitted on the flag, which must mean
that the count is below the threshold.  A failure moves one unit from calls to count
(`LegStep`, by the cardinality of a set less one element); a success or a half-open
puts the count below the threshold, where the number of calls does not matter
(`ClosedIsContained`).  `PoolsAreSufficient` follows from types alone: only the step
that ends a request returns a pool, and it turns calls that are still out into
unusable results first.

**`StoresProofs`.**  `IndexesConverge`: `IndexesAgree` for any number of
ingestions, documents, tenants, contents and batch sizes.  It is not inductive
alone, because it speaks of an ingestion that is over and the next batch depends on
one that is not.  The invariant says of a document that was not disturbed (no
ingestion of it failed or overlapped another): at most one ingestion writes it
(`OneWriter`); the chunks its writer still has to send are
chunks BM25 already holds (`WriterIsCurrent`), and every other chunk is the same in
both indexes (`RestAgrees`); besides, what is pending is of one document and holds no
chunk id twice (`PendingOK`) and the vector store holds no chunk that BM25 lacks (`NeverAhead`).
The lemmas say what overwriting a store by a batch, and splitting the pending chunks
into a batch and a rest, do to the set of chunk ids.

`StatisticsAreExact`: `CountersExact` for any interleaving of ingestions, failures among
them.  The counters are cardinalities of what the index holds, so the step is about sets:
what a batch replaces is held, and nothing else it brings was (`IngestReplaces`,
`Recounted`).  It needs of the index that a chunk is stored under its own id
(`IndexOK`), and of the batch that it names no id twice.

`SearchesFillTopK`: `SearchFillsTopK` for any contents, tenants, groups, query, filters
and cap.  A filtered set of payloads is a row (`ScoreOrders`), the first of it are as many
as asked for and none left out is before them (`FirstOfRow`), the caller's own filter wins
over the leg's (`MergedIsOwn`), and BM25's refusal of chunks without a term of the query
takes away only the end of the row (`LexicalFills`).

`TurnsReachTheNext`: `TurnsAreRecalled` for any conversations, questions, window, limit,
expiry and room of the prose.  It needs types (`MemoryTypes`) and that every
turn is worth as much as any other (`TurnsInv`).  Of a
turn beyond the window: what a turn leaves of a conversation is a selection of a list, and
either its window is all of it or what comes before the window is what the summary
compresses; the two agree because the platform passes one number for both, the assumption
`SummarizeAfter = Window`.  Of a turn within it: a read puts any set of items in a row
(`ReadsInOrder`), so what it leaves out comes after `Limit` others, and as turns are worth
the same the order among those that bear on the question alike is their age
(`WindowIsRead`).

`TheLeastValuedGoes`: `ValuableFactsStay` for any facts, saliences, reads, erasures and
capacity.  `FactsInv` says of a long-term store that no fact is written or read in the
future, none is held twice and the limit holds; every action keeps it, because a selection
(`PickedKeepsFacts`), an eviction (`EvictedKeepsFacts`) and a refresh
(`RefreshedKeepsFacts`) keep what holds of any two items.  An item of least worth exists
(`SomethingIsLeast`), so eviction removes one; and if the one it removes was read at this
very moment, its worth is its salience times the greatest power of two that occurs
(`DoubledFacts`), so that no smaller salience stays (`ProductsGrow`).

`PathsAreAncestries`: `HeadingPathIsAncestry` for documents of any length, with headings
of any levels in any order, in Markdown or HTML.  The property defines the ancestors of a
block over the whole document, the code keeps a stack; the invariant (`PathInv`) is that
the stack is the list of the headings that would enclose one more block (`StackOf`).
Their levels ascend (`OpenAscend`), so that those above a new heading are a first part of
the stack and cutting it is selecting them (`TrimmedStack`); a block read later encloses
none of the earlier ones (`EnclosingEarlier`).  `PipelineAssumption` says that
the three formats are all there are, and that sizes and levels are numbers.

`NothingReadIsLost` and `AtomsAreWhole`: `NothingIsLost` and `AtomsStayWhole` for documents
of any length and any sizes of line, block, section and chunk.  The argument has two halves.

The first is about the normalizers (`ContentInv`).  What was taken in is, in order, the
texts of the blocks and then the words that wait for the end of a fence or a paragraph
(`FlowInv`); only one of the two ever waits, outside a block tag nothing does, and in
plain text nothing does at all (`WaitInv`), which is why flushing the paragraph before a
fence, a heading or the end of the input keeps the order; and no word is taken in twice
(`FreshInv`), because a word carries its line and every line is read once.  So when the
document is read its blocks say exactly its content, each word once (`AllInBlocks`).

The second is about the chunkers, for any list of blocks.  Each loop keeps "what is done,
followed by what is buffered, is what was read": `LinesAre`, `SectionsAre`, `MergeSmallIs`,
`PackIs`, `PiecesAre`, `PackChildrenIs`.  For a section the last says more: its children are
its whole text, or there are none, and then it is nothing but short headings.  So the
chunks say the text of the document without such sections (`StructureAwareIs`), and since
no word occurs twice, what is left out is exactly the words of those sections
(`StructureKeepsWords`).  The recursive chunker overlaps its pieces, so there the claim is
of sets of words (`RecursiveKeepsWords`).

Those lemmas are stated for texts of any set that is closed under concatenation (`Closed`),
and atomic blocks follow from choosing that set: the texts that hold none or all of the
words of one given block (`WholeOrNone`).  A block that is not split, and every piece of
another block, is in the set (`AtomFits`), hence so is every chunk (`AtomsKept`).

## Where the code and its documentation disagree

1. `core/models/parametric.py:66` says that `REVOKED` is terminal.  No code
   enforces it: a promotion whose shadow evaluation ended after an erasure makes
   the revoked version active again, and a demotion decided before the erasure
   turns it into a deprecated one (`revoked_terminal`).
2. `retrieval/orchestrator.py:69` says that a half-open breaker lets one request
   through.  Half-opening forgets the opening time, so every caller passes until a
   failure is recorded (`half_open_probe`), and if the probe hangs none ever is.
3. `tests/unit/test_ingestion.py:258` says that a chunk's text is in its parent's.
   The parent is cut at `max_parent_tokens` and the children are made of the whole
   section: a child from beyond the cut is matched, and the model is given a parent
   without it (`matched_text_rendered`).
4. `api/composition.py:386` says that `forget` erases matching memory from every
   tier.  A summary is erased only with a selector that names its session; items
   erased by id, age, or provenance stay in it (`erased_is_gone`).
5. `fusion/conflicts.py:72` says that every attempt is either served or
   contradicted, so that the conflict rate has an honest denominator.  An attempt
   publishes one conflict per contradicted claim and each counts as an attempt
   (`honest_denominator`).

Observed while modelling, and not the subject of a run:

- `parametric/registry.py:3` says that rows, blobs, residency and snapshot change
  together or not at all.  A registration refused because the version exists has
  already replaced that version's blob, and its next cold load fails the checksum.
  That wrong weights never run is `ResidencyCoherent`, which holds.
- `orchestration/graph/engine.py:17` says that write declarations are enforced.
  They are checked when a node succeeds; the state of one that fails is taken over
  unchecked.  No shipped node writes a field when it fails.
- `api/composition.py:277` says that every ending goes through the finish step.  An
  exception that is no `PragError` does not: nothing of that request is published
  (`EventsHeardOnce` says so for `"crash"`).
- Nothing in `src/` drains the event bus: it keeps the latest events and the
  monitor listens at publication.
- An adapter the monitor decided against and an operator activated again is never
  decided against a second time (`_acted` is not cleared).
- In sequential-probe composition an adapter whose text was not used is still named
  in the attempt's events.
- `memory/stores.py:97` says that the window is how many recent turns enter the context
  and that older ones are summarised.  A read returns at most five of the window's eight
  items (`orchestration/nodes.py:294`, `config/schema.py:461`), by what they share with
  the question, and those it passes over are not in the summary's prose, which holds what
  lies beyond the window.  `TurnsAreRecalled` says what a conversation can rely on.
- `core/models/document.py:138` says that a content change makes a new version and that
  the old version's chunks are tombstoned.  Ingestion gives every content the version
  `v1` and overwrites chunks by id: those beyond the new content's number stay in both
  indexes and are found.  `Ingest` does the same.
- The rolling summary is in nobody's context: `_session_context` (`api/composition.py:308-324`)
  hands it to the request, and no node reads it.
- The preamble and the attributions the renderer adds (`context/renderer.py:34-70`) are in
  no token count: evidence packed to the last token of its region is rendered longer than
  the region.
- Near-duplicates that differ in one quantity are grouped, and the group shows the
  representative's; disagreement between sources is looked for between groups, with
  the group that is read first as the one that claims.
- A draft that is served carries its conflicts and no notes.
- A source of authority zero (`core/models` allows it) that loses a conflict lowers the
  agreement by nothing: `independent_agreement` (`fusion/policy.py:100`) weighs by
  authority.  `DisagreementsAreTold` excepts it.
- The heading of a section may be packed in another child than what it heads; the
  heading path is on both.
- `transform.py` describes coreference as for follow-ups; it applies on a first turn
  as well.  Dense legs prefer `rewritten` over `coreference_resolved` when both ran.
- `CandidatePool.failed_required_leg_ids` (`core/models/retrieval.py:296`) names every
  unusable leg, required or not, and has no caller; `CircuitBreakerPolicy`
  (`config/schema.py:68`), with a count of half-open probes, is read by nothing.

## What is only model-checked, and what is not modelled

Liveness (`Terminates`, `BrokeRequestsAbstain`, `RequestsEnd`, `BreakersReclose`) is
out of the prover's reach.  Every other property of a run that is expected to pass is
stated by a theorem.

Not modelled, with the reason:

- the values of BM25, cosine, logprobs and calibration (floating-point arithmetic;
  the models use integers with the same comparisons, or take them as inputs), and
  regular expressions (they appear as what they find);
- fitting and applying isotonic calibrators (offline, and no platform wires one);
- clustering, augmentation, training and probing in the parameterization pipeline
  (arithmetic and text before the registration, which is modelled);
- choosing among several models (the platform registers one), the tool gate and the
  cache keys (no caller in `src/`);
- the HTTP layer, the providers and the OTLP exporter (I/O); configuration and
  dependency injection (start-up wiring); tracing, metrics, evaluation and the
  repositories for lineage, knowledge and evaluation (they record, and nothing reads
  them back into a decision).

## Plan

The parts listed above stay outside, for the reasons given there.  Two hazards have
no property: a draft judged after its adapter was revoked, for which the source states no
rule, and chunks of a former content that stay in the indexes (observed above).  Two are
covered in part.  A failed node's undeclared writes are taken over unchecked:
`FieldsAreDeclared` assumes that a failing node hands back the fields it was given, as the
shipped nodes do.  An ingestion that fails between the two indexes leaves the vector index
behind BM25 until the document is ingested again: `IndexesAgree` says that it is never
ahead, and that the two agree only once no ingestion of the document failed or overlapped.
