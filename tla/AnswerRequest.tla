--------------------------- MODULE AnswerRequest -----------------------------
(***************************************************************************)
(* Platform.answer: requests run concurrently through the input chain, the *)
(* graph and the output chain; each ending publishes its events on the     *)
(* bus, where the conflict monitor listens; the monitor's decisions are    *)
(* applied to the adapters, and the turn is remembered.                    *)
(*                                                                         *)
(* The graph is what it hands back here: the events it accumulated and how *)
(* it ended.  A text is the set of the things the guards look for in it.   *)
(***************************************************************************)
EXTENDS Integers, SequencesExt, Selections

CONSTANTS
  Requests,
  Session,        \* request -> its conversation
  Adapters,       \* numbers, in the order of their `id@version` keys
  QueryTexts, AnswerTexts,   \* request -> the texts it may come with, and be answered with
  Coverage,       \* request -> adapter -> how well it covers the question, in percents
  MinCoverage, MaxCandidates, MaxConcurrent, CompositionMode,   \* of the selector
  Screenings,     \* request -> whether the screen drops a group
  Shadowings,     \* request -> whether a draft nothing contradicts is served
  Endings,        \* request -> how its graph may end, besides an answer
  Faults,         \* request -> guards that may raise, "none" among them
  RedactPii,      \* the tenant's policy
  Sampled,        \* requests whose answer is sampled for evaluation
  MaxClaims,      \* bound: request -> contradicted claims of its draft
  Capacity,       \* of the bus
  Window, MinSamples, Staleness, Critical   \* of the monitor, rates in percents

\* How a request ends that is not answered, and what the guards look for in the
\* texts.
OtherEndings == {"abstention", "error", "isolation violation", "crash"}
QueryMarks == {"injection", "pii", "control"}
AnswerMarks == {"foreign marker", "canary", "secret"}

ASSUME RequestAssumption ==
  /\ IsFiniteSet(Adapters) /\ Adapters = 1..Cardinality(Adapters)
  /\ \A r \in Requests : /\ QueryTexts[r] \subseteq SUBSET QueryMarks
                         /\ AnswerTexts[r] \subseteq SUBSET AnswerMarks
                         /\ Endings[r] \subseteq OtherEndings /\ Shadowings[r] \subseteq BOOLEAN
  /\ \A r \in Requests : MaxClaims[r] \in Nat /\ Sampled \subseteq Requests
  /\ {Window, MinSamples, Capacity} \subseteq Nat \ {0}
  /\ {MinCoverage, MaxCandidates, MaxConcurrent} \subseteq Nat
  /\ CompositionMode \in {"SINGLE_BEST", "SEQUENTIAL_PROBE", "WEIGHTED_MERGE"}
  /\ {Staleness, Critical} \subseteq 0..100

VARIABLES
  run,          \* request -> where it is, and the state it carries
  status,       \* of the adapters
  bus,          \* InMemoryEventBus._buffer
  monitor,      \* ConflictMonitor
  retrain_queue,
  turns,        \* session memory, oldest first
  published,    \* history: every event the bus was given
  demoted       \* history: adapters a decision was applied to

requestVars == <<run, status, bus, monitor, retrain_queue, turns, published, demoted>>

NewRun ==
  [stage |-> "new", query |-> {}, selected |-> {}, draft |-> {}, answer |-> {}, outcome |-> "none",
   events |-> << >>, retrain |-> {}, demote |-> {}]

RequestInit ==
  /\ run = [r \in Requests |-> NewRun]
  /\ status = [a \in Adapters |-> "active"]
  /\ bus = << >> /\ retrain_queue = << >> /\ turns = << >> /\ published = << >> /\ demoted = {}
  /\ monitor = [outcomes |-> [a \in Adapters |-> << >>], retrain |-> {}, demote |-> {}, acted |-> {}]

----------------------------------------------------------------------------
(* The chains. *)

Verdict(action, severity, text) == [action |-> action, severity |-> severity, text |-> text]

\* What each guard says of a text; what it raises is a block.
Check(name, text, broken) ==
  IF name = broken THEN Verdict("block", "error", text)
  ELSE
  CASE name = "payload_limits" /\ "control" \in text -> Verdict("block", "info", text)
    [] name = "injection" /\ "injection" \in text -> Verdict("block", "warning", text)
    [] name = "pii" /\ "pii" \in text /\ RedactPii -> Verdict("modify", "info", text \ {"pii"})
    [] name = "citation_validation" /\ "foreign marker" \in text ->
         Verdict("modify", "warning", text \ {"foreign marker"})
    [] name = "leakage" /\ "canary" \in text -> Verdict("block", "critical", text)
    [] name = "leakage" /\ text \cap {"canary", "secret"} = {"secret"} -> Verdict("block", "error", text)
    [] OTHER -> Verdict("allow", "info", text)

InputChain == <<"injection", "pii", "payload_limits">>
OutputChain == <<"citation_validation", "leakage">>

\* The chain stops at the first block, and hands each guard what the one
\* before it modified.
RunGuard(verdicts, name, text, broken) ==
  IF \E i \in DOMAIN verdicts : verdicts[i].action = "block" THEN verdicts
  ELSE Append(verdicts, Check(name, IF verdicts = << >> THEN text ELSE Last(verdicts).text, broken))

RunChain(chain, text, broken) ==
  LET verdicts[n \in 0..Len(chain)] ==
        IF n = 0 THEN << >> ELSE RunGuard(verdicts[n - 1], chain[n], text, broken)
  IN  verdicts[Len(chain)]

Blocked(verdicts) == Last(verdicts).action = "block"

Event(r, kind, adapters) == [request |-> r, kind |-> kind, adapters |-> adapters]

\* with_verdict: what blocked or warned is an event, a critical one an alert.
VerdictEvents(r, verdicts) ==
  LET noted == Picked(verdicts, {i \in DOMAIN verdicts : \/ verdicts[i].action = "block"
                                                        \/ verdicts[i].severity \in {"warning", "critical"}})
  IN  [i \in DOMAIN noted |->
        Event(r, IF noted[i].severity = "critical" THEN "alert" ELSE "security", {})]

----------------------------------------------------------------------------
(* A request. *)

Receive(r, text, broken) ==
  LET verdicts == RunChain(InputChain, text, broken)
  IN  /\ run[r].stage = "new"
      /\ run' = [run EXCEPT ![r].query = Last(verdicts).text,
                            ![r].events = VerdictEvents(r, verdicts),
                            ![r].stage = IF Blocked(verdicts) THEN "over" ELSE "running",
                            ![r].outcome = IF Blocked(verdicts) THEN "blocked" ELSE "none"]
      /\ UNCHANGED <<status, bus, monitor, retrain_queue, turns, published, demoted>>

\* CentroidAdapterSelector.select: of the adapters that are servable, the
\* candidates that cover the question best, without those below the floor,
\* up to the cap.  Tenant scope and versions are AdapterRegistry's.
Selection(r) ==
  LET before(a, b) == Coverage[r][a] > Coverage[r][b] \/ (Coverage[r][a] = Coverage[r][b] /\ a < b)
      first(S, n) == {a \in S : Cardinality({b \in S : before(b, a)}) < n}
      scored == first({a \in Adapters : status[a] = "active"}, MaxCandidates)
      cap == IF CompositionMode = "SINGLE_BEST" THEN Min({1, MaxConcurrent}) ELSE MaxConcurrent
  IN  first({a \in scored : Coverage[r][a] >= MinCoverage}, cap)

Select(r) ==
  /\ run[r].stage = "running" /\ run[r].selected = {} /\ Selection(r) # {}
  /\ run' = [run EXCEPT ![r].selected = Selection(r)]
  /\ UNCHANGED <<status, bus, monitor, retrain_queue, turns, published, demoted>>

\* Every adapter selected is loaded before any answers, and the first that is
\* no longer servable fails the node.
Loaded(adapters) == \A a \in adapters : status[a] = "active"

\* The draft is all of theirs, whoever's words it has.  An answer nobody is
\* confident of is no draft.
Draft(r) ==
  /\ run[r].stage = "running" /\ run[r].selected # {} /\ run[r].draft = {}
  /\ Loaded(run[r].selected)
  /\ run' = [run EXCEPT ![r].draft = run[r].selected]
  /\ UNCHANGED <<status, bus, monitor, retrain_queue, turns, published, demoted>>

\* The graph ends, and the output chain with it.  The retrieve node may have
\* dropped a group (screened); a draft is contradicted in `claims` claims, one
\* event for each, and then the answer is a grounded one, or it is served
\* (stands); a shadow node that failed or ran out of time before either leaves
\* a grounded answer and no event.
\* An abstention is an envelope or an exception, to the same effect; an
\* exception that is no PragError (a crash) ends the request without a word.
GraphEvents(r, ending, screened, claims, stands) ==
  (IF screened THEN <<Event(r, "security", {})>> ELSE << >>)
    \o [i \in 1..claims |-> Event(r, "conflict", run[r].draft)]
    \o CASE ending = "isolation violation" -> <<Event(r, "alert", {})>>
         [] ending = "answer" /\ run[r].draft # {} /\ claims = 0 /\ stands ->
              <<Event(r, "served", run[r].draft)>>
         [] OTHER -> << >>

Answer(r, text, screened, claims, stands, broken) ==
  LET verdicts == RunChain(OutputChain, text, broken)
      blocked == Blocked(verdicts)
  IN  /\ run[r].stage = "running"
      /\ claims > 0 => run[r].draft # {}
      /\ run' = [run EXCEPT ![r].stage = "over",
           ![r].outcome = IF blocked THEN "blocked" ELSE "answer",
           ![r].answer = IF blocked THEN {} ELSE Last(verdicts).text,
           ![r].events = @ \o GraphEvents(r, "answer", screened, claims, stands)
                           \o VerdictEvents(r, verdicts)
                           \o IF ~blocked /\ r \in Sampled THEN <<Event(r, "sampled", {})>> ELSE << >>]
      /\ UNCHANGED <<status, bus, monitor, retrain_queue, turns, published, demoted>>

EndOtherwise(r, ending, screened, claims) ==
  /\ run[r].stage = "running"
  /\ claims > 0 => run[r].draft # {}
  /\ run' = [run EXCEPT ![r].outcome = ending,
       ![r].events = @ \o GraphEvents(r, ending, screened, claims, FALSE),
       ![r].stage = IF ending = "crash" THEN "lost" ELSE "over"]
  /\ UNCHANGED <<status, bus, monitor, retrain_queue, turns, published, demoted>>

----------------------------------------------------------------------------
(* The end of a request. *)

Latest(seq, n) == SubSeq(seq, Max({1, Len(seq) - n + 1}), Len(seq))

Conflicts(outcomes) == Cardinality({i \in DOMAIN outcomes : outcomes[i]})

Assessed(m, a) == Len(m.outcomes[a]) >= MinSamples /\ a \notin m.acted

Above(outcomes, percent) == 100 * Conflicts(outcomes) > percent * Len(outcomes)

\* Mutant: the window is a sample smaller.
SmallerWindow(m, a, conflicted) == Latest(Append(m.outcomes[a], conflicted), Max({1, Window - 1}))

Outcomes(m, a, conflicted) == Latest(Append(m.outcomes[a], conflicted), Window)

\* ConflictMonitor.observe.
Observe(m, event) ==
  LET heard == IF event.kind \in {"served", "conflict"} THEN event.adapters ELSE {}
      seen == [m EXCEPT !.outcomes = [a \in Adapters |->
                 IF a \in heard THEN Outcomes(m, a, event.kind = "conflict") ELSE m.outcomes[a]]]
      critical == {a \in heard : Assessed(seen, a) /\ Above(seen.outcomes[a], Critical)}
      stale == {a \in heard : Assessed(seen, a) /\ Above(seen.outcomes[a], Staleness)}
  IN  [seen EXCEPT !.demote = @ \cup critical, !.acted = @ \cup critical,
                 !.retrain = @ \cup critical \cup stale]

\* The monitor after each of the events, heard one by one.
Hears(m, events) ==
  LET after[n \in 0..Len(events)] == IF n = 0 THEN m ELSE Observe(after[n - 1], events[n])
  IN  after

Heard(m, events) == Hears(m, events)[Len(events)]

\* Mutant: what a request that raised had accumulated is not published.
EventsOfAnswers(state) == IF state.outcome = "answer" THEN state.events ELSE << >>

EventsOf(state) == state.events

\* _finish, and the monitor's pending decisions with it: nothing is awaited
\* between the two.
Finish(r) ==
  LET events == EventsOf(run[r])
      heard == Heard(monitor, events)
  IN  /\ run[r].stage = "over"
      /\ bus' = Latest(bus \o events, Capacity)
      /\ published' = published \o events
      /\ monitor' = [heard EXCEPT !.retrain = {}, !.demote = {}]
      /\ run' = [run EXCEPT ![r].stage = "deciding", ![r].retrain = heard.retrain, ![r].demote = heard.demote]
      /\ UNCHANGED <<status, retrain_queue, turns, demoted>>

\* One registry write for each demotion, in the order of the keys.
Demote(r) ==
  LET a == Min(run[r].demote)
  IN  /\ run[r].stage = "deciding" /\ run[r].demote # {}
      /\ status' = [status EXCEPT ![a] = "deprecated"] /\ demoted' = demoted \cup {a}
      /\ run' = [run EXCEPT ![r].demote = @ \ {a}]
      /\ UNCHANGED <<bus, monitor, retrain_queue, turns, published>>

\* Mutant: a refused turn is remembered too.
RememberedRefused == {"answer", "abstention", "blocked"}

Remembered == {"answer", "abstention"}

\* The adapters to retrain are queued, and the question is remembered.
QueueRetraining(r) ==
  /\ run[r].stage = "deciding" /\ run[r].demote = {}
  /\ retrain_queue' =
       retrain_queue \o Picked([a \in Adapters |-> a], run[r].retrain \ ToSet(retrain_queue))
  /\ run' = [run EXCEPT ![r].retrain = {},
               ![r].stage = IF run[r].outcome \in Remembered THEN "remembering" ELSE "done"]
  /\ turns' = IF run[r].outcome \notin Remembered THEN turns
              ELSE Append(turns, [session |-> Session[r], request |-> r,
                                  said |-> "question", text |-> run[r].query])
  /\ UNCHANGED <<status, bus, monitor, published, demoted>>

\* The answer of a turn that has one, as model-generated.
RememberAnswer(r) ==
  /\ run[r].stage = "remembering"
  /\ run' = [run EXCEPT ![r].stage = "done"]
  /\ turns' = IF run[r].outcome # "answer" THEN turns
              ELSE Append(turns, [session |-> Session[r], request |-> r,
                                  said |-> "answer", text |-> run[r].answer])
  /\ UNCHANGED <<status, bus, monitor, retrain_queue, published, demoted>>

----------------------------------------------------------------------------
(* The operator. *)

\* An operator, or the pipeline, makes the version active again.
Activate(a) ==
  /\ status[a] = "deprecated" /\ status' = [status EXCEPT ![a] = "active"]
  /\ UNCHANGED <<run, bus, monitor, retrain_queue, turns, published, demoted>>

RequestNext ==
  \/ \E r \in Requests :
       \/ \E text \in QueryTexts[r], broken \in Faults[r] : Receive(r, text, broken)
       \/ Select(r) \/ Draft(r)
       \/ \E screened \in Screenings[r], claims \in 0..MaxClaims[r] :
            \/ \E text \in AnswerTexts[r], stands \in Shadowings[r], broken \in Faults[r] :
                 Answer(r, text, screened, claims, stands, broken)
            \/ \E ending \in Endings[r] : EndOtherwise(r, ending, screened, claims)
       \/ Finish(r) \/ Demote(r) \/ QueueRetraining(r) \/ RememberAnswer(r)
  \/ \E a \in Adapters : Activate(a)

----------------------------------------------------------------------------
(* Properties                                                              *)

Finished(r) == run[r].stage \in {"deciding", "remembering", "done"}

\* What the bus was told about an adapter, in order: whether it conflicted.
History(a) ==
  LET told == Picked(published, {i \in DOMAIN published : a \in published[i].adapters})
  IN  [i \in DOMAIN told |-> told[i].kind = "conflict"]

\* Whatever the interleaving, and however few events the bus keeps, an adapter
\* is decided against exactly when some moment's window held enough samples
\* and a critical share of conflicts; a decision is never lost between the
\* monitor and the registry; and the adapter is queued for retraining with it.
MonitorActsExactlyWhenCritical ==
  \A a \in Adapters :
    LET windows == {Latest(SubSeq(History(a), 1, n), Window) : n \in DOMAIN History(a)}
        critical == {w \in windows : Len(w) >= MinSamples /\ Above(w, Critical)}
    IN  /\ a \in monitor.acted <=> critical # {}
        /\ a \in monitor.acted =>
             /\ a \in demoted \/ \E r \in Requests : a \in run[r].demote
             /\ a \in ToSet(retrain_queue) \/ \E r \in Requests : a \in run[r].retrain
        /\ a \in demoted => a \in monitor.acted

\* However a request ends, what it accumulated is published once and before
\* anything is decided or remembered, also when it raised; every refusal and
\* every isolation violation is heard as one; a request that crashed with
\* another exception is never heard.
EventsHeardOnce ==
  /\ \A r \in Requests :
       LET heard == Picked(published, {i \in DOMAIN published : published[i].request = r})
           kinds == {e.kind : e \in ToSet(heard)}
       IN  /\ heard = IF Finished(r) THEN run[r].events ELSE << >>
           /\ Finished(r) /\ run[r].outcome = "blocked" => kinds \cap {"security", "alert"} # {}
           /\ Finished(r) /\ run[r].outcome = "isolation violation" => "alert" \in kinds
           /\ "sampled" \in kinds => run[r].outcome = "answer"
  /\ Len(bus) <= Capacity /\ IsSuffix(bus, published)

\* Session memory holds the turns that passed: no word of a refused one, the
\* question as the input chain left it, the answer as the output chain did,
\* each once, and no answer before its question.
MemoryHoldsWhatPassed ==
  /\ \A i \in DOMAIN turns :
       LET turn == turns[i]
       IN  /\ run[turn.request].outcome \notin {"blocked", "isolation violation", "error", "crash"}
           /\ turn.said = "question" =>
                turn.text \cap ({"injection", "control"} \cup IF RedactPii THEN {"pii"} ELSE {}) = {}
           /\ turn.said = "answer" =>
                /\ turn.text = {}
                /\ \E j \in 1..(i - 1) : turns[j].request = turn.request /\ turns[j].said = "question"
           /\ \A j \in DOMAIN turns \ {i} :
                turns[j].request # turn.request \/ turns[j].said # turn.said
  /\ \A r \in Requests : run[r].stage = "done" /\ run[r].outcome = "answer" =>
       \E i \in DOMAIN turns : turns[i].request = r /\ turns[i].said = "answer"

\* "Every attempt is either served or contradicted, so the rate has an honest
\* denominator" (ConflictMonitor): an adapter is decided against only when
\* the share of its attempts that were contradicted was critical.
HonestDenominator ==
  \A a \in monitor.acted :
    LET told == SelectSeq(published, LAMBDA e : a \in e.adapters)
        attempt(i) == \A j \in 1..(i - 1) : told[j].request # told[i].request
        attempts == SelectSeq([i \in DOMAIN told |-> [first |-> attempt(i), conflict |-> told[i].kind = "conflict"]],
                              LAMBDA t : t.first)
        outcomes == [i \in DOMAIN attempts |-> attempts[i].conflict]
        windows == {Latest(SubSeq(outcomes, 1, n), Window) : n \in DOMAIN outcomes}
    IN  \E w \in windows : Above(w, Critical)

=============================================================================
