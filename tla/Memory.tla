------------------------------- MODULE Memory -------------------------------
(***************************************************************************)
(* PrincipalMemoryStore (memory/stores.py), one implementation configured  *)
(* per namespace, with the turns and facts the platform writes to it       *)
(* (api/composition.py).  The store of one namespace and one principal is  *)
(* modelled: a principal's items are kept under its own key and no         *)
(* operation reaches another's.                                            *)
(*                                                                         *)
(* An item's text is the set of its words (_tokens); what a summary keeps   *)
(* of an item is its id.                                                   *)
(* Time advances by half-lives of salience, so that salience after decay,  *)
(* salience * 2^-(now - reference), orders items as salience * 2^reference *)
(* does.                                                                   *)
(***************************************************************************)
EXTENDS Integers, SequencesExt, Selections

CONSTANTS Vocabulary, Texts, Sessions, Saliences,
          Ttl,             \* of a session item
          Window,          \* the last items of a session, which a read looks at
          SummarizeAfter,  \* turns after which the platform rolls the summary
          MaxProse,        \* items a summary's prose has room for
          MaxItems,        \* of a long-term store
          Limit,           \* items a read returns
          MaxTime, MaxWrites  \* bounds

\* build_platform passes summarize_after_turns for both.
ASSUME MemoryAssumption ==
  /\ {Ttl, Window, SummarizeAfter, MaxProse, MaxItems, Limit, MaxTime, MaxWrites} \subseteq Nat
  /\ Window > 0 /\ SummarizeAfter = Window /\ MaxItems > 0
  /\ Saliences \subseteq Nat
  /\ IsFiniteSet(Vocabulary) /\ Texts \subseteq SUBSET Vocabulary

VARIABLES namespace, items, summaries, now, written

memoryVars == <<namespace, items, summaries, now, written>>

NoSummary == [prose |-> << >>, verbatim |-> << >>]

MemoryInit ==
  /\ namespace \in {"SESSION", "LONG_TERM"}
  /\ items = << >> /\ now = 0 /\ written = 0
  /\ summaries = [s \in Sessions |-> NoSummary]

----------------------------------------------------------------------------

Ids(seq) == [i \in DOMAIN seq |-> seq[i].id]
OfSession(seq, s) == Picked(seq, {i \in DOMAIN seq : seq[i].session = s})
Asserted(seq) == Picked(seq, {i \in DOMAIN seq : seq[i].provenance = "USER_ASSERTED"})

\* _live: expired items are dropped for good.
Live ==
  IF namespace = "SESSION" THEN Picked(items, {i \in DOMAIN items : items[i].created >= now - Ttl})
  ELSE items

\* _recent, of the items of one session.
Latest(seq) == {i \in DOMAIN seq : Len(seq) - i < Window}

\* Those before them.
Older(seq) == SubSeq(seq, 1, IF Len(seq) > Window THEN Len(seq) - Window ELSE 0)

\* 2 ^ t, for the times that occur.
Doubled[t \in 0..MaxTime] == IF t = 0 THEN 1 ELSE 2 * Doubled[t - 1]

\* _decayed, as an order: the clock runs from the last access.  Session memory
\* has no half-life.
Decayed(item) ==
  IF namespace = "SESSION" THEN item.salience
  ELSE item.salience * Doubled[Max({item.created, item.accessed})]

\* By what they are worth, and among equals by age.
WorthLess(i, j) ==
  Decayed(i) < Decayed(j) \/ (Decayed(i) = Decayed(j) /\ i.created < j.created)

\* Mutant: the oldest fact goes, whatever it is worth.
EvictedOldest(seq) == IF Len(seq) > MaxItems THEN Tail(seq) ELSE seq

Evicted(seq) ==
  LET least == {k \in DOMAIN seq : \A j \in DOMAIN seq : ~WorthLess(seq[j], seq[k])}
  IN  IF Len(seq) > MaxItems THEN RemoveAt(seq, Min(least)) ELSE seq

\* How much of the question an item bears on.
Shared(item, asked) == Cardinality(asked \cap item.text)

\* Mutant: among items that bear on the question alike, the oldest come first.
AheadOldestFirst(seq, asked) ==
  LET bearing(i) == Shared(seq[i], asked)
      ahead(i, j) == bearing(i) > bearing(j) \/ (bearing(i) = bearing(j) /\ i < j)
  IN  {p \in (DOMAIN seq) \X (DOMAIN seq) : ahead(p[1], p[2])}

\* The order of a read: what bears on the question most, then what is worth
\* most; among equals the one written first.
Ahead(seq, asked) ==
  LET bearing(i) == Shared(seq[i], asked)
      worthier(i, j) == WorthLess(seq[j], seq[i]) \/ (~WorthLess(seq[i], seq[j]) /\ i < j)
      ahead(i, j) == bearing(i) > bearing(j) \/ (bearing(i) = bearing(j) /\ worthier(i, j))
  IN  {p \in (DOMAIN seq) \X (DOMAIN seq) : ahead(p[1], p[2])}

\* What a read returns of the items at some positions.
Best(seq, positions, asked) ==
  {i \in positions : RankIn(i, Ahead(seq, asked), positions) <= Limit}

Item(id, text, provenance, salience, s) ==
  [id |-> id, text |-> text, provenance |-> provenance, salience |-> salience,
   session |-> s, created |-> now, accessed |-> 0]

----------------------------------------------------------------------------

\* summarize: items beyond the window are compressed, oldest first, into prose
\* that is cut at its limit; what the user asserted is kept verbatim.
Summary(seq) ==
  LET older == Older(seq)
  IN  [prose |-> Ids(SubSeq(older, 1, Min({MaxProse, Len(older)}))),
       verbatim |-> Ids(Asserted(seq))]

\* _remember_turn: the question, the answer unless the request abstained, and
\* the summary once the conversation has outgrown the window.
RememberTurn(s, text, answered) ==
  LET question == Item(written + 1, text, "USER_ASSERTED", 1, s)
      answer == Item(written + 2, text, "MODEL_GENERATED", 1, s)
      turn == IF answered THEN <<question, answer>> ELSE <<question>>
      after == Live \o turn
      conversation == OfSession(after, s)
  IN  /\ namespace = "SESSION" /\ written + Len(turn) <= MaxWrites
      /\ items' = after
      /\ written' = written + Len(turn)
      /\ summaries' = IF Len(conversation) > SummarizeAfter
                      THEN [summaries EXCEPT ![s] = Summary(conversation)] ELSE summaries
      /\ UNCHANGED <<namespace, now>>

\* Platform.remember and PrincipalMemoryStore.write: a fact stated again is
\* the same fact, at the higher salience and with its clock refreshed.
Restated(text, salience) ==
  [i \in DOMAIN items |->
    IF items[i].text = text
    THEN [items[i] EXCEPT !.salience = Max({@, salience}), !.accessed = now] ELSE items[i]]

Remember(text, salience) ==
  /\ namespace = "LONG_TERM" /\ written < MaxWrites
  /\ items' = IF \E i \in DOMAIN items : items[i].text = text
              THEN Restated(text, salience)
              ELSE Evicted(Append(items, Item(written + 1, text, "USER_ASSERTED", salience, "none")))
  /\ written' = written + 1
  /\ UNCHANGED <<namespace, summaries, now>>

\* read of a conversation: of its last items, those that bear on the question
\* most, the youngest among equals.  Any of them may: a follow-up rarely
\* repeats the words it refers back to.
Recalled(turns, asked) == Best(turns, Latest(turns), asked)

\* read of long-term memory: only facts that bear on the question.
Chosen(asked) == Best(items, {i \in DOMAIN items : asked = {} \/ Shared(items[i], asked) > 0}, asked)

\* Reading a conversation drops what has expired; a fact that is returned is
\* refreshed.
Recall(asked) ==
  /\ items' = IF namespace = "SESSION" THEN Live
              ELSE [i \in DOMAIN items |->
                     IF i \in Chosen(asked) THEN [items[i] EXCEPT !.accessed = now] ELSE items[i]]
  /\ UNCHANGED <<namespace, summaries, now, written>>

\* _matches: every field that is set must match.  The namespace of a selector
\* only says which of the two stores it is about.
Matches(item, selector) ==
  /\ selector.ids = {} \/ item.id \in selector.ids
  /\ selector.session \in {"any", item.session}
  /\ selector.provenance \in {"any", item.provenance}
  /\ item.created < selector.older_than

\* older_than is one past every time where it is not set.
Selectors ==
  [ids : {{}} \cup {{i} : i \in 1..written}, session : Sessions \cup {"any"},
   provenance : {"any", "USER_ASSERTED", "MODEL_GENERATED"}, older_than : {now, MaxTime + 1}]

IsEmpty(selector) ==
  selector = [ids |-> {}, session |-> "any", provenance |-> "any", older_than |-> MaxTime + 1]

\* forget: a summary goes only when the selector names its session.
Forget(selector) ==
  /\ ~IsEmpty(selector)
  /\ items' = Picked(items, {i \in DOMAIN items : ~Matches(items[i], selector)})
  /\ summaries' = [s \in Sessions |-> IF selector.session = s THEN NoSummary ELSE summaries[s]]
  /\ UNCHANGED <<namespace, now, written>>

Tick ==
  /\ now < MaxTime /\ now' = now + 1
  /\ UNCHANGED <<namespace, items, summaries, written>>

MemoryNext ==
  \/ \E s \in Sessions, text \in Texts, answered \in BOOLEAN : RememberTurn(s, text, answered)
  \/ \E text \in Texts, salience \in Saliences : Remember(text, salience)
  \/ \E asked \in SUBSET Vocabulary : Recall(asked)
  \/ \E selector \in Selectors : Forget(selector)
  \/ Tick

----------------------------------------------------------------------------
(* Properties                                                              *)

\* After each turn, whatever is asked next in the conversation: the read hands
\* the next answer turns of the window only, and passes over one of them only
\* for `Limit` others that bear on the question more, or as much and are not
\* older; and a turn that has left the window is kept in the prose of the
\* rolling summary, as long as the prose has room.  No turn that has not
\* expired falls between the two.  The summary goes with the request's session,
\* and nothing puts it into the context the model is given.
PassedOver(i, turns, recalled, asked) ==
  LET bearing(j) == Shared(turns[j], asked)
  IN  /\ Cardinality(recalled) = Limit
      /\ \A j \in recalled :
           bearing(j) > bearing(i) \/ (bearing(j) = bearing(i) /\ turns[j].created >= turns[i].created)

TurnsAreRecalled ==
  [][namespace = "SESSION" /\ written' # written =>
       LET s == Last(items').session
           turns == OfSession(items', s)
           prose == summaries'[s].prose
       IN  \A asked \in SUBSET Vocabulary :
             LET recalled == Recalled(turns, asked)
             IN  \A i \in DOMAIN turns :
                   IF i > Len(turns) - Window
                   THEN i \in recalled \/ PassedOver(i, turns, recalled, asked)
                   ELSE /\ i \notin recalled
                        /\ turns[i].id \in ToSet(prose) \/ Len(prose) = MaxProse]_memoryVars

\* A long-term store never holds more than MaxItems facts nor a fact twice,
\* and what it gives up to a new fact is worth no more than what it keeps:
\* a fact that was just read or restated is not the one that goes unless it
\* is as small as any.
ValuableFactsStay ==
  [][namespace = "LONG_TERM" =>
       /\ Len(items') <= MaxItems
       /\ \A i, j \in DOMAIN items' : items'[i].text = items'[j].text => i = j
       /\ \A k \in DOMAIN items, j \in DOMAIN items' :
            (written' # written /\ items[k].id \notin ToSet(Ids(items'))) =>
              /\ items[k].accessed < now
                 \/ items[k].salience <= items'[j].salience
              /\ Decayed(items[k]) <= Decayed(items'[j])]_memoryVars

\* "Erase matching memory from every tier" (composition.py:386): once an item
\* is erased, no summary holds it.
ErasedIsGone ==
  [][\A selector \in Selectors : Forget(selector) =>
       \A i \in DOMAIN items : Matches(items[i], selector) =>
         \A s \in Sessions :
           items[i].id \notin ToSet(summaries'[s].prose) \cup ToSet(summaries'[s].verbatim)]_memoryVars

=============================================================================
