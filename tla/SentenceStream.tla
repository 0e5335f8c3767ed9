--------------------------- MODULE SentenceStream ----------------------------
(***************************************************************************)
(* The answer on its way to the reader (generation/streaming.py and        *)
(* api/sse.py): a provider's chunks are cut into sentences, each of which  *)
(* a guard checks before it is released.  The consumer pulls: between two  *)
(* events the stream is suspended, and it may be abandoned there.          *)
(*                                                                         *)
(* A text is a sequence of letters, ends of sentences, spaces and other    *)
(* white space (line breaks, tabs), which nothing here tells apart from    *)
(* others of their kind.                                                   *)
(***************************************************************************)
EXTENDS Integers, SequencesExt, Selections

CONSTANTS
  Chunks,       \* what the provider may send at a time
  MaxChars,     \* of the buffer
  MaxReceived   \* bound: characters of an answer

Letter == "w"
Stop == "."
Space == "_"
Break == "|"
White == {Space, Break}
Chars == {Letter, Stop} \cup White

ASSUME StreamAssumption == MaxChars \in Nat \ {0} /\ \A c \in Chunks : c \in Seq(Chars)

VARIABLES
  received,     \* all the provider sent
  buffer,       \* SentenceBuffer._buffer
  pending,      \* what feed returned and the guard has not seen
  events,       \* what the guard saw, with its answer
  stream        \* "open", "flushed" (the tail is pending), "done", "abandoned"

streamVars == <<received, buffer, pending, events, stream>>

StreamInit ==
  received = << >> /\ buffer = << >> /\ pending = << >> /\ events = << >> /\ stream = "open"

----------------------------------------------------------------------------

\* Where _BOUNDARY's first match ends: the white space after a full stop.
Ends(text) ==
  {i \in 2..Len(text) : /\ text[i] \in White
                        /\ i = Len(text) \/ text[i + 1] \notin White
                        /\ \E j \in 1..(i - 1) : text[j] = Stop /\ \A k \in (j + 1)..i : text[k] \in White}

\* The sentences that are complete, and what is left.
Earlier(places) == {p \in places \X places : p[1] < p[2]}

Split(text) ==
  LET cuts == InOrder(Ends(text), Earlier(Ends(text)))
      from(n) == IF n = 1 THEN 1 ELSE cuts[n - 1] + 1
  IN  [sentences |-> [n \in DOMAIN cuts |-> SubSeq(text, from(n), cuts[n])],
       rest |-> SubSeq(text, from(Len(cuts) + 1), Len(text))]

\* Mutant: the cut leaves the space behind and takes the letter after it.
CutInWord(text) ==
  LET spaces == {i \in 2..Len(text) : text[i] = Space}
  IN  IF Len(text) < MaxChars \/ spaces = {} THEN 0 ELSE Min({Max(spaces) + 1, Len(text)})

\* A buffer that grew past its size is released up to its last space, and not
\* up to other white space.
Cut(text) ==
  LET spaces == {i \in 2..Len(text) : text[i] = Space}
  IN  IF Len(text) < MaxChars \/ spaces = {} THEN 0 ELSE Max(spaces)

\* SentenceBuffer.feed, once the consumer has taken what the last one released.
Feed(chunk) ==
  LET split == Split(buffer \o chunk)
      cut == Cut(split.rest)
  IN  /\ stream = "open" /\ pending = << >>
      /\ Len(received) + Len(chunk) <= MaxReceived
      /\ received' = received \o chunk
      /\ pending' = split.sentences \o IF cut = 0 THEN << >> ELSE <<SubSeq(split.rest, 1, cut)>>
      /\ buffer' = SubSeq(split.rest, cut + 1, Len(split.rest))
      /\ UNCHANGED <<events, stream>>

\* The provider's chunks are over: the tail is a piece like any other.
Flush ==
  /\ stream = "open" /\ pending = << >>
  /\ pending' = IF buffer = << >> THEN << >> ELSE <<buffer>>
  /\ buffer' = << >> /\ stream' = "flushed"
  /\ UNCHANGED <<received, events>>

\* The guard's answer: as it is, redacted, or withheld.  The first event
\* that is released carries the time to the first token.
Guarded(verdict) ==
  /\ pending # << >> /\ stream \in {"open", "flushed"}
  /\ pending' = Tail(pending)
  /\ events' = Append(events,
       [text |-> Head(pending), verdict |-> verdict,
        ttft |-> verdict # "withheld" /\ \A i \in DOMAIN events : events[i].verdict = "withheld"])
  /\ UNCHANGED <<received, buffer, stream>>

\* The last event, and the envelope after it.
Done ==
  /\ stream = "flushed" /\ pending = << >>
  /\ stream' = "done"
  /\ UNCHANGED <<received, buffer, pending, events>>

\* The provider or the guard raised, or the reader went away.
Abandon ==
  /\ stream \in {"open", "flushed"}
  /\ stream' = "abandoned"
  /\ UNCHANGED <<received, buffer, pending, events>>

StreamNext ==
  \/ \E chunk \in Chunks : Feed(chunk)
  \/ Flush
  \/ \E verdict \in {"kept", "redacted", "withheld"} : Guarded(verdict)
  \/ Done
  \/ Abandon

----------------------------------------------------------------------------
(* Properties                                                              *)

Checked == [i \in DOMAIN events |-> events[i].text]

\* Nothing the provider said is lost, repeated or reordered on its way to the
\* guard; the guard sees whole words, one sentence at a time; a complete
\* sentence never waits in the buffer, and no buffer outgrows its size while
\* it holds a space; the whole answer has been checked when the envelope is sent.
StreamIsExact ==
  LET pieces == Checked \o pending
  IN  /\ FlattenSeq(pieces) \o buffer = received
      /\ \A i \in DOMAIN pieces :
           /\ \A e \in Ends(pieces[i]) : e = Len(pieces[i])
           /\ Last(pieces[i]) \in White \/ (stream # "open" /\ i = Len(pieces))
      /\ Ends(buffer) = {} /\ Cut(buffer) = 0
      /\ stream = "done" => FlattenSeq(Checked) = received

=============================================================================
