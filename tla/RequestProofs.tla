---------------------------- MODULE RequestProofs ----------------------------
(***************************************************************************)
(* Theorems about AnswerRequest, for any requests, adapters, texts, chains *)
(* of faults, endings, samples, capacity and window.                       *)
(*                                                                         *)
(* Three invariants, each on top of the ones before: what memory holds     *)
(* (MemoryInv: a request passed its guards before it may be told), what    *)
(* the bus heard (EventInv: a request's events are published with its      *)
(* ending, after all that was published before), and what the monitor      *)
(* knows (MonitorInv: it has heard exactly what was published, so that its *)
(* windows are those of the history, and each decision is somewhere        *)
(* between it and the registry).                                           *)
(***************************************************************************)
EXTENDS AnswerRequest, SelectionsProofs, FiniteSetTheorems

RequestSpec == RequestInit /\ [][RequestNext]_requestVars

-----------------------------------------------------------------------------
(* Types. *)

Kinds == {"served", "conflict", "security", "alert", "sampled"}
Told == [request : Requests, kind : Kinds, adapters : SUBSET Adapters]
Stages == {"new", "running", "over", "lost", "deciding", "remembering", "done"}
Outcome == {"none", "answer", "blocked"} \cup OtherEndings
Run == [stage : Stages, query : SUBSET QueryMarks, selected : SUBSET Adapters, draft : SUBSET Adapters,
        answer : SUBSET AnswerMarks, outcome : Outcome, events : Seq(Told),
        retrain : SUBSET Adapters, demote : SUBSET Adapters]
Monitor == [outcomes : [Adapters -> Seq(BOOLEAN)], retrain : SUBSET Adapters,
            demote : SUBSET Adapters, acted : SUBSET Adapters]
Turn == [session : {Session[r] : r \in Requests}, request : Requests,
         said : {"question", "answer"}, text : SUBSET (QueryMarks \cup AnswerMarks)]

TypeInv ==
  /\ run \in [Requests -> Run]
  /\ status \in [Adapters -> {"active", "deprecated"}]
  /\ bus \in Seq(Told) /\ published \in Seq(Told)
  /\ monitor \in Monitor
  /\ retrain_queue \in Seq(Adapters)
  /\ turns \in Seq(Turn)
  /\ demoted \subseteq Adapters

-----------------------------------------------------------------------------
(* The guards. *)

Actions == {"block", "modify", "allow"}
Severities == {"info", "warning", "error", "critical"}
VerdictOn(T) == [action : Actions, severity : Severities, text : SUBSET T]

LEMMA InputCheck ==
  ASSUME NEW text \in SUBSET QueryMarks, NEW broken, NEW name \in {"injection", "pii", "payload_limits"}
  PROVE  LET v == Check(name, text, broken)
         IN  /\ v \in VerdictOn(QueryMarks)
             /\ v.text \subseteq text
             /\ v.action # "block" =>
                  /\ name = "injection" => "injection" \notin v.text
                  /\ name = "pii" /\ RedactPii => "pii" \notin v.text
                  /\ name = "payload_limits" => "control" \notin v.text
BY DEF Check, Verdict, VerdictOn, Actions, Severities, QueryMarks

LEMMA OutputCheck ==
  ASSUME NEW text \in SUBSET AnswerMarks, NEW broken, NEW name \in {"citation_validation", "leakage"}
  PROVE  LET v == Check(name, text, broken)
         IN  /\ v \in VerdictOn(AnswerMarks)
             /\ v.text \subseteq text
             /\ v.action # "block" =>
                  /\ name = "citation_validation" => "foreign marker" \notin v.text
                  /\ name = "leakage" => v.text \cap {"canary", "secret"} = {}
BY DEF Check, Verdict, VerdictOn, Actions, Severities, AnswerMarks

\* One guard more: it is asked about what is left of the text, unless blocked.
Verdicts(seq, T) ==
  /\ seq \in Seq(VerdictOn(T)) /\ seq # << >>
  /\ \A i \in 1..(Len(seq) - 1) : seq[i].action # "block"

LEMMA RunGuardFirst ==
  ASSUME NEW name, NEW text, NEW broken, NEW T, Check(name, text, broken) \in VerdictOn(T)
  PROVE  LET seq == RunGuard(<< >>, name, text, broken)
         IN  Verdicts(seq, T) /\ Last(seq) = Check(name, text, broken)
<1> DEFINE v == Check(name, text, broken)
           V == VerdictOn(T)
           g == Append(<< >>, v)
<1>1. RunGuard(<< >>, name, text, broken) = g
  BY DEF RunGuard
<1>2. v \in V
  OBVIOUS
<1>3. g \in Seq(V) /\ g # << >> /\ Len(g) = 1 /\ g[1] = v
  <2> HIDE DEF v, V
  <2> QED BY <1>2
<1> HIDE DEF g
<1>4. \A i \in 1..(Len(g) - 1) : g[i].action # "block"
  BY <1>3
<1>5. Verdicts(g, T) /\ Last(g) = v
  BY <1>3, <1>4 DEF Verdicts, Last
<1> QED BY <1>1, <1>5

LEMMA RunGuardNext ==
  ASSUME NEW T, NEW seq, Verdicts(seq, T), NEW name, NEW text, NEW broken,
         Check(name, Last(seq).text, broken) \in VerdictOn(T)
  PROVE  LET next == RunGuard(seq, name, text, broken)
         IN  /\ Verdicts(next, T)
             /\ Last(seq).action = "block" => next = seq
             /\ Last(seq).action # "block" => Last(next) = Check(name, Last(seq).text, broken)
<1> DEFINE v == Check(name, Last(seq).text, broken)
           V == VerdictOn(T)
           n == Len(seq)
<1>1. seq \in Seq(V) /\ seq # << >> /\ v \in V /\ \A i \in 1..(n - 1) : seq[i].action # "block"
  BY DEF Verdicts
<1>2. n \in Nat /\ n > 0 /\ DOMAIN seq = 1..n /\ Last(seq) = seq[n]
  <2> HIDE DEF V
  <2> QED BY <1>1, LenProperties, EmptySeq DEF Last
<1>3. CASE Last(seq).action = "block"
  <2>1. n \in DOMAIN seq /\ seq[n].action = "block"
    BY <1>2, <1>3
  <2>2. RunGuard(seq, name, text, broken) = seq
    BY <2>1 DEF RunGuard
  <2> QED BY <1>3, <2>2
<1>4. CASE Last(seq).action # "block"
  <2>1. \A i \in DOMAIN seq : seq[i].action # "block"
    BY <1>1, <1>2, <1>4
  <2>2. RunGuard(seq, name, text, broken) = Append(seq, v)
    BY <1>1, <2>1 DEF RunGuard
  <2> DEFINE next == Append(seq, v)
  <2>3. /\ next \in Seq(V) /\ Len(next) = n + 1 /\ next[n + 1] = v
        /\ \A i \in 1..n : next[i] = seq[i]
    <3> HIDE DEF V, v
    <3> QED BY <1>1, AppendProperties
  <2>4. Verdicts(next, T) /\ Last(next) = v
    <3> HIDE DEF next
    <3>1. next # << >>
      BY <1>2, <2>3
    <3>2. \A i \in 1..(Len(next) - 1) : next[i].action # "block"
      BY <1>2, <2>1, <2>3
    <3> QED BY <2>3, <3>1, <3>2 DEF Verdicts, Last
  <2> QED BY <1>4, <2>2, <2>4
<1> QED BY <1>3, <1>4

\* What a chain of three and a chain of two come to.
LEMMA InputChainRuns ==
  ASSUME NEW text, NEW broken
  PROVE  RunChain(InputChain, text, broken) =
           RunGuard(RunGuard(RunGuard(<< >>, "injection", text, broken), "pii", text, broken),
                   "payload_limits", text, broken)
<1> DEFINE a == RunGuard(<< >>, "injection", text, broken)
           b == RunGuard(a, "pii", text, broken)
           c == RunGuard(b, "payload_limits", text, broken)
           Runs(g) == g = [n \in 0..3 |-> IF n = 0 THEN << >> ELSE RunGuard(g[n - 1], InputChain[n], text, broken)]
           F == CHOOSE g : Runs(g)
           w == [n \in 0..3 |-> IF n = 0 THEN << >> ELSE IF n = 1 THEN a ELSE IF n = 2 THEN b ELSE c]
<1>1. /\ Len(InputChain) = 3 /\ InputChain[1] = "injection" /\ InputChain[2] = "pii"
      /\ InputChain[3] = "payload_limits"
  BY DEF InputChain
<1>2. RunChain(InputChain, text, broken) = F[3]
  BY <1>1 DEF RunChain
<1>3. Runs(w)
  <2>1. w[0] = << >> /\ w[1] = a /\ w[2] = b /\ w[3] = c
    OBVIOUS
  <2>2. \A n \in 0..3 : n = 0 \/ n = 1 \/ n = 2 \/ n = 3
    OBVIOUS
  <2>3. \A n \in 0..3 : w[n] = IF n = 0 THEN << >> ELSE RunGuard(w[n - 1], InputChain[n], text, broken)
    <3> HIDE DEF w
    <3> QED BY <1>1, <2>1, <2>2
  <2> QED BY <2>3
<1>4. Runs(F)
  <2> HIDE DEF Runs, w
  <2> QED BY <1>3
<1> HIDE DEF F
<1>5. F[0] = << >> /\ F[1] = RunGuard(F[0], InputChain[1], text, broken)
      /\ F[2] = RunGuard(F[1], InputChain[2], text, broken) /\ F[3] = RunGuard(F[2], InputChain[3], text, broken)
  BY <1>4
<1> QED BY <1>1, <1>2, <1>5

LEMMA OutputChainRuns ==
  ASSUME NEW text, NEW broken
  PROVE  RunChain(OutputChain, text, broken) =
           RunGuard(RunGuard(<< >>, "citation_validation", text, broken), "leakage", text, broken)
<1> DEFINE a == RunGuard(<< >>, "citation_validation", text, broken)
           b == RunGuard(a, "leakage", text, broken)
           Runs(g) == g = [n \in 0..2 |-> IF n = 0 THEN << >> ELSE RunGuard(g[n - 1], OutputChain[n], text, broken)]
           F == CHOOSE g : Runs(g)
           w == [n \in 0..2 |-> IF n = 0 THEN << >> ELSE IF n = 1 THEN a ELSE b]
<1>1. Len(OutputChain) = 2 /\ OutputChain[1] = "citation_validation" /\ OutputChain[2] = "leakage"
  BY DEF OutputChain
<1>2. RunChain(OutputChain, text, broken) = F[2]
  BY <1>1 DEF RunChain
<1>3. Runs(w)
  <2>1. w[0] = << >> /\ w[1] = a /\ w[2] = b
    OBVIOUS
  <2>2. \A n \in 0..2 : n = 0 \/ n = 1 \/ n = 2
    OBVIOUS
  <2>3. \A n \in 0..2 : w[n] = IF n = 0 THEN << >> ELSE RunGuard(w[n - 1], OutputChain[n], text, broken)
    <3> HIDE DEF w
    <3> QED BY <1>1, <2>1, <2>2
  <2> QED BY <2>3
<1>4. Runs(F)
  <2> HIDE DEF Runs, w
  <2> QED BY <1>3
<1> HIDE DEF F
<1>5. F[0] = << >> /\ F[1] = RunGuard(F[0], OutputChain[1], text, broken)
      /\ F[2] = RunGuard(F[1], OutputChain[2], text, broken)
  BY <1>4
<1> QED BY <1>1, <1>2, <1>5

\* What passes the chains is clean.
Clean(text) == text \cap ({"injection", "control"} \cup IF RedactPii THEN {"pii"} ELSE {}) = {}

LEMMA InputPasses ==
  ASSUME NEW text \in SUBSET QueryMarks, NEW broken
  PROVE  LET verdicts == RunChain(InputChain, text, broken)
         IN  /\ Verdicts(verdicts, QueryMarks)
             /\ ~Blocked(verdicts) => Clean(Last(verdicts).text)
<1> DEFINE a == RunGuard(<< >>, "injection", text, broken)
           b == RunGuard(a, "pii", text, broken)
           c == RunGuard(b, "payload_limits", text, broken)
<1>1. RunChain(InputChain, text, broken) = c
  BY InputChainRuns
<1>2. Verdicts(a, QueryMarks) /\ Last(a) = Check("injection", text, broken)
  BY InputCheck, RunGuardFirst
<1>a. Last(a) \in VerdictOn(QueryMarks) /\ (Last(a).action # "block" => "injection" \notin Last(a).text)
  BY <1>2, InputCheck
<1>b. Last(a).text \in SUBSET QueryMarks
  BY <1>a DEF VerdictOn
<1> HIDE DEF a
<1>3. /\ Verdicts(b, QueryMarks)
      /\ Last(a).action = "block" => b = a
      /\ Last(a).action # "block" => Last(b) = Check("pii", Last(a).text, broken)
  BY <1>2, <1>b, InputCheck, RunGuardNext
<1>c. /\ Last(b) \in VerdictOn(QueryMarks)
      /\ Last(b).action # "block" => "injection" \notin Last(b).text /\ (RedactPii => "pii" \notin Last(b).text)
  BY <1>3, <1>a, <1>b, InputCheck
<1>d. Last(b).text \in SUBSET QueryMarks
  BY <1>c DEF VerdictOn
<1> HIDE DEF b
<1>4. /\ Verdicts(c, QueryMarks)
      /\ Last(b).action = "block" => c = b
      /\ Last(b).action # "block" => Last(c) = Check("payload_limits", Last(b).text, broken)
  <2>1. Check("payload_limits", Last(b).text, broken) \in VerdictOn(QueryMarks)
    BY <1>d, InputCheck
  <2> QED BY <1>3, <2>1, RunGuardNext
<1>5. Last(c).action # "block" =>
        /\ "injection" \notin Last(c).text /\ "control" \notin Last(c).text
        /\ RedactPii => "pii" \notin Last(c).text
  <2> HIDE DEF c
  <2> SUFFICES ASSUME Last(c).action # "block"
               PROVE  /\ "injection" \notin Last(c).text /\ "control" \notin Last(c).text
                      /\ RedactPii => "pii" \notin Last(c).text
    OBVIOUS
  <2>1. Last(b).action # "block" /\ Last(c) = Check("payload_limits", Last(b).text, broken)
    BY <1>4
  <2>2. Last(c).text \subseteq Last(b).text /\ "control" \notin Last(c).text
    BY <1>d, <2>1, InputCheck
  <2> QED BY <1>c, <2>1, <2>2
<1> HIDE DEF c
<1> QED BY <1>1, <1>4, <1>5 DEF Blocked, Clean

LEMMA OutputPasses ==
  ASSUME NEW text \in SUBSET AnswerMarks, NEW broken
  PROVE  LET verdicts == RunChain(OutputChain, text, broken)
         IN  /\ Verdicts(verdicts, AnswerMarks)
             /\ ~Blocked(verdicts) => Last(verdicts).text = {}
<1> DEFINE a == RunGuard(<< >>, "citation_validation", text, broken)
           b == RunGuard(a, "leakage", text, broken)
<1>1. RunChain(OutputChain, text, broken) = b
  BY OutputChainRuns
<1>2. Verdicts(a, AnswerMarks) /\ Last(a) = Check("citation_validation", text, broken)
  BY OutputCheck, RunGuardFirst
<1>a. Last(a) \in VerdictOn(AnswerMarks) /\ (Last(a).action # "block" => "foreign marker" \notin Last(a).text)
  BY <1>2, OutputCheck
<1>b. Last(a).text \in SUBSET AnswerMarks
  BY <1>a DEF VerdictOn
<1> HIDE DEF a
<1>3. /\ Verdicts(b, AnswerMarks)
      /\ Last(a).action = "block" => b = a
      /\ Last(a).action # "block" => Last(b) = Check("leakage", Last(a).text, broken)
  <2>1. Check("leakage", Last(a).text, broken) \in VerdictOn(AnswerMarks)
    BY <1>b, OutputCheck
  <2> QED BY <1>2, <2>1, RunGuardNext
<1>4. Last(b).action # "block" =>
        Last(b).text \in SUBSET AnswerMarks /\ Last(b).text \cap {"foreign marker", "canary", "secret"} = {}
  <2> SUFFICES ASSUME Last(b).action # "block"
               PROVE  /\ Last(b).text \in SUBSET AnswerMarks
                      /\ Last(b).text \cap {"foreign marker", "canary", "secret"} = {}
    OBVIOUS
  <2> HIDE DEF b
  <2>1. Last(a).action # "block" /\ Last(b) = Check("leakage", Last(a).text, broken)
    BY <1>3
  <2>2. Last(b).text \subseteq Last(a).text /\ Last(b).text \cap {"canary", "secret"} = {}
    BY <1>b, <2>1, OutputCheck
  <2> QED BY <1>a, <1>b, <2>1, <2>2
<1> HIDE DEF b
<1> QED BY <1>1, <1>3, <1>4 DEF Blocked, AnswerMarks

-----------------------------------------------------------------------------
(* The events. *)

\* A sequence of events of one request; only what was served or contradicted
\* names adapters.
Tells(r, e) == e.request = r /\ (e.kind \in {"served", "conflict"} \/ e.adapters = {})

EventsFrom(r, events) ==
  events \in Seq(Told) /\ \A i \in 1..Len(events) : Tells(r, events[i])

LEMMA ConcatEvents ==
  ASSUME NEW r, NEW s, NEW t, EventsFrom(r, s), EventsFrom(r, t)
  PROVE  /\ EventsFrom(r, s \o t) /\ Len(s \o t) = Len(s) + Len(t)
         /\ Len(s) \in Nat /\ Len(t) \in Nat
         /\ \A i \in 1..Len(s) : (s \o t)[i] = s[i]
         /\ \A i \in 1..Len(t) : (s \o t)[Len(s) + i] = t[i]
         /\ \A i \in 1..Len(s \o t) : \/ i \in 1..Len(s) /\ (s \o t)[i] = s[i]
                                      \/ \E j \in 1..Len(t) : (s \o t)[i] = t[j]
<1>1. s \in Seq(Told) /\ t \in Seq(Told)
  BY DEF EventsFrom
<1>2. /\ s \o t \in Seq(Told) /\ Len(s \o t) = Len(s) + Len(t)
      /\ Len(s) \in Nat /\ Len(t) \in Nat
      /\ \A i \in 1..Len(s) : (s \o t)[i] = s[i]
      /\ \A i \in 1..Len(t) : (s \o t)[Len(s) + i] = t[i]
  <2> DEFINE S == Told
  <2>1. s \in Seq(S) /\ t \in Seq(S)
    BY <1>1
  <2> HIDE DEF S
  <2>2. /\ s \o t \in Seq(S) /\ Len(s \o t) = Len(s) + Len(t)
        /\ Len(s) \in Nat /\ Len(t) \in Nat
        /\ \A i \in 1..Len(s) : (s \o t)[i] = s[i]
        /\ \A i \in 1..Len(t) : (s \o t)[Len(s) + i] = t[i]
    BY <2>1, ConcatElements
  <2> QED BY <2>2 DEF S
<1> DEFINE st == s \o t
           m == Len(s)
           n == Len(t)
<1>3. /\ st \in Seq(Told) /\ Len(st) = m + n /\ m \in Nat /\ n \in Nat
      /\ \A i \in 1..m : st[i] = s[i]
      /\ \A i \in 1..n : st[m + i] = t[i]
  BY <1>2
<1>4. (\A i \in 1..m : Tells(r, s[i])) /\ (\A i \in 1..n : Tells(r, t[i]))
  BY DEF EventsFrom
<1> HIDE DEF st, m, n
<1>5. \A i \in 1..Len(st) : \/ i \in 1..m /\ st[i] = s[i]
                            \/ \E j \in 1..n : st[i] = t[j]
  <2> SUFFICES ASSUME NEW i \in 1..Len(st), i \notin 1..m
               PROVE  \E j \in 1..n : st[i] = t[j]
    BY <1>3
  <2>1. i - m \in 1..n /\ m + (i - m) = i
    BY <1>3
  <2>2. st[m + (i - m)] = t[i - m]
    BY <1>3, <2>1
  <2> QED BY <2>1, <2>2
<1>6. \A i \in 1..Len(st) : Tells(r, st[i])
  BY <1>4, <1>5
<1>7. EventsFrom(r, st)
  BY <1>3, <1>6 DEF EventsFrom
<1> QED BY <1>2, <1>5, <1>7 DEF st, m, n

LEMMA EventFacts ==
  ASSUME NEW r \in Requests, NEW kind \in Kinds, NEW adapters \in SUBSET Adapters,
         kind \in {"served", "conflict"} \/ adapters = {}
  PROVE  /\ Event(r, kind, adapters) \in Told
         /\ Event(r, kind, adapters).request = r /\ Event(r, kind, adapters).kind = kind
         /\ EventsFrom(r, << Event(r, kind, adapters) >>)
<1> DEFINE e == Event(r, kind, adapters)
           S == Told
<1>1. e \in S /\ e.request = r /\ e.kind = kind /\ Tells(r, e)
  BY DEF Event, Told, Tells
<1> HIDE DEF e, S
<1>2. << e >> \in Seq(S) /\ Len(<< e >>) = 1 /\ << e >>[1] = e
  BY <1>1
<1>3. EventsFrom(r, << e >>)
  BY <1>1, <1>2 DEF EventsFrom, S
<1> QED BY <1>1, <1>3 DEF e, S

LEMMA NoEvents ==
  ASSUME NEW r
  PROVE  EventsFrom(r, << >>)
BY DEF EventsFrom

\* What the guards have to say is said as security events and alerts; a block
\* is always said.
LEMMA VerdictEventsFacts ==
  ASSUME NEW r \in Requests, NEW T, NEW verdicts, Verdicts(verdicts, T)
  PROVE  LET events == VerdictEvents(r, verdicts)
         IN  /\ EventsFrom(r, events)
             /\ \A i \in 1..Len(events) : events[i].kind \in {"security", "alert"}
             /\ Blocked(verdicts) => Len(events) > 0
<1> DEFINE K == {i \in DOMAIN verdicts : \/ verdicts[i].action = "block"
                                        \/ verdicts[i].severity \in {"warning", "critical"}}
           noted == Picked(verdicts, K)
           e(i) == Event(r, IF noted[i].severity = "critical" THEN "alert" ELSE "security", {})
           V == VerdictOn(T)
           n == Len(verdicts)
           m == Len(noted)
           events == [i \in DOMAIN noted |-> e(i)]
<1>1. verdicts \in Seq(V) /\ verdicts # << >>
  BY DEF Verdicts
<1>2. VerdictEvents(r, verdicts) = events
  BY DEF VerdictEvents
<1>3. \A i : e(i) \in Told /\ Tells(r, e(i)) /\ e(i).kind \in {"security", "alert"}
  BY DEF Event, Told, Kinds, Tells
<1> HIDE DEF V, e
<1>4. noted \in Seq(V) /\ \E at : Locates(at, noted, verdicts, K \cap (1..n))
  BY <1>1, PickedLocates
<1>5. n \in Nat /\ n > 0 /\ DOMAIN verdicts = 1..n
  BY <1>1, LenProperties, EmptySeq
<1>6. m \in Nat /\ DOMAIN noted = 1..m
  BY <1>4, LenProperties
<1>7. Blocked(verdicts) => m > 0
  <2> SUFFICES ASSUME Blocked(verdicts) PROVE m > 0
    OBVIOUS
  <2>1. n \in K \cap (1..n)
    BY <1>5 DEF Blocked, Last
  <2> HIDE DEF K, n, noted
  <2>2. PICK at : Locates(at, noted, verdicts, K \cap (1..n))
    BY <1>4
  <2>3. PICK j \in 1..m : at[j] = n
    BY <2>1, <2>2 DEF Locates
  <2> QED BY <1>6, <2>3
<1> HIDE DEF noted, m
<1>8. /\ events \in Seq(Told) /\ Len(events) = m
      /\ \A i \in 1..m : events[i] = e(i)
  BY <1>3, <1>6
<1> HIDE DEF events
<1>9. EventsFrom(r, events) /\ \A i \in 1..Len(events) : events[i].kind \in {"security", "alert"}
  BY <1>3, <1>8 DEF EventsFrom
<1>10. Blocked(verdicts) => Len(events) > 0
  BY <1>7, <1>8
<1> QED BY <1>2, <1>9, <1>10

Unsampled(events) == \A i \in 1..Len(events) : events[i].kind # "sampled"
Alarmed(events) == \E i \in 1..Len(events) : events[i].kind = "alert"

\* What a graph had to say, however it ended: nothing is sampled yet, and an
\* isolation violation is an alert.
LEMMA GraphEventsFacts ==
  ASSUME NEW r \in Requests, run[r].draft \in SUBSET Adapters, NEW ending, NEW screened,
         NEW claims \in Nat, NEW stands
  PROVE  LET events == GraphEvents(r, ending, screened, claims, stands)
         IN  /\ EventsFrom(r, events)
             /\ Unsampled(events)
             /\ ending = "isolation violation" => Alarmed(events)
<1> USE DEF Unsampled, Alarmed
<1> DEFINE a == IF screened THEN << Event(r, "security", {}) >> ELSE << >>
           b == [i \in 1..claims |-> Event(r, "conflict", run[r].draft)]
           c == CASE ending = "isolation violation" -> << Event(r, "alert", {}) >>
                  [] ending = "answer" /\ run[r].draft # {} /\ claims = 0 /\ stands ->
                       << Event(r, "served", run[r].draft) >>
                  [] OTHER -> << >>
<1>1. GraphEvents(r, ending, screened, claims, stands) = a \o b \o c
  BY DEF GraphEvents
<1>2. {"security", "conflict", "alert", "served"} \subseteq Kinds /\ {} \in SUBSET Adapters
  BY DEF Kinds
<1>3. EventsFrom(r, a) /\ Unsampled(a)
  <2>1. CASE screened
    <3>1. EventsFrom(r, << Event(r, "security", {}) >>) /\ Event(r, "security", {}).kind = "security"
      BY <1>2, EventFacts
    <3> DEFINE e == Event(r, "security", {})
    <3> HIDE DEF e
    <3>2. Unsampled(<< e >>)
      BY <3>1 DEF e
    <3> QED BY <2>1, <3>1, <3>2 DEF e
  <2>2. CASE ~screened
    BY <2>2, NoEvents
  <2> QED BY <2>1, <2>2
<1>4. EventsFrom(r, b) /\ Unsampled(b)
  <2> DEFINE e == Event(r, "conflict", run[r].draft)
             bb == [i \in 1..claims |-> e]
  <2>1. e \in Told /\ Tells(r, e) /\ e.kind = "conflict"
    <3>1. "conflict" \in Kinds
      BY DEF Kinds
    <3> QED BY <3>1, EventFacts DEF Tells, Event
  <2> HIDE DEF e
  <2>2. bb \in Seq(Told) /\ Len(bb) = claims /\ \A i \in 1..claims : bb[i] = e
    BY <2>1
  <2> HIDE DEF bb
  <2>3. EventsFrom(r, bb) /\ Unsampled(bb)
    BY <2>1, <2>2 DEF EventsFrom
  <2> QED BY <2>3 DEF bb, e
<1>5. EventsFrom(r, c) /\ Unsampled(c)
      /\ (ending = "isolation violation" => 1 \in 1..Len(c) /\ c[1].kind = "alert")
  <2>1. CASE ending = "isolation violation"
    <3> DEFINE e == Event(r, "alert", {})
    <3>1. EventsFrom(r, << e >>) /\ e.kind = "alert"
      BY <1>2, EventFacts
    <3>2. c = << e >>
      BY <2>1
    <3> HIDE DEF e, c
    <3>3. 1 \in 1..Len(<< e >>) /\ << e >>[1].kind = "alert" /\ Unsampled(<< e >>)
      BY <3>1
    <3> QED BY <3>1, <3>2, <3>3
  <2>2. CASE ending = "answer" /\ run[r].draft # {} /\ claims = 0 /\ stands
    <3> DEFINE e == Event(r, "served", run[r].draft)
    <3>1. EventsFrom(r, << e >>) /\ e.kind = "served"
      BY <1>2, EventFacts
    <3>2. c = << e >> /\ ending # "isolation violation"
      BY <2>2
    <3> HIDE DEF e, c
    <3>3. Unsampled(<< e >>)
      BY <3>1
    <3> QED BY <3>1, <3>2, <3>3
  <2>3. CASE ending # "isolation violation" /\ ~(ending = "answer" /\ run[r].draft # {} /\ claims = 0 /\ stands)
    <3>1. c = << >>
      BY <2>3
    <3>2. EventsFrom(r, << >>) /\ Unsampled(<< >>)
      BY NoEvents
    <3> HIDE DEF c
    <3> QED BY <2>3, <3>1, <3>2, Zenon
  <2> QED BY <2>1, <2>2, <2>3
<1> HIDE DEF a, b, c
<1>6. EventsFrom(r, a \o b) /\ Unsampled(a \o b)
  BY <1>3, <1>4, ConcatEvents
<1> DEFINE ab == a \o b
<1> HIDE DEF ab
<1>7. EventsFrom(r, ab) /\ Unsampled(ab)
  BY <1>6 DEF ab
<1>8. EventsFrom(r, ab \o c) /\ Unsampled(ab \o c)
  <2>1. EventsFrom(r, ab) /\ EventsFrom(r, c) /\ Unsampled(ab) /\ Unsampled(c)
    BY <1>5, <1>7
  <2> QED BY <2>1, ConcatEvents
<1>9. ASSUME ending = "isolation violation"
      PROVE  \E i \in 1..Len(ab \o c) : (ab \o c)[i].kind = "alert"
  <2>1. 1 \in 1..Len(c) /\ c[1].kind = "alert"
    BY <1>5, <1>9
  <2>2. (ab \o c)[Len(ab) + 1] = c[1] /\ Len(ab \o c) = Len(ab) + Len(c) /\ Len(ab) \in Nat
        /\ Len(c) \in Nat
    <3>1. EventsFrom(r, ab) /\ EventsFrom(r, c)
      BY <1>5, <1>7
    <3> QED BY <2>1, <3>1, ConcatEvents
  <2> DEFINE all == ab \o c
             n == Len(ab)
  <2>3. all[n + 1].kind = "alert" /\ Len(all) = n + Len(c) /\ n \in Nat /\ Len(c) \in Nat
    BY <2>1, <2>2
  <2> HIDE DEF all, n
  <2>4. n + 1 \in 1..Len(all)
    BY <2>1, <2>3
  <2>5. \E i \in 1..Len(all) : all[i].kind = "alert"
    BY <2>3, <2>4
  <2> QED BY <2>5 DEF all
<1> QED BY <1>1, <1>8, <1>9 DEF ab

-----------------------------------------------------------------------------
(* The monitor. *)

LEMMA LatestFacts ==
  ASSUME NEW S, NEW seq \in Seq(S), NEW n \in Nat \ {0}
  PROVE  LET latest == Latest(seq, n)
             from == IF Len(seq) > n THEN Len(seq) - n ELSE 0
         IN  /\ latest \in Seq(S) /\ Len(seq) \in Nat /\ from \in Nat
             /\ Len(latest) = Len(seq) - from /\ Len(latest) <= n
             /\ \A i \in 1..Len(latest) : latest[i] = seq[from + i]
<1> DEFINE m == Len(seq)
           from == IF m > n THEN m - n ELSE 0
           start == Max({1, m - n + 1})
           latest == SubSeq(seq, start, m)
<1>1. m \in Nat
  BY LenProperties
<1>2. start = from + 1
  <2>1. Max({1, m - n + 1}) = IF 1 >= m - n + 1 THEN 1 ELSE m - n + 1
    <3> DEFINE x == m - n + 1
               pair == {1, x}
    <3>1. x \in Int
      BY <1>1
    <3> HIDE DEF x
    <3>2. Max(pair) = CHOOSE y \in pair : \A z \in pair : y >= z
      BY DEF Max
    <3>3. (CHOOSE y \in pair : \A z \in pair : y >= z) = IF 1 >= x THEN 1 ELSE x
      BY <3>1
    <3> QED BY <3>2, <3>3 DEF x
  <2> QED BY <1>1, <2>1
<1>3. from \in Nat /\ from <= m /\ m - from <= n
  BY <1>1
<1>4. Latest(seq, n) = latest
  BY DEF Latest
<1> HIDE DEF m, from, start
<1>5. /\ latest \in Seq(S) /\ Len(latest) = m - from
      /\ \A i \in 1..(m - from) : latest[i] = seq[from + i]
  <2>1. \A i \in start..m : seq[i] \in S
    <3>1. \A i \in start..m : i \in 1..m
      BY <1>1, <1>2, <1>3
    <3> QED BY <3>1, ElementOfSeq DEF m
  <2>2. /\ latest \in Seq(S)
        /\ Len(latest) = IF start <= m THEN m - start + 1 ELSE 0
        /\ \A i \in 1..(m - start + 1) : latest[i] = seq[start + i - 1]
    BY <1>1, <1>2, <1>3, <2>1, SubSeqProperties
  <2>3. Len(latest) = m - from
    BY <1>1, <1>2, <1>3, <2>2
  <2>4. \A i \in 1..(m - from) : i \in 1..(m - start + 1) /\ start + i - 1 = from + i
    BY <1>1, <1>2, <1>3
  <2> HIDE DEF latest
  <2>5. \A i \in 1..(m - from) : latest[i] = seq[from + i]
    BY <2>2, <2>4
  <2> QED BY <2>2, <2>3, <2>5
<1> HIDE DEF latest
<1> QED BY <1>1, <1>3, <1>4, <1>5 DEF m, from

LEMMA ObserveType ==
  ASSUME RequestAssumption, NEW m \in Monitor, NEW e \in Told
  PROVE  Observe(m, e) \in Monitor
<1> DEFINE heard == IF e.kind \in {"served", "conflict"} THEN e.adapters ELSE {}
           outcomes == [a \in Adapters |->
                 IF a \in heard THEN Outcomes(m, a, e.kind = "conflict") ELSE m.outcomes[a]]
           seen == [m EXCEPT !.outcomes = outcomes]
           critical == {a \in heard : Assessed(seen, a) /\ Above(seen.outcomes[a], Critical)}
           stale == {a \in heard : Assessed(seen, a) /\ Above(seen.outcomes[a], Staleness)}
<1>1. heard \in SUBSET Adapters
  BY DEF Told
<1>2. m.outcomes \in [Adapters -> Seq(BOOLEAN)] /\ m.retrain \in SUBSET Adapters
      /\ m.demote \in SUBSET Adapters /\ m.acted \in SUBSET Adapters
  BY DEF Monitor
<1>3. outcomes \in [Adapters -> Seq(BOOLEAN)]
  <2>1. ASSUME NEW a \in Adapters
        PROVE  Outcomes(m, a, e.kind = "conflict") \in Seq(BOOLEAN)
    <3> DEFINE old == m.outcomes[a]
               x == (e.kind = "conflict")
               S == BOOLEAN
               all == Append(old, x)
    <3>1. old \in Seq(S) /\ x \in S
      BY <1>2
    <3>2. Outcomes(m, a, e.kind = "conflict") = Latest(all, Window)
      BY DEF Outcomes
    <3>3. Window \in Nat \ {0}
      BY DEF RequestAssumption
    <3> HIDE DEF old, x, S
    <3>4. all \in Seq(S)
      BY <3>1, AppendProperties
    <3> HIDE DEF all
    <3>5. Latest(all, Window) \in Seq(S)
      BY <3>3, <3>4, LatestFacts
    <3> QED BY <3>2, <3>5 DEF S
  <2> HIDE DEF heard
  <2> QED BY <1>2, <2>1
<1>4. Observe(m, e) = [seen EXCEPT !.demote = @ \cup critical, !.acted = @ \cup critical,
                                  !.retrain = @ \cup critical \cup stale]
  BY DEF Observe
<1>5. critical \in SUBSET Adapters /\ stale \in SUBSET Adapters
  BY <1>1
<1>6. seen = [outcomes |-> outcomes, retrain |-> m.retrain, demote |-> m.demote, acted |-> m.acted]
  <2> HIDE DEF outcomes
  <2> QED BY DEF Monitor
<1> HIDE DEF critical, stale, outcomes, seen
<1>7. Observe(m, e) = [outcomes |-> outcomes, retrain |-> m.retrain \cup critical \cup stale,
                       demote |-> m.demote \cup critical, acted |-> m.acted \cup critical]
  BY <1>4, <1>6
<1> QED BY <1>2, <1>3, <1>5, <1>7 DEF Monitor

LEMMA HearsFacts ==
  ASSUME RequestAssumption, NEW m \in Monitor, NEW events \in Seq(Told)
  PROVE  /\ Hears(m, events)[0] = m
         /\ \A i \in 1..Len(events) : Hears(m, events)[i] = Observe(Hears(m, events)[i - 1], events[i])
         /\ \A i \in 0..Len(events) : Hears(m, events)[i] \in Monitor
<1> DEFINE n == Len(events)
           Runs(g) == g = [i \in 0..n |-> IF i = 0 THEN m ELSE Observe(g[i - 1], events[i])]
           F == CHOOSE g : Runs(g)
           next == [i \in 1..n |-> [x \in Monitor |-> Observe(x, events[i])]]
           V == Monitor
<1>0. n \in Nat
  BY LenProperties
<1>1. \A i \in 1..n : events[i] \in Told
  BY ElementOfSeq
<1>2. next \in [1..n -> [V -> V]] /\ \A i \in 1..n : \A x \in V : next[i][x] = Observe(x, events[i])
  BY <1>1, ObserveType
<1> HIDE DEF next, V, n
<1>3. PICK w : /\ w[0] = m /\ \A i \in 1..n : w[i] = next[i][w[i - 1]]
               /\ \A i \in 0..n : w[i] \in V
               /\ w = [i \in 0..n |-> w[i]]
  <2>1. m \in V
    BY DEF V
  <2>2. next \in [1..n -> [V -> V]]
    BY <1>2
  <2>3. \E w : Walks(w, V, m, n, next)
    BY <1>0, <2>1, <2>2, StepsExist, Zenon
  <2> QED BY <2>3 DEF Walks
<1>4. \A i \in 0..n : w[i] = IF i = 0 THEN m ELSE Observe(w[i - 1], events[i])
  <2> SUFFICES ASSUME NEW i \in 0..n, i # 0 PROVE w[i] = Observe(w[i - 1], events[i])
    BY <1>3
  <2>1. i \in 1..n /\ i - 1 \in 0..n
    BY <1>0
  <2> QED BY <1>2, <1>3, <2>1
<1>5. Runs(w)
  <2>1. [i \in 0..n |-> w[i]] = [i \in 0..n |-> IF i = 0 THEN m ELSE Observe(w[i - 1], events[i])]
    BY <1>4
  <2>2. w = [i \in 0..n |-> w[i]]
    BY <1>3
  <2> QED BY <2>1, <2>2, Zenon
<1>6. Runs(F)
  <2> HIDE DEF Runs
  <2> QED BY <1>5
<1>7. Hears(m, events) = F
  BY DEF Hears, n
<1> HIDE DEF F
<1>8. 0 \in 0..n /\ \A i \in 1..n : i \in 0..n /\ i # 0 /\ i - 1 \in 0..n
  BY <1>0
<1>9. F[0] = m /\ \A i \in 1..n : F[i] = Observe(F[i - 1], events[i])
  BY <1>6, <1>8
<1>10. \A i \in 0..n : F[i] \in Monitor
  <2> DEFINE P == {k \in Nat : k <= n => F[k] \in Monitor}
  <2>1. 0 \in P
    BY <1>9
  <2>2. ASSUME NEW k \in Nat, k \in P PROVE k + 1 \in P
    <3> SUFFICES ASSUME k + 1 <= n PROVE F[k + 1] \in Monitor
      OBVIOUS
    <3>1. k + 1 \in 1..n /\ (k + 1) - 1 = k /\ F[k] \in Monitor
      BY <1>0, <2>2
    <3>2. F[k + 1] = Observe(F[k], events[k + 1]) /\ events[k + 1] \in Told
      BY <1>1, <1>9, <3>1
    <3> QED BY <3>1, <3>2, ObserveType
  <2> HIDE DEF P
  <2>3. Nat \subseteq P
    BY <2>1, <2>2, Induction
  <2> QED BY <1>0, <2>3 DEF P
<1> QED BY <1>7, <1>9, <1>10 DEF n

LEMMA HeardType ==
  ASSUME RequestAssumption, NEW m \in Monitor, NEW events \in Seq(Told)
  PROVE  Heard(m, events) \in Monitor
<1>1. Len(events) \in 0..Len(events)
  BY LenProperties
<1> QED BY <1>1, HearsFacts DEF Heard

-----------------------------------------------------------------------------
(* The steps: what each leaves of the requests, and of what else it moves. *)

Others(r) == \A q \in Requests : q # r => run'[q] = run[q]

LEMMA Moves ==
  ASSUME TypeInv, NEW r \in Requests, NEW x \in Run, run' = [run EXCEPT ![r] = x]
  PROVE  run' \in [Requests -> Run] /\ run'[r] = x /\ Others(r)
<1> DEFINE S == Run
<1>1. run \in [Requests -> S] /\ x \in S
  BY DEF TypeInv
<1> HIDE DEF S
<1>2. run' \in [Requests -> S] /\ run'[r] = x /\ \A q \in Requests : q # r => run'[q] = run[q]
  BY <1>1
<1> QED BY <1>2 DEF S, Others

LEMMA ReceiveSteps ==
  ASSUME RequestAssumption, TypeInv, NEW r \in Requests, NEW text \in QueryTexts[r], NEW broken,
         Receive(r, text, broken)
  PROVE  LET verdicts == RunChain(InputChain, text, broken)
             blocked == Blocked(verdicts)
         IN  /\ TypeInv' /\ Others(r)
             /\ Verdicts(verdicts, QueryMarks)
             /\ ~blocked => Clean(run'[r].query)
             /\ run'[r].stage = IF blocked THEN "over" ELSE "running"
             /\ run'[r].outcome = IF blocked THEN "blocked" ELSE "none"
             /\ run'[r].events = VerdictEvents(r, verdicts)
             /\ run'[r].answer = run[r].answer
             /\ run'[r].demote = run[r].demote /\ run'[r].retrain = run[r].retrain
<1> DEFINE verdicts == RunChain(InputChain, text, broken)
           blocked == Blocked(verdicts)
           query == Last(verdicts).text
           events == VerdictEvents(r, verdicts)
           stage == IF blocked THEN "over" ELSE "running"
           outcome == IF blocked THEN "blocked" ELSE "none"
           x == [run[r] EXCEPT !.query = query, !.events = events, !.stage = stage, !.outcome = outcome]
<1>1. text \in SUBSET QueryMarks
  BY DEF RequestAssumption
<1>2. Verdicts(verdicts, QueryMarks) /\ (~blocked => Clean(query))
  BY <1>1, InputPasses
<1>3. query \in SUBSET QueryMarks /\ events \in Seq(Told)
  <2>1. events \in Seq(Told)
    BY <1>2, VerdictEventsFacts DEF EventsFrom
  <2>2. Last(verdicts) \in VerdictOn(QueryMarks)
    <3> DEFINE V == VerdictOn(QueryMarks)
    <3>1. verdicts \in Seq(V) /\ verdicts # << >>
      BY <1>2 DEF Verdicts
    <3> HIDE DEF V, verdicts
    <3>2. Len(verdicts) \in 1..Len(verdicts)
      BY <3>1, LenProperties, EmptySeq
    <3>3. Last(verdicts) \in V
      BY <3>1, <3>2, ElementOfSeq DEF Last
    <3> QED BY <3>3 DEF V, verdicts
  <2> QED BY <2>1, <2>2 DEF VerdictOn
<1>4. run' = [run EXCEPT ![r].query = query, ![r].events = events, ![r].stage = stage, ![r].outcome = outcome]
  BY DEF Receive
<1>5. stage \in {"over", "running"} /\ outcome \in {"blocked", "none"}
  OBVIOUS
<1> HIDE DEF verdicts, blocked, query, events, stage, outcome
<1>6. run[r] \in Run
  BY DEF TypeInv
<1>7. x \in Run /\ x.query = query /\ x.events = events /\ x.stage = stage /\ x.outcome = outcome
      /\ x.answer = run[r].answer /\ x.demote = run[r].demote /\ x.retrain = run[r].retrain
  BY <1>3, <1>5, <1>6 DEF Run, Stages, Outcome
<1>8. run' = [run EXCEPT ![r] = x]
  BY <1>4
<1>9. run' \in [Requests -> Run] /\ run'[r] = x /\ Others(r)
  BY <1>7, <1>8, Moves
<1>10. TypeInv'
  BY <1>9 DEF TypeInv, Receive
<1>11. TypeInv' /\ Others(r) /\ Verdicts(verdicts, QueryMarks)
       /\ (~blocked => Clean(run'[r].query))
       /\ run'[r].stage = stage /\ run'[r].outcome = outcome /\ run'[r].events = events
       /\ run'[r].answer = run[r].answer
       /\ run'[r].demote = run[r].demote /\ run'[r].retrain = run[r].retrain
  BY <1>2, <1>7, <1>9, <1>10
<1> QED BY <1>11 DEF verdicts, blocked, events, stage, outcome

\* Selecting and drafting are nothing the properties look at.
Alike(q) ==
  /\ run'[q].stage = run[q].stage /\ run'[q].outcome = run[q].outcome
  /\ run'[q].query = run[q].query /\ run'[q].answer = run[q].answer
  /\ run'[q].events = run[q].events
  /\ run'[q].demote = run[q].demote /\ run'[q].retrain = run[q].retrain

LEMMA QuietSteps ==
  ASSUME RequestAssumption, TypeInv, NEW r \in Requests, Select(r) \/ Draft(r)
  PROVE  TypeInv' /\ \A q \in Requests : Alike(q)
<1> DEFINE x == IF Select(r) THEN [run[r] EXCEPT !.selected = Selection(r)]
                ELSE [run[r] EXCEPT !.draft = run[r].selected]
<1>1. run[r] \in Run
  BY DEF TypeInv
<1>2. Selection(r) \in SUBSET Adapters
  BY DEF Selection
<1>3. /\ x \in Run /\ x.stage = run[r].stage /\ x.outcome = run[r].outcome /\ x.query = run[r].query
      /\ x.answer = run[r].answer /\ x.events = run[r].events
      /\ x.demote = run[r].demote /\ x.retrain = run[r].retrain
  <2>1. CASE Select(r)
    BY <1>1, <1>2, <2>1 DEF Run
  <2>2. CASE ~Select(r)
    BY <1>1, <2>2 DEF Run
  <2> QED BY <2>1, <2>2
<1>4. run' = [run EXCEPT ![r] = x]
  <2>1. CASE Select(r)
    BY <2>1 DEF Select
  <2>2. CASE ~Select(r)
    BY <2>2 DEF Draft
  <2> QED BY <2>1, <2>2
<1> HIDE DEF x
<1>5. run' \in [Requests -> Run] /\ run'[r] = x /\ Others(r)
  BY <1>3, <1>4, Moves
<1>6. TypeInv'
  BY <1>5 DEF TypeInv, Select, Draft
<1>7. \A q \in Requests : Alike(q)
  <2>1. ASSUME NEW q \in Requests PROVE Alike(q)
    <3>1. CASE q = r
      BY <1>3, <1>5, <3>1 DEF Alike
    <3>2. CASE q # r
      BY <1>5, <3>2 DEF Alike, Others
    <3> QED BY <3>1, <3>2
  <2> QED BY <2>1
<1> QED BY <1>6, <1>7

\* The two ways a graph ends.
LEMMA AnswerSteps ==
  ASSUME RequestAssumption, TypeInv, NEW r \in Requests, NEW text \in AnswerTexts[r], NEW broken,
         NEW screened, NEW claims \in 0..MaxClaims[r], NEW stands,
         Answer(r, text, screened, claims, stands, broken)
  PROVE  \E told :
           /\ TypeInv' /\ Others(r) /\ EventsFrom(r, told)
           /\ run'[r].stage = "over" /\ run'[r].outcome \in {"blocked", "answer"}
           /\ run'[r].outcome = "answer" => run'[r].answer = {}
           /\ run'[r].outcome = "blocked" =>
                \E i \in 1..Len(told) : told[i].kind \in {"security", "alert"}
           /\ \A i \in 1..Len(told) : told[i].kind = "sampled" => run'[r].outcome = "answer"
           /\ run'[r].events = run[r].events \o told
           /\ run'[r].query = run[r].query
           /\ run'[r].demote = run[r].demote /\ run'[r].retrain = run[r].retrain
<1> DEFINE verdicts == RunChain(OutputChain, text, broken)
           blocked == Blocked(verdicts)
           answer == IF blocked THEN {} ELSE Last(verdicts).text
           a == GraphEvents(r, "answer", screened, claims, stands)
           b == VerdictEvents(r, verdicts)
           c == IF ~blocked /\ r \in Sampled THEN <<Event(r, "sampled", {})>> ELSE << >>
           ab == a \o b
           told == ab \o c
           events == run[r].events \o told
           outcome == IF blocked THEN "blocked" ELSE "answer"
           x == [run[r] EXCEPT !.stage = "over", !.outcome = outcome, !.answer = answer, !.events = events]
<1>1. text \in SUBSET AnswerMarks /\ claims \in Nat
  BY DEF RequestAssumption
<1>2. Verdicts(verdicts, AnswerMarks) /\ (~blocked => answer = {})
  BY <1>1, OutputPasses
<1>3. run[r] \in Run /\ run[r].draft \in SUBSET Adapters /\ run[r].events \in Seq(Told)
  <2>1. run[r] \in Run
    BY DEF TypeInv
  <2> QED BY <2>1 DEF Run
<1>4. EventsFrom(r, a) /\ \A i \in 1..Len(a) : a[i].kind # "sampled"
  <2>1. claims \in Nat /\ run[r].draft \in SUBSET Adapters
    BY <1>1, <1>3
  <2>2. EventsFrom(r, a)
    BY <2>1, GraphEventsFacts
  <2>3. Unsampled(a)
    BY <2>1, GraphEventsFacts
  <2> QED BY <2>2, <2>3 DEF Unsampled
<1>5. /\ EventsFrom(r, b) /\ \A i \in 1..Len(b) : b[i].kind \in {"security", "alert"}
      /\ blocked => Len(b) > 0
  BY <1>2, VerdictEventsFacts
<1>6. EventsFrom(r, c) /\ \A i \in 1..Len(c) : ~blocked
  <2>1. EventsFrom(r, <<Event(r, "sampled", {})>>)
    BY EventFacts DEF Kinds
  <2>2. CASE ~blocked
    BY <2>1, <2>2, NoEvents
  <2>3. CASE blocked
    <3>1. c = << >>
      BY <2>3
    <3> HIDE DEF c, blocked
    <3> QED BY <2>3, <3>1, NoEvents
  <2> QED BY <2>2, <2>3
<1>7. EventsFrom(r, ab) /\ EventsFrom(r, told)
  <2>1. EventsFrom(r, ab)
    BY <1>4, <1>5, ConcatEvents
  <2> HIDE DEF ab, c
  <2> QED BY <1>6, <2>1, ConcatEvents
<1>8. \A i \in 1..Len(told) : told[i].kind = "sampled" => ~blocked
  <2>1. \A i \in 1..Len(ab) : ab[i].kind # "sampled"
    <3> HIDE DEF a, b
    <3>1. \A i \in 1..Len(ab) : (i \in 1..Len(a) /\ ab[i] = a[i]) \/ \E j \in 1..Len(b) : ab[i] = b[j]
      BY <1>4, <1>5, ConcatEvents
    <3> HIDE DEF ab
    <3>2. \A j \in 1..Len(b) : b[j].kind # "sampled"
      BY <1>5
    <3> QED BY <1>4, <3>1, <3>2
  <2> HIDE DEF ab, c, blocked
  <2>2. \A i \in 1..Len(told) : (i \in 1..Len(ab) /\ told[i] = ab[i]) \/ \E j \in 1..Len(c) : told[i] = c[j]
    BY <1>6, <1>7, ConcatEvents
  <2> HIDE DEF told
  <2> QED BY <1>6, <2>1, <2>2
<1>9. blocked => \E i \in 1..Len(told) : told[i].kind \in {"security", "alert"}
  <2> SUFFICES ASSUME blocked PROVE \E i \in 1..Len(told) : told[i].kind \in {"security", "alert"}
    OBVIOUS
  <2> HIDE DEF a, b, c, blocked
  <2>1. Len(ab) = Len(a) + Len(b) /\ Len(a) \in Nat /\ Len(b) \in Nat
        /\ \A i \in 1..Len(b) : ab[Len(a) + i] = b[i]
    BY <1>4, <1>5, ConcatEvents
  <2>2. 1 \in 1..Len(b) /\ b[1].kind \in {"security", "alert"}
    BY <1>5, <2>1
  <2> DEFINE n == Len(a) + 1
  <2>3. n \in 1..Len(ab) /\ ab[n] = b[1]
    BY <2>1, <2>2
  <2> HIDE DEF ab, n
  <2>4. Len(told) = Len(ab) + Len(c) /\ Len(ab) \in Nat /\ Len(c) \in Nat
        /\ \A i \in 1..Len(ab) : told[i] = ab[i]
    BY <1>6, <1>7, ConcatEvents
  <2> HIDE DEF told
  <2>5. n \in 1..Len(told) /\ told[n].kind \in {"security", "alert"}
    BY <2>2, <2>3, <2>4
  <2> QED BY <2>5
<1>10. events \in Seq(Told) /\ run' = [run EXCEPT ![r].stage = "over", ![r].outcome = outcome, ![r].answer = answer,
                                                 ![r].events = events]
  <2> DEFINE S == Told
             e == run[r].events
  <2>1. a \in Seq(S) /\ b \in Seq(S) /\ c \in Seq(S) /\ e \in Seq(S)
    BY <1>3, <1>4, <1>5, <1>6 DEF EventsFrom
  <2>2. ((e \o a) \o b) \o c = e \o ((a \o b) \o c) /\ e \o ((a \o b) \o c) \in Seq(S)
    <3> HIDE DEF a, b, c, e, S
    <3> QED BY <2>1, Regroup
  <2>3. run' = [run EXCEPT ![r].stage = "over", ![r].outcome = outcome, ![r].answer = answer,
                           ![r].events = ((e \o a) \o b) \o c]
    BY DEF Answer
  <2> HIDE DEF a, b, c
  <2> QED BY <2>2, <2>3
<1> HIDE DEF ab, told, events, a, b, c, answer
<1>11. /\ x \in Run /\ x.stage = "over" /\ x.outcome = outcome /\ x.answer = answer /\ x.events = events
       /\ x.query = run[r].query /\ x.demote = run[r].demote /\ x.retrain = run[r].retrain
  <2>1. answer \in SUBSET AnswerMarks
    <3>1. CASE blocked
      BY <3>1 DEF answer
    <3>2. CASE ~blocked
      BY <1>2, <3>2
    <3> QED BY <3>1, <3>2
  <2> QED BY <1>3, <1>10, <2>1 DEF Run, Stages, Outcome
<1>12. run' = [run EXCEPT ![r] = x]
  BY <1>10
<1> HIDE DEF x
<1>13. run' \in [Requests -> Run] /\ run'[r] = x /\ Others(r)
  BY <1>11, <1>12, Moves
<1>14. TypeInv'
  BY <1>13 DEF TypeInv, Answer
<1> QED BY <1>2, <1>7, <1>8, <1>9, <1>11, <1>13, <1>14 DEF events

LEMMA EndOtherwiseSteps ==
  ASSUME RequestAssumption, TypeInv, NEW r \in Requests, NEW ending \in Endings[r],
         NEW screened, NEW claims \in 0..MaxClaims[r],
         EndOtherwise(r, ending, screened, claims)
  PROVE  \E told :
           /\ TypeInv' /\ Others(r) /\ EventsFrom(r, told) /\ Unsampled(told)
           /\ run'[r].stage = IF ending = "crash" THEN "lost" ELSE "over"
           /\ run'[r].outcome = ending /\ ending \in OtherEndings
           /\ ending = "isolation violation" => Alarmed(told)
           /\ run'[r].events = run[r].events \o told
           /\ run'[r].query = run[r].query /\ run'[r].answer = run[r].answer
           /\ run'[r].demote = run[r].demote /\ run'[r].retrain = run[r].retrain
<1> DEFINE told == GraphEvents(r, ending, screened, claims, FALSE)
           events == run[r].events \o told
           stage == IF ending = "crash" THEN "lost" ELSE "over"
           x == [run[r] EXCEPT !.stage = stage, !.outcome = ending, !.events = events]
<1>1. claims \in Nat /\ ending \in OtherEndings
  BY DEF RequestAssumption
<1>2. run[r] \in Run /\ run[r].draft \in SUBSET Adapters /\ run[r].events \in Seq(Told)
  <2>1. run[r] \in Run
    BY DEF TypeInv
  <2> QED BY <2>1 DEF Run
<1>3. EventsFrom(r, told)
  BY <1>1, <1>2, GraphEventsFacts
<1>4. Unsampled(told)
  BY <1>1, <1>2, GraphEventsFacts
<1>5. ending = "isolation violation" => Alarmed(told)
  BY <1>1, <1>2, GraphEventsFacts
<1>6. run' = [run EXCEPT ![r].outcome = ending, ![r].events = events, ![r].stage = stage]
  BY DEF EndOtherwise
<1> HIDE DEF told
<1>7. events \in Seq(Told)
  <2> DEFINE S == Told
  <2>1. told \in Seq(S) /\ run[r].events \in Seq(S)
    BY <1>2, <1>3 DEF EventsFrom
  <2> HIDE DEF S
  <2>2. events \in Seq(S)
    BY <2>1, ConcatProperties
  <2> QED BY <2>2 DEF S
<1>8. stage \in {"lost", "over"}
  OBVIOUS
<1> HIDE DEF events, stage
<1>9. /\ x \in Run /\ x.stage = stage /\ x.outcome = ending /\ x.events = events
      /\ x.answer = run[r].answer /\ x.query = run[r].query
      /\ x.demote = run[r].demote /\ x.retrain = run[r].retrain
  BY <1>1, <1>2, <1>7, <1>8 DEF Run, Stages, Outcome
<1>10. run' = [run EXCEPT ![r] = x]
  BY <1>6
<1> HIDE DEF x
<1>11. run' \in [Requests -> Run] /\ run'[r] = x /\ Others(r)
  BY <1>9, <1>10, Moves
<1>12. TypeInv'
  BY <1>11 DEF TypeInv, EndOtherwise
<1> QED BY <1>1, <1>3, <1>4, <1>5, <1>9, <1>11, <1>12 DEF events, stage

\* What has ended is told to the bus, and the monitor hears it.
LEMMA FinishSteps ==
  ASSUME RequestAssumption, TypeInv, NEW r \in Requests, Finish(r)
  PROVE  LET heard == Heard(monitor, run[r].events)
         IN  /\ TypeInv' /\ Others(r) /\ run[r].stage = "over" /\ run'[r].stage = "deciding"
             /\ run'[r].outcome = run[r].outcome /\ run'[r].query = run[r].query
             /\ run'[r].answer = run[r].answer /\ run'[r].events = run[r].events
             /\ run'[r].demote = heard.demote /\ run'[r].retrain = heard.retrain
             /\ run[r].events \in Seq(Told) /\ heard \in Monitor
             /\ published' = published \o run[r].events
             /\ bus' = Latest(bus \o run[r].events, Capacity)
             /\ monitor'.acted = heard.acted /\ monitor'.outcomes = heard.outcomes
             /\ monitor'.retrain = {} /\ monitor'.demote = {}
<1> DEFINE events == run[r].events
           heard == Heard(monitor, events)
           x == [run[r] EXCEPT !.stage = "deciding", !.retrain = heard.retrain, !.demote = heard.demote]
           m == [heard EXCEPT !.retrain = {}, !.demote = {}]
<1>1. run[r] \in Run /\ events \in Seq(Told)
  <2>1. run[r] \in Run
    BY DEF TypeInv
  <2> QED BY <2>1 DEF Run
<1>2. heard \in Monitor
  BY <1>1, HeardType DEF TypeInv
<1>3. /\ run[r].stage = "over"
      /\ bus' = Latest(bus \o events, Capacity) /\ published' = published \o events
      /\ monitor' = m
      /\ run' = [run EXCEPT ![r].stage = "deciding", ![r].retrain = heard.retrain, ![r].demote = heard.demote]
      /\ UNCHANGED <<status, retrain_queue, turns, demoted>>
  BY DEF Finish, EventsOf
<1>4. published \o events \in Seq(Told) /\ Latest(bus \o events, Capacity) \in Seq(Told)
  <2> DEFINE S == Told
             all == bus \o events
  <2>1. published \in Seq(S) /\ bus \in Seq(S) /\ events \in Seq(S) /\ Capacity \in Nat \ {0}
    BY <1>1 DEF TypeInv, RequestAssumption
  <2> HIDE DEF S, events
  <2>2. published \o events \in Seq(S) /\ all \in Seq(S)
    BY <2>1, ConcatProperties
  <2> HIDE DEF all
  <2>3. Latest(all, Capacity) \in Seq(S)
    BY <2>1, <2>2, LatestFacts
  <2> QED BY <2>2, <2>3 DEF S, all
<1> HIDE DEF heard, events
<1>5. /\ x \in Run /\ x.stage = "deciding" /\ x.outcome = run[r].outcome /\ x.events = run[r].events
      /\ x.answer = run[r].answer /\ x.query = run[r].query
      /\ x.demote = heard.demote /\ x.retrain = heard.retrain
  <2>1. heard.demote \in SUBSET Adapters /\ heard.retrain \in SUBSET Adapters
    BY <1>2 DEF Monitor
  <2> QED BY <1>1, <2>1 DEF Run, Stages
<1>6. /\ m \in Monitor /\ m.acted = heard.acted /\ m.outcomes = heard.outcomes
      /\ m.retrain = {} /\ m.demote = {}
  BY <1>2 DEF Monitor
<1>7. run' = [run EXCEPT ![r] = x]
  BY <1>3
<1> HIDE DEF x, m
<1>8. run' \in [Requests -> Run] /\ run'[r] = x /\ Others(r)
  BY <1>5, <1>7, Moves
<1>9. TypeInv'
  BY <1>3, <1>4, <1>6, <1>8 DEF TypeInv
<1> QED BY <1>1, <1>2, <1>3, <1>5, <1>6, <1>8, <1>9 DEF heard, events

\* The least of the adapters to demote is one of them.
LEMMA LeastAdapter ==
  ASSUME RequestAssumption, NEW S \in SUBSET Adapters, S # {}
  PROVE  Min(S) \in S
<1>1. Adapters \subseteq Nat
  <2>1. Cardinality(Adapters) \in Nat
    BY FS_CardinalityType DEF RequestAssumption
  <2> QED BY <2>1 DEF RequestAssumption
<1>2. \E m \in S : \A n \in S : m <= n
  BY <1>1, LeastNumber
<1> QED BY <1>2 DEF Min

LEMMA DemoteSteps ==
  ASSUME RequestAssumption, TypeInv, NEW r \in Requests, Demote(r)
  PROVE  /\ TypeInv' /\ Others(r) /\ run[r].stage = "deciding" /\ run'[r].stage = "deciding"
         /\ run'[r].outcome = run[r].outcome /\ run'[r].query = run[r].query
         /\ run'[r].answer = run[r].answer /\ run'[r].events = run[r].events
         /\ run'[r].retrain = run[r].retrain
         /\ \E a \in run[r].demote : run'[r].demote = run[r].demote \ {a} /\ demoted' = demoted \cup {a}
<1> DEFINE a == Min(run[r].demote)
           x == [run[r] EXCEPT !.demote = run[r].demote \ {a}]
<1>1. run[r] \in Run /\ run[r].demote \in SUBSET Adapters
  <2>1. run[r] \in Run
    BY DEF TypeInv
  <2> QED BY <2>1 DEF Run
<1>2. a \in run[r].demote /\ a \in Adapters
  <2>1. run[r].demote # {}
    BY DEF Demote
  <2> QED BY <1>1, <2>1, LeastAdapter
<1>3. /\ run[r].stage = "deciding"
      /\ status' = [status EXCEPT ![a] = "deprecated"] /\ demoted' = demoted \cup {a}
      /\ run' = [run EXCEPT ![r].demote = run[r].demote \ {a}]
      /\ UNCHANGED <<bus, monitor, retrain_queue, turns, published>>
  BY DEF Demote
<1> HIDE DEF a
<1>4. /\ x \in Run /\ x.stage = run[r].stage /\ x.outcome = run[r].outcome /\ x.events = run[r].events
      /\ x.answer = run[r].answer /\ x.query = run[r].query
      /\ x.demote = run[r].demote \ {a} /\ x.retrain = run[r].retrain
  BY <1>1 DEF Run
<1>5. run' = [run EXCEPT ![r] = x]
  BY <1>3
<1> HIDE DEF x
<1>6. run' \in [Requests -> Run] /\ run'[r] = x /\ Others(r)
  BY <1>4, <1>5, Moves
<1>7. TypeInv'
  BY <1>2, <1>3, <1>6 DEF TypeInv
<1> QED BY <1>2, <1>3, <1>4, <1>6, <1>7

\* A request's question, and its answer, are remembered as one turn more.
Question(r) == [session |-> Session[r], request |-> r, said |-> "question", text |-> run[r].query]
Reply(r) == [session |-> Session[r], request |-> r, said |-> "answer", text |-> run[r].answer]

LEMMA QueueSteps ==
  ASSUME RequestAssumption, TypeInv, NEW r \in Requests, QueueRetraining(r)
  PROVE  LET passed == run[r].outcome \in {"answer", "abstention"}
         IN  /\ TypeInv' /\ Others(r) /\ run[r].stage = "deciding" /\ run[r].demote = {}
             /\ run'[r].stage = IF passed THEN "remembering" ELSE "done"
             /\ run'[r].outcome = run[r].outcome /\ run'[r].query = run[r].query
             /\ run'[r].answer = run[r].answer /\ run'[r].events = run[r].events
             /\ run'[r].retrain = {} /\ run'[r].demote = {}
             /\ turns' = IF passed THEN Append(turns, Question(r)) ELSE turns
             /\ Question(r) \in Turn
             /\ ToSet(retrain_queue') = ToSet(retrain_queue) \cup run[r].retrain
<1> DEFINE passed == run[r].outcome \in {"answer", "abstention"}
           stage == IF passed THEN "remembering" ELSE "done"
           x == [run[r] EXCEPT !.retrain = {}, !.stage = stage]
           all == [a \in Adapters |-> a]
           K == run[r].retrain \ ToSet(retrain_queue)
           added == Picked(all, K)
           n == Cardinality(Adapters)
<1>1. run[r] \in Run /\ run[r].retrain \in SUBSET Adapters
  <2>1. run[r] \in Run
    BY DEF TypeInv
  <2> QED BY <2>1 DEF Run
<1>2. /\ run[r].stage = "deciding" /\ run[r].demote = {}
      /\ retrain_queue' = retrain_queue \o added
      /\ run' = [run EXCEPT ![r].retrain = {}, ![r].stage = stage]
      /\ turns' = IF passed THEN Append(turns, Question(r)) ELSE turns
      /\ UNCHANGED <<status, bus, monitor, published, demoted>>
  BY DEF QueueRetraining, Remembered, Question
<1>3. Question(r) \in Turn
  BY <1>1 DEF Turn, Question, Run
<1>4. n \in Nat /\ Adapters = 1..n
  BY FS_CardinalityType DEF RequestAssumption
<1>5. all \in Seq(Adapters) /\ Len(all) = n /\ \A a \in Adapters : all[a] = a
  BY <1>4
<1> HIDE DEF all, n, K
<1>6. added \in Seq(Adapters) /\ \E at : Locates(at, added, all, K \cap (1..n))
  BY <1>5, PickedLocates
<1>7. ToSet(added) = K
  <2>1. K \subseteq 1..n
    BY <1>1, <1>4 DEF K
  <2>2. PICK at : Locates(at, added, all, K \cap (1..n))
    BY <1>6
  <2>3. Len(added) \in Nat /\ DOMAIN added = 1..Len(added)
    BY <1>6, LenProperties
  <2> HIDE DEF added
  <2>4. \A j \in 1..Len(added) : added[j] \in K
    <3> TAKE j \in 1..Len(added)
    <3>1. at[j] \in K \cap (1..n) /\ added[j] = all[at[j]]
      BY <2>2 DEF Locates
    <3> QED BY <1>4, <1>5, <3>1
  <2>5. \A a \in K : \E j \in 1..Len(added) : added[j] = a
    <3> TAKE a \in K
    <3>1. PICK j \in 1..Len(added) : at[j] = a
      BY <2>1, <2>2 DEF Locates
    <3>2. added[j] = all[a]
      BY <2>2, <3>1 DEF Locates
    <3> QED BY <1>4, <1>5, <2>1, <3>1, <3>2
  <2>6. ToSet(added) = {added[j] : j \in 1..Len(added)}
    BY <2>3 DEF ToSet
  <2> QED BY <2>4, <2>5, <2>6
<1> HIDE DEF added
<1>8. /\ retrain_queue' \in Seq(Adapters)
      /\ ToSet(retrain_queue') = ToSet(retrain_queue) \cup ToSet(added)
  <2> DEFINE S == Adapters
  <2>1. retrain_queue \in Seq(S) /\ added \in Seq(S)
    BY <1>6 DEF TypeInv
  <2> HIDE DEF S
  <2> DEFINE q == retrain_queue
             both == q \o added
  <2> HIDE DEF q
  <2>2. q \in Seq(S)
    BY <2>1 DEF q
  <2>3. /\ both \in Seq(S) /\ Len(both) = Len(q) + Len(added)
        /\ Len(q) \in Nat /\ Len(added) \in Nat
        /\ \A i \in 1..Len(q) : both[i] = q[i]
        /\ \A i \in 1..Len(added) : both[Len(q) + i] = added[i]
    BY <2>1, <2>2, ConcatElements
  <2>4. DOMAIN both = 1..Len(both) /\ DOMAIN q = 1..Len(q) /\ DOMAIN added = 1..Len(added)
    BY <2>1, <2>2, <2>3, LenProperties
  <2> DEFINE nq == Len(q)
             na == Len(added)
  <2> HIDE DEF both, nq, na
  <2>5. /\ DOMAIN both = 1..(nq + na) /\ DOMAIN q = 1..nq /\ DOMAIN added = 1..na
        /\ nq \in Nat /\ na \in Nat
        /\ \A i \in 1..nq : both[i] = q[i]
        /\ \A i \in 1..na : both[nq + i] = added[i]
    BY <2>3, <2>4 DEF nq, na
  <2>6. \A i \in 1..(nq + na) : i \in 1..nq \/ (i - nq \in 1..na /\ nq + (i - nq) = i)
    BY <2>5
  <2>7. \A i \in 1..nq : i \in 1..(nq + na)
    BY <2>5
  <2>8. \A i \in 1..na : nq + i \in 1..(nq + na)
    BY <2>5
  <2>9. ToSet(both) \subseteq ToSet(q) \cup ToSet(added)
    <3> SUFFICES ASSUME NEW i \in 1..(nq + na) PROVE both[i] \in ToSet(q) \cup ToSet(added)
      BY <2>5 DEF ToSet
    <3>1. CASE i \in 1..nq
      BY <2>5, <3>1 DEF ToSet
    <3>2. CASE i \notin 1..nq
      <4>1. i - nq \in 1..na /\ nq + (i - nq) = i
        BY <2>6, <3>2
      <4>2. both[nq + (i - nq)] = added[i - nq]
        BY <2>5, <4>1
      <4> QED BY <2>5, <4>1, <4>2 DEF ToSet
    <3> QED BY <3>1, <3>2
  <2>10. ToSet(q) \subseteq ToSet(both)
    BY <2>5, <2>7 DEF ToSet
  <2>11. ToSet(added) \subseteq ToSet(both)
    <3> SUFFICES ASSUME NEW i \in 1..na PROVE added[i] \in ToSet(both)
      BY <2>5 DEF ToSet
    <3> QED BY <2>5, <2>8 DEF ToSet
  <2>12. retrain_queue' = both
    BY <1>2 DEF both, q
  <2>13. ToSet(both) = ToSet(q) \cup ToSet(added)
    BY <2>9, <2>10, <2>11
  <2> QED BY <2>3, <2>12, <2>13 DEF S, q
<1>9. ToSet(retrain_queue') = ToSet(retrain_queue) \cup run[r].retrain
  BY <1>7, <1>8 DEF K
<1>10. stage \in {"remembering", "done"}
  OBVIOUS
<1> HIDE DEF passed, stage
<1>11. /\ x \in Run /\ x.stage = stage /\ x.outcome = run[r].outcome /\ x.events = run[r].events
       /\ x.answer = run[r].answer /\ x.query = run[r].query
       /\ x.demote = run[r].demote /\ x.retrain = {}
  BY <1>1, <1>10 DEF Run, Stages
<1>12. run' = [run EXCEPT ![r] = x]
  BY <1>2
<1> HIDE DEF x
<1>13. run' \in [Requests -> Run] /\ run'[r] = x /\ Others(r)
  BY <1>11, <1>12, Moves
<1>14. turns' \in Seq(Turn)
  <2> DEFINE S == Turn
  <2>1. turns \in Seq(S) /\ Question(r) \in S
    BY <1>3 DEF TypeInv
  <2> HIDE DEF S
  <2>2. turns' \in Seq(S)
    BY <1>2, <2>1, AppendProperties
  <2> QED BY <2>2 DEF S
<1>15. TypeInv'
  BY <1>2, <1>8, <1>13, <1>14 DEF TypeInv
<1> QED BY <1>2, <1>3, <1>9, <1>11, <1>13, <1>15 DEF passed, stage

LEMMA RememberSteps ==
  ASSUME RequestAssumption, TypeInv, NEW r \in Requests, RememberAnswer(r)
  PROVE  /\ TypeInv' /\ Others(r) /\ run[r].stage = "remembering" /\ run'[r].stage = "done"
         /\ run'[r].outcome = run[r].outcome /\ run'[r].query = run[r].query
         /\ run'[r].answer = run[r].answer /\ run'[r].events = run[r].events
         /\ run'[r].demote = run[r].demote /\ run'[r].retrain = run[r].retrain
         /\ turns' = IF run[r].outcome = "answer" THEN Append(turns, Reply(r)) ELSE turns
         /\ Reply(r) \in Turn
<1> DEFINE x == [run[r] EXCEPT !.stage = "done"]
<1>1. run[r] \in Run
  BY DEF TypeInv
<1>2. /\ run[r].stage = "remembering" /\ run' = [run EXCEPT ![r].stage = "done"]
      /\ turns' = IF run[r].outcome = "answer" THEN Append(turns, Reply(r)) ELSE turns
      /\ UNCHANGED <<status, bus, monitor, retrain_queue, published, demoted>>
  BY DEF RememberAnswer, Reply
<1>3. Reply(r) \in Turn
  BY <1>1 DEF Turn, Reply, Run
<1>4. /\ x \in Run /\ x.stage = "done" /\ x.outcome = run[r].outcome /\ x.events = run[r].events
      /\ x.answer = run[r].answer /\ x.query = run[r].query
      /\ x.demote = run[r].demote /\ x.retrain = run[r].retrain
  BY <1>1 DEF Run, Stages
<1>5. run' = [run EXCEPT ![r] = x]
  BY <1>2
<1> HIDE DEF x
<1>6. run' \in [Requests -> Run] /\ run'[r] = x /\ Others(r)
  BY <1>4, <1>5, Moves
<1>7. turns' \in Seq(Turn)
  <2> DEFINE S == Turn
  <2>1. turns \in Seq(S) /\ Reply(r) \in S
    BY <1>3 DEF TypeInv
  <2> HIDE DEF S
  <2>2. turns' \in Seq(S)
    BY <1>2, <2>1, AppendProperties
  <2> QED BY <2>2 DEF S
<1>8. TypeInv'
  BY <1>2, <1>6, <1>7 DEF TypeInv
<1> QED BY <1>2, <1>3, <1>4, <1>6, <1>8

\* Making a version active again, and nothing at all, change no request.
LEMMA IdleSteps ==
  ASSUME TypeInv, (\E a \in Adapters : Activate(a)) \/ UNCHANGED requestVars
  PROVE  /\ TypeInv' /\ \A q \in Requests : Alike(q)
         /\ UNCHANGED <<run, bus, monitor, retrain_queue, turns, published, demoted>>
<1>1. CASE UNCHANGED requestVars
  BY <1>1 DEF requestVars, TypeInv, Alike
<1>2. CASE \E a \in Adapters : Activate(a)
  <2>1. PICK a \in Adapters : Activate(a)
    BY <1>2
  <2>2. status' \in [Adapters -> {"active", "deprecated"}]
    BY <2>1 DEF Activate, TypeInv
  <2>3. UNCHANGED <<run, bus, monitor, retrain_queue, turns, published, demoted>>
    BY <2>1 DEF Activate
  <2> QED BY <2>2, <2>3 DEF TypeInv, Alike
<1> QED BY <1>1, <1>2

-----------------------------------------------------------------------------
(* What session memory holds. *)

Over == {"remembering", "done"}

\* A request that passed its guards is clean, and has ended before it is told.
RunOK(q) ==
  /\ q.stage \in {"new", "running"} => q.outcome = "none"
  /\ q.stage # "new" /\ q.outcome # "blocked" => Clean(q.query)
  /\ q.outcome = "answer" => q.answer = {}

RunInv == \A r \in Requests : RunOK(run[r])

TurnOK(i) ==
  LET turn == turns[i]
      r == turn.request
  IN  /\ run[r].stage \in Over /\ run[r].outcome \in {"answer", "abstention"}
      /\ turn.said = "question" => Clean(turn.text)
      /\ turn.said = "answer" =>
           /\ run[r].stage = "done" /\ run[r].outcome = "answer" /\ turn.text = {}
           /\ \E j \in 1..(i - 1) : turns[j].request = r /\ turns[j].said = "question"

Said(r, what) == \E i \in 1..Len(turns) : turns[i].request = r /\ turns[i].said = what

TurnInv ==
  /\ \A i \in 1..Len(turns) : TurnOK(i)
  /\ \A i, j \in 1..Len(turns) :
       turns[i].request = turns[j].request /\ turns[i].said = turns[j].said => i = j
  /\ \A r \in Requests : run[r].stage = "remembering" => Said(r, "question")
  /\ \A r \in Requests : run[r].stage = "done" /\ run[r].outcome = "answer" => Said(r, "answer")

LEMMA TurnTypes ==
  ASSUME TypeInv
  PROVE  /\ Len(turns) \in Nat /\ DOMAIN turns = 1..Len(turns)
         /\ \A i \in 1..Len(turns) : turns[i].request \in Requests /\ turns[i].said \in {"question", "answer"}
<1> DEFINE S == Turn
<1>1. turns \in Seq(S)
  BY DEF TypeInv
<1> HIDE DEF S
<1>2. Len(turns) \in Nat /\ DOMAIN turns = 1..Len(turns) /\ \A i \in 1..Len(turns) : turns[i] \in S
  BY <1>1, LenProperties, ElementOfSeq
<1> QED BY <1>2 DEF S, Turn

\* The invariant says what is promised.
LEMMA TurnsPass ==
  ASSUME TypeInv, TurnInv
  PROVE  MemoryHoldsWhatPassed
<1> USE TurnTypes
<1>1. ASSUME NEW i \in DOMAIN turns
      PROVE  LET turn == turns[i]
             IN  /\ run[turn.request].outcome \notin {"blocked", "isolation violation", "error", "crash"}
                 /\ turn.said = "question" => Clean(turn.text)
                 /\ turn.said = "answer" =>
                      /\ turn.text = {}
                      /\ \E j \in 1..(i - 1) : turns[j].request = turn.request /\ turns[j].said = "question"
                 /\ \A j \in DOMAIN turns \ {i} :
                      turns[j].request # turn.request \/ turns[j].said # turn.said
  BY <1>1 DEF TurnInv, TurnOK
<1>2. ASSUME NEW r \in Requests, run[r].stage = "done", run[r].outcome = "answer"
      PROVE  \E i \in DOMAIN turns : turns[i].request = r /\ turns[i].said = "answer"
  BY <1>2 DEF TurnInv, Said
<1> QED BY <1>1, <1>2 DEF MemoryHoldsWhatPassed, Clean

\* A step of a request that memory holds nothing of, and is not told either.
LEMMA TurnsStand ==
  ASSUME TypeInv, TurnInv, NEW r \in Requests, Others(r), turns' = turns,
         run[r].stage \notin Over, run'[r].stage # "remembering",
         run'[r].stage = "done" => run'[r].outcome # "answer"
  PROVE  TurnInv'
<1>1. \A i \in 1..Len(turns) : turns[i].request # r /\ run'[turns[i].request] = run[turns[i].request]
  BY TurnTypes DEF TurnInv, TurnOK, Others
<1>2. \A i \in 1..Len(turns) : TurnOK(i)'
  BY <1>1 DEF TurnInv, TurnOK
<1>3. ASSUME NEW q \in Requests
      PROVE  /\ run'[q].stage = "remembering" => Said(q, "question")
             /\ run'[q].stage = "done" /\ run'[q].outcome = "answer" => Said(q, "answer")
  <2>1. CASE q = r
    BY <2>1
  <2>2. CASE q # r
    BY <2>2 DEF Others, TurnInv
  <2> QED BY <2>1, <2>2
<1>4. \A q, what : Said(q, what)' <=> Said(q, what)
  BY DEF Said
<1> QED BY <1>2, <1>3, <1>4 DEF TurnInv

LEMMA TurnsAlike ==
  ASSUME TypeInv, TurnInv, \A q \in Requests : Alike(q), turns' = turns
  PROVE  TurnInv'
<1>1. \A i \in 1..Len(turns) : TurnOK(i)'
  BY TurnTypes DEF TurnInv, TurnOK, Alike
<1>2. \A q, what : Said(q, what)' <=> Said(q, what)
  BY DEF Said
<1> QED BY <1>1, <1>2 DEF TurnInv, Alike

\* One turn more.
LEMMA OneTurnMore ==
  ASSUME TypeInv, NEW turn \in Turn, turns' = Append(turns, turn)
  PROVE  /\ Len(turns') = Len(turns) + 1 /\ turns'[Len(turns) + 1] = turn
         /\ \A i \in 1..Len(turns) : turns'[i] = turns[i]
         /\ \A i \in 1..Len(turns') : i \in 1..Len(turns) \/ i = Len(turns) + 1
<1> DEFINE S == Turn
<1>1. turns \in Seq(S) /\ turn \in S
  BY DEF TypeInv
<1> HIDE DEF S
<1>2. /\ Len(turns') = Len(turns) + 1 /\ turns'[Len(turns) + 1] = turn
      /\ \A i \in 1..Len(turns) : turns'[i] = turns[i]
  BY <1>1, AppendProperties
<1> QED BY <1>2, TurnTypes

LEMMA QuestionKept ==
  ASSUME TypeInv, TurnInv, RunInv, NEW r \in Requests, Others(r), run[r].stage \notin Over,
         run'[r].stage = "remembering", run'[r].outcome = run[r].outcome,
         run[r].outcome \in {"answer", "abstention"}, run[r].stage # "new",
         Question(r) \in Turn, turns' = Append(turns, Question(r))
  PROVE  TurnInv'
<1> DEFINE n == Len(turns)
<1>1. /\ n \in Nat /\ Len(turns') = n + 1 /\ turns'[n + 1] = Question(r)
      /\ \A i \in 1..n : turns'[i] = turns[i]
      /\ \A i \in 1..Len(turns') : i \in 1..n \/ i = n + 1
      /\ \A i \in 1..n : turns[i].request \in Requests
  BY OneTurnMore, TurnTypes
<1>2. /\ Question(r).request = r /\ Question(r).said = "question" /\ Question(r).text = run[r].query
      /\ Clean(run[r].query)
  BY DEF Question, RunInv, RunOK
<1>3. \A i \in 1..n : turns[i].request # r /\ run'[turns[i].request] = run[turns[i].request]
  BY <1>1 DEF TurnInv, TurnOK, Others
<1>4. /\ \A i \in 1..n : TurnOK(i)
      /\ \A i, j \in 1..n :
           turns[i].request = turns[j].request /\ turns[i].said = turns[j].said => i = j
      /\ \A q \in Requests : run[q].stage = "remembering" =>
           \E i \in 1..n : turns[i].request = q /\ turns[i].said = "question"
      /\ \A q \in Requests : run[q].stage = "done" /\ run[q].outcome = "answer" =>
           \E i \in 1..n : turns[i].request = q /\ turns[i].said = "answer"
  BY DEF TurnInv, Said
<1> HIDE DEF n
<1>5. \A i \in 1..n : i \in 1..(n + 1) /\ \A j \in 1..(i - 1) : j \in 1..n
  BY <1>1
<1>6. n + 1 \in 1..(n + 1)
  BY <1>1
<1>7. ASSUME NEW i \in 1..(n + 1) PROVE TurnOK(i)'
  <2>1. CASE i \in 1..n
    <3>1. turns'[i] = turns[i] /\ TurnOK(i) /\ run'[turns[i].request] = run[turns[i].request]
          /\ \A j \in 1..(i - 1) : turns'[j] = turns[j]
      BY <1>1, <1>3, <1>4, <1>5, <2>1
    <3> QED BY <3>1 DEF TurnOK
  <2>2. CASE i = n + 1
    BY <1>1, <1>2, <2>2 DEF TurnOK, Over
  <2> QED BY <1>1, <2>1, <2>2
<1>8. ASSUME NEW i \in 1..(n + 1), NEW j \in 1..(n + 1),
             turns'[i].request = turns'[j].request, turns'[i].said = turns'[j].said
      PROVE  i = j
  BY <1>1, <1>2, <1>3, <1>4, <1>8
<1>9. ASSUME NEW q \in Requests
      PROVE  /\ run'[q].stage = "remembering" => Said(q, "question")'
             /\ run'[q].stage = "done" /\ run'[q].outcome = "answer" => Said(q, "answer")'
  <2>1. CASE q = r
    BY <1>1, <1>2, <1>6, <2>1 DEF Said
  <2>2. CASE q # r
    <3>1. run'[q] = run[q]
      BY <2>2 DEF Others
    <3>2. \A i \in 1..n : i \in 1..Len(turns') /\ turns'[i] = turns[i]
      BY <1>1, <1>5
    <3> QED BY <1>4, <3>1, <3>2 DEF Said
  <2> QED BY <2>1, <2>2
<1> QED BY <1>1, <1>7, <1>8, <1>9 DEF TurnInv

LEMMA ReplyKept ==
  ASSUME TypeInv, TurnInv, RunInv, NEW r \in Requests, Others(r), run[r].stage = "remembering",
         run'[r].stage = "done", run'[r].outcome = run[r].outcome, run[r].outcome = "answer",
         Reply(r) \in Turn, turns' = Append(turns, Reply(r))
  PROVE  TurnInv'
<1> DEFINE n == Len(turns)
<1>1. /\ n \in Nat /\ Len(turns') = n + 1 /\ turns'[n + 1] = Reply(r)
      /\ \A i \in 1..n : turns'[i] = turns[i]
      /\ \A i \in 1..Len(turns') : i \in 1..n \/ i = n + 1
      /\ \A i \in 1..n : turns[i].request \in Requests
  BY OneTurnMore, TurnTypes
<1>2. /\ Reply(r).request = r /\ Reply(r).said = "answer" /\ Reply(r).text = {}
  BY DEF Reply, RunInv, RunOK
<1>3. /\ \A i \in 1..n : TurnOK(i)
      /\ \A i, j \in 1..n :
           turns[i].request = turns[j].request /\ turns[i].said = turns[j].said => i = j
      /\ \A q \in Requests : run[q].stage = "remembering" =>
           \E i \in 1..n : turns[i].request = q /\ turns[i].said = "question"
      /\ \A q \in Requests : run[q].stage = "done" /\ run[q].outcome = "answer" =>
           \E i \in 1..n : turns[i].request = q /\ turns[i].said = "answer"
  BY DEF TurnInv, Said
<1>4. \A i \in 1..n : turns[i].request = r => turns[i].said # "answer"
  BY <1>3 DEF TurnOK
<1>5. PICK k \in 1..n : turns[k].request = r /\ turns[k].said = "question"
  BY <1>3
<1> HIDE DEF n
<1>6. \A i \in 1..n : i \in 1..(n + 1) /\ \A j \in 1..(i - 1) : j \in 1..n
  BY <1>1
<1>7. n + 1 \in 1..(n + 1) /\ k \in 1..((n + 1) - 1)
  BY <1>1
<1>8. ASSUME NEW i \in 1..(n + 1) PROVE TurnOK(i)'
  <2>1. CASE i \in 1..n
    <3>1. turns'[i] = turns[i] /\ TurnOK(i) /\ \A j \in 1..(i - 1) : turns'[j] = turns[j]
      BY <1>1, <1>3, <1>6, <2>1
    <3>2. CASE turns[i].request = r
      <4>1. turns[i].said # "answer"
        BY <1>4, <2>1, <3>2
      <4> QED BY <3>1, <3>2, <4>1 DEF TurnOK, Over
    <3>3. CASE turns[i].request # r
      <4>1. run'[turns[i].request] = run[turns[i].request]
        BY <1>1, <2>1, <3>3 DEF Others
      <4> QED BY <3>1, <4>1 DEF TurnOK
    <3> QED BY <3>2, <3>3
  <2>2. CASE i = n + 1
    <3>1. turns'[k].request = r /\ turns'[k].said = "question"
      BY <1>1, <1>5
    <3>2. run'[r].stage \in Over /\ run'[r].outcome \in {"answer", "abstention"}
          /\ run'[r].stage = "done" /\ run'[r].outcome = "answer"
      BY DEF Over
    <3>3. \E j \in 1..(i - 1) : turns'[j].request = r /\ turns'[j].said = "question"
      BY <1>7, <2>2, <3>1
    <3> QED BY <1>1, <1>2, <2>2, <3>2, <3>3 DEF TurnOK
  <2> QED BY <1>1, <2>1, <2>2
<1>9. ASSUME NEW i \in 1..(n + 1), NEW j \in 1..(n + 1),
             turns'[i].request = turns'[j].request, turns'[i].said = turns'[j].said
      PROVE  i = j
  BY <1>1, <1>2, <1>3, <1>4, <1>9
<1>10. ASSUME NEW q \in Requests
       PROVE  /\ run'[q].stage = "remembering" => Said(q, "question")'
              /\ run'[q].stage = "done" /\ run'[q].outcome = "answer" => Said(q, "answer")'
  <2>1. CASE q = r
    BY <1>1, <1>2, <1>7, <2>1 DEF Said
  <2>2. CASE q # r
    <3>1. run'[q] = run[q]
      BY <2>2 DEF Others
    <3>2. \A i \in 1..n : i \in 1..Len(turns') /\ turns'[i] = turns[i]
      BY <1>1, <1>6
    <3> QED BY <1>3, <3>1, <3>2 DEF Said
  <2> QED BY <2>1, <2>2
<1> QED BY <1>1, <1>8, <1>9, <1>10 DEF TurnInv

\* A turn that was refused in the end has only its question.
LEMMA NoReply ==
  ASSUME TypeInv, TurnInv, NEW r \in Requests, Others(r), run[r].stage = "remembering",
         run'[r].stage = "done", run'[r].outcome = run[r].outcome, run[r].outcome # "answer",
         turns' = turns
  PROVE  TurnInv'
<1>1. ASSUME NEW i \in 1..Len(turns) PROVE TurnOK(i)'
  <2>1. TurnOK(i)
    BY DEF TurnInv
  <2>2. CASE turns[i].request = r
    BY <2>1, <2>2 DEF TurnOK, Over
  <2>3. CASE turns[i].request # r
    <3>1. run'[turns[i].request] = run[turns[i].request]
      BY <2>3, TurnTypes DEF Others
    <3> QED BY <2>1, <3>1 DEF TurnOK
  <2> QED BY <2>2, <2>3
<1>2. ASSUME NEW q \in Requests
      PROVE  /\ run'[q].stage = "remembering" => Said(q, "question")
             /\ run'[q].stage = "done" /\ run'[q].outcome = "answer" => Said(q, "answer")
  <2>1. CASE q = r
    BY <2>1
  <2>2. CASE q # r
    BY <2>2 DEF Others, TurnInv
  <2> QED BY <2>1, <2>2
<1>3. \A q, what : Said(q, what)' <=> Said(q, what)
  BY DEF Said
<1> QED BY <1>1, <1>2, <1>3 DEF TurnInv

LEMMA RunsStand ==
  ASSUME RunInv, NEW r \in Requests, Others(r), RunOK(run'[r])
  PROVE  RunInv'
BY DEF RunInv, Others

LEMMA RunsAlike ==
  ASSUME RunInv, \A q \in Requests : Alike(q)
  PROVE  RunInv'
BY DEF RunInv, RunOK, Alike

MemoryInv == TypeInv /\ RunInv /\ TurnInv

LEMMA MemoryStart ==
  ASSUME RequestAssumption, RequestInit
  PROVE  MemoryInv
<1>1. NewRun \in Run
  BY DEF NewRun, Run, Stages, Outcome
<1>2. \A r \in Requests : run[r] = NewRun
  BY DEF RequestInit
<1>3. TypeInv
  <2>1. run \in [Requests -> Run]
    <3> HIDE DEF NewRun, Run
    <3> QED BY <1>1 DEF RequestInit
  <2>2. monitor \in Monitor
    BY DEF RequestInit, Monitor
  <2>3. bus \in Seq(Told) /\ published \in Seq(Told) /\ turns \in Seq(Turn) /\ retrain_queue \in Seq(Adapters)
    BY DEF RequestInit
  <2> QED BY <2>1, <2>2, <2>3 DEF RequestInit, TypeInv
<1>4. RunInv
  BY <1>2 DEF RunInv, RunOK, NewRun
<1>5. TurnInv
  <2>1. Len(turns) = 0
    BY DEF RequestInit
  <2>2. 1..Len(turns) = {}
    BY <2>1
  <2> QED BY <1>2, <2>2 DEF TurnInv, NewRun
<1> QED BY <1>3, <1>4, <1>5 DEF MemoryInv

LEMMA MemoryStep ==
  ASSUME RequestAssumption, MemoryInv, [RequestNext]_requestVars
  PROVE  MemoryInv'
<1> USE DEF MemoryInv
<1>1. ASSUME NEW r \in Requests, NEW text \in QueryTexts[r], NEW broken, Receive(r, text, broken)
      PROVE  MemoryInv'
  <2> DEFINE blocked == Blocked(RunChain(InputChain, text, broken))
  <2>1. /\ TypeInv' /\ Others(r)
        /\ run'[r].stage = IF blocked THEN "over" ELSE "running"
        /\ run'[r].outcome = IF blocked THEN "blocked" ELSE "none"
        /\ ~blocked => Clean(run'[r].query)
    BY <1>1, ReceiveSteps
  <2> HIDE DEF blocked
  <2>2. RunOK(run'[r])
    BY <2>1 DEF RunOK
  <2>3. run[r].stage = "new" /\ turns' = turns
    BY <1>1 DEF Receive
  <2>4. TurnInv'
    BY <2>1, <2>3, TurnsStand DEF Over
  <2> QED BY <2>1, <2>2, <2>4, RunsStand
<1>2. ASSUME NEW r \in Requests, Select(r) \/ Draft(r)
      PROVE  MemoryInv'
  <2>1. TypeInv' /\ \A q \in Requests : Alike(q)
    BY <1>2, QuietSteps
  <2>2. turns' = turns
    BY <1>2 DEF Select, Draft
  <2> QED BY <2>1, <2>2, TurnsAlike, RunsAlike
<1>3. ASSUME NEW r \in Requests, NEW text \in AnswerTexts[r], NEW broken, NEW screened,
             NEW claims \in 0..MaxClaims[r], NEW stands,
             Answer(r, text, screened, claims, stands, broken)
      PROVE  MemoryInv'
  <2>1. /\ TypeInv' /\ Others(r)
        /\ run'[r].stage = "over" /\ run'[r].outcome \in {"blocked", "answer"}
        /\ run'[r].outcome = "answer" => run'[r].answer = {}
        /\ run'[r].query = run[r].query
    BY <1>3, AnswerSteps
  <2>2. run[r].stage = "running" /\ turns' = turns
    BY <1>3 DEF Answer
  <2>3. RunOK(run'[r])
    BY <2>1, <2>2 DEF RunOK, RunInv
  <2>4. TurnInv'
    BY <2>1, <2>2, TurnsStand DEF Over
  <2> QED BY <2>1, <2>3, <2>4, RunsStand
<1>4. ASSUME NEW r \in Requests, NEW ending \in Endings[r], NEW screened,
             NEW claims \in 0..MaxClaims[r], EndOtherwise(r, ending, screened, claims)
      PROVE  MemoryInv'
  <2>1. /\ TypeInv' /\ Others(r)
        /\ run'[r].stage = IF ending = "crash" THEN "lost" ELSE "over"
        /\ run'[r].outcome = ending /\ ending \in OtherEndings
        /\ run'[r].query = run[r].query /\ run'[r].answer = run[r].answer
    BY <1>4, EndOtherwiseSteps
  <2>2. run[r].stage = "running" /\ turns' = turns
    BY <1>4 DEF EndOtherwise
  <2>3. RunOK(run'[r])
    BY <2>1, <2>2 DEF RunOK, RunInv, OtherEndings
  <2>4. TurnInv'
    BY <2>1, <2>2, TurnsStand DEF Over
  <2> QED BY <2>1, <2>3, <2>4, RunsStand
<1>5. ASSUME NEW r \in Requests, Finish(r)
      PROVE  MemoryInv'
  <2>1. /\ TypeInv' /\ Others(r) /\ run[r].stage = "over" /\ run'[r].stage = "deciding"
        /\ run'[r].outcome = run[r].outcome /\ run'[r].query = run[r].query
        /\ run'[r].answer = run[r].answer
    BY <1>5, FinishSteps
  <2>2. turns' = turns
    BY <1>5 DEF Finish
  <2>3. RunOK(run'[r])
    BY <2>1 DEF RunOK, RunInv
  <2>4. TurnInv'
    BY <2>1, <2>2, TurnsStand DEF Over
  <2> QED BY <2>1, <2>3, <2>4, RunsStand
<1>6. ASSUME NEW r \in Requests, Demote(r)
      PROVE  MemoryInv'
  <2>1. /\ TypeInv' /\ Others(r) /\ run[r].stage = "deciding" /\ run'[r].stage = "deciding"
        /\ run'[r].outcome = run[r].outcome /\ run'[r].query = run[r].query
        /\ run'[r].answer = run[r].answer
    BY <1>6, DemoteSteps
  <2>2. turns' = turns
    BY <1>6 DEF Demote
  <2>3. RunOK(run'[r])
    BY <2>1 DEF RunOK, RunInv
  <2>4. TurnInv'
    BY <2>1, <2>2, TurnsStand DEF Over
  <2> QED BY <2>1, <2>3, <2>4, RunsStand
<1>7. ASSUME NEW r \in Requests, QueueRetraining(r)
      PROVE  MemoryInv'
  <2> DEFINE passed == run[r].outcome \in {"answer", "abstention"}
  <2>1. /\ TypeInv' /\ Others(r) /\ run[r].stage = "deciding"
        /\ run'[r].stage = IF passed THEN "remembering" ELSE "done"
        /\ run'[r].outcome = run[r].outcome /\ run'[r].query = run[r].query
        /\ run'[r].answer = run[r].answer
        /\ turns' = IF passed THEN Append(turns, Question(r)) ELSE turns
        /\ Question(r) \in Turn
    BY <1>7, QueueSteps
  <2>2. RunOK(run'[r])
    BY <2>1 DEF RunOK, RunInv
  <2>3. TurnInv'
    <3>1. CASE passed
      BY <2>1, <3>1, QuestionKept DEF Over
    <3>2. CASE ~passed
      BY <2>1, <3>2, TurnsStand DEF Over
    <3> QED BY <3>1, <3>2
  <2> QED BY <2>1, <2>2, <2>3, RunsStand
<1>8. ASSUME NEW r \in Requests, RememberAnswer(r)
      PROVE  MemoryInv'
  <2>1. /\ TypeInv' /\ Others(r) /\ run[r].stage = "remembering" /\ run'[r].stage = "done"
        /\ run'[r].outcome = run[r].outcome /\ run'[r].query = run[r].query
        /\ run'[r].answer = run[r].answer
        /\ turns' = IF run[r].outcome = "answer" THEN Append(turns, Reply(r)) ELSE turns
        /\ Reply(r) \in Turn
    BY <1>8, RememberSteps
  <2>2. RunOK(run'[r])
    BY <2>1 DEF RunOK, RunInv
  <2>3. TurnInv'
    <3>1. CASE run[r].outcome = "answer"
      BY <2>1, <3>1, ReplyKept
    <3>2. CASE run[r].outcome # "answer"
      BY <2>1, <3>2, NoReply
    <3> QED BY <3>1, <3>2
  <2> QED BY <2>1, <2>2, <2>3, RunsStand
<1>9. CASE (\E a \in Adapters : Activate(a)) \/ UNCHANGED requestVars
  <2>1. TypeInv' /\ (\A q \in Requests : Alike(q)) /\ turns' = turns
    BY <1>9, IdleSteps
  <2> QED BY <2>1, TurnsAlike, RunsAlike
<1> QED BY <1>1, <1>2, <1>3, <1>4, <1>5, <1>6, <1>7, <1>8, <1>9 DEF RequestNext

\* Whatever a text holds, whichever guard raises and however requests overlap:
\* no refused turn is remembered, a question is remembered as the input chain
\* left it and an answer as the output chain did, once each, the question first
\* (Platform.answer, _remember).
THEOREM MemoryIsOfWhatPassed == RequestSpec => []MemoryHoldsWhatPassed
<1>1. RequestInit => MemoryInv
  BY RequestAssumption, MemoryStart
<1>2. MemoryInv /\ [RequestNext]_requestVars => MemoryInv'
  BY RequestAssumption, MemoryStep
<1>3. MemoryInv => MemoryHoldsWhatPassed
  BY TurnsPass DEF MemoryInv
<1> QED BY <1>1, <1>2, <1>3, PTL DEF RequestSpec

-----------------------------------------------------------------------------
(* What the bus heard. *)

\* The bus keeps the end of what was published.
EndOf(b, p) == Len(b) <= Len(p) /\ \A i \in 1..Len(b) : b[i] = p[Len(p) - Len(b) + i]

LEMMA StillTheEnd ==
  ASSUME NEW S, NEW b \in Seq(S), NEW p \in Seq(S), NEW e \in Seq(S), NEW n \in Nat \ {0}, EndOf(b, p)
  PROVE  EndOf(Latest(b \o e, n), p \o e) /\ Len(Latest(b \o e, n)) <= n
<1> DEFINE x == b \o e
           y == p \o e
           from == IF Len(x) > n THEN Len(x) - n ELSE 0
           l == Latest(x, n)
           B == Len(b)
           P == Len(p)
           E == Len(e)
           L == Len(l)
<1>1. /\ x \in Seq(S) /\ Len(x) = B + E /\ B \in Nat /\ E \in Nat
      /\ \A i \in 1..B : x[i] = b[i]
      /\ \A i \in 1..E : x[B + i] = e[i]
  BY ConcatElements
<1>2. /\ y \in Seq(S) /\ Len(y) = P + E /\ P \in Nat
      /\ \A i \in 1..P : y[i] = p[i]
      /\ \A i \in 1..E : y[P + i] = e[i]
  BY ConcatElements
<1> HIDE DEF x, y
<1>3. /\ from \in Nat /\ L = Len(x) - from /\ L <= n
      /\ \A i \in 1..L : l[i] = x[from + i]
  BY <1>1, LatestFacts
<1>4. B <= P /\ \A i \in 1..B : b[i] = p[P - B + i]
  BY DEF EndOf
<1>5. from <= B + E
  BY <1>1
<1> HIDE DEF from, l, B, P, E, L
<1>6. L = B + E - from /\ L \in Nat
  BY <1>1, <1>3, <1>5
<1>7. ASSUME NEW i \in 1..L PROVE l[i] = y[(P + E) - L + i]
  <2> DEFINE k == from + i
             z == (P + E) - L + i
  <2>1. k \in Nat /\ k > 0 /\ k <= B + E /\ z = P - B + k
    BY <1>1, <1>2, <1>3, <1>4, <1>6
  <2>2. l[i] = x[k]
    BY <1>3
  <2> HIDE DEF k, z
  <2>3. CASE k <= B
    <3>1. k \in 1..B /\ z \in 1..P
      BY <1>1, <1>2, <1>4, <2>1, <2>3
    <3>2. x[k] = b[k] /\ y[z] = p[z] /\ b[k] = p[P - B + k]
      BY <1>1, <1>2, <1>4, <3>1
    <3> QED BY <2>1, <2>2, <3>2 DEF z
  <2>4. CASE k > B
    <3> DEFINE j == k - B
    <3>1. j \in 1..E /\ B + j = k /\ P + j = z
      BY <1>1, <1>2, <2>1, <2>4
    <3> HIDE DEF j
    <3>2. x[B + j] = e[j] /\ y[P + j] = e[j]
      BY <1>1, <1>2, <3>1
    <3> QED BY <2>2, <3>1, <3>2 DEF z
  <2> QED BY <1>1, <2>1, <2>3, <2>4
<1>8. Len(l) <= Len(y) /\ \A i \in 1..Len(l) : l[i] = y[Len(y) - Len(l) + i]
  BY <1>1, <1>2, <1>4, <1>6, <1>7, <1>3 DEF L
<1>9. EndOf(l, y)
  BY <1>8 DEF EndOf
<1> QED BY <1>3, <1>9 DEF l, x, y, L

LEMMA EndIsSuffix ==
  ASSUME NEW S, NEW b \in Seq(S), NEW p \in Seq(S), EndOf(b, p)
  PROVE  IsSuffix(b, p)
<1> DEFINE B == Len(b)
           P == Len(p)
           rb == [i \in 1..B |-> b[(B - i) + 1]]
           rp == [i \in 1..P |-> p[(P - i) + 1]]
<1>1. B \in Nat /\ P \in Nat /\ (\A i \in 1..B : b[i] \in S) /\ (\A i \in 1..P : p[i] \in S)
  BY LenProperties, ElementOfSeq
<1>2. B <= P /\ \A i \in 1..B : b[i] = p[P - B + i]
  BY DEF EndOf
<1> HIDE DEF B, P
<1>3. \A i \in 1..B : (B - i) + 1 \in 1..B /\ i \in 1..P /\ P - B + ((B - i) + 1) = (P - i) + 1
  BY <1>1, <1>2
<1>4. \A i \in 1..P : (P - i) + 1 \in 1..P
  BY <1>1
<1>5. rb \in Seq(S) /\ Len(rb) = B
  BY <1>1, <1>3
<1>6. rp \in Seq(S) /\ Len(rp) = P
  <2>1. \A i \in 1..P : p[(P - i) + 1] \in S
    BY <1>1, <1>4
  <2> DEFINE x(i) == p[(P - i) + 1]
  <2>2. \A i \in 1..P : x(i) \in S
    BY <2>1
  <2> HIDE DEF x
  <2>3. [i \in 1..P |-> x(i)] \in Seq(S) /\ Len([i \in 1..P |-> x(i)]) = P
    BY <1>1, <2>2
  <2> QED BY <2>3 DEF x
<1>7. \A i \in 1..B : rb[i] = rp[i]
  BY <1>2, <1>3
<1>8. Reverse(b) = rb /\ Reverse(p) = rp
  BY DEF Reverse, B, P
<1> HIDE DEF rb, rp
<1> DEFINE sb == SubSeq(rb, 1, B)
           sp == SubSeq(rp, 1, B)
<1>9. /\ sb \in Seq(S) /\ Len(sb) = B /\ \A i \in 1..B : sb[i] = rb[i]
  <2>1. \A i \in 1..B : rb[i] \in S
    BY <1>5, ElementOfSeq
  <2>2. /\ sb \in Seq(S) /\ Len(sb) = IF 1 <= B THEN B - 1 + 1 ELSE 0
        /\ \A i \in 1..(B - 1 + 1) : sb[i] = rb[1 + i - 1]
    BY <1>1, <1>5, <2>1, SubSeqProperties
  <2> HIDE DEF sb
  <2> QED BY <1>1, <2>2
<1>10. /\ sp \in Seq(S) /\ Len(sp) = B /\ \A i \in 1..B : sp[i] = rp[i]
  <2>1. \A i \in 1..B : rp[i] \in S
    BY <1>3, <1>6, ElementOfSeq
  <2>2. /\ sp \in Seq(S) /\ Len(sp) = IF 1 <= B THEN B - 1 + 1 ELSE 0
        /\ \A i \in 1..(B - 1 + 1) : sp[i] = rp[1 + i - 1]
    BY <1>1, <1>6, <2>1, SubSeqProperties
  <2> HIDE DEF sp
  <2> QED BY <1>1, <2>2
<1> HIDE DEF sb, sp
<1>11. sb = sp
  <2>1. Len(sb) = Len(sp) /\ \A i \in 1..Len(sb) : sb[i] = sp[i]
    BY <1>7, <1>9, <1>10
  <2> QED BY <1>9, <1>10, <2>1, SeqEqual
<1>12. IsPrefix(rb, rp)
  BY <1>2, <1>5, <1>6, <1>11 DEF IsPrefix, sb, sp
<1> QED BY <1>8, <1>12 DEF IsSuffix

\* Where a request's events are.
Of(seq, r) == {i \in DOMAIN seq : seq[i].request = r}

\* The events of one request come after all that was published: they are
\* heard as its own, and as nobody else's.
LEMMA HeardOnceMore ==
  ASSUME NEW s \in Seq(Told), NEW r, NEW e, EventsFrom(r, e), NEW q
  PROVE  Picked(s \o e, Of(s \o e, q)) =
           IF q = r THEN Picked(s, Of(s, q)) \o e ELSE Picked(s, Of(s, q))
<1> DEFINE S == Told
           se == s \o e
           K == Of(se, q)
           m == Len(s)
           n == Len(e)
           L == {i \in 1..n : m + i \in K}
<1>1. s \in Seq(S) /\ e \in Seq(S) /\ \A i \in 1..n : e[i].request = r
  BY DEF EventsFrom, Tells
<1> HIDE DEF S
<1>2. /\ se \in Seq(S) /\ Len(se) = m + n /\ m \in Nat /\ n \in Nat
      /\ \A i \in 1..m : se[i] = s[i]
      /\ \A i \in 1..n : se[m + i] = e[i]
  BY <1>1, ConcatElements
<1>3. Picked(se, K) = Picked(s, K) \o Picked(e, L)
  <2>1. Shifted(K, L, s, e)
    BY DEF Shifted
  <2>2. Both(se, s, e)
    BY <1>2 DEF Both
  <2> HIDE DEF K, L, se
  <2> QED BY <1>1, <1>2, <2>1, <2>2, PickedBoth
<1>4. DOMAIN se = 1..(m + n) /\ DOMAIN s = 1..m
  BY <1>1, <1>2, LenProperties
<1> HIDE DEF se, m, n
<1>5. \A i \in 1..m : i \in 1..(m + n)
  BY <1>2
<1>6. \A i \in 1..n : m + i \in 1..(m + n)
  BY <1>2
<1>7. \A i \in 1..m : i \in K <=> i \in Of(s, q)
  BY <1>2, <1>4, <1>5 DEF Of
<1>8. Picked(s, K) = Picked(s, Of(s, q))
  <2> HIDE DEF K
  <2>1. \A i \in 1..Len(s) : i \in K <=> i \in Of(s, q)
    BY <1>7 DEF m
  <2> QED BY <1>1, <2>1, PickedAgree
<1>9. \A i \in 1..n : i \in L <=> q = r
  BY <1>1, <1>2, <1>4, <1>6 DEF Of
<1> HIDE DEF K, L
<1>10. CASE q = r
  <2>1. \A i \in 1..Len(e) : i \in L
    BY <1>9, <1>10 DEF n
  <2>2. Picked(e, L) = e
    BY <1>1, <2>1, PickedAll
  <2> QED BY <1>3, <1>8, <1>10, <2>2 DEF se, K
<1>11. CASE q # r
  <2>1. \A i \in 1..Len(e) : i \notin L
    BY <1>9, <1>11 DEF n
  <2>2. Picked(e, L) = << >>
    BY <1>1, <2>1, PickedNone
  <2>3. Picked(s, K) \in Seq(S)
    BY <1>1, PickedLocates
  <2> DEFINE p == Picked(s, K)
  <2> HIDE DEF p
  <2>4. p \o << >> = p
    BY <2>3, ConcatEmptySeq DEF p
  <2> QED BY <1>3, <1>8, <1>11, <2>2, <2>4 DEF se, K, p
<1> QED BY <1>10, <1>11

\* What a request says it came to, it has told.
Refused(events) == \E i \in 1..Len(events) : events[i].kind \in {"security", "alert"}

SaidOK(q) ==
  /\ q.outcome = "blocked" => Refused(q.events)
  /\ q.outcome = "isolation violation" => Alarmed(q.events)
  /\ q.outcome # "answer" => Unsampled(q.events)

EventInv ==
  /\ \A r \in Requests : EventsFrom(r, run[r].events)
  /\ \A r \in Requests :
       Picked(published, Of(published, r)) = IF Finished(r) THEN run[r].events ELSE << >>
  /\ \A r \in Requests : SaidOK(run[r])
  /\ EndOf(bus, published) /\ Len(bus) <= Capacity

LEMMA EventsAreHeard ==
  ASSUME TypeInv, EventInv
  PROVE  EventsHeardOnce
<1>1. ASSUME NEW r \in Requests
      PROVE  LET heard == Picked(published, {i \in DOMAIN published : published[i].request = r})
                 kinds == {e.kind : e \in ToSet(heard)}
             IN  /\ heard = IF Finished(r) THEN run[r].events ELSE << >>
                 /\ Finished(r) /\ run[r].outcome = "blocked" => kinds \cap {"security", "alert"} # {}
                 /\ Finished(r) /\ run[r].outcome = "isolation violation" => "alert" \in kinds
                 /\ "sampled" \in kinds => run[r].outcome = "answer"
  <2> DEFINE heard == Picked(published, Of(published, r))
             kinds == {e.kind : e \in ToSet(heard)}
             S == Told
  <2>1. heard = (IF Finished(r) THEN run[r].events ELSE << >>) /\ SaidOK(run[r])
    BY DEF EventInv
  <2>2. heard \in Seq(S)
    <3>1. published \in Seq(S)
      BY DEF TypeInv
    <3> HIDE DEF S
    <3> QED BY <3>1, PickedLocates
  <2> HIDE DEF heard, S
  <2>3. DOMAIN heard = 1..Len(heard)
    BY <2>2, LenProperties
  <2>4. kinds = {heard[i].kind : i \in 1..Len(heard)}
    BY <2>3 DEF ToSet
  <2>5. ASSUME Finished(r), run[r].outcome = "blocked" PROVE kinds \cap {"security", "alert"} # {}
    <3>1. Refused(heard)
      BY <2>1, <2>5 DEF SaidOK
    <3> QED BY <2>4, <3>1 DEF Refused
  <2>6. ASSUME Finished(r), run[r].outcome = "isolation violation" PROVE "alert" \in kinds
    <3>1. Alarmed(heard)
      BY <2>1, <2>6 DEF SaidOK
    <3> QED BY <2>4, <3>1 DEF Alarmed
  <2>7. ASSUME run[r].outcome # "answer" PROVE "sampled" \notin kinds
    <3>1. CASE Finished(r)
      <4>1. Unsampled(heard)
        BY <2>1, <2>7, <3>1 DEF SaidOK
      <4> QED BY <2>4, <4>1 DEF Unsampled
    <3>2. CASE ~Finished(r)
      <4>1. heard = << >>
        BY <2>1, <3>2
      <4>2. 1..Len(heard) = {}
        BY <4>1
      <4> QED BY <2>4, <4>2
    <3> QED BY <3>1, <3>2
  <2> QED BY <2>1, <2>5, <2>6, <2>7 DEF heard, Of
<1>2. Len(bus) <= Capacity /\ IsSuffix(bus, published)
  <2> DEFINE S == Told
  <2>1. bus \in Seq(S) /\ published \in Seq(S) /\ EndOf(bus, published) /\ Len(bus) <= Capacity
    BY DEF EventInv, TypeInv
  <2> HIDE DEF S
  <2> QED BY <2>1, EndIsSuffix
<1> QED BY <1>1, <1>2 DEF EventsHeardOnce

LEMMA ConcatSays ==
  ASSUME NEW r, NEW s, NEW t, EventsFrom(r, s), EventsFrom(r, t)
  PROVE  /\ Refused(t) => Refused(s \o t)
         /\ Alarmed(t) => Alarmed(s \o t)
         /\ Unsampled(s) /\ Unsampled(t) => Unsampled(s \o t)
<1> DEFINE st == s \o t
           m == Len(s)
           n == Len(t)
<1>1. /\ Len(st) = m + n /\ m \in Nat /\ n \in Nat
      /\ \A i \in 1..m : st[i] = s[i]
      /\ \A i \in 1..n : st[m + i] = t[i]
  BY ConcatEvents
<1>2. \A i \in 1..Len(st) : \/ i \in 1..m /\ st[i] = s[i]
                            \/ \E j \in 1..n : st[i] = t[j]
  BY ConcatEvents
<1> HIDE DEF st, m, n
<1>3. \A i \in 1..n : m + i \in 1..Len(st)
  BY <1>1
<1>4. Refused(t) => Refused(st)
  BY <1>1, <1>3 DEF Refused, n
<1>5. Alarmed(t) => Alarmed(st)
  BY <1>1, <1>3 DEF Alarmed, n
<1>6. Unsampled(s) /\ Unsampled(t) => Unsampled(st)
  BY <1>2 DEF Unsampled, m, n
<1> QED BY <1>4, <1>5, <1>6 DEF st

\* A step of a request that tells the bus nothing.
LEMMA EventsStand ==
  ASSUME EventInv, NEW r \in Requests, Others(r), UNCHANGED <<published, bus>>,
         EventsFrom(r, run'[r].events), SaidOK(run'[r]),
         Finished(r)' <=> Finished(r), Finished(r) => run'[r].events = run[r].events
  PROVE  EventInv'
<1>1. ASSUME NEW q \in Requests
      PROVE  /\ EventsFrom(q, run'[q].events) /\ SaidOK(run'[q])
             /\ Picked(published, Of(published, q)) = IF Finished(q)' THEN run'[q].events ELSE << >>
  <2>1. CASE q = r
    BY <2>1 DEF EventInv
  <2>2. CASE q # r
    <3>1. run'[q] = run[q] /\ (Finished(q)' <=> Finished(q))
      BY <2>2 DEF Others, Finished
    <3> QED BY <3>1 DEF EventInv
  <2> QED BY <2>1, <2>2
<1> QED BY <1>1 DEF EventInv

LEMMA EventsAlike ==
  ASSUME EventInv, \A q \in Requests : Alike(q), UNCHANGED <<published, bus>>
  PROVE  EventInv'
<1>1. ASSUME NEW q \in Requests
      PROVE  /\ EventsFrom(q, run'[q].events) /\ SaidOK(run'[q])
             /\ Picked(published, Of(published, q)) = IF Finished(q)' THEN run'[q].events ELSE << >>
  <2>1. /\ run'[q].events = run[q].events /\ run'[q].outcome = run[q].outcome
        /\ Finished(q)' <=> Finished(q)
    BY DEF Alike, Finished
  <2> QED BY <2>1 DEF EventInv, SaidOK
<1> QED BY <1>1 DEF EventInv

LEMMA EventsPublished ==
  ASSUME RequestAssumption, TypeInv, EventInv, NEW r \in Requests, Others(r),
         run[r].stage = "over", run'[r].stage = "deciding",
         run'[r].outcome = run[r].outcome, run'[r].events = run[r].events,
         published' = published \o run[r].events,
         bus' = Latest(bus \o run[r].events, Capacity)
  PROVE  EventInv'
<1> DEFINE e == run[r].events
           S == Told
<1>1. EventsFrom(r, e)
  BY DEF EventInv
<1>2. EndOf(bus', published') /\ Len(bus') <= Capacity
  <2>1. bus \in Seq(S) /\ published \in Seq(S) /\ e \in Seq(S) /\ Capacity \in Nat \ {0}
        /\ EndOf(bus, published)
    BY <1>1 DEF TypeInv, EventInv, EventsFrom, RequestAssumption
  <2> HIDE DEF S, e
  <2>2. EndOf(Latest(bus \o e, Capacity), published \o e) /\ Len(Latest(bus \o e, Capacity)) <= Capacity
    BY <2>1, StillTheEnd
  <2> QED BY <2>2 DEF e
<1>3. ASSUME NEW q \in Requests
      PROVE  /\ EventsFrom(q, run'[q].events) /\ SaidOK(run'[q])
             /\ Picked(published', Of(published', q)) = IF Finished(q)' THEN run'[q].events ELSE << >>
  <2>1. Picked(published', Of(published', q)) =
          IF q = r THEN Picked(published, Of(published, q)) \o e ELSE Picked(published, Of(published, q))
    <3>1. published \in Seq(Told)
      BY DEF TypeInv
    <3> HIDE DEF e
    <3>2. Picked(published \o e, Of(published \o e, q)) =
            IF q = r THEN Picked(published, Of(published, q)) \o e ELSE Picked(published, Of(published, q))
      BY <1>1, <3>1, HeardOnceMore
    <3> QED BY <3>2 DEF e
  <2>2. CASE q = r
    <3>1. Picked(published, Of(published, q)) = << >>
      BY <2>2 DEF EventInv, Finished
    <3>2. << >> \o e = e
      <4>1. e \in Seq(S)
        BY <1>1 DEF EventsFrom
      <4> HIDE DEF e, S
      <4> QED BY <4>1, ConcatEmptySeq
    <3>3. Finished(q)'
      BY <2>2 DEF Finished
    <3>4. EventsFrom(q, run'[q].events) /\ SaidOK(run'[q])
      BY <2>2 DEF EventInv, SaidOK
    <3> QED BY <2>1, <2>2, <3>1, <3>2, <3>3, <3>4
  <2>3. CASE q # r
    <3>1. run'[q] = run[q] /\ (Finished(q)' <=> Finished(q))
      BY <2>3 DEF Others, Finished
    <3> QED BY <2>1, <2>3, <3>1 DEF EventInv
  <2> QED BY <2>2, <2>3
<1> QED BY <1>2, <1>3 DEF EventInv

LEMMA OldAndNew ==
  ASSUME NEW r, NEW told, EventsFrom(r, told), EventsFrom(r, run[r].events),
         run'[r].events = run[r].events \o told, Unsampled(run[r].events)
  PROVE  /\ EventsFrom(r, run'[r].events)
         /\ Refused(told) => Refused(run'[r].events)
         /\ Alarmed(told) => Alarmed(run'[r].events)
         /\ Unsampled(told) => Unsampled(run'[r].events)
<1> DEFINE old == run[r].events
<1> HIDE DEF old
<1>1. EventsFrom(r, told) /\ EventsFrom(r, old) /\ run'[r].events = old \o told /\ Unsampled(old)
  BY DEF old
<1>2. EventsFrom(r, old \o told)
  BY <1>1, ConcatEvents
<1>3. /\ Refused(told) => Refused(old \o told)
      /\ Alarmed(told) => Alarmed(old \o told)
      /\ Unsampled(told) => Unsampled(old \o told)
  BY <1>1, ConcatSays
<1> QED BY <1>1, <1>2, <1>3

LEMMA EventStep ==
  ASSUME RequestAssumption, MemoryInv, EventInv, [RequestNext]_requestVars
  PROVE  EventInv'
<1> USE DEF MemoryInv
<1>1. ASSUME NEW r \in Requests, NEW text \in QueryTexts[r], NEW broken, Receive(r, text, broken)
      PROVE  EventInv'
  <2> DEFINE verdicts == RunChain(InputChain, text, broken)
             blocked == Blocked(verdicts)
             events == VerdictEvents(r, verdicts)
  <2>1. /\ Others(r) /\ Verdicts(verdicts, QueryMarks)
        /\ run'[r].stage = IF blocked THEN "over" ELSE "running"
        /\ run'[r].outcome = IF blocked THEN "blocked" ELSE "none"
        /\ run'[r].events = events
    BY <1>1, ReceiveSteps
  <2>2. run[r].stage = "new" /\ UNCHANGED <<published, bus>>
    BY <1>1 DEF Receive
  <2>3. /\ EventsFrom(r, events)
        /\ \A i \in 1..Len(events) : events[i].kind \in {"security", "alert"}
        /\ blocked => Len(events) > 0
    BY <2>1, VerdictEventsFacts
  <2> HIDE DEF verdicts, blocked, events
  <2>4. Unsampled(events) /\ (blocked => Refused(events))
    <3>1. Len(events) \in Nat
      <4> DEFINE S == Told
      <4>1. events \in Seq(S)
        BY <2>3 DEF EventsFrom
      <4> HIDE DEF S
      <4> QED BY <4>1, LenProperties
    <3>2. blocked => 1 \in 1..Len(events)
      BY <2>3, <3>1
    <3> QED BY <2>3, <3>2 DEF Unsampled, Refused
  <2>5. SaidOK(run'[r])
    BY <2>1, <2>4 DEF SaidOK
  <2>6. ~Finished(r) /\ ~Finished(r)'
    BY <2>1, <2>2 DEF Finished
  <2> QED BY <2>1, <2>2, <2>3, <2>5, <2>6, EventsStand
<1>2. ASSUME NEW r \in Requests, Select(r) \/ Draft(r)
      PROVE  EventInv'
  <2>1. \A q \in Requests : Alike(q)
    BY <1>2, QuietSteps
  <2>2. UNCHANGED <<published, bus>>
    BY <1>2 DEF Select, Draft
  <2> QED BY <2>1, <2>2, EventsAlike
<1>3. ASSUME NEW r \in Requests, NEW text \in AnswerTexts[r], NEW broken, NEW screened,
             NEW claims \in 0..MaxClaims[r], NEW stands,
             Answer(r, text, screened, claims, stands, broken)
      PROVE  EventInv'
  <2>1. PICK told :
          /\ Others(r) /\ EventsFrom(r, told)
          /\ run'[r].stage = "over" /\ run'[r].outcome \in {"blocked", "answer"}
          /\ run'[r].outcome = "blocked" => \E i \in 1..Len(told) : told[i].kind \in {"security", "alert"}
          /\ \A i \in 1..Len(told) : told[i].kind = "sampled" => run'[r].outcome = "answer"
          /\ run'[r].events = run[r].events \o told
    BY <1>3, AnswerSteps
  <2>2. run[r].stage = "running" /\ UNCHANGED <<published, bus>>
    BY <1>3 DEF Answer
  <2>3. EventsFrom(r, run[r].events) /\ Unsampled(run[r].events)
    BY <2>2 DEF EventInv, RunInv, RunOK, SaidOK
  <2>4. EventsFrom(r, run'[r].events)
    BY <2>1, <2>3, OldAndNew
  <2>5. (run'[r].outcome = "blocked" => Refused(told)) /\ (run'[r].outcome # "answer" => Unsampled(told))
    BY <2>1 DEF Refused, Unsampled
  <2>6. SaidOK(run'[r])
    BY <2>1, <2>3, <2>5, OldAndNew DEF SaidOK
  <2>7. ~Finished(r) /\ ~Finished(r)'
    BY <2>1, <2>2 DEF Finished
  <2> QED BY <2>1, <2>2, <2>4, <2>6, <2>7, EventsStand
<1>4. ASSUME NEW r \in Requests, NEW ending \in Endings[r], NEW screened,
             NEW claims \in 0..MaxClaims[r], EndOtherwise(r, ending, screened, claims)
      PROVE  EventInv'
  <2>1. PICK told :
          /\ TypeInv' /\ Others(r) /\ EventsFrom(r, told) /\ Unsampled(told)
          /\ run'[r].stage = IF ending = "crash" THEN "lost" ELSE "over"
          /\ run'[r].outcome = ending /\ ending \in OtherEndings
          /\ ending = "isolation violation" => Alarmed(told)
          /\ run'[r].events = run[r].events \o told
          /\ run'[r].query = run[r].query /\ run'[r].answer = run[r].answer
          /\ run'[r].demote = run[r].demote /\ run'[r].retrain = run[r].retrain
    BY <1>4, EndOtherwiseSteps
  <2>2. run[r].stage = "running" /\ UNCHANGED <<published, bus>>
    BY <1>4 DEF EndOtherwise
  <2>3. EventsFrom(r, run[r].events) /\ Unsampled(run[r].events)
    BY <2>2 DEF EventInv, RunInv, RunOK, SaidOK
  <2>4. EventsFrom(r, run'[r].events)
    BY <2>1, <2>3, OldAndNew
  <2>5. SaidOK(run'[r])
    BY <2>1, <2>3, OldAndNew DEF SaidOK, OtherEndings
  <2>6. ~Finished(r) /\ ~Finished(r)'
    BY <2>1, <2>2 DEF Finished
  <2> QED BY <2>1, <2>2, <2>4, <2>5, <2>6, EventsStand
<1>5. ASSUME NEW r \in Requests, Finish(r)
      PROVE  EventInv'
  BY <1>5, FinishSteps, EventsPublished
<1>6. ASSUME NEW r \in Requests, Demote(r) \/ QueueRetraining(r) \/ RememberAnswer(r)
      PROVE  EventInv'
  <2>1. /\ Others(r) /\ Finished(r) /\ Finished(r)'
        /\ run'[r].outcome = run[r].outcome /\ run'[r].events = run[r].events
    <3>1. CASE Demote(r)
      BY <3>1, DemoteSteps DEF Finished
    <3>2. CASE QueueRetraining(r)
      <4>1. /\ Others(r) /\ run[r].stage = "deciding"
            /\ run'[r].stage = IF run[r].outcome \in {"answer", "abstention"} THEN "remembering" ELSE "done"
            /\ run'[r].outcome = run[r].outcome /\ run'[r].events = run[r].events
        BY <3>2, QueueSteps
      <4> QED BY <4>1 DEF Finished
    <3>3. CASE RememberAnswer(r)
      BY <3>3, RememberSteps DEF Finished
    <3> QED BY <1>6, <3>1, <3>2, <3>3
  <2>2. UNCHANGED <<published, bus>>
    BY <1>6 DEF Demote, QueueRetraining, RememberAnswer
  <2>3. EventsFrom(r, run'[r].events) /\ SaidOK(run'[r])
    BY <2>1 DEF EventInv, SaidOK
  <2> QED BY <2>1, <2>2, <2>3, EventsStand
<1>7. CASE (\E a \in Adapters : Activate(a)) \/ UNCHANGED requestVars
  <2>1. (\A q \in Requests : Alike(q)) /\ UNCHANGED <<published, bus>>
    BY <1>7, IdleSteps
  <2> QED BY <2>1, EventsAlike
<1> QED BY <1>1, <1>2, <1>3, <1>4, <1>5, <1>6, <1>7 DEF RequestNext

LEMMA EventStart ==
  ASSUME RequestAssumption, RequestInit
  PROVE  EventInv
<1>1. \A r \in Requests : run[r].events = << >> /\ run[r].outcome = "none" /\ run[r].stage = "new"
  BY DEF RequestInit, NewRun
<1>2. published = << >> /\ bus = << >>
  BY DEF RequestInit
<1>3. \A K : Picked(published, K) = << >>
  BY <1>2, PickedEmpty
<1>4. Unsampled(<< >>) /\ \A r : EventsFrom(r, << >>)
  BY NoEvents DEF Unsampled
<1>5. ASSUME NEW r \in Requests
      PROVE  /\ EventsFrom(r, run[r].events) /\ SaidOK(run[r])
             /\ Picked(published, Of(published, r)) = IF Finished(r) THEN run[r].events ELSE << >>
  BY <1>1, <1>3, <1>4 DEF SaidOK, Finished
<1>6. EndOf(bus, published) /\ Len(bus) <= Capacity
  BY <1>2 DEF EndOf, RequestAssumption
<1> QED BY <1>5, <1>6 DEF EventInv

\* However a request ends and whatever others publish in between: the bus hears
\* its events once, in their order and only when it has ended, a refusal and an
\* isolation violation are among them, and the buffer is the end of what was
\* published (with_verdict, _finish, InMemoryEventBus.publish).
THEOREM EventsAreHeardOnce == RequestSpec => []EventsHeardOnce
<1>1. RequestInit => MemoryInv /\ EventInv
  BY RequestAssumption, MemoryStart, EventStart
<1>2. MemoryInv /\ EventInv /\ [RequestNext]_requestVars => (MemoryInv /\ EventInv)'
  BY RequestAssumption, MemoryStep, EventStep
<1>3. MemoryInv /\ EventInv => EventsHeardOnce
  BY EventsAreHeard DEF MemoryInv
<1> QED BY <1>1, <1>2, <1>3, PTL DEF RequestSpec

-----------------------------------------------------------------------------
(* What the monitor knows. *)

\* What a sequence of events says of an adapter.
About(seq, a) == {i \in DOMAIN seq : a \in seq[i].adapters}

Record(seq, a) ==
  LET told == Picked(seq, About(seq, a))
  IN  [i \in DOMAIN told |-> told[i].kind = "conflict"]

\* A window that is held against the adapter, and a record that had one.
Hot(w) == Len(w) >= MinSamples /\ Above(w, Critical)
HadHot(h) == \E n \in 1..Len(h) : Hot(Latest(SubSeq(h, 1, n), Window))

LEMMA RecordType ==
  ASSUME NEW s \in Seq(Told), NEW a
  PROVE  Record(s, a) \in Seq(BOOLEAN)
<1> DEFINE S == Told
           told == Picked(s, About(s, a))
           h == [i \in DOMAIN told |-> told[i].kind = "conflict"]
<1>1. told \in Seq(S)
  BY PickedLocates
<1> HIDE DEF told, S
<1>2. DOMAIN told = 1..Len(told) /\ Len(told) \in Nat
  BY <1>1, LenProperties
<1>3. h \in Seq(BOOLEAN)
  BY <1>2
<1> QED BY <1>3 DEF Record, told

LEMMA RecordGrows ==
  ASSUME NEW s \in Seq(Told), NEW e \in Told, NEW a
  PROVE  /\ Record(s, a) \in Seq(BOOLEAN)
         /\ a \in e.adapters => Record(Append(s, e), a) = Append(Record(s, a), e.kind = "conflict")
         /\ a \notin e.adapters => Record(Append(s, e), a) = Record(s, a)
<1> DEFINE S == Told
           se == Append(s, e)
           m == Len(s)
           K == About(se, a)
           told == Picked(s, About(s, a))
           more == Picked(se, K)
           x == (e.kind = "conflict")
<1>1. s \in Seq(S) /\ e \in S
  OBVIOUS
<1> HIDE DEF S
<1>2. /\ se \in Seq(S) /\ Len(se) = m + 1 /\ se[m + 1] = e
      /\ \A i \in 1..m : se[i] = s[i]
      /\ m \in Nat /\ DOMAIN se = 1..(m + 1) /\ DOMAIN s = 1..m
  BY <1>1, AppendProperties, LenProperties
<1> HIDE DEF se
<1>3. (m + 1 \in K <=> a \in e.adapters) /\ \A i \in 1..m : i \in K <=> i \in About(s, a)
  BY <1>2 DEF About
<1> HIDE DEF K
<1>4. Picked(s, K) = told
  BY <1>1, <1>3, PickedAgree
<1>5. told \in Seq(S)
  BY <1>1, PickedLocates
<1>6. /\ a \in e.adapters => more = Append(told, e)
      /\ a \notin e.adapters => more = told
  BY <1>1, <1>3, <1>4, PickedAppend DEF se
<1> DEFINE n == Len(told)
           h == [i \in DOMAIN told |-> told[i].kind = "conflict"]
<1> HIDE DEF told
<1>7. h \in Seq(BOOLEAN) /\ Len(h) = n /\ n \in Nat /\ DOMAIN told = 1..n
      /\ \A i \in 1..n : h[i] = (told[i].kind = "conflict")
  <2>1. DOMAIN told = 1..n /\ n \in Nat
    BY <1>5, LenProperties
  <2> QED BY <2>1
<1>8. Record(s, a) = h
  BY DEF Record, told
<1>9. ASSUME a \in e.adapters PROVE Record(se, a) = Append(h, x)
  <2>1. more = Append(told, e)
    BY <1>6, <1>9
  <2> DEFINE te == Append(told, e)
             hh == [i \in DOMAIN te |-> te[i].kind = "conflict"]
             hx == Append(h, x)
             B == BOOLEAN
  <2>2. /\ DOMAIN te = 1..(n + 1) /\ te[n + 1] = e /\ \A i \in 1..n : te[i] = told[i]
    BY <1>1, <1>5, AppendProperties, LenProperties
  <2> HIDE DEF te
  <2>3. /\ hh \in Seq(B) /\ Len(hh) = n + 1 /\ hh[n + 1] = x
        /\ \A i \in 1..n : hh[i] = (told[i].kind = "conflict")
    BY <1>7, <2>2
  <2>4. h \in Seq(B) /\ x \in B
    BY <1>7
  <2> HIDE DEF B, x, h, hh
  <2>5. /\ hx \in Seq(B) /\ Len(hx) = n + 1 /\ hx[n + 1] = x
        /\ \A i \in 1..n : hx[i] = h[i]
    BY <1>7, <2>4, AppendProperties
  <2> HIDE DEF hx
  <2>6. \A i \in 1..(n + 1) : i \in 1..n \/ i = n + 1
    BY <1>7
  <2>7. \A i \in 1..Len(hh) : hh[i] = hx[i]
    BY <1>7, <2>3, <2>5, <2>6
  <2>8. hh = hx
    BY <2>3, <2>5, <2>7, SeqEqual
  <2>9. Record(se, a) = hh
    BY <2>1 DEF Record, K, hh, te
  <2> QED BY <2>8, <2>9 DEF hx, x, h
<1>10. ASSUME a \notin e.adapters PROVE Record(se, a) = h
  BY <1>6, <1>10 DEF Record, K
<1> HIDE DEF h, x
<1> QED BY <1>7, <1>8, <1>9, <1>10 DEF se, x

LEMMA LatestOfMore ==
  ASSUME NEW S, NEW h \in Seq(S), NEW x \in S, NEW n \in Nat \ {0}
  PROVE  Latest(Append(Latest(h, n), x), n) = Latest(Append(h, x), n)
<1> DEFINE m == Len(h)
           l == Latest(h, n)
           lx == Append(l, x)
           hx == Append(h, x)
           a == Latest(lx, n)
           b == Latest(hx, n)
           from == IF m > n THEN m - n ELSE 0
           k == m - from
           fa == IF k + 1 > n THEN k + 1 - n ELSE 0
           fb == IF m + 1 > n THEN m + 1 - n ELSE 0
<1>1. /\ l \in Seq(S) /\ m \in Nat /\ from \in Nat /\ Len(l) = k /\ k <= n
      /\ \A i \in 1..k : l[i] = h[from + i]
  BY LatestFacts
<1>2. /\ hx \in Seq(S) /\ Len(hx) = m + 1 /\ hx[m + 1] = x
      /\ \A i \in 1..m : hx[i] = h[i]
  BY AppendProperties
<1>3. k \in Nat /\ m = from + k
  BY <1>1
<1> HIDE DEF l
<1>4. /\ lx \in Seq(S) /\ Len(lx) = k + 1 /\ lx[k + 1] = x
      /\ \A i \in 1..k : lx[i] = l[i]
  <2>1. l \in Seq(S)
    BY <1>1
  <2>2. /\ lx \in Seq(S) /\ Len(lx) = Len(l) + 1 /\ lx[Len(l) + 1] = x
        /\ \A i \in 1..Len(l) : lx[i] = l[i]
    BY <2>1, AppendProperties
  <2> HIDE DEF lx, k
  <2> QED BY <1>1, <2>2
<1> HIDE DEF lx, hx, k
<1>5. /\ a \in Seq(S) /\ fa \in Nat /\ Len(a) = (k + 1) - fa
      /\ \A i \in 1..Len(a) : a[i] = lx[fa + i]
  <2>1. lx \in Seq(S)
    BY <1>4
  <2> DEFINE f == IF Len(lx) > n THEN Len(lx) - n ELSE 0
  <2>2. /\ a \in Seq(S) /\ f \in Nat /\ Len(a) = Len(lx) - f
        /\ \A i \in 1..Len(a) : a[i] = lx[f + i]
    BY <2>1, LatestFacts
  <2>3. f = fa
    <3>1. Len(lx) = k + 1 /\ k \in Nat
      BY <1>3, <1>4
    <3> QED BY <3>1
  <2> HIDE DEF f, fa, a
  <2> QED BY <1>4, <2>2, <2>3
<1>6. /\ b \in Seq(S) /\ fb \in Nat /\ Len(b) = (m + 1) - fb
      /\ \A i \in 1..Len(b) : b[i] = hx[fb + i]
  <2>1. hx \in Seq(S)
    BY <1>2
  <2> DEFINE f == IF Len(hx) > n THEN Len(hx) - n ELSE 0
  <2>2. /\ b \in Seq(S) /\ f \in Nat /\ Len(b) = Len(hx) - f
        /\ \A i \in 1..Len(b) : b[i] = hx[f + i]
    BY <2>1, LatestFacts
  <2>3. f = fb
    BY <1>2
  <2> HIDE DEF f, fb, b, m
  <2> QED BY <1>2, <2>2, <2>3
<1> HIDE DEF m
<1>7. fb = from + fa
  BY <1>1, <1>3
<1> HIDE DEF a, b, fa, fb, from
<1>8. Len(a) = Len(b)
  BY <1>1, <1>3, <1>5, <1>6, <1>7
<1>9. ASSUME NEW i \in 1..Len(a) PROVE a[i] = b[i]
  <2>1. a[i] = lx[fa + i] /\ b[i] = hx[from + fa + i]
    BY <1>5, <1>6, <1>7, <1>8, <1>9
  <2> DEFINE j == fa + i
             y == from + j
  <2>2. j \in 1..(k + 1) /\ from + fa + i = y
    BY <1>1, <1>3, <1>5, <1>9
  <2> HIDE DEF j
  <2>3. CASE j = k + 1
    <3>1. y = m + 1
      BY <1>1, <1>3, <2>3
    <3> QED BY <1>2, <1>4, <2>1, <2>2, <2>3, <3>1 DEF j
  <2>4. CASE j \in 1..k
    <3>1. y \in 1..m
      BY <1>1, <1>3, <2>4
    <3>2. lx[j] = l[j] /\ l[j] = h[y] /\ hx[y] = h[y]
      BY <1>1, <1>2, <1>4, <2>4, <3>1
    <3> QED BY <2>1, <2>2, <3>2 DEF j
  <2> QED BY <1>3, <2>2, <2>3, <2>4
<1>10. a = b
  BY <1>5, <1>6, <1>8, <1>9, SeqEqual
<1> QED BY <1>10 DEF a, b, lx, hx, l

LEMMA HadHotGrows ==
  ASSUME NEW S, NEW h \in Seq(S), NEW x \in S
  PROVE  /\ HadHot(Append(h, x)) <=> HadHot(h) \/ Hot(Latest(Append(h, x), Window))
         /\ ~HadHot(<< >>)
<1> DEFINE m == Len(h)
           hx == Append(h, x)
<1>1. /\ hx \in Seq(S) /\ Len(hx) = m + 1 /\ m \in Nat
      /\ \A i \in 1..m : hx[i] = h[i]
  BY AppendProperties, LenProperties
<1> HIDE DEF hx, m
<1>2. SubSeq(hx, 1, m + 1) = hx
  <2> DEFINE s == SubSeq(hx, 1, m + 1)
  <2>1. \A i \in 1..(m + 1) : hx[i] \in S
    BY <1>1, ElementOfSeq
  <2>2. /\ s \in Seq(S) /\ Len(s) = IF 1 <= m + 1 THEN (m + 1) - 1 + 1 ELSE 0
        /\ \A i \in 1..((m + 1) - 1 + 1) : s[i] = hx[1 + i - 1]
    BY <1>1, <2>1, SubSeqProperties
  <2> HIDE DEF s
  <2>3. Len(s) = Len(hx) /\ \A i \in 1..Len(s) : s[i] = hx[i]
    BY <1>1, <2>2
  <2>4. s = hx
    BY <1>1, <2>2, <2>3, SeqEqual
  <2> QED BY <2>4 DEF s
<1>3. ASSUME NEW n \in 1..m PROVE SubSeq(hx, 1, n) = SubSeq(h, 1, n)
  <2> DEFINE s == SubSeq(hx, 1, n)
             t == SubSeq(h, 1, n)
  <2>1. \A i \in 1..n : i \in 1..m
    BY <1>1, <1>3
  <2>2. \A i \in 1..n : h[i] \in S /\ hx[i] \in S /\ hx[i] = h[i]
    BY <1>1, <2>1, ElementOfSeq DEF m
  <2>3. n \in Int /\ 1 <= n /\ n - 1 + 1 = n
    BY <1>1, <1>3
  <2>4. /\ s \in Seq(S) /\ Len(s) = IF 1 <= n THEN n - 1 + 1 ELSE 0
        /\ \A i \in 1..(n - 1 + 1) : s[i] = hx[1 + i - 1]
    BY <2>2, <2>3, SubSeqProperties
  <2>5. /\ t \in Seq(S) /\ Len(t) = IF 1 <= n THEN n - 1 + 1 ELSE 0
        /\ \A i \in 1..(n - 1 + 1) : t[i] = h[1 + i - 1]
    BY <2>2, <2>3, SubSeqProperties
  <2> HIDE DEF s, t
  <2>6. Len(s) = Len(t) /\ \A i \in 1..Len(s) : s[i] = t[i]
    BY <2>2, <2>3, <2>4, <2>5
  <2>7. s = t
    BY <2>4, <2>5, <2>6, SeqEqual
  <2> QED BY <2>7 DEF s, t
<1>4. \A n \in 1..(m + 1) : n \in 1..m \/ n = m + 1
  BY <1>1
<1>5. (\A n \in 1..m : n \in 1..(m + 1)) /\ m + 1 \in 1..(m + 1)
  BY <1>1
<1>6. HadHot(hx) <=> \E n \in 1..(m + 1) : Hot(Latest(SubSeq(hx, 1, n), Window))
  BY <1>1 DEF HadHot
<1>7. HadHot(h) <=> \E n \in 1..m : Hot(Latest(SubSeq(h, 1, n), Window))
  BY DEF HadHot, m
<1>8. HadHot(hx) <=> HadHot(h) \/ Hot(Latest(hx, Window))
  BY <1>2, <1>3, <1>4, <1>5, <1>6, <1>7
<1>9. ~HadHot(<< >>)
  BY DEF HadHot
<1> QED BY <1>8, <1>9 DEF hx

\* A monitor that heard exactly these events has their latest outcomes, and
\* has acted on exactly the adapters that had a hot window.
Knows(m, seq) ==
  \A a \in Adapters : /\ m.outcomes[a] = Latest(Record(seq, a), Window)
                      /\ a \in m.acted <=> HadHot(Record(seq, a))

\* Whoever it acted on since is to be demoted, and retrained.
Decided(m, since) ==
  /\ since.acted \subseteq m.acted
  /\ m.acted \ since.acted \subseteq m.demote \cap m.retrain
  /\ m.demote \subseteq since.demote \cup m.acted

LEMMA ObserveKnows ==
  ASSUME RequestAssumption, NEW m \in Monitor, NEW s \in Seq(Told), NEW e \in Told,
         e.kind \in {"served", "conflict"} \/ e.adapters = {}, Knows(m, s)
  PROVE  Knows(Observe(m, e), Append(s, e)) /\ Decided(Observe(m, e), m)
         /\ m.demote \subseteq Observe(m, e).demote /\ m.retrain \subseteq Observe(m, e).retrain
<1> DEFINE heard == IF e.kind \in {"served", "conflict"} THEN e.adapters ELSE {}
           x == (e.kind = "conflict")
           outcomes == [a \in Adapters |-> IF a \in heard THEN Outcomes(m, a, x) ELSE m.outcomes[a]]
           seen == [m EXCEPT !.outcomes = outcomes]
           critical == {a \in heard : Assessed(seen, a) /\ Above(seen.outcomes[a], Critical)}
           stale == {a \in heard : Assessed(seen, a) /\ Above(seen.outcomes[a], Staleness)}
           after == Observe(m, e)
           se == Append(s, e)
<1>1. heard = e.adapters /\ heard \in SUBSET Adapters
  BY DEF Told
<1>2. after = [seen EXCEPT !.demote = @ \cup critical, !.acted = @ \cup critical,
                                  !.retrain = @ \cup critical \cup stale]
  BY DEF Observe
<1>3. seen = [outcomes |-> outcomes, retrain |-> m.retrain, demote |-> m.demote, acted |-> m.acted]
  <2> HIDE DEF outcomes
  <2> QED BY DEF Monitor
<1> HIDE DEF heard, outcomes, x
<1>4. /\ seen.outcomes = outcomes /\ seen.acted = m.acted
      /\ after.outcomes = outcomes /\ after.acted = m.acted \cup critical
      /\ after.demote = m.demote \cup critical /\ after.retrain = m.retrain \cup critical \cup stale
  <2> HIDE DEF critical, stale, seen, after
  <2> QED BY <1>2, <1>3
<1> HIDE DEF seen, after, se
<1>5. ASSUME NEW a \in Adapters
      PROVE  outcomes[a] = Latest(Record(se, a), Window) /\ outcomes[a] \in Seq(BOOLEAN)
  <2> DEFINE B == BOOLEAN
             h == Record(s, a)
  <2>1. h \in Seq(B) /\ Window \in Nat \ {0} /\ m.outcomes[a] = Latest(h, Window) /\ x \in B
    BY RecordGrows DEF RequestAssumption, Knows, x
  <2>2. /\ a \in heard => Record(se, a) = Append(h, x)
        /\ a \notin heard => Record(se, a) = h
    BY <1>1, RecordGrows DEF se, x
  <2> HIDE DEF B, h
  <2>3. Latest(Append(Latest(h, Window), x), Window) = Latest(Append(h, x), Window)
    BY <2>1, LatestOfMore
  <2> DEFINE hx == Append(h, x)
  <2>4. hx \in Seq(B)
    BY <2>1, AppendProperties
  <2> HIDE DEF hx
  <2>5. Latest(h, Window) \in Seq(B) /\ Latest(hx, Window) \in Seq(B)
    BY <2>1, <2>4, LatestFacts
  <2>6. CASE a \in heard
    BY <2>1, <2>2, <2>3, <2>5, <2>6 DEF outcomes, Outcomes, hx, B
  <2>7. CASE a \notin heard
    BY <2>1, <2>2, <2>5, <2>7 DEF outcomes, B
  <2> QED BY <2>6, <2>7
<1>6. ASSUME NEW a \in Adapters
      PROVE  a \in critical <=> a \in heard /\ a \notin m.acted /\ Hot(outcomes[a])
  BY <1>4 DEF Assessed, Hot
<1>7. ASSUME NEW a \in Adapters
      PROVE  a \in after.acted <=> HadHot(Record(se, a))
  <2> DEFINE B == BOOLEAN
             h == Record(s, a)
  <2>1. h \in Seq(B) /\ x \in B /\ (a \in m.acted <=> HadHot(h))
    BY RecordGrows DEF Knows, x
  <2>2. /\ a \in heard => Record(se, a) = Append(h, x)
        /\ a \notin heard => Record(se, a) = h
    BY <1>1, RecordGrows DEF se, x
  <2> HIDE DEF B, h, critical
  <2>3. HadHot(Append(h, x)) <=> HadHot(h) \/ Hot(Latest(Append(h, x), Window))
    BY <2>1, HadHotGrows
  <2>4. a \in after.acted <=> a \in m.acted \/ a \in critical
    BY <1>4
  <2>5. CASE a \in heard
    BY <1>5, <1>6, <2>1, <2>2, <2>3, <2>4, <2>5
  <2>6. CASE a \notin heard
    BY <1>6, <2>1, <2>2, <2>4, <2>6
  <2> QED BY <2>5, <2>6
<1> HIDE DEF critical, stale
<1>8. Knows(after, se)
  BY <1>4, <1>5, <1>7 DEF Knows
<1>9. Decided(after, m) /\ m.demote \subseteq after.demote /\ m.retrain \subseteq after.retrain
  BY <1>4 DEF Decided
<1> QED BY <1>8, <1>9 DEF after, se

\* Hearing the events of a request one by one.
LEMMA HeardKnows ==
  ASSUME RequestAssumption, NEW m \in Monitor, NEW s \in Seq(Told), NEW r, NEW events,
         EventsFrom(r, events), Knows(m, s)
  PROVE  Knows(Heard(m, events), s \o events) /\ Decided(Heard(m, events), m)
<1> DEFINE S == Told
           n == Len(events)
           h == Hears(m, events)
           first(k) == s \o SubSeq(events, 1, k)
           Good(k) == /\ Knows(h[k], first(k)) /\ Decided(h[k], m)
                      /\ m.demote \subseteq h[k].demote
           P == {k \in Nat : k <= n => Good(k)}
<1>1. /\ events \in Seq(S) /\ s \in Seq(S) /\ n \in Nat
      /\ \A i \in 1..n : events[i] \in S /\ Tells(r, events[i])
  BY LenProperties, ElementOfSeq DEF EventsFrom
<1>2. /\ h[0] = m
      /\ \A i \in 1..n : h[i] = Observe(h[i - 1], events[i])
      /\ \A i \in 0..n : h[i] \in Monitor
  BY <1>1, HearsFacts
<1> HIDE DEF h
<1>3. ASSUME NEW k \in Nat, k <= n
      PROVE  /\ SubSeq(events, 1, k) \in Seq(S) /\ Len(SubSeq(events, 1, k)) = k
             /\ \A i \in 1..k : SubSeq(events, 1, k)[i] = events[i]
  <2> HIDE DEF S
  <2> DEFINE p == SubSeq(events, 1, k)
  <2>1. \A i \in 1..k : events[i] \in S
    BY <1>1, <1>3
  <2>2. /\ p \in Seq(S) /\ Len(p) = IF 1 <= k THEN k - 1 + 1 ELSE 0
        /\ \A i \in 1..(k - 1 + 1) : p[i] = events[1 + i - 1]
    BY <1>1, <1>3, <2>1, SubSeqProperties
  <2> HIDE DEF p
  <2>3. p \in Seq(S) /\ Len(p) = k /\ \A i \in 1..k : p[i] = events[i]
    BY <1>3, <2>2
  <2> QED BY <2>3 DEF p
<1>4. first(0) = s /\ first(n) = s \o events
  <2> HIDE DEF S
  <2>1. SubSeq(events, 1, 0) = << >>
    BY SubSeqEmpty
  <2>2. s \o << >> = s
    BY <1>1, ConcatEmptySeq
  <2> DEFINE p == SubSeq(events, 1, n)
  <2>3. p \in Seq(S) /\ Len(p) = n /\ \A i \in 1..n : p[i] = events[i]
    BY <1>1, <1>3
  <2> HIDE DEF p
  <2>4. p = events
    <3>1. Len(p) = Len(events) /\ \A i \in 1..Len(p) : p[i] = events[i]
      BY <2>3 DEF n
    <3>2. p \in Seq(S)
      BY <2>3
    <3> QED BY <1>1, <3>1, <3>2, SeqEqual
  <2> QED BY <2>1, <2>2, <2>4 DEF p
<1>5. ASSUME NEW k \in Nat, k + 1 <= n
      PROVE  first(k + 1) = Append(first(k), events[k + 1]) /\ first(k) \in Seq(S)
  <2> HIDE DEF S, n
  <2> DEFINE p == SubSeq(events, 1, k)
             q == SubSeq(events, 1, k + 1)
             e == events[k + 1]
             pe == Append(p, e)
  <2>1. k <= n /\ k + 1 \in Nat /\ k + 1 \in 1..n
    BY <1>1, <1>5
  <2>2. p \in Seq(S) /\ Len(p) = k /\ \A i \in 1..k : p[i] = events[i]
    BY <1>3, <2>1
  <2>3. q \in Seq(S) /\ Len(q) = k + 1 /\ \A i \in 1..(k + 1) : q[i] = events[i]
    BY <1>3, <1>5, <2>1
  <2>4. e \in S
    BY <1>1, <2>1
  <2> HIDE DEF p, q, e
  <2>5. /\ pe \in Seq(S) /\ Len(pe) = Len(p) + 1 /\ pe[Len(p) + 1] = e
        /\ \A i \in 1..Len(p) : pe[i] = p[i]
    <3>1. p \in Seq(S)
      BY <2>2
    <3> QED BY <2>4, <3>1, AppendProperties
  <2> HIDE DEF pe
  <2>6. q = pe
    <3>1. Len(q) = Len(pe)
      BY <2>2, <2>3, <2>5
    <3>2. \A i \in 1..(k + 1) : i \in 1..k \/ i = k + 1
      OBVIOUS
    <3>3. \A i \in 1..Len(q) : q[i] = pe[i]
      BY <2>2, <2>3, <2>5, <3>2 DEF e
    <3>4. q \in Seq(S) /\ pe \in Seq(S)
      BY <2>3, <2>5
    <3> QED BY <3>1, <3>3, <3>4, SeqEqual
  <2>7. With(Then(s, p), e) = Then(s, With(p, e))
    BY <1>1, <2>2, <2>4, WithThen
  <2>8. s \o p \in Seq(S)
    <3>1. p \in Seq(S)
      BY <2>2
    <3> QED BY <1>1, <3>1, ConcatProperties
  <2> QED BY <2>6, <2>7, <2>8 DEF With, Then, pe, p, q, e
<1> HIDE DEF first, S
<1>6. 0 \in P
  BY <1>2, <1>4 DEF Decided
<1>7. ASSUME NEW k \in Nat, k \in P PROVE k + 1 \in P
  <2> SUFFICES ASSUME k + 1 <= n PROVE Good(k + 1)
    OBVIOUS
  <2> DEFINE e == events[k + 1]
             old == h[k]
             new == h[k + 1]
             f == first(k)
  <2>1. k \in 0..n /\ k + 1 \in 1..n /\ (k + 1) - 1 = k /\ k <= n
    BY <1>1
  <2>2. Knows(old, f) /\ Decided(old, m) /\ m.demote \subseteq old.demote
    BY <1>7, <2>1
  <2>3. new = Observe(old, e) /\ old \in Monitor /\ e \in S /\ Tells(r, e)
    BY <1>1, <1>2, <2>1
  <2>4. first(k + 1) = Append(f, e) /\ f \in Seq(S)
    BY <1>5
  <2> HIDE DEF e, old, new, f
  <2>5. /\ Knows(Observe(old, e), Append(f, e)) /\ Decided(Observe(old, e), old)
        /\ old.demote \subseteq Observe(old, e).demote /\ old.retrain \subseteq Observe(old, e).retrain
    BY <2>2, <2>3, <2>4, ObserveKnows DEF S, Tells
  <2>6. Decided(new, m) /\ m.demote \subseteq new.demote
    BY <2>2, <2>3, <2>5 DEF Decided
  <2> QED BY <2>3, <2>4, <2>5, <2>6 DEF new
<1> HIDE DEF P
<1>8. n \in P
  BY <1>1, <1>6, <1>7, Induction
<1>9. Knows(h[n], s \o events) /\ Decided(h[n], m)
  <2>1. n <= n
    BY <1>1
  <2> HIDE DEF Good
  <2>2. Good(n)
    BY <1>8, <2>1 DEF P
  <2>3. Knows(h[n], first(n)) /\ Decided(h[n], m)
    BY <2>2 DEF Good
  <2>4. first(n) = s \o events
    BY <1>4
  <2> QED BY <2>3, <2>4, Zenon
<1> QED BY <1>9 DEF Heard, h, n

\* Between the steps the monitor knows all that was published and holds no
\* decision back; whoever it acted on is demoted, or some request is about to,
\* and in the retraining queue, or some request is about to put it there.
Demoted(a) == a \in demoted \/ \E r \in Requests : a \in run[r].demote
Queued(a) == a \in ToSet(retrain_queue) \/ \E r \in Requests : a \in run[r].retrain

MonitorInv ==
  /\ Knows(monitor, published)
  /\ monitor.demote = {}
  /\ \A a \in monitor.acted : Demoted(a) /\ Queued(a)
  /\ demoted \subseteq monitor.acted
  /\ \A r \in Requests : run[r].demote \subseteq monitor.acted
  /\ \A r \in Requests : run[r].stage \in {"new", "running", "over", "lost"} =>
       run[r].demote = {} /\ run[r].retrain = {}

LEMMA MonitorActs ==
  ASSUME TypeInv, MonitorInv
  PROVE  MonitorActsExactlyWhenCritical
<1> SUFFICES ASSUME NEW a \in Adapters
             PROVE  LET windows == {Latest(SubSeq(History(a), 1, n), Window) : n \in DOMAIN History(a)}
                        critical == {w \in windows : Len(w) >= MinSamples /\ Above(w, Critical)}
                    IN  /\ a \in monitor.acted <=> critical # {}
                        /\ a \in monitor.acted =>
                             /\ a \in demoted \/ \E r \in Requests : a \in run[r].demote
                             /\ a \in ToSet(retrain_queue) \/ \E r \in Requests : a \in run[r].retrain
                        /\ a \in demoted => a \in monitor.acted
  BY DEF MonitorActsExactlyWhenCritical
<1> DEFINE h == Record(published, a)
           windows == {Latest(SubSeq(h, 1, n), Window) : n \in DOMAIN h}
           critical == {w \in windows : Len(w) >= MinSamples /\ Above(w, Critical)}
<1>1. History(a) = h
  BY DEF History, Record, About
<1>2. DOMAIN h = 1..Len(h)
  <2> DEFINE B == BOOLEAN
             S == Told
  <2>1. published \in Seq(S)
    BY DEF TypeInv
  <2>2. h \in Seq(B)
    BY <2>1, RecordType
  <2> HIDE DEF h, B
  <2> QED BY <2>2, LenProperties
<1> HIDE DEF h
<1>3. HadHot(h) <=> critical # {}
  BY <1>2 DEF HadHot, Hot
<1>4. a \in monitor.acted <=> HadHot(h)
  BY DEF MonitorInv, Knows, h
<1>5. a \in monitor.acted => Demoted(a) /\ Queued(a)
  BY DEF MonitorInv
<1>6. a \in demoted => a \in monitor.acted
  BY DEF MonitorInv
<1> HIDE DEF critical
<1>7. a \in monitor.acted <=> critical # {}
  BY <1>3, <1>4
<1> QED BY <1>1, <1>5, <1>6, <1>7 DEF Demoted, Queued, critical

\* A step after which each request still has to demote and to queue whom it had
\* to, and the monitor has heard nothing.
LEMMA MonitorStands ==
  ASSUME MonitorInv, UNCHANGED <<published, monitor, demoted, retrain_queue>>,
         \A q \in Requests :
           /\ run'[q].demote = run[q].demote /\ run'[q].retrain = run[q].retrain
           /\ run'[q].stage \in {"new", "running", "over", "lost"} =>
                \/ run[q].stage \in {"new", "running", "over", "lost"}
                \/ run[q].demote = {} /\ run[q].retrain = {}
  PROVE  MonitorInv'
<1>1. \A a : (Demoted(a)' <=> Demoted(a)) /\ (Queued(a)' <=> Queued(a))
  BY DEF Demoted, Queued
<1>2. /\ demoted' \subseteq monitor'.acted
      /\ \A r \in Requests : run'[r].demote \subseteq monitor'.acted
      /\ \A r \in Requests : run'[r].stage \in {"new", "running", "over", "lost"} =>
           run'[r].demote = {} /\ run'[r].retrain = {}
  BY DEF MonitorInv
<1>3. Knows(monitor, published)' /\ monitor'.demote = {}
  BY DEF MonitorInv, Knows
<1>4. \A a \in monitor'.acted : Demoted(a)' /\ Queued(a)'
  BY <1>1 DEF MonitorInv
<1> QED BY <1>2, <1>3, <1>4 DEF MonitorInv

LEMMA MonitorHears ==
  ASSUME RequestAssumption, TypeInv, MonitorInv, EventInv, NEW r \in Requests, Finish(r)
  PROVE  MonitorInv'
<1> DEFINE e == run[r].events
           heard == Heard(monitor, e)
<1>1. /\ Others(r) /\ run[r].stage = "over" /\ run'[r].stage = "deciding"
      /\ run'[r].demote = heard.demote /\ run'[r].retrain = heard.retrain
      /\ heard \in Monitor /\ published' = published \o e
      /\ monitor'.acted = heard.acted /\ monitor'.outcomes = heard.outcomes /\ monitor'.demote = {}
  BY FinishSteps
<1>2. UNCHANGED <<demoted, retrain_queue>>
  BY DEF Finish
<1>3. Knows(heard, published \o e) /\ Decided(heard, monitor)
  <2>1. EventsFrom(r, e) /\ Knows(monitor, published) /\ monitor \in Monitor /\ published \in Seq(Told)
    BY DEF EventInv, MonitorInv, TypeInv
  <2> HIDE DEF e
  <2> QED BY <2>1, HeardKnows
<1>4. monitor.demote = {} /\ run[r].demote = {} /\ run[r].retrain = {}
  BY <1>1 DEF MonitorInv
<1> HIDE DEF heard, e
<1>5. Knows(monitor, published)'
  BY <1>1, <1>3 DEF Knows
<1>6. /\ monitor.acted \subseteq monitor'.acted
      /\ monitor'.acted \ monitor.acted \subseteq run'[r].demote \cap run'[r].retrain
      /\ run'[r].demote \subseteq monitor'.acted
  BY <1>1, <1>3, <1>4 DEF Decided
<1>7. ASSUME NEW a \in monitor'.acted PROVE Demoted(a)' /\ Queued(a)'
  <2>1. CASE a \in monitor.acted
    <3>1. Demoted(a) /\ Queued(a)
      BY <2>1 DEF MonitorInv
    <3>2. \A q \in Requests : a \in run[q].demote => q # r /\ run'[q] = run[q]
      BY <1>1, <1>4 DEF Others
    <3>3. \A q \in Requests : a \in run[q].retrain => q # r /\ run'[q] = run[q]
      BY <1>1, <1>4 DEF Others
    <3> QED BY <1>2, <3>1, <3>2, <3>3 DEF Demoted, Queued
  <2>2. CASE a \notin monitor.acted
    BY <1>6, <2>2 DEF Demoted, Queued
  <2> QED BY <2>1, <2>2
<1>8. ASSUME NEW q \in Requests
      PROVE  /\ run'[q].demote \subseteq monitor'.acted
             /\ run'[q].stage \in {"new", "running", "over", "lost"} =>
                  run'[q].demote = {} /\ run'[q].retrain = {}
  <2>1. CASE q = r
    BY <1>1, <1>6, <2>1
  <2>2. CASE q # r
    BY <1>1, <1>6, <2>2 DEF Others, MonitorInv
  <2> QED BY <2>1, <2>2
<1>9. demoted' \subseteq monitor'.acted
  BY <1>2, <1>6 DEF MonitorInv
<1> QED BY <1>1, <1>5, <1>7, <1>8, <1>9 DEF MonitorInv

LEMMA MonitorDemotes ==
  ASSUME RequestAssumption, TypeInv, MonitorInv, NEW r \in Requests, Demote(r)
  PROVE  MonitorInv'
<1>1. PICK a \in run[r].demote :
        /\ run'[r].demote = run[r].demote \ {a} /\ demoted' = demoted \cup {a}
        /\ Others(r) /\ run[r].stage = "deciding" /\ run'[r].stage = "deciding"
        /\ run'[r].retrain = run[r].retrain
  BY DemoteSteps
<1>2. UNCHANGED <<published, monitor, retrain_queue>>
  BY DEF Demote
<1>3. ASSUME NEW b \in monitor.acted PROVE Demoted(b)' /\ Queued(b)'
  <2>1. Demoted(b) /\ Queued(b)
    BY DEF MonitorInv
  <2>2. Demoted(b)'
    <3>1. CASE b \in demoted'
      BY <3>1 DEF Demoted
    <3>2. CASE b \notin demoted'
      <4>1. PICK q \in Requests : b \in run[q].demote
        BY <1>1, <2>1, <3>2 DEF Demoted
      <4>2. b \in run'[q].demote
        BY <1>1, <3>2, <4>1 DEF Others
      <4> QED BY <4>2 DEF Demoted
    <3> QED BY <3>1, <3>2
  <2>3. Queued(b)'
    <3>1. \A q \in Requests : run'[q].retrain = run[q].retrain
      BY <1>1 DEF Others
    <3> QED BY <1>2, <2>1, <3>1 DEF Queued
  <2> QED BY <2>2, <2>3
<1>4. ASSUME NEW q \in Requests
      PROVE  /\ run'[q].demote \subseteq monitor.acted
             /\ run'[q].stage \in {"new", "running", "over", "lost"} =>
                  run'[q].demote = {} /\ run'[q].retrain = {}
  <2>1. CASE q = r
    BY <1>1, <2>1 DEF MonitorInv
  <2>2. CASE q # r
    BY <1>1, <2>2 DEF Others, MonitorInv
  <2> QED BY <2>1, <2>2
<1>5. demoted' \subseteq monitor.acted
  BY <1>1 DEF MonitorInv
<1>6. Knows(monitor, published)' /\ monitor'.demote = {}
  BY <1>2 DEF MonitorInv, Knows
<1> QED BY <1>2, <1>3, <1>4, <1>5, <1>6 DEF MonitorInv

LEMMA MonitorQueues ==
  ASSUME RequestAssumption, TypeInv, MonitorInv, NEW r \in Requests, QueueRetraining(r)
  PROVE  MonitorInv'
<1>1. /\ Others(r) /\ run[r].demote = {} /\ run'[r].demote = {} /\ run'[r].retrain = {}
      /\ ToSet(retrain_queue') = ToSet(retrain_queue) \cup run[r].retrain
  BY QueueSteps
<1>2. UNCHANGED <<published, monitor, demoted>>
  BY DEF QueueRetraining
<1>3. ASSUME NEW b \in monitor.acted PROVE Demoted(b)' /\ Queued(b)'
  <2>1. Demoted(b) /\ Queued(b)
    BY DEF MonitorInv
  <2>2. \A q \in Requests : run'[q].demote = run[q].demote
    BY <1>1 DEF Others
  <2>3. Demoted(b)'
    BY <1>2, <2>1, <2>2 DEF Demoted
  <2>4. CASE b \in ToSet(retrain_queue')
    BY <2>3, <2>4 DEF Queued
  <2>5. CASE b \notin ToSet(retrain_queue')
    <3>1. PICK q \in Requests : b \in run[q].retrain
      BY <1>1, <2>1, <2>5 DEF Queued
    <3>2. q # r
      BY <1>1, <2>5, <3>1
    <3>3. b \in run'[q].retrain
      BY <1>1, <3>1, <3>2 DEF Others
    <3> QED BY <2>3, <3>3 DEF Queued
  <2> QED BY <2>4, <2>5
<1>4. ASSUME NEW q \in Requests
      PROVE  /\ run'[q].demote \subseteq monitor.acted
             /\ run'[q].stage \in {"new", "running", "over", "lost"} =>
                  run'[q].demote = {} /\ run'[q].retrain = {}
  <2>1. CASE q = r
    BY <1>1, <2>1
  <2>2. CASE q # r
    BY <1>1, <2>2 DEF Others, MonitorInv
  <2> QED BY <2>1, <2>2
<1>5. Knows(monitor, published)' /\ monitor'.demote = {} /\ demoted' \subseteq monitor.acted
  BY <1>2 DEF MonitorInv, Knows
<1> QED BY <1>2, <1>3, <1>4, <1>5 DEF MonitorInv

\* The steps before a request ends, and the last one, move nothing of this.
LEMMA MonitorWaits ==
  ASSUME MonitorInv, NEW r \in Requests, Others(r),
         UNCHANGED <<published, monitor, demoted, retrain_queue>>,
         run'[r].demote = run[r].demote, run'[r].retrain = run[r].retrain,
         run[r].stage \in {"new", "running", "over", "lost"} \/ run'[r].stage = "done"
  PROVE  MonitorInv'
<1>1. ASSUME NEW q \in Requests
      PROVE  /\ run'[q].demote = run[q].demote /\ run'[q].retrain = run[q].retrain
             /\ run'[q].stage \in {"new", "running", "over", "lost"} =>
                  \/ run[q].stage \in {"new", "running", "over", "lost"}
                  \/ run[q].demote = {} /\ run[q].retrain = {}
  <2>1. CASE q = r
    BY <2>1
  <2>2. CASE q # r
    BY <2>2 DEF Others
  <2> QED BY <2>1, <2>2
<1> QED BY <1>1, MonitorStands

LEMMA MonitorStep ==
  ASSUME RequestAssumption, MemoryInv, EventInv, MonitorInv, [RequestNext]_requestVars
  PROVE  MonitorInv'
<1> USE DEF MemoryInv
<1>1. ASSUME NEW r \in Requests, NEW text \in QueryTexts[r], NEW broken, Receive(r, text, broken)
      PROVE  MonitorInv'
  <2>1. Others(r) /\ run'[r].demote = run[r].demote /\ run'[r].retrain = run[r].retrain
    BY <1>1, ReceiveSteps
  <2>2. run[r].stage = "new" /\ UNCHANGED <<published, monitor, demoted, retrain_queue>>
    BY <1>1 DEF Receive
  <2> QED BY <2>1, <2>2, MonitorWaits
<1>2. ASSUME NEW r \in Requests, Select(r) \/ Draft(r)
      PROVE  MonitorInv'
  <2>1. \A q \in Requests : Alike(q)
    BY <1>2, QuietSteps
  <2>2. UNCHANGED <<published, monitor, demoted, retrain_queue>>
    BY <1>2 DEF Select, Draft
  <2> QED BY <2>1, <2>2, MonitorStands DEF Alike
<1>3. ASSUME NEW r \in Requests, NEW text \in AnswerTexts[r], NEW broken, NEW screened,
             NEW claims \in 0..MaxClaims[r], NEW stands,
             Answer(r, text, screened, claims, stands, broken)
      PROVE  MonitorInv'
  <2>1. Others(r) /\ run'[r].demote = run[r].demote /\ run'[r].retrain = run[r].retrain
    BY <1>3, AnswerSteps
  <2>2. run[r].stage = "running" /\ UNCHANGED <<published, monitor, demoted, retrain_queue>>
    BY <1>3 DEF Answer
  <2> QED BY <2>1, <2>2, MonitorWaits
<1>4. ASSUME NEW r \in Requests, NEW ending \in Endings[r], NEW screened,
             NEW claims \in 0..MaxClaims[r], EndOtherwise(r, ending, screened, claims)
      PROVE  MonitorInv'
  <2>1. Others(r) /\ run'[r].demote = run[r].demote /\ run'[r].retrain = run[r].retrain
    BY <1>4, EndOtherwiseSteps
  <2>2. run[r].stage = "running" /\ UNCHANGED <<published, monitor, demoted, retrain_queue>>
    BY <1>4 DEF EndOtherwise
  <2> QED BY <2>1, <2>2, MonitorWaits
<1>5. ASSUME NEW r \in Requests, Finish(r)
      PROVE  MonitorInv'
  BY <1>5, MonitorHears
<1>6. ASSUME NEW r \in Requests, Demote(r)
      PROVE  MonitorInv'
  BY <1>6, MonitorDemotes
<1>7. ASSUME NEW r \in Requests, QueueRetraining(r)
      PROVE  MonitorInv'
  BY <1>7, MonitorQueues
<1>8. ASSUME NEW r \in Requests, RememberAnswer(r)
      PROVE  MonitorInv'
  <2>1. /\ Others(r) /\ run'[r].demote = run[r].demote /\ run'[r].retrain = run[r].retrain
        /\ run'[r].stage = "done"
    BY <1>8, RememberSteps
  <2>2. UNCHANGED <<published, monitor, demoted, retrain_queue>>
    BY <1>8 DEF RememberAnswer
  <2> QED BY <2>1, <2>2, MonitorWaits
<1>9. CASE (\E a \in Adapters : Activate(a)) \/ UNCHANGED requestVars
  <2>1. (\A q \in Requests : Alike(q)) /\ UNCHANGED <<published, monitor, demoted, retrain_queue>>
    BY <1>9, IdleSteps
  <2> QED BY <2>1, MonitorStands DEF Alike
<1> QED BY <1>1, <1>2, <1>3, <1>4, <1>5, <1>6, <1>7, <1>8, <1>9 DEF RequestNext

LEMMA MonitorStart ==
  ASSUME RequestAssumption, RequestInit
  PROVE  MonitorInv
<1>1. /\ \A r \in Requests : run[r].demote = {} /\ run[r].retrain = {}
      /\ published = << >> /\ demoted = {}
      /\ monitor = [outcomes |-> [a \in Adapters |-> << >>], retrain |-> {}, demote |-> {}, acted |-> {}]
  BY DEF RequestInit, NewRun
<1>2. \A a : Record(published, a) = << >>
  <2>1. \A K : Picked(published, K) = << >>
    BY <1>1, PickedEmpty
  <2> QED BY <2>1 DEF Record
<1>3. Latest(<< >>, Window) = << >>
  <2> DEFINE S == {}
             none == << >>
             l == Latest(none, Window)
  <2>1. none \in Seq(S) /\ Window \in Nat \ {0} /\ Len(none) = 0
    BY DEF RequestAssumption
  <2> HIDE DEF S, none
  <2>2. none \in Seq(S) /\ Window \in Nat \ {0}
    BY <2>1
  <2>3. /\ l \in Seq(S) /\ Len(none) \in Nat
        /\ Len(l) = Len(none) - IF Len(none) > Window THEN Len(none) - Window ELSE 0
    BY <2>2, LatestFacts
  <2> HIDE DEF l
  <2>4. Len(l) = 0
    <3>1. ~(Len(none) > Window)
      BY ONLY <2>1, <2>2
    <3>2. Len(l) = Len(none) - 0
      BY ONLY <2>3, <3>1
    <3> QED BY ONLY <2>1, <3>2
  <2>5. l = << >>
    BY <2>3, <2>4, EmptySeq
  <2> QED BY <2>5 DEF l, none
<1>4. ~HadHot(<< >>)
  BY DEF HadHot
<1>5. Knows(monitor, published)
  BY <1>1, <1>2, <1>3, <1>4 DEF Knows
<1> QED BY <1>1, <1>5 DEF MonitorInv

\* For every order in which events reach it: the monitor decides against an
\* adapter exactly when some window of its history was large enough and
\* critical, and the decision reaches the registry and the retraining queue or
\* is with the request that will take it there (ConflictMonitor.observe,
\* _finish, _apply_conflict_decisions).
THEOREM MonitorActsWhenCritical == RequestSpec => []MonitorActsExactlyWhenCritical
<1>1. RequestInit => MemoryInv /\ EventInv /\ MonitorInv
  BY RequestAssumption, MemoryStart, EventStart, MonitorStart
<1>2. MemoryInv /\ EventInv /\ MonitorInv /\ [RequestNext]_requestVars => (MemoryInv /\ EventInv /\ MonitorInv)'
  BY RequestAssumption, MemoryStep, EventStep, MonitorStep
<1>3. MemoryInv /\ MonitorInv => MonitorActsExactlyWhenCritical
  BY MonitorActs DEF MemoryInv
<1> QED BY <1>1, <1>2, <1>3, PTL DEF RequestSpec

==============================================================================
