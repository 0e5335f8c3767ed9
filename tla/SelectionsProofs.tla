-------------------------- MODULE SelectionsProofs ---------------------------
(***************************************************************************)
(* Induction over the naturals in first-order form, what a selection of a  *)
(* sequence is, and what a sequence of sequences put together is.          *)
(***************************************************************************)
EXTENDS Selections, SequencesExt, SequenceTheorems, FiniteSetTheorems, WellFoundedInduction, TLAPS

-----------------------------------------------------------------------------
(* Induction. *)

\* A set of numbers has a least one.
LEMMA LeastNumber ==
  ASSUME NEW S \in SUBSET Nat, S # {}
  PROVE  \E m \in S : \A n \in S : m <= n
<1>1. PICK m \in S : \A n \in S : <<n, m>> \notin OpToRel(<, Nat)
  BY NatLessThanWellFounded, WFMin
<1>2. \A n \in S : n < m => <<n, m>> \in OpToRel(<, Nat)
  BY DEF OpToRel
<1>3. \A n \in S : ~(n < m)
  BY <1>1, <1>2
<1>4. \A n \in S : m <= n
  BY <1>3
<1> QED BY <1>4

\* What holds of zero, and of a number's successor with the number, holds of all.
LEMMA Induction ==
  ASSUME NEW P, 0 \in P, \A n \in Nat : n \in P => n + 1 \in P
  PROVE  Nat \subseteq P
<1> SUFFICES ASSUME Nat \ P # {}
             PROVE  FALSE
  OBVIOUS
<1>1. PICK m \in Nat \ P : \A n \in Nat \ P : m <= n
  BY LeastNumber
<1>2. m # 0 /\ m - 1 \in Nat /\ m - 1 \notin Nat \ P
  BY <1>1
<1> QED BY <1>1, <1>2

\* A part of a list of numbers that holds all below those it holds.
LEMMA InitialPart ==
  ASSUME NEW m \in Nat, NEW D \in SUBSET (1..m),
         \A i \in D : \A j \in 1..m : j < i => j \in D
  PROVE  \E c \in 0..m : D = 1..c
<1> DEFINE rest == (1..m) \ D
<1>1. CASE rest = {}
  <2>1. \A i \in 1..m : i \in D
    BY <1>1
  <2>2. m \in 0..m
    OBVIOUS
  <2> HIDE DEF rest
  <2>3. D = 1..m
    BY <2>1
  <2> QED BY <2>2, <2>3
<1>2. CASE rest # {}
  <2>1. rest \in SUBSET Nat
    OBVIOUS
  <2> HIDE DEF rest
  <2>2. PICK c \in rest : \A n \in rest : c <= n
    BY <1>2, <2>1, LeastNumber
  <2>3. c \in 1..m /\ c \notin D /\ c - 1 \in 0..m
    BY <2>2 DEF rest
  <2>4. \A i \in D : i < c
    BY <2>3
  <2>5. \A i \in 1..m : i < c => i \in D
    BY <2>2 DEF rest
  <2>6. \A i \in 1..m : i \in 1..(c - 1) <=> i < c
    BY <2>3
  <2>7. \A i \in 1..(c - 1) : i \in 1..m
    BY <2>3
  <2>8. D = 1..(c - 1)
    BY <2>4, <2>5, <2>6, <2>7
  <2> QED BY <2>3, <2>8
<1> QED BY <1>1, <1>2

\* There is a function that starts with a value and takes the given steps.
Walks(f, V, first, n, next) ==
  /\ f \in [0..n -> V] /\ f[0] = first
  /\ \A i \in 1..n : f[i] = next[i][f[i - 1]]

LEMMA StepsExist ==
  ASSUME NEW V, NEW first \in V, NEW n \in Nat, NEW next \in [1..n -> [V -> V]]
  PROVE  \E f : Walks(f, V, first, n, next)
<1> DEFINE Good(f, m) == /\ f \in [0..m -> V] /\ f[0] = first
                         /\ \A i \in 1..m : f[i] = next[i][f[i - 1]]
           P == {m \in Nat : m <= n => \E f : Good(f, m)}
<1>1. 0 \in P
  <2>1. Good([i \in 0..0 |-> first], 0)
    OBVIOUS
  <2> QED BY <2>1
<1>2. ASSUME NEW m \in Nat, m + 1 <= n, NEW f, Good(f, m)
      PROVE  \E g : Good(g, m + 1)
  <2> DEFINE last == next[m + 1][f[m]]
             g == [i \in 0..(m + 1) |-> IF i = m + 1 THEN last ELSE f[i]]
  <2>1. last \in V
    <3>1. m + 1 \in 1..n /\ m \in 0..m /\ f[m] \in V
      BY <1>2
    <3> QED BY <3>1
  <2>2. g \in [0..(m + 1) -> V]
    BY <1>2, <2>1
  <2>3. g[0] = first
    BY <1>2
  <2>4. ASSUME NEW i \in 1..(m + 1)
        PROVE  g[i] = next[i][g[i - 1]]
    <3>1. CASE i = m + 1
      <4>1. g[i] = last /\ g[i - 1] = f[m]
        BY <3>1
      <4> QED BY <3>1, <4>1
    <3>2. CASE i \in 1..m
      <4>1. g[i] = f[i] /\ g[i - 1] = f[i - 1]
        BY <3>2
      <4> HIDE DEF g
      <4> QED BY <1>2, <3>2, <4>1
    <3> QED BY <3>1, <3>2
  <2> HIDE DEF g
  <2> QED BY <2>2, <2>3, <2>4
<1> HIDE DEF Good
<1>3. ASSUME NEW m \in Nat, m \in P PROVE m + 1 \in P
  BY <1>2, <1>3
<1> HIDE DEF P
<1>4. n \in P
  BY <1>1, <1>3, Induction
<1>5. \E f : Good(f, n)
  BY <1>4 DEF P
<1> QED BY <1>5 DEF Good, Walks

-----------------------------------------------------------------------------
(* Selections. *)

\* The elements kept among the first n, for every n.
Keeps(kept, seq, K, n) ==
  /\ kept[0] = << >>
  /\ \A i \in 1..n : kept[i] = IF i \in K THEN Append(kept[i - 1], seq[i]) ELSE kept[i - 1]

LEMMA KeepsExists ==
  ASSUME NEW S, NEW seq \in Seq(S), NEW K
  PROVE  \E kept \in [0..Len(seq) -> Seq(S)] : Keeps(kept, seq, K, Len(seq))
<1> DEFINE P == {n \in Nat : n <= Len(seq) =>
                   \E kept \in [0..n -> Seq(S)] : Keeps(kept, seq, K, n)}
<1>1. 0 \in P
  <2> DEFINE kept == [i \in 0..0 |-> << >>]
  <2>1. kept \in [0..0 -> Seq(S)] /\ Keeps(kept, seq, K, 0)
    BY DEF Keeps
  <2> HIDE DEF kept
  <2> QED BY <2>1
<1>2. ASSUME NEW n \in Nat, n \in P
      PROVE  n + 1 \in P
  <2> SUFFICES ASSUME n + 1 <= Len(seq)
               PROVE  \E kept \in [0..(n + 1) -> Seq(S)] : Keeps(kept, seq, K, n + 1)
    OBVIOUS
  <2>1. PICK kept \in [0..n -> Seq(S)] : Keeps(kept, seq, K, n)
    BY <1>2
  <2> DEFINE last == IF n + 1 \in K THEN Append(kept[n], seq[n + 1]) ELSE kept[n]
             more == [i \in 0..(n + 1) |-> IF i = n + 1 THEN last ELSE kept[i]]
  <2>2. last \in Seq(S)
    <3>1. kept[n] \in Seq(S) /\ seq[n + 1] \in S
      BY ElementOfSeq
    <3> QED BY <3>1
  <2>3. more \in [0..(n + 1) -> Seq(S)]
    BY <2>2
  <2>4. Keeps(more, seq, K, n + 1)
    <3>1. more[0] = << >>
      BY <2>1 DEF Keeps
    <3>2. ASSUME NEW i \in 1..(n + 1)
          PROVE  more[i] = IF i \in K THEN Append(more[i - 1], seq[i]) ELSE more[i - 1]
      <4>1. CASE i = n + 1
        <5>1. more[i] = last /\ more[i - 1] = kept[n]
          BY <4>1
        <5> QED BY <4>1, <5>1
      <4>2. CASE i \in 1..n
        <5>1. more[i] = kept[i] /\ more[i - 1] = kept[i - 1]
          BY <4>2
        <5> HIDE DEF more
        <5> QED BY <2>1, <4>2, <5>1 DEF Keeps
      <4> QED BY <4>1, <4>2
    <3> HIDE DEF more
    <3> QED BY <3>1, <3>2 DEF Keeps
  <2> HIDE DEF more
  <2> QED BY <2>3, <2>4
<1> HIDE DEF P
<1>3. Len(seq) \in P
  BY <1>1, <1>2, Induction
<1> QED BY <1>3 DEF P

\* Kept is such a function.
LEMMA KeptFacts ==
  ASSUME NEW S, NEW seq \in Seq(S), NEW K
  PROVE  /\ Kept(seq, K)[0] = << >>
         /\ \A i \in 1..Len(seq) :
              Kept(seq, K)[i] = IF i \in K THEN Append(Kept(seq, K)[i - 1], seq[i]) ELSE Kept(seq, K)[i - 1]
         /\ \A i \in 0..Len(seq) : Kept(seq, K)[i] \in Seq(S)
<1> DEFINE IsKept(g) == g = [i \in 0..Len(seq) |->
                             IF i = 0 THEN << >>
                             ELSE IF i \in K THEN Append(g[i - 1], seq[i]) ELSE g[i - 1]]
           F == CHOOSE g : IsKept(g)
<1>0. Len(seq) \in Nat
  OBVIOUS
<1>1. PICK kept \in [0..Len(seq) -> Seq(S)] : Keeps(kept, seq, K, Len(seq))
  BY KeepsExists
<1>2. IsKept(kept)
  <2>1. \A i \in 0..Len(seq) : i = 0 \/ i \in 1..Len(seq)
    BY <1>0
  <2>2. \A i \in 0..Len(seq) : kept[i] = IF i = 0 THEN << >>
                             ELSE IF i \in K THEN Append(kept[i - 1], seq[i]) ELSE kept[i - 1]
    BY <1>1, <2>1 DEF Keeps
  <2> QED BY <2>2
<1>3. IsKept(F)
  <2> HIDE DEF IsKept
  <2> QED BY <1>2
<1>4. Kept(seq, K) = F
  BY DEF Kept
<1> HIDE DEF F
<1>5. /\ F[0] = << >>
      /\ \A i \in 1..Len(seq) : F[i] = IF i \in K THEN Append(F[i - 1], seq[i]) ELSE F[i - 1]
  <2>1. F = [i \in 0..Len(seq) |-> IF i = 0 THEN << >>
                             ELSE IF i \in K THEN Append(F[i - 1], seq[i]) ELSE F[i - 1]]
    BY <1>3
  <2>2. 0 \in 0..Len(seq) /\ \A i \in 1..Len(seq) : i \in 0..Len(seq) /\ i # 0
    BY <1>0
  <2> QED BY <2>1, <2>2
<1>6. \A i \in 0..Len(seq) : F[i] \in Seq(S)
  <2> DEFINE P == {n \in Nat : n <= Len(seq) => F[n] \in Seq(S)}
  <2>1. 0 \in P
    <3>1. F[0] = << >> /\ << >> \in Seq(S)
      BY <1>5
    <3> QED BY <3>1
  <2>2. ASSUME NEW n \in Nat, n \in P PROVE n + 1 \in P
    <3> SUFFICES ASSUME n + 1 <= Len(seq) PROVE F[n + 1] \in Seq(S)
      OBVIOUS
    <3>1. F[n] \in Seq(S) /\ seq[n + 1] \in S
      BY <2>2, ElementOfSeq
    <3>2. F[n + 1] = IF n + 1 \in K THEN Append(F[n], seq[n + 1]) ELSE F[n]
      BY <1>5
    <3> QED BY <3>1, <3>2
  <2> HIDE DEF P
  <2>3. Nat \subseteq P
    BY <2>1, <2>2, Induction
  <2> QED BY <2>3 DEF P
<1> QED BY <1>4, <1>5, <1>6

\* One element more.
LEMMA KeptNext ==
  ASSUME NEW S, NEW seq \in Seq(S), NEW K, NEW i \in Nat, i < Len(seq)
  PROVE  /\ i + 1 \in K => Kept(seq, K)[i + 1] = Append(Kept(seq, K)[i], seq[i + 1])
         /\ i + 1 \notin K => Kept(seq, K)[i + 1] = Kept(seq, K)[i]
<1>1. i + 1 \in 1..Len(seq) /\ (i + 1) - 1 = i
  BY LenProperties
<1>2. Kept(seq, K)[i + 1] = IF i + 1 \in K THEN Append(Kept(seq, K)[(i + 1) - 1], seq[i + 1])
                            ELSE Kept(seq, K)[(i + 1) - 1]
  BY <1>1, KeptFacts
<1> QED BY <1>1, <1>2

\* Equal beginnings and equal positions keep the same.
LEMMA KeptAgree ==
  ASSUME NEW S, NEW s \in Seq(S), NEW t \in Seq(S), NEW K, NEW L,
         NEW n \in Nat, n <= Len(s), n <= Len(t),
         \A i \in 1..n : s[i] = t[i] /\ (i \in K <=> i \in L)
  PROVE  Kept(s, K)[n] = Kept(t, L)[n]
<1> DEFINE P == {m \in Nat : m <= n => Kept(s, K)[m] = Kept(t, L)[m]}
<1>1. 0 \in P
  BY KeptFacts
<1>2. ASSUME NEW m \in Nat, m \in P PROVE m + 1 \in P
  <2> SUFFICES ASSUME m + 1 <= n PROVE Kept(s, K)[m + 1] = Kept(t, L)[m + 1]
    OBVIOUS
  <2>1. m + 1 \in 1..n /\ m < Len(s) /\ m < Len(t) /\ Kept(s, K)[m] = Kept(t, L)[m]
    BY <1>2, LenProperties
  <2>2. s[m + 1] = t[m + 1] /\ (m + 1 \in K <=> m + 1 \in L)
    BY <2>1
  <2>3. /\ m + 1 \in K => Kept(s, K)[m + 1] = Append(Kept(s, K)[m], s[m + 1])
        /\ m + 1 \notin K => Kept(s, K)[m + 1] = Kept(s, K)[m]
    BY <2>1, KeptNext
  <2>4. /\ m + 1 \in L => Kept(t, L)[m + 1] = Append(Kept(t, L)[m], t[m + 1])
        /\ m + 1 \notin L => Kept(t, L)[m + 1] = Kept(t, L)[m]
    BY <2>1, KeptNext
  <2> QED BY <2>1, <2>2, <2>3, <2>4
<1> HIDE DEF P
<1>3. n \in P
  BY <1>1, <1>2, Induction
<1> QED BY <1>3 DEF P

LEMMA KeptPrefix ==
  ASSUME NEW S, NEW s \in Seq(S), NEW t \in Seq(S), NEW K, NEW n \in Nat, n <= Len(s), n <= Len(t),
         \A i \in 1..n : s[i] = t[i]
  PROVE  Kept(s, K)[n] = Kept(t, K)[n]
<1>1. \A i \in 1..n : s[i] = t[i] /\ (i \in K <=> i \in K)
  OBVIOUS
<1> QED BY <1>1, KeptAgree

LEMMA PickedAgree ==
  ASSUME NEW S, NEW seq \in Seq(S), NEW K, NEW L,
         \A i \in 1..Len(seq) : i \in K <=> i \in L
  PROVE  Picked(seq, K) = Picked(seq, L)
<1> DEFINE n == Len(seq)
<1>1. n \in Nat /\ n <= Len(seq)
  BY LenProperties
<1>2. \A i \in 1..n : seq[i] = seq[i] /\ (i \in K <=> i \in L)
  OBVIOUS
<1>3. Picked(seq, K) = Kept(seq, K)[n] /\ Picked(seq, L) = Kept(seq, L)[n]
  BY DEF Picked
<1> HIDE DEF n
<1>4. Kept(seq, K)[n] = Kept(seq, L)[n]
  BY <1>1, <1>2, KeptAgree
<1> QED BY <1>3, <1>4

\* Every position, and none.
LEMMA PickedAll ==
  ASSUME NEW S, NEW seq \in Seq(S), NEW K, \A i \in 1..Len(seq) : i \in K
  PROVE  Picked(seq, K) = seq
<1> DEFINE f == Kept(seq, K)
           P == {n \in Nat : n <= Len(seq) => Len(f[n]) = n /\ \A i \in 1..n : f[n][i] = seq[i]}
<1>0. Len(seq) \in Nat
  BY LenProperties
<1>1. 0 \in P
  <2>1. f[0] = << >>
    BY KeptFacts
  <2> QED BY <2>1
<1>2. ASSUME NEW n \in Nat, n \in P PROVE n + 1 \in P
  <2> SUFFICES ASSUME n + 1 <= Len(seq)
               PROVE  Len(f[n + 1]) = n + 1 /\ \A i \in 1..(n + 1) : f[n + 1][i] = seq[i]
    OBVIOUS
  <2>1. n < Len(seq) /\ n + 1 \in 1..Len(seq) /\ n \in 0..Len(seq)
    BY <1>0
  <2>2. f[n + 1] = Append(f[n], seq[n + 1]) /\ f[n] \in Seq(S) /\ seq[n + 1] \in S
    BY <2>1, KeptNext, KeptFacts, ElementOfSeq
  <2>3. Len(f[n]) = n /\ \A i \in 1..n : f[n][i] = seq[i]
    BY <1>2, <2>1
  <2> DEFINE base == f[n]
             x == seq[n + 1]
  <2>4. base \in Seq(S) /\ x \in S
    BY <2>2
  <2> HIDE DEF base, x
  <2>5. /\ Len(Append(base, x)) = Len(base) + 1 /\ Append(base, x)[Len(base) + 1] = x
        /\ \A i \in 1..Len(base) : Append(base, x)[i] = base[i]
    BY <2>4, AppendProperties
  <2>6. /\ Len(f[n + 1]) = n + 1 /\ f[n + 1][n + 1] = seq[n + 1]
        /\ \A i \in 1..n : f[n + 1][i] = f[n][i]
    BY <2>2, <2>3, <2>5 DEF base, x
  <2> HIDE DEF f
  <2>7. \A i \in 1..(n + 1) : i = n + 1 \/ i \in 1..n
    OBVIOUS
  <2> QED BY <2>3, <2>6, <2>7
<1> HIDE DEF P
<1>3. Len(seq) \in P
  BY <1>0, <1>1, <1>2, Induction
<1> DEFINE picked == f[Len(seq)]
<1>4. picked \in Seq(S)
  BY <1>0, KeptFacts
<1>5. Len(picked) = Len(seq) /\ \A i \in 1..Len(seq) : picked[i] = seq[i]
  BY <1>0, <1>3 DEF P
<1> HIDE DEF picked
<1>6. picked = seq
  BY <1>4, <1>5, SeqEqual
<1> QED BY <1>6 DEF picked, Picked

LEMMA PickedNone ==
  ASSUME NEW S, NEW seq \in Seq(S), NEW K, \A i \in 1..Len(seq) : i \notin K
  PROVE  Picked(seq, K) = << >>
<1> DEFINE f == Kept(seq, K)
           P == {n \in Nat : n <= Len(seq) => f[n] = << >>}
<1>0. Len(seq) \in Nat
  BY LenProperties
<1>1. 0 \in P
  BY KeptFacts
<1>2. ASSUME NEW n \in Nat, n \in P PROVE n + 1 \in P
  <2> SUFFICES ASSUME n + 1 <= Len(seq) PROVE f[n + 1] = << >>
    OBVIOUS
  <2>1. n < Len(seq) /\ n + 1 \in 1..Len(seq) /\ f[n] = << >>
    BY <1>0, <1>2
  <2> QED BY <2>1, KeptNext
<1> HIDE DEF P
<1>3. Len(seq) \in P
  BY <1>0, <1>1, <1>2, Induction
<1> QED BY <1>0, <1>3 DEF P, Picked

LEMMA PickedEmpty ==
  ASSUME NEW K
  PROVE  Picked(<< >>, K) = << >>
<1> DEFINE none == << >>
           S == {}
<1>1. none \in Seq(S) /\ Len(none) = 0
  OBVIOUS
<1>2. Picked(<< >>, K) = Kept(none, K)[0]
  BY DEF Picked
<1> HIDE DEF none, S
<1>3. Kept(none, K)[0] = << >>
  BY <1>1, KeptFacts
<1> QED BY <1>2, <1>3

\* Both sides of a concatenation, element by element.
LEMMA ConcatElements ==
  ASSUME NEW S, NEW s \in Seq(S), NEW t \in Seq(S)
  PROVE  /\ s \o t \in Seq(S) /\ Len(s \o t) = Len(s) + Len(t)
         /\ Len(s) \in Nat /\ Len(t) \in Nat
         /\ \A i \in 1..Len(s) : (s \o t)[i] = s[i]
         /\ \A i \in 1..Len(t) : (s \o t)[Len(s) + i] = t[i]
<1>1. Len(s) \in Nat /\ Len(t) \in Nat
  BY LenProperties
<1>2. /\ s \o t \in Seq(S) /\ Len(s \o t) = Len(s) + Len(t)
      /\ \A i \in 1 .. Len(s) + Len(t) : (s \o t)[i] =
                     IF i <= Len(s) THEN s[i] ELSE t[i - Len(s)]
  BY ConcatProperties
<1>3. \A i \in 1..Len(s) : i \in 1 .. Len(s) + Len(t) /\ i <= Len(s)
  BY <1>1
<1>4. \A i \in 1..Len(t) : /\ Len(s) + i \in 1 .. Len(s) + Len(t) /\ ~(Len(s) + i <= Len(s))
                           /\ (Len(s) + i) - Len(s) = i
  BY <1>1
<1> QED BY <1>1, <1>2, <1>3, <1>4

\* Concatenation associates.
LEMMA Regroup ==
  ASSUME NEW S, NEW e \in Seq(S), NEW a \in Seq(S), NEW b \in Seq(S), NEW c \in Seq(S)
  PROVE  /\ ((e \o a) \o b) \o c = e \o ((a \o b) \o c)
         /\ e \o ((a \o b) \o c) \in Seq(S)
<1>1. e \o a \in Seq(S) /\ a \o b \in Seq(S) /\ (a \o b) \o c \in Seq(S) /\ b \o c \in Seq(S)
  BY ConcatProperties
<1>2. e \o ((a \o b) \o c) \in Seq(S)
      BY <1>1, ConcatProperties
<1>3. ((e \o a) \o b) \o c = (e \o a) \o (b \o c)
  <2> DEFINE ea == e \o a
  <2>1. ea \in Seq(S)
    BY <1>1
  <2> HIDE DEF ea
  <2>2. (ea \o b) \o c = ea \o (b \o c)
    BY <2>1, ConcatAssociative
  <2> QED BY <2>2 DEF ea
<1>4. (e \o a) \o (b \o c) = e \o (a \o (b \o c))
  <2> DEFINE bc == b \o c
  <2>1. bc \in Seq(S)
    BY <1>1
  <2> HIDE DEF bc
  <2>2. (e \o a) \o bc = e \o (a \o bc)
    BY <2>1, ConcatAssociative
  <2> QED BY <2>2 DEF bc
<1>5. a \o (b \o c) = (a \o b) \o c
  BY ConcatAssociative
<1> QED BY <1>2, <1>3, <1>4, <1>5

\* Append and concatenation under names of their own: as they are, the provers
\* do not match them in a cited fact.
Then(s, t) == s \o t
With(s, x) == Append(s, x)

LEMMA WithThen ==
  ASSUME NEW S, NEW s \in Seq(S), NEW t \in Seq(S), NEW x \in S
  PROVE  With(Then(s, t), x) = Then(s, With(t, x))
<1>1. /\ <<x>> \in Seq(S) /\ s \o t \in Seq(S)
      /\ Append(s \o t, x) = (s \o t) \o <<x>> /\ Append(t, x) = t \o <<x>>
  BY AppendIsConcat, ConcatElements
<1>2. (s \o t) \o <<x>> = s \o (t \o <<x>>)
  BY <1>1, ConcatAssociative
<1> QED BY <1>1, <1>2 DEF With, Then

\* st is s and then t, and L are K's positions in t.
Both(st, s, t) ==
  /\ Len(st) = Len(s) + Len(t)
  /\ \A i \in 1..Len(s) : st[i] = s[i]
  /\ \A i \in 1..Len(t) : st[Len(s) + i] = t[i]

Shifted(K, L, s, t) == \A i \in 1..Len(t) : Len(s) + i \in K <=> i \in L

LEMMA PickedBoth ==
  ASSUME NEW S, NEW st \in Seq(S), NEW s \in Seq(S), NEW t \in Seq(S), Both(st, s, t),
         NEW K, NEW L, Shifted(K, L, s, t)
  PROVE  Picked(st, K) = Picked(s, K) \o Picked(t, L)
<1> DEFINE m == Len(s)
           n == Len(t)
           f == Kept(st, K)
           h == Kept(t, L)
           base == f[m]
<1>0. m \in Nat /\ n \in Nat /\ m + n \in Nat /\ m <= m + n
  BY LenProperties
<1>1. base = Kept(s, K)[m]
  <2>1. m <= Len(st) /\ m <= Len(s)
    BY <1>0 DEF Both
  <2>2. \A i \in 1..m : st[i] = s[i]
    BY DEF Both
  <2> HIDE DEF m
  <2>3. Kept(st, K)[m] = Kept(s, K)[m]
    BY <1>0, <2>1, <2>2, KeptPrefix
  <2> QED BY <2>3
<1>2. base \in Seq(S) /\ \A i \in 0..n : h[i] \in Seq(S)
  <2>1. m \in 0..Len(st)
    BY <1>0 DEF Both
  <2> QED BY <2>1, KeptFacts
<1>3. ASSUME NEW k \in Nat, k < n
      PROVE  IF k + 1 \in L THEN f[m + (k + 1)] = Append(f[m + k], t[k + 1]) /\ h[k + 1] = Append(h[k], t[k + 1])
                           ELSE f[m + (k + 1)] = f[m + k] /\ h[k + 1] = h[k]
  <2>1. m + k \in Nat /\ m + k < Len(st) /\ m + (k + 1) = (m + k) + 1 /\ k + 1 \in 1..n
    BY <1>0, <1>3 DEF Both
  <2> DEFINE p == m + k
  <2>2. /\ p + 1 \in K => f[p + 1] = Append(f[p], st[p + 1])
        /\ p + 1 \notin K => f[p + 1] = f[p]
    <3>1. p \in Nat /\ p < Len(st)
      BY <2>1
    <3> HIDE DEF p
    <3> QED BY <3>1, KeptNext
  <2>3. /\ k + 1 \in L => h[k + 1] = Append(h[k], t[k + 1])
        /\ k + 1 \notin L => h[k + 1] = h[k]
    BY <1>3, KeptNext
  <2>4. st[m + (k + 1)] = t[k + 1] /\ (m + (k + 1) \in K <=> k + 1 \in L)
    BY <2>1 DEF Both, Shifted
  <2> QED BY <2>1, <2>2, <2>3, <2>4
<1>4. \A i \in 1..n : t[i] \in S
  BY ElementOfSeq
<1>5. h[0] = << >>
  BY KeptFacts
<1> DEFINE P == {k \in Nat : k <= n => f[m + k] = base \o h[k]}
<1>6. 0 \in P
  <2>1. base \o << >> = base
    BY <1>2, ConcatEmptySeq
  <2>2. m + 0 = m
    BY <1>0
  <2> QED BY <1>5, <2>1, <2>2
<1>7. Picked(st, K) = f[m + n] /\ Picked(s, K) = base /\ Picked(t, L) = h[n]
  BY <1>1 DEF Picked, Both
<1> HIDE DEF m, n, f, h, base
<1>8. ASSUME NEW k \in Nat, k \in P PROVE k + 1 \in P
  <2> SUFFICES ASSUME k + 1 <= n PROVE f[m + (k + 1)] = base \o h[k + 1]
    OBVIOUS
  <2>1. k < n /\ k + 1 \in 1..n /\ k \in 0..n /\ f[m + k] = base \o h[k]
    BY <1>0, <1>8
  <2>2. CASE k + 1 \in L
    <3>1. f[m + (k + 1)] = Append(f[m + k], t[k + 1]) /\ h[k + 1] = Append(h[k], t[k + 1])
      BY <1>3, <2>1, <2>2
    <3> DEFINE right == h[k]
               last == t[k + 1]
    <3>2. right \in Seq(S) /\ last \in S
      BY <1>2, <1>4, <2>1
    <3> HIDE DEF right, last
    <3>3. With(Then(base, right), last) = Then(base, With(right, last))
      BY <1>2, <3>2, WithThen
    <3> QED BY <2>1, <3>1, <3>3 DEF With, Then, right, last
  <2>3. CASE k + 1 \notin L
    BY <1>3, <2>1, <2>3
  <2> QED BY <2>2, <2>3
<1> HIDE DEF P
<1>9. n \in P
  BY <1>0, <1>6, <1>8, Induction
<1>10. f[m + n] = base \o h[n]
  BY <1>0, <1>9 DEF P
<1> QED BY <1>7, <1>10

LEMMA PickedConcat ==
  ASSUME NEW S, NEW s \in Seq(S), NEW t \in Seq(S), NEW K
  PROVE  Picked(s \o t, K) = Picked(s, K) \o Picked(t, {i \in 1..Len(t) : Len(s) + i \in K})
<1> DEFINE L == {i \in 1..Len(t) : Len(s) + i \in K}
           st == s \o t
<1>1. st \in Seq(S) /\ Both(st, s, t)
  BY ConcatElements DEF Both
<1>2. Shifted(K, L, s, t)
  BY DEF Shifted
<1> HIDE DEF L, st
<1>3. Picked(st, K) = Picked(s, K) \o Picked(t, L)
  BY <1>1, <1>2, PickedBoth
<1> QED BY <1>3 DEF st, L

\* One more element is kept, or it is not.
LEMMA PickedAppend ==
  ASSUME NEW S, NEW seq \in Seq(S), NEW x \in S, NEW K
  PROVE  Picked(Append(seq, x), K) =
           IF Len(seq) + 1 \in K THEN Append(Picked(seq, K), x) ELSE Picked(seq, K)
<1> DEFINE st == Append(seq, x)
           n == Len(seq)
<1>1. /\ st \in Seq(S) /\ Len(st) = n + 1 /\ n \in Nat /\ n <= n
      /\ \A i \in 1..n : st[i] = seq[i]
      /\ st[n + 1] = x
  BY AppendProperties, LenProperties
<1> HIDE DEF st
<1>2. Kept(st, K)[n] = Kept(seq, K)[n]
  <2>1. n <= Len(st)
    BY <1>1
  <2> QED BY <1>1, <2>1, KeptAgree
<1>3. /\ n + 1 \in K => Kept(st, K)[n + 1] = Append(Kept(st, K)[n], st[n + 1])
      /\ n + 1 \notin K => Kept(st, K)[n + 1] = Kept(st, K)[n]
  <2>1. n < Len(st)
    BY <1>1
  <2> QED BY <1>1, <2>1, KeptNext
<1>4. Picked(st, K) = IF n + 1 \in K THEN Append(Picked(seq, K), x) ELSE Picked(seq, K)
  BY <1>1, <1>2, <1>3 DEF Picked
<1> QED BY <1>4 DEF st

\* A selection holds the elements at its positions, each once and in order:
\* `at` says where each of them was.
Locates(at, picked, seq, K) ==
  /\ at \in [1..Len(picked) -> K]
  /\ \A j \in 1..Len(picked) : picked[j] = seq[at[j]]
  /\ \A j, k \in 1..Len(picked) : j < k => at[j] < at[k]
  /\ \A i \in K : \E j \in 1..Len(picked) : at[j] = i

\* A greater position is added at the end.
LEMMA LocatesMore ==
  ASSUME NEW S, NEW picked \in Seq(S), NEW seq, NEW x \in S, NEW K, NEW at,
         Locates(at, picked, seq, K), K \subseteq Nat,
         NEW n \in Nat, \A i \in K : i < n, seq[n] = x
  PROVE  \E more : Locates(more, Append(picked, x), seq, K \cup {n})
<1> DEFINE m == Len(picked)
           new == Append(picked, x)
           more == [j \in 1..(m + 1) |-> IF j = m + 1 THEN n ELSE at[j]]
<1>1. /\ m \in Nat /\ Len(new) = m + 1 /\ new[m + 1] = x
      /\ \A j \in 1..m : new[j] = picked[j]
  BY AppendProperties, LenProperties
<1>2. /\ more[m + 1] = n /\ \A j \in 1..m : more[j] = at[j]
  BY <1>1
<1>3. \A j \in 1..m : at[j] \in K /\ picked[j] = seq[at[j]]
  BY DEF Locates
<1>4. more \in [1..(m + 1) -> K \cup {n}]
  <2>1. \A j \in 1..(m + 1) : j = m + 1 \/ j \in 1..m
    BY <1>1
  <2> QED BY <1>3, <2>1
<1> HIDE DEF new, more
<1>5. \A j \in 1..(m + 1) : j = m + 1 \/ j \in 1..m
  BY <1>1
<1>6. \A j \in 1..(m + 1) : new[j] = seq[more[j]]
  <2> SUFFICES ASSUME NEW j \in 1..(m + 1) PROVE new[j] = seq[more[j]]
    OBVIOUS
  <2>1. CASE j = m + 1
    BY <1>1, <1>2, <2>1
  <2>2. CASE j \in 1..m
    <3>1. new[j] = picked[j] /\ more[j] = at[j] /\ picked[j] = seq[at[j]]
      BY <1>1, <1>2, <1>3, <2>2
    <3> QED BY <3>1
  <2> QED BY <1>5, <2>1, <2>2
<1>7. \A j, k \in 1..(m + 1) : j < k => more[j] < more[k]
  <2> SUFFICES ASSUME NEW j \in 1..(m + 1), NEW k \in 1..(m + 1), j < k
               PROVE  more[j] < more[k]
    OBVIOUS
  <2>1. j \in 1..m /\ more[j] = at[j] /\ at[j] \in K
    BY <1>1, <1>2, <1>3
  <2>2. CASE k = m + 1
    BY <1>2, <2>1, <2>2
  <2>3. CASE k \in 1..m
    <3>1. at[j] < at[k]
      BY <2>1, <2>3 DEF Locates
    <3> QED BY <1>2, <2>1, <2>3, <3>1
  <2> QED BY <1>5, <2>2, <2>3
<1>8. \A i \in K \cup {n} : \E j \in 1..(m + 1) : more[j] = i
  <2> SUFFICES ASSUME NEW i \in K \cup {n} PROVE \E j \in 1..(m + 1) : more[j] = i
    OBVIOUS
  <2>1. CASE i = n
    <3>1. m + 1 \in 1..(m + 1) /\ more[m + 1] = i
      BY <1>1, <1>2, <2>1
    <3> QED BY <3>1
  <2>2. CASE i \in K
    <3>1. PICK j \in 1..m : at[j] = i
      BY <2>2 DEF Locates
    <3>2. j \in 1..(m + 1) /\ more[j] = i
      BY <1>1, <1>2, <3>1
    <3> QED BY <3>2
  <2> QED BY <2>1, <2>2
<1>9. Locates(more, new, seq, K \cup {n})
  BY <1>1, <1>4, <1>6, <1>7, <1>8 DEF Locates
<1> QED BY <1>9 DEF new

LEMMA KeptLocates ==
  ASSUME NEW S, NEW seq \in Seq(S), NEW K, NEW n \in Nat, n <= Len(seq)
  PROVE  \E at : Locates(at, Kept(seq, K)[n], seq, K \cap (1..n))
<1> DEFINE f == Kept(seq, K)
           Located(k) == \E at : Locates(at, f[k], seq, K \cap (1..k))
           P == {k \in Nat : k <= n => Located(k)}
<1>1. Located(0)
  <2>1. f[0] = << >> /\ K \cap (1..0) = {}
    BY KeptFacts
  <2>2. Locates([j \in 1..0 |-> 0], << >>, seq, {})
    BY DEF Locates
  <2> QED BY <2>1, <2>2
<1>2. ASSUME NEW k \in Nat, k + 1 <= n, Located(k) PROVE Located(k + 1)
  <2>1. k < Len(seq) /\ k + 1 \in 1..Len(seq) /\ k \in 0..Len(seq) /\ k + 1 \in Nat
    BY <1>2, LenProperties
  <2>2. /\ k + 1 \in K => f[k + 1] = Append(f[k], seq[k + 1])
        /\ k + 1 \notin K => f[k + 1] = f[k]
    BY <2>1, KeptNext
  <2>3. PICK at : Locates(at, f[k], seq, K \cap (1..k))
    BY <1>2
  <2>4. f[k] \in Seq(S) /\ seq[k + 1] \in S
    BY <2>1, KeptFacts, ElementOfSeq
  <2> HIDE DEF f
  <2>5. CASE k + 1 \notin K
    <3>1. K \cap (1..(k + 1)) = K \cap (1..k)
      BY <2>5
    <3> QED BY <2>2, <2>3, <2>5, <3>1
  <2>6. CASE k + 1 \in K
    <3>1. K \cap (1..(k + 1)) = (K \cap (1..k)) \cup {k + 1}
      BY <2>6
    <3>2. K \cap (1..k) \subseteq Nat /\ \A i \in K \cap (1..k) : i < k + 1
      OBVIOUS
    <3>3. \E more : Locates(more, Append(f[k], seq[k + 1]), seq, (K \cap (1..k)) \cup {k + 1})
      BY <2>1, <2>3, <2>4, <3>2, LocatesMore
    <3> QED BY <2>2, <2>6, <3>1, <3>3
  <2> QED BY <2>5, <2>6
<1> HIDE DEF Located
<1>3. 0 \in P
  BY <1>1
<1>4. ASSUME NEW k \in Nat, k \in P PROVE k + 1 \in P
  BY <1>2, <1>4
<1> HIDE DEF P
<1>5. n \in P
  BY <1>3, <1>4, Induction
<1>6. Located(n)
  BY <1>5 DEF P
<1> QED BY <1>6 DEF Located

LEMMA PickedLocates ==
  ASSUME NEW S, NEW seq \in Seq(S), NEW K
  PROVE  /\ Picked(seq, K) \in Seq(S)
         /\ \E at : Locates(at, Picked(seq, K), seq, K \cap (1..Len(seq)))
<1>1. Len(seq) \in Nat /\ Len(seq) <= Len(seq)
  BY LenProperties
<1>2. Kept(seq, K)[Len(seq)] \in Seq(S)
  BY <1>1, KeptFacts
<1>3. \E at : Locates(at, Kept(seq, K)[Len(seq)], seq, K \cap (1..Len(seq)))
  BY <1>1, KeptLocates
<1> QED BY <1>2, <1>3 DEF Picked

\* It holds what was at the positions, and nothing else.
LEMMA PickedHolds ==
  ASSUME NEW S, NEW seq \in Seq(S), NEW K \in SUBSET (1..Len(seq))
  PROVE  LET picked == Picked(seq, K)
         IN  {picked[j] : j \in 1..Len(picked)} = {seq[i] : i \in K}
<1> DEFINE picked == Picked(seq, K)
<1>1. \E at : Locates(at, picked, seq, K \cap (1..Len(seq)))
  BY PickedLocates
<1>2. K \cap (1..Len(seq)) = K
  OBVIOUS
<1> HIDE DEF picked
<1>3. PICK at : Locates(at, picked, seq, K)
  BY <1>1, <1>2
<1>4. \A j \in 1..Len(picked) : at[j] \in K /\ picked[j] = seq[at[j]]
  BY <1>3 DEF Locates
<1>5. \A i \in K : \E j \in 1..Len(picked) : at[j] = i
  BY <1>3 DEF Locates
<1>6. {picked[j] : j \in 1..Len(picked)} = {seq[i] : i \in K}
  BY <1>4, <1>5
<1> QED BY <1>6 DEF picked

\* Two selections of the same positions are the same.
LEMMA LocatesOnce ==
  ASSUME NEW seq, NEW K \in SUBSET Nat, NEW S, NEW p \in Seq(S), NEW q \in Seq(S), NEW at, NEW bt,
         Locates(at, p, seq, K), Locates(bt, q, seq, K)
  PROVE  p = q
<1> DEFINE m == Len(p)
           n == Len(q)
           Same(i) == (i <= m => i <= n /\ at[i] = bt[i]) /\ (i <= n => i <= m /\ at[i] = bt[i])
           P == {i \in Nat : \A j \in 1..i : Same(j)}
<1>1. m \in Nat /\ n \in Nat
  BY LenProperties
<1> HIDE DEF m, n
<1>2. /\ \A j \in 1..m : at[j] \in K /\ at[j] \in Nat
      /\ \A j \in 1..n : bt[j] \in K /\ bt[j] \in Nat
      /\ \A i \in K : (\E j \in 1..m : at[j] = i) /\ (\E j \in 1..n : bt[j] = i)
  BY DEF Locates, m, n
<1>a. \A j, k \in 1..m : j < k => at[j] < at[k]
  BY DEF Locates, m, n
<1>b. \A j, k \in 1..n : j < k => bt[j] < bt[k]
  BY DEF Locates, m, n
<1>c. /\ \A j \in 1..m : p[j] = seq[at[j]]
      /\ \A j \in 1..n : q[j] = seq[bt[j]]
  BY DEF Locates, m, n
<1>3. 0 \in P
  OBVIOUS
<1>4. ASSUME NEW i \in Nat, i \in P
      PROVE  i + 1 \in P
  <2>0. \A j \in 1..i : Same(j)
    BY <1>4
  <2>1. ASSUME i + 1 <= m
        PROVE  i + 1 <= n /\ bt[i + 1] <= at[i + 1]
    <3>1. i + 1 \in 1..m
      BY <1>1, <2>1
    <3>2. PICK k \in 1..n : bt[k] = at[i + 1]
      BY <1>2, <3>1
    <3>3. ~(k \in 1..i)
      <4> SUFFICES ASSUME k \in 1..i
                   PROVE  FALSE
        OBVIOUS
      <4>1. k <= m /\ at[k] = bt[k]
        BY <1>1, <2>0, <3>2
      <4>2. k \in 1..m /\ k < i + 1
        BY <1>1, <4>1
      <4>3. at[k] < at[i + 1] /\ at[k] \in Nat
        BY <1>a, <1>2, <3>1, <4>2
      <4> QED BY <3>2, <4>1, <4>3
    <3>4. i + 1 <= k /\ i + 1 \in 1..n
      BY <1>1, <3>2, <3>3
    <3>5. CASE i + 1 = k
      <4>1. bt[i + 1] = at[i + 1] /\ at[i + 1] \in Nat
        BY <1>2, <3>1, <3>2, <3>5
      <4> QED BY <1>1, <3>4, <4>1
    <3>6. CASE i + 1 < k
      <4>1. bt[i + 1] < bt[k] /\ bt[i + 1] \in Nat /\ bt[k] \in Nat
        BY <1>b, <1>2, <3>2, <3>4, <3>6
      <4> QED BY <1>1, <3>2, <3>4, <4>1
    <3> QED BY <1>1, <3>2, <3>4, <3>5, <3>6
  <2>2. ASSUME i + 1 <= n
        PROVE  i + 1 <= m /\ at[i + 1] <= bt[i + 1]
    <3>1. i + 1 \in 1..n
      BY <1>1, <2>2
    <3>2. PICK k \in 1..m : at[k] = bt[i + 1]
      BY <1>2, <3>1
    <3>3. ~(k \in 1..i)
      <4> SUFFICES ASSUME k \in 1..i
                   PROVE  FALSE
        OBVIOUS
      <4>1. k <= n /\ bt[k] = at[k]
        BY <1>1, <2>0, <3>2
      <4>2. k \in 1..n /\ k < i + 1
        BY <1>1, <4>1
      <4>3. bt[k] < bt[i + 1] /\ bt[k] \in Nat
        BY <1>b, <1>2, <3>1, <4>2
      <4> QED BY <3>2, <4>1, <4>3
    <3>4. i + 1 <= k /\ i + 1 \in 1..m
      BY <1>1, <3>2, <3>3
    <3>5. CASE i + 1 = k
      <4>1. at[i + 1] = bt[i + 1] /\ bt[i + 1] \in Nat
        BY <1>2, <3>1, <3>2, <3>5
      <4> QED BY <1>1, <3>4, <4>1
    <3>6. CASE i + 1 < k
      <4>1. at[i + 1] < at[k] /\ at[i + 1] \in Nat /\ at[k] \in Nat
        BY <1>a, <1>2, <3>2, <3>4, <3>6
      <4> QED BY <1>1, <3>2, <3>4, <4>1
    <3> QED BY <1>1, <3>2, <3>4, <3>5, <3>6
  <2>3. i + 1 <= m \/ i + 1 <= n => at[i + 1] = bt[i + 1]
    <3>1. i + 1 <= m /\ i + 1 <= n => i + 1 \in 1..m /\ i + 1 \in 1..n
      BY <1>1
    <3> QED BY <1>2, <2>1, <2>2, <3>1
  <2>4. Same(i + 1)
    BY <2>1, <2>2, <2>3
  <2>5. \A j \in 1..(i + 1) : j \in 1..i \/ j = i + 1
    OBVIOUS
  <2> HIDE DEF Same
  <2> QED BY <2>0, <2>4, <2>5
<1> HIDE DEF P
<1>5. Nat \subseteq P
  BY <1>3, <1>4, Induction
<1>6. ASSUME NEW i \in Nat, i >= 1 PROVE Same(i)
  <2>1. i \in P /\ i \in 1..i
    BY <1>5, <1>6
  <2> HIDE DEF Same
  <2> QED BY <2>1 DEF P
<1>7. m = n
  <2>1. m >= 1 => m <= n
    BY <1>1, <1>6
  <2>2. n >= 1 => n <= m
    BY <1>1, <1>6
  <2> QED BY <1>1, <2>1, <2>2
<1>8. \A i \in 1..m : p[i] = q[i]
  BY <1>1, <1>2, <1>6, <1>7, <1>c
<1> QED BY <1>1, <1>7, <1>8, SeqEqual DEF m, n

-----------------------------------------------------------------------------
(* Ranks. *)

\* R puts the elements of S in a row; an element's rank counts what comes before it.
Orders(R, S) ==
  /\ \A x \in S : <<x, x>> \notin R
  /\ \A x, y \in S : x # y => <<x, y>> \in R \/ <<y, x>> \in R
  /\ \A x, y, z \in S : <<x, y>> \in R /\ <<y, z>> \in R => <<x, z>> \in R

LEMMA RanksCount ==
  ASSUME NEW S, IsFiniteSet(S), NEW R, Orders(R, S)
  PROVE  LET f == [x \in S |-> RankIn(x, R, S)]
         IN  /\ f \in Bijection(S, 1..Cardinality(S))
             /\ \A x, y \in S : <<x, y>> \in R => f[x] < f[y]
<1> DEFINE n == Cardinality(S)
           b(x) == Before(x, R, S)
           f == [x \in S |-> RankIn(x, R, S)]
<1>1. n \in Nat
  BY FS_CardinalityType
<1>2. ASSUME NEW x \in S
      PROVE  /\ b(x) \in SUBSET S /\ x \notin b(x) /\ IsFiniteSet(b(x))
             /\ Cardinality(b(x)) \in Nat /\ Cardinality(b(x)) < n
  <2>1. b(x) \in SUBSET S /\ x \notin b(x)
    BY DEF Before, Orders
  <2> HIDE DEF b
  <2>2. IsFiniteSet(b(x)) /\ Cardinality(b(x)) <= n /\ (n = Cardinality(b(x)) => S = b(x))
    BY <2>1, FS_Subset
  <2>3. Cardinality(b(x)) \in Nat
    BY <2>2, FS_CardinalityType
  <2> QED BY <1>1, <2>1, <2>2, <2>3
<1>3. \A x \in S : f[x] = 1 + Cardinality(b(x))
  BY DEF RankIn
<1>4. ASSUME NEW x \in S, NEW y \in S, <<x, y>> \in R
      PROVE  f[x] < f[y]
  <2>1. b(x) \in SUBSET b(y) /\ x \in b(y)
    BY <1>4 DEF Before, Orders
  <2>2. IsFiniteSet(b(y)) /\ Cardinality(b(y)) \in Nat /\ Cardinality(b(x)) \in Nat /\ x \notin b(x)
    BY <1>2
  <2> HIDE DEF b
  <2>3. Cardinality(b(x)) <= Cardinality(b(y)) /\ (Cardinality(b(y)) = Cardinality(b(x)) => b(y) = b(x))
    BY <2>1, <2>2, FS_Subset
  <2>4. Cardinality(b(x)) < Cardinality(b(y))
    BY <2>1, <2>2, <2>3
  <2> HIDE DEF f
  <2> QED BY <1>3, <2>2, <2>4
<1>5. f \in [S -> 1..n]
  <2>1. \A x \in S : RankIn(x, R, S) \in 1..n
    BY <1>1, <1>2 DEF RankIn
  <2> QED BY <2>1
<1> HIDE DEF f, b
<1>6. f \in Injection(S, 1..n)
  <2>1. ASSUME NEW x \in S, NEW y \in S, f[x] = f[y] PROVE x = y
    <3>1. x # y => <<x, y>> \in R \/ <<y, x>> \in R
      BY DEF Orders
    <3>2. f[x] \in Nat /\ f[y] \in Nat
      BY <1>1, <1>5
    <3> QED BY <1>4, <2>1, <3>1, <3>2
  <2> QED BY <1>5, <2>1 DEF Injection, IsInjective
<1>7. IsFiniteSet(1..n) /\ Cardinality(1..n) = n
  <2>1. 0 \in Nat /\ 1 \in Int /\ n \in Int
    BY <1>1
  <2>2. IsFiniteSet(1..n) /\ Cardinality(1..n) = IF 1 > n THEN 0 ELSE n - 1 + 1
    BY <2>1, FS_Interval
  <2> QED BY <1>1, <2>2
<1>8. f \in Surjection(S, 1..n)
  <2> DEFINE T == 1..n
  <2>1. f \in Injection(S, T) /\ IsFiniteSet(T) /\ Cardinality(S) = Cardinality(T)
    BY <1>6, <1>7
  <2> HIDE DEF T, n
  <2>2. f \in Surjection(S, T)
    BY <2>1, FS_Injection
  <2> QED BY <2>2 DEF T
<1>9. f \in Bijection(S, 1..n)
  BY <1>6, <1>8 DEF Bijection
<1> QED BY <1>4, <1>9 DEF f, n

\* Sorted, the elements are all there, each of them once.
LEMMA InOrderFacts ==
  ASSUME NEW S, IsFiniteSet(S), NEW R, Orders(R, S)
  PROVE  LET row == InOrder(S, R)
         IN  /\ row \in Seq(S) /\ Len(row) = Cardinality(S) /\ DOMAIN row = 1..Cardinality(S)
             /\ Cardinality(S) \in Nat
             /\ \A i, j \in 1..Cardinality(S) : row[i] = row[j] => i = j
             /\ \A x \in S : \E i \in 1..Cardinality(S) : row[i] = x
<1> DEFINE n == Cardinality(S)
           f == [x \in S |-> RankIn(x, R, S)]
           row == InOrder(S, R)
<1>1. f \in Bijection(S, 1..n)
  BY RanksCount
<1>2. n \in Nat
  BY FS_CardinalityType
<1>3. /\ \A x, y \in S : f[x] = f[y] => x = y
      /\ \A i \in 1..n : \E x \in S : f[x] = i
      /\ \A x \in S : f[x] \in 1..n
  BY <1>1 DEF Bijection, Injection, Surjection, IsInjective
<1>4. \A x \in S : f[x] = RankIn(x, R, S)
  OBVIOUS
<1> HIDE DEF f
<1>5. ASSUME NEW i \in 1..n
      PROVE  row[i] \in S /\ RankIn(row[i], R, S) = i
  <2>1. \E x \in S : RankIn(x, R, S) = i
    BY <1>3, <1>4
  <2>2. row[i] = CHOOSE x \in S : RankIn(x, R, S) = i
    BY DEF InOrder
  <2> QED BY <2>1, <2>2
<1>6. row \in [1..n -> S]
  <2>1. row = [i \in 1..n |-> row[i]]
    BY DEF InOrder
  <2> HIDE DEF row
  <2> QED BY <1>5, <2>1
<1> HIDE DEF row
<1>7. row \in Seq(S) /\ Len(row) = n /\ DOMAIN row = 1..n
  BY <1>2, <1>6, SeqDef, LenProperties
<1>8. \A i, j \in 1..n : row[i] = row[j] => i = j
  BY <1>5
<1>9. ASSUME NEW x \in S PROVE \E i \in 1..n : row[i] = x
  <2>1. f[x] \in 1..n /\ row[f[x]] \in S /\ f[row[f[x]]] = f[x]
    BY <1>3, <1>4, <1>5
  <2> QED BY <1>3, <2>1
<1> QED BY <1>2, <1>7, <1>8, <1>9 DEF row, n

\* Sorted, an element comes before those that R puts behind it.
LEMMA InOrderAscends ==
  ASSUME NEW S, IsFiniteSet(S), NEW R, Orders(R, S),
         NEW i \in 1..Cardinality(S), NEW j \in 1..Cardinality(S), i < j
  PROVE  <<InOrder(S, R)[i], InOrder(S, R)[j]>> \in R
<1> DEFINE n == Cardinality(S)
           f == [x \in S |-> RankIn(x, R, S)]
           row == InOrder(S, R)
<1>1. n \in Nat /\ f \in Bijection(S, 1..n) /\ \A x, y \in S : <<x, y>> \in R => f[x] < f[y]
  BY RanksCount, FS_CardinalityType
<1>2. \A k \in 1..n : \E x \in S : f[x] = k
  BY <1>1 DEF Bijection, Surjection
<1>3. \A x \in S : f[x] = RankIn(x, R, S)
  OBVIOUS
<1> HIDE DEF f
<1>4. ASSUME NEW k \in 1..n
      PROVE  row[k] \in S /\ f[row[k]] = k
  <2>1. \E x \in S : RankIn(x, R, S) = k
    BY <1>2, <1>3
  <2>2. row[k] = CHOOSE x \in S : RankIn(x, R, S) = k
    BY DEF InOrder
  <2>3. row[k] \in S /\ RankIn(row[k], R, S) = k
    BY <2>1, <2>2
  <2> QED BY <1>3, <2>3
<1> HIDE DEF row
<1>5. row[i] \in S /\ row[j] \in S /\ f[row[i]] = i /\ f[row[j]] = j
  BY <1>4
<1> HIDE DEF n
<1>6. i \in Int /\ j \in Int /\ ~(j < i) /\ i # j
  BY <1>1 DEF n
<1>7. row[i] # row[j] /\ <<row[j], row[i]>> \notin R
  BY <1>1, <1>5, <1>6
<1>8. <<row[i], row[j]>> \in R
  BY <1>5, <1>7 DEF Orders
<1> QED BY <1>8 DEF row

\* The first of a row: as many as asked for, if there are as many, and none that
\* was left out comes before one of them.
LEMMA FirstOfRow ==
  ASSUME NEW S, IsFiniteSet(S), NEW R, Orders(R, S), NEW m \in Nat
  PROVE  LET first == {x \in S : RankIn(x, R, S) <= m}
         IN  /\ Cardinality(first) = IF m <= Cardinality(S) THEN m ELSE Cardinality(S)
             /\ \A x \in first, y \in S \ first : <<x, y>> \in R
<1> DEFINE n == Cardinality(S)
           f == [x \in S |-> RankIn(x, R, S)]
           first == {x \in S : f[x] <= m}
           k == IF m <= n THEN m ELSE n
<1>0. first = {x \in S : RankIn(x, R, S) <= m}
  OBVIOUS
<1>1. f \in Bijection(S, 1..n) /\ \A x, y \in S : <<x, y>> \in R => f[x] < f[y]
  BY RanksCount
<1>2. n \in Nat /\ k \in Nat
  BY FS_CardinalityType
<1> HIDE DEF f, n
<1>3. /\ f \in [S -> 1..n]
      /\ \A x, y \in S : f[x] = f[y] => x = y
      /\ \A i \in 1..n : \E x \in S : f[x] = i
  BY <1>1 DEF Bijection, Injection, Surjection, IsInjective
<1>4. ASSUME NEW x \in first, NEW y \in S \ first PROVE <<x, y>> \in R
  <2>1. f[x] \in 1..n /\ f[y] \in 1..n /\ f[x] <= m /\ ~(f[y] <= m)
    BY <1>3
  <2>2. x # y /\ ~(f[y] < f[x])
    BY <1>2, <2>1
  <2> QED BY <1>1, <2>2 DEF Orders
<1>5. Cardinality(first) = k
  <2> DEFINE g == [x \in first |-> f[x]]
  <2>1. g \in [first -> 1..k]
    <3>1. \A x \in first : f[x] \in 1..n /\ f[x] <= m
      BY <1>3
    <3>2. \A x \in first : f[x] \in 1..k
      BY <1>2, <3>1
    <3> QED BY <3>2
  <2>2. \A x, y \in first : g[x] = g[y] => x = y
    BY <1>3
  <2>3. \A i \in 1..k : \E x \in first : g[x] = i
    <3> SUFFICES ASSUME NEW i \in 1..k PROVE \E x \in first : g[x] = i
      OBVIOUS
    <3>1. i \in 1..n /\ i <= m
      BY <1>2
    <3>2. PICK x \in S : f[x] = i
      BY <1>3, <3>1
    <3> QED BY <3>1, <3>2
  <2>4. IsFiniteSet(first)
    BY FS_Subset
  <2> HIDE DEF g, first, k
  <2>5. g \in Bijection(first, 1..k)
    BY <2>1, <2>2, <2>3 DEF Bijection, Injection, Surjection, IsInjective
  <2>6. Cardinality(1..k) = Cardinality(first)
    BY <2>4, <2>5, FS_Bijection DEF ExistsBijection
  <2>7. Cardinality(1..k) = k
    <3>1. 1 \in Int /\ k \in Int
      BY <1>2
    <3>2. Cardinality(1..k) = IF 1 > k THEN 0 ELSE k - 1 + 1
      BY <3>1, FS_Interval
    <3> QED BY <1>2, <3>2
  <2> QED BY <2>6, <2>7
<1> QED BY <1>0, <1>4, <1>5 DEF n

-----------------------------------------------------------------------------
(* Flattening. *)

Joins(f, seqs, S) ==
  /\ f \in [0..Len(seqs) -> Seq(S)] /\ f[0] = << >>
  /\ \A i \in 1..Len(seqs) : f[i] = f[i - 1] \o seqs[i]

LEMMA JoinsExists ==
  ASSUME NEW S, NEW seqs \in Seq(Seq(S))
  PROVE  \E f : Joins(f, seqs, S)
<1> DEFINE n == Len(seqs)
           next == [i \in 1..n |-> [s \in Seq(S) |-> s \o seqs[i]]]
           V == Seq(S)
           none == << >>
<1>1. n \in Nat /\ none \in V
  BY LenProperties
<1>2. next \in [1..n -> [V -> V]]
  <2>1. \A i \in 1..n : seqs[i] \in Seq(S)
    BY ElementOfSeq
  <2>2. \A i \in 1..n : \A s \in Seq(S) : s \o seqs[i] \in Seq(S)
    BY <2>1, ConcatProperties
  <2> QED BY <2>2
<1>3. \A i \in 1..n : \A s \in V : next[i][s] = s \o seqs[i]
  OBVIOUS
<1> HIDE DEF next, none, V, n
<1>4. PICK f : Walks(f, V, none, n, next)
  BY <1>1, <1>2, StepsExist
<1>5. \A i \in 1..n : i - 1 \in 0..n
  BY <1>1
<1>6. \A i \in 1..n : f[i] = f[i - 1] \o seqs[i]
  BY <1>3, <1>4, <1>5 DEF Walks
<1> QED BY <1>4, <1>6 DEF Walks, Joins, V, none, n

LEMMA JoinsAgree ==
  ASSUME NEW S, NEW s, NEW t, NEW f, NEW g, Joins(f, s, S), Joins(g, t, S), Len(s) \in Nat, Len(t) \in Nat,
         NEW n \in Nat, n <= Len(s), n <= Len(t), \A i \in 1..n : s[i] = t[i]
  PROVE  f[n] = g[n]
<1> DEFINE P == {m \in Nat : m <= n => f[m] = g[m]}
<1>1. 0 \in P
  BY DEF Joins
<1>2. ASSUME NEW m \in Nat, m \in P PROVE m + 1 \in P
  <2> SUFFICES ASSUME m + 1 <= n PROVE f[m + 1] = g[m + 1]
    OBVIOUS
  <2>1. m + 1 \in 1..n /\ m + 1 \in 1..Len(s) /\ m + 1 \in 1..Len(t) /\ (m + 1) - 1 = m /\ f[m] = g[m]
    BY <1>2
  <2>2. f[m + 1] = f[(m + 1) - 1] \o s[m + 1] /\ g[m + 1] = g[(m + 1) - 1] \o t[m + 1]
    BY <2>1 DEF Joins
  <2>3. s[m + 1] = t[m + 1]
    BY <2>1
  <2> QED BY <2>1, <2>2, <2>3
<1> HIDE DEF P
<1>3. n \in P
  BY <1>1, <1>2, Induction
<1> QED BY <1>3 DEF P

LEMMA FlattenJoins ==
  ASSUME NEW S, NEW seqs \in Seq(Seq(S)), NEW f, Joins(f, seqs, S)
  PROVE  FlattenSeq(seqs) = f[Len(seqs)]
<1> DEFINE n == Len(seqs)
           IsFlat(g) == g = [i \in 1..n |-> IF i = 1 THEN seqs[i] ELSE g[i - 1] \o seqs[i]]
           F == CHOOSE g : IsFlat(g)
<1>0. n \in Nat
  BY LenProperties
<1>1. CASE n = 0
  <2>1. FlattenSeq(seqs) = seqs
    BY <1>1 DEF FlattenSeq
  <2>2. seqs = << >>
    BY <1>1, EmptySeq
  <2> QED BY <1>1, <2>1, <2>2 DEF Joins
<1>2. CASE n # 0
  <2> DEFINE h == [i \in 1..n |-> f[i]]
  <2>1. IsFlat(h)
    <3>1. \A i \in 1..n : i = 1 \/ i - 1 \in 1..n
      BY <1>0
    <3>2. ASSUME NEW i \in 1..n
          PROVE  h[i] = IF i = 1 THEN seqs[i] ELSE h[i - 1] \o seqs[i]
      <4>1. f[i] = f[i - 1] \o seqs[i]
        BY DEF Joins
      <4>2. CASE i = 1
        <5>1. f[0] = << >> /\ i - 1 = 0
          BY <4>2 DEF Joins
        <5>2. seqs[i] \in Seq(S)
          BY ElementOfSeq
        <5>3. << >> \o seqs[i] = seqs[i]
          BY <5>2, ConcatEmptySeq
        <5> QED BY <4>1, <4>2, <5>1, <5>3
      <4>3. CASE i # 1
        <5>1. i - 1 \in 1..n /\ h[i - 1] = f[i - 1]
          BY <3>1, <4>3
        <5> QED BY <4>1, <4>3, <5>1
      <4> QED BY <4>2, <4>3
    <3> QED BY <3>2
  <2> HIDE DEF h
  <2>2. IsFlat(F)
    <3> HIDE DEF IsFlat
    <3> QED BY <2>1
  <2>3. FlattenSeq(seqs) = F[n]
    BY <1>2 DEF FlattenSeq
  <2> HIDE DEF F
  <2>4. \A i \in 1..n : F[i] = IF i = 1 THEN seqs[i] ELSE F[i - 1] \o seqs[i]
    BY <2>2
  <2> HIDE DEF IsFlat
  <2> DEFINE P == {m \in Nat : m \in 1..n => F[m] = f[m]}
  <2>5. 0 \in P
    BY <1>0
  <2> HIDE DEF P
  <2>6. ASSUME NEW m \in Nat, m \in P PROVE m + 1 \in P
    <3> SUFFICES ASSUME m + 1 \in 1..n PROVE F[m + 1] = f[m + 1]
      BY DEF P
    <3>0. (m + 1) - 1 = m /\ (m # 0 => m + 1 # 1 /\ m \in 1..n)
      BY <1>0
    <3>1. f[m + 1] = f[(m + 1) - 1] \o seqs[m + 1] /\ (m + 1) - 1 = m
      <4> HIDE DEF P
      <4> QED BY <3>0 DEF Joins
    <3>2. CASE m = 0
      <4>1. F[m + 1] = seqs[m + 1] /\ f[m] = << >> /\ seqs[m + 1] \in Seq(S)
        BY <2>4, <3>2, ElementOfSeq DEF Joins
      <4>2. << >> \o seqs[m + 1] = seqs[m + 1]
        BY <4>1, ConcatEmptySeq
      <4> QED BY <3>1, <4>1, <4>2
    <3>3. CASE m # 0
      <4>1. F[m + 1] = F[(m + 1) - 1] \o seqs[m + 1] /\ m + 1 # 1 /\ m \in 1..n
        <5> HIDE DEF n, P
        <5> QED BY <2>4, <3>0, <3>3
      <4>2. F[m] = f[m]
        BY <2>6, <4>1 DEF P
      <4> QED BY <3>1, <4>1, <4>2
    <3> QED BY <3>2, <3>3
  <2>7. n \in P
    BY <1>0, <2>5, <2>6, Induction
  <2>8. n \in 1..n
    BY <1>0, <1>2
  <2> QED BY <2>3, <2>7, <2>8 DEF P
<1> QED BY <1>1, <1>2

\* One more sequence, and none.
LEMMA FlattenAppend ==
  ASSUME NEW S, NEW seqs \in Seq(Seq(S)), NEW x \in Seq(S)
  PROVE  /\ FlattenSeq(Append(seqs, x)) = FlattenSeq(seqs) \o x
         /\ FlattenSeq(seqs) \in Seq(S)
<1> DEFINE more == Append(seqs, x)
           n == Len(seqs)
<1>1. more \in Seq(Seq(S)) /\ Len(more) = n + 1 /\ n \in Nat /\ more[n + 1] = x
      /\ \A i \in 1..n : seqs[i] = more[i]
  BY AppendProperties, LenProperties
<1> HIDE DEF more
<1>2. PICK f : Joins(f, seqs, S)
  BY JoinsExists
<1>3. PICK g : Joins(g, more, S)
  BY <1>1, JoinsExists
<1>4. FlattenSeq(seqs) = f[n] /\ FlattenSeq(more) = g[n + 1]
  BY <1>1, <1>2, <1>3, FlattenJoins
<1>5. f[n] = g[n]
  <2>1. /\ n <= Len(seqs) /\ n <= Len(more) /\ Len(seqs) \in Nat /\ Len(more) \in Nat
        /\ n \in Nat /\ \A i \in 1..n : seqs[i] = more[i]
    BY <1>1
  <2> HIDE DEF n
  <2>2. n <= Len(seqs) /\ n <= Len(more) /\ \A i \in 1..n : seqs[i] = more[i]
    BY <2>1
  <2> QED BY ONLY <1>2, <1>3, <2>1, <2>2, JoinsAgree
<1>6. g[n + 1] = g[n] \o x
  <2>1. n + 1 \in 1..Len(more) /\ (n + 1) - 1 = n
    BY <1>1
  <2> HIDE DEF n
  <2>2. g[n + 1] = g[(n + 1) - 1] \o more[n + 1]
    BY <1>3, <2>1 DEF Joins
  <2> QED BY <1>1, <2>1, <2>2
<1>7. f[n] \in Seq(S)
  <2>1. n \in 0..Len(seqs)
    BY <1>1
  <2> HIDE DEF n
  <2> QED BY <1>2, <2>1 DEF Joins
<1> QED BY <1>4, <1>5, <1>6, <1>7 DEF more

LEMMA ThenThen ==
  ASSUME NEW S, NEW s \in Seq(S), NEW t \in Seq(S), NEW u \in Seq(S)
  PROVE  Then(Then(s, t), u) = Then(s, Then(t, u))
BY ConcatAssociative DEF Then

LEMMA FlattenNone == FlattenSeq(<< >>) = << >>
BY DEF FlattenSeq

\* Both sides of a concatenation.
LEMMA FlattenConcat ==
  ASSUME NEW S, NEW s \in Seq(Seq(S)), NEW t \in Seq(Seq(S))
  PROVE  FlattenSeq(s \o t) = FlattenSeq(s) \o FlattenSeq(t)
<1> DEFINE T == Seq(S)
           P == {n \in Nat : \A u \in Seq(T) : Len(u) = n => FlattenSeq(s \o u) = FlattenSeq(s) \o FlattenSeq(u)}
<1>0. FlattenSeq(s) \in Seq(S) /\ s \in Seq(T)
  <2>1. << >> \in Seq(S)
    OBVIOUS
  <2> QED BY <2>1, FlattenAppend
<1>1. 0 \in P
  <2> SUFFICES ASSUME NEW u \in Seq(T), Len(u) = 0 PROVE FlattenSeq(s \o u) = FlattenSeq(s) \o FlattenSeq(u)
    OBVIOUS
  <2>1. u = << >>
    BY EmptySeq
  <2>2. s \o << >> = s /\ FlattenSeq(s) \o << >> = FlattenSeq(s)
    BY <1>0, ConcatEmptySeq
  <2> QED BY <2>1, <2>2, FlattenNone
<1>2. ASSUME NEW n \in Nat, n \in P PROVE n + 1 \in P
  <2> SUFFICES ASSUME NEW u \in Seq(T), Len(u) = n + 1 PROVE FlattenSeq(s \o u) = FlattenSeq(s) \o FlattenSeq(u)
    OBVIOUS
  <2>1. u # << >>
    OBVIOUS
  <2>2. PICK v \in Seq(T), x \in T : u = Append(v, x)
    BY <2>1, SequenceEmptyOrAppend
  <2>3. Len(Append(v, x)) = Len(v) + 1 /\ Len(v) \in Nat
    BY AppendProperties, LenProperties
  <2>4. Len(v) = n
    BY <2>2, <2>3
  <2>5. FlattenSeq(s \o v) = FlattenSeq(s) \o FlattenSeq(v)
    BY <1>2, <2>4
  <2>6. s \o Append(v, x) = Append(s \o v, x)
    <3>1. With(Then(s, v), x) = Then(s, With(v, x))
      BY <1>0, WithThen
    <3> QED BY <3>1 DEF With, Then
  <2> DEFINE sv == s \o v
  <2>7. sv \in Seq(T)
    BY <1>0, ConcatProperties
  <2> HIDE DEF sv
  <2>8. FlattenSeq(Append(sv, x)) = FlattenSeq(sv) \o x
    BY <2>7, FlattenAppend
  <2>9. FlattenSeq(Append(v, x)) = FlattenSeq(v) \o x /\ FlattenSeq(v) \in Seq(S)
    BY FlattenAppend
  <2>10. (FlattenSeq(s) \o FlattenSeq(v)) \o x = FlattenSeq(s) \o (FlattenSeq(v) \o x)
    <3> DEFINE a == FlattenSeq(s)
               b == FlattenSeq(v)
    <3>1. a \in Seq(S) /\ b \in Seq(S) /\ x \in Seq(S)
      BY <1>0, <2>9
    <3> HIDE DEF a, b
    <3>2. Then(Then(a, b), x) = Then(a, Then(b, x))
      BY <3>1, ThenThen
    <3> QED BY <3>2 DEF a, b, Then
  <2> QED BY <2>2, <2>5, <2>6, <2>8, <2>9, <2>10 DEF sv
<1> HIDE DEF P
<1>3. Len(t) \in P
  BY <1>1, <1>2, LenProperties, Induction
<1> QED BY <1>3 DEF P

-----------------------------------------------------------------------------
(* Lists of lists. *)

\* A function, applied to every element.
Maps(f, S, T) == f \in [S -> T]
Mapped(f, s) == [i \in DOMAIN s |-> f[s[i]]]

LEMMA MappedIs ==
  ASSUME NEW S, NEW T, NEW f, Maps(f, S, T), NEW s \in Seq(S)
  PROVE  /\ Mapped(f, s) \in Seq(T) /\ Len(Mapped(f, s)) = Len(s) /\ Len(s) \in Nat
         /\ \A i \in 1..Len(s) : Mapped(f, s)[i] = f[s[i]] /\ s[i] \in S
<1> DEFINE m == Mapped(f, s)
           n == Len(s)
<1>1. n \in Nat /\ DOMAIN s = 1..n /\ \A i \in 1..n : s[i] \in S
  BY LenProperties, ElementOfSeq
<1>2. m = [i \in 1..n |-> f[s[i]]]
  BY <1>1 DEF Mapped
<1> HIDE DEF m, n
<1>3. m \in [1..n -> T] /\ \A i \in 1..n : m[i] = f[s[i]]
  BY <1>1, <1>2 DEF Maps
<1>4. m \in Seq(T)
  BY <1>1, <1>3
<1>5. Len(m) = n
  BY <1>1, <1>3, <1>4, LenProperties
<1> QED BY <1>1, <1>3, <1>4, <1>5 DEF m, n

LEMMA MappedAppend ==
  ASSUME NEW S, NEW T, NEW f, Maps(f, S, T), NEW s \in Seq(S), NEW x \in S
  PROVE  Mapped(f, Append(s, x)) = Append(Mapped(f, s), f[x])
<1> DEFINE more == Append(s, x)
           n == Len(s)
           a == Mapped(f, more)
           b == Mapped(f, s)
           y == f[x]
           r == Append(b, y)
<1>1. /\ more \in Seq(S) /\ Len(more) = n + 1 /\ n \in Nat /\ more[n + 1] = x
      /\ \A i \in 1..n : more[i] = s[i]
  BY AppendProperties, LenProperties
<1> HIDE DEF more
<1>2. a \in Seq(T) /\ Len(a) = n + 1 /\ \A i \in 1..(n + 1) : a[i] = f[more[i]]
  BY <1>1, MappedIs
<1>3. b \in Seq(T) /\ Len(b) = n /\ \A i \in 1..n : b[i] = f[s[i]]
  BY MappedIs
<1>4. y \in T
  BY DEF Maps
<1> HIDE DEF a, b, n, y
<1>5. /\ r \in Seq(T) /\ Len(r) = n + 1 /\ r[n + 1] = y
      /\ \A i \in 1..n : r[i] = b[i]
  BY <1>1, <1>3, <1>4, AppendProperties
<1> HIDE DEF r
<1>6. ASSUME NEW i \in 1..(n + 1)
      PROVE  a[i] = r[i]
  <2>1. CASE i = n + 1
    BY <1>1, <1>2, <1>5, <2>1 DEF y
  <2>2. CASE i \in 1..n
    BY <1>1, <1>2, <1>3, <1>5, <2>2
  <2>3. i = n + 1 \/ i \in 1..n
    BY <1>1
  <2> QED BY <2>1, <2>2, <2>3
<1>7. a = r
  BY <1>2, <1>5, <1>6, SeqEqual
<1> QED BY <1>7 DEF a, r, b, y, more

LEMMA MappedConcat ==
  ASSUME NEW S, NEW T, NEW f, Maps(f, S, T), NEW s \in Seq(S), NEW t \in Seq(S)
  PROVE  Mapped(f, s \o t) = Mapped(f, s) \o Mapped(f, t)
<1> DEFINE st == s \o t
           m == Len(s)
           n == Len(t)
           a == Mapped(f, st)
           b == Mapped(f, s)
           c == Mapped(f, t)
           r == b \o c
<1>1. /\ st \in Seq(S) /\ Len(st) = m + n /\ m \in Nat /\ n \in Nat
      /\ \A i \in 1..m : st[i] = s[i]
      /\ \A i \in 1..n : st[m + i] = t[i]
  BY ConcatElements
<1> HIDE DEF st
<1>k. a \in Seq(T) /\ Len(a) = Len(st) /\ \A i \in 1..Len(st) : a[i] = f[st[i]]
  <2>1. st \in Seq(S)
    BY <1>1
  <2> HIDE DEF m, n
  <2> QED BY <2>1, MappedIs
<1>3. /\ b \in Seq(T) /\ Len(b) = m /\ \A i \in 1..m : b[i] = f[s[i]]
      /\ c \in Seq(T) /\ Len(c) = n /\ \A i \in 1..n : c[i] = f[t[i]]
  BY MappedIs
<1> HIDE DEF a, b, c
<1>4. /\ r \in Seq(T) /\ Len(r) = m + n
      /\ \A i \in 1..m : r[i] = b[i]
      /\ \A i \in 1..n : r[m + i] = c[i]
  <2>1. b \in Seq(T) /\ c \in Seq(T)
    BY <1>3
  <2>2. /\ Len(r) = Len(b) + Len(c) /\ r \in Seq(T)
        /\ \A i \in 1..Len(b) : r[i] = b[i]
        /\ \A i \in 1..Len(c) : r[Len(b) + i] = c[i]
    BY <2>1, ConcatElements
  <2>3. Len(b) = m /\ Len(c) = n
    BY <1>3
  <2> HIDE DEF r, m, n
  <2> QED BY <2>2, <2>3
<1> HIDE DEF m, n
<1>2. a \in Seq(T) /\ Len(a) = m + n /\ \A i \in 1..(m + n) : a[i] = f[st[i]]
  BY <1>1, <1>k
<1> HIDE DEF r
<1>5. ASSUME NEW i \in 1..(m + n)
      PROVE  a[i] = r[i]
  <2>1. CASE i \in 1..m
    <3>1. a[i] = f[st[i]]
      BY <1>2
    <3>2. st[i] = s[i]
      BY <1>1, <2>1
    <3>3. r[i] = b[i] /\ b[i] = f[s[i]]
      BY <1>3, <1>4, <2>1
    <3> QED BY <3>1, <3>2, <3>3
  <2>2. ASSUME NEW j \in 1..n, i = m + j PROVE a[i] = r[i]
    <3>1. a[i] = f[st[i]]
      BY <1>2
    <3>2. st[m + j] = t[j]
      BY <1>1, <2>2
    <3>3. r[m + j] = c[j] /\ c[j] = f[t[j]]
      BY <1>3, <1>4, <2>2
    <3> QED BY <2>2, <3>1, <3>2, <3>3
  <2>3. i \in 1..m \/ (i - m \in 1..n /\ i = m + (i - m))
    BY <1>1
  <2> QED BY <2>1, <2>2, <2>3
<1>6. a = r
  BY <1>2, <1>4, <1>5, SeqEqual
<1> QED BY <1>6 DEF a, r, b, c, st

\* What takes concatenations to concatenations does so to flattenings.
LEMMA FlattenMapped ==
  ASSUME NEW S, NEW T, NEW f, Maps(f, Seq(S), Seq(T)), f[<< >>] = << >>,
         \A s, t \in Seq(S) : f[s \o t] = f[s] \o f[t],
         NEW parts \in Seq(Seq(S))
  PROVE  f[FlattenSeq(parts)] = FlattenSeq(Mapped(f, parts))
<1> DEFINE U == Seq(S)
           V == Seq(T)
           P == {n \in Nat : \A u \in Seq(U) : Len(u) = n => f[FlattenSeq(u)] = FlattenSeq(Mapped(f, u))}
<1>1. 0 \in P
  <2> SUFFICES ASSUME NEW u \in Seq(U), Len(u) = 0
               PROVE  f[FlattenSeq(u)] = FlattenSeq(Mapped(f, u))
    OBVIOUS
  <2>1. u = << >>
    BY EmptySeq
  <2>2. Mapped(f, << >>) = << >>
    BY DEF Mapped
  <2> QED BY <2>1, <2>2, FlattenNone
<1>2. ASSUME NEW n \in Nat, n \in P PROVE n + 1 \in P
  <2> SUFFICES ASSUME NEW u \in Seq(U), Len(u) = n + 1
               PROVE  f[FlattenSeq(u)] = FlattenSeq(Mapped(f, u))
    OBVIOUS
  <2>1. u # << >>
    OBVIOUS
  <2>2. PICK v \in Seq(U), x \in U : u = Append(v, x)
    BY <2>1, SequenceEmptyOrAppend
  <2>3. Len(Append(v, x)) = Len(v) + 1 /\ Len(v) \in Nat
    BY AppendProperties, LenProperties
  <2>4. f[FlattenSeq(v)] = FlattenSeq(Mapped(f, v))
    BY <1>2, <2>2, <2>3
  <2> DEFINE a == FlattenSeq(v)
             m == Mapped(f, v)
             y == f[x]
  <2>5. FlattenSeq(Append(v, x)) = a \o x /\ a \in Seq(S)
    BY FlattenAppend
  <2>6. Mapped(f, Append(v, x)) = Append(m, y) /\ m \in Seq(V) /\ y \in V
    <3> HIDE DEF U, V
    <3>1. Maps(f, U, V)
      BY DEF U, V
    <3>2. Mapped(f, Append(v, x)) = Append(m, y)
      BY <3>1, MappedAppend
    <3>3. m \in Seq(V)
      BY <3>1, MappedIs
    <3>4. y \in V
      BY <3>1 DEF Maps
    <3> QED BY <3>2, <3>3, <3>4
  <2> HIDE DEF a, m, y
  <2>7. FlattenSeq(Append(m, y)) = FlattenSeq(m) \o y
    BY <2>6, FlattenAppend
  <2>8. f[a \o x] = f[a] \o f[x]
    BY <2>5
  <2> QED BY <2>2, <2>4, <2>5, <2>6, <2>7, <2>8 DEF a, m, y
<1> HIDE DEF P
<1>3. Len(parts) \in P
  BY <1>1, <1>2, LenProperties, Induction
<1> QED BY <1>3 DEF P

\* Dropping parts that come to nothing.
LEMMA FlattenPicked ==
  ASSUME NEW S, NEW T, NEW f, Maps(f, S, Seq(T)), NEW s \in Seq(S), NEW K,
         \A i \in 1..Len(s) : i \notin K => f[s[i]] = << >>
  PROVE  FlattenSeq(Mapped(f, Picked(s, K))) = FlattenSeq(Mapped(f, s))
<1> DEFINE V == Seq(T)
           Vain(u) == \A i \in 1..Len(u) : i \notin K => f[u[i]] = << >>
           P == {n \in Nat : \A u \in Seq(S) : Len(u) = n /\ Vain(u) =>
                               FlattenSeq(Mapped(f, Picked(u, K))) = FlattenSeq(Mapped(f, u))}
<1>1. 0 \in P
  <2> SUFFICES ASSUME NEW u \in Seq(S), Len(u) = 0
               PROVE  FlattenSeq(Mapped(f, Picked(u, K))) = FlattenSeq(Mapped(f, u))
    OBVIOUS
  <2>1. u = << >>
    BY EmptySeq
  <2> QED BY <2>1, PickedEmpty
<1>2. ASSUME NEW n \in Nat, n \in P PROVE n + 1 \in P
  <2> SUFFICES ASSUME NEW u \in Seq(S), Len(u) = n + 1, Vain(u)
               PROVE  FlattenSeq(Mapped(f, Picked(u, K))) = FlattenSeq(Mapped(f, u))
    OBVIOUS
  <2>1. u # << >>
    OBVIOUS
  <2>2. PICK v \in Seq(S), x \in S : u = Append(v, x)
    BY <2>1, SequenceEmptyOrAppend
  <2>3. /\ Len(Append(v, x)) = Len(v) + 1 /\ Len(v) \in Nat /\ Append(v, x)[Len(v) + 1] = x
        /\ \A i \in 1..Len(v) : Append(v, x)[i] = v[i]
    BY AppendProperties, LenProperties
  <2>4. Len(v) = n
    BY <2>2, <2>3
  <2>5. Vain(v)
    <3>1. \A i \in 1..Len(v) : i \in 1..Len(u) /\ u[i] = v[i]
      BY <2>2, <2>3
    <3> QED BY <3>1
  <2>6. n + 1 \notin K => f[x] = << >>
    <3>1. n + 1 \in 1..Len(u) /\ u[n + 1] = x
      BY <2>2, <2>3, <2>4
    <3> QED BY <3>1
  <2> DEFINE p == Picked(v, K)
             m == Mapped(f, v)
             q == Mapped(f, p)
             y == f[x]
  <2>7. FlattenSeq(q) = FlattenSeq(m)
    BY <1>2, <2>4, <2>5
  <2>8. p \in Seq(S)
    BY PickedLocates
  <2>9. Mapped(f, u) = Append(m, y) /\ m \in Seq(V) /\ y \in V
    <3> HIDE DEF V
    <3>1. Maps(f, S, V)
      BY DEF V
    <3>2. Mapped(f, u) = Append(m, y)
      BY <2>2, <3>1, MappedAppend
    <3>3. m \in Seq(V)
      BY <3>1, MappedIs
    <3>4. y \in V
      BY <3>1 DEF Maps
    <3> QED BY <3>2, <3>3, <3>4
  <2>10. Picked(u, K) = IF n + 1 \in K THEN Append(p, x) ELSE p
    BY <2>2, <2>4, PickedAppend
  <2> HIDE DEF p, m, y
  <2>11. Mapped(f, Append(p, x)) = Append(q, y) /\ q \in Seq(V)
    BY <2>8, MappedAppend, MappedIs DEF y
  <2> HIDE DEF q
  <2>12. FlattenSeq(Append(m, y)) = FlattenSeq(m) \o y /\ FlattenSeq(m) \in Seq(T)
    BY <2>9, FlattenAppend
  <2>13. CASE n + 1 \in K
    <3>1. FlattenSeq(Append(q, y)) = FlattenSeq(q) \o y
      BY <2>9, <2>11, FlattenAppend
    <3> QED BY <2>7, <2>9, <2>10, <2>11, <2>12, <2>13, <3>1
  <2>14. CASE n + 1 \notin K
    <3>1. FlattenSeq(m) \o << >> = FlattenSeq(m)
      BY <2>12, ConcatEmptySeq
    <3> QED BY <2>6, <2>7, <2>9, <2>10, <2>12, <2>14, <3>1 DEF q, y
  <2> QED BY <2>13, <2>14
<1> HIDE DEF Vain
<1> HIDE DEF P
<1>3. Len(s) \in P /\ Vain(s)
  BY <1>1, <1>2, LenProperties, Induction DEF Vain
<1> QED BY <1>3 DEF P

LEMMA ToSetConcat ==
  ASSUME NEW S, NEW s \in Seq(S), NEW t \in Seq(S)
  PROVE  ToSet(s \o t) = ToSet(s) \cup ToSet(t)
<1> DEFINE st == s \o t
           m == Len(s)
           n == Len(t)
<1>1. /\ st \in Seq(S) /\ Len(st) = m + n /\ m \in Nat /\ n \in Nat
      /\ \A i \in 1..m : st[i] = s[i]
      /\ \A i \in 1..n : st[m + i] = t[i]
  BY ConcatElements
<1>2. DOMAIN st = 1..(m + n) /\ DOMAIN s = 1..m /\ DOMAIN t = 1..n
  BY <1>1, LenProperties
<1> HIDE DEF st, m, n
<1>3. ASSUME NEW i \in 1..(m + n)
      PROVE  st[i] \in ToSet(s) \cup ToSet(t)
  <2>1. i \in 1..m \/ (i - m \in 1..n /\ i = m + (i - m))
    BY <1>1
  <2>2. ASSUME NEW j \in 1..n, i = m + j PROVE st[i] \in ToSet(t)
    BY <1>1, <1>2, <2>2 DEF ToSet
  <2>3. CASE i \in 1..m
    BY <1>1, <1>2, <2>3 DEF ToSet
  <2> QED BY <2>1, <2>2, <2>3
<1>4. \A i \in 1..m : s[i] \in ToSet(st)
  <2>1. \A i \in 1..m : i \in 1..(m + n)
    BY <1>1
  <2> QED BY <1>1, <1>2, <2>1 DEF ToSet
<1>5. \A i \in 1..n : t[i] \in ToSet(st)
  <2>1. \A i \in 1..n : m + i \in 1..(m + n)
    BY <1>1
  <2> QED BY <1>1, <1>2, <2>1 DEF ToSet
<1>6. ToSet(st) = ToSet(s) \cup ToSet(t)
  <2>1. ToSet(st) \subseteq ToSet(s) \cup ToSet(t)
    BY <1>2, <1>3 DEF ToSet
  <2>2. ToSet(s) \subseteq ToSet(st) /\ ToSet(t) \subseteq ToSet(st)
    BY <1>2, <1>4, <1>5 DEF ToSet
  <2> QED BY <2>1, <2>2
<1> QED BY <1>6 DEF st

LEMMA ToSetAppend ==
  ASSUME NEW S, NEW s \in Seq(S), NEW x \in S
  PROVE  ToSet(Append(s, x)) = ToSet(s) \cup {x}
<1> DEFINE one == <<x>>
<1>1. Append(s, x) = s \o one /\ one \in Seq(S)
  BY AppendIsConcat
<1>2. ToSet(one) = {x}
  BY DEF ToSet
<1> HIDE DEF one
<1>3. ToSet(s \o one) = ToSet(s) \cup ToSet(one)
  BY <1>1, ToSetConcat
<1> QED BY <1>1, <1>2, <1>3

LEMMA ToSetNone == ToSet(<< >>) = {}
BY DEF ToSet

\* A flattening holds what its parts hold.
LEMMA FlattenHolds ==
  ASSUME NEW S, NEW parts \in Seq(Seq(S))
  PROVE  ToSet(FlattenSeq(parts)) = UNION {ToSet(part) : part \in ToSet(parts)}
<1> DEFINE U == Seq(S)
           Holds(u) == ToSet(FlattenSeq(u)) = UNION {ToSet(part) : part \in ToSet(u)}
           P == {n \in Nat : \A u \in Seq(U) : Len(u) = n => Holds(u)}
<1>1. 0 \in P
  <2> SUFFICES ASSUME NEW u \in Seq(U), Len(u) = 0
               PROVE  Holds(u)
    OBVIOUS
  <2>1. u = << >>
    BY EmptySeq
  <2> QED BY <2>1, FlattenNone, ToSetNone
<1>2. ASSUME NEW n \in Nat, n \in P PROVE n + 1 \in P
  <2> SUFFICES ASSUME NEW u \in Seq(U), Len(u) = n + 1
               PROVE  Holds(u)
    OBVIOUS
  <2>1. u # << >>
    OBVIOUS
  <2>2. PICK v \in Seq(U), x \in U : u = Append(v, x)
    BY <2>1, SequenceEmptyOrAppend
  <2>3. Len(Append(v, x)) = Len(v) + 1 /\ Len(v) \in Nat
    BY AppendProperties, LenProperties
  <2>4. Holds(v)
    BY <1>2, <2>2, <2>3
  <2> DEFINE a == FlattenSeq(v)
  <2>5. FlattenSeq(u) = a \o x /\ a \in Seq(S)
    BY <2>2, FlattenAppend
  <2> HIDE DEF a
  <2>6. ToSet(a \o x) = ToSet(a) \cup ToSet(x)
    BY <2>5, ToSetConcat
  <2>7. ToSet(u) = ToSet(v) \cup {x}
    BY <2>2, ToSetAppend
  <2>8. ToSet(a) = UNION {ToSet(part) : part \in ToSet(v)}
    BY <2>4 DEF a
  <2> QED BY <2>5, <2>6, <2>7, <2>8
<1> HIDE DEF Holds
<1> HIDE DEF P
<1>3. Len(parts) \in P
  BY <1>1, <1>2, LenProperties, Induction
<1> QED BY <1>3 DEF P, Holds

\* Nothing occurs twice; no two parts have anything in common.
Distinct(s) == \A i, j \in 1..Len(s) : s[i] = s[j] => i = j
Apart(parts) == \A k, l \in 1..Len(parts) : k # l => ToSet(parts[k]) \cap ToSet(parts[l]) = {}

LEMMA DistinctConcat ==
  ASSUME NEW S, NEW s \in Seq(S), NEW t \in Seq(S)
  PROVE  Distinct(s \o t) <=> Distinct(s) /\ Distinct(t) /\ ToSet(s) \cap ToSet(t) = {}
<1> DEFINE st == s \o t
           m == Len(s)
           n == Len(t)
<1>1. /\ st \in Seq(S) /\ Len(st) = m + n /\ m \in Nat /\ n \in Nat
      /\ \A i \in 1..m : st[i] = s[i]
      /\ \A i \in 1..n : st[m + i] = t[i]
  BY ConcatElements
<1>2. DOMAIN s = 1..m /\ DOMAIN t = 1..n
  BY <1>1, LenProperties
<1> HIDE DEF st, m, n
<1>3. \A i \in 1..m : i \in 1..(m + n)
  BY <1>1
<1>4. \A i \in 1..n : m + i \in 1..(m + n)
  BY <1>1
<1>5. ASSUME Distinct(st)
      PROVE  Distinct(s) /\ Distinct(t) /\ ToSet(s) \cap ToSet(t) = {}
  <2>0. \A i, j \in 1..(m + n) : st[i] = st[j] => i = j
    BY <1>1, <1>5 DEF Distinct
  <2>1. Distinct(s)
    BY <1>1, <1>3, <2>0 DEF Distinct, m
  <2>2. ASSUME NEW i \in 1..n, NEW j \in 1..n, t[i] = t[j] PROVE i = j
    <3>1. m + i = m + j
      BY <1>1, <1>4, <2>0, <2>2
    <3> QED BY <1>1, <3>1
  <2>3. ASSUME NEW i \in 1..m, NEW j \in 1..n, s[i] = t[j] PROVE FALSE
    <3>1. i = m + j
      BY <1>1, <1>3, <1>4, <2>0, <2>3
    <3> QED BY <1>1, <3>1
  <2> QED BY <1>2, <2>1, <2>2, <2>3 DEF Distinct, ToSet, n
<1>6. ASSUME Distinct(s), Distinct(t), ToSet(s) \cap ToSet(t) = {}
      PROVE  Distinct(st)
  <2>0. \A i \in 1..m : \A j \in 1..n : s[i] # t[j]
    BY <1>2, <1>6 DEF ToSet
  <2> SUFFICES ASSUME NEW i \in 1..(m + n), NEW j \in 1..(m + n), st[i] = st[j]
               PROVE  i = j
    BY <1>1 DEF Distinct
  <2>1. i \in 1..m \/ (i - m \in 1..n /\ i = m + (i - m))
    BY <1>1
  <2>2. j \in 1..m \/ (j - m \in 1..n /\ j = m + (j - m))
    BY <1>1
  <2>3. CASE i \in 1..m /\ j \in 1..m
    <3>1. s[i] = s[j]
      BY <1>1, <2>3
    <3> QED BY <1>6, <2>3, <3>1 DEF Distinct, m
  <2>4. ASSUME NEW k \in 1..n, i = m + k, NEW l \in 1..n, j = m + l PROVE i = j
    <3>1. t[k] = t[l]
      BY <1>1, <2>4
    <3> QED BY <1>6, <2>4, <3>1 DEF Distinct, n
  <2>5. ASSUME NEW k \in 1..n, i = m + k PROVE j \notin 1..m
    BY <1>1, <2>0, <2>5
  <2>6. ASSUME NEW k \in 1..n, j = m + k PROVE i \notin 1..m
    BY <1>1, <2>0, <2>6
  <2>7. CASE i - m \in 1..n /\ i = m + (i - m) /\ j - m \in 1..n /\ j = m + (j - m)
    <3> DEFINE k == i - m
               l == j - m
    <3>1. k \in 1..n /\ i = m + k /\ l \in 1..n /\ j = m + l
      BY <2>7
    <3> HIDE DEF k, l
    <3> QED BY <2>4, <3>1
  <2>8. CASE i - m \in 1..n /\ i = m + (i - m) /\ j \in 1..m
    <3> DEFINE k == i - m
    <3>1. k \in 1..n /\ i = m + k
      BY <2>8
    <3> HIDE DEF k
    <3> QED BY <2>5, <2>8, <3>1
  <2>9. CASE j - m \in 1..n /\ j = m + (j - m) /\ i \in 1..m
    <3> DEFINE k == j - m
    <3>1. k \in 1..n /\ j = m + k
      BY <2>9
    <3> HIDE DEF k
    <3> QED BY <2>6, <2>9, <3>1
  <2> QED BY <2>1, <2>2, <2>3, <2>7, <2>8, <2>9
<1> QED BY <1>5, <1>6 DEF st

LEMMA FlattenApart ==
  ASSUME NEW S, NEW parts \in Seq(Seq(S)), Distinct(FlattenSeq(parts))
  PROVE  Apart(parts)
<1> DEFINE U == Seq(S)
           P == {n \in Nat : \A u \in Seq(U) : Len(u) = n /\ Distinct(FlattenSeq(u)) => Apart(u)}
<1>1. 0 \in P
  BY DEF Apart
<1>2. ASSUME NEW n \in Nat, n \in P PROVE n + 1 \in P
  <2> SUFFICES ASSUME NEW u \in Seq(U), Len(u) = n + 1, Distinct(FlattenSeq(u))
               PROVE  Apart(u)
    OBVIOUS
  <2>1. u # << >>
    OBVIOUS
  <2>2. PICK v \in Seq(U), x \in U : u = Append(v, x)
    BY <2>1, SequenceEmptyOrAppend
  <2>3. /\ Len(Append(v, x)) = Len(v) + 1 /\ Len(v) \in Nat /\ Append(v, x)[Len(v) + 1] = x
        /\ \A i \in 1..Len(v) : Append(v, x)[i] = v[i]
    BY AppendProperties, LenProperties
  <2>4. Len(v) = n /\ u[n + 1] = x /\ \A i \in 1..n : u[i] = v[i]
    BY <2>2, <2>3
  <2> DEFINE a == FlattenSeq(v)
  <2>5. FlattenSeq(u) = a \o x /\ a \in Seq(S)
    BY <2>2, FlattenAppend
  <2>6. ToSet(a) = UNION {ToSet(part) : part \in ToSet(v)}
    BY FlattenHolds
  <2> HIDE DEF a
  <2>7. Distinct(a) /\ ToSet(a) \cap ToSet(x) = {}
    BY <2>5, DistinctConcat
  <2>8. Apart(v)
    BY <1>2, <2>4, <2>7 DEF a
  <2>9. \A i \in 1..n : ToSet(v[i]) \cap ToSet(x) = {}
    <3>1. DOMAIN v = 1..n
      BY <2>4, LenProperties
    <3>2. \A i \in 1..n : v[i] \in ToSet(v)
      BY <3>1 DEF ToSet
    <3> QED BY <2>6, <2>7, <3>2
  <2> SUFFICES ASSUME NEW k \in 1..(n + 1), NEW l \in 1..(n + 1), k # l
               PROVE  ToSet(u[k]) \cap ToSet(u[l]) = {}
    BY DEF Apart
  <2>10. (k = n + 1 \/ k \in 1..n) /\ (l = n + 1 \/ l \in 1..n)
    OBVIOUS
  <2>11. CASE k \in 1..n /\ l \in 1..n
    BY <2>4, <2>8, <2>11 DEF Apart
  <2>12. CASE k = n + 1 /\ l \in 1..n
    BY <2>4, <2>9, <2>12
  <2>13. CASE l = n + 1 /\ k \in 1..n
    BY <2>4, <2>9, <2>13
  <2> QED BY <2>10, <2>11, <2>12, <2>13
<1> HIDE DEF P
<1>3. Len(parts) \in P
  BY <1>1, <1>2, LenProperties, Induction
<1> QED BY <1>3 DEF P

\* The last part, replaced.
Replaced(s, y) == [s EXCEPT ![Len(s)] = y]

LEMMA ReplaceLast ==
  ASSUME NEW S, NEW front \in Seq(S), NEW x \in S, NEW y \in S
  PROVE  Replaced(Append(front, x), y) = Append(front, y)
<1> DEFINE parts == Append(front, x)
           other == Append(front, y)
           n == Len(front)
<1>1. /\ parts \in Seq(S) /\ Len(parts) = n + 1 /\ n \in Nat /\ parts[n + 1] = x
      /\ \A i \in 1..n : parts[i] = front[i]
  BY AppendProperties, LenProperties
<1>2. /\ other \in Seq(S) /\ Len(other) = n + 1 /\ other[n + 1] = y
      /\ \A i \in 1..n : other[i] = front[i]
  BY AppendProperties, LenProperties
<1> HIDE DEF parts, other, n
<1> DEFINE new == [parts EXCEPT ![n + 1] = y]
<1>3. DOMAIN parts = 1..(n + 1) /\ parts \in [1..(n + 1) -> S]
  BY <1>1, LenProperties, ElementOfSeq
<1>4. /\ new \in [1..(n + 1) -> S] /\ new[n + 1] = y
      /\ \A i \in 1..n : new[i] = parts[i]
  BY <1>1, <1>3
<1> HIDE DEF new
<1>5. new \in Seq(S) /\ Len(new) = n + 1
  <2>1. n + 1 \in Nat
    BY <1>1
  <2>2. new \in Seq(S)
    BY <1>4, <2>1
  <2> QED BY <1>4, <2>1, <2>2, LenProperties
<1>6. \A i \in 1..(n + 1) : i = n + 1 \/ i \in 1..n
  BY <1>1
<1>7. \A i \in 1..(n + 1) : new[i] = other[i]
  BY <1>1, <1>2, <1>4, <1>6
<1>8. new = other
  BY <1>2, <1>5, <1>7, SeqEqual
<1> QED BY <1>1, <1>8 DEF new, parts, other, Replaced

LEMMA ReplacedIs ==
  ASSUME NEW S, NEW parts \in Seq(S), parts # << >>, NEW y \in S
  PROVE  Replaced(parts, y) \in Seq(S) /\ Replaced(parts, y) # << >>
<1>1. PICK front \in Seq(S), x \in S : parts = Append(front, x)
  BY SequenceEmptyOrAppend
<1>2. Replaced(parts, y) = Append(front, y)
  BY <1>1, ReplaceLast
<1>3. Append(front, y) \in Seq(S) /\ Len(Append(front, y)) = Len(front) + 1 /\ Len(front) \in Nat
  BY AppendProperties, LenProperties
<1>4. Append(front, y) # << >>
  <2> DEFINE more == Append(front, y)
  <2>1. Len(more) # 0
    BY <1>3
  <2> HIDE DEF more
  <2>2. more # << >>
    BY <2>1
  <2> QED BY <2>2 DEF more
<1> QED BY <1>2, <1>3, <1>4

\* The last part is extended by a sequence.
Prolongs(y, parts, z) == y = parts[Len(parts)] \o z

LEMMA LastExtended ==
  ASSUME NEW S, NEW parts \in Seq(Seq(S)), parts # << >>, NEW z \in Seq(S),
         NEW y \in Seq(S), Prolongs(y, parts, z)
  PROVE  FlattenSeq(Replaced(parts, y)) = FlattenSeq(parts) \o z
<1>1. PICK front \in Seq(Seq(S)), x \in Seq(S) : parts = Append(front, x)
  BY SequenceEmptyOrAppend
<1>2. /\ Len(parts) = Len(front) + 1 /\ Len(front) \in Nat /\ parts[Len(front) + 1] = x
  BY <1>1, AppendProperties, LenProperties
<1>3. Replaced(parts, y) = Append(front, y)
  BY <1>1, ReplaceLast
<1>4. y = x \o z
  BY <1>2 DEF Prolongs
<1> DEFINE a == FlattenSeq(front)
<1>5. FlattenSeq(Append(front, y)) = a \o y /\ FlattenSeq(parts) = a \o x /\ a \in Seq(S)
  BY <1>1, FlattenAppend
<1> HIDE DEF a
<1>6. Then(Then(a, x), z) = Then(a, Then(x, z))
  BY <1>5, ThenThen
<1> QED BY <1>3, <1>4, <1>5, <1>6 DEF Then

\* An element at a time.
LEMMA PrefixesGrow ==
  ASSUME NEW S, NEW s \in Seq(S), NEW g, g[0] = << >>,
         \A i \in 1..Len(s) : g[i] = Append(g[i - 1], s[i])
  PROVE  g[Len(s)] = s
<1> DEFINE n == Len(s)
           Same(m) == g[m] \in Seq(S) /\ Len(g[m]) = m /\ \A i \in 1..m : g[m][i] = s[i]
           P == {m \in Nat : m <= n => Same(m)}
<1>0. n \in Nat /\ \A i \in 1..n : s[i] \in S
  BY LenProperties, ElementOfSeq
<1>1. Same(0)
  <2>1. g[0] \in Seq(S) /\ Len(g[0]) = 0
    OBVIOUS
  <2> QED BY <2>1
<1>2. ASSUME NEW m \in Nat, Same(m), m + 1 <= n PROVE Same(m + 1)
  <2> DEFINE a == g[m]
             x == s[m + 1]
             b == g[m + 1]
  <2>1. m + 1 \in 1..n /\ (m + 1) - 1 = m
    BY <1>0, <1>2
  <2>2. b = Append(a, x) /\ x \in S
    BY <1>0, <2>1
  <2>3. a \in Seq(S) /\ Len(a) = m /\ \A i \in 1..m : a[i] = s[i]
    BY <1>2
  <2> HIDE DEF a, b, x
  <2>4. /\ b \in Seq(S) /\ Len(b) = m + 1 /\ b[m + 1] = x
        /\ \A i \in 1..m : b[i] = a[i]
    BY <2>2, <2>3, AppendProperties
  <2>5. \A i \in 1..(m + 1) : i = m + 1 \/ i \in 1..m
    OBVIOUS
  <2>6. \A i \in 1..(m + 1) : b[i] = s[i]
    BY <2>3, <2>4, <2>5 DEF x
  <2> QED BY <2>4, <2>6 DEF b
<1> HIDE DEF Same
<1>a. 0 \in P
  BY <1>1
<1>3. ASSUME NEW m \in Nat, m \in P PROVE m + 1 \in P
  BY <1>0, <1>2, <1>3
<1> HIDE DEF P
<1>4. n \in P
  BY <1>0, <1>a, <1>3, Induction
<1>5. Same(n)
  BY <1>0, <1>4 DEF P
<1> DEFINE a == g[n]
<1>6. a \in Seq(S) /\ Len(a) = Len(s) /\ \A i \in 1..Len(a) : a[i] = s[i]
  BY <1>5 DEF Same
<1> HIDE DEF a
<1>7. a = s
  BY <1>6, SeqEqual
<1> QED BY <1>7 DEF a

=============================================================================
