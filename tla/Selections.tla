----------------------------- MODULE Selections ------------------------------
(***************************************************************************)
(* What a filter of a list keeps: the elements at some positions, in the   *)
(* order they had; and what sorting makes of a set.  Positions and orders  *)
(* are sets and not predicates, so that facts about the lists can be       *)
(* stated for every one of them.                                           *)
(***************************************************************************)
EXTENDS Integers, Sequences, FiniteSets

\* What is kept of the first elements, for every number of them.
Kept(seq, positions) ==
  LET kept[i \in 0..Len(seq)] ==
        IF i = 0 THEN << >>
        ELSE IF i \in positions THEN Append(kept[i - 1], seq[i]) ELSE kept[i - 1]
  IN  kept

Picked(seq, positions) == Kept(seq, positions)[Len(seq)]

\* An element's rank counts what the order R puts before it.
Before(x, R, S) == {y \in S : <<y, x>> \in R}
RankIn(x, R, S) == 1 + Cardinality(Before(x, R, S))

\* The elements in the order R puts them in.
InOrder(S, R) == [n \in 1..Cardinality(S) |-> CHOOSE x \in S : RankIn(x, R, S) = n]

=============================================================================
