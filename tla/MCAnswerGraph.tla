---------------------------- MODULE MCAnswerGraph ----------------------------
(***************************************************************************)
(* The shipped graphs under the interactive tier's three seconds, in ticks *)
(* of half a second: the nodes' timeouts are rounded up.                   *)
(***************************************************************************)
EXTENDS AnswerGraph

MCTimeout == [n \in Node |->
    CASE n = "analyze" -> 1 [] n = "parametric" -> 6 [] n = "retrieve" -> 4
      [] n = "shadow" -> 2 [] n = "build_context" -> 1 [] n = "generate" -> 20
      [] n = "abstain" -> 1]
=============================================================================
