---------------------------- MODULE MCGraphEngine ----------------------------
(***************************************************************************)
(* GraphEngine on a graph with what the shipped graphs lack: cycles that a *)
(* node takes by overriding its edge or by failing, an override that names *)
(* no node, a node that writes what it did not declare, edges that may all *)
(* be closed, inputs that may not be ready, and no abstention path.        *)
(***************************************************************************)
EXTENDS GraphEngine

MCNode == {"look", "dig", "answer"}
MCField == {"found", "depth", "reply"}
MCInitFields == [f \in MCField |-> "none"]

MCEdges == [n \in MCNode |->
    CASE n = "look"   -> <<[to |-> "dig", when |-> "rich"], [to |-> "answer", when |-> "poor"]>>
      [] n = "dig"    -> <<[to |-> "answer", when |-> "always"]>>
      [] n = "answer" -> <<>>]
MCFallback == [n \in MCNode |-> IF n = "dig" THEN "look" ELSE "nowhere"]
MCReads == [n \in MCNode |-> IF n = "answer" THEN {"found"} ELSE {}]
MCWrites == [n \in MCNode |->
    CASE n = "look" -> {"found"} [] n = "dig" -> {"depth"} [] n = "answer" -> {"reply"}]
MCTimeout == [n \in MCNode |-> 2]

MCHolds(condition, f) == f["found"] = condition

Result(st, f, nx) == [status |-> st, fields |-> f, events |-> <<>>, next |-> nx, usd |-> 0]
MCNodeResults(n, f) ==
    CASE n = "look" ->
            {Result("ok", [f EXCEPT !["found"] = v], "nowhere") : v \in {"rich", "poor", "odd"}}
            \cup {Result("ok", f, "answer"), Result("failed", f, "nowhere")}
      [] n = "dig" ->
            {Result("ok", [f EXCEPT !["depth"] = "deep"], nx) : nx \in {"nowhere", "look", "gone"}}
            \cup {Result("failed", f, "nowhere"), Result("abstained", f, "nowhere")}
      [] n = "answer" ->
            {Result("ok", [f EXCEPT ![x] = "said"], "nowhere") : x \in {"reply", "depth"}}

=============================================================================
