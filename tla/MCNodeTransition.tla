------------------------- MODULE MCNodeTransition -------------------------
(* Two nodes, each of a chain of its own, the start of the application and *)
(* two more calls.                                                         *)
EXTENDS NodeTransition

CONSTANTS n1, n2, main, test, start, c2, c3

MCNodes == {n1, n2}
MCChain == [n \in MCNodes |-> IF n = n1 THEN main ELSE test]
MCCalls == {start, c2, c3}
=============================================================================
