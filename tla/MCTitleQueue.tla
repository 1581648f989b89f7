---------------------------- MODULE MCTitleQueue ----------------------------
(* Two processes, one of them with two workers.                               *)
EXTENDS TitleQueue

CONSTANTS a, b, c, w1, w2, w3, p1, p2

MCProcOf == [w \in Workers |-> IF w = w3 THEN p2 ELSE p1]
=============================================================================
