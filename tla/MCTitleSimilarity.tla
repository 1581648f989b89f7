------------------------- MODULE MCTitleSimilarity -------------------------
(* A chain of similar titles 1 - 2 - 3 in two documents, 1 and 3 similar from *)
(* one side only.  The file 4, where there is one, is in the first document.   *)
EXTENDS TitleSimilarity

CONSTANTS d1, d2, w1, w2, p1

MCDocOf == [s \in Sources |-> IF s \in {1, 4} THEN d1 ELSE d2]
Chain == {p \in Sources \X Sources : p \in {<<1, 2>>, <<2, 1>>, <<2, 3>>, <<3, 2>>, <<3, 1>>}}
OneProc == [w \in Workers |-> p1]
=============================================================================
