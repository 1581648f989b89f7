-------------------------- MODULE MCReviewNotices --------------------------
(* Two files of one document that both match an earlier file of another.       *)
EXTENDS ReviewNotices, TLC

CONSTANTS d1, d2, a, b, c, w1, w2

MCDocOf == (a :> d2) @@ (b :> d1) @@ (c :> d1)
OneDoc == [s \in Sources |-> d1]
MCRank == (a :> 1) @@ (b :> 2) @@ (c :> 3)
MCMatch == {<<a, b>>, <<b, a>>, <<a, c>>, <<c, a>>}
MCSymmetry == Permutations(Workers)
=============================================================================
