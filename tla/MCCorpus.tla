------------------------------ MODULE MCCorpus ------------------------------
(* Corpus on five files in three documents.  The match relation is a chain   *)
(* b - a - c - e - f, so that matching is not transitive; files have earlier *)
(* and later matches, in their own document (c, e) and in others, and one    *)
(* document belongs to an admin.  <<b, e>> is a candidate but no match.      *)
EXTENDS Corpus, TLC

CONSTANTS d1, d2, d3, a, b, c, e, f

MCDocs == {d1, d2, d3}
MCSources == {a, b, c, e, f}
MCDocOf == (a :> d1) @@ (b :> d2) @@ (c :> d3) @@ (e :> d3) @@ (f :> d1)
MCRank == (a :> 2) @@ (b :> 1) @@ (c :> 3) @@ (e :> 4) @@ (f :> 5)
Both(R) == R \union {<<p[2], p[1]>> : p \in R}
MCMatch == Both({<<a, b>>, <<a, c>>, <<c, e>>, <<e, f>>})
MCNear == MCMatch \union Both({<<b, e>>})
MCAdminOwned == {d2}
=============================================================================
