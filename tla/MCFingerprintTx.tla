--------------------------- MODULE MCFingerprintTx ---------------------------
(* Three files in two documents, pairwise sharing a lock key; a matches b and *)
(* c, and b is only near to c.                                                *)
EXTENDS FingerprintTx, TLC

CONSTANTS d1, d2, a, b, c, w1, w2, w3

MCDocs == {d1, d2}
MCDocRank == (d1 :> 1) @@ (d2 :> 2)
MCSources == {a, b, c}
MCDocOf == (a :> d1) @@ (b :> d2) @@ (c :> d2)
MCRank == (a :> 2) @@ (b :> 1) @@ (c :> 3)
Both(R) == R \union {<<p[2], p[1]>> : p \in R}
MCMatch == Both({<<a, b>>, <<a, c>>})
MCNear == MCMatch \union Both({<<b, c>>})
MCKeysOf == (a :> {1, 2}) @@ (b :> {1, 2, 3}) @@ (c :> {2, 3})
ThreeWorkers == {w1, w2, w3}
WorkerSymmetry == Permutations(ThreeWorkers)
=============================================================================
