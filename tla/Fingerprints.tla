---------------------------- MODULE Fingerprints ----------------------------
(***************************************************************************)
(* Which files match: the fingerprints of internal/fingerprint, the lock    *)
(* keys and the candidate queries of documents/repo_fingerprint.go, and the *)
(* rules by which a candidate is kept.  Corpus and FingerprintTx know files *)
(* by the relations Near and Match and by their lock keys; what they assume *)
(* of these is proved here, as is that the four bands of a hash find every  *)
(* hash that is close enough.                                               *)
(*                                                                          *)
(* Two files are fingerprinted, with any results that Analyze can have for  *)
(* them.  A hash is the set of its bits, a digest a model value.            *)
(* Left out: how texts, hashes and digests are computed.                    *)
(***************************************************************************)
EXTENDS Naturals, FiniteSets

CONSTANTS
    Scans,            \* files
    Digests, Texts,   \* values of SHA256 and of TextNormSHA
    NoText,           \* TextNormSHA is empty
    Bits,             \* positions in a hash
    Bands, BandOf,    \* the band of a position
    MaxDist,          \* SimHashMaxDist, PHashMaxDist: 1
    PageCounts,
    Pending           \* not fingerprinted yet

ASSUME BandsAssumption ==
    /\ IsFiniteSet(Bits) /\ IsFiniteSet(Bands)
    /\ BandOf \in [Bits -> Bands]
    /\ MaxDist \in Nat /\ MaxDist <= 1 /\ MaxDist < Cardinality(Bands)
    /\ PageCounts \subseteq Nat
    /\ NoText \notin Texts

VARIABLE row    \* the columns that a fingerprint of a file has written

\* What Analyze returns: a PDF with enough text, an image, a file with its digest only.
Result(txt, sim, vis, pages) == [sha : Digests, txt : txt, sim : sim, vis : vis, pages : pages]
Analyzed ==
    UNION {Result(Texts, SUBSET Bits, {{}}, PageCounts),
           Result({NoText}, {{}}, SUBSET Bits, {1}),
           Result({NoText}, {{}}, {{}}, PageCounts \union {0})}

HasText(f) == f.txt # NoText

-----------------------------------------------------------------------------
(* Hashes: 0, the empty set of bits, stands for no hash *)

Hamming(h, k) == Cardinality((h \ k) \union (k \ h))

Bucket_Whole(h, b) == h
Bucket(h, b) == {x \in h : BandOf[x] = b}

\* The rows of fingerprint_lsh.
Indexed(h) == IF h = {} THEN {} ELSE {<<b, Bucket(h, b)>> : b \in Bands}

LockKeys(f) ==
    {<<"sha", f.sha>>}
    \union (IF HasText(f) THEN {<<"txt", f.txt>>} ELSE {})
    \union {<<IF HasText(f) THEN "simhash" ELSE "phash", x>> :
               x \in Indexed(IF HasText(f) THEN f.sim ELSE f.vis)}

-----------------------------------------------------------------------------
(* The queries: kinds of hits of f on g, with their scores times 64 *)

Near(kind, h, k) ==
    IF Indexed(h) \intersect Indexed(k) # {} /\ Hamming(h, k) <= MaxDist
    THEN {[kind |-> kind, score |-> 100 * (64 - Hamming(h, k))]}
    ELSE {}

Hits(f, g) ==
    (IF f.sha = g.sha THEN {[kind |-> "exact", score |-> 6400]} ELSE {})
    \union (IF HasText(f) /\ f.txt = g.txt THEN {[kind |-> "text", score |-> 6368]} ELSE {})
    \union (IF HasText(f) THEN Near("text", f.sim, g.sim) ELSE Near("visual", f.vis, g.vis))

Candidate(f, g) == Hits(f, g) # {}

\* mergeMatches: a later hit replaces an earlier one only if it scores more.
Merged(f, g) == CHOOSE h \in Hits(f, g) : \A k \in Hits(f, g) :
    \/ h.score > k.score
    \/ h.score = k.score /\ (h.kind = "exact" \/ k.kind # "exact")

PagesCompatible_OneSided(a, b) == a > 0 /\ b > 0 /\ (a = b \/ (a = b + 1 /\ a >= 8 /\ b >= 8))
PagesCompatible(a, b) ==
    a > 0 /\ b > 0 /\ (a = b \/ ((a = b + 1 \/ b = a + 1) /\ a >= 8 /\ b >= 8))

IsDuplicate(hit, pagesA, pagesB) ==
    IF hit.kind = "exact" THEN hit.score >= 6394
                          ELSE hit.score >= 6272 /\ PagesCompatible(pagesA, pagesB)

Match(f, g) == Candidate(f, g) /\ IsDuplicate(Merged(f, g), f.pages, g.pages)

-----------------------------------------------------------------------------
\* Equal files have equal fingerprints, and equal texts equal hashes.
Consistent(f, g) == (f.sha = g.sha => f = g) /\ (HasText(f) /\ f.txt = g.txt => f.sim = g.sim)

Hashed == {f \in Scans : row[f] # Pending}

PrintsInit == row = [f \in Scans |-> Pending]

\* Analyze, and the columns that FinalizeFingerprint writes.
Fingerprint(f) ==
    /\ row[f] = Pending
    /\ \E r \in Analyzed :
           /\ \A g \in Hashed : Consistent(r, row[g]) /\ Consistent(row[g], r)
           /\ row' = [row EXCEPT ![f] = r]

PrintsNext == \E f \in Scans : Fingerprint(f)
PrintsSpec == PrintsInit /\ [][PrintsNext]_row

-----------------------------------------------------------------------------
(* Properties *)

PrintsTypeOK == row \in [Scans -> Analyzed \union {Pending}]

\* A file is matched with another whichever of the two is fingerprinted last: the queries
\* run from one side only, and the score of two hits decides which rule applies.
MatchIsMutual == \A f, g \in Hashed : Match(row[f], row[g]) <=> Match(row[g], row[f])

\* Two transactions that could find one another's file take a lock in common
\* (fingerprintLockKeys): otherwise both may miss it.
CandidatesShareKey ==
    \A f, g \in Hashed : Candidate(row[f], row[g]) => LockKeys(row[f]) \intersect LockKeys(row[g]) # {}

\* The bands find all that the distance admits: hashes that differ in fewer bits than there
\* are bands agree in one (util.go:98-105), and no threshold of the score takes them out again.
CloseIsMatch ==
    \A f, g \in Hashed :
        /\ HasText(row[f]) /\ HasText(row[g]) /\ row[f].sim # {} /\ row[g].sim # {}
        /\ Hamming(row[f].sim, row[g].sim) <= MaxDist
        /\ PagesCompatible(row[f].pages, row[g].pages)
        => Match(row[f], row[g])
=============================================================================
