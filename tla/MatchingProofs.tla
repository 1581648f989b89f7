--------------------------- MODULE MatchingProofs ---------------------------
(* How files are compared.  First what Corpus and FingerprintTx assume of     *)
(* fingerprints, for hashes of any length in any number of bands.  Then the   *)
(* lists of similar titles, for any number of files, workers and processes.   *)
EXTENDS Fingerprints, TitleSimilarity, FiniteSetTheorems, TLAPS

-----------------------------------------------------------------------------
(* Results *)

\* A result has one kind of hash.
LEMMA OneHash ==
    ASSUME NEW f \in Analyzed
    PROVE  /\ f.sim \subseteq Bits /\ f.vis \subseteq Bits
           /\ HasText(f) => f.vis = {}
           /\ ~ HasText(f) => f.sim = {}
<1> USE BandsAssumption DEF HasText
<1>1. CASE f \in Result(Texts, SUBSET Bits, {{}}, PageCounts)
  BY <1>1 DEF Result
<1>2. CASE f \in Result({NoText}, {{}}, SUBSET Bits, {1})
  BY <1>2 DEF Result
<1>3. CASE f \in Result({NoText}, {{}}, {{}}, PageCounts \union {0})
  BY <1>3 DEF Result
<1> QED BY <1>1, <1>2, <1>3 DEF Analyzed

LEMMA HammingSymmetric == \A h, k : Hamming(h, k) = Hamming(k, h)
<1> SUFFICES ASSUME NEW h, NEW k PROVE Hamming(h, k) = Hamming(k, h)
  OBVIOUS
<1>1. (h \ k) \union (k \ h) = (k \ h) \union (h \ k)
  OBVIOUS
<1> QED BY <1>1 DEF Hamming

LEMMA HammingNat ==
    ASSUME NEW h \in SUBSET Bits, NEW k \in SUBSET Bits
    PROVE  Hamming(h, k) \in Nat /\ IsFiniteSet((h \ k) \union (k \ h))
<1>1. (h \ k) \union (k \ h) \in SUBSET Bits
  OBVIOUS
<1>2. IsFiniteSet((h \ k) \union (k \ h))
  BY <1>1, FS_Subset, BandsAssumption
<1> QED BY <1>2, FS_CardinalityType DEF Hamming

\* Fewer differing bits than bands leave a band without any.
LEMMA BandsAgree ==
    ASSUME NEW h \in SUBSET Bits, NEW k \in SUBSET Bits, Hamming(h, k) <= MaxDist
    PROVE  \E b \in Bands : Bucket(h, b) = Bucket(k, b)
<1> DEFINE D == (h \ k) \union (k \ h)
<1>1. IsFiniteSet(D) /\ Cardinality(D) \in Nat /\ Cardinality(D) <= MaxDist
  BY HammingNat DEF Hamming
<1>2. PICK b \in Bands : \A x \in D : BandOf[x] # b
  <2> SUFFICES ASSUME \A b \in Bands : \E x \in D : BandOf[x] = b PROVE FALSE
    OBVIOUS
  <2> DEFINE band == [x \in D |-> BandOf[x]]
  <2>1. band \in Surjection(D, Bands)
    BY BandsAssumption DEF Surjection
  <2> HIDE DEF band, D
  <2>2. Cardinality(Bands) <= Cardinality(D)
    BY <2>1, <1>1, FS_Surjection
  <2>3. Cardinality(Bands) \in Nat
    BY BandsAssumption, FS_CardinalityType
  <2> QED BY <2>2, <2>3, <1>1, BandsAssumption
<1>3. Bucket(h, b) = Bucket(k, b)
  BY <1>2 DEF Bucket
<1> QED BY <1>3

LEMMA NearSymmetric == \A kind, h, k : Near(kind, h, k) = Near(kind, k, h)
<1> SUFFICES ASSUME NEW kind, NEW h, NEW k PROVE Near(kind, h, k) = Near(kind, k, h)
  OBVIOUS
<1>1. Indexed(h) \intersect Indexed(k) = Indexed(k) \intersect Indexed(h)
  OBVIOUS
<1> QED BY <1>1, HammingSymmetric DEF Near

LEMMA NothingNearNoHash == \A kind, h : Near(kind, h, {}) = {} /\ Near(kind, {}, h) = {}
BY DEF Near, Indexed

-----------------------------------------------------------------------------
(* Hits *)

LEMMA HitsSymmetric ==
    ASSUME NEW f \in Analyzed, NEW g \in Analyzed
    PROVE  Hits(f, g) = Hits(g, f)
<1>1. CASE HasText(f) /\ HasText(g)
  <2>1. Near("text", f.sim, g.sim) = Near("text", g.sim, f.sim)
    BY NearSymmetric
  <2> QED BY <1>1, <2>1 DEF Hits
<1>2. CASE ~ HasText(f) /\ ~ HasText(g)
  <2>1. Near("visual", f.vis, g.vis) = Near("visual", g.vis, f.vis)
    BY NearSymmetric
  <2> QED BY <1>2, <2>1 DEF Hits
<1>3. CASE HasText(f) /\ ~ HasText(g)
  <2>1. Near("text", f.sim, g.sim) = {} /\ Near("visual", g.vis, f.vis) = {}
    BY <1>3, OneHash, NothingNearNoHash
  <2> QED BY <1>3, <2>1 DEF Hits, HasText
<1>4. CASE ~ HasText(f) /\ HasText(g)
  <2>1. Near("visual", f.vis, g.vis) = {} /\ Near("text", g.sim, f.sim) = {}
    BY <1>4, OneHash, NothingNearNoHash
  <2> QED BY <1>4, <2>1 DEF Hits, HasText
<1> QED BY <1>1, <1>2, <1>3, <1>4

\* The hits with their scores.
LEMMA HitsAre ==
    ASSUME NEW f \in Analyzed, NEW g \in Analyzed, NEW h \in Hits(f, g)
    PROVE  \/ h = [kind |-> "exact", score |-> 6400]
           \/ h = [kind |-> "text", score |-> 6368]
           \/ h.kind # "exact" /\ h.score \in {6300, 6400}
<1>1. f.sim \subseteq Bits /\ g.sim \subseteq Bits /\ f.vis \subseteq Bits /\ g.vis \subseteq Bits
  BY OneHash
<1>2. ASSUME NEW kind \in {"text", "visual"}, NEW u \in SUBSET Bits, NEW v \in SUBSET Bits,
             h \in Near(kind, u, v)
      PROVE  h.kind # "exact" /\ h.score \in {6300, 6400}
  <2>1. Hamming(u, v) <= MaxDist
    BY <1>2 DEF Near
  <2>2. Hamming(u, v) \in {0, 1}
    <3>1. MaxDist \in Nat /\ MaxDist <= 1
      BY BandsAssumption
    <3>2. Hamming(u, v) \in Nat
      BY HammingNat
    <3> QED BY <2>1, <3>1, <3>2
  <2>3. h = [kind |-> kind, score |-> 100 * (64 - Hamming(u, v))]
    BY <1>2 DEF Near
  <2>4. CASE Hamming(u, v) = 0
    BY <2>3, <2>4
  <2>5. CASE Hamming(u, v) = 1
    BY <2>3, <2>5
  <2> QED BY <2>2, <2>4, <2>5
<1>3. CASE h \in Near("text", f.sim, g.sim)
  BY <1>1, <1>2, <1>3
<1>4. CASE h \in Near("visual", f.vis, g.vis)
  BY <1>1, <1>2, <1>4
<1> QED BY <1>3, <1>4 DEF Hits

\* mergeMatches keeps a hit.
LEMMA MergedIsHit ==
    ASSUME NEW f \in Analyzed, NEW g \in Analyzed, Candidate(f, g)
    PROVE  Merged(f, g) \in Hits(f, g)
<1> DEFINE H == Hits(f, g)
           Wins(h, k) == \/ h.score > k.score
                         \/ h.score = k.score /\ (h.kind = "exact" \/ k.kind # "exact")
<1>1. \E h \in H : \A k \in H : Wins(h, k)
  <2>1. \A h \in H : h.score \in {6300, 6368, 6400} /\ (h.kind = "exact" => h.score = 6400)
    BY HitsAre
  <2>2. CASE \E e \in H : e.kind = "exact"
    <3>1. PICK e \in H : e.kind = "exact"
      BY <2>2
    <3>2. e.score = 6400
      BY <3>1, <2>1
    <3>3. \A k \in H : e.score > k.score \/ e.score = k.score
      BY <3>2, <2>1
    <3> QED BY <3>1, <3>3
  <2>3. CASE \A h \in H : h.kind # "exact"
    <3>1. PICK h \in H : \A k \in H : h.score >= k.score
      <4>1. CASE \E h \in H : h.score = 6400
        BY <4>1, <2>1
      <4>2. CASE (\A h \in H : h.score # 6400) /\ (\E h \in H : h.score = 6368)
        BY <4>2, <2>1
      <4>3. CASE \A h \in H : h.score # 6400 /\ h.score # 6368
        BY <4>3, <2>1 DEF Candidate
      <4> QED BY <4>1, <4>2, <4>3
    <3>2. \A k \in H : h.score > k.score \/ h.score = k.score
      BY <3>1, <2>1
    <3> QED BY <3>1, <3>2, <2>3
  <2> QED BY <2>2, <2>3
<1> QED BY <1>1 DEF Merged

\* Each kind of hit comes with a key.
LEMMA HitHasKey ==
    ASSUME NEW f \in Analyzed, NEW g \in Analyzed, Candidate(f, g)
    PROVE  LockKeys(f) \intersect LockKeys(g) # {}
<1>1. CASE f.sha = g.sha
  BY <1>1 DEF LockKeys
<1>2. CASE HasText(f) /\ f.txt = g.txt
  BY <1>2 DEF LockKeys, HasText
<1>3. CASE HasText(f) /\ Near("text", f.sim, g.sim) # {}
  <2>1. PICK x : x \in Indexed(f.sim) /\ x \in Indexed(g.sim)
    BY <1>3 DEF Near
  <2>2. HasText(g)
    BY <2>1, OneHash DEF Indexed
  <2>3. <<"simhash", x>> \in LockKeys(f) /\ <<"simhash", x>> \in LockKeys(g)
    BY <2>1, <2>2, <1>3 DEF LockKeys
  <2> QED BY <2>3
<1>4. CASE ~ HasText(f) /\ Near("visual", f.vis, g.vis) # {}
  <2>1. PICK x : x \in Indexed(f.vis) /\ x \in Indexed(g.vis)
    BY <1>4 DEF Near
  <2>2. ~ HasText(g)
    BY <2>1, OneHash DEF Indexed
  <2>3. <<"phash", x>> \in LockKeys(f) /\ <<"phash", x>> \in LockKeys(g)
    BY <2>1, <2>2, <1>4 DEF LockKeys
  <2> QED BY <2>3
<1> QED BY <1>1, <1>2, <1>3, <1>4 DEF Candidate, Hits

-----------------------------------------------------------------------------
(* Theorems *)

\* Rows hold results of Analyze.
THEOREM PrintsTypeCorrect == PrintsSpec => []PrintsTypeOK
<1>1. PrintsInit => PrintsTypeOK
  BY DEF PrintsInit, PrintsTypeOK
<1>2. PrintsTypeOK /\ [PrintsNext]_row => PrintsTypeOK'
  BY DEF PrintsTypeOK, PrintsNext, Fingerprint
<1> QED BY <1>1, <1>2, PTL DEF PrintsSpec

LEMMA StoredAnalyzed ==
    ASSUME PrintsTypeOK, NEW f \in Hashed
    PROVE  row[f] \in Analyzed
BY DEF PrintsTypeOK, Hashed

\* Corpus assumes that Match is symmetric: a fingerprint finds the files that would find it.
THEOREM MatchAlwaysMutual == PrintsSpec => []MatchIsMutual
<1>1. PrintsTypeOK => MatchIsMutual
  <2> SUFFICES ASSUME PrintsTypeOK, NEW f \in Hashed, NEW g \in Hashed
               PROVE  Match(row[f], row[g]) => Match(row[g], row[f])
    BY DEF MatchIsMutual
  <2>1. Hits(row[f], row[g]) = Hits(row[g], row[f])
    BY StoredAnalyzed, HitsSymmetric
  <2>2. Merged(row[f], row[g]) = Merged(row[g], row[f])
    BY <2>1 DEF Merged
  <2>3. \A a, b : PagesCompatible(a, b) => PagesCompatible(b, a)
    BY DEF PagesCompatible
  <2> QED BY <2>1, <2>2, <2>3 DEF Match, Candidate, IsDuplicate
<1> QED BY <1>1, PrintsTypeCorrect, PTL

\* FingerprintTx assumes that files that a query joins have a lock key in common.
THEOREM CandidatesAlwaysShareKey == PrintsSpec => []CandidatesShareKey
<1>1. PrintsTypeOK => CandidatesShareKey
  BY StoredAnalyzed, HitHasKey DEF CandidatesShareKey
<1> QED BY <1>1, PrintsTypeCorrect, PTL

\* Querying by bands loses no file: every text within the distance is matched.
THEOREM CloseAlwaysMatch == PrintsSpec => []CloseIsMatch
<1>1. PrintsTypeOK => CloseIsMatch
  <2> SUFFICES ASSUME PrintsTypeOK, NEW f \in Hashed, NEW g \in Hashed,
                      HasText(row[f]), HasText(row[g]), row[f].sim # {}, row[g].sim # {},
                      Hamming(row[f].sim, row[g].sim) <= MaxDist,
                      PagesCompatible(row[f].pages, row[g].pages)
               PROVE  Match(row[f], row[g])
    BY DEF CloseIsMatch
  <2> DEFINE a == row[f]
             b == row[g]
  <2>1. a \in Analyzed /\ b \in Analyzed
    BY StoredAnalyzed
  <2>2. a.sim \in SUBSET Bits /\ b.sim \in SUBSET Bits
    BY <2>1, OneHash
  <2>3. PICK band \in Bands : Bucket(a.sim, band) = Bucket(b.sim, band)
    BY <2>2, BandsAgree
  <2>4. <<band, Bucket(a.sim, band)>> \in Indexed(a.sim) \intersect Indexed(b.sim)
    BY <2>3 DEF Indexed
  <2>5. Near("text", a.sim, b.sim) # {}
    BY <2>4 DEF Near
  <2>6. Candidate(a, b)
    BY <2>5 DEF Candidate, Hits
  <2>7. Merged(a, b) \in Hits(a, b)
    BY <2>1, <2>6, MergedIsHit
  <2>8. IsDuplicate(Merged(a, b), a.pages, b.pages)
    BY <2>1, <2>7, HitsAre DEF IsDuplicate
  <2> QED BY <2>6, <2>8 DEF Match
<1> QED BY <1>1, PrintsTypeCorrect, PTL

-----------------------------------------------------------------------------
(* Similar titles *)

\* A job knows a source, and what it has found resembles it.
HitsResemble ==
    /\ job \in [Workers -> Sources \union {NoSource}]
    /\ \A w \in Workers : IF stage[w] = "idle" THEN hits[w] = {} ELSE job[w] \in Sources
    /\ \A w \in Workers : \A t \in hits[w] : <<job[w], t>> \in Similar

SimInv == SimTypeOK /\ HitsResemble /\ PairsAreMutual

LEMMA SimInitInv == ASSUME SimilarAssumption, SimInit PROVE SimInv
<1> USE DEF SimilarAssumption, SimInit
<1>1. SimTypeOK
  BY DEF SimTypeOK, Stages, NoSource
<1>2. HitsResemble /\ PairsAreMutual
  BY DEF HitsResemble, PairsAreMutual, NoSource
<1> QED BY <1>1, <1>2 DEF SimInv

\* Rows come, get a title or go, and with a row its pairs, in both directions.
LEMMA RowsKeepSimInv ==
    ASSUME SimilarAssumption, SimInv, NEW s \in Sources, Insert(s) \/ Titled(s) \/ Remove(s)
    PROVE  SimInv'
<1> USE DEF SimInv, simWorkers
<1>1. UNCHANGED <<stage, job, hits, cuts>>
  BY DEF Insert, Titled, Remove
<1>2. /\ live' \subseteq Sources \ gone' /\ gone' \subseteq Sources /\ needs' \subseteq live'
      /\ normed' \subseteq live' \ Silent /\ stamped' \subseteq live'
      /\ pairs' \subseteq live' \X live'
  <2>1. CASE Insert(s)
    BY <2>1 DEF Insert, SimTypeOK
  <2>2. CASE Titled(s)
    BY <2>2 DEF Titled, SimTypeOK
  <2>3. CASE Remove(s)
    BY <2>3 DEF Remove, SimTypeOK
  <2> QED BY <2>1, <2>2, <2>3
<1>3. SimTypeOK'
  BY <1>1, <1>2 DEF SimTypeOK
<1>4. HitsResemble'
  BY <1>1 DEF HitsResemble
<1>5. PairsAreMutual'
  <2>1. CASE Remove(s)
    BY <2>1 DEF Remove, PairsAreMutual, SimTypeOK
  <2>2. CASE UNCHANGED pairs
    BY <2>2 DEF PairsAreMutual
  <2> QED BY <2>1, <2>2 DEF Insert, Titled
<1> QED BY <1>3, <1>4, <1>5

\* A job that ends leaves nothing behind.
LEMMA DoneKeepsJobs ==
    ASSUME SimilarAssumption, SimTypeOK, HitsResemble, NEW w \in Workers, Done(w)
    PROVE  /\ stage' \in [Workers -> Stages] /\ hits' \in [Workers -> SUBSET Sources]
           /\ \A v \in Workers : job'[v] = NoSource <=> stage'[v] = "idle"
           /\ \A u, v \in Workers :
                  ProcOf[u] = ProcOf[v] /\ job'[u] = job'[v] /\ job'[u] # NoSource => u = v
           /\ HitsResemble'
BY DEF SimTypeOK, HitsResemble, Done, MovesTo, Stages

LEMMA StartKeepsSimInv ==
    ASSUME SimilarAssumption, SimInv, NEW w \in Workers, NEW s \in Sources, Start(w, s)
    PROVE  SimInv'
<1> USE DEF SimInv, Start, simRows, MovesTo
<1>1. s # NoSource
  BY DEF SimilarAssumption, NoSource
<1>2. SimTypeOK'
  BY <1>1 DEF SimTypeOK, Stages, HitsResemble
<1>3. HitsResemble'
  BY DEF HitsResemble, SimTypeOK
<1>4. PairsAreMutual'
  BY DEF PairsAreMutual
<1> QED BY <1>2, <1>3, <1>4

\* A job that goes on keeps its source.
LEMMA MovesKeepSimInv ==
    ASSUME SimilarAssumption, SimInv, NEW w \in Workers,
           SetTitleNorm(w) \/ ListCandidates(w) \/ (HasUnready(w) /\ ~ Done(w))
    PROVE  SimInv'
<1> USE DEF SimInv, simRows
<1>1. job[w] \in Sources /\ stage[w] # "idle"
  BY DEF SetTitleNorm, ListCandidates, HasUnready, HitsResemble
<1>2. /\ UNCHANGED <<live, gone, needs, stamped, pairs, cuts, job>>
      /\ \E l \in Stages \ {"idle"} : MovesTo(w, l)
  BY DEF SetTitleNorm, ListCandidates, HasUnready, Stages
<1>3. normed' \subseteq live \ Silent
  BY DEF SetTitleNorm, ListCandidates, HasUnready, SimTypeOK
<1>4. /\ hits' \in [Workers -> SUBSET Sources]
      /\ \A v \in Workers \ {w} : hits'[v] = hits[v]
      /\ \A t \in hits'[w] : <<job[w], t>> \in Similar
  <2>1. CASE UNCHANGED hits
    BY <2>1 DEF HitsResemble, SimTypeOK
  <2>2. CASE ListCandidates(w)
    BY <2>2 DEF ListCandidates, Best, Candidates, SimTypeOK
  <2> QED BY <2>1, <2>2 DEF SetTitleNorm, HasUnready
<1>5. SimTypeOK'
  BY <1>1, <1>2, <1>3, <1>4 DEF SimTypeOK, MovesTo
<1>6. HitsResemble'
  BY <1>1, <1>2, <1>4 DEF HitsResemble, MovesTo, SimTypeOK
<1>7. PairsAreMutual'
  BY <1>2 DEF PairsAreMutual
<1> QED BY <1>5, <1>6, <1>7

LEMMA EndsKeepSimInv ==
    ASSUME SimilarAssumption, SimInv, NEW w \in Workers,
           ReplaceSimilar(w) \/ Abort(w) \/ (HasUnready(w) /\ Done(w))
    PROVE  SimInv'
<1> USE DEF SimInv, simRows
<1>1. Done(w) /\ UNCHANGED <<live, gone, needs, normed>> /\ cuts' \in 0..MaxCuts
  BY DEF ReplaceSimilar, Abort, HasUnready, SimTypeOK, SimilarAssumption
<1>2. /\ stamped' \subseteq live /\ pairs' \subseteq live \X live
      /\ PairsAreMutual'
  <2>1. CASE UNCHANGED <<stamped, pairs>>
    BY <2>1 DEF SimTypeOK, PairsAreMutual
  <2>2. CASE /\ hits[w] = {} \/ hits[w] \union {job[w]} \subseteq live
             /\ pairs' = Replaced(job[w], hits[w])
             /\ stamped' = stamped \union (live \intersect {job[w]})
    <3>1. stamped' \subseteq live /\ pairs' \subseteq live \X live
      BY <2>2 DEF SimTypeOK, Replaced
    <3>2. ASSUME NEW p \in pairs' PROVE <<p[2], p[1]>> \in pairs'
                                        /\ {p, <<p[2], p[1]>>} \intersect Similar # {}
      <4>1. CASE p \in pairs /\ p[1] # job[w] /\ p[2] # job[w]
        BY <4>1, <2>2 DEF PairsAreMutual, Replaced
      <4>2. CASE p \in ({job[w]} \X hits[w]) \union (hits[w] \X {job[w]})
        BY <4>2, <2>2 DEF Replaced, HitsResemble
      <4> QED BY <4>1, <4>2, <2>2 DEF Replaced
    <3> QED BY <3>1, <3>2 DEF PairsAreMutual
  <2> QED BY <2>1, <2>2 DEF ReplaceSimilar, Abort, HasUnready
<1>3. SimTypeOK' /\ HitsResemble'
  <2>1. /\ stage' \in [Workers -> Stages] /\ hits' \in [Workers -> SUBSET Sources]
        /\ \A v \in Workers : job'[v] = NoSource <=> stage'[v] = "idle"
        /\ \A u, v \in Workers :
               ProcOf[u] = ProcOf[v] /\ job'[u] = job'[v] /\ job'[u] # NoSource => u = v
        /\ HitsResemble'
    BY <1>1, DoneKeepsJobs
  <2> QED BY <1>1, <1>2, <2>1 DEF SimTypeOK
<1> QED BY <1>2, <1>3

LEMMA SimNextInv ==
    ASSUME SimilarAssumption, SimInv, [SimNext]_simVars
    PROVE  SimInv'
<1>1. CASE UNCHANGED simVars
  BY <1>1 DEF simVars, SimInv, SimTypeOK, HitsResemble, PairsAreMutual
<1>2. CASE SimNext
  BY <1>2, RowsKeepSimInv, StartKeepsSimInv, MovesKeepSimInv, EndsKeepSimInv DEF SimNext, Step
<1> QED BY <1>1, <1>2

LEMMA SimSound == ASSUME SimilarAssumption PROVE SimSpec => []SimInv
<1>1. SimInit => SimInv
  BY SimInitInv
<1>2. SimInv /\ [SimNext]_simVars => SimInv'
  BY SimNextInv
<1> QED BY <1>1, <1>2, PTL DEF SimSpec

\* No process has two jobs for one file, and every listed pair is one of stored files.
THEOREM SimTypes == ASSUME SimilarAssumption PROVE SimSpec => []SimTypeOK
BY SimSound, PTL DEF SimInv

\* Each of two similar files lists the other, whatever is uploaded, titled and removed
\* while the jobs of several processes write their lists (repo_title_similar.go:232-259).
THEOREM PairsAlwaysMutual == ASSUME SimilarAssumption PROVE SimSpec => []PairsAreMutual
BY SimSound, PTL DEF SimInv
=============================================================================
