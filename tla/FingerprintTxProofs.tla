------------------------- MODULE FingerprintTxProofs -------------------------
(* Machine-checked proof that the transaction of FinalizeFingerprint, with   *)
(* its locks, implements the atomic step of Corpus, and that no workers wait *)
(* for one another in a cycle, for any number of workers, files, keys and    *)
(* documents.                                                                *)
EXTENDS FingerprintTx, CorpusProofs, WellFoundedInduction

-----------------------------------------------------------------------------
(* The invariant behind the refinement *)

\* A worker past its keys holds them all until the transaction ends.
KeysHeld ==
    \A w \in Workers : stage[w] = "docs" =>
        /\ job[w] \in Sources
        /\ \A k \in KeysNeeded(w) : keyOwner[k] = w

\* A queried candidate has been fingerprinted; it may have been removed since.
FoundSound ==
    \A w \in Workers : stage[w] = "docs" =>
        /\ found[w] \subseteq spent
        /\ \A t \in found[w] : hash[t] = "real" /\ <<job[w], t>> \in Near
        /\ blob[w] = "missing" => found[w] = {}

TxInv ==
    /\ Inv
    /\ TxTypeOK
    /\ KeysHeld
    /\ FoundSound
    /\ NoCandidateMissed

-----------------------------------------------------------------------------
(* What each step does to the corpus *)

LEMMA TxTypeInit == TxInit => TxTypeOK
BY KeysAssumption DEF TxInit, TxTypeOK

LEMMA EndTxType ==
    ASSUME TxTypeOK, NEW w \in Workers, EndTx(w)
    PROVE  /\ stage' \in [Workers -> {"idle", "keys", "docs"}]
           /\ job' \in [Workers -> Sources \union {NoSource}]
           /\ blob' \in [Workers -> {"real", "missing"}]
           /\ found' \in [Workers -> SUBSET Sources]
           /\ keyOwner' \in [Keys -> Workers \union {Nobody}]
           /\ docOwner' \in [Docs -> Workers \union {Nobody}]
BY DEF EndTx, TxTypeOK

\* A worker that commits applies exactly the matches that Corpus!Finalize finds
\* and recomputes a set of documents that it allows.
LEMMA CommitIsFinalize ==
    ASSUME TxInv, NEW w \in Workers, Commit(w)
    PROVE  Next
<1> DEFINE s == job[w]
           k == blob[w]
<1>1. /\ stage[w] = "docs" /\ s \in live /\ s \in Sources /\ hash[s] = "none"
      /\ k \in {"real", "missing"}
  BY DEF Commit, TxInv, Inv, TypeOK, TxTypeOK
<1>2. /\ found[w] \subseteq spent
      /\ \A t \in found[w] : hash[t] = "real" /\ <<s, t>> \in Near
      /\ k = "missing" => found[w] = {}
      /\ k = "real" => Candidates(s) \subseteq found[w]
  BY <1>1 DEF TxInv, FoundSound, NoCandidateMissed
<1>3. {t \in found[w] \intersect live : <<s, t>> \in Match}
         = IF k = "real" THEN Matches(s) ELSE {}
  BY <1>1, <1>2 DEF Matches, Candidates
<1>4. TouchedDocs(w) \in Touchable(s, k)
  <2>1. CASE k = "real"
    <3> DEFINE removed == {t \in spent \ live : hash[t] = "real" /\ <<s, t>> \in Near}
               more == found[w] \intersect removed
    <3>1. found[w] \union {s} = Candidates(s) \union {s} \union more
      BY <1>2, <2>1 DEF Candidates
    <3>2. TouchedDocs(w) = {DocOf[t] : t \in Candidates(s) \union {s} \union more}
      BY <3>1 DEF TouchedDocs
    <3>3. more \in SUBSET removed
      OBVIOUS
    <3> QED BY <3>2, <3>3, <2>1 DEF Touchable
  <2>2. CASE k = "missing"
    <3>1. TouchedDocs(w) = {DocOf[t] : t \in {} \union {s} \union {}}
      BY <1>2, <2>2 DEF TouchedDocs
    <3> QED BY <3>1, <2>2 DEF Touchable
  <2> QED BY <1>1, <2>1, <2>2
<1>5. Finalize(s, k, TouchedDocs(w))
  BY <1>1, <1>3, <1>4 DEF Commit, Finalize
<1> QED BY <1>1, <1>4, <1>5 DEF Next

\* Every step of the detailed specification is a step of Corpus or leaves the
\* corpus alone.
LEMMA TxStepSimulates == TxInv /\ [TxNext]_txVars => [Next]_vars
<1> SUFFICES ASSUME TxInv, [TxNext]_txVars PROVE [Next]_vars
  OBVIOUS
<1>1. ASSUME NEW w \in Workers, NEW s \in Sources, NEW k \in {"real", "missing"}, Begin(w, s, k)
      PROVE  UNCHANGED vars
  BY <1>1 DEF Begin
<1>2. ASSUME NEW w \in Workers, LockKey(w) \/ Query(w) \/ LockDoc(w) \/ GiveUp(w) \/ Abort(w)
      PROVE  UNCHANGED vars
  BY <1>2 DEF LockKey, Query, LockDoc, GiveUp, Abort
<1>3. ASSUME NEW w \in Workers, Commit(w) PROVE Next
  BY <1>3, CommitIsFinalize
<1>4. ASSUME Other PROVE Next
  BY <1>4 DEF Other, Next
<1>5. CASE UNCHANGED txVars
  BY <1>5 DEF txVars, vars
<1> QED BY <1>1, <1>2, <1>3, <1>4, <1>5 DEF TxNext, Step

-----------------------------------------------------------------------------
(* The invariant is inductive *)

LEMMA TxInitInv == TxInit => TxInv
BY InitInv, TxTypeInit DEF TxInit, TxInv, KeysHeld, FoundSound, NoCandidateMissed

LEMMA TxNextType == TxInv /\ [TxNext]_txVars => TxTypeOK'
<1> SUFFICES ASSUME TxInv, [TxNext]_txVars PROVE TxTypeOK'
  OBVIOUS
<1> USE DEF TxInv
<1>1. ASSUME NEW w \in Workers, NEW s \in Sources, NEW k \in {"real", "missing"}, Begin(w, s, k)
      PROVE  TxTypeOK'
  BY <1>1 DEF Begin, TxTypeOK
<1>2. ASSUME NEW w \in Workers, LockKey(w) \/ LockDoc(w) PROVE TxTypeOK'
  BY <1>2 DEF LockKey, LockDoc, workVars, TxTypeOK
<1>3. ASSUME NEW w \in Workers, Query(w) PROVE TxTypeOK'
  BY <1>3 DEF Query, Candidates, TxTypeOK, Inv, TypeOK
<1>4. ASSUME NEW w \in Workers, Commit(w) \/ GiveUp(w) PROVE TxTypeOK'
  <2>1. EndTx(w) /\ aborts' = aborts
    BY <1>4 DEF Commit, GiveUp
  <2> QED BY <2>1, EndTxType DEF TxTypeOK
<1>5. ASSUME NEW w \in Workers, Abort(w) PROVE TxTypeOK'
  <2>1. EndTx(w) /\ aborts' = aborts + 1 /\ aborts < MaxAborts
    BY <1>5 DEF Abort
  <2> QED BY <2>1, EndTxType, KeysAssumption DEF TxTypeOK
<1>6. ASSUME Other PROVE TxTypeOK'
  BY <1>6 DEF Other, workVars, TxTypeOK
<1>7. CASE UNCHANGED txVars
  BY <1>7 DEF txVars, TxTypeOK
<1> QED BY <1>1, <1>2, <1>3, <1>4, <1>5, <1>6, <1>7 DEF TxNext, Step

LEMMA KeysHeldNext == TxInv /\ [TxNext]_txVars => KeysHeld'
<1> SUFFICES ASSUME TxInv, [TxNext]_txVars PROVE KeysHeld'
  OBVIOUS
<1> USE DEF TxInv, KeysHeld, KeysNeeded
<1>1. ASSUME NEW w \in Workers, NEW s \in Sources, NEW k \in {"real", "missing"}, Begin(w, s, k)
      PROVE  KeysHeld'
  BY <1>1 DEF Begin, TxTypeOK
<1>2. ASSUME NEW w \in Workers, LockKey(w) PROVE KeysHeld'
  BY <1>2, KeysAssumption DEF LockKey, workVars, TxTypeOK
<1>3. ASSUME NEW w \in Workers, Query(w) PROVE KeysHeld'
  BY <1>3 DEF Query, KeysLeft, TxTypeOK, Inv, TypeOK
<1>4. ASSUME NEW w \in Workers, EndTx(w) PROVE KeysHeld'
  <2> SUFFICES ASSUME NEW v \in Workers, stage'[v] = "docs"
               PROVE  job'[v] \in Sources /\ \A k \in KeysNeeded(v)' : keyOwner'[k] = v
    BY DEF KeysHeld
  <2>1. v # w /\ stage[v] = "docs" /\ job'[v] = job[v] /\ blob'[v] = blob[v]
    BY <1>4 DEF EndTx, TxTypeOK
  <2>2. job[v] \in Sources /\ \A k \in KeysNeeded(v) : keyOwner[k] = v
    BY <2>1
  <2>3. \A k \in Keys : keyOwner[k] = v => keyOwner'[k] = v
    BY <1>4, <2>1 DEF EndTx, TxTypeOK
  <2>4. KeysNeeded(v) \subseteq Keys
    BY <2>2, KeysAssumption
  <2> QED BY <2>1, <2>2, <2>3, <2>4
<1>5. ASSUME UNCHANGED <<stage, job, blob, keyOwner>> PROVE KeysHeld'
  BY <1>5
<1> QED BY <1>1, <1>2, <1>3, <1>4, <1>5
        DEF TxNext, Step, Commit, GiveUp, Abort, LockDoc, Other, workVars, txVars

\* Fingerprints are never taken back, and ids never reused.
LEMMA CorpusMonotone ==
    ASSUME Inv, [Next]_vars
    PROVE  /\ spent \subseteq spent'
           /\ \A t \in Sources : hash[t] = "real" => hash'[t] = "real"
<1>1. ASSUME NEW d \in Docs, NEW S \in SUBSET Sources, Create(d, S) \/ AddSources(d, S)
      PROVE  spent \subseteq spent' /\ hash' = hash
  BY <1>1 DEF Create, AddSources, InsertRows
<1>2. ASSUME NEW s \in Sources, NEW k \in {"real", "missing"},
             NEW ids \in Touchable(s, k), Finalize(s, k, ids)
      PROVE  spent' = spent /\ \A t \in Sources : hash[t] = "real" => hash'[t] = "real"
  BY <1>2 DEF Finalize, ApplyFingerprint, Inv, TypeOK
<1>3. ASSUME NEW d \in Docs, Approve(d) \/ Reject(d) \/ Delete(d)
      PROVE  spent' = spent /\ hash' = hash
  BY <1>3 DEF Approve, Reject, Delete, RemoveRows
<1>4. ASSUME UNCHANGED vars PROVE spent' = spent /\ hash' = hash
  BY <1>4 DEF vars
<1> QED BY <1>1, <1>2, <1>3, <1>4 DEF Next

LEMMA FoundSoundNext == TxInv /\ [TxNext]_txVars => FoundSound'
<1> SUFFICES ASSUME TxInv, [TxNext]_txVars, NEW v \in Workers, stage'[v] = "docs"
             PROVE  /\ found'[v] \subseteq spent'
                    /\ \A t \in found'[v] : hash'[t] = "real" /\ <<job'[v], t>> \in Near
                    /\ blob'[v] = "missing" => found'[v] = {}
  BY DEF FoundSound
<1>1. /\ spent \subseteq spent' /\ spent \subseteq Sources
      /\ \A t \in Sources : hash[t] = "real" => hash'[t] = "real"
  BY TxStepSimulates, CorpusMonotone DEF TxInv, Inv, TypeOK
<1>2. CASE stage[v] = "docs" /\ UNCHANGED <<job[v], blob[v], found[v]>>
  BY <1>1, <1>2 DEF TxInv, FoundSound
<1>3. CASE Query(v)
  BY <1>1, <1>3 DEF Query, Candidates, TxInv, Inv, TypeOK, TxTypeOK
<1>4. Query(v) \/ (stage[v] = "docs" /\ UNCHANGED <<job[v], blob[v], found[v]>>)
  <2>1. ASSUME NEW w \in Workers, NEW s \in Sources, NEW k \in {"real", "missing"}, Begin(w, s, k)
        PROVE  stage[v] = "docs" /\ UNCHANGED <<job[v], blob[v], found[v]>>
    BY <2>1 DEF Begin, TxInv, TxTypeOK
  <2>2. ASSUME NEW w \in Workers, Query(w), w # v
        PROVE  stage[v] = "docs" /\ UNCHANGED <<job[v], blob[v], found[v]>>
    BY <2>2 DEF Query, TxInv, TxTypeOK
  <2>3. ASSUME NEW w \in Workers, EndTx(w)
        PROVE  stage[v] = "docs" /\ UNCHANGED <<job[v], blob[v], found[v]>>
    BY <2>3 DEF EndTx, TxInv, TxTypeOK
  <2>4. ASSUME UNCHANGED workVars
        PROVE  stage[v] = "docs" /\ UNCHANGED <<job[v], blob[v], found[v]>>
    BY <2>4 DEF workVars
  <2> QED BY <2>1, <2>2, <2>3, <2>4
          DEF TxNext, Step, LockKey, LockDoc, Commit, GiveUp, Abort, Other, workVars, txVars
<1> QED BY <1>2, <1>3, <1>4

\* A file becomes a candidate only by the commit of a worker that holds all its
\* keys, one of which the worker that has queried holds.
LEMMA NoCandidateMissedNext == TxInv /\ [TxNext]_txVars => NoCandidateMissed'
<1> SUFFICES ASSUME TxInv, [TxNext]_txVars, NEW v \in Workers,
                    stage'[v] = "docs", blob'[v] = "real", NEW t \in Candidates(job[v])'
             PROVE  t \in found'[v]
  BY DEF NoCandidateMissed
<1>0. t \in Sources /\ t \in live' /\ hash'[t] = "real" /\ <<job'[v], t>> \in Near
  BY NextType, TxStepSimulates DEF Candidates, TxInv, Inv, TypeOK
<1>1. ASSUME NEW w \in Workers, Commit(w) PROVE t \in found'[v]
  <2>1. /\ v # w /\ stage[v] = "docs" /\ blob[v] = "real"
        /\ job'[v] = job[v] /\ found'[v] = found[v]
    BY <1>1 DEF Commit, EndTx, TxInv, TxTypeOK
  <2>2. hash' = [hash EXCEPT ![job[w]] = blob[w]] /\ live' = live
    BY <1>1 DEF Commit, ApplyFingerprint
  <2>3. CASE t # job[w]
    <3>1. t \in Candidates(job[v])
      BY <1>0, <2>1, <2>2, <2>3 DEF Candidates, TxInv, Inv, TypeOK
    <3> QED BY <3>1, <2>1 DEF TxInv, NoCandidateMissed
  <2>4. CASE t = job[w]
    <3>1. stage[w] = "docs" /\ blob[w] = "real"
      BY <1>0, <1>1, <2>2, <2>4 DEF Commit, TxInv, Inv, TypeOK
    <3>2. PICK k : k \in KeysOf[job[v]] /\ k \in KeysOf[t]
      BY <1>0, <2>1, KeysAssumption
    <3>3. keyOwner[k] = v /\ keyOwner[k] = w
      BY <2>1, <2>4, <3>1, <3>2 DEF TxInv, KeysHeld, KeysNeeded
    <3> QED BY <3>3, <2>1
  <2> QED BY <2>3, <2>4
<1>2. ASSUME Other PROVE t \in found'[v]
  <2>1. stage[v] = "docs" /\ blob[v] = "real" /\ job'[v] = job[v] /\ found'[v] = found[v]
    BY <1>2 DEF Other, workVars
  <2>2. hash' = hash /\ \A x \in live' : x \in live \/ x \in Sources \ spent
    BY <1>2 DEF Other, Create, AddSources, InsertRows, Approve, Reject, Delete, RemoveRows
  <2>3. t \in live
    BY <1>0, <2>2 DEF TxInv, Inv, FreshIsBlank
  <2>4. t \in Candidates(job[v])
    BY <1>0, <2>1, <2>2, <2>3 DEF Candidates
  <2> QED BY <2>1, <2>4 DEF TxInv, NoCandidateMissed
<1>3. ASSUME NEW w \in Workers, Query(w) PROVE t \in found'[v]
  <2>1. Candidates(job'[v]) = Candidates(job[v])' /\ job' = job /\ blob' = blob
    BY <1>3 DEF Query, Candidates, vars
  <2>2. CASE w = v
    BY <1>3, <2>1, <2>2 DEF Query, TxInv, TxTypeOK
  <2>3. CASE w # v
    BY <1>3, <2>1, <2>3 DEF Query, TxInv, TxTypeOK, NoCandidateMissed
  <2> QED BY <2>2, <2>3
<1>4. ASSUME UNCHANGED vars, NEW w \in Workers,
             (\E s \in Sources, k \in {"real", "missing"} : Begin(w, s, k)) \/ EndTx(w)
      PROVE  t \in found'[v]
  <2>1. v # w /\ stage[v] = "docs" /\ blob[v] = "real" /\ job'[v] = job[v] /\ found'[v] = found[v]
    BY <1>4 DEF Begin, EndTx, TxInv, TxTypeOK
  <2> QED BY <1>0, <1>4, <2>1 DEF vars, Candidates, TxInv, NoCandidateMissed
<1>5. ASSUME UNCHANGED <<vars, workVars>> PROVE t \in found'[v]
  BY <1>0, <1>5 DEF vars, workVars, Candidates, TxInv, NoCandidateMissed
<1>6. ASSUME NEW w \in Workers, Step(w) \/ Abort(w) PROVE t \in found'[v]
  BY <1>1, <1>3, <1>4, <1>5, <1>6 DEF Step, LockKey, LockDoc, GiveUp, Abort
<1>7. ASSUME NEW w \in Workers, NEW s \in Sources, NEW k \in {"real", "missing"}, Begin(w, s, k)
      PROVE  t \in found'[v]
  BY <1>4, <1>7 DEF Begin
<1>8. CASE UNCHANGED txVars
  BY <1>5, <1>8 DEF txVars, vars, workVars
<1> QED BY <1>2, <1>6, <1>7, <1>8 DEF TxNext

LEMMA TxNextInv == TxInv /\ [TxNext]_txVars => TxInv'
<1>1. TxInv /\ [TxNext]_txVars => Inv'
  BY TxStepSimulates, NextInv DEF TxInv
<1> QED BY <1>1, TxNextType, KeysHeldNext, FoundSoundNext, NoCandidateMissedNext DEF TxInv

LEMMA TxInvariance == TxSpec => []TxInv
BY TxInitInv, TxNextInv, PTL DEF TxSpec

-----------------------------------------------------------------------------
(* Locks are taken in order, so nobody waits in a cycle *)

\* Natural numbers: the least and, below a bound, the greatest element.
LEMMA HasLeast ==
    ASSUME NEW S, S \subseteq Nat, S # {}
    PROVE  \E x \in S : \A y \in S : x <= y
<1> DEFINE R == OpToRel(<, Nat)
<1>1. IsWellFoundedOn(R, Nat)
  BY NatLessThanWellFounded
<1> HIDE DEF R
<1>2. PICK x \in S : \A y \in S : <<y, x>> \notin R
  BY <1>1, WFMin
<1>3. \A y \in S : y < x => <<y, x>> \in R
  BY DEF R, OpToRel
<1>4. \A y \in S : ~(y < x)
  BY <1>2, <1>3
<1> QED BY <1>4

LEMMA HasGreatest ==
    ASSUME NEW S, S \subseteq Nat, S # {}, NEW n \in Nat, \A x \in S : x <= n
    PROVE  \E x \in S : \A y \in S : y <= x
<1> DEFINE T == {n - x : x \in S}
<1>1. T \subseteq Nat /\ T # {}
  <2>1. \A x \in S : x \in Nat /\ x <= n
    OBVIOUS
  <2>2. \A x \in S : n - x \in Nat
    BY <2>1
  <2> QED BY <2>2
<1>2. PICK t \in T : \A u \in T : t <= u
  BY <1>1, HasLeast
<1>3. PICK x \in S : t = n - x
  BY <1>2
<1>4. \A y \in S : n - x <= n - y
  BY <1>2, <1>3
<1> QED BY <1>3, <1>4

\* A row keeps its document's id, and ids of documents are used once.
SpentHasDoc ==
    /\ \A t \in spent : docStatus[DocOf[t]] # "none"
    /\ \A w \in Workers : stage[w] # "idle" => job[w] \in spent

\* A worker owns nothing when it is idle, and no row before it has queried.
OwnersWork ==
    \A w \in Workers :
        /\ \A k \in Keys : keyOwner[k] = w => stage[w] # "idle"
        /\ \A d \in Docs : docOwner[d] = w => stage[w] = "docs"

\* Whoever owns a key owns the smaller ones it needs; the same for documents.
KeysInOrder ==
    \A w \in Workers : \A k \in Keys : keyOwner[k] = w =>
        \A j \in KeysNeeded(w) : j < k => keyOwner[j] = w

DocsInOrder ==
    \A w \in Workers : \A d \in Docs : docOwner[d] = w =>
        \A e \in TouchedDocs(w) : Exists(e) /\ DocRank[e] < DocRank[d] => docOwner[e] = w

\* Only so many locks have been taken.
LocksBounded ==
    \E n \in Nat :
        /\ \A k \in Keys : keyOwner[k] \in Workers => k <= n
        /\ \A d \in Docs : docOwner[d] \in Workers => DocRank[d] <= n

OrderInv == SpentHasDoc /\ OwnersWork /\ KeysInOrder /\ DocsInOrder /\ LocksBounded

LEMMA NextKeyIsLeast ==
    ASSUME TxTypeOK, NEW w \in Workers, stage[w] # "idle", job[w] \in Sources, KeysLeft(w) # {}
    PROVE  /\ NextKey(w) \in KeysLeft(w) /\ NextKey(w) \in Keys
           /\ \A j \in KeysLeft(w) : NextKey(w) <= j
<1>1. KeysLeft(w) \subseteq Keys /\ Keys \subseteq Nat
  BY KeysAssumption DEF KeysLeft, KeysNeeded
<1>2. \E k \in KeysLeft(w) : \A j \in KeysLeft(w) : k <= j
  BY <1>1, HasLeast
<1> QED BY <1>1, <1>2 DEF NextKey

LEMMA NextDocIsLeast ==
    ASSUME NEW w \in Workers, TouchedDocs(w) \subseteq Docs, DocsLeft(w) # {}
    PROVE  /\ NextDoc(w) \in DocsLeft(w) /\ NextDoc(w) \in Docs
           /\ \A e \in DocsLeft(w) : DocRank[NextDoc(w)] <= DocRank[e]
<1> DEFINE ranks == {DocRank[d] : d \in DocsLeft(w)}
<1>1. DocsLeft(w) \subseteq Docs
  BY DEF DocsLeft
<1>2. ranks \subseteq Nat /\ ranks # {}
  BY <1>1, KeysAssumption
<1>3. PICK r \in ranks : \A q \in ranks : r <= q
  BY <1>2, HasLeast
<1>4. \E d \in DocsLeft(w) : \A e \in DocsLeft(w) : DocRank[d] <= DocRank[e]
  BY <1>3
<1> QED BY <1>1, <1>4 DEF NextDoc

LEMMA Touched ==
    ASSUME TxInv, SpentHasDoc, NEW w \in Workers, stage[w] = "docs"
    PROVE  /\ TouchedDocs(w) \subseteq Docs
           /\ \A e \in TouchedDocs(w) : docStatus[e] # "none"
<1>1. found[w] \union {job[w]} \subseteq spent /\ spent \subseteq Sources
  BY DEF TxInv, FoundSound, SpentHasDoc, Inv, TypeOK
<1> QED BY <1>1, CorpusAssumption DEF TouchedDocs, SpentHasDoc

\* If all of a set waited for members of the set, the ranks of what they wait for
\* would grow without end, but only so many locks are taken.
LEMMA OrderPreventsCycles == TxInv /\ OrderInv => NoWaitCycle
<1> SUFFICES ASSUME TxInv, OrderInv, NEW W \in SUBSET Workers, W # {},
                    \A v \in W : \E w \in W : WaitsFor(v, w)
             PROVE  FALSE
  BY DEF NoWaitCycle
<1>1. PICK n \in Nat : /\ \A k \in Keys : keyOwner[k] \in Workers => k <= n
                       /\ \A d \in Docs : docOwner[d] \in Workers => DocRank[d] <= n
  BY DEF OrderInv, LocksBounded
<1>2. CASE \E v \in W : stage[v] = "docs"
  <2> DEFINE D == {v \in W : stage[v] = "docs"}
             ranks == {DocRank[NextDoc(v)] : v \in D}
  <2>1. ASSUME NEW v \in D
        PROVE  /\ DocsLeft(v) # {} /\ NextDoc(v) \in DocsLeft(v) /\ NextDoc(v) \in Docs
               /\ docOwner[NextDoc(v)] \in D
    <3>1. PICK w \in W : DocsLeft(v) # {} /\ docOwner[NextDoc(v)] = w
      BY DEF WaitsFor
    <3>2. NextDoc(v) \in DocsLeft(v) /\ NextDoc(v) \in Docs
      BY <3>1, Touched, NextDocIsLeast DEF OrderInv
    <3>3. stage[w] = "docs"
      BY <3>1, <3>2 DEF OrderInv, OwnersWork
    <3> QED BY <3>1, <3>2, <3>3
  <2>2. ranks \subseteq Nat /\ ranks # {} /\ \A r \in ranks : r <= n
    BY <1>1, <1>2, <2>1, KeysAssumption
  <2>3. PICK r \in ranks : \A q \in ranks : q <= r
    BY <2>2, HasGreatest
  <2>4. PICK v \in D : r = DocRank[NextDoc(v)]
    BY <2>3
  <2> DEFINE w == docOwner[NextDoc(v)]
  <2>5. /\ w \in D /\ NextDoc(v) \in Docs /\ NextDoc(w) \in Docs
        /\ NextDoc(w) \in TouchedDocs(w) /\ Exists(NextDoc(w)) /\ docOwner[NextDoc(w)] # w
    BY <2>1 DEF DocsLeft
  <2>6. DocRank[NextDoc(w)] <= DocRank[NextDoc(v)] /\ NextDoc(w) # NextDoc(v)
    BY <2>3, <2>4, <2>5
  <2>7. DocRank[NextDoc(w)] < DocRank[NextDoc(v)]
    BY <2>5, <2>6, KeysAssumption
  <2> QED BY <2>5, <2>7 DEF OrderInv, DocsInOrder
<1>3. CASE \A v \in W : stage[v] # "docs"
  <2> DEFINE nexts == {NextKey(v) : v \in W}
  <2>1. ASSUME NEW v \in W
        PROVE  /\ NextKey(v) \in KeysLeft(v) /\ NextKey(v) \in Keys
               /\ keyOwner[NextKey(v)] \in W
    <3>1. PICK w \in W : stage[v] = "keys" /\ KeysLeft(v) # {} /\ keyOwner[NextKey(v)] = w
      BY <1>3 DEF WaitsFor
    <3>2. job[v] \in Sources
      BY <3>1 DEF OrderInv, SpentHasDoc, TxInv, Inv, TypeOK
    <3> QED BY <3>1, <3>2, NextKeyIsLeast DEF TxInv
  <2>2. nexts \subseteq Nat /\ nexts # {} /\ \A k \in nexts : k <= n
    <3>1. \A v \in W : NextKey(v) \in Nat /\ NextKey(v) <= n
      BY <1>1, <2>1, KeysAssumption
    <3> QED BY <3>1
  <2>3. PICK k \in nexts : \A j \in nexts : j <= k
    BY <2>2, HasGreatest
  <2>4. PICK v \in W : k = NextKey(v)
    BY <2>3
  <2> DEFINE w == keyOwner[k]
  <2>5. /\ w \in W /\ k \in Keys /\ NextKey(w) \in Keys
        /\ NextKey(w) \in KeysNeeded(w) /\ keyOwner[NextKey(w)] # w
    BY <2>1, <2>4 DEF KeysLeft
  <2>6. NextKey(w) < k
    <3>1. NextKey(w) \in nexts /\ NextKey(w) # k
      BY <2>5
    <3>2. NextKey(w) <= k
      BY <2>3, <3>1
    <3>3. NextKey(w) \in Nat /\ k \in Nat
      BY <2>5, KeysAssumption
    <3> QED BY <3>1, <3>2, <3>3
  <2> QED BY <2>5, <2>6 DEF OrderInv, KeysInOrder
<1> QED BY <1>2, <1>3
LEMMA OrderInit == TxInit => OrderInv
<1> SUFFICES ASSUME TxInit PROVE OrderInv
  OBVIOUS
<1>1. (\A k \in Keys : keyOwner[k] \notin Workers) /\ (\A d \in Docs : docOwner[d] \notin Workers)
  BY KeysAssumption DEF TxInit
<1>2. LocksBounded
  BY <1>1 DEF LocksBounded
<1>3. SpentHasDoc
  BY DEF TxInit, Init, SpentHasDoc
<1> QED BY <1>1, <1>2, <1>3 DEF OrderInv, OwnersWork, KeysInOrder, DocsInOrder

\* A document that was there does not come back once it is gone, and new files belong
\* to documents that are there.
LEMMA DocsOnlyGo ==
    ASSUME Inv, [Next]_vars
    PROVE  /\ \A d \in Docs : docStatus[d] # "none" =>
                  docStatus'[d] # "none" /\ (Exists(d)' => Exists(d))
           /\ \A t \in spent' \ spent : docStatus'[DocOf[t]] # "none"
<1> USE DEF Inv, TypeOK, Exists, Statuses
<1>1. ASSUME NEW d \in Docs, NEW S \in SUBSET Sources, Create(d, S) \/ AddSources(d, S)
      PROVE  /\ \A e \in Docs : docStatus[e] # "none" =>
                    docStatus'[e] # "none" /\ (Exists(e)' => Exists(e))
             /\ \A t \in spent' \ spent : docStatus'[DocOf[t]] # "none"
  BY <1>1 DEF Create, AddSources, InsertRows
<1>2. ASSUME NEW s \in Sources, NEW k \in {"real", "missing"},
             NEW ids \in Touchable(s, k), Finalize(s, k, ids)
      PROVE  /\ \A e \in Docs : docStatus[e] # "none" =>
                    docStatus'[e] # "none" /\ (Exists(e)' => Exists(e))
             /\ spent' = spent
  BY <1>2 DEF Finalize, ApplyFingerprint, StatusAfter
<1>3. ASSUME NEW d \in Docs, Approve(d) \/ Reject(d) \/ Delete(d)
      PROVE  /\ \A e \in Docs : docStatus[e] # "none" =>
                    docStatus'[e] # "none" /\ (Exists(e)' => Exists(e))
             /\ spent' = spent
  BY <1>3 DEF Approve, Reject, Delete, RemoveRows
<1>4. CASE UNCHANGED vars
  BY <1>4 DEF vars
<1> QED BY <1>1, <1>2, <1>3, <1>4 DEF Next

LEMMA SpentHasDocNext == TxInv /\ OrderInv /\ [TxNext]_txVars => SpentHasDoc'
<1> SUFFICES ASSUME TxInv, OrderInv, [TxNext]_txVars PROVE SpentHasDoc'
  OBVIOUS
<1>1. /\ spent \subseteq spent' /\ spent \subseteq Sources /\ live \subseteq spent
      /\ \A t \in spent : docStatus'[DocOf[t]] # "none"
      /\ \A t \in spent' \ spent : docStatus'[DocOf[t]] # "none"
  BY TxStepSimulates, CorpusMonotone, DocsOnlyGo, CorpusAssumption
     DEF TxInv, Inv, TypeOK, OrderInv, SpentHasDoc
<1>2. ASSUME NEW v \in Workers, stage'[v] # "idle" PROVE job'[v] \in spent
  <2>1. ASSUME NEW w \in Workers, NEW s \in Sources, NEW k \in {"real", "missing"}, Begin(w, s, k)
        PROVE  job'[v] \in spent
    BY <1>1, <1>2, <2>1 DEF Begin, OrderInv, SpentHasDoc, TxInv, TxTypeOK
  <2>2. ASSUME NEW w \in Workers, EndTx(w) PROVE job'[v] \in spent
    BY <1>2, <2>2 DEF EndTx, OrderInv, SpentHasDoc, TxInv, TxTypeOK
  <2>3. ASSUME NEW w \in Workers, Query(w) PROVE job'[v] \in spent
    BY <1>2, <2>3 DEF Query, OrderInv, SpentHasDoc, TxInv, TxTypeOK
  <2>4. ASSUME UNCHANGED workVars PROVE job'[v] \in spent
    BY <1>2, <2>4 DEF workVars, OrderInv, SpentHasDoc
  <2> QED BY <2>1, <2>2, <2>3, <2>4
          DEF TxNext, Step, LockKey, LockDoc, Commit, GiveUp, Abort, Other, workVars, txVars
<1> QED BY <1>1, <1>2 DEF SpentHasDoc

LEMMA OwnersWorkNext == TxInv /\ OrderInv /\ [TxNext]_txVars => OwnersWork'
<1> SUFFICES ASSUME TxInv, OrderInv, [TxNext]_txVars PROVE OwnersWork'
  OBVIOUS
<1> USE KeysAssumption DEF TxInv, TxTypeOK, OrderInv, OwnersWork
<1>1. ASSUME NEW w \in Workers, NEW s \in Sources, NEW k \in {"real", "missing"}, Begin(w, s, k)
      PROVE  OwnersWork'
  BY <1>1 DEF Begin
<1>2. ASSUME NEW w \in Workers, EndTx(w) PROVE OwnersWork'
  BY <1>2 DEF EndTx
<1>3. ASSUME NEW w \in Workers, LockKey(w) \/ LockDoc(w) PROVE OwnersWork'
  BY <1>3 DEF LockKey, LockDoc, workVars
<1>4. ASSUME NEW w \in Workers, Query(w) PROVE OwnersWork'
  BY <1>4 DEF Query
<1>5. ASSUME UNCHANGED <<workVars, keyOwner, docOwner>> PROVE OwnersWork'
  BY <1>5 DEF workVars
<1> HIDE DEF TxInv, TxTypeOK, OrderInv, OwnersWork
<1> QED BY <1>1, <1>2, <1>3, <1>4, <1>5
        DEF TxNext, Step, Commit, GiveUp, Abort, Other, workVars, txVars

LEMMA KeysInOrderNext == TxInv /\ OrderInv /\ [TxNext]_txVars => KeysInOrder'
<1> SUFFICES ASSUME TxInv, OrderInv, [TxNext]_txVars,
                    NEW v \in Workers, NEW k \in Keys, keyOwner'[k] = v,
                    NEW j \in KeysNeeded(v)', j < k
             PROVE  keyOwner'[j] = v
  BY DEF KeysInOrder
<1> USE DEF TxInv, TxTypeOK
<1>1. ASSUME NEW w \in Workers, NEW s \in Sources, NEW b \in {"real", "missing"}, Begin(w, s, b)
      PROVE  keyOwner'[j] = v
  <2>1. w # v
    BY <1>1 DEF Begin, OrderInv, OwnersWork
  <2> QED BY <1>1, <2>1 DEF Begin, OrderInv, KeysInOrder, KeysNeeded
<1>2. ASSUME NEW w \in Workers, EndTx(w) PROVE keyOwner'[j] = v
  <2>1. w # v /\ keyOwner[k] = v
    BY <1>2, KeysAssumption DEF EndTx
  <2>2. KeysNeeded(v)' = KeysNeeded(v) /\ stage[v] # "idle"
    BY <1>2, <2>1 DEF EndTx, KeysNeeded, OrderInv, OwnersWork
  <2>3. keyOwner[j] = v
    BY <2>1, <2>2 DEF OrderInv, KeysInOrder
  <2>4. j \in Keys
    BY <2>2, KeysAssumption DEF KeysNeeded, OrderInv, SpentHasDoc, Inv, TypeOK
  <2> QED BY <1>2, <2>1, <2>3, <2>4 DEF EndTx
<1>3. ASSUME NEW w \in Workers, LockKey(w) PROVE keyOwner'[j] = v
  <2>1. /\ stage[w] = "keys" /\ KeysLeft(w) # {} /\ job[w] \in Sources
        /\ keyOwner' = [keyOwner EXCEPT ![NextKey(w)] = w]
    BY <1>3 DEF LockKey, OrderInv, SpentHasDoc, Inv, TypeOK
  <2>2. KeysNeeded(v)' = KeysNeeded(v)
    BY <1>3 DEF LockKey, workVars, KeysNeeded
  <2>3. NextKey(w) \in Keys /\ \A i \in KeysLeft(w) : NextKey(w) <= i
    BY <2>1, NextKeyIsLeast
  <2>4. CASE keyOwner[k] = v
    <3>1. keyOwner[j] = v
      BY <2>2, <2>4 DEF OrderInv, KeysInOrder
    <3>2. j # NextKey(w) \/ w = v
      BY <1>3, <3>1, KeysAssumption DEF LockKey
    <3> QED BY <2>1, <2>3, <3>1, <3>2
  <2>5. CASE keyOwner[k] # v
    <3>1. k = NextKey(w) /\ v = w
      BY <2>1, <2>3, <2>5
    <3>2. j \in Keys
      BY <2>1, <2>2, <3>1, KeysAssumption DEF KeysNeeded
    <3>3. j \notin KeysLeft(w)
      BY <2>3, <3>1, <3>2, KeysAssumption
    <3>4. keyOwner[j] = w
      BY <2>2, <3>1, <3>3 DEF KeysLeft
    <3> QED BY <2>1, <2>3, <3>1, <3>2, <3>4
  <2> QED BY <2>4, <2>5
<1>4. ASSUME UNCHANGED <<job, blob, keyOwner>> PROVE keyOwner'[j] = v
  BY <1>4 DEF KeysNeeded, OrderInv, KeysInOrder
<1> QED BY <1>1, <1>2, <1>3, <1>4
        DEF TxNext, Step, Query, LockDoc, Commit, GiveUp, Abort, Other, workVars, txVars

LEMMA DocsInOrderNext == TxInv /\ OrderInv /\ [TxNext]_txVars => DocsInOrder'
<1> SUFFICES ASSUME TxInv, OrderInv, [TxNext]_txVars,
                    NEW v \in Workers, NEW d \in Docs, docOwner'[d] = v,
                    NEW e \in TouchedDocs(v)', Exists(e)', DocRank[e] < DocRank[d]
             PROVE  docOwner'[e] = v
  BY DEF DocsInOrder
<1> USE DEF TxInv, TxTypeOK
<1>1. ASSUME stage[v] = "docs", TouchedDocs(v)' = TouchedDocs(v)
      PROVE  e \in TouchedDocs(v) /\ e \in Docs /\ Exists(e)
  <2>1. e \in TouchedDocs(v) /\ e \in Docs /\ docStatus[e] # "none"
    BY <1>1, Touched DEF OrderInv
  <2> QED BY <2>1, TxStepSimulates, DocsOnlyGo
<1>2. ASSUME NEW w \in Workers, EndTx(w) PROVE docOwner'[e] = v
  <2>1. w # v /\ docOwner[d] = v
    BY <1>2, KeysAssumption DEF EndTx
  <2>2. stage[v] = "docs"
    BY <2>1 DEF OrderInv, OwnersWork
  <2>3. TouchedDocs(v)' = TouchedDocs(v)
    BY <1>2, <2>1 DEF EndTx, TouchedDocs
  <2>4. docOwner[e] = v /\ e \in Docs
    BY <1>1, <2>1, <2>2, <2>3 DEF OrderInv, DocsInOrder
  <2> QED BY <1>2, <2>1, <2>4 DEF EndTx
<1>3. ASSUME NEW w \in Workers, LockDoc(w) PROVE docOwner'[e] = v
  <2>1. /\ stage[w] = "docs" /\ DocsLeft(w) # {}
        /\ docOwner' = [docOwner EXCEPT ![NextDoc(w)] = w]
    BY <1>3 DEF LockDoc
  <2>2. NextDoc(w) \in Docs /\ \A f \in DocsLeft(w) : DocRank[NextDoc(w)] <= DocRank[f]
    BY <2>1, Touched, NextDocIsLeast DEF OrderInv
  <2>3. stage[v] = "docs" /\ TouchedDocs(v)' = TouchedDocs(v)
    BY <1>3, <2>1, <2>2 DEF LockDoc, workVars, TouchedDocs, OrderInv, OwnersWork
  <2>4. e \in TouchedDocs(v) /\ e \in Docs /\ Exists(e)
    BY <1>1, <2>3
  <2>5. CASE docOwner[d] = v
    <3>1. docOwner[e] = v
      BY <2>4, <2>5 DEF OrderInv, DocsInOrder
    <3>2. e # NextDoc(w) \/ w = v
      BY <1>3, <3>1, KeysAssumption DEF LockDoc
    <3> QED BY <2>1, <2>2, <2>4, <3>1, <3>2
  <2>6. CASE docOwner[d] # v
    <3>1. d = NextDoc(w) /\ v = w
      BY <2>1, <2>2, <2>6
    <3>2. DocRank[e] \in Nat /\ DocRank[d] \in Nat
      BY <2>4, KeysAssumption
    <3>3. e \notin DocsLeft(w)
      BY <2>2, <3>1, <3>2
    <3>4. docOwner[e] = w
      BY <2>4, <3>1, <3>3 DEF DocsLeft
    <3> QED BY <2>1, <2>2, <2>4, <3>1, <3>4
  <2> QED BY <2>5, <2>6
<1>4. ASSUME NEW w \in Workers, Query(w) \/ \E s \in Sources, k \in {"real", "missing"} : Begin(w, s, k)
      PROVE  docOwner'[e] = v
  <2>1. docOwner' = docOwner /\ stage[w] # "docs"
    BY <1>4 DEF Query, Begin
  <2>2. stage[v] = "docs" /\ v # w
    BY <2>1 DEF OrderInv, OwnersWork
  <2>3. TouchedDocs(v)' = TouchedDocs(v)
    BY <1>4, <2>2 DEF Query, Begin, TouchedDocs
  <2> QED BY <1>1, <2>1, <2>2, <2>3 DEF OrderInv, DocsInOrder
<1>5. ASSUME UNCHANGED <<workVars, docOwner>> PROVE docOwner'[e] = v
  <2>1. stage[v] = "docs" /\ TouchedDocs(v)' = TouchedDocs(v)
    BY <1>5 DEF workVars, TouchedDocs, OrderInv, OwnersWork
  <2> QED BY <1>1, <1>5, <2>1 DEF OrderInv, DocsInOrder
<1>6. ASSUME NEW w \in Workers, Step(w) \/ Abort(w) PROVE docOwner'[e] = v
  BY <1>2, <1>3, <1>4, <1>5, <1>6 DEF Step, LockKey, Commit, GiveUp, Abort
<1> QED BY <1>4, <1>5, <1>6 DEF TxNext, Other, txVars, workVars

LEMMA LocksBoundedNext == TxInv /\ OrderInv /\ [TxNext]_txVars => LocksBounded'
<1> SUFFICES ASSUME TxInv, OrderInv, [TxNext]_txVars PROVE LocksBounded'
  OBVIOUS
<1>1. PICK n \in Nat : /\ \A k \in Keys : keyOwner[k] \in Workers => k <= n
                       /\ \A d \in Docs : docOwner[d] \in Workers => DocRank[d] <= n
  BY DEF OrderInv, LocksBounded
<1>2. ASSUME NEW w \in Workers, LockKey(w) PROVE LocksBounded'
  <2>1. NextKey(w) \in Keys
    BY <1>2, NextKeyIsLeast DEF LockKey, OrderInv, SpentHasDoc, TxInv, Inv, TypeOK
  <2> DEFINE m == n + NextKey(w)
  <2>2. m \in Nat /\ n <= m /\ NextKey(w) <= m
    <3>1. NextKey(w) \in Nat
      BY <2>1, KeysAssumption
    <3> QED BY <3>1
  <2>3. ASSUME NEW k \in Keys, keyOwner'[k] \in Workers PROVE k <= m
    <3>1. k \in Nat /\ (k = NextKey(w) \/ k <= n)
      BY <1>1, <1>2, <2>3, KeysAssumption DEF LockKey, TxInv, TxTypeOK
    <3> QED BY <2>2, <3>1
  <2>4. ASSUME NEW d \in Docs, docOwner'[d] \in Workers PROVE DocRank[d] <= m
    <3>1. DocRank[d] \in Nat /\ DocRank[d] <= n
      BY <1>1, <1>2, <2>4, KeysAssumption DEF LockKey
    <3> QED BY <2>2, <3>1
  <2> HIDE DEF m
  <2> QED BY <2>2, <2>3, <2>4 DEF LocksBounded
<1>3. ASSUME NEW w \in Workers, LockDoc(w) PROVE LocksBounded'
  <2>1. NextDoc(w) \in Docs
    BY <1>3, Touched, NextDocIsLeast DEF LockDoc, OrderInv
  <2> DEFINE m == n + DocRank[NextDoc(w)]
  <2>2. m \in Nat /\ n <= m /\ DocRank[NextDoc(w)] <= m
    BY <2>1, KeysAssumption
  <2>3. ASSUME NEW k \in Keys, keyOwner'[k] \in Workers PROVE k <= m
    <3>1. k \in Nat /\ k <= n
      BY <1>1, <1>3, <2>3, KeysAssumption DEF LockDoc
    <3> QED BY <2>2, <3>1
  <2>4. ASSUME NEW d \in Docs, docOwner'[d] \in Workers PROVE DocRank[d] <= m
    <3>1. DocRank[d] \in Nat /\ (d = NextDoc(w) \/ DocRank[d] <= n)
      BY <1>1, <1>3, <2>4, KeysAssumption DEF LockDoc, TxInv, TxTypeOK
    <3> QED BY <2>2, <3>1
  <2> HIDE DEF m
  <2> QED BY <2>2, <2>3, <2>4 DEF LocksBounded
<1>4. ASSUME /\ \A k \in Keys : keyOwner'[k] \in Workers => keyOwner[k] \in Workers
             /\ \A d \in Docs : docOwner'[d] \in Workers => docOwner[d] \in Workers
      PROVE  LocksBounded'
  BY <1>1, <1>4 DEF LocksBounded
<1>5. ASSUME NEW w \in Workers, EndTx(w) PROVE LocksBounded'
  BY <1>4, <1>5, KeysAssumption DEF EndTx
<1>6. ASSUME UNCHANGED <<keyOwner, docOwner>> PROVE LocksBounded'
  BY <1>4, <1>6
<1> QED BY <1>2, <1>3, <1>5, <1>6
        DEF TxNext, Step, Begin, Query, Commit, GiveUp, Abort, Other, txVars

LEMMA OrderNext == TxInv /\ OrderInv /\ [TxNext]_txVars => OrderInv'
BY SpentHasDocNext, OwnersWorkNext, KeysInOrderNext, DocsInOrderNext, LocksBoundedNext
   DEF OrderInv

-----------------------------------------------------------------------------
(* Theorems *)

\* No candidate appears between the queries of a transaction and its writes.
THEOREM NeverMissesCandidate == TxSpec => []NoCandidateMissed
<1>1. TxInv => NoCandidateMissed
  BY DEF TxInv
<1> QED BY <1>1, TxInvariance, PTL

\* The locked transaction implements the atomic one, so everything proved about
\* Corpus holds of it.
THEOREM TxImplementsCorpus == TxSpec => ImplementsCorpus
<1>1. TxInit => Init
  BY DEF TxInit
<1> QED BY <1>1, TxInvariance, TxStepSimulates, PTL DEF TxSpec, Spec, ImplementsCorpus

\* So a file on hold is hidden whatever the workers do.
THEOREM TxHeldAlwaysHidden == TxSpec => []HeldNeverShared
BY TxImplementsCorpus, HeldAlwaysHidden, PTL DEF ImplementsCorpus

\* Transactions never wait for one another in a cycle: keys before documents, and each in
\* its order, for any number of workers, keys and documents.
THEOREM NeverWaitsInCycle == TxSpec => []NoWaitCycle
<1>1. TxInv /\ OrderInv /\ [TxNext]_txVars => OrderInv'
  BY OrderNext
<1>2. TxSpec => []OrderInv
  BY OrderInit, <1>1, TxInvariance, PTL DEF TxSpec
<1> QED BY <1>2, TxInvariance, OrderPreventsCycles, PTL
=============================================================================
