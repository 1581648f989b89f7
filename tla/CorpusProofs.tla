---------------------------- MODULE CorpusProofs ----------------------------
(* Machine-checked proofs about Corpus, for every choice of its constants.  *)
EXTENDS Corpus, TLAPS

-----------------------------------------------------------------------------
(* The inductive invariant *)

\* Ids that were never inserted carry the column defaults.
FreshIsBlank ==
    \A s \in Sources \ spent : hash[s] = "none" /\ uniq[s] = "unique" /\ released[s]

\* Only a fingerprinted duplicate is unreleased.
HeldIsDuplicate ==
    \A s \in Sources : ~released[s] => hash[s] = "real" /\ uniq[s] = "duplicate"

Inv ==
    /\ TypeOK
    /\ FreshIsBlank
    /\ HeldIsDuplicate
    /\ RowsSound
    /\ RolesSound
    /\ MatchComplete
    /\ StatusDerived
    /\ FinishedIsAnnounced

-----------------------------------------------------------------------------
(* Lemmas *)

\* The status of a document depends on the columns of its own files only, so a
\* transaction that leaves them alone need not recompute it.
LEMMA StatusIsLocal ==
    ASSUME NEW S, NEW old, NEW h, NEW u, NEW r, NEW h2, NEW u2, NEW r2,
           \A t \in S : h2[t] = h[t] /\ u2[t] = u[t] /\ r2[t] = r[t]
    PROVE  StatusAfter(old, S, h2, u2, r2) = StatusAfter(old, S, h, u, r)
<1>1. /\ HasUnhashed(S, h2) <=> HasUnhashed(S, h)
      /\ HasHeld(S, u2, r2) <=> HasHeld(S, u, r)
      /\ HasMatched(S, u2) <=> HasMatched(S, u)
  BY DEF HasUnhashed, HasHeld, HasMatched
<1> QED BY <1>1 DEF StatusAfter

\* A document with files is never rejected by the recomputation.
LEMMA StatusKinds ==
    ASSUME NEW S, NEW h, NEW u, NEW r
    PROVE  StatusAfter("processing", S, h, u, r)
               \in {"processing", "pending_review", "duplicate", "completed"}
BY DEF StatusAfter

\* What a fingerprint of s finds is live, fingerprinted, and not s itself.
LEMMA MatchesFacts ==
    ASSUME TypeOK, NEW s \in live, hash[s] = "none"
    PROVE  /\ Matches(s) \subseteq live
           /\ s \notin Matches(s)
           /\ \A t \in Matches(s) : hash[t] = "real" /\ <<s, t>> \in Match /\ <<t, s>> \in Match
           /\ \A t \in live : hash[t] = "real" /\ <<s, t>> \in Match => t \in Matches(s)
BY CorpusAssumption DEF Matches, Candidates, TypeOK

-----------------------------------------------------------------------------
(* Type correctness *)

LEMMA InitType == Init => TypeOK
BY DEF Init, TypeOK, Statuses, Roles

LEMMA FinalizeType ==
    ASSUME TypeOK, NEW s \in Sources, NEW k \in {"real", "missing"},
           NEW ids \in Touchable(s, k), Finalize(s, k, ids)
    PROVE  TypeOK'
<1> DEFINE M == IF k = "real" THEN Matches(s) ELSE {}
<1>1. M \subseteq Sources
  BY DEF Matches, Candidates, TypeOK
<1>2. hash' = [hash EXCEPT ![s] = k] /\ hash' \in [Sources -> {"none", "real", "missing"}]
  BY DEF Finalize, ApplyFingerprint, TypeOK
<1>3. uniq' \in [Sources -> Roles]
  BY DEF Finalize, ApplyFingerprint, RolesAfter, OwnRole, MatchRole, Roles, TypeOK
<1>4. released' \in [Sources -> BOOLEAN]
  BY CorpusAssumption DEF Finalize, ApplyFingerprint, ReleasedAfter, TypeOK
<1>5. dup' \subseteq Sources \X Sources
  BY <1>1 DEF Finalize, ApplyFingerprint, TypeOK
<1>6. docStatus' \in [Docs -> Statuses \union {"none", "deleted"}]
  BY DEF Finalize, ApplyFingerprint, StatusAfter, Statuses, TypeOK
<1>7. notified' \in [Docs -> BOOLEAN] /\ reviewAsked' \in [Docs -> BOOLEAN]
  BY DEF Finalize, ApplyFingerprint, HasHeld, TypeOK
<1> QED BY <1>2, <1>3, <1>4, <1>5, <1>6, <1>7 DEF Finalize, ApplyFingerprint, TypeOK

LEMMA NextType == TypeOK /\ [Next]_vars => TypeOK'
<1> SUFFICES ASSUME TypeOK, [Next]_vars PROVE TypeOK'
  OBVIOUS
<1>1. ASSUME NEW d \in Docs, NEW S \in SUBSET Sources, Create(d, S) PROVE TypeOK'
  BY <1>1 DEF Create, InsertRows, TypeOK, Statuses
<1>2. ASSUME NEW d \in Docs, NEW S \in SUBSET Sources, AddSources(d, S) PROVE TypeOK'
  BY <1>2 DEF AddSources, InsertRows, TypeOK, Statuses
<1>3. ASSUME NEW s \in Sources, NEW k \in {"real", "missing"},
             NEW ids \in Touchable(s, k), Finalize(s, k, ids) PROVE TypeOK'
  BY <1>3, FinalizeType
<1>4. ASSUME NEW d \in Docs, Approve(d) PROVE TypeOK'
  BY <1>4 DEF Approve, TypeOK, Statuses
<1>5. ASSUME NEW d \in Docs, Reject(d) \/ Delete(d) PROVE TypeOK'
  BY <1>5 DEF Reject, Delete, RemoveRows, TypeOK, Statuses
<1>6. CASE UNCHANGED vars
  BY <1>6 DEF vars, TypeOK
<1> QED BY <1>1, <1>2, <1>3, <1>4, <1>5, <1>6 DEF Next

\* Every column stays in its domain, statuses and roles included.
THEOREM TypeCorrect == Spec => []TypeOK
BY InitType, NextType, PTL DEF Spec

-----------------------------------------------------------------------------
(* The invariant is inductive: one lemma per transaction *)

LEMMA InitInv == Init => Inv
BY InitType DEF Init, Inv, FreshIsBlank, HeldIsDuplicate, RowsSound, RolesSound,
    MatchComplete, StatusDerived, FinishedIsAnnounced, Exists, SourcesOf, RowsOf, Statuses

\* Create and AddSources: the new rows are blank and turn the document to
\* "processing"; every other document keeps its files.
LEMMA InsertInv ==
    ASSUME Inv, NEW d \in Docs, NEW S \in SUBSET Sources,
           Create(d, S) \/ AddSources(d, S), TypeOK'
    PROVE  Inv'
<1>1. /\ live' = live \union S /\ spent' = spent \union S
      /\ hash' = hash /\ uniq' = uniq /\ released' = released /\ dup' = dup
      /\ docStatus' = [docStatus EXCEPT ![d] = "processing"]
      /\ \A e \in Docs : e # d => notified'[e] = notified[e]
  BY DEF Create, AddSources, InsertRows, Inv, TypeOK
<1>2. /\ S # {} /\ S \intersect spent = {} /\ live \intersect S = {}
      /\ \A s \in S : DocOf[s] = d /\ hash[s] = "none" /\ uniq[s] = "unique"
  BY DEF Create, AddSources, Inv, TypeOK, FreshIsBlank
<1>3. FreshIsBlank' /\ HeldIsDuplicate'
  BY <1>1 DEF Inv, FreshIsBlank, HeldIsDuplicate
<1>4. RowsSound'
  BY <1>1 DEF Inv, RowsSound
<1>5. RolesSound'
  <2> SUFFICES ASSUME NEW s \in live'
               PROVE  /\ (\E t \in RowsOf(s) : Earlier(s, t)) => uniq[s] = "duplicate"
                      /\ RowsOf(s) # {} => uniq[s] # "unique"
                      /\ hash[s] # "real" => uniq[s] = "unique"
    BY <1>1 DEF RolesSound, RowsOf, Earlier, UploadedFirst
  <2>1. CASE s \in live
    BY <2>1 DEF Inv, RolesSound
  <2>2. CASE s \in S
    <3>1. RowsOf(s) = {}
      BY <1>2, <2>2 DEF Inv, RowsSound, RowsOf
    <3> QED BY <3>1, <2>2, <1>2
  <2> QED BY <2>1, <2>2, <1>1
<1>6. MatchComplete'
  BY <1>1, <1>2 DEF Inv, MatchComplete
<1>7. StatusDerived'
  <2> SUFFICES ASSUME NEW e \in Docs
               PROVE  /\ (~Exists(e) \/ docStatus[e] = "rejected" => SourcesOf(e) = {})'
                      /\ (Exists(e) /\ docStatus[e] # "rejected" =>
                            /\ SourcesOf(e) # {}
                            /\ docStatus[e] = StatusAfter("processing", SourcesOf(e), hash, uniq, released))'
    BY DEF StatusDerived
  <2>1. CASE e = d
    <3>1. docStatus'[d] = "processing"
      BY <1>1 DEF Inv, TypeOK
    <3>2. \E s \in SourcesOf(d)' : hash'[s] = "none"
      BY <1>1, <1>2 DEF SourcesOf
    <3> QED BY <3>1, <3>2, <2>1 DEF StatusAfter, HasUnhashed, Exists, Statuses
  <2>2. CASE e # d
    <3>1. docStatus'[e] = docStatus[e] /\ SourcesOf(e)' = SourcesOf(e)
      BY <1>1, <1>2, <2>2 DEF SourcesOf, Inv, TypeOK
    <3> QED BY <3>1, <1>1 DEF Inv, StatusDerived, Exists
  <2> QED BY <2>1, <2>2
<1>8. FinishedIsAnnounced'
  BY <1>1 DEF Inv, FinishedIsAnnounced, TypeOK
<1> QED BY <1>3, <1>4, <1>5, <1>6, <1>7, <1>8 DEF Inv

\* A fingerprint of s: the roles and rows that change are those of s and its
\* matches, and the documents of all of them are recomputed.
LEMMA FinalizeInv ==
    ASSUME Inv, NEW s \in Sources, NEW k \in {"real", "missing"},
           NEW ids \in Touchable(s, k), Finalize(s, k, ids), TypeOK'
    PROVE  Inv'
<1> DEFINE M == IF k = "real" THEN Matches(s) ELSE {}
<1>1. /\ s \in live /\ hash[s] = "none"
      /\ hash' = [hash EXCEPT ![s] = k]
      /\ uniq' = RolesAfter(s, M)
      /\ released' = ReleasedAfter(s, OwnRole(s, M))
      /\ dup' = dup \union ({s} \X M) \union (M \X {s})
      /\ live' = live /\ spent' = spent
  BY DEF Finalize, ApplyFingerprint
<1>2. /\ M \subseteq live /\ s \notin M
      /\ \A t \in M : k = "real" /\ hash[t] = "real" /\ <<s, t>> \in Match /\ <<t, s>> \in Match
      /\ k = "real" => \A t \in live : hash[t] = "real" /\ <<s, t>> \in Match => t \in M
  BY <1>1, MatchesFacts DEF Inv
<1>3. /\ uniq'[s] = OwnRole(s, M)
      /\ \A t \in M : uniq'[t] = MatchRole(t, s)
      /\ \A t \in Sources : t # s /\ t \notin M => uniq'[t] = uniq[t]
  BY <1>1, <1>2 DEF RolesAfter, Inv, TypeOK
<1>4. /\ hash'[s] = k
      /\ \A t \in Sources : t # s => hash'[t] = hash[t] /\ released'[t] = released[t]
      /\ ~released'[s] => uniq'[s] = "duplicate"
  BY <1>1, <1>3 DEF ReleasedAfter, Inv, TypeOK
<1>5. {t \in Sources : <<s, t>> \in dup \/ <<t, s>> \in dup} = {}
  BY <1>1 DEF Inv, RowsSound
<1>6. \A t \in M : DocOf[t] \in ids
  BY DEF Touchable, Matches
<1>7. DocOf[s] \in ids
  BY DEF Touchable
<1>8. FreshIsBlank'
  BY <1>1, <1>2, <1>3, <1>4 DEF Inv, FreshIsBlank, TypeOK
<1>9. HeldIsDuplicate'
  <2> SUFFICES ASSUME NEW t \in Sources, ~released'[t]
               PROVE  hash'[t] = "real" /\ uniq'[t] = "duplicate"
    BY DEF HeldIsDuplicate
  <2>1. CASE t = s
    BY <2>1, <1>2, <1>3, <1>4 DEF OwnRole
  <2>2. CASE t # s
    <3>1. hash'[t] = "real" /\ uniq[t] = "duplicate"
      BY <2>2, <1>4 DEF Inv, HeldIsDuplicate
    <3> QED BY <3>1, <2>2, <1>3 DEF MatchRole
  <2> QED BY <2>1, <2>2
<1>10. RowsSound'
  <2> SUFFICES ASSUME NEW p \in dup'
               PROVE  /\ <<p[2], p[1]>> \in dup'
                      /\ p \in Match
                      /\ \A i \in {1, 2} : p[i] \in live' /\ hash'[p[i]] = "real"
    BY DEF RowsSound
  <2>1. CASE p \in dup
    BY <2>1, <1>1, <1>4, <1>5 DEF Inv, RowsSound, TypeOK
  <2>2. CASE p \in ({s} \X M) \union (M \X {s})
    BY <2>2, <1>1, <1>2, <1>4 DEF Inv, TypeOK
  <2> QED BY <2>1, <2>2, <1>1
<1>11. RolesSound'
  <2> SUFFICES ASSUME NEW t \in live
               PROVE  /\ (\E x \in RowsOf(t)' : Earlier(t, x)) => uniq'[t] = "duplicate"
                      /\ RowsOf(t)' # {} => uniq'[t] # "unique"
                      /\ hash'[t] # "real" => uniq'[t] = "unique"
    BY <1>1 DEF RolesSound, Earlier, UploadedFirst
  <2>0. t \in Sources
    BY DEF Inv, TypeOK
  <2>1. CASE t = s
    <3>1. RowsOf(s)' = M
      BY <1>1, <1>2, <1>5 DEF RowsOf, Inv, TypeOK
    <3>2. ASSUME NEW x \in M, Earlier(s, x) PROVE ~UploadedFirst(s, x)
      BY <3>2, CorpusAssumption, <1>2 DEF Earlier, UploadedFirst, Inv, TypeOK
    <3> QED BY <3>1, <3>2, <2>1, <1>2, <1>3, <1>4 DEF OwnRole
  <2>2. CASE t \in M
    <3>1. RowsOf(t)' = RowsOf(t) \union {s}
      BY <2>2, <1>1, <1>2 DEF RowsOf, Inv, TypeOK
    <3>2. UploadedFirst(t, s) => ~Earlier(t, s)
      BY <2>0, CorpusAssumption DEF Earlier, UploadedFirst
    <3>3. (\E x \in RowsOf(t) : Earlier(t, x)) => uniq[t] = "duplicate"
      BY DEF Inv, RolesSound
    <3>4. uniq'[t] = MatchRole(t, s) /\ hash'[t] = "real"
      BY <2>2, <1>2, <1>3, <1>4, <2>0
    <3> QED BY <3>1, <3>2, <3>3, <3>4 DEF MatchRole
  <2>3. CASE t # s /\ t \notin M
    <3>1. RowsOf(t)' = RowsOf(t)
      BY <2>3, <1>1 DEF RowsOf
    <3> QED BY <3>1, <2>3, <2>0, <1>3, <1>4 DEF Inv, RolesSound
  <2> QED BY <2>1, <2>2, <2>3
<1>12. MatchComplete'
  <2> SUFFICES ASSUME NEW t \in live, NEW x \in live,
                      hash'[t] = "real", hash'[x] = "real", <<t, x>> \in Match
               PROVE  <<t, x>> \in dup' /\ <<x, t>> \in dup'
    BY <1>1 DEF MatchComplete
  <2>0. t \in Sources /\ x \in Sources /\ t # x /\ <<x, t>> \in Match
    BY CorpusAssumption DEF Inv, TypeOK
  <2>1. CASE t # s /\ x # s
    BY <2>0, <2>1, <1>1, <1>4 DEF Inv, MatchComplete
  <2>2. CASE t = s
    BY <2>0, <2>2, <1>1, <1>2, <1>4
  <2>3. CASE x = s
    BY <2>0, <2>3, <1>1, <1>2, <1>4
  <2> QED BY <2>1, <2>2, <2>3
<1>13. \A d \in Docs : SourcesOf(d)' = SourcesOf(d)
  BY <1>1 DEF SourcesOf
<1>14. \A d \in Docs : docStatus'[d] =
          IF d \in ids /\ Exists(d)
          THEN StatusAfter(docStatus[d], SourcesOf(d), hash', uniq', released') ELSE docStatus[d]
  BY DEF Finalize, ApplyFingerprint
<1>15. StatusDerived'
  <2> SUFFICES ASSUME NEW d \in Docs
               PROVE  /\ (~Exists(d) \/ docStatus[d] = "rejected" => SourcesOf(d) = {})'
                      /\ (Exists(d) /\ docStatus[d] # "rejected" =>
                            /\ SourcesOf(d) # {}
                            /\ docStatus[d] = StatusAfter("processing", SourcesOf(d), hash, uniq, released))'
    BY DEF StatusDerived
  <2>1. CASE ~Exists(d) \/ docStatus[d] = "rejected"
    BY <2>1, <1>13, <1>14 DEF Inv, StatusDerived, Exists, StatusAfter
  <2>2. CASE Exists(d) /\ docStatus[d] # "rejected"
    <3>1. /\ SourcesOf(d) # {}
          /\ docStatus[d] = StatusAfter("processing", SourcesOf(d), hash, uniq, released)
      BY <2>2 DEF Inv, StatusDerived
    <3>2. docStatus'[d] = StatusAfter("processing", SourcesOf(d), hash', uniq', released')
      <4>1. CASE d \in ids
        BY <4>1, <2>2, <1>14 DEF StatusAfter
      <4>2. CASE d \notin ids
        <5>1. \A t \in SourcesOf(d) : t \in Sources /\ t # s /\ t \notin M
          BY <4>2, <1>6, <1>7 DEF SourcesOf, Inv, TypeOK
        <5>2. \A t \in SourcesOf(d) :
                 hash'[t] = hash[t] /\ uniq'[t] = uniq[t] /\ released'[t] = released[t]
          BY <5>1, <1>3, <1>4
        <5> QED BY <5>2, <3>1, <4>2, <1>14, StatusIsLocal
      <4> QED BY <4>1, <4>2
    <3>3. Exists(d)' /\ docStatus'[d] # "rejected"
      BY <3>2, StatusKinds DEF Exists, Statuses
    <3> QED BY <3>1, <3>2, <3>3, <1>13
  <2> QED BY <2>1, <2>2
<1>16. FinishedIsAnnounced'
  <2>1. \A d \in Docs : notified'[d] =
           (notified[d] \/ (d \in ids /\ Exists(d) /\ docStatus'[d] # "processing"))
    BY DEF Finalize, ApplyFingerprint
  <2> QED BY <2>1, <1>14 DEF Inv, FinishedIsAnnounced, Exists, Statuses
<1> QED BY <1>8, <1>9, <1>10, <1>11, <1>12, <1>15, <1>16 DEF Inv

\* Approve releases all files of d, none of which is unfingerprinted.
LEMMA ApproveInv ==
    ASSUME Inv, NEW d \in Docs, Approve(d), TypeOK'
    PROVE  Inv'
<1>1. /\ docStatus[d] = "pending_review" /\ d \in Docs
      /\ \A s \in Sources : released'[s] = (released[s] \/ s \in SourcesOf(d))
      /\ \A e \in Docs : e # d => docStatus'[e] = docStatus[e] /\ notified'[e] = notified[e]
      /\ live' = live /\ spent' = spent /\ hash' = hash /\ uniq' = uniq /\ dup' = dup
      /\ \A e \in Docs : SourcesOf(e)' = SourcesOf(e)
  BY DEF Approve, Inv, TypeOK, SourcesOf
<1>2. SourcesOf(d) # {} /\ ~HasUnhashed(SourcesOf(d), hash) /\ HasHeld(SourcesOf(d), uniq, released)
  BY <1>1 DEF Inv, StatusDerived, StatusAfter, Exists, Statuses
<1>3. HasMatched(SourcesOf(d), uniq)
  BY <1>2 DEF HasHeld, HasMatched
<1>4. docStatus'[d] = "duplicate"
  BY <1>2, <1>3 DEF Approve, Inv, TypeOK
<1>5. FreshIsBlank' /\ HeldIsDuplicate'
  BY <1>1 DEF Inv, FreshIsBlank, HeldIsDuplicate
<1>6. RowsSound' /\ RolesSound' /\ MatchComplete'
  BY <1>1 DEF Inv, RowsSound, RolesSound, MatchComplete, RowsOf, Earlier, UploadedFirst
<1>7. StatusDerived'
  <2> SUFFICES ASSUME NEW e \in Docs
               PROVE  /\ (~Exists(e) \/ docStatus[e] = "rejected" => SourcesOf(e) = {})'
                      /\ (Exists(e) /\ docStatus[e] # "rejected" =>
                            /\ SourcesOf(e) # {}
                            /\ docStatus[e] = StatusAfter("processing", SourcesOf(e), hash, uniq, released))'
    BY DEF StatusDerived
  <2>1. CASE e = d
    <3>1. ~HasHeld(SourcesOf(d), uniq, released')
      BY <1>1 DEF HasHeld, SourcesOf, Inv, TypeOK
    <3>2. StatusAfter("processing", SourcesOf(d), hash, uniq, released') = "duplicate"
      BY <3>1, <1>2, <1>3 DEF StatusAfter
    <3> QED BY <3>2, <2>1, <1>1, <1>2, <1>4 DEF Exists, Statuses
  <2>2. CASE e # d
    <3>1. \A s \in SourcesOf(e) : released'[s] = released[s]
      BY <2>2, <1>1 DEF SourcesOf, Inv, TypeOK
    <3>2. StatusAfter("processing", SourcesOf(e), hash, uniq, released')
             = StatusAfter("processing", SourcesOf(e), hash, uniq, released)
      BY <3>1, StatusIsLocal
    <3> QED BY <3>2, <2>2, <1>1 DEF Inv, StatusDerived, Exists
  <2> QED BY <2>1, <2>2
<1>8. FinishedIsAnnounced'
  BY <1>1, <1>4 DEF Inv, FinishedIsAnnounced
<1> QED BY <1>5, <1>6, <1>7, <1>8 DEF Inv

\* Reject and Delete: all files of d go, with every row that names one of them.
LEMMA RemoveInv ==
    ASSUME Inv, NEW d \in Docs, Reject(d) \/ Delete(d), TypeOK'
    PROVE  Inv'
<1>1. /\ live' = live \ SourcesOf(d)
      /\ dup' = {p \in dup : p[1] \notin SourcesOf(d) /\ p[2] \notin SourcesOf(d)}
      /\ spent' = spent /\ hash' = hash /\ uniq' = uniq
      /\ released' = released /\ notified' = notified
      /\ docStatus'[d] \in {"rejected", "deleted"}
      /\ docStatus'[d] = "rejected" => docStatus[d] = "pending_review"
      /\ \A e \in Docs : e # d => docStatus'[e] = docStatus[e]
  BY DEF Reject, Delete, RemoveRows, Inv, TypeOK
<1>2. FreshIsBlank' /\ HeldIsDuplicate'
  BY <1>1 DEF Inv, FreshIsBlank, HeldIsDuplicate
<1>3. RowsSound'
  BY <1>1 DEF Inv, RowsSound, TypeOK
<1>4. RolesSound'
  BY <1>1 DEF Inv, RolesSound, RowsOf, Earlier, UploadedFirst
<1>5. MatchComplete'
  BY <1>1 DEF Inv, MatchComplete
<1>6. StatusDerived'
  <2> SUFFICES ASSUME NEW e \in Docs
               PROVE  /\ (~Exists(e) \/ docStatus[e] = "rejected" => SourcesOf(e) = {})'
                      /\ (Exists(e) /\ docStatus[e] # "rejected" =>
                            /\ SourcesOf(e) # {}
                            /\ docStatus[e] = StatusAfter("processing", SourcesOf(e), hash, uniq, released))'
    BY DEF StatusDerived
  <2>1. CASE e = d
    BY <2>1, <1>1 DEF SourcesOf, Exists, Statuses
  <2>2. CASE e # d
    <3>1. SourcesOf(e)' = SourcesOf(e)
      BY <2>2, <1>1 DEF SourcesOf
    <3> QED BY <3>1, <2>2, <1>1 DEF Inv, StatusDerived, Exists
  <2> QED BY <2>1, <2>2
<1>7. FinishedIsAnnounced'
  BY <1>1 DEF Inv, FinishedIsAnnounced
<1> QED BY <1>2, <1>3, <1>4, <1>5, <1>6, <1>7 DEF Inv

LEMMA NextInv == Inv /\ [Next]_vars => Inv'
<1> SUFFICES ASSUME Inv, [Next]_vars PROVE Inv'
  OBVIOUS
<1>1. TypeOK'
  BY NextType DEF Inv
<1>2. CASE UNCHANGED vars
  <2>1. FreshIsBlank' /\ HeldIsDuplicate' /\ RowsSound' /\ MatchComplete' /\ FinishedIsAnnounced'
    BY <1>2 DEF vars, Inv, FreshIsBlank, HeldIsDuplicate, RowsSound, MatchComplete, FinishedIsAnnounced
  <2>2. RolesSound'
    BY <1>2 DEF vars, Inv, RolesSound, RowsOf, Earlier, UploadedFirst
  <2>3. StatusDerived'
    BY <1>2 DEF vars, Inv, StatusDerived, Exists, SourcesOf
  <2> QED BY <1>1, <2>1, <2>2, <2>3 DEF Inv
<1>3. CASE Next
  BY <1>1, <1>3, InsertInv, FinalizeInv, ApproveInv, RemoveInv DEF Next
<1> QED BY <1>2, <1>3

LEMMA Invariance == Spec => []Inv
BY InitInv, NextInv, PTL DEF Spec

-----------------------------------------------------------------------------
(* Theorems *)

\* The stored status of a document is always the one its files' columns imply.
THEOREM StatusAlwaysDerived == Spec => []StatusDerived
<1>1. Inv => StatusDerived
  BY DEF Inv
<1> QED BY <1>1, Invariance, PTL

\* No file on hold is ever in a shareable document.
THEOREM HeldAlwaysHidden == Spec => []HeldNeverShared
<1>1. Inv => HeldNeverShared
  <2> SUFFICES ASSUME Inv, NEW s \in live, ~released[s]
               PROVE  ~Shareable(docStatus[DocOf[s]])
    BY DEF HeldNeverShared
  <2>1. s \in SourcesOf(DocOf[s]) /\ DocOf[s] \in Docs
    BY CorpusAssumption DEF SourcesOf, Inv, TypeOK
  <2>2. HasHeld(SourcesOf(DocOf[s]), uniq, released)
    BY <2>1 DEF HasHeld, SourcesOf, Inv, TypeOK, HeldIsDuplicate
  <2>3. docStatus[DocOf[s]] \in {"processing", "pending_review"}
    BY <2>1, <2>2 DEF Inv, StatusDerived, StatusAfter
  <2> QED BY <2>3 DEF Shareable
<1> QED BY <1>1, Invariance, PTL

\* Whatever the order in which files are uploaded, fingerprinted and removed,
\* every pair of matching fingerprinted files is recorded, and nothing else is.
THEOREM MatchesAlwaysRecorded == Spec => [](MatchComplete /\ RowsSound)
<1>1. Inv => MatchComplete /\ RowsSound
  BY DEF Inv
<1> QED BY <1>1, Invariance, PTL

\* The role of a file always agrees with the recorded matches.
THEOREM RolesAlwaysSound == Spec => []RolesSound
<1>1. Inv => RolesSound
  BY DEF Inv
<1> QED BY <1>1, Invariance, PTL

\* No document finishes, or is put on hold, without being marked for notification.
THEOREM AlwaysAnnounced == Spec => []FinishedIsAnnounced
<1>1. Inv => FinishedIsAnnounced
  BY DEF Inv
<1> QED BY <1>1, Invariance, PTL

\* A hold is lifted by an approval of the whole document and by nothing else.
THEOREM ReleaseAlwaysDecided == Spec => ReleaseIsDecided
<1>1. ASSUME Inv, [Next]_vars, NEW s \in live, ~released[s], released'[s]
      PROVE  /\ docStatus[DocOf[s]] = "pending_review"
             /\ \A t \in SourcesOf(DocOf[s]) : t \in live' /\ released'[t]
  <2>0. s \in Sources /\ hash[s] = "real"
    BY <1>1 DEF Inv, TypeOK, HeldIsDuplicate
  <2>1. ASSUME NEW x \in Sources, NEW k \in {"real", "missing"},
               NEW ids \in Touchable(x, k), Finalize(x, k, ids) PROVE FALSE
    BY <1>1, <2>0, <2>1 DEF Finalize, ApplyFingerprint, ReleasedAfter, Inv, TypeOK
  <2>2. ASSUME NEW d \in Docs, Approve(d)
        PROVE  /\ docStatus[DocOf[s]] = "pending_review"
               /\ \A t \in SourcesOf(DocOf[s]) : t \in live' /\ released'[t]
    BY <1>1, <2>0, <2>2 DEF Approve, SourcesOf, Inv, TypeOK
  <2>3. released' # released
    BY <1>1
  <2>4. ~UNCHANGED vars /\ \A d \in Docs, S \in SUBSET Sources :
           ~Create(d, S) /\ ~AddSources(d, S) /\ ~Reject(d) /\ ~Delete(d)
    BY <2>3 DEF vars, Create, AddSources, InsertRows, Reject, Delete, RemoveRows
  <2> QED BY <1>1, <2>1, <2>2, <2>4 DEF Next
<1>2. Inv /\ [Next]_vars =>
        [\A s \in live : ~released[s] /\ released'[s] =>
            /\ docStatus[DocOf[s]] = "pending_review"
            /\ \A t \in SourcesOf(DocOf[s]) : t \in live' /\ released'[t]]_vars
  BY <1>1
<1> QED BY <1>2, Invariance, PTL DEF Spec, ReleaseIsDecided

\* No late fingerprint reopens a rejected document.
THEOREM RejectionAlwaysStands == Spec => RejectionStands
<1>1. ASSUME Inv, [Next]_vars, NEW d \in Docs, docStatus[d] = "rejected", docStatus'[d] # "rejected"
      PROVE  \/ docStatus'[d] = "deleted"
             \/ docStatus'[d] = "processing" /\ \E s \in live' \ live : DocOf[s] = d
  <2>1. ASSUME NEW x \in Sources, NEW k \in {"real", "missing"},
               NEW ids \in Touchable(x, k), Finalize(x, k, ids) PROVE FALSE
    BY <1>1, <2>1 DEF Finalize, ApplyFingerprint, StatusAfter
  <2>2. ASSUME NEW e \in Docs, NEW S \in SUBSET Sources, Create(e, S) \/ AddSources(e, S)
        PROVE  docStatus'[d] = "processing" /\ \E s \in live' \ live : DocOf[s] = d
    <3>1. e = d /\ docStatus'[d] = "processing"
      BY <1>1, <2>2 DEF Create, AddSources, Inv, TypeOK
    <3>2. S # {} /\ S \intersect live = {} /\ live' = live \union S /\ \A s \in S : DocOf[s] = d
      BY <1>1, <2>2, <3>1 DEF Create, AddSources, InsertRows, Inv, TypeOK
    <3> QED BY <3>1, <3>2
  <2>3. ASSUME NEW e \in Docs, Approve(e) \/ Reject(e) \/ Delete(e)
        PROVE  docStatus'[d] = "deleted"
    BY <1>1, <2>3 DEF Approve, Reject, Delete, Inv, TypeOK
  <2>4. ~UNCHANGED vars
    BY <1>1 DEF vars
  <2> QED BY <1>1, <2>1, <2>2, <2>3, <2>4 DEF Next
<1>2. Inv /\ [Next]_vars =>
        [\A d \in Docs : docStatus[d] = "rejected" /\ docStatus'[d] # "rejected" =>
            \/ docStatus'[d] = "deleted"
            \/ docStatus'[d] = "processing" /\ \E s \in live' \ live : DocOf[s] = d]_vars
  BY <1>1
<1> QED BY <1>2, Invariance, PTL DEF Spec, RejectionStands

-----------------------------------------------------------------------------
(* The roles of a corpus from which nothing has been removed *)

LEMMA RolesInit == Init => RolesByUploadOrder
BY DEF Init, RolesByUploadOrder

LEMMA FinalizeRoles ==
    ASSUME Inv, RolesByUploadOrder, NEW s \in Sources, NEW k \in {"real", "missing"},
           NEW ids \in Touchable(s, k), Finalize(s, k, ids)
    PROVE  RolesByUploadOrder'
<1> DEFINE M == IF k = "real" THEN Matches(s) ELSE {}
           Same(t) == {x \in live : hash[x] = "real" /\ <<t, x>> \in Match}
<1>1. /\ s \in live /\ hash[s] = "none" /\ hash' = [hash EXCEPT ![s] = k]
      /\ uniq' = RolesAfter(s, M) /\ live' = live /\ spent' = spent
  BY DEF Finalize, ApplyFingerprint
<1>2. /\ M \subseteq live /\ s \notin M
      /\ \A t \in M : k = "real" /\ hash[t] = "real" /\ <<s, t>> \in Match /\ <<t, s>> \in Match
      /\ k = "real" => \A t \in live : hash[t] = "real" /\ <<s, t>> \in Match => t \in M
  BY <1>1, MatchesFacts DEF Inv
<1>3. /\ uniq'[s] = OwnRole(s, M)
      /\ \A t \in M : uniq'[t] = MatchRole(t, s)
      /\ \A t \in Sources : t # s /\ t \notin M => uniq'[t] = uniq[t]
  BY <1>1, <1>2 DEF RolesAfter, Inv, TypeOK
<1>4. hash'[s] = k /\ \A t \in Sources : t # s => hash'[t] = hash[t]
  BY <1>1 DEF Inv, TypeOK
<1>5. live \subseteq Sources
  BY DEF Inv, TypeOK
<1> SUFFICES ASSUME spent = live, NEW t \in live, hash'[t] = "real"
             PROVE  uniq'[t] = RoleByUploads(t)'
  BY <1>1 DEF RolesByUploadOrder
<1>6. RoleByUploads(t)' = IF Same(t)' = {} THEN "unique"
                          ELSE IF \E x \in Same(t)' : Rank[x] < Rank[t] THEN "duplicate"
                          ELSE "original"
  BY DEF RoleByUploads, Earlier, UploadedFirst
<1>7. hash[t] = "real" => uniq[t] = IF Same(t) = {} THEN "unique"
                          ELSE IF \E x \in Same(t) : Rank[x] < Rank[t] THEN "duplicate"
                          ELSE "original"
  BY DEF RolesByUploadOrder, RoleByUploads, Earlier, UploadedFirst
<1>8. CASE t = s
  <2>1. Same(s)' = M
    BY <1>1, <1>2, <1>4, <1>5, <1>8, CorpusAssumption
  <2>2. \A m \in M : Rank[m] < Rank[s] <=> ~(Rank[s] < Rank[m])
    BY <1>2, <1>5, CorpusAssumption
  <2> QED BY <1>3, <1>6, <1>8, <2>1, <2>2 DEF OwnRole, UploadedFirst
<1>9. CASE t \in M
  <2>1. Same(t)' = Same(t) \union {s} /\ hash[t] = "real"
    BY <1>1, <1>2, <1>4, <1>5, <1>9
  <2>2. Rank[t] < Rank[s] <=> ~(Rank[s] < Rank[t])
    BY <1>2, <1>5, <1>9, CorpusAssumption
  <2>3. uniq'[t] = MatchRole(t, s)
    BY <1>3, <1>9
  <2> HIDE DEF Same
  <2> QED BY <1>6, <1>7, <2>1, <2>2, <2>3 DEF MatchRole, UploadedFirst
<1>10. CASE t # s /\ t \notin M
  <2>1. <<t, s>> \in Match => <<s, t>> \in Match
    BY <1>5, CorpusAssumption
  <2>2. Same(t)' = Same(t) /\ hash[t] = "real"
    BY <1>1, <1>2, <1>4, <1>5, <1>10, <2>1
  <2> HIDE DEF Same
  <2> QED BY <1>3, <1>5, <1>6, <1>7, <1>10, <2>2
<1> QED BY <1>8, <1>9, <1>10

LEMMA RolesNext == Inv /\ RolesByUploadOrder /\ [Next]_vars => RolesByUploadOrder'
<1> SUFFICES ASSUME Inv, RolesByUploadOrder, [Next]_vars PROVE RolesByUploadOrder'
  OBVIOUS
<1> USE DEF RolesByUploadOrder, RoleByUploads, Earlier, UploadedFirst
<1>1. ASSUME NEW d \in Docs, NEW S \in SUBSET Sources, Create(d, S) \/ AddSources(d, S)
      PROVE  RolesByUploadOrder'
  <2>1. /\ live' = live \union S /\ spent' = spent \union S /\ S \intersect spent = {}
        /\ hash' = hash /\ uniq' = uniq
    BY <1>1 DEF Create, AddSources, InsertRows
  <2>2. live \subseteq spent /\ \A t \in S : hash[t] = "none"
    BY <2>1 DEF Inv, TypeOK, FreshIsBlank
  <2>3. \A t \in Sources : {x \in live' : hash[x] = "real" /\ <<t, x>> \in Match}
                             = {x \in live : hash[x] = "real" /\ <<t, x>> \in Match}
    BY <2>1, <2>2
  <2>4. spent' = live' => spent = live
    BY <2>1, <2>2
  <2> SUFFICES ASSUME spent' = live', NEW t \in live', hash[t] = "real"
               PROVE  uniq[t] = RoleByUploads(t)'
    BY <2>1
  <2>5. t \in live /\ t \in Sources
    BY <2>1, <2>2 DEF Inv, TypeOK
  <2>6. uniq[t] = RoleByUploads(t)
    BY <2>4, <2>5
  <2> QED BY <2>1, <2>3, <2>5, <2>6
<1>2. ASSUME NEW d \in Docs, Reject(d) \/ Delete(d) PROVE RolesByUploadOrder'
  <2>1. live' = live \ SourcesOf(d) /\ UNCHANGED <<spent, hash, uniq>>
    BY <1>2 DEF Reject, Delete, RemoveRows
  <2>2. spent' = live' => live' = live
    BY <2>1 DEF Inv, TypeOK
  <2> QED BY <2>1, <2>2
<1>3. ASSUME NEW d \in Docs, Approve(d) PROVE RolesByUploadOrder'
  BY <1>3 DEF Approve
<1>4. CASE UNCHANGED vars
  BY <1>4 DEF vars
<1> QED BY <1>1, <1>2, <1>3, <1>4, FinalizeRoles DEF Next

\* While nothing has been removed, the roles are those the order of uploads implies, in
\* whatever order the workers fingerprinted the files (FinalizeFingerprint).
THEOREM RolesFollowUploads == Spec => []RolesByUploadOrder
BY Invariance, RolesInit, RolesNext, PTL DEF Spec
=============================================================================
