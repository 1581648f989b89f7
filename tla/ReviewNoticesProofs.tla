------------------------ MODULE ReviewNoticesProofs ------------------------
(* Machine-checked proofs about the notices of documents, for any number of   *)
(* workers, documents and files and any bound on faults.                      *)
EXTENDS ReviewNotices, CorpusProofs, FiniteSetTheorems

-----------------------------------------------------------------------------
(* The inductive invariant *)

\* The types, without what they say of locks.
Typed ==
    /\ todo \in [Workers -> SUBSET Docs] /\ news \in [Workers -> SUBSET Docs]
    /\ own \in [Workers -> Docs \union {Nobody}]
    /\ cur \in [Workers -> {NoDoc} \union
           [doc : Docs, status : Statuses, at : {"read", "lock", "locked", "insert", "owner"}]]
    /\ lock \in [Docs -> Workers \union {Nobody}]
    /\ unread \in [Docs -> Nat] /\ told \in [Docs -> [OwnerKinds -> Nat]]
    /\ asked \in [Docs -> BOOLEAN] /\ lost \subseteq Docs
    /\ faults \in 0..MaxFaults /\ rounds \in [Docs -> Nat]

\* The lock of a notice is held exactly between its grant and the end of its transaction.
InTransaction(w) == cur[w] # NoDoc /\ cur[w].at \in {"locked", "insert"}
LockHeld ==
    \A w \in Workers, d \in Docs : lock[d] = w <=> InTransaction(w) /\ cur[w].doc = d

\* What the check has found still holds when the notice is inserted.
NothingUnread == \A w \in Workers : At(w, "insert") => unread[cur[w].doc] = 0

\* A worker reads a document once for each transaction.
ReadOnce == \A w \in Workers : cur[w] # NoDoc => cur[w].doc \notin todo[w]

\* A worker that will ask, or is about to ask, the admins about its own document.
WillAsk(w, d) ==
    /\ own[w] = d
    /\ \/ d \in todo[w]
       \/ /\ cur[w] # NoDoc /\ cur[w].doc = d /\ cur[w].status = "pending_review"
          /\ cur[w].at \in {"read", "lock", "locked", "insert"}

HeldIsAsked ==
    \A d \in Docs :
        docStatus[d] = "pending_review" => asked[d] \/ d \in lost \/ \E w \in Workers : WillAsk(w, d)

\* Announcements that workers still have to make, made, and allowed by the mark.
Bearers(d) ==
    {w \in Workers : /\ d \in news[w]
                     /\ \/ d \in todo[w]
                        \/ cur[w] # NoDoc /\ cur[w].doc = d /\ cur[w].at = "read"}
OutcomesTold(d) == told[d]["duplicate"] + told[d]["processed"]
Unmarked(d) == IF notified[d] THEN 0 ELSE 1

NewsCounted ==
    \A d \in Docs : OutcomesTold(d) + Cardinality(Bearers(d)) + Unmarked(d) <= rounds[d]

NoticeInv ==
    /\ Inv
    /\ Typed
    /\ LockHeld
    /\ NothingUnread
    /\ OneNoticePerReview
    /\ ReadOnce
    /\ HeldIsAsked
    /\ NewsCounted

-----------------------------------------------------------------------------
(* The corpus *)

\* A step about notices is a step of the corpus, or leaves it alone.
LEMMA CorpusStep == NoticeNext => [Next]_vars
<1> SUFFICES ASSUME NoticeNext PROVE [Next]_vars
  OBVIOUS
<1>1. ASSUME NEW d \in Docs, NEW S \in SUBSET Sources, Upload(d, S) PROVE Next
  BY <1>1 DEF Upload, Next
<1>2. ASSUME NEW d \in Docs, Decide(d) \/ Remove(d) PROVE Next
  BY <1>2 DEF Decide, Remove, Next
<1>3. ASSUME NEW w \in Workers, NEW s \in Sources, NEW k \in {"real", "missing"},
             NEW ids \in Touchable(s, k), Fingerprint(w, s, k, ids)
      PROVE  Next
  BY <1>3 DEF Fingerprint, Next
<1>4. ASSUME \/ \E d \in Docs : MarkRead(d)
             \/ \E w \in Workers : WorkerStep(w) \/ NoticeFails(w) \/ GetFails(w) \/ Crash(w)
      PROVE  UNCHANGED vars
  BY <1>4 DEF MarkRead, WorkerStep, ReadDoc, Dispatch, LockNotice, FindUnread, InsertNotice,
              TellOwner, NoticeFails, GetFails, Crash
<1> QED BY <1>1, <1>2, <1>3, <1>4 DEF NoticeNext

\* A fingerprint puts no document on hold but that of its own file.
LEMMA OnlyOwnIsHeld ==
    ASSUME Inv, NEW s \in Sources, NEW k \in {"real", "missing"},
           NEW ids \in Touchable(s, k), Finalize(s, k, ids), NEW d \in Docs,
           docStatus'[d] = "pending_review", docStatus[d] # "pending_review"
    PROVE  d = DocOf[s] /\ d \in ids
<1>1. /\ d \in ids /\ Exists(d)
      /\ docStatus'[d] = StatusAfter(docStatus[d], SourcesOf(d), hash', uniq', released')
  BY DEF Finalize, ApplyFingerprint
<1>2. /\ docStatus[d] # "rejected"
      /\ ~HasUnhashed(SourcesOf(d), hash') /\ HasHeld(SourcesOf(d), uniq', released')
  BY <1>1 DEF StatusAfter
<1>3. CASE d # DocOf[s]
  <2>1. \A t \in SourcesOf(d) : t \in Sources /\ t # s
    BY <1>3 DEF SourcesOf, Inv, TypeOK
  <2>2. \A t \in SourcesOf(d) : hash'[t] = hash[t] /\ released'[t] = released[t]
    BY <2>1 DEF Finalize, ApplyFingerprint, ReleasedAfter, Inv, TypeOK
  <2>3. ~HasUnhashed(SourcesOf(d), hash) /\ HasHeld(SourcesOf(d), uniq, released)
    BY <1>2, <2>1, <2>2 DEF HasUnhashed, HasHeld, Inv, HeldIsDuplicate
  <2>4. docStatus[d] = StatusAfter("processing", SourcesOf(d), hash, uniq, released)
    BY <1>1, <1>2 DEF Inv, StatusDerived
  <2> QED BY <2>3, <2>4 DEF StatusAfter
<1> QED BY <1>1, <1>3

LEMMA TouchableAreDocs ==
    ASSUME TypeOK, NEW s \in Sources, NEW k, NEW ids \in Touchable(s, k)
    PROVE  ids \subseteq Docs /\ DocOf[s] \in ids /\ DocOf[s] \in Docs
<1>1. PICK T \in SUBSET Sources : ids = {DocOf[t] : t \in T \union {s}}
  <2> DEFINE found == IF k = "real" THEN Candidates(s) ELSE {}
             removed == IF k = "real"
                        THEN {t \in spent \ live : hash[t] = "real" /\ <<s, t>> \in Near}
                        ELSE {}
  <2>1. PICK more \in SUBSET removed : ids = {DocOf[t] : t \in found \union {s} \union more}
    BY DEF Touchable
  <2>2. found \union more \in SUBSET Sources
    BY DEF Candidates, TypeOK
  <2>3. found \union {s} \union more = (found \union more) \union {s}
    OBVIOUS
  <2> QED BY <2>1, <2>2, <2>3
<1>2. \A t \in Sources : DocOf[t] \in Docs
  BY CorpusAssumption
<1> QED BY <1>1, <1>2

-----------------------------------------------------------------------------
(* Every step preserves the invariant *)

LEMMA NoticeInitInv == NoticeInit => NoticeInv
<1> SUFFICES ASSUME NoticeInit PROVE NoticeInv
  OBVIOUS
<1>1. Inv
  BY InitInv DEF NoticeInit
<1>2. Typed /\ NothingUnread /\ OneNoticePerReview /\ ReadOnce
  BY NoticeAssumption
     DEF NoticeInit, Typed, At, NothingUnread, OneNoticePerReview, ReadOnce
<1>3. LockHeld
  BY NoticeAssumption DEF NoticeInit, LockHeld, InTransaction
<1>4. HeldIsAsked
  BY DEF NoticeInit, Init, HeldIsAsked
<1>5. NewsCounted
  <2> SUFFICES ASSUME NEW d \in Docs
               PROVE  OutcomesTold(d) + Cardinality(Bearers(d)) + Unmarked(d) <= rounds[d]
    BY DEF NewsCounted
  <2>1. Bearers(d) = {}
    BY DEF Bearers, NoticeInit
  <2>2. Cardinality(Bearers(d)) = 0
    BY <2>1, FS_EmptySet
  <2>3. OutcomesTold(d) = 0
    BY DEF OutcomesTold, NoticeInit, OwnerKinds, Outcomes
  <2>4. rounds[d] = 1 /\ Unmarked(d) = 1
    BY DEF NoticeInit, Init, Unmarked
  <2> QED BY <2>2, <2>3, <2>4
<1> QED BY <1>1, <1>2, <1>3, <1>4, <1>5 DEF NoticeInv

LEMMA Places ==
    ASSUME Typed, NEW w \in Workers, cur[w] # NoDoc
    PROVE  cur[w].doc \in Docs /\ cur[w].status \in Statuses /\ w # Nobody
BY NoticeAssumption DEF Typed

\* Where a worker goes, and that it stays a record.
LEMMA Moves ==
    ASSUME Typed, NEW w \in Workers, cur[w] # NoDoc,
           NEW place \in {"read", "lock", "locked", "insert", "owner"}, Goto(w, place)
    PROVE  /\ cur' \in [Workers -> {NoDoc} \union [doc : Docs, status : Statuses,
                         at : {"read", "lock", "locked", "insert", "owner"}]]
           /\ cur'[w] # NoDoc /\ cur'[w].doc = cur[w].doc /\ cur'[w].status = cur[w].status
           /\ cur'[w].at = place
           /\ \A v \in Workers \ {w} : cur'[v] = cur[v]
BY DEF Typed, Goto, NoDoc

LEMMA Leaves ==
    ASSUME Typed, NEW w \in Workers, Leave(w)
    PROVE  /\ cur' \in [Workers -> {NoDoc} \union [doc : Docs, status : Statuses,
                         at : {"read", "lock", "locked", "insert", "owner"}]]
           /\ cur'[w] = NoDoc
           /\ \A v \in Workers \ {w} : cur'[v] = cur[v]
BY DEF Typed, Leave

LEMMA Unlocks ==
    ASSUME Typed, NEW w \in Workers, Unlock(w)
    PROVE  /\ lock' \in [Docs -> Workers \union {Nobody}]
           /\ \A d \in Docs, v \in Workers : lock'[d] = v <=> lock[d] = v /\ v # w
BY NoticeAssumption DEF Typed, Unlock

LEMMA ReadingType ==
    ASSUME Inv, Typed, NEW w \in Workers, NEW d \in Docs, ReadDoc(w, d)
    PROVE  /\ cur[w] = NoDoc /\ d \in todo[w]
           /\ todo' = [todo EXCEPT ![w] = @ \ {d}]
           /\ IF Exists(d) THEN /\ cur'[w] # NoDoc /\ cur'[w].doc = d /\ cur'[w].at = "read"
                                /\ cur'[w].status = docStatus[d]
                           ELSE cur'[w] = NoDoc
           /\ \A v \in Workers \ {w} : cur'[v] = cur[v]
           /\ cur' \in [Workers -> {NoDoc} \union [doc : Docs, status : Statuses,
                         at : {"read", "lock", "locked", "insert", "owner"}]]
BY DEF ReadDoc, Typed, NoDoc, Exists

LEMMA TypedNext == Inv /\ Typed /\ NoticeNext => Typed'
<1> SUFFICES ASSUME Inv, Typed, NoticeNext PROVE Typed'
  OBVIOUS
<1>0. faults \in Nat /\ MaxFaults \in Nat
  BY NoticeAssumption DEF Typed
<1>f. Fault => faults' \in 0..MaxFaults
  BY <1>0 DEF Fault
<1>t. ASSUME NEW d \in Docs, NEW k \in OwnerKinds, Tell(d, k)
      PROVE  told' \in [Docs -> [OwnerKinds -> Nat]]
  <2>1. told[d] \in [OwnerKinds -> Nat] /\ told[d][k] + 1 \in Nat
    BY DEF Typed
  <2>2. [told[d] EXCEPT ![k] = @ + 1] \in [OwnerKinds -> Nat]
    BY <2>1
  <2> QED BY <1>t, <2>2 DEF Tell, Typed
<1>1. ASSUME NEW d \in Docs, NEW S \in SUBSET Sources, Upload(d, S) PROVE Typed'
  BY <1>1 DEF Upload, Reopened, Typed, worker, notices
<1>2. ASSUME NEW d \in Docs, Decide(d) PROVE Typed'
  <2>1. told' \in [Docs -> [OwnerKinds -> Nat]] /\ faults' \in 0..MaxFaults
    BY <1>2, <1>f, <1>t DEF Decide, TellOrFail, OwnerKinds, Typed
  <2>2. rounds' \in [Docs -> Nat]
    BY <1>2 DEF Decide, Reopened, Typed
  <2> QED BY <1>2, <2>1, <2>2 DEF Decide, Typed, worker
<1>3. ASSUME NEW d \in Docs, Remove(d) \/ MarkRead(d) PROVE Typed'
  BY <1>3 DEF Remove, MarkRead, Typed, worker
<1>4. ASSUME NEW w \in Workers, NEW s \in Sources, NEW k \in {"real", "missing"},
             NEW ids \in Touchable(s, k), Fingerprint(w, s, k, ids)
      PROVE  Typed'
  <2>1. ids \subseteq Docs /\ DocOf[s] \in Docs /\ NewsOf(ids) \subseteq Docs
    BY TouchableAreDocs DEF NewsOf, Inv
  <2> QED BY <1>4, <2>1 DEF Fingerprint, Typed
<1>5. ASSUME NEW w \in Workers, NEW d \in Docs, ReadDoc(w, d) PROVE Typed'
  BY <1>5, ReadingType DEF ReadDoc, Typed, notices
<1>6. ASSUME NEW w \in Workers, Dispatch(w) PROVE Typed'
  <2>1. cur[w].doc \in Docs /\ cur[w] # NoDoc
    BY <1>6, Places DEF Dispatch, At
  <2>2. CASE Goto(w, "lock") /\ UNCHANGED <<told, faults, lost>>
    BY <1>6, <2>1, <2>2, Moves DEF Dispatch, Typed
  <2>3. CASE Leave(w) /\ Tell(cur[w].doc, OutcomeOf(cur[w].status)) /\ UNCHANGED <<faults, lost>>
    <3>1. told' \in [Docs -> [OwnerKinds -> Nat]]
      BY <1>t, <2>1, <2>3 DEF OutcomeOf, OwnerKinds, Outcomes
    <3> QED BY <1>6, <2>3, <3>1, Leaves DEF Dispatch, Typed
  <2>4. CASE Leave(w) /\ Fault /\ lost' = lost \union {cur[w].doc} /\ UNCHANGED told
    BY <1>6, <1>f, <2>1, <2>4, Leaves DEF Dispatch, Typed
  <2>5. CASE Leave(w) /\ UNCHANGED <<told, faults, lost>>
    BY <1>6, <2>5, Leaves DEF Dispatch, Typed
  <2> QED BY <1>6, <2>2, <2>3, <2>4, <2>5 DEF Dispatch
<1>7. ASSUME NEW w \in Workers, LockNotice(w) \/ FindUnread(w) PROVE Typed'
  <2>1. cur[w].doc \in Docs /\ cur[w] # NoDoc
    BY <1>7, Places DEF LockNotice, FindUnread, At
  <2>2. cur' \in [Workers -> {NoDoc} \union [doc : Docs, status : Statuses,
                     at : {"read", "lock", "locked", "insert", "owner"}]]
    BY <1>7, <2>1, Moves DEF LockNotice, FindUnread
  <2>3. lock' \in [Docs -> Workers \union {Nobody}]
    BY <1>7, Unlocks DEF LockNotice, FindUnread, Typed
  <2>4. asked' \in [Docs -> BOOLEAN]
    BY <1>7, <2>1 DEF LockNotice, FindUnread, Typed, notices
  <2> QED BY <1>7, <2>2, <2>3, <2>4 DEF LockNotice, FindUnread, Typed, notices
<1>8. ASSUME NEW w \in Workers, InsertNotice(w) \/ NoticeFails(w) PROVE Typed'
  <2>1. cur[w].doc \in Docs /\ cur[w] # NoDoc
    BY <1>8, Places DEF InsertNotice, NoticeFails, At
  <2>2. cur' \in [Workers -> {NoDoc} \union [doc : Docs, status : Statuses,
                     at : {"read", "lock", "locked", "insert", "owner"}]]
    BY <1>8, <2>1, Moves DEF InsertNotice, NoticeFails
  <2>3. lock' \in [Docs -> Workers \union {Nobody}]
    BY <1>8, Unlocks DEF InsertNotice, NoticeFails
  <2>4. CASE InsertNotice(w)
    <3>1. unread' \in [Docs -> Nat] /\ asked' \in [Docs -> BOOLEAN]
      <4>1. CASE Exists(cur[w].doc)
        <5>1. unread' = [unread EXCEPT ![cur[w].doc] = @ + 1]
              /\ asked' = [asked EXCEPT ![cur[w].doc] = TRUE]
          BY <2>4, <4>1 DEF InsertNotice
        <5>2. unread' \in [Docs -> Nat]
          BY <2>1, <5>1 DEF Typed
        <5>3. asked' \in [Docs -> BOOLEAN]
          BY <5>1 DEF Typed
        <5> QED BY <5>2, <5>3
      <4>2. CASE ~Exists(cur[w].doc)
        BY <2>4, <4>2 DEF InsertNotice, Typed
      <4> QED BY <4>1, <4>2
    <3> QED BY <2>2, <2>3, <2>4, <3>1 DEF InsertNotice, Typed
  <2>5. CASE NoticeFails(w)
    BY <1>f, <2>1, <2>2, <2>3, <2>5 DEF NoticeFails, Typed
  <2> QED BY <1>8, <2>4, <2>5
<1>9. ASSUME NEW w \in Workers, TellOwner(w) PROVE Typed'
  <2>1. told' \in [Docs -> [OwnerKinds -> Nat]] /\ faults' \in 0..MaxFaults
    BY <1>9, <1>f, <1>t, Places DEF TellOwner, TellOrFail, OwnerKinds, Typed, At
  <2> QED BY <1>9, <2>1, Leaves DEF TellOwner, Typed
<1>10. ASSUME NEW w \in Workers, GetFails(w) \/ Crash(w) PROVE Typed'
  <2>1. lost' \subseteq Docs /\ faults' \in 0..MaxFaults /\ todo' \in [Workers -> SUBSET Docs]
    BY <1>10, <1>f DEF GetFails, Crash, Interrupted, Typed
  <2> QED BY <1>10, <2>1, Leaves, Unlocks DEF GetFails, Crash, Typed
<1> QED BY <1>1, <1>2, <1>3, <1>4, <1>5, <1>6, <1>7, <1>8, <1>9, <1>10
        DEF NoticeNext, WorkerStep

-----------------------------------------------------------------------------
(* One unread notice *)

\* The lock follows its holder in each of the three ways a step of a worker moves it.
LEMMA LockFollows ==
    ASSUME Typed, LockHeld, NEW w \in Workers, \A v \in Workers \ {w} : cur'[v] = cur[v],
           \/ /\ UNCHANGED lock /\ (InTransaction(w)' <=> InTransaction(w))
              /\ InTransaction(w) => cur'[w].doc = cur[w].doc
           \/ Unlock(w) /\ ~InTransaction(w)'
           \/ /\ cur[w] # NoDoc /\ cur[w].doc \in Docs /\ ~InTransaction(w) /\ InTransaction(w)'
              /\ cur'[w].doc = cur[w].doc
              /\ lock[cur[w].doc] = Nobody /\ lock' = [lock EXCEPT ![cur[w].doc] = w]
    PROVE  LockHeld'
<1> SUFFICES ASSUME NEW v \in Workers, NEW d \in Docs
             PROVE  lock'[d] = v <=> InTransaction(v)' /\ cur'[v].doc = d
  BY DEF LockHeld
<1>1. lock[d] = v <=> InTransaction(v) /\ cur[v].doc = d
  BY DEF LockHeld
<1>2. v # w => (InTransaction(v)' <=> InTransaction(v)) /\ cur'[v] = cur[v]
  BY DEF InTransaction
<1>3. CASE /\ UNCHANGED lock /\ (InTransaction(w)' <=> InTransaction(w))
           /\ InTransaction(w) => cur'[w].doc = cur[w].doc
  BY <1>1, <1>2, <1>3
<1>4. CASE Unlock(w) /\ ~InTransaction(w)'
  <2>1. lock'[d] = v <=> lock[d] = v /\ v # w
    BY <1>4, Unlocks
  <2> QED BY <1>1, <1>2, <1>4, <2>1
<1>5. CASE /\ cur[w] # NoDoc /\ cur[w].doc \in Docs /\ ~InTransaction(w) /\ InTransaction(w)'
           /\ cur'[w].doc = cur[w].doc
           /\ lock[cur[w].doc] = Nobody /\ lock' = [lock EXCEPT ![cur[w].doc] = w]
  <2>1. lock'[d] = IF d = cur[w].doc THEN w ELSE lock[d]
    BY <1>5 DEF Typed
  <2>2. v # Nobody
    BY NoticeAssumption
  <2> QED BY <1>1, <1>2, <1>5, <2>1, <2>2
<1> QED BY <1>3, <1>4, <1>5

LEMMA LockNext == Inv /\ Typed /\ LockHeld /\ NoticeNext => LockHeld'
<1> SUFFICES ASSUME Inv, Typed, LockHeld, NoticeNext PROVE LockHeld'
  OBVIOUS
<1>1. ASSUME UNCHANGED <<cur, lock>> PROVE LockHeld'
  BY <1>1 DEF LockHeld, InTransaction
<1>2. CASE \/ \E d \in Docs : \/ \E S \in SUBSET Sources : Upload(d, S)
                              \/ Decide(d) \/ Remove(d) \/ MarkRead(d)
           \/ \E w \in Workers : \/ \E s \in Sources, k \in {"real", "missing"} :
                                        \E ids \in Touchable(s, k) : Fingerprint(w, s, k, ids)
                                 \/ GetFails(w)
  BY <1>1, <1>2 DEF Upload, Decide, Remove, MarkRead, Fingerprint, GetFails, worker
<1>3. ASSUME NEW w \in Workers, NEW d \in Docs, ReadDoc(w, d) PROVE LockHeld'
  <2>1. UNCHANGED lock /\ ~InTransaction(w) /\ ~InTransaction(w)'
        /\ \A v \in Workers \ {w} : cur'[v] = cur[v]
    BY <1>3, ReadingType DEF ReadDoc, InTransaction
  <2> QED BY <2>1, LockFollows
<1>4. ASSUME NEW w \in Workers, Dispatch(w) PROVE LockHeld'
  <2>1. UNCHANGED lock /\ ~InTransaction(w) /\ ~InTransaction(w)'
        /\ \A v \in Workers \ {w} : cur'[v] = cur[v]
    BY <1>4, Moves, Leaves DEF Dispatch, InTransaction, At
  <2> QED BY <2>1, LockFollows
<1>5. ASSUME NEW w \in Workers, LockNotice(w) PROVE LockHeld'
  <2>1. /\ cur[w] # NoDoc /\ cur[w].doc \in Docs /\ ~InTransaction(w) /\ InTransaction(w)'
        /\ cur'[w].doc = cur[w].doc
        /\ lock[cur[w].doc] = Nobody /\ lock' = [lock EXCEPT ![cur[w].doc] = w]
        /\ \A v \in Workers \ {w} : cur'[v] = cur[v]
    BY <1>5, Moves, Places DEF LockNotice, InTransaction, At
  <2> QED BY <2>1, LockFollows
<1>6. ASSUME NEW w \in Workers, FindUnread(w) PROVE LockHeld'
  <2>1. CASE Goto(w, "insert") /\ UNCHANGED lock
    <3>1. InTransaction(w) /\ InTransaction(w)' /\ cur'[w].doc = cur[w].doc
          /\ \A v \in Workers \ {w} : cur'[v] = cur[v]
      BY <1>6, <2>1, Moves DEF FindUnread, InTransaction, At
    <3> QED BY <2>1, <3>1, LockFollows
  <2>2. CASE Goto(w, "owner") /\ Unlock(w)
    <3>1. ~InTransaction(w)' /\ \A v \in Workers \ {w} : cur'[v] = cur[v]
      BY <1>6, <2>2, Moves DEF FindUnread, InTransaction, At
    <3> QED BY <2>2, <3>1, LockFollows
  <2> QED BY <1>6, <2>1, <2>2 DEF FindUnread
<1>7. ASSUME NEW w \in Workers, InsertNotice(w) \/ NoticeFails(w) PROVE LockHeld'
  <2>1. Unlock(w) /\ ~InTransaction(w)' /\ \A v \in Workers \ {w} : cur'[v] = cur[v]
    BY <1>7, Moves DEF InsertNotice, NoticeFails, InTransaction, At
  <2> QED BY <2>1, LockFollows
<1>8. ASSUME NEW w \in Workers, TellOwner(w) PROVE LockHeld'
  <2>1. UNCHANGED lock /\ ~InTransaction(w) /\ ~InTransaction(w)'
        /\ \A v \in Workers \ {w} : cur'[v] = cur[v]
    BY <1>8, Leaves DEF TellOwner, InTransaction, At
  <2> QED BY <2>1, LockFollows
<1>9. ASSUME NEW w \in Workers, Crash(w) PROVE LockHeld'
  <2>1. Unlock(w) /\ ~InTransaction(w)' /\ \A v \in Workers \ {w} : cur'[v] = cur[v]
    BY <1>9, Leaves DEF Crash, InTransaction
  <2> QED BY <2>1, LockFollows
<1> QED BY <1>2, <1>3, <1>4, <1>5, <1>6, <1>7, <1>8, <1>9 DEF NoticeNext, WorkerStep

LEMMA UnreadNext ==
    Inv /\ Typed /\ LockHeld /\ NothingUnread /\ OneNoticePerReview /\ NoticeNext
        => NothingUnread' /\ OneNoticePerReview'
<1> SUFFICES ASSUME Inv, Typed, LockHeld, NothingUnread, OneNoticePerReview, NoticeNext
             PROVE  NothingUnread' /\ OneNoticePerReview'
  OBVIOUS
<1>1. ASSUME \A d \in Docs : unread'[d] \in Nat /\ unread'[d] <= unread[d],
             \A v \in Workers : At(v, "insert")' =>
                 /\ At(v, "insert") \/ unread[cur'[v].doc] = 0
                 /\ cur'[v].doc \in Docs
                 /\ At(v, "insert") => cur'[v].doc = cur[v].doc
      PROVE  NothingUnread' /\ OneNoticePerReview'
  <2>1. \A d \in Docs : unread[d] \in Nat
    BY DEF Typed
  <2> QED BY <1>1, <2>1 DEF NothingUnread, OneNoticePerReview
<1>2. \A v \in Workers : At(v, "insert") => cur[v].doc \in Docs
  BY Places DEF At
<1>3. \A d \in Docs : unread[d] \in Nat /\ unread[d] <= unread[d]
  BY DEF Typed
<1>4. CASE \/ \E d \in Docs : (\E S \in SUBSET Sources : Upload(d, S)) \/ Decide(d)
           \/ \E w \in Workers : \/ \E s \in Sources, k \in {"real", "missing"} :
                                        \E ids \in Touchable(s, k) : Fingerprint(w, s, k, ids)
                                 \/ GetFails(w)
  <2>1. UNCHANGED <<cur, unread>>
    BY <1>4 DEF Upload, Decide, Fingerprint, GetFails, worker, notices
  <2> QED BY <2>1, <1>1, <1>2, <1>3 DEF At
<1>5. ASSUME NEW d \in Docs, Remove(d) \/ MarkRead(d) PROVE NothingUnread' /\ OneNoticePerReview'
  <2>1. UNCHANGED cur /\ \A e \in Docs : unread'[e] \in Nat /\ unread'[e] <= unread[e]
    BY <1>3, <1>5 DEF Remove, MarkRead, worker, Typed
  <2> QED BY <2>1, <1>1, <1>2 DEF At
<1>6. ASSUME NEW w \in Workers, NEW d \in Docs, ReadDoc(w, d)
      PROVE  NothingUnread' /\ OneNoticePerReview'
  <2>1. UNCHANGED unread /\ ~At(w, "insert")' /\ \A v \in Workers \ {w} : cur'[v] = cur[v]
    BY <1>6, ReadingType DEF ReadDoc, At, notices
  <2> QED BY <2>1, <1>1, <1>2, <1>3 DEF At
<1>7. ASSUME NEW w \in Workers,
             Dispatch(w) \/ LockNotice(w) \/ NoticeFails(w) \/ TellOwner(w) \/ Crash(w)
      PROVE  NothingUnread' /\ OneNoticePerReview'
  <2>1. UNCHANGED unread /\ ~At(w, "insert")' /\ \A v \in Workers \ {w} : cur'[v] = cur[v]
    BY <1>7, Moves, Leaves
       DEF Dispatch, LockNotice, NoticeFails, TellOwner, Crash, At, notices
  <2> QED BY <2>1, <1>1, <1>2, <1>3 DEF At
<1>8. ASSUME NEW w \in Workers, FindUnread(w) PROVE NothingUnread' /\ OneNoticePerReview'
  <2>1. /\ UNCHANGED unread /\ \A v \in Workers \ {w} : cur'[v] = cur[v]
        /\ At(w, "insert")' => unread[cur'[w].doc] = 0 /\ cur'[w].doc \in Docs
        /\ ~At(w, "insert")
    BY <1>8, Moves, Places DEF FindUnread, At
  <2> QED BY <2>1, <1>1, <1>2, <1>3 DEF At
<1>9. ASSUME NEW w \in Workers, InsertNotice(w) PROVE NothingUnread' /\ OneNoticePerReview'
  <2>1. /\ ~At(w, "insert")' /\ \A v \in Workers \ {w} : cur'[v] = cur[v]
        /\ At(w, "insert") /\ cur[w].doc \in Docs
    BY <1>9, Moves, Places DEF InsertNotice, At
  <2>2. unread[cur[w].doc] = 0
    BY <2>1 DEF NothingUnread
  <2>3. \A d \in Docs : unread'[d] = unread[d] \/ (d = cur[w].doc /\ unread'[d] = 1)
    <3>1. \/ unread' = [unread EXCEPT ![cur[w].doc] = @ + 1]
          \/ unread' = unread
      BY <1>9 DEF InsertNotice
    <3>2. unread \in [Docs -> Nat] /\ cur[w].doc \in Docs
      BY <2>1 DEF Typed
    <3>3. CASE unread' = [unread EXCEPT ![cur[w].doc] = @ + 1]
      BY <2>2, <3>2, <3>3
    <3> QED BY <3>1, <3>3
  <2>4. OneNoticePerReview'
    BY <2>3 DEF OneNoticePerReview
  <2>5. ASSUME NEW v \in Workers, At(v, "insert")' PROVE unread'[cur'[v].doc] = 0
    <3>1. v # w /\ cur'[v] = cur[v] /\ At(v, "insert")
      BY <2>1, <2>5 DEF At
    <3>2. InTransaction(v) /\ InTransaction(w)
      BY <2>1, <3>1 DEF InTransaction, At
    <3>3. cur[v].doc \in Docs /\ cur[v].doc # cur[w].doc
      BY <1>2, <2>1, <3>1, <3>2 DEF LockHeld
    <3> QED BY <2>3, <3>1, <3>3 DEF NothingUnread
  <2> QED BY <2>4, <2>5 DEF NothingUnread
<1> QED BY <1>4, <1>5, <1>6, <1>7, <1>8, <1>9 DEF NoticeNext, WorkerStep

-----------------------------------------------------------------------------
(* Nobody forgets to ask *)

LEMMA ReadOnceNext == Inv /\ Typed /\ ReadOnce /\ NoticeNext => ReadOnce'
<1> SUFFICES ASSUME Inv, Typed, ReadOnce, NoticeNext PROVE ReadOnce'
  OBVIOUS
<1>1. ASSUME \A v \in Workers : cur'[v] # NoDoc =>
                 cur[v] # NoDoc /\ cur'[v].doc = cur[v].doc /\ todo'[v] \subseteq todo[v]
      PROVE  ReadOnce'
  BY <1>1 DEF ReadOnce
<1>2. CASE \E d \in Docs : \/ \E S \in SUBSET Sources : Upload(d, S)
                           \/ Decide(d) \/ Remove(d) \/ MarkRead(d)
  BY <1>1, <1>2 DEF Upload, Decide, Remove, MarkRead, worker
<1>3. ASSUME NEW w \in Workers, NEW s \in Sources, NEW k \in {"real", "missing"},
             NEW ids \in Touchable(s, k), Fingerprint(w, s, k, ids)
      PROVE  ReadOnce'
  <2>1. UNCHANGED cur /\ cur[w] = NoDoc /\ \A v \in Workers \ {w} : todo'[v] = todo[v]
    BY <1>3 DEF Fingerprint, Idle, Typed
  <2> QED BY <1>1, <2>1
<1>4. ASSUME NEW w \in Workers, NEW d \in Docs, ReadDoc(w, d) PROVE ReadOnce'
  <2>1. /\ \A v \in Workers \ {w} : cur'[v] = cur[v] /\ todo'[v] = todo[v]
        /\ cur'[w] # NoDoc => cur'[w].doc = d
        /\ d \notin todo'[w]
    BY <1>4, ReadingType DEF Typed
  <2> QED BY <2>1 DEF ReadOnce
<1>5. ASSUME NEW w \in Workers, \/ Dispatch(w) \/ LockNotice(w) \/ FindUnread(w)
                                \/ InsertNotice(w) \/ TellOwner(w) \/ NoticeFails(w)
      PROVE  ReadOnce'
  <2>1. /\ UNCHANGED todo /\ \A v \in Workers \ {w} : cur'[v] = cur[v]
        /\ cur[w] # NoDoc /\ (cur'[w] # NoDoc => cur'[w].doc = cur[w].doc)
    BY <1>5, Moves, Leaves
       DEF Dispatch, LockNotice, FindUnread, InsertNotice, TellOwner, NoticeFails, At
  <2> QED BY <1>1, <2>1
<1>6. ASSUME NEW w \in Workers, GetFails(w) \/ Crash(w) PROVE ReadOnce'
  <2>1. /\ \A v \in Workers \ {w} : cur'[v] = cur[v] /\ todo'[v] = todo[v]
        /\ cur'[w] = NoDoc
    BY <1>6, Leaves DEF GetFails, Crash, Typed
  <2> QED BY <1>1, <2>1
<1> QED BY <1>2, <1>3, <1>4, <1>5, <1>6 DEF NoticeNext, WorkerStep

LEMMA AskedNext == Inv /\ Typed /\ HeldIsAsked /\ NoticeNext => HeldIsAsked'
<1> SUFFICES ASSUME Inv, Typed, HeldIsAsked, NoticeNext PROVE HeldIsAsked'
  OBVIOUS
<1>1. ASSUME NEW d \in Docs, docStatus[d] = "pending_review"
      PROVE  asked[d] \/ d \in lost \/ \E w \in Workers : WillAsk(w, d)
  BY <1>1 DEF HeldIsAsked
\* A step of a worker keeps what others will ask; its own part is shown for each step.
<1>2. ASSUME NEW w \in Workers, UNCHANGED <<vars, own>>,
             \A v \in Workers \ {w} : cur'[v] = cur[v] /\ todo'[v] = todo[v],
             \A d \in Docs : asked[d] => asked'[d], lost \subseteq lost',
             \A d \in Docs : docStatus[d] = "pending_review" /\ WillAsk(w, d) =>
                 asked'[d] \/ d \in lost' \/ WillAsk(w, d)'
      PROVE  HeldIsAsked'
  <2> SUFFICES ASSUME NEW d \in Docs, docStatus[d] = "pending_review"
               PROVE  asked'[d] \/ d \in lost' \/ \E v \in Workers : WillAsk(v, d)'
    BY <1>2 DEF HeldIsAsked, vars
  <2>1. \A v \in Workers \ {w} : WillAsk(v, d) => WillAsk(v, d)'
    BY <1>2 DEF WillAsk
  <2> QED BY <1>1, <1>2, <2>1
<1>3. ASSUME UNCHANGED <<worker, asked, lost>>,
             \A d \in Docs : docStatus'[d] = "pending_review" => docStatus[d] = "pending_review"
      PROVE  HeldIsAsked'
  <2>1. \A d \in Docs, w \in Workers : WillAsk(w, d) => WillAsk(w, d)'
    BY <1>3 DEF WillAsk, worker
  <2> QED BY <1>1, <1>3, <2>1 DEF HeldIsAsked
<1>4. ASSUME NEW d \in Docs, \/ \E S \in SUBSET Sources : Upload(d, S)
                             \/ Decide(d) \/ Remove(d) \/ MarkRead(d)
      PROVE  HeldIsAsked'
  <2>1. UNCHANGED <<worker, asked, lost>>
    BY <1>4 DEF Upload, Decide, Remove, MarkRead, notices
  <2>2. \A e \in Docs : docStatus'[e] = "pending_review" => docStatus[e] = "pending_review"
    BY <1>4 DEF Upload, Decide, Remove, MarkRead, Create, AddSources, Approve, Reject, Delete,
                Inv, TypeOK, vars
  <2> QED BY <1>3, <2>1, <2>2
<1>5. ASSUME NEW w \in Workers, NEW s \in Sources, NEW k \in {"real", "missing"},
             NEW ids \in Touchable(s, k), Fingerprint(w, s, k, ids)
      PROVE  HeldIsAsked'
  <2> SUFFICES ASSUME NEW d \in Docs, docStatus'[d] = "pending_review"
               PROVE  asked'[d] \/ d \in lost' \/ \E v \in Workers : WillAsk(v, d)'
    BY DEF HeldIsAsked
  <2>1. /\ todo'[w] = ids /\ own'[w] = DocOf[s] /\ UNCHANGED cur
        /\ \A v \in Workers \ {w} : todo'[v] = todo[v] /\ own'[v] = own[v]
    BY <1>5 DEF Fingerprint, Typed
  <2>2. ~WillAsk(w, d)
    BY <1>5 DEF Fingerprint, Idle, WillAsk
  <2>3. CASE docStatus[d] = "pending_review"
    <3>1. (asked[d] => asked'[d]) /\ (d \in lost => d \in lost')
      BY <1>5, <2>3 DEF Fingerprint
    <3>2. \A v \in Workers : WillAsk(v, d) => WillAsk(v, d)'
      BY <2>1, <2>2 DEF WillAsk
    <3> QED BY <1>1, <2>3, <3>1, <3>2
  <2>4. CASE docStatus[d] # "pending_review"
    <3>1. d = DocOf[s] /\ d \in ids
      BY <1>5, <2>4, OnlyOwnIsHeld DEF Fingerprint
    <3> QED BY <2>1, <3>1 DEF WillAsk
  <2> QED BY <2>3, <2>4
<1>6. ASSUME NEW w \in Workers, NEW e \in Docs, ReadDoc(w, e) PROVE HeldIsAsked'
  <2>1. /\ \A v \in Workers \ {w} : cur'[v] = cur[v] /\ todo'[v] = todo[v]
        /\ todo'[w] = todo[w] \ {e} /\ cur[w] = NoDoc
        /\ Exists(e) => /\ cur'[w] # NoDoc /\ cur'[w].doc = e /\ cur'[w].at = "read"
                        /\ cur'[w].status = docStatus[e]
        /\ UNCHANGED <<vars, own, asked, lost>>
    BY <1>6, ReadingType DEF ReadDoc, Typed, notices
  <2>2. ASSUME NEW d \in Docs, docStatus[d] = "pending_review", WillAsk(w, d)
        PROVE  WillAsk(w, d)'
    <3>1. Exists(d)
      BY <2>2 DEF Exists, Statuses
    <3> QED BY <2>1, <2>2, <3>1 DEF WillAsk
  <2> QED BY <1>2, <2>1, <2>2
<1>7. ASSUME NEW w \in Workers, Dispatch(w) PROVE HeldIsAsked'
  <2>1. \A v \in Workers \ {w} : cur'[v] = cur[v]
    BY <1>7, Moves, Leaves DEF Dispatch, At
  <2>2. UNCHANGED <<vars, own, todo, asked>> /\ lost \subseteq lost'
    BY <1>7 DEF Dispatch
  <2>3. ASSUME NEW d \in Docs, WillAsk(w, d) PROVE WillAsk(w, d)'
    <3>1. CASE d \in todo[w]
      BY <2>2, <2>3, <3>1 DEF WillAsk
    <3>2. CASE d \notin todo[w]
      <4>1. cur[w] # NoDoc /\ cur[w].doc = d /\ NeedsReview(w)
        BY <2>3, <3>2 DEF WillAsk, NeedsReview
      <4>2. cur'[w] # NoDoc /\ cur'[w].doc = d /\ cur'[w].status = cur[w].status
            /\ cur'[w].at = "lock"
        BY <1>7, <4>1, Moves DEF Dispatch
      <4> QED BY <2>2, <2>3, <3>2, <4>2 DEF WillAsk
    <3> QED BY <3>1, <3>2
  <2> QED BY <1>2, <2>1, <2>2, <2>3
<1>8. ASSUME NEW w \in Workers, LockNotice(w) \/ FindUnread(w) PROVE HeldIsAsked'
  <2>1. /\ cur[w] # NoDoc /\ cur[w].doc \in Docs /\ UNCHANGED <<vars, own, todo, lost>>
        /\ \A v \in Workers \ {w} : cur'[v] = cur[v]
    BY <1>8, Moves, Places DEF LockNotice, FindUnread, At, notices
  <2>2. CASE (Goto(w, "locked") \/ Goto(w, "insert")) /\ UNCHANGED asked
    <3>1. cur'[w] # NoDoc /\ cur'[w].doc = cur[w].doc /\ cur'[w].status = cur[w].status
          /\ cur'[w].at \in {"locked", "insert"}
      BY <2>1, <2>2, Moves
    <3>2. \A d \in Docs : WillAsk(w, d) => WillAsk(w, d)'
      BY <2>1, <3>1 DEF WillAsk
    <3> QED BY <1>2, <2>1, <2>2, <3>2
  <2>3. CASE asked' = [asked EXCEPT ![cur[w].doc] = TRUE]
    <3>1. \A d \in Docs : (asked[d] => asked'[d]) /\ asked'[cur[w].doc]
      BY <2>1, <2>3 DEF Typed
    <3>2. \A d \in Docs : WillAsk(w, d) => asked'[d] \/ WillAsk(w, d)'
      BY <2>1, <3>1 DEF WillAsk
    <3> QED BY <1>2, <2>1, <3>1, <3>2
  <2> QED BY <1>8, <2>2, <2>3 DEF LockNotice, FindUnread, notices
<1>9. ASSUME NEW w \in Workers, InsertNotice(w) PROVE HeldIsAsked'
  <2>1. /\ cur[w] # NoDoc /\ cur[w].doc \in Docs /\ UNCHANGED <<vars, own, todo, lost>>
        /\ \A v \in Workers \ {w} : cur'[v] = cur[v]
    BY <1>9, Moves, Places DEF InsertNotice, At
  <2>2. /\ \A d \in Docs : asked[d] => asked'[d]
        /\ Exists(cur[w].doc) => asked'[cur[w].doc]
    <3>1. IF Exists(cur[w].doc) THEN asked' = [asked EXCEPT ![cur[w].doc] = TRUE]
                                ELSE asked' = asked
      BY <1>9 DEF InsertNotice
    <3> QED BY <2>1, <3>1 DEF Typed
  <2>3. \A d \in Docs : docStatus[d] = "pending_review" /\ WillAsk(w, d) =>
            asked'[d] \/ WillAsk(w, d)'
    BY <2>1, <2>2 DEF WillAsk, Exists, Statuses
  <2> QED BY <1>2, <2>1, <2>2, <2>3
<1>10. ASSUME NEW w \in Workers, NoticeFails(w) \/ TellOwner(w) PROVE HeldIsAsked'
  <2>1. /\ cur[w] # NoDoc /\ UNCHANGED <<vars, own, todo, asked>> /\ lost \subseteq lost'
        /\ \A v \in Workers \ {w} : cur'[v] = cur[v]
        /\ cur[w].doc \in lost' \/ cur[w].at = "owner"
    BY <1>10, Moves, Leaves DEF NoticeFails, TellOwner, At
  <2>2. \A d \in Docs : WillAsk(w, d) => d \in lost' \/ WillAsk(w, d)'
    BY <2>1 DEF WillAsk
  <2> QED BY <1>2, <2>1, <2>2
<1>11. ASSUME NEW w \in Workers, GetFails(w) \/ Crash(w) PROVE HeldIsAsked'
  <2>1. /\ UNCHANGED <<vars, own, asked>> /\ lost' = lost \union Interrupted(w)
        /\ \A v \in Workers \ {w} : cur'[v] = cur[v] /\ todo'[v] = todo[v]
    BY <1>11, Leaves DEF GetFails, Crash, Typed
  <2>2. \A d \in Docs : WillAsk(w, d) => d \in lost'
    BY <2>1 DEF WillAsk, Interrupted, Concerns
  <2> QED BY <1>2, <2>1, <2>2
<1> QED BY <1>4, <1>5, <1>6, <1>7, <1>8, <1>9, <1>10, <1>11 DEF NoticeNext, WorkerStep

-----------------------------------------------------------------------------
(* Outcomes are counted *)

LEMMA Counts ==
    ASSUME Typed, NEW d \in Docs
    PROVE  /\ IsFiniteSet(Bearers(d)) /\ Cardinality(Bearers(d)) \in Nat
           /\ OutcomesTold(d) \in Nat /\ rounds[d] \in Nat /\ Unmarked(d) \in {0, 1}
<1>1. IsFiniteSet(Bearers(d)) /\ Cardinality(Bearers(d)) \in Nat
  BY NoticeAssumption, FS_Subset, FS_CardinalityType DEF Bearers
<1>2. OutcomesTold(d) \in Nat
  BY DEF Typed, OutcomesTold, OwnerKinds, Outcomes
<1> QED BY <1>1, <1>2 DEF Typed, Unmarked

\* Steps that announce no outcome and find none: a mark that is taken away opens a round.
LEMMA NoNews ==
    ASSUME Typed, Typed', NewsCounted, NEW d \in Docs,
           Bearers(d)' \subseteq Bearers(d), OutcomesTold(d)' = OutcomesTold(d),
           rounds'[d] >= rounds[d], notified'[d] # notified[d] => notified'[d] \/ rounds'[d] > rounds[d]
    PROVE  OutcomesTold(d)' + Cardinality(Bearers(d)') + Unmarked(d)' <= rounds'[d]
<1> DEFINE B == Bearers(d)
           C == Bearers(d)'
<1>1. Cardinality(C) <= Cardinality(B) /\ Cardinality(C) \in Nat /\ Cardinality(B) \in Nat
  <2>1. IsFiniteSet(B) /\ Cardinality(B) \in Nat
    BY Counts
  <2>2. C \in SUBSET B
    OBVIOUS
  <2> HIDE DEF B, C
  <2> QED BY <2>1, <2>2, FS_Subset, FS_CardinalityType
<1>2. /\ OutcomesTold(d) + Cardinality(B) + Unmarked(d) <= rounds[d]
      /\ OutcomesTold(d) \in Nat /\ rounds[d] \in Nat /\ rounds'[d] \in Nat
      /\ Unmarked(d) \in {0, 1}
  BY Counts DEF NewsCounted, Typed
<1>3. Unmarked(d)' \in {0, 1} /\ (Unmarked(d)' <= Unmarked(d) \/ rounds'[d] > rounds[d])
  BY DEF Unmarked
<1> HIDE DEF B, C
<1>4. OutcomesTold(d) + Cardinality(C) + Unmarked(d)' <= rounds'[d]
  BY <1>1, <1>2, <1>3
<1> QED BY <1>4 DEF C

LEMMA NewsNext ==
    Inv /\ Typed /\ Typed' /\ ReadOnce /\ NewsCounted /\ NoticeNext => NewsCounted'
<1> SUFFICES ASSUME Inv, Typed, Typed', ReadOnce, NewsCounted, NoticeNext, NEW d \in Docs
             PROVE  OutcomesTold(d)' + Cardinality(Bearers(d)') + Unmarked(d)' <= rounds'[d]
  BY DEF NewsCounted
<1>r. rounds[d] \in Nat /\ rounds[d] >= rounds[d]
  BY DEF Typed
<1>t. ASSUME NEW e \in Docs, NEW k \in OwnerKinds \ Outcomes, Tell(e, k) \/ UNCHANGED told
      PROVE  OutcomesTold(d)' = OutcomesTold(d)
  <2>1. told' = told \/ told' = [told EXCEPT ![e][k] = @ + 1]
    BY <1>t DEF Tell
  <2>2. k # "duplicate" /\ k # "processed"
    BY DEF Outcomes
  <2>3. told[d] \in [OwnerKinds -> Nat]
    BY DEF Typed
  <2>4. CASE told' = [told EXCEPT ![e][k] = @ + 1]
    <3>1. told'[d] = IF d = e THEN [told[d] EXCEPT ![k] = @ + 1] ELSE told[d]
      BY <2>4 DEF Typed
    <3> QED BY <2>2, <2>3, <3>1 DEF OutcomesTold, OwnerKinds, Outcomes
  <2> QED BY <2>1, <2>4 DEF OutcomesTold
<1>1. ASSUME NEW e \in Docs, NEW S \in SUBSET Sources, Upload(e, S)
      PROVE  OutcomesTold(d)' + Cardinality(Bearers(d)') + Unmarked(d)' <= rounds'[d]
  <2>1. Bearers(d)' = Bearers(d) /\ OutcomesTold(d)' = OutcomesTold(d)
    BY <1>1 DEF Upload, worker, notices, Bearers, OutcomesTold
  <2>2. CASE Create(e, S) /\ UNCHANGED rounds
    BY <1>r, <2>1, <2>2, NoNews DEF Create
  <2>3. CASE AddSources(e, S) /\ Reopened(e)
    <3>1. rounds'[d] = (IF d = e THEN rounds[d] + 1 ELSE rounds[d])
          /\ (d # e => notified'[d] = notified[d])
      BY <2>3 DEF AddSources, Reopened, Typed, Inv, TypeOK
    <3> QED BY <1>r, <2>1, <3>1, NoNews
  <2> QED BY <1>1, <2>2, <2>3 DEF Upload
<1>2. ASSUME NEW e \in Docs, Decide(e)
      PROVE  OutcomesTold(d)' + Cardinality(Bearers(d)') + Unmarked(d)' <= rounds'[d]
  <2>1. Bearers(d)' = Bearers(d)
    BY <1>2 DEF Decide, worker, Bearers
  <2>2. OutcomesTold(d)' = OutcomesTold(d)
    BY <1>2, <1>t DEF Decide, TellOrFail, OwnerKinds, Outcomes
  <2>3. CASE Approve(e) /\ Reopened(e)
    <3>1. rounds'[d] = (IF d = e THEN rounds[d] + 1 ELSE rounds[d])
          /\ (d # e => notified'[d] = notified[d])
      BY <2>3 DEF Approve, Reopened, Typed, Inv, TypeOK
    <3> QED BY <1>r, <2>1, <2>2, <3>1, NoNews
  <2>4. CASE Reject(e) /\ UNCHANGED rounds
    BY <1>r, <2>1, <2>2, <2>4, NoNews DEF Reject
  <2> QED BY <1>2, <2>3, <2>4 DEF Decide
<1>3. ASSUME NEW e \in Docs, Remove(e) \/ MarkRead(e)
      PROVE  OutcomesTold(d)' + Cardinality(Bearers(d)') + Unmarked(d)' <= rounds'[d]
  <2>1. Bearers(d)' = Bearers(d) /\ OutcomesTold(d)' = OutcomesTold(d) /\ UNCHANGED <<rounds, notified>>
    BY <1>3 DEF Remove, MarkRead, Delete, vars, worker, Bearers, OutcomesTold
  <2> QED BY <1>r, <2>1, NoNews
<1>4. ASSUME NEW w \in Workers, NEW s \in Sources, NEW k \in {"real", "missing"},
             NEW ids \in Touchable(s, k), Fingerprint(w, s, k, ids)
      PROVE  OutcomesTold(d)' + Cardinality(Bearers(d)') + Unmarked(d)' <= rounds'[d]
  <2>1. /\ UNCHANGED <<cur, told, rounds>>
        /\ cur[w] = NoDoc /\ todo[w] = {}
        /\ todo'[w] = ids /\ news'[w] = NewsOf(ids)
        /\ \A v \in Workers \ {w} : todo'[v] = todo[v] /\ news'[v] = news[v]
        /\ notified'[d] = (notified[d] \/ (d \in ids /\ Exists(d) /\ docStatus'[d] # "processing"))
        /\ notified[d] \in BOOLEAN
    BY <1>4 DEF Fingerprint, Idle, Typed, Finalize, ApplyFingerprint, Inv, TypeOK
  <2>2. w \notin Bearers(d) /\ OutcomesTold(d)' = OutcomesTold(d)
    BY <2>1 DEF Bearers, OutcomesTold
  <2>3. CASE d \in NewsOf(ids)
    <3>1. Bearers(d)' = Bearers(d) \union {w}
      BY <2>1, <2>3 DEF Bearers, NewsOf
    <3>2. Unmarked(d) = 1 /\ Unmarked(d)' = 0
      BY <2>3 DEF Unmarked, NewsOf
    <3>3. Cardinality(Bearers(d)') = Cardinality(Bearers(d)) + 1
      BY <2>2, <3>1, Counts, FS_AddElement
    <3>4. OutcomesTold(d) + Cardinality(Bearers(d)) + 1 <= rounds[d]
      BY <3>2 DEF NewsCounted
    <3> QED BY <2>1, <2>2, <3>2, <3>3, <3>4, Counts
  <2>4. CASE d \notin NewsOf(ids)
    <3>1. Bearers(d)' = Bearers(d)
      BY <2>1, <2>2, <2>4 DEF Bearers
    <3> QED BY <1>r, <2>1, <2>2, <3>1, NoNews
  <2> QED BY <2>3, <2>4
<1>5. ASSUME NEW w \in Workers, NEW e \in Docs, ReadDoc(w, e)
      PROVE  OutcomesTold(d)' + Cardinality(Bearers(d)') + Unmarked(d)' <= rounds'[d]
  <2>1. /\ \A v \in Workers \ {w} : cur'[v] = cur[v] /\ todo'[v] = todo[v]
        /\ todo'[w] = todo[w] \ {e} /\ e \in todo[w]
        /\ cur'[w] # NoDoc => cur'[w].doc = e
        /\ UNCHANGED <<vars, news, told, rounds>>
    BY <1>5, ReadingType DEF ReadDoc, Typed, notices
  <2>2. Bearers(d)' \subseteq Bearers(d) /\ OutcomesTold(d)' = OutcomesTold(d) /\ notified' = notified
    BY <2>1 DEF Bearers, OutcomesTold, vars
  <2> QED BY <1>r, <2>1, <2>2, NoNews
<1>6. ASSUME NEW w \in Workers, Dispatch(w)
      PROVE  OutcomesTold(d)' + Cardinality(Bearers(d)') + Unmarked(d)' <= rounds'[d]
  <2>1. /\ \A v \in Workers \ {w} : cur'[v] = cur[v]
        /\ cur'[w] # NoDoc => cur'[w].at # "read"
        /\ cur[w] # NoDoc /\ cur[w].at = "read" /\ cur[w].doc \in Docs
        /\ UNCHANGED <<todo, news, rounds, notified>>
    BY <1>6, Moves, Leaves, Places DEF Dispatch, At, vars
  <2>2. Bearers(d)' \subseteq Bearers(d)
    BY <2>1 DEF Bearers
  <2>3. CASE UNCHANGED told
    <3>1. OutcomesTold(d)' = OutcomesTold(d)
      BY <2>3 DEF OutcomesTold
    <3> QED BY <1>r, <2>1, <2>2, <3>1, NoNews
  <2>4. CASE IsNews(w) /\ Tell(cur[w].doc, OutcomeOf(cur[w].status))
    <3> DEFINE k == OutcomeOf(cur[w].status)
    <3>1. k \in Outcomes
      BY DEF OutcomeOf, Outcomes
    <3>2. told' = told \/ told' = [told EXCEPT ![cur[w].doc][k] = @ + 1]
      BY <2>4 DEF Tell
    <3> HIDE DEF k
    <3>3. CASE d # cur[w].doc \/ told' = told
      <4>1. OutcomesTold(d)' = OutcomesTold(d)
        BY <3>2, <3>3 DEF OutcomesTold, Typed
      <4> QED BY <1>r, <2>1, <2>2, <4>1, NoNews
    <3>4. CASE d = cur[w].doc /\ told' = [told EXCEPT ![cur[w].doc][k] = @ + 1]
      <4>1. told[d] \in [OwnerKinds -> Nat] /\ told'[d] = [told[d] EXCEPT ![k] = @ + 1]
        BY <3>4 DEF Typed
      <4>2. OutcomesTold(d)' = OutcomesTold(d) + 1
        BY <3>1, <4>1 DEF OutcomesTold, Outcomes, OwnerKinds
      <4>3. w \in Bearers(d) /\ w \notin Bearers(d)'
        BY <2>1, <2>4, <3>4 DEF Bearers, IsNews, ReadOnce
      <4>4. Bearers(d)' = Bearers(d) \ {w}
        BY <2>1, <4>3 DEF Bearers
      <4>5. Cardinality(Bearers(d)') = Cardinality(Bearers(d)) - 1
        BY <4>3, <4>4, Counts, FS_RemoveElement
      <4>6. Unmarked(d)' = Unmarked(d) /\ rounds'[d] = rounds[d]
        BY <2>1 DEF Unmarked
      <4>7. OutcomesTold(d) + Cardinality(Bearers(d)) + Unmarked(d) <= rounds[d]
        BY DEF NewsCounted
      <4> QED BY <4>2, <4>5, <4>6, <4>7, Counts
    <3> QED BY <3>2, <3>3, <3>4
  <2> QED BY <1>6, <2>3, <2>4 DEF Dispatch
<1>7. ASSUME NEW w \in Workers, \/ LockNotice(w) \/ FindUnread(w) \/ InsertNotice(w)
                                \/ NoticeFails(w) \/ TellOwner(w)
      PROVE  OutcomesTold(d)' + Cardinality(Bearers(d)') + Unmarked(d)' <= rounds'[d]
  <2>1. /\ \A v \in Workers \ {w} : cur'[v] = cur[v]
        /\ cur'[w] # NoDoc => cur'[w].at # "read"
        /\ cur[w] # NoDoc /\ cur[w].doc \in Docs
        /\ UNCHANGED <<todo, news, rounds, notified>>
    BY <1>7, Moves, Leaves, Places
       DEF LockNotice, FindUnread, InsertNotice, NoticeFails, TellOwner, At, vars, notices
  <2>2. Bearers(d)' \subseteq Bearers(d)
    BY <2>1 DEF Bearers
  <2>3. OutcomesTold(d)' = OutcomesTold(d)
    BY <1>7, <1>t, <2>1 DEF LockNotice, FindUnread, InsertNotice, NoticeFails, TellOwner,
                            TellOrFail, OwnerKinds, Outcomes, notices
  <2> QED BY <1>r, <2>1, <2>2, <2>3, NoNews
<1>8. ASSUME NEW w \in Workers, GetFails(w) \/ Crash(w)
      PROVE  OutcomesTold(d)' + Cardinality(Bearers(d)') + Unmarked(d)' <= rounds'[d]
  <2>1. /\ \A v \in Workers \ {w} : cur'[v] = cur[v] /\ todo'[v] = todo[v]
        /\ todo'[w] = {} /\ cur'[w] = NoDoc
        /\ UNCHANGED <<vars, news, told, rounds>>
    BY <1>8, Leaves DEF GetFails, Crash, Typed
  <2>2. Bearers(d)' \subseteq Bearers(d) /\ OutcomesTold(d)' = OutcomesTold(d) /\ notified' = notified
    BY <2>1 DEF Bearers, OutcomesTold, vars
  <2> QED BY <1>r, <2>1, <2>2, NoNews
<1> QED BY <1>1, <1>2, <1>3, <1>4, <1>5, <1>6, <1>7, <1>8 DEF NoticeNext, WorkerStep

-----------------------------------------------------------------------------
(* Theorems *)

LEMMA NoticeNextInv == NoticeInv /\ [NoticeNext]_noticeVars => NoticeInv'
<1> SUFFICES ASSUME NoticeInv, [NoticeNext]_noticeVars PROVE NoticeInv'
  OBVIOUS
<1>1. CASE NoticeNext
  <2>1. Inv'
    BY <1>1, CorpusStep, NextInv DEF NoticeInv
  <2>2. Typed'
    BY <1>1, TypedNext DEF NoticeInv
  <2>3. LockHeld' /\ ReadOnce' /\ HeldIsAsked'
    BY <1>1, LockNext, ReadOnceNext, AskedNext DEF NoticeInv
  <2>4. NothingUnread' /\ OneNoticePerReview'
    BY <1>1, UnreadNext DEF NoticeInv
  <2>5. NewsCounted'
    BY <1>1, <2>2, NewsNext DEF NoticeInv
  <2> QED BY <2>1, <2>2, <2>3, <2>4, <2>5 DEF NoticeInv
<1>2. CASE UNCHANGED noticeVars
  <2>1. UNCHANGED <<vars, worker, lock, notices, faults, rounds>>
    BY <1>2 DEF noticeVars, vars, worker, notices
  <2>2. Inv'
    BY <2>1, NextInv DEF NoticeInv
  <2>3. Typed' /\ LockHeld' /\ NothingUnread' /\ OneNoticePerReview' /\ ReadOnce'
    BY <2>1 DEF NoticeInv, worker, notices, Typed, LockHeld, InTransaction, NothingUnread, At,
                OneNoticePerReview, ReadOnce
  <2>4. HeldIsAsked'
    BY <2>1 DEF NoticeInv, vars, worker, notices, HeldIsAsked, WillAsk
  <2>5. NewsCounted'
    BY <2>1 DEF NoticeInv, vars, worker, notices, NewsCounted, OutcomesTold, Bearers, Unmarked
  <2> QED BY <2>2, <2>3, <2>4, <2>5 DEF NoticeInv
<1> QED BY <1>1, <1>2

LEMMA NoticeInvariance == NoticeSpec => []NoticeInv
BY NoticeInitInv, NoticeNextInv, PTL DEF NoticeSpec

\* The state of workers, locks and notices stays within its domains, and the holder of the
\* lock of a notice is always at the document of that notice.
THEOREM NoticeTypes == NoticeSpec => []NoticeTypeOK
<1>1. ASSUME NoticeInv PROVE NoticeTypeOK
  <2>1. Typed /\ LockHeld
    BY <1>1 DEF NoticeInv
  <2>2. \A d \in Docs : lock[d] # Nobody => cur[lock[d]].doc = d
    BY <2>1 DEF Typed, LockHeld
  <2> QED BY <2>1, <2>2 DEF Typed, NoticeTypeOK
<1> QED BY <1>1, NoticeInvariance, PTL

\* However many workers fingerprint files of a document at once, admins have one unread
\* notice about it at most (NotifyAdminsOnce).
THEOREM OneNoticeAlways == NoticeSpec => []OneNoticePerReview
BY NoticeInvariance, PTL DEF NoticeInv

\* No document on hold is forgotten: when the workers are done with it, the admins have been
\* asked since it was put on hold, or a fault has cut the asking off (publishFingerprint).
THEOREM AdminsAlwaysAsked == NoticeSpec => []AdminsAreAsked
<1>1. ASSUME NoticeInv PROVE AdminsAreAsked
  <2>1. \A w \in Workers, d \in Docs : WillAsk(w, d) => Concerns(w, d)
    BY DEF WillAsk, Concerns
  <2> QED BY <1>1, <2>1 DEF NoticeInv, HeldIsAsked, AdminsAreAsked
<1> QED BY <1>1, NoticeInvariance, PTL

\* The outcome of a document is announced no more often than its mark was taken away, plus
\* once, whatever the interleaving of fingerprints, additions and decisions.
THEOREM OutcomeAlwaysToldOnce == NoticeSpec => []OutcomeToldOnce
<1>1. ASSUME NoticeInv PROVE OutcomeToldOnce
  <2> SUFFICES ASSUME NEW d \in Docs
               PROVE  told[d]["duplicate"] + told[d]["processed"] <= rounds[d]
    BY DEF OutcomeToldOnce
  <2>1. OutcomesTold(d) + Cardinality(Bearers(d)) + Unmarked(d) <= rounds[d] /\ Typed
    BY <1>1 DEF NoticeInv, NewsCounted
  <2>2. OutcomesTold(d) <= rounds[d]
    BY <2>1, Counts
  <2> QED BY <2>2 DEF OutcomesTold
<1> QED BY <1>1, NoticeInvariance, PTL

=============================================================================
