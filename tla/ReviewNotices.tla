--------------------------- MODULE ReviewNotices ---------------------------
(***************************************************************************)
(* Notices about documents: what publishFingerprint does after its          *)
(* transaction (documents/service.go) and internal/notifications/repo.go,  *)
(* composed with the corpus.  A worker commits a fingerprint, then reads   *)
(* each document the transaction touched and tells admins and owners what  *)
(* it read; other workers, uploads, admins and readers go on meanwhile,    *)
(* and what follows a commit may fail or be cut off by a crash.            *)
(*                                                                         *)
(* A notice is its document and kind; only notices of kind "review" need   *)
(* to be known as read or unread.  A document without owner has its        *)
(* notices told to the admins.  Left out: titles, texts, times, lists; and *)
(* the result of a transaction that was rolled back, which withTx returns  *)
(* if another process hashes the file before it repeats the transaction.   *)
(***************************************************************************)
EXTENDS Corpus

CONSTANTS
    Workers,
    MaxFaults    \* bound: failed reads and inserts, and crashes

Outcomes == {"duplicate", "processed"}
OwnerKinds == Outcomes \union {"review_pending", "approved", "rejected"}
NoDoc == [doc |-> "none", status |-> "none", at |-> "idle"]

VARIABLES
    todo,     \* of a worker: documents of result.Touched still to be read
    news,     \* result.Notified
    own,      \* src.DocumentID
    cur,      \* the document a worker is at: its row as read, and the place in the code
    lock,     \* of a document: who holds pg_advisory_xact_lock(kindLock(doc, "review"))
    unread,   \* number of unread review notices of a document
    told,     \* number of notices of a kind inserted for the owner of a document
    asked,    \* admins have been asked about the document since it was last held
    lost,     \* documents of which a fault kept something from being told
    faults,   \* faults so far
    rounds    \* times a document's mark of announcement was taken away, plus one

worker == <<todo, news, own, cur>>
notices == <<unread, told, asked, lost>>
noticeVars == <<docStatus, notified, reviewAsked, live, spent, hash, uniq, released, dup,
                todo, news, own, cur, lock, unread, told, asked, lost, faults, rounds>>

Nobody == "nobody"

ASSUME NoticeAssumption ==
    /\ IsFiniteSet(Workers) /\ Nobody \notin Workers
    /\ MaxFaults \in Nat

Idle(w) == todo[w] = {} /\ cur[w] = NoDoc
Concerns(w, d) == d \in todo[w] \/ (cur[w] # NoDoc /\ cur[w].doc = d)

NoticeTypeOK ==
    /\ todo \in [Workers -> SUBSET Docs] /\ news \in [Workers -> SUBSET Docs]
    /\ own \in [Workers -> Docs \union {Nobody}]
    /\ \A w \in Workers : cur[w] = NoDoc \/ cur[w] \in
           [doc : Docs, status : Statuses, at : {"read", "lock", "locked", "insert", "owner"}]
    /\ lock \in [Docs -> Workers \union {Nobody}]
    /\ \A d \in Docs : lock[d] # Nobody => cur[lock[d]].doc = d
    /\ unread \in [Docs -> Nat] /\ told \in [Docs -> [OwnerKinds -> Nat]]
    /\ asked \in [Docs -> BOOLEAN] /\ lost \subseteq Docs
    /\ faults \in 0..MaxFaults /\ rounds \in [Docs -> Nat]

NoticeInit ==
    /\ Init
    /\ todo = [w \in Workers |-> {}] /\ news = [w \in Workers |-> {}]
    /\ own = [w \in Workers |-> Nobody]
    /\ cur = [w \in Workers |-> NoDoc]
    /\ lock = [d \in Docs |-> Nobody]
    /\ unread = [d \in Docs |-> 0]
    /\ told = [d \in Docs |-> [k \in OwnerKinds |-> 0]]
    /\ asked = [d \in Docs |-> FALSE] /\ lost = {}
    /\ faults = 0
    /\ rounds = [d \in Docs |-> 1]

-----------------------------------------------------------------------------
(* Uploads and decisions *)

Reopened(d) == rounds' = [rounds EXCEPT ![d] = @ + 1]

Upload(d, S) ==
    /\ \/ Create(d, S) /\ UNCHANGED rounds
       \/ AddSources(d, S) /\ Reopened(d)
    /\ UNCHANGED <<worker, lock, notices, faults>>

\* A notice about a document that is gone is refused (foreign key).
Tell(d, k) == told' = IF Exists(d) THEN [told EXCEPT ![d][k] = @ + 1] ELSE told

Fault == faults < MaxFaults /\ faults' = faults + 1
TellOrFail(d, k) == (Tell(d, k) /\ UNCHANGED faults) \/ (Fault /\ UNCHANGED told)

\* The owner is told after the transaction; a failed insert is ignored.
Decide(d) ==
    /\ \/ Approve(d) /\ Reopened(d) /\ TellOrFail(d, "approved")
       \/ Reject(d) /\ UNCHANGED rounds /\ TellOrFail(d, "rejected")
    /\ UNCHANGED <<worker, lock, unread, asked, lost>>

\* Notices about a deleted document stay, without their document.
Remove(d) ==
    /\ Delete(d)
    /\ unread' = [unread EXCEPT ![d] = 0]
    /\ UNCHANGED <<worker, lock, told, asked, lost, faults, rounds>>

\* MarkRead and MarkAllRead by an admin.
MarkRead(d) ==
    /\ unread[d] > 0
    /\ \E n \in 0..(unread[d] - 1) : unread' = [unread EXCEPT ![d] = n]
    /\ UNCHANGED <<vars, worker, lock, told, asked, lost, faults, rounds>>

-----------------------------------------------------------------------------
(* publishFingerprint *)

NewsOf_ByStatus(ids) == {d \in ids : docStatus'[d] # "processing"}
NewsOf(ids) == {d \in ids : ~notified[d] /\ notified'[d]}

Fingerprint(w, s, k, ids) ==
    /\ Idle(w)
    /\ Finalize(s, k, ids)
    /\ todo' = [todo EXCEPT ![w] = ids]
    /\ news' = [news EXCEPT ![w] = NewsOf(ids)]
    /\ own' = [own EXCEPT ![w] = DocOf[s]]
    /\ asked' = [d \in Docs |-> asked[d] /\ ~(docStatus[d] # "pending_review" /\ docStatus'[d] = "pending_review")]
    /\ lost' = {d \in lost : docStatus[d] = "pending_review" \/ docStatus'[d] # "pending_review"}
    /\ UNCHANGED <<cur, lock, unread, told, faults, rounds>>

At(w, place) == cur[w] # NoDoc /\ cur[w].at = place
Goto(w, place) == cur' = [cur EXCEPT ![w].at = place]
Leave(w) == cur' = [cur EXCEPT ![w] = NoDoc]

\* repo.Get; a document that is gone is passed over.
ReadDoc(w, d) ==
    /\ cur[w] = NoDoc /\ d \in todo[w]
    /\ todo' = [todo EXCEPT ![w] = @ \ {d}]
    /\ cur' = IF Exists(d)
              THEN [cur EXCEPT ![w] = [doc |-> d, status |-> docStatus[d], at |-> "read"]]
              ELSE cur
    /\ UNCHANGED <<vars, news, own, lock, notices, faults, rounds>>

NeedsReview(w) == cur[w].status = "pending_review" /\ cur[w].doc = own[w]
IsNews(w) == cur[w].doc \in news[w]
OutcomeOf(status) == IF status = "duplicate" THEN "duplicate" ELSE "processed"

\* The document has been published; which notice is next.
Dispatch(w) ==
    /\ At(w, "read")
    /\ IF NeedsReview(w) THEN Goto(w, "lock") /\ UNCHANGED <<told, faults, lost>>
       ELSE /\ Leave(w)
            /\ \/ IsNews(w) /\ Tell(cur[w].doc, OutcomeOf(cur[w].status)) /\ UNCHANGED <<faults, lost>>
               \/ IsNews(w) /\ Fault /\ lost' = lost \union {cur[w].doc} /\ UNCHANGED told
               \/ ~IsNews(w) /\ UNCHANGED <<told, faults, lost>>
    /\ UNCHANGED <<vars, todo, news, own, lock, unread, asked, rounds>>

LockNotice_Free(w) ==
    /\ At(w, "lock") /\ Goto(w, "locked")
    /\ UNCHANGED <<vars, todo, news, own, lock, notices, faults, rounds>>

LockNotice(w) ==
    /\ At(w, "lock") /\ lock[cur[w].doc] = Nobody
    /\ lock' = [lock EXCEPT ![cur[w].doc] = w]
    /\ Goto(w, "locked")
    /\ UNCHANGED <<vars, todo, news, own, notices, faults, rounds>>

Unlock(w) == lock' = [d \in Docs |-> IF lock[d] = w THEN Nobody ELSE lock[d]]

FindUnread_OrRead(w) ==
    /\ At(w, "locked")
    /\ IF unread[cur[w].doc] = 0 /\ told[cur[w].doc]["review_pending"] = 0
       THEN Goto(w, "insert") /\ UNCHANGED <<lock, asked>>
       ELSE /\ Goto(w, "owner") /\ Unlock(w)
            /\ asked' = [asked EXCEPT ![cur[w].doc] = @ \/ unread[cur[w].doc] > 0]
    /\ UNCHANGED <<vars, todo, news, own, unread, told, lost, faults, rounds>>

\* The check of NotifyAdminsOnce.
FindUnread(w) ==
    /\ At(w, "locked")
    /\ IF unread[cur[w].doc] = 0 THEN Goto(w, "insert") /\ UNCHANGED <<lock, asked>>
       ELSE /\ Goto(w, "owner") /\ Unlock(w)
            /\ asked' = [asked EXCEPT ![cur[w].doc] = TRUE]
    /\ UNCHANGED <<vars, todo, news, own, unread, told, lost, faults, rounds>>

\* The insert, seen by others at the commit that frees the lock. 
InsertNotice(w) ==
    /\ At(w, "insert")
    /\ Goto(w, "owner") /\ Unlock(w)
    /\ IF Exists(cur[w].doc)
       THEN /\ unread' = [unread EXCEPT ![cur[w].doc] = @ + 1]
            /\ asked' = [asked EXCEPT ![cur[w].doc] = TRUE]
       ELSE UNCHANGED <<unread, asked>>
    /\ UNCHANGED <<vars, todo, news, own, told, lost, faults, rounds>>

\* Any statement of NotifyAdminsOnce fails: rolled back, and notifyReview goes on.
NoticeFails(w) ==
    /\ At(w, "lock") \/ At(w, "locked") \/ At(w, "insert")
    /\ Fault /\ Goto(w, "owner") /\ Unlock(w)
    /\ lost' = lost \union {cur[w].doc}
    /\ UNCHANGED <<vars, todo, news, own, unread, told, asked, rounds>>

TellOwner(w) ==
    /\ At(w, "owner")
    /\ Leave(w)
    /\ TellOrFail(cur[w].doc, "review_pending")
    /\ UNCHANGED <<vars, todo, news, own, lock, unread, asked, lost, rounds>>

Interrupted(w) == {d \in Docs : Concerns(w, d)}

\* repo.Get fails: the loop is left.  The next attempt of hashSource finds the hash, so what
\* was left to be told never is.
GetFails(w) ==
    /\ cur[w] = NoDoc /\ todo[w] # {} /\ Fault
    /\ lost' = lost \union Interrupted(w)
    /\ todo' = [todo EXCEPT ![w] = {}]
    /\ UNCHANGED <<vars, news, own, cur, lock, unread, told, asked, rounds>>

\* The process of a worker ends; its session with the database, too.
Crash(w) ==
    /\ ~Idle(w) /\ Fault
    /\ lost' = lost \union Interrupted(w)
    /\ todo' = [todo EXCEPT ![w] = {}]
    /\ Leave(w) /\ Unlock(w)
    /\ UNCHANGED <<vars, news, own, unread, told, asked, rounds>>

WorkerStep(w) ==
    \/ \E d \in Docs : ReadDoc(w, d)
    \/ Dispatch(w) \/ LockNotice(w) \/ FindUnread(w) \/ InsertNotice(w) \/ TellOwner(w)

NoticeNext ==
    \/ \E d \in Docs : \/ \E S \in SUBSET Sources : Upload(d, S)
                       \/ Decide(d) \/ Remove(d) \/ MarkRead(d)
    \/ \E w \in Workers :
           \/ \E s \in Sources, k \in {"real", "missing"} :
                  \E ids \in Touchable(s, k) : Fingerprint(w, s, k, ids)
           \/ WorkerStep(w) \/ NoticeFails(w) \/ GetFails(w) \/ Crash(w)

NoticeSpec == NoticeInit /\ [][NoticeNext]_noticeVars
FairNoticeSpec == NoticeSpec /\ \A w \in Workers : WF_noticeVars(WorkerStep(w))

-----------------------------------------------------------------------------
(* Properties *)

\* Workers that fingerprint files of one document at the same time, or again before anybody
\* has read the notice, leave admins one unread notice about it (notifications/repo.go:97-142).
OneNoticePerReview == \A d \in Docs : unread[d] <= 1

\* A document on hold is brought before the admins once the workers are done with it, except
\* after a fault: a notice they have read, about an earlier hold, does not count, nor is the
\* worker whose transaction put the document on hold the only one to ask (service.go:1148).
AdminsAreAsked ==
    \A d \in Docs :
        docStatus[d] = "pending_review" /\ (\A w \in Workers : ~Concerns(w, d))
            => asked[d] \/ d \in lost

\* The outcome of a document is announced once for each time it went through processing or
\* was decided, however many fingerprints touch it (service.go:1152-1175).  A worker whose
\* transaction was rolled back announces nothing here; in the code it may (see above).
OutcomeToldOnce ==
    \A d \in Docs : told[d]["duplicate"] + told[d]["processed"] <= rounds[d]

\* Held documents reach the admins in the end: no worker waits for the lock of a notice
\* forever, whichever worker crashes inside it.
HeldIsBrought ==
    \A d \in Docs :
        docStatus[d] = "pending_review" ~> asked[d] \/ d \in lost \/ docStatus[d] # "pending_review"
=============================================================================
