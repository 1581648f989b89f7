---------------------------- MODULE FingerprintTx ----------------------------
(***************************************************************************)
(* FinalizeFingerprint as the workers of one or more API processes run it: *)
(* a READ COMMITTED transaction that takes an advisory lock per fingerprint *)
(* key, queries the candidates, locks the rows of their documents, reads    *)
(* everything again and only then writes.  Its writes become visible at the *)
(* commit, together with the release of its locks.  The other transactions  *)
(* on the corpus hold one document row and nothing else while they run, so  *)
(* each is one step that needs that row unlocked.                           *)
(*                                                                          *)
(* The specification implements Corpus: theorem TxImplementsCorpus.         *)
(***************************************************************************)
EXTENDS Corpus

CONSTANTS
    Workers,    \* pool workers, of all processes
    Keys,       \* fingerprint lock keys, in the order of sort.Strings
    KeysOf,     \* fingerprintLockKeys of a source
    DocRank,    \* position of a document id in the order of ids
    Nobody,     \* owner of a free lock
    NoSource,   \* the job of an idle worker
    MaxAborts   \* bound on rollbacks (model only)

\* Two fingerprints that a candidate query joins have a key in common: both
\* the keys and the queries are built from the hash, the text and the bands.
ASSUME KeysAssumption ==
    /\ Keys \subseteq Nat
    /\ KeysOf \in [Sources -> SUBSET Keys]
    /\ \A p \in Near : KeysOf[p[1]] \intersect KeysOf[p[2]] # {}
    /\ DocRank \in [Docs -> Nat]
    /\ \A d, e \in Docs : DocRank[d] = DocRank[e] => d = e
    /\ Nobody \notin Workers
    /\ NoSource \notin Sources
    /\ MaxAborts \in Nat

VARIABLES
    stage,     \* of a worker's transaction: "idle", "keys" (advisory locks), "docs"
    job,       \* the source it fingerprints
    blob,      \* whether the blob was there: "real" or "missing"
    found,     \* candidates it has queried
    keyOwner,  \* who holds an advisory lock
    docOwner,  \* who holds the row lock of a document
    aborts

workVars == <<stage, job, blob, found>>
txVars == <<vars, stage, job, blob, found, keyOwner, docOwner, aborts>>

TxInit ==
    /\ Init
    /\ stage = [w \in Workers |-> "idle"]
    /\ job = [w \in Workers |-> NoSource]
    /\ blob = [w \in Workers |-> "real"]
    /\ found = [w \in Workers |-> {}]
    /\ keyOwner = [k \in Keys |-> Nobody]
    /\ docOwner = [d \in Docs |-> Nobody]
    /\ aborts = 0

\* What the transaction of w still has to lock.  A document that is gone by the
\* time the query reaches it is not locked.
KeysNeeded(w) == IF blob[w] = "real" THEN KeysOf[job[w]] ELSE {}
KeysLeft(w) == {k \in KeysNeeded(w) : keyOwner[k] # w}
TouchedDocs(w) == {DocOf[t] : t \in found[w] \union {job[w]}}
DocsLeft(w) == {d \in TouchedDocs(w) : Exists(d) /\ docOwner[d] # w}
NextKey(w) == CHOOSE k \in KeysLeft(w) : \A j \in KeysLeft(w) : k <= j
NextDoc(w) == CHOOSE d \in DocsLeft(w) : \A e \in DocsLeft(w) : DocRank[d] <= DocRank[e]

\* Commit or rollback: all locks of w are released.
EndTx(w) ==
    /\ stage' = [stage EXCEPT ![w] = "idle"]
    /\ job' = [job EXCEPT ![w] = NoSource]
    /\ blob' = [blob EXCEPT ![w] = "real"]
    /\ found' = [found EXCEPT ![w] = {}]
    /\ keyOwner' = [k \in Keys |-> IF keyOwner[k] = w THEN Nobody ELSE keyOwner[k]]
    /\ docOwner' = [d \in Docs |-> IF docOwner[d] = w THEN Nobody ELSE docOwner[d]]

\* hashSource has read an unhashed row and analysed the blob.  Two processes may
\* do so for the same source.
Begin(w, s, k) ==
    /\ stage[w] = "idle"
    /\ s \in live /\ hash[s] = "none"
    /\ stage' = [stage EXCEPT ![w] = "keys"]
    /\ job' = [job EXCEPT ![w] = s]
    /\ blob' = [blob EXCEPT ![w] = k]
    /\ UNCHANGED <<vars, found, keyOwner, docOwner, aborts>>

LockKey_Unsorted(w) ==
    /\ stage[w] = "keys"
    /\ \E k \in KeysLeft(w) :
           keyOwner[k] = Nobody /\ keyOwner' = [keyOwner EXCEPT ![k] = w]
    /\ UNCHANGED <<vars, workVars, docOwner, aborts>>

\* pg_advisory_xact_lock on the next key.
LockKey(w) ==
    /\ stage[w] = "keys"
    /\ KeysLeft(w) # {}
    /\ keyOwner[NextKey(w)] = Nobody
    /\ keyOwner' = [keyOwner EXCEPT ![NextKey(w)] = w]
    /\ UNCHANGED <<vars, workVars, docOwner, aborts>>

Query_BeforeLocks(w) ==
    /\ stage[w] = "keys" /\ job[w] \in live
    /\ stage' = [stage EXCEPT ![w] = "docs"]
    /\ found' = [found EXCEPT ![w] = IF blob[w] = "real" THEN Candidates(job[w]) ELSE {}]
    /\ UNCHANGED <<vars, job, blob, keyOwner, docOwner, aborts>>

\* The candidate queries, once every key is held.
Query(w) ==
    /\ stage[w] = "keys" /\ KeysLeft(w) = {}
    /\ job[w] \in live
    /\ stage' = [stage EXCEPT ![w] = "docs"]
    /\ found' = [found EXCEPT ![w] = IF blob[w] = "real" THEN Candidates(job[w]) ELSE {}]
    /\ UNCHANGED <<vars, job, blob, keyOwner, docOwner, aborts>>

\* SELECT ... FOR UPDATE on the next document row, in the order of ids.
LockDoc(w) ==
    /\ stage[w] = "docs"
    /\ DocsLeft(w) # {}
    /\ docOwner[NextDoc(w)] = Nobody
    /\ docOwner' = [docOwner EXCEPT ![NextDoc(w)] = w]
    /\ UNCHANGED <<vars, workVars, keyOwner, aborts>>

Commit_NoReread(w) ==
    /\ stage[w] = "docs" /\ DocsLeft(w) = {} /\ job[w] \in live
    /\ ApplyFingerprint(job[w], blob[w],
           {t \in found[w] \intersect live : <<job[w], t>> \in Match}, TouchedDocs(w))
    /\ EndTx(w)
    /\ UNCHANGED aborts

\* The rest of the transaction: the source and the candidates are read again,
\* the surviving matches applied, and the transaction commits.
Commit(w) ==
    /\ stage[w] = "docs" /\ DocsLeft(w) = {}
    /\ job[w] \in live /\ hash[job[w]] = "none"
    /\ ApplyFingerprint(job[w], blob[w],
           {t \in found[w] \intersect live : <<job[w], t>> \in Match}, TouchedDocs(w))
    /\ EndTx(w)
    /\ UNCHANGED aborts

\* The source was removed (ErrNotFound), or another process has hashed it.
GiveUp(w) ==
    /\ \/ stage[w] = "keys" /\ KeysLeft(w) = {} /\ job[w] \notin live
       \/ /\ stage[w] = "docs" /\ DocsLeft(w) = {}
          /\ job[w] \notin live \/ hash[job[w]] # "none"
    /\ EndTx(w)
    /\ UNCHANGED <<vars, aborts>>

\* Lost connection, job timeout, shutdown or crash: Postgres rolls back.
Abort(w) ==
    /\ stage[w] # "idle" /\ aborts < MaxAborts
    /\ aborts' = aborts + 1
    /\ EndTx(w)
    /\ UNCHANGED vars

\* The one-row transactions wait for the row of their document.
Unlocked(d) == docOwner[d] = Nobody
Other ==
    /\ \/ \E d \in Docs, S \in SUBSET Sources :
              Create(d, S) \/ (Unlocked(d) /\ AddSources(d, S))
       \/ \E d \in Docs : Unlocked(d) /\ (Approve(d) \/ Reject(d) \/ Delete(d))
    /\ UNCHANGED <<workVars, keyOwner, docOwner, aborts>>

Step(w) == LockKey(w) \/ Query(w) \/ LockDoc(w) \/ Commit(w) \/ GiveUp(w)

TxNext ==
    \/ \E w \in Workers, s \in Sources, k \in {"real", "missing"} : Begin(w, s, k)
    \/ \E w \in Workers : Step(w) \/ Abort(w)
    \/ Other

TxSpec == TxInit /\ [][TxNext]_txVars

\* Postgres grants a lock in the order of the requests, so a worker that keeps
\* asking gets it; the recovery sweeper lists an unhashed source again and again.
Fairness ==
    /\ \A w \in Workers : SF_txVars(Step(w))
    /\ \A s \in Sources : SF_txVars(\E w \in Workers, k \in {"real", "missing"} : Begin(w, s, k))

FairTxSpec == TxSpec /\ Fairness

-----------------------------------------------------------------------------
(* Properties *)

TxTypeOK ==
    /\ stage \in [Workers -> {"idle", "keys", "docs"}]
    /\ job \in [Workers -> Sources \union {NoSource}]
    /\ blob \in [Workers -> {"real", "missing"}]
    /\ found \in [Workers -> SUBSET Sources]
    /\ keyOwner \in [Keys -> Workers \union {Nobody}]
    /\ docOwner \in [Docs -> Workers \union {Nobody}]
    /\ aborts \in 0 .. MaxAborts

\* The long transaction is atomic: every commit is one Corpus!Finalize, every
\* other step of it is invisible, whatever ran in between and whoever aborted.
\* In particular two workers never miss each other's match.
ImplementsCorpus == Spec

\* What a transaction has queried is still all there is to find when it writes:
\* a candidate may disappear, but none can appear behind its back.
NoCandidateMissed ==
    \A w \in Workers : stage[w] = "docs" /\ blob[w] = "real" => Candidates(job[w]) \subseteq found[w]

\* "lock keys must be sorted to avoid deadlocks" (the test of
\* fingerprintLockKeys): the transactions never wait for one another in a cycle.
WaitsFor(v, w) ==
    \/ stage[v] = "keys" /\ KeysLeft(v) # {} /\ keyOwner[NextKey(v)] = w
    \/ stage[v] = "docs" /\ DocsLeft(v) # {} /\ docOwner[NextDoc(v)] = w

NoWaitCycle ==
    \A W \in SUBSET Workers : W # {} => \E v \in W : \A w \in W : ~WaitsFor(v, w)

\* A fingerprint that was started is committed, given up or rolled back.
TxEnds == \A w \in Workers : stage[w] # "idle" ~> stage[w] = "idle"

\* Every file is fingerprinted or removed: no document is left on processing.
EverythingHashed == \A s \in Sources : s \in live /\ hash[s] = "none" ~> s \notin live \/ hash[s] # "none"
=============================================================================
