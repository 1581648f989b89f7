------------------------------ MODULE BlobCache ------------------------------
(***************************************************************************)
(* The object store of one API process: the bucket, and the directory of    *)
(* local copies in front of it (R2 in blob/r2.go).  Calls on one key exclude *)
(* each other by the lock of the key (KeyMutex, implemented by KeyLock); the *)
(* trimming of the directory, the start of an import and the caller of       *)
(* LocalPath that opens the copy afterwards hold no lock of the key they     *)
(* touch.                                                                   *)
(*                                                                          *)
(* All copies have size one.  A copy is complete or absent, because it is    *)
(* written under another name and renamed.  Left out: crashes, and the       *)
(* command that empties the bucket.                                         *)
(***************************************************************************)
EXTENDS KeyMutex, Integers, FiniteSets

CONSTANTS
    Readers,     \* callers of LocalPath: "read" (a response), "title" and "hash" (jobs)
    OnDisk,      \* files of an older local store, which the process imports
    MaxCached,   \* maxCacheBytes
    Want         \* what trimming leaves: maxCacheBytes * 3 / 4

CacheAssumption ==
    /\ Blobs # {} /\ IsFiniteSet(Blobs)
    /\ Readers \subseteq {"read", "title", "hash"}
    /\ OnDisk \subseteq Blobs
    /\ MaxCached \in Nat /\ Want \in 0..MaxCached

VARIABLES
    bucket,            \* the objects of R2
    copy,              \* of an object: "none", "young" (written in the last 30 s) or "old"
    sourceRow,         \* of an object: "new", "stored" (no row yet), "live" or "gone"
    fileless,          \* jobs that have settled their source as one without a file
    call, place, object,  \* of a process
    victims, total     \* of a process that trims: what it may still remove, what is left

cacheVars == <<inside, bucket, copy, sourceRow, fileless, call, place, object, victims, total>>

Jobs == Readers \ {"read"}
Calls == {"put", "import", "delete"} \union Readers
CallStages == {"idle", "has", "lock", "upload", "look", "fetch", "keep", "trim", "evict",
               "fail", "unlock", "open", "remote", "local"}

\* Locked(k): the calls that are between their lock and their unlock.
Locked(k) == {p \in Callers : object[p] = k /\ place[p] \notin {"idle", "has", "lock", "open"}}

CacheTypeOK ==
    /\ inside = [k \in Blobs |-> Locked(k)]
    /\ bucket \subseteq Blobs /\ fileless \subseteq Jobs \X Blobs
    /\ copy \in [Blobs -> {"none", "young", "old"}]
    /\ sourceRow \in [Blobs -> {"new", "stored", "live", "gone"}]
    /\ call \in [Callers -> Calls]
    /\ place \in [Callers -> CallStages]
    /\ object \in [Callers -> Blobs]
    /\ victims \in [Callers -> SUBSET Blobs]
    /\ total \in [Callers -> 0..Cardinality(Blobs)]

CacheInit ==
    /\ MutexInit
    /\ bucket = {} /\ fileless = {}
    /\ copy = [k \in Blobs |-> "none"]
    /\ sourceRow = [k \in Blobs |-> IF k \in OnDisk THEN "live" ELSE "new"]
    /\ call = [p \in Callers |-> "put"]
    /\ place = [p \in Callers |-> "idle"]
    /\ object = [p \in Callers |-> CHOOSE k \in Blobs : TRUE]
    /\ victims = [p \in Callers |-> {}]
    /\ total = [p \in Callers |-> 0]

store == <<bucket, copy, sourceRow, fileless>>
trimming == <<victims, total>>

GoesTo(p, s) == place' = [place EXCEPT ![p] = s]
Runs(p, c) == place[p] # "idle" /\ call[p] = c
Copied == {k \in Blobs : copy[k] # "none"}
SetCopy(k, c) == copy' = [copy EXCEPT ![k] = c]

\* A step of a call that changes nothing but what it says.
Step(p, from, to) ==
    /\ place[p] = from /\ GoesTo(p, to)
    /\ UNCHANGED <<inside, call, object, trimming>>

-----------------------------------------------------------------------------
(* Calls begin *)

BeingPut(k) == \E p \in Callers : Runs(p, "put") /\ object[p] = k

Starts(p, c, k, s) ==
    /\ place[p] = "idle" /\ GoesTo(p, s)
    /\ call' = [call EXCEPT ![p] = c]
    /\ object' = [object EXCEPT ![p] = k]
    /\ UNCHANGED <<inside, bucket, copy, fileless, trimming>>

\* An upload stores its object under a new key, once, and then inserts the row.
BeginPut(p, k) ==
    /\ sourceRow[k] = "new" /\ k \notin bucket /\ ~BeingPut(k)
    /\ Starts(p, "put", k, "lock") /\ UNCHANGED sourceRow

BeginImport(p, k) ==
    /\ k \in OnDisk /\ \A q \in Callers : ~Runs(q, "import")
    /\ Starts(p, "import", k, "has") /\ UNCHANGED sourceRow

\* A reader has found the row of the source.
BeginRead(p, c, k) ==
    /\ c \in Readers /\ sourceRow[k] = "live"
    /\ Starts(p, c, k, "lock") /\ UNCHANGED sourceRow

\* The transaction that deletes the rows has committed, or the one that inserts them
\* has failed and the upload removes its object.
BeginDelete(p, k) ==
    /\ sourceRow[k] \in {"stored", "live"} /\ ~BeingPut(k)
    /\ sourceRow' = [sourceRow EXCEPT ![k] = "gone"]
    /\ Starts(p, "delete", k, "lock")

Inserted(k) ==
    /\ sourceRow[k] = "stored" /\ ~BeingPut(k)
    /\ sourceRow' = [sourceRow EXCEPT ![k] = "live"]
    /\ UNCHANGED <<inside, bucket, copy, fileless, call, place, object, trimming>>

-----------------------------------------------------------------------------
(* Steps of the calls *)

\* hasObject, which nothing protects from what follows it; a failure ends the import.
Has(p) ==
    /\ \/ object[p] \notin bucket /\ Step(p, "has", "lock")
       \/ Step(p, "has", "idle")
    /\ UNCHANGED store

LockKey_NotToDelete(p) ==
    /\ place[p] = "lock"
    /\ IF call[p] = "delete" THEN UNCHANGED inside ELSE Acquire(p, object[p])
    /\ GoesTo(p, IF call[p] \in {"put", "import"} THEN "upload"
               ELSE IF call[p] = "delete" THEN "remote" ELSE "look")
    /\ UNCHANGED <<store, call, object, trimming>>

LockKey(p) ==
    /\ place[p] = "lock" /\ Acquire(p, object[p])
    /\ GoesTo(p, IF call[p] \in {"put", "import"} THEN "upload"
               ELSE IF call[p] = "delete" THEN "remote" ELSE "look")
    /\ UNCHANGED <<store, call, object, trimming>>

\* After an error the object may have been stored all the same.
UploadObject(p) ==
    /\ bucket' \in {bucket, bucket \union {object[p]}}
    /\ \/ object[p] \in bucket' /\ Step(p, "upload", "keep")
       \/ Step(p, "upload", "fail")
    /\ UNCHANGED <<copy, sourceRow, fileless>>

\* LocalPath: a copy answers for the object, and is not made younger.
Look(p) ==
    /\ Step(p, "look", IF object[p] \in Copied THEN "unlock" ELSE "fetch")
    /\ UNCHANGED store

\* A title job that finds no file takes its source from the queue (ClearNeedsTitle), a hash
\* job gives it a placeholder (fingerprint.Missing); neither is done again.
NoFile(p) == fileless' = fileless \union ({<<call[p], object[p]>>} \intersect (Jobs \X Blobs))

\* GetObject: found, ErrNotFound, or an error that says nothing of the object.
Fetch(p) ==
    /\ \/ object[p] \in bucket /\ Step(p, "fetch", "keep") /\ UNCHANGED fileless
       \/ object[p] \notin bucket /\ Step(p, "fetch", "fail") /\ NoFile(p)
       \/ Step(p, "fetch", "fail") /\ UNCHANGED fileless
    /\ UNCHANGED <<bucket, copy, sourceRow>>

\* The temporary file is complete and gets its name, or the call fails.
Keep(p) ==
    /\ \/ /\ SetCopy(object[p], "young") /\ Step(p, "keep", "trim")
          /\ sourceRow' = IF call[p] = "put" THEN [sourceRow EXCEPT ![object[p]] = "stored"]
                                              ELSE sourceRow
       \/ Step(p, "keep", "fail") /\ UNCHANGED <<copy, sourceRow>>
    /\ UNCHANGED <<bucket, fileless>>

\* trimCache lists the directory; copies that are young in the list are spared.
Trim(p) ==
    /\ place[p] = "trim"
    /\ IF Cardinality(Copied) <= MaxCached
       THEN GoesTo(p, "unlock") /\ UNCHANGED trimming
       ELSE /\ GoesTo(p, "evict")
            /\ victims' = [victims EXCEPT ![p] = {k \in Blobs : copy[k] = "old"}]
            /\ total' = [total EXCEPT ![p] = Cardinality(Copied)]
    /\ UNCHANGED <<inside, store, call, object>>

\* Oldest first; which one that is, the model leaves open.
Evict(p) ==
    /\ place[p] = "evict"
    /\ IF total[p] > Want /\ victims[p] # {}
       THEN \E k \in victims[p] :
                /\ victims' = [victims EXCEPT ![p] = @ \ {k}]
                /\ total' = [total EXCEPT ![p] = IF k \in Copied THEN @ - 1 ELSE @]
                /\ SetCopy(k, "none")
                /\ UNCHANGED place
       ELSE /\ GoesTo(p, "unlock")
            /\ victims' = [victims EXCEPT ![p] = {}]
            /\ total' = [total EXCEPT ![p] = 0]
            /\ UNCHANGED copy
    /\ UNCHANGED <<inside, bucket, sourceRow, fileless, call, object>>

\* The error of DeleteObject is returned after the copy is removed, and ignored.
DeleteRemote(p) ==
    /\ bucket' \in {bucket, bucket \ {object[p]}}
    /\ Step(p, "remote", "local")
    /\ UNCHANGED <<copy, sourceRow, fileless>>

DeleteLocal(p) ==
    /\ SetCopy(object[p], "none")
    /\ Step(p, "local", "unlock")
    /\ UNCHANGED <<bucket, sourceRow, fileless>>

Unlocks(p, from, to) ==
    /\ place[p] = from /\ Release(p, object[p]) /\ GoesTo(p, to)
    /\ UNCHANGED <<store, call, object, trimming>>

UnlockKey(p) ==
    \/ Unlocks(p, "unlock", IF call[p] \in Readers THEN "open" ELSE "idle")
    \/ Unlocks(p, "fail", "idle")

\* openStoredFile and the jobs open the path; a file that does not exist is taken
\* for an object that does not exist.
OpenCopy(p) ==
    /\ Step(p, "open", "idle")
    /\ IF object[p] \in Copied THEN UNCHANGED fileless ELSE NoFile(p)
    /\ UNCHANGED <<bucket, copy, sourceRow>>

Grow ==
    \E k \in Blobs : copy[k] = "young" /\ SetCopy(k, "old")
        /\ UNCHANGED <<inside, bucket, sourceRow, fileless, call, place, object, trimming>>

CallStep(p) ==
    \/ Has(p) \/ UploadObject(p) \/ Look(p) \/ Fetch(p) \/ Keep(p) \/ Trim(p) \/ Evict(p)
    \/ DeleteRemote(p) \/ DeleteLocal(p) \/ UnlockKey(p) \/ OpenCopy(p)

CacheNext ==
    \/ \E p \in Callers, k \in Blobs :
           \/ BeginPut(p, k) \/ BeginImport(p, k) \/ BeginDelete(p, k)
           \/ \E c \in Calls : BeginRead(p, c, k)
    \/ \E k \in Blobs : Inserted(k)
    \/ \E p \in Callers : LockKey(p) \/ CallStep(p)
    \/ Grow

CacheSpec == CacheInit /\ [][CacheNext]_cacheVars

\* Every request to R2 has a deadline, and a Go mutex is fair.
FairCacheSpec ==
    CacheSpec /\ \A p \in Callers : WF_cacheVars(CallStep(p)) /\ SF_cacheVars(LockKey(p))

-----------------------------------------------------------------------------
(* Properties *)

\* A local copy never outlives its object: only a Delete that has not reached its
\* second half leaves one without the other, and it still has the key locked, so no
\* reader is given the copy (r2.go:400-422).  A LocalPath that has fetched the
\* object would otherwise bring a deleted file back.
CopyHasObject ==
    \A k \in Copied \ bucket :
        \E p \in Callers : Runs(p, "delete") /\ object[p] = k /\ place[p] = "local"

\* Every call ends: the waits for the lock of a key and the trims never block each other.
CallsEnd == \A p \in Callers : place[p] # "idle" ~> place[p] = "idle"

\* "ClearNeedsTitle retires a source from the title queue without claiming a title
\* for it, for files the engine can never read" (repo.go:535-536).
RetiredIsUnreadable ==
    \A k \in Blobs : <<"title", k>> \in fileless /\ sourceRow[k] = "live" => k \notin bucket

\* "Missing is a unique placeholder hash for a source whose blob is gone" (analyze.go:22).
MissingIsGone ==
    \A k \in Blobs : <<"hash", k>> \in fileless /\ sourceRow[k] = "live" => k \notin bucket

\* The two statements together: a state without this refutes both.
FilelessIsGone == RetiredIsUnreadable \/ MissingIsGone
=============================================================================
