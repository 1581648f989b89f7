------------------------------ MODULE UploadFlow ------------------------------
(***************************************************************************)
(* Uploads and removals as the clients see them: an upload stores its       *)
(* objects, two at a time, and then inserts the rows; a removal deletes the  *)
(* rows and then the objects.  No transaction spans the two stores, so an    *)
(* upload that fails removes what it has written.  The answer of a commit    *)
(* can be lost, and withTx then runs the transaction again (Create,          *)
(* AddSources, Delete, Reject in service.go; withTx in repo.go).             *)
(*                                                                          *)
(* Each transaction is one step: it locks its document row first.  Left out: *)
(* the checks of the form and of the permissions, and the jobs that follow.  *)
(***************************************************************************)
EXTENDS Integers, FiniteSets

CONSTANTS
    Uploads, Docs, Files,
    Creates,     \* the uploads that create their document; the others add to it
    DocOf, FilesOf, Erp,
    MaxSources, PutCap, Attempts

UploadAssumption ==
    /\ Creates \subseteq Uploads
    /\ DocOf \in [Uploads -> Docs] /\ FilesOf \in [Uploads -> SUBSET Files]
    /\ IsFiniteSet(Files)
    /\ \A r, q \in Uploads : r # q => FilesOf[r] \intersect FilesOf[q] = {}
    /\ MaxSources \in Nat /\ PutCap \in Nat \ {0} /\ Attempts \in Nat \ {0}

VARIABLES
    docs, rows, objects,          \* the database and the bucket
    progress,                     \* of an upload
    putting, written, failed,     \* its files that are being put, its result, its error
    slots,                        \* the channel put
    tries,                        \* attempts left to withTx, of an upload or a removal
    removal, toRemove,            \* of a document: the call that removes it, its keys
    lost,                         \* uploads whose rows were committed without an answer
    excused                       \* files whose object a fault may leave behind

database == <<docs, rows>>
upload == <<progress, putting, written, failed, slots>>
removing == <<removal, toRemove>>
uploadVars == <<database, objects, upload, tries, removing, lost, excused>>

Stages == {"new", "put", "insert", "cleanup", "done"}
Removals == {"none", "delete", "reject", "objects"}

Putting == UNION {putting[r] : r \in Uploads}

UploadTypeOK ==
    /\ docs \subseteq Docs /\ rows \subseteq Files /\ objects \subseteq Files
    /\ progress \in [Uploads -> Stages]
    /\ putting \in [Uploads -> SUBSET Files] /\ written \in [Uploads -> SUBSET Files]
    /\ failed \in [Uploads -> BOOLEAN]
    /\ \A r \in Uploads : putting[r] # {} => progress[r] = "put"
    /\ slots = Cardinality(Putting) /\ slots <= PutCap
    /\ tries \in [Uploads \union Docs -> 0..Attempts]
    /\ removal \in [Docs -> Removals] /\ toRemove \in [Docs -> SUBSET Files]
    /\ lost \subseteq Uploads /\ excused \subseteq Files

UploadInit ==
    /\ docs = {} /\ rows = {} /\ objects = {}
    /\ progress = [r \in Uploads |-> "new"]
    /\ putting = [r \in Uploads |-> {}] /\ written = [r \in Uploads |-> {}]
    /\ failed = [r \in Uploads |-> FALSE]
    /\ slots = 0
    /\ tries = [x \in Uploads \union Docs |-> Attempts]
    /\ removal = [d \in Docs |-> "none"] /\ toRemove = [d \in Docs |-> {}]
    /\ lost = {} /\ excused = {}

FilesIn(d) == UNION {FilesOf[r] : r \in {q \in Uploads : DocOf[q] = d}}
RowsIn(d) == FilesIn(d) \intersect rows

MovesTo(r, s) == progress' = [progress EXCEPT ![r] = s]

-----------------------------------------------------------------------------
(* storeFiles *)

HasRoom(r) == Cardinality(RowsIn(DocOf[r])) + Cardinality(FilesOf[r]) <= MaxSources

Allowed(r) ==
    IF r \in Creates THEN Cardinality(FilesOf[r]) <= MaxSources
                     ELSE DocOf[r] \in docs /\ HasRoom(r)

\* AddSources reads the document first, and does not hold it.
Begin(r) ==
    /\ progress[r] = "new"
    /\ MovesTo(r, IF Allowed(r) THEN "put" ELSE "done")
    /\ UNCHANGED <<database, objects, putting, written, failed, slots, tries, removing,
                   lost, excused>>

\* An error cancels the files that wait for a slot.
PutStart(r, f) ==
    /\ progress[r] = "put" /\ ~failed[r] /\ f \in FilesOf[r] \ (putting[r] \union written[r])
    /\ Cardinality(putting[r]) < 2 /\ slots < PutCap
    /\ putting' = [putting EXCEPT ![r] = @ \union {f}]
    /\ slots' = slots + 1
    /\ UNCHANGED <<database, objects, progress, written, failed, tries, removing,
                   lost, excused>>

PutEnds(r, f) ==
    /\ f \in putting[r]
    /\ putting' = [putting EXCEPT ![r] = @ \ {f}]
    /\ UNCHANGED <<database, progress, tries, removing, lost>>

PutOK(r, f) ==
    /\ PutEnds(r, f) /\ slots' = slots - 1
    /\ objects' = objects \union {f}
    /\ written' = [written EXCEPT ![r] = @ \union {f}]
    /\ UNCHANGED <<failed, excused>>

PutFails_Counts(r, f) ==
    /\ PutEnds(r, f) /\ slots' = slots - 1
    /\ written' = [written EXCEPT ![r] = @ \union {f}]
    /\ UNCHANGED <<failed, objects, excused>>

\* A file that could not be read, was too large or was not stored.  Put may fail
\* after R2 has the object, and the upload does not list it as written.
PutFails(r, f) ==
    /\ PutEnds(r, f) /\ slots' = slots - 1
    /\ failed' = [failed EXCEPT ![r] = TRUE]
    /\ \/ objects' = objects \union {f} /\ excused' = excused \union {f}
       \/ UNCHANGED <<objects, excused>>
    /\ UNCHANGED written

\* g.Wait.
Stored(r) ==
    /\ progress[r] = "put" /\ putting[r] = {} /\ (failed[r] \/ written[r] = FilesOf[r])
    /\ MovesTo(r, IF failed[r] THEN "cleanup" ELSE "insert")
    /\ failed' = [failed EXCEPT ![r] = FALSE]
    /\ UNCHANGED <<database, objects, putting, written, slots, tries, removing, lost, excused>>

-----------------------------------------------------------------------------
(* InsertDocument and InsertSources, under withTx *)

\* A second attempt after a lost commit finds its own rows: a document or a source
\* with its id.
Refused_Stale(r) ==
    IF r \in Creates THEN \E d \in docs : d = DocOf[r] \/ Erp[d] = Erp[DocOf[r]]
                     ELSE DocOf[r] \notin docs \/ FilesOf[r] \intersect rows # {}

Refused(r) ==
    IF r \in Creates THEN \E d \in docs : d = DocOf[r] \/ Erp[d] = Erp[DocOf[r]]
                     ELSE \/ DocOf[r] \notin docs
                          \/ FilesOf[r] \intersect rows # {}
                          \/ ~HasRoom(r)

Inserting(r) ==
    /\ progress[r] = "insert"
    /\ UNCHANGED <<objects, putting, written, failed, slots, removing, excused>>

InsertRows(r) ==
    /\ docs' = docs \union {DocOf[r]}
    /\ rows' = rows \union FilesOf[r]

\* The error is final, or withTx tries again: connection errors and timeouts.
Returned(x) == tries' = [tries EXCEPT ![x] = Attempts]
GivesUp(r) == MovesTo(r, "cleanup") /\ Returned(r)
TriesAgain(x) == tries[x] > 1 /\ tries' = [tries EXCEPT ![x] = @ - 1]

InsertRefused(r) ==
    /\ Inserting(r) /\ Refused(r)
    /\ GivesUp(r)
    /\ UNCHANGED <<database, lost>>

InsertOK(r) ==
    /\ Inserting(r) /\ ~Refused(r)
    /\ InsertRows(r) /\ MovesTo(r, "done") /\ Returned(r)
    /\ UNCHANGED lost

InsertFails(r) ==
    /\ Inserting(r)
    /\ \/ UNCHANGED <<database, lost>>
       \/ ~Refused(r) /\ InsertRows(r) /\ lost' = lost \union {r}
    /\ GivesUp(r) \/ (TriesAgain(r) /\ UNCHANGED progress)

\* The errors of Delete are ignored.
Delete(f) ==
    \/ objects' = objects \ {f} /\ UNCHANGED excused
    \/ excused' = excused \union {f} /\ UNCHANGED objects

Cleanup_Skipped(r) ==
    /\ progress[r] = "cleanup"
    /\ UNCHANGED <<objects, excused, written>>
    /\ MovesTo(r, "done")
    /\ UNCHANGED <<database, putting, failed, slots, tries, removing, lost>>

Cleanup(r) ==
    /\ progress[r] = "cleanup"
    /\ \/ \E f \in written[r] : Delete(f) /\ written' = [written EXCEPT ![r] = @ \ {f}]
          /\ UNCHANGED progress
       \/ written[r] = {} /\ MovesTo(r, "done")
          /\ UNCHANGED <<objects, excused, written>>
    /\ UNCHANGED <<database, putting, failed, slots, tries, removing, lost>>

UploadStep(r) ==
    \/ Begin(r) \/ Stored(r)
    \/ \E f \in Files : PutOK(r, f) \/ PutFails(r, f)
    \/ InsertRefused(r) \/ InsertOK(r) \/ InsertFails(r) \/ Cleanup(r)

-----------------------------------------------------------------------------
(* Delete and Reject *)

\* Only a document on hold is rejected: one that has files.
BeginRemoval(d, how) ==
    /\ removal[d] = "none" /\ d \in docs
    /\ removal' = [removal EXCEPT ![d] = how]
    /\ UNCHANGED <<database, objects, upload, tries, toRemove, lost, excused>>

RemoveRows(d) ==
    /\ rows' = rows \ FilesIn(d)
    /\ docs' = IF removal[d] = "delete" THEN docs \ {d} ELSE docs

RemovalOK(d) ==
    /\ removal[d] \in {"delete", "reject"} /\ d \in docs
    /\ removal[d] = "reject" => RowsIn(d) # {}
    /\ toRemove' = [toRemove EXCEPT ![d] = RowsIn(d)]
    /\ RemoveRows(d)
    /\ removal' = [removal EXCEPT ![d] = "objects"] /\ Returned(d)
    /\ UNCHANGED <<objects, upload, lost, excused>>

\* After a lost commit the next attempt finds no document, or one that is not on hold
\* any more, and the keys are forgotten.
RemovalFails(d) ==
    /\ removal[d] \in {"delete", "reject"}
    /\ \/ UNCHANGED <<database, excused>>
       \/ d \in docs /\ RemoveRows(d) /\ excused' = excused \union RowsIn(d)
    /\ \/ removal' = [removal EXCEPT ![d] = "none"] /\ Returned(d)
       \/ TriesAgain(d) /\ UNCHANGED removal
    /\ UNCHANGED <<objects, upload, toRemove, lost>>

RemoveObject(d) ==
    /\ removal[d] = "objects"
    /\ \/ \E f \in toRemove[d] : Delete(f) /\ toRemove' = [toRemove EXCEPT ![d] = @ \ {f}]
          /\ UNCHANGED removal
       \/ toRemove[d] = {} /\ removal' = [removal EXCEPT ![d] = "none"]
          /\ UNCHANGED <<objects, excused, toRemove>>
    /\ UNCHANGED <<database, upload, tries, lost>>

\* The files the calls of the process have still to do with.
UnderWay == {f \in Files : \/ \E d \in Docs : f \in toRemove[d]
                           \/ \E r \in Uploads : f \in FilesOf[r] /\ progress[r] # "done"}

\* The process ends: what was under way stays as it is.
Crash ==
    /\ excused' = excused \union UnderWay
    /\ progress' = [r \in Uploads |-> IF progress[r] = "new" THEN "new" ELSE "done"]
    /\ putting' = [r \in Uploads |-> {}] /\ written' = [r \in Uploads |-> {}]
    /\ slots' = 0
    /\ failed' = [r \in Uploads |-> FALSE]
    /\ tries' = [x \in Uploads \union Docs |-> Attempts]
    /\ removal' = [d \in Docs |-> "none"] /\ toRemove' = [d \in Docs |-> {}]
    /\ \E S \in SUBSET Putting : objects' = objects \union S
    /\ UNCHANGED <<database, lost>>

RemovalStep(d) == RemovalOK(d) \/ RemovalFails(d) \/ RemoveObject(d)

UploadNext ==
    \/ \E r \in Uploads : UploadStep(r) \/ \E f \in Files : PutStart(r, f)
    \/ \E d \in Docs : RemovalStep(d) \/ BeginRemoval(d, "delete") \/ BeginRemoval(d, "reject")
    \/ Crash

UploadSpec == UploadInit /\ [][UploadNext]_uploadVars

\* Every wait of a call has a deadline, and a channel serves its senders in order.
FairUploadSpec ==
    /\ UploadSpec
    /\ \A r \in Uploads : /\ WF_uploadVars(UploadStep(r))
                          /\ SF_uploadVars(\E f \in Files : PutStart(r, f))

-----------------------------------------------------------------------------
(* Properties *)

\* A document never has more than the allowed number of files, although AddSources
\* counts them before it stores anything and two of them may run (repo.go:286-292).
SizeLimit == \A d \in Docs : Cardinality(RowsIn(d)) <= MaxSources

\* Every stored row has its object, whatever fails and whatever is removed at the same
\* time, unless the commit that inserted it was applied without an answer: then the
\* upload has removed the objects of a document that stays (service.go:197-200).
RowsHaveObjects == \A f \in rows \ objects : \E r \in lost : f \in FilesOf[r]

\* An object nobody will ever remove is the trace of a fault: a Put that failed after
\* storing it, a failed request to delete it, a lost commit or the end of the process
\* (service.go:188-200, 257-263, 302-308).
NoOrphans ==
    \A f \in objects \ rows :
        \/ f \in excused
        \/ \E r \in Uploads : f \in FilesOf[r] /\ progress[r] # "done"
        \/ \E d \in Docs : f \in toRemove[d]

\* Every upload comes to an end, also when the slots for putting are taken.
UploadsEnd == \A r \in Uploads : progress[r] # "new" ~> progress[r] = "done"

\* "RejectPending removes every pending file from storage and the sources table"
\* (repo.go:583): when the removal has dealt with its last key, no object is left of
\* the rows it has removed.
RemovedFromStorage ==
    \A d \in Docs :
        removal[d] = "objects" /\ toRemove[d] = {} => FilesIn(d) \intersect (objects \ rows) = {}
=============================================================================
