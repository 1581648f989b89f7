# Formal model of the document backend

A TLA+ model of the Go service in `src/` (HTTP API, Postgres, R2 object store,
Redis events, worker pool, external title engine). This file says what the parts of
the system are, which module models which part, what the runs of TLC show, what
TLAPS proves, and what is left out. `PROJECT.json` holds the same facts line by line:
which definition stands for which lines, which run checks which property, which bug
in the code each property would find, and which hazards are covered.

Paths are relative to `src/internal/` unless they begin with `cmd/`.

## 1. The system

| part | code | state it keeps | operations |
|---|---|---|---|
| document corpus | `documents/repo.go`, `repo_fingerprint.go` | tables `documents`, `sources`, `duplicate_matches`, `fingerprint_lsh` | InsertDocument, InsertSources, FinalizeFingerprint, Approve, RejectPending, Delete |
| document service | `documents/service.go` | key maps `hashing`, `titling`, `similaring`; slots `heavy`, `titles`, `put` | Create, AddSources, Delete, Approve, Reject, RecoverPending, enqueue*/run* jobs, publishFingerprint |
| title queue | `documents/service.go`, `repo.go` | `title`, `needs_title`, `title_attempts`, `next_title_at` | SetSourceTitle, DeferTitleRetry, ClearNeedsTitle, HealSettledTitles, runTitleSource |
| title similarity | `documents/repo_title_similar.go`, `titlesim/sim.go` | `title_norm`, `title_similar_at`, `title_similarities` | similarSource, ReplaceSimilar; Align, wordScore, ScoreNorm |
| worker pool | `worker/pool.go` | `jobs` channel (512), workers, root context | Start, Submit, TrySubmit, loop/run, Stop |
| retry | `retry/retry.go` | none | Do, Transient, Jitter |
| realtime hub | `realtime/hub.go` | subscriber set, one buffered channel each | Subscribe, Publish, broadcast, sendLatest, ListenRedis/consume |
| notifications | `notifications/repo.go` | table `notifications` | NotifyAdminsOnce, NotifyUser, MarkRead, MarkAllRead |
| object store | `blob/r2.go`, `local.go` | remote objects, cache files, `cacheLocks` | Put, LocalPath, Delete, trimCache, lockCache, ImportDir, PurgeAll |
| engine client | `engine/client.go` | `sem`, `fast`, `fastLive`, health cache | title, yieldForInteractive, roundTrip, title text rules |
| fingerprints | `fingerprint/*.go` | none | Analyze, Bands, Hamming, PagesCompatible, IsDuplicate |
| connections | `postgres/postgres.go`, `redisx/client.go` | handle, ready flag | Run, connect, watch, set, migrate |
| accounts | `auth/*.go` | tables `users`, `sessions`; LoginGate | CreateUser, CreateSession, UserByToken, SetDisabled, Allow/Fail/Clear |
| HTTP API | `httpapi/*.go` | upload semaphore | routing, eventsStream, eventVisible |
| configuration | `config`, `memlimit` | none | cap*, LimitFor |

### How the parts interact

An upload (`Create`, `AddSources`) stores the objects, then inserts the rows in
one transaction, and then offers jobs to the pool: a fingerprint for every file, a
title for every PDF without one, a title comparison for every file with one. The
same three kinds of job are offered by the recovery sweeper, which lists the rows
whose work is not done, and a comparison by a title job that has stored its title.
The database is the only durable queue; the channel of the pool and the key maps
are lost when the process stops.

A hash job fetches the object through the cache of the blob store, waits for a
`heavy` slot, analyses the file and commits `FinalizeFingerprint`; then it reads
each document that the transaction touched and publishes it to the hub and, when
its mark was set, to the notifications. The hub broadcasts to the event streams of
this process and through Redis to those of the others. A title job waits for a
`titles` slot and calls the engine, whose own gates let interactive requests go
first. Admin decisions (`Approve`, `RejectPending`) and `Delete` run in
handlers, concurrently with all jobs of all processes.

### What is hard, and what correctness means

* **Corpus.** Files are fingerprinted in any order, by several processes, while
  documents are extended, decided and deleted. Correct: the status of a document is
  always the one its files imply; of two matching files each learns of the other;
  roles depend on upload order and not on processing order; a file on hold is not
  served and only an admin lifts the hold; whoever waits for the outcome is told.
* **Fingerprint transaction.** Six statements under READ COMMITTED with advisory
  and row locks. Correct: it is atomic, it misses no candidate, it never waits in a
  cycle, it ends, and a rolled back one is done again.
* **Pool and sweeper.** One bounded queue with three parties that feed it, some of
  which wait and some of which do not, and one of which is its own consumer.
  Correct: no source is worked on twice at once, no key outlives its job, every
  stored file is fingerprinted in the end, uploads and the sweeper are not stalled,
  and slow engine calls do not delay fingerprints.
* **Title queue.** A source may be in the lists of several sweeps, in the queue and in jobs
  of two processes at once, and a job does not look again whether its source is due.
  Correct: a settled title is never lost or queued again; a source that has been put off
  gets only the few jobs that were on their way; every source leaves the queue.
* **Title similarity.** Candidates are read before the locks of the write. Correct:
  both files list a pair, no similar pair is missed, and similar titles find each
  other although one of them waits for a sibling that never gets a title.
* **Object store.** Cached files are opened outside the lock of their path and trimmed
  by age. Correct: one call per path at a time, no copy outlives its object, a file
  in use is not taken for a lost one.
* **Uploads and removals.** Two stores and no common transaction; the answer of a
  commit can be lost and the transaction is then run again. Correct: every row has
  its object, nothing is left in the bucket without a fault, the limit of files holds.
* **Hub.** Full subscriber channels drop their oldest event. Correct: publishers
  never block, no stream is silenced, no event is delivered twice or out of order, but
  for copies of one whose PUBLISH the Redis client has repeated.
* **Notifications.** Correct: admins get one unread notice per document to review;
  no hold goes unmentioned without a fault; an outcome is told once.
* **Engine gates.** Correct: bounded calls, interactive requests first, and no
  background call is held up for ever by a count that is wrong.
* **Connections.** Correct: a handle that is handed out is migrated; each migration
  takes effect once, also when several processes of several versions start together.
* **Pure algorithms** (bands, page counts, alignment of titles). Correct: symmetric
  where the rest of the system relies on it, and no pair within the promised distance
  is missed.

## 2. The modules

| module | models | role |
|---|---|---|
| `Corpus` | the repository, one transaction per step | abstract specification of the database |
| `FingerprintTx` | extends `Corpus` with workers and locks | implements `Corpus` |
| `ReviewNotices` | extends `Corpus` with publishFingerprint and the notification table | composition |
| `JobPool` | pool, key maps, slots, upload handlers, sweeper, restarts | one process |
| `TitleQueue`, `TitleSimilarity` | the two derived queues of titles | several processes |
| `TitleScore` | the comparison of two titles, word by word | pure algorithm as a loop |
| `Fingerprints` | what is stored of a result, candidate queries, decision | pure algorithm; discharges assumptions of `Corpus` and `FingerprintTx` |
| `KeyMutex` | one mutex per key | abstract specification |
| `KeyLock` | lockCache, its table and reference counts | implements `KeyMutex` |
| `BlobCache` | extends `KeyMutex`: bucket, local copies, trimming | one process |
| `UploadFlow` | objects and rows, withTx with lost answers | one process and two stores |
| `RealtimeHub` | hubs of several processes, Redis between them | several processes |
| `EngineGate` | slots of the engine client | one process |
| `Connection` | connecting and migrating | several processes |
| `MCParts`, `MCProgress` | several parts in one run, see section 4 | model checking |
| `MC*` | constants of the runs | model checking |
| `CorpusProofs`, `FingerprintTxProofs`, `ReviewNoticesProofs`, `JobPoolProofs` | about the module of that name | theorems and proofs |
| `MatchingProofs` | about `Fingerprints` and `TitleSimilarity` | theorems and proofs |
| `TitleProofs` | about `EngineGate`, `TitleQueue` and `TitleScore` | theorems and proofs |
| `StorageProofs` | about `KeyLock`, `BlobCache` and `UploadFlow` | theorems and proofs |
| `ProcessesProofs` | about `Connection` and `RealtimeHub` | theorems and proofs |

A definition named `X_Y` is `X` with the plausible bug `Y`; no specification uses
it. It shows which mistake a property would find.

Modules are joined by assumptions as well. `Corpus` takes for granted that matching is
symmetric and that every match is a candidate, `FingerprintTx` that two files a query
joins have a lock key in common: `Fingerprints` models the columns, keys and queries
those constants stand for, and `MatchingProofs` proves both. `BlobCache` takes its
locks as `KeyMutex` promises them, which `KeyLock` implements (proved).
`TitleSimilarity` allows titles that are similar from one side only, because
`TitleScore` shows that the code's score is not symmetric.

## 3. What is modelled

### Corpus

State: one row of `documents` is `docStatus` (with "none" and "deleted" for no row),
`notified` and `reviewAsked`; one row of `sources` is its membership in `live` with
`hash`, `uniq` and `released`; `dup` is the table `duplicate_matches`.

| action | code |
|---|---|
| `Create`, `AddSources` | InsertDocument, InsertSources |
| `Finalize` | FinalizeFingerprint, from the row locks to the commit |
| `Approve`, `Reject`, `Delete` | Approve, RejectPending, Delete |

Abstractions. A fingerprint is what it makes the queries return: `Near` holds the
pairs that the exact and band queries join, `Match` those that confidentMatches
keeps; both are constants, any relations with `Match` symmetric and inside `Near`.
`Rank` is the order of uploads with its tie-break by id (uploadedFirst). It need not
agree with the order of insertion: `now` is taken before the files are stored, and
every instance has its own clock. The difference between the nanoseconds in memory
and the microseconds that Postgres keeps is abstracted. A missing blob gets a
placeholder hash and matches nothing. `AdminOwned` says which files are released at
once. Scores, labels, notes and all listings are left out.

`Touchable` is nondeterministic in one point: the documents are collected before
they are locked, so a document whose candidate is removed in between is recomputed
too.

### FingerprintTx

Adds, for each worker, the stage of its transaction, its source, whether the blob was
there and the candidates it has found, and the owners of advisory and row locks.
One action per statement that can block or whose result is used later: `Begin`
(hashSource has read the row and analysed the file), `LockKey`, `Query`, `LockDoc`,
`Commit` (everything after the locks, which is invisible to others until the
commit), `GiveUp` (the source is gone, or another process has hashed it) and `Abort`
(rollback for any reason, at any point). The other transactions of the corpus hold
one row lock and take no other, so each is a single step (`Other`) that needs the
row. The workers are those of all processes; two may work on the same file.

Assumed of the code and of Postgres: files that a query joins share a lock key
(proved in `MatchingProofs`); different keys have different lock numbers
(hashtextextended does not collide); locks are held to the end of the transaction; a
statement sees what was committed when it began. Left out: the row locks that title
writes take on `sources`.

### ReviewNotices

`Corpus` with the workers' work after a commit: `todo`, `news` and `own` are the
result of FinalizeFingerprint, `cur` is the document a worker is at, as it has read it,
with the place in publishFingerprint and NotifyAdminsOnce; `lock` is the advisory lock
of a notice; `unread` and `told` count notices. `asked`, `lost` and `rounds` are history:
whether admins have been asked since the last hold, which documents a fault has hit,
and how often a document went through processing or was decided. Left out: the result
that an attempt of withTx leaves behind when it is rolled back after the mark was set,
see the end of section 5.

| action | code |
|---|---|
| `Fingerprint` | `Corpus!Finalize` and the result it returns |
| `ReadDoc`, `Dispatch` | the loop of publishFingerprint and the choice of the notice |
| `LockNotice`, `FindUnread`, `InsertNotice`, `NoticeFails` | NotifyAdminsOnce |
| `TellOwner`, `GetFails`, `Crash` | notifyReview's second half; the ways to break off |
| `Upload`, `Decide`, `Remove`, `MarkRead` | Create/AddSources, Approve/Reject, Delete, MarkRead/MarkAllRead |

### JobPool

State: five sets of sources say what the queries of the sweeper see of the rows;
`queue` is the channel; `hashing`, `titling` and `similaring` are the key maps;
`stage` and `job` say where a worker is in its job; `phase` and `todo` are the
position of a handler or of the sweeper in its loops; `pending` is the job that an
actor has built, with its key stored, and not yet submitted.

| action | code |
|---|---|
| `Upload`, `HandlerStep`, `Enqueue` | Create from InsertDocument to its three enqueue calls, and their loops |
| `Send`, `Busy` | Submit and TrySubmit, with the removal of the key after ErrBusy |
| `ListUnhashed`, `ListNeedingTitle`, `ListNeedingSimilar`, `SweepEnds` | RecoverPending and RunRecovery |
| `Take` | loop, run, and the first lines of a job |
| `AcquireHeavy`, `MissingBlob`, `Analyzed`, `Publish` | hashSource, publishFingerprint |
| `AcquireTitle`, `Titled`, `Settled`, `NoFile`, `Defer`, `TitleEnds` | runTitleSource and afterPrintedTitle |
| `Compare` | similarSource |
| `Retry`, `Fail` | retry.Do, and the job that ends without a result |
| `Restart` | the process stops and the next one starts: the rows remain |

Times are abstracted: whether a row is 15 s old, whether a retry is due and how long
the sweeper pauses are free choices. A file is "printed" (the form sent a title),
"untitled" (a PDF without one) or "image". Left out: panics in jobs, deletion of
documents, previews (they share the heavy slots), `Stop` while jobs still run, and
other processes.

### TitleQueue

`title` is the text of a row as far as TitleSettled and the SQL of the queue tell
texts apart: they disagree on a heading that ends in .pdf ("dotted"), which only
migrations 009 and 012 have queued. `due` is `next_title_at`: NULL, still to come,
come. `listed` is what the sweep of a process has listed and not yet submitted, `uploaded`
what its uploads have stored and not yet submitted. A job is at "queued" (it has its key),
"slot" (it has looked for a title) or "engine". Jobs of two processes may work on one
source. `awaiting` and `early` are history: the rows that a job has put off and whose
delay is not over, and how many other jobs each of them has or gets until then.

| action | code |
|---|---|
| `Insert` | the rows of an upload, whose jobs are still to be submitted |
| `List` | ListNeedingTitle, up to its limit |
| `Enqueue`, `Skip`, `SettleListed` | enqueueTitle for one row of a list: the job, a job that is there already (or a full queue, for an upload), a heading that is a title |
| `Forget` | the query fails or the process ends |
| `Run`, `Ask`, `FileGone`, `Titled`, `Untitled`, `Retry` | runTitleSource with titleSource |
| `Unread` | a query of the row fails and the job goes on without it |
| `TimesOut` | the context of the job, or its process, ends, and with it the deferral |
| `DelayPasses`, `HealSettledTitles` | the time in `next_title_at`; the query of that name |

Any time may pass between a listing and the submission of its rows (Submit waits for a full
queue), and nothing between the listing and the engine reads `next_title_at` again.

### TitleSimilarity and TitleScore

`TitleSimilarity` has the columns as sets of sources, the table as a set of pairs,
and for each worker its place in similarSource: `SetTitleNorm`, `ListCandidates`,
`HasUnready`, `ReplaceSimilar`, and `Abort` anywhere. Titles arrive and files are
removed meanwhile. ReplaceSimilar is one step, because its advisory locks serialise
transactions that write one pair; the candidates were read before.

`TitleScore` is the loop of Align over the words of two titles, one step per word of
the left title, and then ScoreNorm. The words of the instance are real words with
their real distances, given as a table (`Spelling`); the edit distance itself and
the normalisation of letters are not modelled.

### KeyMutex, KeyLock, BlobCache

`KeyLock` is lockCache at the grain of its critical sections: `Enter` finds or makes
the entry of a key and counts the caller, `Lock` takes its mutex, `Unlock` releases it,
`Leave` takes the reference back and drops the entry with the last one. `KeyMutex` is
what it is for.

`BlobCache` composes that promise with the bucket, the local copies with their age
("young" is within 30 s of its writing), the state of the rows (only a live row is
read), and calls of Put, ImportDir, LocalPath (of a response, a title job, a hash
job) and Delete. Each request to R2 may fail after taking effect or before; a copy
is trimmed by any call, with no lock of its key; a caller of LocalPath opens the path
after the unlock. All copies have size one.

### UploadFlow

`docs`, `rows` and `objects` are the two stores; `progress`, `putting`, `written`,
`failed` follow an upload through storeFiles, and `slots` is the channel `put`;
`removal` and `toRemove` follow Delete and Reject. `lost` and `excused` are history: which
uploads were committed without an answer, and which objects a fault may leave.

| action | code |
|---|---|
| `Begin`, `PutStart`, `PutOK`, `PutFails`, `Stored` | the check of the number of files that Create and AddSources make (`Allowed`), and storeFiles with its error group |
| `InsertOK`, `InsertRefused`, `InsertFails` | InsertDocument/InsertSources under withTx, a commit whose answer is lost, another attempt |
| `Cleanup` | the removal of what was written |
| `BeginRemoval`, `RemovalOK`, `RemovalFails`, `RemoveObject` | Delete, RejectPending, deletion of the objects |
| `Crash` | the process ends anywhere |

### RealtimeHub

`chan` is the buffer of a stream, `seen` what it has written to its client, `event`,
`todo` and `sending` the place of a broadcast: which streams it has still to offer
its event and at which of the three selects of sendLatest it is. `wire` is what Redis
has not yet delivered to a process; it delivers in order, or drops what is on its way.
`TrySend`, `DropOldest`, `SendOrLose` are the selects, `Finish` the PUBLISH that is
answered or given up, `Consume` the listener, `Subscribe`, `Unsubscribe`, `Receive` the
handler.

The client has `MaxRetries: 3` (`redisx/client.go`, 87), so a PUBLISH without an answer is
sent again. `LoseReply` is such a call, and `Execute` its arrival in Redis, before
the next attempt, after it, or never; each arrival puts the event on every wire once
more. `unanswered` are the calls that have not arrived, `unsure` the events that had one,
`lost` their number. The bound is one of all events together; the proofs hold for any.

### EngineGate

`place` of a call in title, `tries`, and the counter `fastLive`. `Enter`, `ReadBody`,
`Yield` (yieldForInteractive, before the slot and before each attempt), `TakeSlot`,
`Answered`, `Failed`, `Wake`, and `Expire` (the context ends at any wait).

### Connection

Per process the phase of Run/connect/migrate/watch, the migration it is at, the
handle, the ready flag and the failed pings; of the database the rows of
`schema_migrations` and the migrations that took effect, in their order. `Dial`,
`Check`, `Body`, `Record`, `Commit` are the steps of connect and migrate (a process
waits for a row another transaction has inserted, and is refused after its commit);
`Ping`, `PingFails`, `ConnectFails`, `Restart` are the rest.

### Fingerprints

`row` is what FinalizeFingerprint has stored of each result: hashes, bands, pages.
`Fingerprint` writes it, for any result that Analyze can have; `LockKeys` is
fingerprintLockKeys, `Indexed` the rows of `fingerprint_lsh`, `Hits` and `Merged` the
candidate queries and mergeMatches, `IsDuplicate` and `PagesCompatible` the rules of
confidentMatches. How texts and hashes are computed is left out; a hash is the set of
its bits.

## 4. What the runs check

A configuration is run with `tlc -workers 2 -config <cfg>.cfg <module>` in this
directory; `PROJECT.json` names the module and the file of every run.

| run | bounds | shows |
|---|---|---|
| `corpus` | 3 documents, 5 files, matches in a chain b-a-c-e-f with one near miss, one document of an admin, 2 files per document | six invariants and two action properties of `Corpus` |
| `fingerprint_tx` | 3 workers, 3 files, 2 documents, 3 keys, 1 rollback | refinement of `Corpus`, no candidate missed, no cycle of waiting |
| `notices` | 2 workers, 3 files of 2 documents, an admin's and a member's, 1 fault | one unread review notice, no hold unmentioned, outcomes told once |
| `job_pool` | 2 workers, 1 request with a printed and an untitled file, a queue of 2, a batch of 1, restarts at any time | keys and jobs agree, one hash job per source, titles stand |
| `hub` | 2 processes with a publisher and a stream each, a buffer of 1, 2 events, 1 PUBLISH without an answer | order and single delivery but for copies of that PUBLISH, nobody silenced, publishing ends |
| `parts` | seven parts, see below | the safety of the smaller parts |
| `progress` | seven parts, see below | liveness, the exact count of forms, mutual pairs of similar titles |
| `corpus_held`, `job_pool_stuck`, `job_pool_stalls`, `title_similar_lost`, `blob_cache_trim` | smaller instances | statements of comments that do not hold, see section 5 |

**Several parts in one run.** `MCParts` and `MCProgress` put parts of the system that
share no state side by side. A variable `part` is chosen at the start and never
changes; only the steps of that part are taken, and the variables of the others keep
their initial values. Each behaviour is therefore one of a single part, and a property
of a part says about it exactly what it would say in a run of its own. `MCParts` extends
the modules of its parts, so the definitions that it checks are the ones the theorems are
about. `MCProgress` extends two of them and instantiates the others with variables of its
own. In `MCProgress` a property has the form `part = "x" /\
Fairness => Property` with the fairness that the module of `x` states; the formulas of
fairness belong to the property because the parts have different ones.

* `parts`: `KeyLock` (3 calls, 2 keys, 2 lock values), `BlobCache` (2 calls, 2 objects,
  one of them imported from the local disk, room for one copy, responses and title
  jobs), `UploadFlow` (a create and two additions of one file to a document with room
  for one of them, one slot for putting, two attempts), `Connection` (one old and two
  new processes, 2 and 3 migrations, 4 faults, 2 failed pings), `Fingerprints` (all
  pairs of results over 2 digests, 2 texts, hashes of 4 bits in 2 bands, page counts
  around the boundary of 8), `TitleQueue` (2 sources, one queued by a migration; two
  processes with 3 workers; 1 fault), `TitleScore` (all pairs of titles of 2 words out of six or
  of 3 out of four, with the real distances of the words).
* `progress`: `EngineGate` (2 forms, 2 jobs, one slot each, 2 attempts), `JobPool` (1
  worker, no engine), `FingerprintTx` (2 workers, 2 matching files with two common
  keys, 2 rollbacks), `TitleQueue` (1 source, 2 processes of one worker, 2 faults), `Connection` (3
  processes, 3 faults), `TitleSimilarity` twice: for safety a chain of three titles, two of
  them similar from one side only, one match kept per file and two workers; for liveness
  3 files, 1 worker and 1 job cut off.

**Why these bounds are enough to be interesting.** In the corpus a chain of five gives a
file every position it can have: earlier and later matches at once, matches in its own
document and in others, and a pair of matches that do not match each other; an admin's
file among them makes held and released duplicates neighbours. A third document lets a
fingerprint touch documents of two other files. Three workers are needed for a cycle
that is not a pair, and one rollback shows that nothing remains of it. In the pool a
queue of two fills with the jobs of one upload, and the second worker lets two jobs of a
source overlap. A lost and a repeated commit, a cleanup and a removal of the same object
need one create, one addition and two attempts; the second addition is there for the
limit. A buffer of one is full at once, so two events are enough for one to push out the
other, and a copy of the first is the third broadcast, which meets another on the full
buffer; the second process adds the way through Redis. `MCRealtimeHubTypes` checks the
same safety with three events. In the title queue a source that has been put off can get
an early job from the list of either sweep and from the job of the other process, which
needs two processes; one fault cuts off a job or a list at any point. Two faults are enough to lose the answer of a commit and the call that comes after it. For
migrations the third process is the one that arrives after two others have met; the old
one has a shorter list. One worker more than a process has is used wherever a key map
protects a process only.

`MaxAborts`, `MaxFaults`, `MaxLapses`, `MaxCuts`, `MaxEvents` and `MaxLost` are bounds of the
model only; all other constants are parameters of the program, set small.

**Symmetry** is used in safety runs only: workers (`fingerprint_tx`, `job_pool`,
`notices`), and in `parts` the two calls of `BlobCache` and the two
additions together with their files. The processes of `KeyLock` are not permuted.

**`CHECK_DEADLOCK FALSE`** stands where the system may stop: when every id of the
instance has been used, every event published or every call made, nothing is left to do. In
`JobPool` a restart is always possible, so the check would say nothing of the pool;
`PickedUp` is the property that finds a pool in which nobody can move.

### Fairness

* `FingerprintTx`: strong fairness of each worker's `Step`, because Postgres queues the
  requests for a lock and grants them in order, so a waiter is not overtaken for ever;
  strong fairness of `Begin` per file, because the sweeper lists an unhashed row in
  every sweep and the pool runs what it lists. Rollbacks are bounded: a transaction that
  is rolled back every time never ends.
* `JobPool`: weak fairness of each worker and of the loops of handlers and sweeper (they
  are goroutines that run until they block); strong fairness of `Send`, because a Go
  channel serves blocked senders in the order in which they came; strong fairness of a
  listing of all unhashed rows, because a row is listed by every sweep once it is 15 s
  old. From some time on the process is not restarted and no attempt to fingerprint an
  unhashed row fails: a program that is killed during every attempt fingerprints
  nothing. The part in `progress` has no engine because with one `PickedUp` does not
  hold (`job_pool_stuck`); both have the same fairness.
* `TitleQueue`: delays pass; a sweeper runs for ever, lists what has been due longest first
  and deals with its list row by row (strong fairness, because a list can be cut off);
  jobs proceed; and the engine, asked about a source again and again, has an answer in the
  end. Failed attempts (`Retry`) need no bound of their own.
* `TitleSimilarity`: jobs proceed, and the sweeper starts one for every row without a
  stamp again and again.
* `EngineGate`: a call proceeds, and slots are given in order. Nothing is assumed of
  contexts that end.
* `Connection`: Run never stops trying. Faults are bounded.
* `RealtimeHub`: broadcasts proceed; no stream need ever receive.

### Further configurations

Configurations that are not listed as runs, with what TLC says of them:

| configuration | module | result |
|---|---|---|
| `MCPartsTypes`, `MCProgressTypes` | `MCParts`, `MCProgress` | the type invariants of all parts hold |
| `MCRealtimeHubTypes` | `MCRealtimeHub` | with 3 events the type invariant, `SeenInOrder` and `NeverSilenced` hold |
| `MCReviewNoticesLive` | `MCReviewNotices` | a held document reaches the admins (`HeldIsBrought`), under weak fairness of the workers; type invariant |
| `MCUploadFlowLive` | `MCUploadFlow` | two creates with one number: every upload ends (`UploadsEnd`) |
| `MCBlobCacheLive` | `BlobCache` | every call of the cache ends (`CallsEnd`) |
| `MCEngineGateForms` | `EngineGate` | forms are served even if no job ever moves (`FormsEnd`) |
| `MCTitleQueueLeave` | `MCTitleQueue` | a row that a migration has queued, and one that it has not, leave the queue (`AllLeave`) |
| `MCRealtimeHubSlow` | `MCRealtimeHub` | `KeepsLatest` is violated, see section 5 |
| `MCRealtimeHubRepeat` | `MCRealtimeHub` | with one PUBLISH without an answer, `SeenOnce` is violated |
| `MCUploadFlowReject` | `MCUploadFlow` | `RemovedFromStorage` is violated |
| `MCTitleQueueEarly` | `MCTitleQueue` | `DelayIsKept` is violated without any fault, `EndsDeferred` with one (`-continue` shows both) |
| `MCTitleScoreDice` | `MCParts` | `SharedIsSymmetric` is violated |

## 5. Where the code and its comments disagree

Shown by runs:

* **A duplicate can be shareable before an admin acts** (`corpus_held`). A member's
  file that was fingerprinted first is unique, released and in a completed document.
  The fingerprint of an earlier upload turns it into a duplicate, and since
  `released` is only written for the file that is being fingerprinted
  (`documents/repo_fingerprint.go`, 210-225) its document goes to `duplicate`, which
  is shareable. The comment in `documents/public.go`, 9-11, says otherwise. Held
  files stay hidden all the same (`HeldNeverShared`, proved).
* **The pool can stop for good** (`job_pool_stuck`). A title job submits the
  comparison from inside a worker, with Submit and the context of the pool, not that of
  the job. If the queue is full and every worker is at that point, nobody receives any
  more, and the 4 minutes of the job do not end the wait. The queue does fill: an
  unhashed row has a key only while its job runs, so each sweep queues the waiting rows
  again. The run has one worker; with more workers each needs a title job at that point.
* **The sweeper can block on a full pool, a saturated pool can stall an upload, and a
  slow engine can stall duplicate detection** (`job_pool_stalls`, a state in which all
  three happen): the sweeper waits in Submit for titles and comparisons; for a file
  whose form has sent its title, enqueueTitle calls afterPrintedTitle, which always
  waits; the slots of fingerprints and titles are separate, the workers are not.
* **Two similar titles can miss each other for good** (`title_similar_lost`). A job lists
  its candidates before the other title is there; the job of the other title writes the
  pair; the first job then deletes all rows of its source and writes none. Both are
  stamped, so no sweep compares them again: the state that migration 018 repairs.
* **A stored file can be taken for a lost one** (`blob_cache_trim`): trimCache, run by
  any call, may remove a copy between LocalPath and the open. The title job then leaves
  the queue, and the hash job publishes the placeholder of a missing file, which matches
  nothing and is final.

Shown by the further configurations:

* **The latest event can be lost** (`MCRealtimeHubSlow`). `sendLatest` under two
  concurrent broadcasts: both find the buffer full, both remove an event, the older one
  takes the room, and the newer one is dropped in the third select (`hub.go`, 71).
  `hub_test.go`, 8-24, expects a slow subscriber to have the latest event; it publishes
  from one goroutine. `NeverSilenced` is what does hold.
* **Objects of a rejection can stay** (`MCUploadFlowReject`). RejectPending "removes every
  pending file from storage" (`documents/repo.go`, 583); errors of the deletions are
  ignored (`service.go`, 302) and nothing refers to the object any more.
* **An event can be seen twice** (`MCRealtimeHubRepeat`). Redis has executed a PUBLISH whose
  answer is lost; the client sends it again (`redisx/client.go`, 87; `hub.go`, 101), and
  the listener of another process, which recognises only the events of its own, broadcasts
  both. The copy can also come after a later event of the same publisher. `SeenInOrder`
  therefore excepts such events, and says that they disturb no other.
* **The delay of a title is not always kept** (`DelayIsKept` in `MCTitleQueueEarly`). A sweep has a row in
  its list while the job of its upload, or of another process, asks the engine in vain and
  puts the row off; the sweep then submits it (`service.go`, 689-720) and its job
  does not look at `next_title_at` (1011-1022). `BacksOff` is what does hold: at most
  twice as many such jobs as there are processes, then none until the delay has passed.
* **The engine can be asked again at once** (`EndsDeferred` in `MCTitleQueueEarly`). When the context of a
  job has ended, the deferral it makes fails with it (`service.go`, 1081), the row is
  still due, and the next sweep lists it: no back-off (`repo.go`, 508-510).
* **The title score is not symmetric** (`MCTitleScoreDice`). `titlesim/sim.go`, 9-10,
  describes a Dice coefficient; the greedy alignment (112) gives a word to the first
  that wants it, so the number of shared words depends on the order of the arguments.

Read in the code and not shown by a run:

* **An outcome can be told for a mark that was rolled back.** The result of
  FinalizeFingerprint is written by the function that withTx runs again after a failed
  attempt, and an attempt does not reset it. If the first one has set the mark of a document
  and is rolled back, and the second finds that another process has hashed the file
  meanwhile (`repo_fingerprint.go`, 121-124), publishFingerprint still sees the mark of the
  first, and both processes tell the outcome. `ReviewNotices` has a transaction
  that is rolled back leave nothing behind, so `OutcomeToldOnce` says nothing of this case;
  with the flag in the state the instance has too many states for a run.

## 6. What is proved

`tlapm <module>Proofs.tla` checks the proofs of a module. They hold for all values of
the constants that satisfy the named assumptions: `CorpusAssumption`, `KeysAssumption`,
`NoticeAssumption`, `PoolAssumption`, `LockAssumption`, `ConnectionAssumption`,
`BandsAssumption`, `GateAssumption` and `HubAssumption`. TLC evaluates each of them in the
runs that extend its module. `CacheAssumption`, `UploadAssumption`, `QueueAssumption`,
`ScoreAssumption` and `SimilarAssumption` are named without being asserted and are
hypotheses of the theorems; `PartsAssumption` and `ProgressAssumption` let TLC evaluate
them for the values of the runs.

| module | properties of runs, proved | refinement, other results |
|---|---|---|
| `CorpusProofs` | `StatusDerived`, `HeldNeverShared`, `MatchComplete`, `RolesSound`, `RolesByUploadOrder`, `FinishedIsAnnounced`, `ReleaseIsDecided`, `RejectionStands` | types |
| `FingerprintTxProofs` | `NoCandidateMissed`, `NoWaitCycle` | implements `Corpus`; `HeldNeverShared` carries over |
| `ReviewNoticesProofs` | `OneNoticePerReview`, `AdminsAreAsked`, `OutcomeToldOnce` | types |
| `JobPoolProofs` | `KeysHaveJobs`, `HashedByOne`, `TitleStands` | types |
| `MatchingProofs` | `MatchIsMutual`, `CloseIsMatch`; `PairsAreMutual` | candidates share a key; types |
| `TitleProofs` | `CountIsExact`; `SettledLeaves`, `BacksOff`; `GreedyIsFair` | slots are not oversubscribed; scores are at most 100; types |
| `StorageProofs` | `IsKeyMutex`; `CopyHasObject`; `SizeLimit`, `RowsHaveObjects`, `NoOrphans` | the table is sound and has no unused entry; types |
| `ProcessesProofs` | `AppliedOnceInOrder`, `HandedOutMigrated`; `SeenInOrder`, `NeverSilenced` | types |

With these, every safety invariant, every action property and both refinements that the
passing runs check are stated by a theorem.

**The invariant of Corpus** (`Inv`). `HeldNeverShared` is not inductive: a document is
recomputed only when a transaction touches it. It follows from `StatusDerived` (the
status is what the files imply) and `HeldIsDuplicate` (an unreleased file is a
fingerprinted duplicate, so its document is `pending_review` or `processing`).
`HeldIsDuplicate` needs that a duplicate never becomes an original; that is `RolesSound`
with the case of MatchRole that keeps a duplicate. `StatusDerived` needs that a
transaction touches the document of every file whose columns it changes (the files it
matches are candidates, `MatchesFacts`) and that the status of the others depends on
their own files only (`StatusIsLocal`). `NextInv` has one step per action, and the lemmas
`InsertInv`, `FinalizeInv`, `ApproveInv`, `RemoveInv` one per conjunct that the action
can disturb.

**`RolesByUploadOrder`** is stated only while nothing has been removed (`spent = live`).
A removal makes that false for good, because an id that was used is never `live` again,
so only uploads, decisions and fingerprints have to be looked at; of these,
`FinalizeRoles` shows that the new file and each of its matches end with the role that
the order of uploads gives them, whichever of them was fingerprinted first.

**The refinement of Corpus.** All steps of `FingerprintTx` but `Commit` and `Other` leave
the corpus alone, and `Other` is a step of `Corpus`. `CommitIsFinalize` shows that
`Commit` is `Finalize(s, k, ids)`: the matches that survive the second reading are those
a query would return now. One half is that what was found and lives still matches
(`FoundSound`: hashes of live rows do not change). The other, `NoCandidateMissed`, is the
point of the advisory locks: a new candidate would be hashed by the commit of another
worker whose file is near to this one, so both have a key in common, which each of them
holds (`KeysHeld`), so they are the same worker. That near files have a key in common is
an assumption here and a theorem of `MatchingProofs`.

**`NoWaitCycle`.** A worker takes its keys in ascending order and then its documents in
ascending order (`KeysInOrder`, `DocsInOrder`), and the locks that are
taken at a time have an upper bound (`LocksBounded`). In a set of workers that all wait
for each other one waits for the greatest lock; its owner holds that lock and waits for
one that is not greater, which contradicts the order (`OrderPreventsCycles`).

**ReviewNotices** (`NoticeInv`). `LockHeld` and `NothingUnread` give `OneNoticePerReview`:
what the query has found still holds at the insert, because every other worker would need
the lock. For `AdminsAreAsked` the invariant names a worker that will still ask
(`HeldIsAsked`). The worker whose transaction put the document on hold is one: that a
fingerprint holds no document but its own (`OnlyOwnIsHeld`) follows from the invariant of
`Corpus`. For `OutcomeToldOnce` the announcements made, those that workers still owe
(`Bearers`) and the mark that is still free are counted together (`NewsCounted`).

**JobPool** (`PoolInv`). Each job with a key is in at most one of the queue, the workers
and the waiting senders, and is in one of them exactly when its key is in the map
(`JobKeys`), so counting gives `KeysHaveJobs`; a hash job is run by at most one worker,
exactly while its key is there (`HashKeys`), though it may be queued many times.
`OnlyStored` keeps apart what is queued and the files of requests that are still to be
stored, and `WorkersSubmit` says where a worker can be while it waits for the queue.

**KeyLock** (`LockInv`). A lock counts the processes that have taken a reference and not
given it back, an entry of the table is the lock of all users of its key, and a lock
without users is not in the table. The mapping to `KeyMutex` takes the holder of a key to
be the holder of its lock; two processes with one key use one lock, which is what fails
if the entry is deleted too early.

**Connection** (`ConnInv`). A process that inserts the row of a migration has found all
earlier ones, and no other process has an uncommitted row of the same version (`Found`).

**Fingerprints.** `Bands` of two hashes that differ in at most `MaxDist` bits agree in at
least one place because there are more bands than bits that differ; a match is
symmetric because both the queries and the thresholds are. The first is needed by
`CloseAlwaysMatch`, both are about the operators and not about steps.

**EngineGate.** A step moves one call (`GateSteps`), and `OneMoves` says what that does to
the number of calls in a set of places. The count of forms and the use of both kinds of
slot are such numbers.

**BlobCache** (`CacheInv`). A call between its lock and its unlock is the only one with
its object (`Alone`), which rests on `KeyMutex`. So when a call keeps a copy, the object
it has put or read is still in the bucket (`KeptIsStored`), and between the deletion of
the object and that of the copy the copy is excused by the deleter itself: nobody else is
at a removal (`DeletersDelete`). Trimming only removes copies and needs no lock here;
that it may remove a copy that is about to be opened is the violation in section 5.

**UploadFlow** (`UploadInv`). `RowsHaveObjects` needs to know that what an upload has
written stays until its rows are there (`WrittenIsStored`): its own cleanup starts only
after the insert has failed, other uploads have other files (`UploadAssumption`), and a
removal only deletes objects of rows that it has removed, of uploads that are over
(`RowsAreFinal`, `LeftAreFinal`). All of these exempt uploads in `lost`, whose commit took
effect without an answer, and the action that makes an upload lost is the only one that
can break them. `NoOrphans` needs the converse, that an upload which is not over knows
its objects (`StoredIsWritten`), but for those in `excused`. `SizeLimit` counts: an
addition is inserted under the row lock, where the number of rows is read again; a create
has checked its number before (`CreatesFit`), and finds a document without rows
(`RowsHaveDocs`).

**RealtimeHub.** `NeverSilenced` needs the route of a broadcast only (`Routed`): a thread
that has emptied a place of a stream still has its own event to offer (`SendSteps` lists
what a step of `sendLatest` does). `SeenInOrder` follows an event from its publisher to
the client (`InOrder`): for each stream, whatever is behind on the way is later than what
is ahead, among the events of one publisher. The conjuncts are the places on that way: the
client and the buffer, the thread that is about to send, the wire and the listener of the
process, the publisher that has not given its event to Redis yet. It holds although two
threads send to one stream at a time, because only one of them carries events of a
given publisher (`OneCarrier`): the listener drops the events of its own process
(`Foreign`), and a publisher has one event at a time. Where `DropOldest` and
`SendOrLose` lose an event the rest stays in order. All of this is about the events that
count (`Counted`): a copy of any other may be anywhere on the way, and whether an event
counts is fixed when its publisher is done with it, before Redis can carry it. `HubShape` is proved first
and used in the steps of `InOrder`.

**TitleQueue** (`QueueInv`). A source with a job has a row (`JobsHaveRows`), so each end of
a job changes the row it has read. `BacksOff` is proved for any number of faults
(`QueueSpec => []BacksOff`). A row that is put off is not listed until its delay is over, so
what can still give it a job is there at the deferral: a job in another process, an entry
of a sweep's list, the one entry of its upload. `FewEarly` counts these together with the
early jobs. Until the delay is over no step raises the sum: a job that starts takes its
entry out of a list or an upload (`EnqueueKeepsQueueInv`), the others add nothing
(`NoneEarlier`). At the deferral the sum is at most one job for each other process, one list
for each process and one upload (`CountAtDeferral`): twice the number of processes.

**TitleSimilarity** (`SimInv`). The pairs that a job inserts are those of its hits, and a
hit resembles its source at the time of insertion (`HitsResemble`), because similarity is
a fact about two titles.

**TitleScore** (`ScoreInv`). The invariant says that the loop has built a pairing of the
words passed so far that nothing can be added to (`Aligned`): where an earlier word
resembles a word of the right title, one of the two is taken. At the end (`GreedyIsHalf`)
every pair of the best pairing therefore has its left or its right word in the greedy one,
and one word is in at most one pair of the best (`PairsOfEnds`), so the best has at most
twice as many pairs. That the best exists is finiteness of the pairings
(`BestPairingExists`). `Tokens` is a recursive function over positions; that it is defined
and returns words (`TokensAreWords`) is proved by the least position at which it would
not, from the well-foundedness of the natural numbers stated for sets, since the
theorems on induction take an operator that the provers cannot instantiate.

**Only model-checked.** All liveness properties (`JobsServed`, `FilesPickedUp`,
`EverythingHashed`, `AllLeave`, `AllConnect`, `SimilarMeet`, `PublishingEnds` and those of
the further configurations), because the prover has no rules for fairness and `ENABLED`.
The violations of section 5 are traces that TLC finds.

## 7. What is not modelled

* **Accounts and sessions** (`auth/`): every operation is one statement on one row, and a
  request reads the account together with its session.
* **Configuration**, memory limits: read once at start; the values are CONSTANTS.
* **Statistics** and listing queries: without effect.
* **HTTP handlers** other than the event stream: decode, call one operation, encode.
* **`cmd/r2-purge`**, `PurgeAll`: a loop of deletions run by hand while the service is
  stopped; the local store of development setups.
* **The Redis client's** connection loop: that of `Connection` without migrations. The
  delayed closing of a replaced Postgres pool is left out as well.
* **Decoders and hashes**: the text, images and hashes of a file, normalisation of
  letters and the edit distance of two words are values; the rules applied to them are
  modelled.
* **The wire exchange** with the engine, R2, Redis and Postgres: only the answers that the
  code distinguishes appear. The health probe of the engine changes what the status page
  says and no job.
* **Times**: delays of retries, time-outs and ages are events that may happen at any
  point. That a delay has an end and how long it is are not told apart.
* Two hazards have no property. Rows that wait for the title of a sibling are listed by
  every sweep and can fill its batch (`repo_title_similar.go:140`). `TitleSimilarity`
  lists every row that is due, so `SimilarMeet` is about waiting for siblings only. And
  the result of a transaction that is rolled back may survive it (end of section 5).
* **Scope.** `BlobCache`, and `CopyHasObject` with it, is about one process: the copies that
  other processes keep of a removed object are not modelled. `SimilarMeet` is checked with
  one worker; with two, `title_similar_lost` shows that it fails.
