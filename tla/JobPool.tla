------------------------------- MODULE JobPool -------------------------------
(***************************************************************************)
(* The background work of one API process: a bounded queue of jobs, the     *)
(* pool workers that run them, and the three parties that enqueue: upload    *)
(* handlers, the recovery sweeper, and a worker that has just stored a       *)
(* title.  Three maps in memory (hashing, titling, similaring) keep a source *)
(* from being worked on twice.  A row is only what the three queries of the  *)
(* sweeper see of it.                                                        *)
(*                                                                          *)
(* Left out: job panics, deletion of documents, the previews that share the  *)
(* heavy slots, and other processes.  Times are abstracted: a job or a query  *)
(* takes any time, the sweeper pauses for any time.                           *)
(***************************************************************************)
EXTENDS Integers, Sequences, FiniteSets, Functions

CONSTANTS
    Sources,      \* uploaded files, numbered by created_at
    Handlers,     \* upload requests
    FilesOf,      \* the files of a request
    Kind,         \* of a file: "printed" (the form sent its title), "untitled", "image"
    Workers,
    Sweeper,
    QueueCap,     \* 512 in New
    HeavyCap, TitleCap,
    Batch,        \* recoverBatch
    Configured,   \* whether an engine is
    NoJob

Kinds == {"printed", "untitled", "image"}
Enqueuers == Handlers \union {Sweeper}
Actors == Enqueuers \union Workers
JobSet == [kind : {"hash", "title", "similar"}, src : Sources]

ASSUME PoolAssumption ==
    /\ Sources \subseteq Nat /\ IsFiniteSet(Sources)
    /\ FilesOf \in [Handlers -> SUBSET Sources]   \* ids of files are new
    /\ \A g, h \in Handlers : g # h => FilesOf[g] \intersect FilesOf[h] = {}
    /\ Kind \in [Sources -> Kinds]
    /\ QueueCap \in Nat \ {0} /\ HeavyCap \in Nat \ {0} /\ TitleCap \in Nat \ {0}
    /\ Batch \in Nat \ {0}
    /\ Configured \in BOOLEAN
    /\ NoJob \notin JobSet
    /\ Sweeper \notin Handlers /\ Workers \intersect Enqueuers = {}

VARIABLES
    stored, hashed, needsTitle, titled, compared,   \* the rows, as sets of sources
    queue,                                          \* Pool.jobs
    hashing, titling, similaring,                   \* the maps of Service
    stage, job,                                     \* of a worker
    phase, todo,                                    \* of a handler or the sweeper
    pending                                         \* the job an actor is submitting

rows == <<stored, hashed, needsTitle, titled, compared>>
keys == <<hashing, titling, similaring>>
workers == <<stage, job>>
callers == <<phase, todo>>
poolVars == <<rows, queue, keys, workers, callers, pending>>

Stages == {"idle", "hash", "analyze", "publish", "title", "engine",
           "settled", "titled", "similar"}
Phases == {"new", "idle", "hash", "title", "similar", "done"}

PoolTypeOK ==
    /\ \A S \in {stored, hashed, needsTitle, titled, compared,
                 hashing, titling, similaring} : S \subseteq Sources
    /\ queue \in Seq(JobSet) /\ Len(queue) <= QueueCap
    /\ stage \in [Workers -> Stages]
    /\ job \in [Workers -> JobSet \union {NoJob}]
    /\ \A w \in Workers : (job[w] = NoJob) <=> (stage[w] = "idle")
    /\ phase \in [Enqueuers -> Phases]
    /\ todo \in [Enqueuers -> SUBSET Sources]
    /\ pending \in [Actors -> JobSet \union {NoJob}]

Job(k, s) == [kind |-> k, src |-> s]
Untitled(S) == {s \in S : Kind[s] = "untitled"}
Printed(S) == {s \in S : Kind[s] = "printed"}
Full == Len(queue) >= QueueCap

\* ORDER BY created_at LIMIT recoverBatch.
Oldest(S) == {s \in S : Cardinality({t \in S : t < s}) < Batch}
First(S) == CHOOSE s \in S : \A t \in S : s <= t

PoolInit ==
    /\ stored = {} /\ hashed = {} /\ needsTitle = {} /\ titled = {} /\ compared = {}
    /\ queue = <<>>
    /\ hashing = {} /\ titling = {} /\ similaring = {}
    /\ stage = [w \in Workers |-> "idle"]
    /\ job = [w \in Workers |-> NoJob]
    /\ phase = [a \in Enqueuers |-> IF a = Sweeper THEN "idle" ELSE "new"]
    /\ todo = [a \in Enqueuers |-> {}]
    /\ pending = [a \in Actors |-> NoJob]

-----------------------------------------------------------------------------
(* Submitting.  A job is pending from the moment its key is stored. *)

\* Submit waits for room, TrySubmit does not.  A handler calls Submit in one
\* place only: for the comparison of a title the form has sent.
Waits(a) ==
    /\ pending[a].kind # "hash"
    /\ a \in Handlers => phase[a] = "title" /\ pending[a].kind = "similar"

Send(a) ==
    /\ pending[a] # NoJob /\ ~Full
    /\ queue' = Append(queue, pending[a])
    /\ pending' = [pending EXCEPT ![a] = NoJob]
    /\ UNCHANGED <<rows, keys, workers, callers>>

\* Deletes the key of a job that has ended or was not accepted.
Forget(j) ==
    /\ hashing' = IF j.kind = "hash" THEN hashing \ {j.src} ELSE hashing
    /\ titling' = IF j.kind = "title" THEN titling \ {j.src} ELSE titling
    /\ similaring' = IF j.kind = "similar" THEN similaring \ {j.src} ELSE similaring

Busy_KeepsKey(a) ==
    /\ pending[a] # NoJob /\ ~Waits(a) /\ Full
    /\ pending' = [pending EXCEPT ![a] = NoJob]
    /\ UNCHANGED <<rows, queue, keys, workers, callers>>

\* ErrBusy.  No key was stored for a hash job.
Busy(a) ==
    /\ pending[a] # NoJob /\ ~Waits(a) /\ Full
    /\ pending' = [pending EXCEPT ![a] = NoJob]
    /\ IF pending[a].kind = "hash" THEN UNCHANGED keys ELSE Forget(pending[a])
    /\ UNCHANGED <<rows, queue, workers, callers>>

OfferSimilar(a, s) ==
    /\ pending' = [pending EXCEPT ![a] = IF s \in similaring THEN NoJob ELSE Job("similar", s)]
    /\ similaring' = similaring \union {s}

OfferTitle(a, s) ==
    /\ pending' = [pending EXCEPT ![a] = IF s \in titling THEN NoJob ELSE Job("title", s)]
    /\ titling' = titling \union {s}

\* The key of a hash job is stored by the job itself, when it starts.
OfferHash(a, s) ==
    pending' = [pending EXCEPT ![a] = IF s \in hashing THEN NoJob ELSE Job("hash", s)]

\* One turn of the loop of enqueueHash, enqueueTitle or enqueueSimilar.  The
\* fields of a source are those it had when it was uploaded or listed.
Enqueue(a) ==
    /\ todo[a] # {} /\ pending[a] = NoJob
    /\ todo' = [todo EXCEPT ![a] = @ \ {First(todo[a])}]
    /\ LET s == First(todo[a]) IN
       \/ phase[a] = "hash" /\ OfferHash(a, s) /\ UNCHANGED keys
       \/ /\ phase[a] = "title" /\ a \in Handlers /\ Kind[s] = "printed"
          /\ OfferSimilar(a, s) /\ UNCHANGED <<hashing, titling>>
       \/ /\ phase[a] = "title" /\ (a = Sweeper \/ Kind[s] = "untitled")
          /\ OfferTitle(a, s) /\ UNCHANGED <<hashing, similaring>>
       \/ /\ phase[a] = "similar"
          /\ OfferSimilar(a, s) /\ UNCHANGED <<hashing, titling>>
    /\ UNCHANGED <<rows, queue, workers, phase>>

-----------------------------------------------------------------------------
(* Handlers and the sweeper *)

\* The transaction that stores the rows of an upload.
Upload(h) ==
    /\ phase[h] = "new"
    /\ stored' = stored \union FilesOf[h]
    /\ needsTitle' = needsTitle \union Untitled(FilesOf[h])
    /\ titled' = titled \union Printed(FilesOf[h])
    /\ phase' = [phase EXCEPT ![h] = "hash"]
    /\ todo' = [todo EXCEPT ![h] = FilesOf[h]]
    /\ UNCHANGED <<hashed, compared, queue, keys, workers, pending>>

Enter(a, p, S) ==
    /\ todo[a] = {} /\ pending[a] = NoJob
    /\ phase' = [phase EXCEPT ![a] = p]
    /\ todo' = [todo EXCEPT ![a] = S]
    /\ UNCHANGED <<rows, queue, keys, workers, pending>>

HandlerStep(h) ==
    \/ phase[h] = "hash" /\ Enter(h, "title", IF Configured
                                              THEN {s \in FilesOf[h] : Kind[s] # "image"}
                                              ELSE {})
    \/ phase[h] = "title" /\ Enter(h, "similar", FilesOf[h] \ Untitled(FilesOf[h]))
    \/ phase[h] = "similar" /\ Enter(h, "done", {})

\* HealSettledTitles clears needs_title of rows that have a title; then a row is
\* listed if it was uploaded 15 s ago, a title below when its retry is due.
ListUnhashed(due) ==
    /\ due \subseteq stored \ hashed
    /\ phase[Sweeper] = "idle"
    /\ needsTitle' = needsTitle \ titled
    /\ phase' = [phase EXCEPT ![Sweeper] = "hash"]
    /\ todo' = [todo EXCEPT ![Sweeper] = Oldest(due)]
    /\ UNCHANGED <<stored, hashed, titled, compared, queue, keys, workers, pending>>

ListNeedingTitle(due) ==
    /\ due \subseteq needsTitle \ titled
    /\ phase[Sweeper] = "hash"
    /\ Enter(Sweeper, "title", IF Configured THEN Oldest(due) ELSE {})

ListNeedingSimilar ==
    /\ phase[Sweeper] = "title"
    /\ Enter(Sweeper, "similar", Oldest(stored \ (compared \union needsTitle)))

\* The end of RecoverPending, or its return when a query fails.
SweepEnds == phase[Sweeper] # "idle" /\ Enter(Sweeper, "idle", {})

SweeperStep ==
    \/ \E due \in SUBSET (stored \ hashed) : ListUnhashed(due)
    \/ \E due \in SUBSET (needsTitle \ titled) : ListNeedingTitle(due)
    \/ ListNeedingSimilar
    \/ SweepEnds

-----------------------------------------------------------------------------
(* Workers *)

SlotsUsed(stages) == Cardinality({w \in Workers : stage[w] \in stages})
HeavyFree == SlotsUsed({"analyze"}) < HeavyCap
TitleFree == SlotsUsed({"engine", "titled"}) < TitleCap

Become(w, s) == stage' = [stage EXCEPT ![w] = s]

Take_NoCheck(w) ==
    /\ stage[w] = "idle" /\ queue # <<>>
    /\ queue' = Tail(queue)
    /\ job' = [job EXCEPT ![w] = Head(queue)]
    /\ Become(w, Head(queue).kind)
    /\ hashing' = IF Head(queue).kind = "hash" THEN hashing \union {Head(queue).src}
                                               ELSE hashing
    /\ UNCHANGED <<rows, titling, similaring, callers, pending>>

\* Receives a job and starts it.  A hash job of a source that is being hashed
\* returns at once; a title job finds out here that the title is there.
Take(w) ==
    /\ stage[w] = "idle" /\ queue # <<>>
    /\ queue' = Tail(queue)
    /\ LET j == Head(queue) IN
       IF j.kind = "hash" /\ j.src \in hashing
       THEN UNCHANGED <<workers, hashing>>
       ELSE /\ job' = [job EXCEPT ![w] = j]
            /\ Become(w, j.kind)
            /\ hashing' = IF j.kind = "hash" THEN hashing \union {j.src} ELSE hashing
    /\ UNCHANGED <<rows, titling, similaring, callers, pending>>

Work(w, from, to) ==
    /\ stage[w] = from /\ Become(w, to)
    /\ UNCHANGED <<rows, queue, keys, job, callers, pending>>

AcquireHeavy(w) == Work(w, "hash", "analyze") /\ HeavyFree /\ job[w].src \notin hashed
Analyzed(w) == Work(w, "analyze", "publish")
\* The object is gone: nothing to analyse, no slot.
MissingBlob(w) == Work(w, "hash", "publish") /\ job[w].src \notin hashed
\* A title that is there may be missed: the job goes on when it cannot read the row.
AcquireTitle(w) == Work(w, "title", "engine") /\ TitleFree

\* An attempt fails and retry.Do starts the next one; a title job keeps its slot.
Retry(w) ==
    \/ Work(w, "analyze", "hash") \/ Work(w, "publish", "hash")
    \/ Work(w, "titled", "engine") /\ pending[w] = NoJob

Done_KeepsKey(w) ==
    /\ stage' = [stage EXCEPT ![w] = "idle"]
    /\ job' = [job EXCEPT ![w] = NoJob]
    /\ UNCHANGED keys

\* The deferred calls of a job: its key is deleted, its slot released.
Done(w) ==
    /\ stage' = [stage EXCEPT ![w] = "idle"]
    /\ job' = [job EXCEPT ![w] = NoJob]
    /\ Forget(job[w])

\* FinalizeFingerprint has committed.
Publish(w) ==
    /\ stage[w] = "publish"
    /\ hashed' = hashed \union {job[w].src}
    /\ Done(w)
    /\ UNCHANGED <<stored, needsTitle, titled, compared, queue, callers, pending>>

\* The job ends without a result: its row is gone or hashed already, the attempts
\* are used up, or the comparison waits for a title of its document.
Fail(w) ==
    /\ stage[w] \notin {"idle", "settled", "titled"}
    /\ Done(w)
    /\ UNCHANGED <<rows, queue, callers, pending>>

\* SetSourceTitle, which resets the comparison of a title that changes, and then
\* afterPrintedTitle, which submits the next one with the context of the pool: the
\* timeout of the job does not end the wait.
Titled(w) ==
    /\ stage[w] = "engine"
    /\ titled' = titled \union {job[w].src}
    /\ needsTitle' = needsTitle \ {job[w].src}
    /\ \/ compared' = compared \ {job[w].src}
       \/ job[w].src \in titled /\ UNCHANGED compared
    /\ Become(w, "titled")
    /\ OfferSimilar(w, job[w].src)
    /\ UNCHANGED <<stored, hashed, queue, hashing, titling, job, callers>>

\* The row had its title when the job started: no slot is taken.
Settled(w) ==
    /\ stage[w] = "title" /\ job[w].src \in titled
    /\ needsTitle' = needsTitle \ {job[w].src}
    /\ Become(w, "settled")
    /\ OfferSimilar(w, job[w].src)
    /\ UNCHANGED <<stored, hashed, titled, compared, queue, hashing, titling, job,
                   callers>>

\* The file is gone: ClearNeedsTitle.
NoFile(w) ==
    /\ stage[w] = "engine"
    /\ needsTitle' = needsTitle \ {job[w].src}
    /\ Done(w)
    /\ UNCHANGED <<stored, hashed, titled, compared, queue, callers, pending>>

Defer_Always(w) ==
    /\ stage[w] \in {"title", "engine"}
    /\ needsTitle' = needsTitle \union {job[w].src}
    /\ Done(w)
    /\ UNCHANGED <<stored, hashed, titled, compared, queue, callers, pending>>

\* The wait for a slot timed out, the engine failed or found no title:
\* DeferTitleRetry, which leaves a title alone.
Defer(w) ==
    /\ stage[w] \in {"title", "engine"}
    /\ needsTitle' = needsTitle \union ({job[w].src} \ titled)
    /\ Done(w)
    /\ UNCHANGED <<stored, hashed, titled, compared, queue, callers, pending>>

TitleEnds(w) ==
    /\ stage[w] \in {"settled", "titled"} /\ pending[w] = NoJob
    /\ Done(w)
    /\ UNCHANGED <<rows, queue, callers, pending>>

Compare(w) ==
    /\ stage[w] = "similar"
    /\ compared' = compared \union {job[w].src}
    /\ Done(w)
    /\ UNCHANGED <<stored, hashed, needsTitle, titled, queue, callers, pending>>

WorkerStep(w) ==
    \/ Take(w)
    \/ AcquireHeavy(w) \/ MissingBlob(w) \/ Analyzed(w) \/ Publish(w)
    \/ AcquireTitle(w) \/ Titled(w) \/ Settled(w) \/ NoFile(w) \/ Defer(w) \/ TitleEnds(w)
    \/ Compare(w)
    \/ Retry(w)
    \/ Fail(w)

-----------------------------------------------------------------------------

\* The process stops, or crashes, and a new one starts: the rows remain.
Restart ==
    /\ queue' = <<>>
    /\ hashing' = {} /\ titling' = {} /\ similaring' = {}
    /\ stage' = [w \in Workers |-> "idle"]
    /\ job' = [w \in Workers |-> NoJob]
    /\ phase' = [a \in Enqueuers |-> IF a = Sweeper THEN "idle"
                                     ELSE IF phase[a] = "new" THEN "new" ELSE "done"]
    /\ todo' = [a \in Enqueuers |-> {}]
    /\ pending' = [a \in Actors |-> NoJob]
    /\ UNCHANGED rows

PoolNext ==
    \/ \E h \in Handlers : Upload(h) \/ HandlerStep(h)
    \/ SweeperStep
    \/ \E a \in Enqueuers : Enqueue(a)
    \/ \E a \in Actors : Send(a) \/ Busy(a)
    \/ \E w \in Workers : WorkerStep(w)
    \/ Restart

PoolSpec == PoolInit /\ [][PoolNext]_poolVars

\* Workers and the loops of the callers keep running, and a channel serves its
\* blocked senders in order.  A row is listed by every sweep once it is 15 s old.
\* From some time on the process is not restarted and no attempt to fingerprint an
\* unhashed row fails; attempts are bounded, so Retry is not taken for ever.
Trouble ==
    \/ Restart
    \/ \E w \in Workers : Retry(w)
    \/ \E w \in Workers :
           job[w] # NoJob /\ job[w].kind = "hash" /\ job[w].src \notin hashed /\ Fail(w)

PoolFairness ==
    /\ \A w \in Workers : WF_poolVars(WorkerStep(w))
    /\ \A a \in Enqueuers : WF_poolVars(Enqueue(a) \/ Busy(a))
    /\ \A a \in Actors : SF_poolVars(Send(a))
    /\ SF_poolVars(ListUnhashed(stored \ hashed))
    /\ WF_poolVars(ListNeedingTitle({}) \/ ListNeedingSimilar \/ SweepEnds)
    /\ <>[][~Trouble]_poolVars

FairPoolSpec == PoolSpec /\ PoolFairness

-----------------------------------------------------------------------------
(* Properties *)

JobsAt(j) ==
    Cardinality({i \in DOMAIN queue : queue[i] = j})
        + Cardinality({w \in Workers : job[w] = j})
        + Cardinality({a \in Actors : pending[a] = j})

\* While the map of titles or of comparisons has a key, exactly one job for it is
\* being submitted, queued or run, and no job is without its key.  A key left
\* behind would keep the source from ever being tried again; a missing one would
\* let two jobs of a source run at once (service.go:698-722, 740-764).
KeysHaveJobs ==
    \A s \in Sources :
        /\ JobsAt(Job("title", s)) = IF s \in titling THEN 1 ELSE 0
        /\ JobsAt(Job("similar", s)) = IF s \in similaring THEN 1 ELSE 0

\* A source is never fingerprinted by two workers of a process at once, although
\* the sweeper queues it again and again while its job waits (service.go:1088-1091).
HashedByOne ==
    \A s \in Sources :
        Cardinality({w \in Workers : job[w] = Job("hash", s)})
            = IF s \in hashing THEN 1 ELSE 0

\* A source that has a title is never queued for one again, whichever jobs of it
\* end late or fail (repo.go:527-532): sweeps list it before the title comes, and a
\* job that cannot read the row asks the engine a second time.
TitleStands == titled \intersect needsTitle = {}

\* "the row stays unhashed and the recovery sweeper picks it up" (service.go:662-663).
PickedUp == \A s \in Sources : s \in stored ~> s \in hashed

Stuck(a) == pending[a] # NoJob /\ Waits(a) /\ Full

\* "without the sweeper ever blocking on a full pool" (service.go:451-453).
SweeperNeverBlocks == ~Stuck(Sweeper)

\* "A saturated pool must never stall an upload" (service.go:662).
UploadNeverStalls == \A h \in Handlers : ~Stuck(h)

\* "so a slow engine can never stall duplicate detection" (service.go:64-65): a
\* file that waits to be hashed, with a free heavy slot, does not find every
\* worker in an engine call.
EngineNeverStallsHashing ==
    ~ /\ \E i \in DOMAIN queue : queue[i].kind = "hash"
      /\ HeavyFree
      /\ \A w \in Workers : stage[w] = "engine"

\* The three statements together: a state without this refutes each of them.
SomePromiseHolds == SweeperNeverBlocks \/ UploadNeverStalls \/ EngineNeverStallsHashing
=============================================================================
