---------------------------- MODULE JobPoolProofs ----------------------------
(* Machine-checked proofs about the pool of one process, for any number of    *)
(* workers, handlers and files and any length of the queue.                   *)
EXTENDS JobPool, TLAPS, FiniteSetTheorems, SequenceTheorems, WellFoundedInduction

-----------------------------------------------------------------------------
(* The inductive invariant *)

\* Whatever is listed, queued, run or titled has a row, and the files of a request
\* that has not been stored have none.
OnlyStored ==
    /\ titled \subseteq stored /\ needsTitle \subseteq stored
    /\ \A a \in Enqueuers : todo[a] \subseteq stored
    /\ \A i \in 1..Len(queue) : queue[i].src \in stored
    /\ \A w \in Workers : job[w] # NoJob => job[w].src \in stored
    /\ \A a \in Actors : pending[a] # NoJob => pending[a].src \in stored
    /\ \A h \in Handlers : IF phase[h] = "new" THEN FilesOf[h] \intersect stored = {}
                                            ELSE FilesOf[h] \subseteq stored

\* A worker submits only at the end of a title job.
WorkersSubmit ==
    \A w \in Workers : pending[w] # NoJob => stage[w] \in {"settled", "titled"}

\* A key of hashing is there while exactly one worker runs the job.
HashKeys ==
    \A s \in Sources :
        /\ s \in hashing <=> \E w \in Workers : job[w] = Job("hash", s)
        /\ \A v, w \in Workers : job[v] = Job("hash", s) /\ job[w] = Job("hash", s) => v = w

\* Where a job can be.
Queued(j) == \E i \in 1..Len(queue) : queue[i] = j
Running(j) == \E w \in Workers : job[w] = j
Offered(j) == \E a \in Actors : pending[a] = j

AtMostOnce(j) ==
    /\ \A i, n \in 1..Len(queue) : queue[i] = j /\ queue[n] = j => i = n
    /\ \A v, w \in Workers : job[v] = j /\ job[w] = j => v = w
    /\ \A a, b \in Actors : pending[a] = j /\ pending[b] = j => a = b
    /\ ~(Queued(j) /\ Running(j)) /\ ~(Queued(j) /\ Offered(j)) /\ ~(Running(j) /\ Offered(j))

KeyOf(j) == IF j.kind = "title" THEN j.src \in titling ELSE j.src \in similaring

\* The other jobs have their keys from the moment they are offered.
KeyedJobs == {j \in JobSet : j.kind # "hash"}
JobKeys ==
    \A j \in KeyedJobs : AtMostOnce(j) /\ (KeyOf(j) <=> Queued(j) \/ Running(j) \/ Offered(j))

PoolInv ==
    /\ PoolTypeOK
    /\ OnlyStored
    /\ WorkersSubmit
    /\ TitleStands
    /\ HashKeys
    /\ JobKeys

-----------------------------------------------------------------------------
(* Lemmas about the data *)

LEMMA JobFields ==
    ASSUME NEW s \in Sources, NEW k \in {"hash", "title", "similar"}
    PROVE  /\ Job(k, s) \in JobSet /\ Job(k, s) # NoJob
           /\ Job(k, s).kind = k /\ Job(k, s).src = s
           /\ \A j \in JobSet : j = Job(k, s) <=> j.kind = k /\ j.src = s
BY PoolAssumption DEF Job, JobSet

\* The files of a list are taken in their order.
LEMMA FirstIsIn ==
    ASSUME NEW S, S \subseteq Sources, S # {}
    PROVE  First(S) \in S
<1> DEFINE R == OpToRel(<, Nat)
<1>1. IsWellFoundedOn(R, Nat)
  BY NatLessThanWellFounded
<1> HIDE DEF R
<1>2. S \subseteq Nat
  BY PoolAssumption
<1>3. PICK x \in S : \A y \in S : <<y, x>> \notin R
  BY <1>1, <1>2, WFMin
<1>4. \A y \in S : y < x => <<y, x>> \in R
  BY <1>2 DEF R, OpToRel
<1>5. \A y \in S : ~(y < x)
  BY <1>3, <1>4
<1>6. \A y \in S : x <= y
  BY <1>2, <1>5
<1> QED BY <1>6 DEF First

LEMMA AppendFacts ==
    ASSUME NEW q \in Seq(JobSet), NEW j \in JobSet
    PROVE  /\ Append(q, j) \in Seq(JobSet)
           /\ Len(Append(q, j)) = Len(q) + 1 /\ Len(q) \in Nat
           /\ \A i \in 1..Len(q) : Append(q, j)[i] = q[i]
           /\ Append(q, j)[Len(q) + 1] = j
OBVIOUS

LEMMA TailFacts ==
    ASSUME NEW q \in Seq(JobSet), q # <<>>
    PROVE  /\ Tail(q) \in Seq(JobSet) /\ Head(q) \in JobSet
           /\ Len(Tail(q)) = Len(q) - 1 /\ Len(q) \in Nat /\ Len(q) > 0
           /\ \A i \in 1..(Len(q) - 1) : Tail(q)[i] = q[i + 1]
           /\ Head(q) = q[1]
<1>1. Len(q) \in Nat /\ Len(q) # 0
  BY EmptySeq
<1>2. Head(q) \in JobSet /\ Tail(q) \in Seq(JobSet)
  BY HeadTailProperties
<1>3. Len(Tail(q)) = Len(q) - 1 /\ \A i \in 1..Len(Tail(q)) : Tail(q)[i] = q[i + 1]
  BY HeadTailProperties
<1>4. Head(q) = q[1]
  BY <1>1
<1> QED BY <1>1, <1>2, <1>3, <1>4

-----------------------------------------------------------------------------
(* The steps, by what they do to the jobs *)

\* No job is made, moved or ended.
JobsStay == UNCHANGED <<queue, keys, job, pending>>

LEMMA QuietSteps ==
    ASSUME \/ \E h \in Handlers : Upload(h) \/ HandlerStep(h)
           \/ SweeperStep
           \/ \E w \in Workers : \/ AcquireHeavy(w) \/ MissingBlob(w) \/ Analyzed(w)
                                 \/ AcquireTitle(w) \/ Retry(w)
    PROVE  JobsStay
BY DEF JobsStay, Upload, HandlerStep, SweeperStep, ListUnhashed, ListNeedingTitle,
       ListNeedingSimilar, SweepEnds, Enter, AcquireHeavy, MissingBlob, Analyzed,
       AcquireTitle, Retry, Work, workers

Ends(w) == Publish(w) \/ Fail(w) \/ NoFile(w) \/ Defer(w) \/ TitleEnds(w) \/ Compare(w)

LEMMA EndSteps ==
    ASSUME NEW w \in Workers, PoolInv, Ends(w)
    PROVE  /\ Done(w) /\ stage[w] # "idle" /\ pending[w] = NoJob
           /\ UNCHANGED <<stored, titled, queue, callers, pending>>
BY DEF Ends, Publish, Fail, NoFile, Defer, TitleEnds, Compare, PoolInv, WorkersSubmit, rows

-----------------------------------------------------------------------------
(* Every step preserves the types *)

LEMMA TypeInit == PoolInit => PoolTypeOK
BY PoolAssumption DEF PoolInit, PoolTypeOK, Enqueuers, Actors, Stages, Phases

LEMMA TypeNext == PoolTypeOK /\ PoolNext => PoolTypeOK'
<1> SUFFICES ASSUME PoolTypeOK, PoolNext PROVE PoolTypeOK'
  OBVIOUS
<1> USE DEF PoolTypeOK
<1>j. \A s \in Sources : /\ Job("hash", s) \in JobSet
                         /\ Job("title", s) \in JobSet
                         /\ Job("similar", s) \in JobSet
  BY DEF Job, JobSet
<1>n. NoJob \notin JobSet
  BY PoolAssumption
<1>k. \A j \in JobSet : j.src \in Sources /\ j.kind \in {"hash", "title", "similar"}
  BY DEF JobSet
<1>1. ASSUME NEW h \in Handlers, Upload(h) PROVE PoolTypeOK'
  BY <1>1, PoolAssumption DEF Upload, Untitled, Printed, Phases, keys, workers, Enqueuers
<1>e. ASSUME NEW a \in Enqueuers, NEW p \in Phases, NEW S \in SUBSET Sources, Enter(a, p, S)
      PROVE  PoolTypeOK'
  BY <1>e DEF Enter, rows, keys, workers
<1>2. ASSUME NEW h \in Handlers, HandlerStep(h) PROVE PoolTypeOK'
  BY <1>2, <1>e, PoolAssumption DEF HandlerStep, Enqueuers, Phases, Untitled
<1>3. ASSUME NEW due \in SUBSET (stored \ hashed), ListUnhashed(due) PROVE PoolTypeOK'
  BY <1>3 DEF ListUnhashed, Oldest, Phases, keys, workers, Enqueuers
<1>4. ASSUME SweeperStep PROVE PoolTypeOK'
  <2> Sweeper \in Enqueuers /\ {"idle", "title", "similar"} \subseteq Phases
    BY DEF Enqueuers, Phases
  <2> \A S \in SUBSET Sources : Oldest(S) \subseteq Sources
    BY DEF Oldest
  <2>1. ASSUME NEW due \in SUBSET (needsTitle \ titled), ListNeedingTitle(due) PROVE PoolTypeOK'
    BY <2>1, <1>e DEF ListNeedingTitle
  <2>2. CASE ListNeedingSimilar
    BY <2>2, <1>e DEF ListNeedingSimilar
  <2>3. CASE SweepEnds
    BY <2>3, <1>e DEF SweepEnds
  <2> QED BY <1>4, <1>3, <2>1, <2>2, <2>3 DEF SweeperStep
<1>o. ASSUME NEW a \in Actors, NEW s \in Sources
      PROVE  /\ OfferSimilar(a, s) => /\ similaring' \subseteq Sources
                                      /\ pending' \in [Actors -> JobSet \union {NoJob}]
             /\ OfferTitle(a, s) => /\ titling' \subseteq Sources
                                    /\ pending' \in [Actors -> JobSet \union {NoJob}]
             /\ OfferHash(a, s) => pending' \in [Actors -> JobSet \union {NoJob}]
  BY <1>j DEF OfferSimilar, OfferTitle, OfferHash
<1>5. ASSUME NEW a \in Enqueuers, Enqueue(a) PROVE PoolTypeOK'
  <2> DEFINE s == First(todo[a])
  <2>1. s \in Sources /\ a \in Actors
    BY <1>5, FirstIsIn DEF Enqueue, Actors
  <2>2. todo' \in [Enqueuers -> SUBSET Sources]
    BY <1>5 DEF Enqueue
  <2>3. /\ pending' \in [Actors -> JobSet \union {NoJob}]
        /\ hashing' \subseteq Sources /\ titling' \subseteq Sources
        /\ similaring' \subseteq Sources
    BY <1>5, <1>o, <2>1 DEF Enqueue, keys
  <2> QED BY <1>5, <2>2, <2>3 DEF Enqueue, rows, workers
<1>6. ASSUME NEW a \in Actors, Send(a) PROVE PoolTypeOK'
  <2>1. queue' \in Seq(JobSet) /\ Len(queue') <= QueueCap
    BY <1>6, AppendFacts, PoolAssumption DEF Send, Full
  <2> QED BY <1>6, <2>1 DEF Send, rows, keys, workers, callers
<1>f. ASSUME NEW j \in JobSet, Forget(j)
      PROVE  /\ hashing' \subseteq Sources /\ titling' \subseteq Sources
             /\ similaring' \subseteq Sources
  BY <1>f DEF Forget
<1>7. ASSUME NEW a \in Actors, Busy(a) PROVE PoolTypeOK'
  <2>1. /\ hashing' \subseteq Sources /\ titling' \subseteq Sources
        /\ similaring' \subseteq Sources
    BY <1>7, <1>f DEF Busy, keys
  <2> QED BY <1>7, <2>1 DEF Busy, rows, workers, callers
<1>8. ASSUME NEW w \in Workers, Take(w) PROVE PoolTypeOK'
  <2> DEFINE j == Head(queue)
  <2>1. /\ j \in JobSet /\ queue' \in Seq(JobSet) /\ Len(queue') <= QueueCap
    BY <1>8, TailFacts, PoolAssumption DEF Take
  <2> HIDE DEF j
  <2>2. CASE j.kind = "hash" /\ j.src \in hashing
    BY <1>8, <2>1, <2>2 DEF Take, j, rows, workers, callers
  <2>3. CASE ~(j.kind = "hash" /\ j.src \in hashing)
    <3>1. /\ job' = [job EXCEPT ![w] = j] /\ stage' = [stage EXCEPT ![w] = j.kind]
          /\ hashing' \subseteq Sources
          /\ UNCHANGED <<rows, titling, similaring, callers, pending>>
      BY <1>8, <1>k, <2>1, <2>3 DEF Take, Become, j
    <3> QED BY <3>1, <2>1, <1>n, <1>k DEF rows, callers, Stages
  <2> QED BY <2>2, <2>3
<1>w. ASSUME NEW w \in Workers, NEW from \in Stages \ {"idle"}, NEW to \in Stages \ {"idle"},
             Work(w, from, to)
      PROVE  PoolTypeOK'
  BY <1>w DEF Work, Become, rows, keys, callers
<1>9. ASSUME NEW w \in Workers,
             \/ AcquireHeavy(w) \/ MissingBlob(w) \/ Analyzed(w) \/ AcquireTitle(w) \/ Retry(w)
      PROVE  PoolTypeOK'
  BY <1>9, <1>w DEF AcquireHeavy, MissingBlob, Analyzed, AcquireTitle, Retry, Stages
<1>d. ASSUME NEW w \in Workers, Done(w), stage[w] # "idle"
      PROVE  /\ stage' \in [Workers -> Stages] /\ job' \in [Workers -> JobSet \union {NoJob}]
             /\ \A v \in Workers : (job'[v] = NoJob) <=> (stage'[v] = "idle")
             /\ hashing' \subseteq Sources /\ titling' \subseteq Sources
             /\ similaring' \subseteq Sources
             /\ job[w].src \in Sources
  BY <1>d, <1>f, <1>k DEF Done, Stages
<1>10. ASSUME NEW w \in Workers, Ends(w) PROVE PoolTypeOK'
  <2>1. Done(w) /\ stage[w] # "idle" /\ UNCHANGED <<stored, titled, queue, callers, pending>>
    BY <1>10 DEF Ends, Publish, Fail, NoFile, Defer, TitleEnds, Compare, rows
  <2>2. job[w].src \in Sources
    BY <1>d, <2>1
  <2>3. hashed' \subseteq Sources /\ needsTitle' \subseteq Sources /\ compared' \subseteq Sources
    BY <1>10, <2>2 DEF Ends, Publish, Fail, NoFile, Defer, TitleEnds, Compare, rows
  <2> QED BY <1>d, <2>1, <2>3 DEF callers
<1>11. ASSUME NEW w \in Workers, Titled(w) \/ Settled(w) PROVE PoolTypeOK'
  <2>1. job[w].src \in Sources /\ w \in Actors
    BY <1>11, <1>k DEF Titled, Settled, Actors
  <2>2. similaring' \subseteq Sources /\ pending' \in [Actors -> JobSet \union {NoJob}]
    BY <1>11, <1>o, <2>1 DEF Titled, Settled
  <2> QED BY <1>11, <2>1, <2>2 DEF Titled, Settled, Become, Stages, callers
<1>12. ASSUME Restart PROVE PoolTypeOK'
  BY <1>12, PoolAssumption DEF Restart, Stages, Phases, rows
<1> QED BY <1>1, <1>2, <1>4, <1>5, <1>6, <1>7, <1>8, <1>9, <1>10, <1>11, <1>12
        DEF PoolNext, WorkerStep, Ends

-----------------------------------------------------------------------------
(* Every step preserves the rest of the invariant *)

LEMMA InvInit == PoolInit => PoolInv
<1> SUFFICES ASSUME PoolInit PROVE PoolInv
  OBVIOUS
<1>1. PoolTypeOK
  BY TypeInit
<1>2. OnlyStored /\ WorkersSubmit /\ TitleStands
  BY PoolAssumption DEF PoolInit, OnlyStored, WorkersSubmit, TitleStands, Enqueuers, Actors
<1>3. \A j \in JobSet : ~Queued(j) /\ ~Running(j) /\ ~Offered(j)
  BY PoolAssumption DEF PoolInit, Queued, Running, Offered
<1>4. HashKeys
  BY JobFields, PoolAssumption DEF PoolInit, HashKeys
<1>5. JobKeys
  BY <1>3 DEF JobKeys, KeyedJobs, AtMostOnce, KeyOf, PoolInit, Queued, Running, Offered
<1> QED BY <1>1, <1>2, <1>4, <1>5 DEF PoolInv

LEMMA StoredNext == PoolInv /\ PoolNext => OnlyStored'
<1> SUFFICES ASSUME PoolInv, PoolNext PROVE OnlyStored'
  OBVIOUS
<1> USE DEF OnlyStored
<1>t. PoolTypeOK /\ OnlyStored
  BY DEF PoolInv
<1>n. NoJob \notin JobSet /\ Sweeper \notin Handlers
  BY PoolAssumption
<1>1. ASSUME NEW h \in Handlers, Upload(h) PROVE OnlyStored'
  <2>1. /\ stored' = stored \union FilesOf[h] /\ UNCHANGED <<queue, job, pending>>
        /\ titled' \subseteq stored' /\ needsTitle' \subseteq stored'
    BY <1>1, <1>t DEF Upload, Untitled, Printed, workers
  <2>2. \A a \in Enqueuers : todo'[a] \subseteq stored'
    BY <1>1, <1>t, <2>1 DEF Upload, PoolTypeOK
  <2>3. \A g \in Handlers : IF phase'[g] = "new" THEN FilesOf[g] \intersect stored' = {}
                                               ELSE FilesOf[g] \subseteq stored'
    BY <1>1, <1>t, <2>1, PoolAssumption DEF Upload, PoolTypeOK, Enqueuers
  <2> QED BY <1>t, <2>1, <2>2, <2>3
<1>e. ASSUME NEW a \in Enqueuers, NEW p, NEW S, Enter(a, p, S), p # "new", S \subseteq stored,
             a \in Handlers => phase[a] # "new"
      PROVE  OnlyStored'
  BY <1>e, <1>t DEF Enter, rows, workers, PoolTypeOK, Enqueuers
<1>2. ASSUME NEW h \in Handlers, HandlerStep(h) PROVE OnlyStored'
  <2>1. FilesOf[h] \subseteq stored /\ phase[h] # "new" /\ h \in Enqueuers
    BY <1>2, <1>t DEF HandlerStep, Enqueuers
  <2> QED BY <1>2, <1>e, <2>1 DEF HandlerStep, Untitled
<1>3. ASSUME NEW due \in SUBSET (stored \ hashed), ListUnhashed(due) PROVE OnlyStored'
  BY <1>3, <1>t, <1>n DEF ListUnhashed, Oldest, PoolTypeOK, workers, Enqueuers
<1>4. ASSUME SweeperStep PROVE OnlyStored'
  <2> Sweeper \in Enqueuers
    BY DEF Enqueuers
  <2> \A S \in SUBSET stored : Oldest(S) \subseteq stored
    BY DEF Oldest
  <2>1. ASSUME NEW due \in SUBSET (needsTitle \ titled), ListNeedingTitle(due) PROVE OnlyStored'
    BY <2>1, <1>e, <1>n, <1>t DEF ListNeedingTitle
  <2>2. CASE ListNeedingSimilar
    BY <2>2, <1>e, <1>n DEF ListNeedingSimilar
  <2>3. CASE SweepEnds
    BY <2>3, <1>e, <1>n DEF SweepEnds
  <2> QED BY <1>4, <1>3, <2>1, <2>2, <2>3 DEF SweeperStep
<1>5. ASSUME NEW a \in Enqueuers, Enqueue(a) PROVE OnlyStored'
  <2> DEFINE s == First(todo[a])
  <2>1. s \in stored /\ s \in Sources /\ a \in Actors
    BY <1>5, <1>t, FirstIsIn DEF Enqueue, Actors, PoolTypeOK
  <2>2. UNCHANGED <<stored, titled, needsTitle, queue, job, phase>>
    BY <1>5 DEF Enqueue, rows, workers
  <2>3. \A b \in Enqueuers : todo'[b] \subseteq todo[b]
    BY <1>5, <1>t DEF Enqueue, PoolTypeOK
  <2>4. \A b \in Actors : pending'[b] # NoJob => pending'[b].src \in stored
    BY <1>5, <1>t, <2>1, JobFields
       DEF Enqueue, PoolTypeOK, OfferHash, OfferTitle, OfferSimilar
  <2> QED BY <1>t, <2>2, <2>3, <2>4
<1>6. ASSUME NEW a \in Actors, Send(a) PROVE OnlyStored'
  <2>1. pending[a] \in JobSet /\ queue \in Seq(JobSet)
    BY <1>6, <1>t DEF Send, PoolTypeOK
  <2>2. \A i \in 1..Len(queue') : queue'[i].src \in stored
    BY <1>6, <1>t, <2>1, AppendFacts DEF Send
  <2>3. \A b \in Actors : pending'[b] # NoJob => pending'[b].src \in stored
    BY <1>6, <1>t DEF Send, PoolTypeOK
  <2> QED BY <1>6, <1>t, <2>2, <2>3 DEF Send, rows, workers, callers
<1>7. ASSUME NEW a \in Actors, Busy(a) PROVE OnlyStored'
  BY <1>7, <1>t DEF Busy, PoolTypeOK, rows, workers, callers
<1>8. ASSUME NEW w \in Workers, Take(w) PROVE OnlyStored'
  <2> DEFINE j == Head(queue)
  <2>1. j \in JobSet /\ j = queue[1] /\ Len(queue) \in Nat /\ Len(queue) > 0
    BY <1>8, <1>t, TailFacts DEF Take, PoolTypeOK
  <2>2. j.src \in stored
    BY <1>t, <2>1
  <2>3. \A i \in 1..Len(queue') : queue'[i].src \in stored
    BY <1>8, <1>t, TailFacts DEF Take, PoolTypeOK
  <2>4. \A v \in Workers : job'[v] # NoJob => job'[v].src \in stored
    BY <1>8, <1>t, <2>2 DEF Take, PoolTypeOK, workers
  <2> QED BY <1>8, <1>t, <2>3, <2>4 DEF Take, rows, callers
<1>9. ASSUME NEW w \in Workers,
             \/ AcquireHeavy(w) \/ MissingBlob(w) \/ Analyzed(w) \/ AcquireTitle(w) \/ Retry(w)
      PROVE  OnlyStored'
  BY <1>9, <1>t DEF AcquireHeavy, MissingBlob, Analyzed, AcquireTitle, Retry, Work, rows, callers
<1>10. ASSUME NEW w \in Workers, Ends(w) PROVE OnlyStored'
  <2>1. Done(w) /\ stage[w] # "idle" /\ UNCHANGED <<stored, titled, queue, callers, pending>>
    BY <1>10, EndSteps
  <2>2. job[w] # NoJob /\ job[w].src \in stored
    BY <1>t, <2>1 DEF PoolTypeOK
  <2>3. needsTitle' \subseteq stored
    BY <1>10, <1>t, <2>2 DEF Ends, Publish, Fail, NoFile, Defer, TitleEnds, Compare, rows
  <2>4. \A v \in Workers : job'[v] # NoJob => job'[v].src \in stored
    BY <1>t, <2>1 DEF Done, PoolTypeOK
  <2> QED BY <1>t, <2>1, <2>3, <2>4 DEF callers
<1>11. ASSUME NEW w \in Workers, Titled(w) \/ Settled(w) PROVE OnlyStored'
  <2>1. job[w] # NoJob /\ job[w].src \in stored /\ job[w].src \in Sources /\ w \in Actors
    BY <1>11, <1>t DEF Titled, Settled, PoolTypeOK, Actors
  <2>2. \A b \in Actors : pending'[b] # NoJob => pending'[b].src \in stored
    BY <1>11, <1>t, <2>1, JobFields DEF Titled, Settled, PoolTypeOK, OfferSimilar
  <2>3. titled' \subseteq stored /\ needsTitle' \subseteq stored
        /\ UNCHANGED <<stored, queue, job, phase, todo>>
    BY <1>11, <1>t, <2>1 DEF Titled, Settled, callers
  <2> QED BY <1>t, <2>2, <2>3
<1>12. ASSUME Restart PROVE OnlyStored'
  BY <1>12, <1>t, <1>n, PoolAssumption DEF Restart, rows, Enqueuers
<1> QED BY <1>1, <1>2, <1>4, <1>5, <1>6, <1>7, <1>8, <1>9, <1>10, <1>11, <1>12
        DEF PoolNext, WorkerStep, Ends

LEMMA SubmitNext == PoolInv /\ PoolNext => WorkersSubmit'
<1> SUFFICES ASSUME PoolInv, PoolNext PROVE WorkersSubmit'
  OBVIOUS
<1> USE DEF WorkersSubmit
<1>t. PoolTypeOK /\ WorkersSubmit
  BY DEF PoolInv
<1>1. ASSUME UNCHANGED <<stage, pending>> PROVE WorkersSubmit'
  BY <1>1, <1>t
<1>2. CASE \/ \E h \in Handlers : Upload(h) \/ HandlerStep(h)
           \/ SweeperStep
  BY <1>1, <1>2 DEF Upload, HandlerStep, SweeperStep, ListUnhashed, ListNeedingTitle,
                    ListNeedingSimilar, SweepEnds, Enter, workers
<1>3. ASSUME NEW a \in Enqueuers, Enqueue(a) PROVE WorkersSubmit'
  <2>1. \A w \in Workers : pending'[w] = pending[w]
    BY <1>3, <1>t, PoolAssumption
       DEF Enqueue, OfferHash, OfferTitle, OfferSimilar, Actors, PoolTypeOK
  <2> QED BY <1>3, <1>t, <2>1 DEF Enqueue, workers
<1>4. ASSUME NEW a \in Actors, Send(a) \/ Busy(a) PROVE WorkersSubmit'
  <2>1. \A w \in Workers : pending'[w] # NoJob => pending[w] # NoJob
    BY <1>4, <1>t DEF Send, Busy, PoolTypeOK, Actors
  <2> QED BY <1>4, <1>t, <2>1 DEF Send, Busy, workers
<1>5. ASSUME NEW w \in Workers, WorkerStep(w) PROVE WorkersSubmit'
  <2> \A v \in Workers : pending[v] # NoJob => stage[v] \in {"settled", "titled"}
    BY <1>t
  <2>1. CASE Take(w)
    BY <2>1, <1>t DEF Take, Become, PoolTypeOK, workers
  <2>2. CASE AcquireHeavy(w) \/ MissingBlob(w) \/ Analyzed(w) \/ AcquireTitle(w) \/ Retry(w)
    BY <2>2, <1>t DEF AcquireHeavy, MissingBlob, Analyzed, AcquireTitle, Retry, Work, Become,
                      PoolTypeOK
  <2>3. CASE Ends(w)
    BY <2>3, <1>t, EndSteps DEF Done, PoolTypeOK
  <2>4. CASE Titled(w) \/ Settled(w)
    <3>1. /\ stage'[w] \in {"settled", "titled"}
          /\ \A v \in Workers \ {w} : stage'[v] = stage[v] /\ pending'[v] = pending[v]
      BY <2>4, <1>t DEF Titled, Settled, Become, OfferSimilar, PoolTypeOK, Actors
    <3> QED BY <3>1
  <2> QED BY <1>5, <2>1, <2>2, <2>3, <2>4 DEF WorkerStep, Ends
<1>6. CASE Restart
  BY <1>6 DEF Restart, Actors
<1> QED BY <1>2, <1>3, <1>4, <1>5, <1>6 DEF PoolNext

LEMMA TitleStandsNext == PoolInv /\ PoolNext => TitleStands'
<1> SUFFICES ASSUME PoolInv, PoolNext PROVE TitleStands'
  OBVIOUS
<1> USE DEF TitleStands
<1>t. TitleStands /\ OnlyStored
  BY DEF PoolInv
<1>1. ASSUME NEW h \in Handlers, Upload(h) PROVE TitleStands'
  BY <1>1, <1>t DEF Upload, OnlyStored, Untitled, Printed
<1>2. ASSUME needsTitle' \subseteq needsTitle, UNCHANGED titled PROVE TitleStands'
  BY <1>2, <1>t
<1>3. CASE (\E h \in Handlers : HandlerStep(h)) \/ SweeperStep
  BY <1>2, <1>3 DEF HandlerStep, SweeperStep, ListUnhashed, ListNeedingTitle,
                    ListNeedingSimilar, SweepEnds, Enter, rows
<1>4. CASE \/ \E a \in Enqueuers : Enqueue(a)
           \/ \E a \in Actors : Send(a) \/ Busy(a)
           \/ Restart
  BY <1>2, <1>4 DEF Enqueue, Send, Busy, Restart, rows
<1>5. ASSUME NEW w \in Workers, WorkerStep(w) PROVE TitleStands'
  BY <1>5, <1>t DEF WorkerStep, Take, AcquireHeavy, MissingBlob, Analyzed, Publish,
                    AcquireTitle, Titled, Settled, NoFile, Defer, TitleEnds, Compare, Retry,
                    Fail, Work, rows
<1> QED BY <1>1, <1>3, <1>4, <1>5 DEF PoolNext

-----------------------------------------------------------------------------
(* Keys *)

LEMMA HashKeysNext == PoolInv /\ PoolNext => HashKeys'
<1> SUFFICES ASSUME PoolInv, PoolNext PROVE HashKeys'
  OBVIOUS
<1> USE DEF HashKeys
<1>t. PoolTypeOK /\ HashKeys
  BY DEF PoolInv
<1>n. NoJob \notin JobSet
  BY PoolAssumption
<1>1. ASSUME UNCHANGED <<hashing, job>> PROVE HashKeys'
  BY <1>1, <1>t
<1>2. CASE \/ \E h \in Handlers : Upload(h) \/ HandlerStep(h)
           \/ SweeperStep
           \/ \E w \in Workers : \/ AcquireHeavy(w) \/ MissingBlob(w) \/ Analyzed(w)
                                 \/ AcquireTitle(w) \/ Retry(w)
  BY <1>1, <1>2, QuietSteps DEF JobsStay, keys
<1>3. ASSUME NEW a \in Enqueuers, Enqueue(a) PROVE HashKeys'
  BY <1>1, <1>3 DEF Enqueue, keys, workers
<1>4. ASSUME NEW a \in Actors, Send(a) \/ Busy(a) PROVE HashKeys'
  BY <1>1, <1>4 DEF Send, Busy, Forget, keys, workers
<1>5. ASSUME NEW w \in Workers, Take(w) PROVE HashKeys'
  <2> DEFINE j == Head(queue)
  <2>1. j \in JobSet /\ stage[w] = "idle" /\ job[w] = NoJob
    BY <1>5, <1>t, TailFacts DEF Take, PoolTypeOK
  <2> HIDE DEF j
  <2>2. CASE j.kind = "hash" /\ j.src \in hashing
    BY <1>5, <1>1, <2>2 DEF Take, j, workers
  <2>3. CASE ~(j.kind = "hash" /\ j.src \in hashing)
    <3>1. /\ job' = [job EXCEPT ![w] = j]
          /\ hashing' = IF j.kind = "hash" THEN hashing \union {j.src} ELSE hashing
      BY <1>5, <2>3 DEF Take, j
    <3> SUFFICES ASSUME NEW s \in Sources
                 PROVE  /\ s \in hashing' <=> \E v \in Workers : job'[v] = Job("hash", s)
                        /\ \A v, u \in Workers : job'[v] = Job("hash", s)
                                                   /\ job'[u] = Job("hash", s) => v = u
      OBVIOUS
    <3>2. \A v \in Workers : job'[v] = IF v = w THEN j ELSE job[v]
      BY <1>t, <3>1 DEF PoolTypeOK
    <3>3. /\ Job("hash", s) # NoJob
          /\ j = Job("hash", s) <=> j.kind = "hash" /\ j.src = s
      BY <2>1, JobFields
    <3>4. CASE j = Job("hash", s)
      BY <1>t, <2>3, <3>1, <3>2, <3>3, <3>4
    <3>5. CASE j # Job("hash", s)
      BY <1>t, <2>1, <3>1, <3>2, <3>3, <3>5
    <3> QED BY <3>4, <3>5
  <2> QED BY <2>2, <2>3
<1>6. ASSUME NEW w \in Workers, Ends(w) PROVE HashKeys'
  <2>1. Done(w) /\ stage[w] # "idle"
    BY <1>6, EndSteps
  <2>2. job[w] \in JobSet
    BY <1>t, <2>1 DEF PoolTypeOK
  <2> SUFFICES ASSUME NEW s \in Sources
               PROVE  /\ s \in hashing' <=> \E v \in Workers : job'[v] = Job("hash", s)
                      /\ \A v, u \in Workers : job'[v] = Job("hash", s)
                                                 /\ job'[u] = Job("hash", s) => v = u
    OBVIOUS
  <2>3. \A v \in Workers : job'[v] = IF v = w THEN NoJob ELSE job[v]
    BY <1>t, <2>1 DEF Done, PoolTypeOK
  <2>4. /\ Job("hash", s) # NoJob
        /\ job[w] = Job("hash", s) <=> job[w].kind = "hash" /\ job[w].src = s
    BY <2>2, JobFields
  <2>5. s \in hashing' <=> s \in hashing /\ job[w] # Job("hash", s)
    BY <2>1, <2>4 DEF Done, Forget
  <2> QED BY <1>t, <2>3, <2>4, <2>5
<1>7. ASSUME NEW w \in Workers, Titled(w) \/ Settled(w) PROVE HashKeys'
  BY <1>1, <1>7 DEF Titled, Settled
<1>8. CASE Restart
  BY <1>8, JobFields DEF Restart
<1> QED BY <1>2, <1>3, <1>4, <1>5, <1>6, <1>7, <1>8 DEF PoolNext, WorkerStep, Ends

\* What is known of one job with a key, and what is to be shown of it.
JobHasKey(j) == AtMostOnce(j) /\ (KeyOf(j) <=> Queued(j) \/ Running(j) \/ Offered(j))

LEMMA SendKeys ==
    ASSUME PoolInv, NEW a \in Actors, Send(a), NEW j \in KeyedJobs
    PROVE  JobHasKey(j)'
<1>t. PoolTypeOK /\ JobHasKey(j)
  BY DEF PoolInv, JobKeys, JobHasKey
<1>1. j \in JobSet /\ j # NoJob
  BY PoolAssumption DEF KeyedJobs
<1>2. pending[a] \in JobSet /\ queue \in Seq(JobSet)
  BY <1>t DEF PoolTypeOK, Send
<1>3. \A b \in Actors : pending'[b] = IF b = a THEN NoJob ELSE pending[b]
  BY <1>t DEF PoolTypeOK, Send
<1>4. /\ Len(queue') = Len(queue) + 1 /\ Len(queue) \in Nat
      /\ \A i \in 1..Len(queue) : queue'[i] = queue[i]
      /\ queue'[Len(queue) + 1] = pending[a]
  BY <1>2, AppendFacts DEF Send
<1>5. \A i \in 1..Len(queue') : i \in 1..Len(queue) \/ i = Len(queue) + 1
  BY <1>4
<1>6. UNCHANGED <<job, keys>>
  BY DEF Send, workers
<1>7. (KeyOf(j) <=> KeyOf(j)') /\ (Running(j) <=> Running(j)')
  BY <1>6 DEF KeyOf, Running, keys
<1>8. CASE pending[a] = j
  <2>1. Offered(j) /\ ~Queued(j) /\ ~Running(j)
    BY <1>t, <1>8 DEF Offered, JobHasKey, AtMostOnce
  <2>2. ~Offered(j)'
    BY <1>1, <1>3, <1>8, <1>t DEF Offered, JobHasKey, AtMostOnce
  <2>3. \A i \in 1..Len(queue') : queue'[i] = j <=> i = Len(queue) + 1
    BY <1>4, <1>5, <1>8, <2>1 DEF Queued
  <2>4. Queued(j)'
    BY <1>4, <2>3 DEF Queued
  <2> QED BY <1>6, <1>7, <1>t, <2>1, <2>2, <2>3, <2>4 DEF JobHasKey, AtMostOnce, Offered
<1>9. CASE pending[a] # j
  <2>1. Offered(j)' <=> Offered(j)
    BY <1>1, <1>3, <1>9 DEF Offered
  <2>2. \A i \in 1..Len(queue') : queue'[i] = j <=> i \in 1..Len(queue) /\ queue[i] = j
    BY <1>4, <1>5, <1>9
  <2>3. Queued(j)' <=> Queued(j)
    BY <1>4, <2>2 DEF Queued
  <2> QED BY <1>1, <1>3, <1>6, <1>7, <1>t, <2>1, <2>2, <2>3 DEF JobHasKey, AtMostOnce
<1> QED BY <1>8, <1>9

LEMMA ForgetKey ==
    ASSUME NEW j \in KeyedJobs, NEW k \in JobSet, Forget(k)
    PROVE  KeyOf(j)' <=> KeyOf(j) /\ j # k
<1>1. j = k <=> j.kind = k.kind /\ j.src = k.src
  BY DEF KeyedJobs, JobSet
<1>2. j.kind = "title" \/ j.kind = "similar"
  BY DEF KeyedJobs, JobSet
<1> QED BY <1>1, <1>2 DEF KeyOf, Forget

LEMMA BusyKeys ==
    ASSUME PoolInv, NEW a \in Actors, Busy(a), NEW j \in KeyedJobs
    PROVE  JobHasKey(j)'
<1>t. PoolTypeOK /\ JobHasKey(j)
  BY DEF PoolInv, JobKeys, JobHasKey
<1>1. j \in JobSet /\ j # NoJob /\ j.kind # "hash"
  BY PoolAssumption DEF KeyedJobs
<1>2. pending[a] \in JobSet
  BY <1>t DEF PoolTypeOK, Busy
<1>3. \A b \in Actors : pending'[b] = IF b = a THEN NoJob ELSE pending[b]
  BY <1>t DEF PoolTypeOK, Busy
<1>4. UNCHANGED <<queue, job>>
  BY DEF Busy, workers
<1>5. (Queued(j) <=> Queued(j)') /\ (Running(j) <=> Running(j)')
  BY <1>4 DEF Queued, Running
<1>6. KeyOf(j)' <=> KeyOf(j) /\ j # pending[a]
  BY <1>1, <1>2, ForgetKey DEF Busy, KeyOf, keys
<1>7. CASE pending[a] = j
  <2>1. Offered(j) /\ ~Queued(j) /\ ~Running(j)
    BY <1>t, <1>7 DEF Offered, JobHasKey, AtMostOnce
  <2>2. ~Offered(j)'
    BY <1>1, <1>3, <1>7, <1>t DEF Offered, JobHasKey, AtMostOnce
  <2> QED BY <1>4, <1>5, <1>6, <1>7, <1>t, <2>1, <2>2 DEF JobHasKey, AtMostOnce, Offered
<1>8. CASE pending[a] # j
  <2>1. Offered(j)' <=> Offered(j)
    BY <1>1, <1>3, <1>8 DEF Offered
  <2> QED BY <1>1, <1>3, <1>4, <1>5, <1>6, <1>8, <1>t, <2>1 DEF JobHasKey, AtMostOnce
<1> QED BY <1>7, <1>8

\* A job that is offered gets its key; one with a key is not offered.
LEMMA OfferKeys ==
    ASSUME PoolInv, NEW a \in Actors, pending[a] = NoJob, NEW s \in Sources,
           \/ OfferSimilar(a, s) /\ UNCHANGED titling
           \/ OfferTitle(a, s) /\ UNCHANGED similaring
           \/ OfferHash(a, s) /\ UNCHANGED <<titling, similaring>>,
           UNCHANGED <<queue, job>>, NEW j \in KeyedJobs
    PROVE  JobHasKey(j)'
<1>t. PoolTypeOK /\ JobHasKey(j)
  BY DEF PoolInv, JobKeys, JobHasKey
<1>1. /\ j \in JobSet /\ j # NoJob
      /\ j.kind = "title" \/ j.kind = "similar"
  BY PoolAssumption DEF KeyedJobs, JobSet
<1>2. \A k \in {"hash", "title", "similar"} : j = Job(k, s) <=> j.kind = k /\ j.src = s
  BY <1>1, JobFields
<1>3. (Queued(j) <=> Queued(j)') /\ (Running(j) <=> Running(j)')
  BY DEF Queued, Running
<1>4. PICK k \in JobSet \union {NoJob} :
          /\ pending' = [pending EXCEPT ![a] = k]
          /\ k = j => ~KeyOf(j)
          /\ KeyOf(j)' <=> KeyOf(j) \/ k = j
  <2>1. CASE OfferSimilar(a, s) /\ UNCHANGED titling
    <3> DEFINE k == IF s \in similaring THEN NoJob ELSE Job("similar", s)
    <3>1. k \in JobSet \union {NoJob} /\ pending' = [pending EXCEPT ![a] = k]
      BY <2>1, JobFields DEF OfferSimilar
    <3>2. (k = j => ~KeyOf(j)) /\ (KeyOf(j)' <=> KeyOf(j) \/ k = j)
      BY <1>1, <1>2, <2>1 DEF OfferSimilar, KeyOf
    <3> QED BY <3>1, <3>2
  <2>2. CASE OfferTitle(a, s) /\ UNCHANGED similaring
    <3> DEFINE k == IF s \in titling THEN NoJob ELSE Job("title", s)
    <3>1. k \in JobSet \union {NoJob} /\ pending' = [pending EXCEPT ![a] = k]
      BY <2>2, JobFields DEF OfferTitle
    <3>2. (k = j => ~KeyOf(j)) /\ (KeyOf(j)' <=> KeyOf(j) \/ k = j)
      BY <1>1, <1>2, <2>2 DEF OfferTitle, KeyOf
    <3> QED BY <3>1, <3>2
  <2>3. CASE OfferHash(a, s) /\ UNCHANGED <<titling, similaring>>
    <3> DEFINE k == IF s \in hashing THEN NoJob ELSE Job("hash", s)
    <3>1. k \in JobSet \union {NoJob} /\ pending' = [pending EXCEPT ![a] = k]
      BY <2>3, JobFields DEF OfferHash
    <3>2. k # j /\ (KeyOf(j)' <=> KeyOf(j))
      BY <1>1, <1>2, <2>3 DEF KeyOf
    <3> QED BY <3>1, <3>2
  <2> QED BY <2>1, <2>2, <2>3
<1>5. \A b \in Actors : pending'[b] = IF b = a THEN k ELSE pending[b]
  BY <1>t, <1>4 DEF PoolTypeOK
<1>6. CASE k = j
  <2>1. ~Offered(j) /\ ~Queued(j) /\ ~Running(j)
    BY <1>t, <1>4, <1>6 DEF JobHasKey
  <2>2. Offered(j)'
    BY <1>5, <1>6 DEF Offered
  <2> QED BY <1>3, <1>4, <1>5, <1>6, <1>t, <2>1, <2>2 DEF JobHasKey, AtMostOnce, Offered
<1>7. CASE k # j
  <2>1. Offered(j)' <=> Offered(j)
    BY <1>1, <1>5, <1>7 DEF Offered
  <2> QED BY <1>1, <1>3, <1>4, <1>5, <1>7, <1>t, <2>1 DEF JobHasKey, AtMostOnce
<1> QED BY <1>6, <1>7

LEMMA TakeKeys ==
    ASSUME PoolInv, NEW w \in Workers, Take(w), NEW j \in KeyedJobs
    PROVE  JobHasKey(j)'
<1>t. PoolTypeOK /\ JobHasKey(j)
  BY DEF PoolInv, JobKeys, JobHasKey
<1>1. j \in JobSet /\ j # NoJob /\ j.kind # "hash"
  BY PoolAssumption DEF KeyedJobs
<1>2. /\ Len(queue') = Len(queue) - 1 /\ Len(queue) \in Nat /\ Len(queue) > 0
      /\ \A i \in 1..(Len(queue) - 1) : queue'[i] = queue[i + 1]
      /\ Head(queue) = queue[1]
  BY <1>t, TailFacts DEF PoolTypeOK, Take
<1>3. UNCHANGED <<titling, similaring, pending>> /\ job[w] = NoJob
  BY <1>t DEF Take, PoolTypeOK
<1>4. (KeyOf(j) <=> KeyOf(j)') /\ (Offered(j) <=> Offered(j)')
  BY <1>3 DEF KeyOf, Offered
<1>5. CASE Head(queue) = j
  <2>1. Queued(j) /\ ~Running(j) /\ ~Offered(j)
    BY <1>t, <1>2, <1>5 DEF Queued, JobHasKey, AtMostOnce
  <2>2. \A v \in Workers : job'[v] = IF v = w THEN j ELSE job[v]
    BY <1>t, <1>1, <1>5 DEF Take, PoolTypeOK
  <2>3. Running(j)' /\ \A v \in Workers : job'[v] = j => v = w
    BY <2>1, <2>2 DEF Running
  <2>4. \A i \in 1..Len(queue') : queue'[i] # j
    <3> SUFFICES ASSUME NEW i \in 1..Len(queue'), queue'[i] = j PROVE FALSE
      OBVIOUS
    <3>1. i + 1 \in 1..Len(queue) /\ 1 \in 1..Len(queue) /\ i + 1 # 1
      BY <1>2
    <3>2. queue[i + 1] = j /\ queue[1] = j
      BY <1>2, <1>5
    <3> QED BY <3>1, <3>2, <1>t DEF JobHasKey, AtMostOnce
  <2> QED BY <1>3, <1>4, <1>t, <2>1, <2>3, <2>4 DEF JobHasKey, AtMostOnce, Queued
<1>6. CASE Head(queue) # j
  <2>1. \A v \in Workers : job'[v] = j <=> job[v] = j
    BY <1>t, <1>1, <1>3, <1>6 DEF Take, PoolTypeOK, workers
  <2>2. Running(j)' <=> Running(j)
    BY <2>1 DEF Running
  <2>3. \A i \in 1..Len(queue') : i + 1 \in 1..Len(queue) /\ queue'[i] = queue[i + 1]
    BY <1>2
  <2>4. \A i \in 1..Len(queue) : queue[i] = j => i - 1 \in 1..Len(queue') /\ queue'[i - 1] = j
    <3> SUFFICES ASSUME NEW i \in 1..Len(queue), queue[i] = j
                 PROVE  i - 1 \in 1..Len(queue') /\ queue'[i - 1] = j
      OBVIOUS
    <3>1. i # 1
      BY <1>2, <1>6
    <3>2. i - 1 \in 1..(Len(queue) - 1) /\ (i - 1) + 1 = i
      BY <1>2, <3>1
    <3> QED BY <1>2, <3>2
  <2>5. Queued(j)' <=> Queued(j)
    BY <2>3, <2>4 DEF Queued
  <2>6. \A i, n \in 1..Len(queue') : queue'[i] = j /\ queue'[n] = j => i = n
    <3> SUFFICES ASSUME NEW i \in 1..Len(queue'), NEW n \in 1..Len(queue'),
                        queue'[i] = j, queue'[n] = j
                 PROVE  i = n
      OBVIOUS
    <3>1. i + 1 = n + 1
      BY <1>t, <2>3 DEF JobHasKey, AtMostOnce
    <3> QED BY <1>2, <3>1
  <2> QED BY <1>3, <1>4, <1>t, <2>1, <2>2, <2>5, <2>6 DEF JobHasKey, AtMostOnce
<1> QED BY <1>5, <1>6

LEMMA EndKeys ==
    ASSUME PoolInv, NEW w \in Workers, Ends(w), NEW j \in KeyedJobs
    PROVE  JobHasKey(j)'
<1>t. PoolTypeOK /\ JobHasKey(j)
  BY DEF PoolInv, JobKeys, JobHasKey
<1>1. j \in JobSet /\ j # NoJob
  BY PoolAssumption DEF KeyedJobs
<1>2. Done(w) /\ stage[w] # "idle" /\ UNCHANGED <<queue, pending>>
  BY EndSteps
<1>3. job[w] \in JobSet /\ \A v \in Workers : job'[v] = IF v = w THEN NoJob ELSE job[v]
  BY <1>t, <1>2 DEF Done, PoolTypeOK
<1>4. (Queued(j) <=> Queued(j)') /\ (Offered(j) <=> Offered(j)')
  BY <1>2 DEF Queued, Offered
<1>5. KeyOf(j)' <=> KeyOf(j) /\ j # job[w]
  BY <1>2, <1>3, ForgetKey DEF Done
<1>6. CASE job[w] = j
  <2>1. Running(j) /\ ~Queued(j) /\ ~Offered(j)
    BY <1>t, <1>6 DEF Running, JobHasKey, AtMostOnce
  <2>2. ~Running(j)'
    BY <1>1, <1>3, <1>6, <1>t DEF Running, JobHasKey, AtMostOnce
  <2> QED BY <1>2, <1>4, <1>5, <1>6, <1>t, <2>1, <2>2 DEF JobHasKey, AtMostOnce, Running
<1>7. CASE job[w] # j
  <2>1. Running(j)' <=> Running(j)
    BY <1>1, <1>3, <1>7 DEF Running
  <2> QED BY <1>1, <1>2, <1>3, <1>4, <1>5, <1>7, <1>t, <2>1 DEF JobHasKey, AtMostOnce
<1> QED BY <1>6, <1>7

LEMMA JobKeysNext == PoolInv /\ PoolNext => JobKeys'
<1> SUFFICES ASSUME PoolInv, PoolNext, NEW j \in KeyedJobs PROVE JobHasKey(j)'
  BY DEF JobKeys, JobHasKey
<1>1. CASE \/ \E h \in Handlers : Upload(h) \/ HandlerStep(h)
           \/ SweeperStep
           \/ \E w \in Workers : \/ AcquireHeavy(w) \/ MissingBlob(w) \/ Analyzed(w)
                                 \/ AcquireTitle(w) \/ Retry(w)
  <2>1. JobsStay /\ JobHasKey(j)
    BY <1>1, QuietSteps DEF PoolInv, JobKeys, JobHasKey
  <2> QED BY <2>1 DEF JobsStay, keys, JobHasKey, AtMostOnce, KeyOf, Queued, Running, Offered
<1>2. ASSUME NEW a \in Enqueuers, Enqueue(a) PROVE JobHasKey(j)'
  <2> DEFINE s == First(todo[a])
  <2>1. s \in Sources /\ a \in Actors /\ pending[a] = NoJob
    BY <1>2, FirstIsIn DEF Enqueue, Actors, PoolInv, PoolTypeOK
  <2> HIDE DEF s
  <2>2. /\ UNCHANGED <<queue, job>>
        /\ \/ OfferSimilar(a, s) /\ UNCHANGED titling
           \/ OfferTitle(a, s) /\ UNCHANGED similaring
           \/ OfferHash(a, s) /\ UNCHANGED <<titling, similaring>>
    BY <1>2 DEF Enqueue, s, keys, workers
  <2> QED BY <2>1, <2>2, OfferKeys
<1>3. ASSUME NEW w \in Workers, Titled(w) \/ Settled(w) PROVE JobHasKey(j)'
  <2>1. job[w].src \in Sources /\ w \in Actors /\ pending[w] = NoJob
    BY <1>3 DEF Titled, Settled, Actors, PoolInv, PoolTypeOK, WorkersSubmit, JobSet
  <2>2. /\ UNCHANGED <<queue, job>>
        /\ OfferSimilar(w, job[w].src) /\ UNCHANGED titling
    BY <1>3 DEF Titled, Settled
  <2> QED BY <2>1, <2>2, OfferKeys
<1>4. CASE Restart
  <2>1. j # NoJob
    BY PoolAssumption DEF KeyedJobs
  <2> QED BY <1>4, <2>1 DEF Restart, JobHasKey, AtMostOnce, KeyOf, Queued, Running, Offered
<1> QED BY <1>1, <1>2, <1>3, <1>4, SendKeys, BusyKeys, TakeKeys, EndKeys
        DEF PoolNext, WorkerStep, Ends

LEMMA InvNext == PoolInv /\ [PoolNext]_poolVars => PoolInv'
<1> SUFFICES ASSUME PoolInv, [PoolNext]_poolVars PROVE PoolInv'
  OBVIOUS
<1>1. CASE PoolNext
  BY <1>1, TypeNext, StoredNext, SubmitNext, TitleStandsNext, HashKeysNext, JobKeysNext
     DEF PoolInv
<1>2. CASE UNCHANGED poolVars
  BY <1>2 DEF poolVars, rows, keys, workers, callers, PoolInv, PoolTypeOK, OnlyStored,
              WorkersSubmit, TitleStands, HashKeys, JobKeys, KeyedJobs, AtMostOnce, KeyOf,
              Queued, Running, Offered
<1> QED BY <1>1, <1>2

-----------------------------------------------------------------------------
(* Theorems *)

\* The invariant holds: submitting, taking, running, failing and restarting keep the keys of
\* the three maps and the jobs they stand for together (service.go:637-764, pool.go).
THEOREM PoolInvariant == PoolSpec => []PoolInv
BY InvInit, InvNext, PTL DEF PoolSpec

\* The variables of the pool stay within their sets; the queue is never longer
\* than its channel (pool.go).
THEOREM PoolTypes == PoolSpec => []PoolTypeOK
BY PoolInvariant, PTL DEF PoolInv

\* A source that has a title is never queued for one again (repo.go:527-532).
THEOREM TitlesStand == PoolSpec => []TitleStands
BY PoolInvariant, PTL DEF PoolInv

\* One worker at most fingerprints a source, for any number of workers and sweeps
\* (service.go:1088-1091).
THEOREM NeverHashedByTwo == PoolSpec => []HashedByOne
<1>1. ASSUME PoolInv PROVE HashedByOne
  <2> SUFFICES ASSUME NEW s \in Sources
               PROVE  Cardinality({w \in Workers : job[w] = Job("hash", s)})
                          = IF s \in hashing THEN 1 ELSE 0
    BY DEF HashedByOne
  <2>1. /\ s \in hashing <=> \E w \in Workers : job[w] = Job("hash", s)
        /\ \A v, w \in Workers : job[v] = Job("hash", s) /\ job[w] = Job("hash", s) => v = w
    BY <1>1 DEF PoolInv, HashKeys
  <2> DEFINE S == {w \in Workers : job[w] = Job("hash", s)}
  <2>2. CASE s \in hashing
    <3>1. PICK w \in Workers : job[w] = Job("hash", s)
      BY <2>1, <2>2
    <3>2. S = {w}
      BY <2>1, <3>1
    <3> QED BY <2>2, <3>2, FS_Singleton
  <2>3. CASE s \notin hashing
    <3>1. S = {}
      BY <2>1, <2>3
    <3> QED BY <2>3, <3>1, FS_EmptySet
  <2> QED BY <2>2, <2>3
<1> QED BY <1>1, PoolInvariant, PTL

LEMMA CardOfAtMostOne ==
    ASSUME NEW S, \A x, y \in S : x = y
    PROVE  Cardinality(S) = IF S = {} THEN 0 ELSE 1
<1>1. CASE S = {}
  BY <1>1, FS_EmptySet
<1>2. CASE S # {}
  <2>1. PICK x \in S : TRUE
    BY <1>2
  <2>2. S = {x}
    BY <2>1
  <2> QED BY <1>2, <2>2, FS_Singleton
<1> QED BY <1>1, <1>2

LEMMA JobsOfKey ==
    ASSUME PoolInv, NEW j \in KeyedJobs
    PROVE  JobsAt(j) = IF KeyOf(j) THEN 1 ELSE 0
<1> DEFINE Q == {i \in DOMAIN queue : queue[i] = j}
           R == {w \in Workers : job[w] = j}
           O == {a \in Actors : pending[a] = j}
<1>1. AtMostOnce(j) /\ (KeyOf(j) <=> Queued(j) \/ Running(j) \/ Offered(j))
  BY DEF PoolInv, JobKeys
<1>2. DOMAIN queue = 1..Len(queue)
  BY DEF PoolInv, PoolTypeOK
<1>3. (Q = {} <=> ~Queued(j)) /\ (R = {} <=> ~Running(j)) /\ (O = {} <=> ~Offered(j))
  BY <1>2 DEF Queued, Running, Offered
<1>4. (\A x, y \in Q : x = y) /\ (\A x, y \in R : x = y) /\ (\A x, y \in O : x = y)
  BY <1>1, <1>2 DEF AtMostOnce
<1>5. /\ Cardinality(Q) = IF Queued(j) THEN 1 ELSE 0
      /\ Cardinality(R) = IF Running(j) THEN 1 ELSE 0
      /\ Cardinality(O) = IF Offered(j) THEN 1 ELSE 0
  BY <1>3, <1>4, CardOfAtMostOne
<1>6. JobsAt(j) = Cardinality(Q) + Cardinality(R) + Cardinality(O)
  BY DEF JobsAt
<1> HIDE DEF Q, R, O
<1> QED BY <1>1, <1>5, <1>6 DEF AtMostOnce

\* Whatever is lost, refused, repeated or cut off, each key of titling and
\* similaring has exactly one job and each job its key (service.go:698-764).
THEOREM KeysAlwaysHaveJobs == PoolSpec => []KeysHaveJobs
<1>1. ASSUME PoolInv PROVE KeysHaveJobs
  <2> SUFFICES ASSUME NEW s \in Sources
               PROVE  /\ JobsAt(Job("title", s)) = IF s \in titling THEN 1 ELSE 0
                      /\ JobsAt(Job("similar", s)) = IF s \in similaring THEN 1 ELSE 0
    BY DEF KeysHaveJobs
  <2>1. /\ Job("title", s) \in KeyedJobs /\ Job("similar", s) \in KeyedJobs
        /\ KeyOf(Job("title", s)) <=> s \in titling
        /\ KeyOf(Job("similar", s)) <=> s \in similaring
    BY JobFields DEF KeyedJobs, KeyOf
  <2> QED BY <1>1, <2>1, JobsOfKey
<1> QED BY <1>1, PoolInvariant, PTL

=============================================================================
