----------------------------- MODULE MCProgress -----------------------------
(* What must happen in the end, in one run: the pool without an engine       *)
(* (JobPool), fingerprint transactions (FingerprintTx), the title queue with  *)
(* faults (TitleQueue), the client of the engine (EngineGate), connections    *)
(* (Connection) and title similarities with one worker (TitleSimilarity).     *)
(* Beside them, what two workers do with similar titles at the same time.  A  *)
(* behaviour is one of a single part, chosen at the start; the others stay as *)
(* they began.  Each property assumes the fairness that the module states for *)
(* its part.                                                                  *)
EXTENDS EngineGate, TitleSimilarity, TLC

CONSTANTS
    g1, g2, j1, j2,                        \* forms and jobs
    h1, sweeper, nojob, w1, w2, w3, p1, p2, \* a request, the sweeper, workers, processes
    a, b, d1, d2, Nobody, nosource,        \* files, documents
    old, new1, new2                        \* processes of a rolling deploy

VARIABLES
    part,
    stored, hashed, needsTitle, titled, compared, queue, hashing, titling, similaring,
    poolStage, poolJob, phase, todo, pending,
    docStatus, notified, reviewAsked, files, spent, hash, uniq, released, dup,
    txStage, txJob, blob, found, keyOwner, docOwner, aborts,
    title, titleNeeds, due, jobAt, titleJob, listed, uploaded, awaiting, early, lapses,
    connPhase, at, handle, ready, fails, versions, applied, connFaults

poolVars == <<stored, hashed, needsTitle, titled, compared, queue, hashing, titling, similaring,
              poolStage, poolJob, phase, todo, pending>>
txVars == <<docStatus, notified, reviewAsked, files, spent, hash, uniq, released, dup,
            txStage, txJob, blob, found, keyOwner, docOwner, aborts>>
queueVars == <<title, titleNeeds, due, jobAt, titleJob, listed, uploaded, awaiting, early, lapses>>
connVars == <<connPhase, at, handle, ready, fails, versions, applied, connFaults>>

-----------------------------------------------------------------------------
\* One request with two files, one worker, room for two jobs.
PoolFiles == h1 :> {1, 2}
Kinds == (1 :> "printed") @@ (2 :> "untitled")

Pool == INSTANCE JobPool WITH
    Sources <- {1, 2}, Handlers <- {h1}, FilesOf <- PoolFiles, Kind <- Kinds, Workers <- {w1},
    Sweeper <- sweeper, QueueCap <- 2, HeavyCap <- 1, TitleCap <- 1, Batch <- 1,
    Configured <- FALSE, NoJob <- nojob, stage <- poolStage, job <- poolJob

\* Two files of two documents that match and share two lock keys.
Uploaded == (a :> d1) @@ (b :> d2)
Order == (a :> 2) @@ (b :> 1)
DocOrder == (d1 :> 1) @@ (d2 :> 2)
Twins == {<<a, b>>, <<b, a>>}
LockKeys == (a :> {1, 2}) @@ (b :> {1, 2, 3})

Tx == INSTANCE FingerprintTx WITH
    Docs <- {d1, d2}, Sources <- {a, b}, DocOf <- Uploaded, Rank <- Order, DocRank <- DocOrder,
    Near <- Twins, Match <- Twins, AdminOwned <- {}, MaxSources <- 2,
    Workers <- {w1, w2}, Keys <- {1, 2, 3}, KeysOf <- LockKeys, MaxAborts <- 2,
    NoSource <- nosource, live <- files, stage <- txStage, job <- txJob

\* Two processes with a worker each.
TwoProcesses == (w1 :> p1) @@ (w3 :> p2)

Queue == INSTANCE TitleQueue WITH
    Sources <- {a}, Workers <- {w1, w3}, ProcOf <- TwoProcesses, Dotted <- {},
    MaxLapses <- 2, needs <- titleNeeds, job <- titleJob

\* The old process has a binary with one migration less.
KnownByRelease == (old :> 2) @@ (new1 :> 3) @@ (new2 :> 3)

Conn == INSTANCE Connection WITH
    Processes <- {old, new1, new2}, Known <- KnownByRelease, FailLimit <- 2, MaxFaults <- 3,
    phase <- connPhase, faults <- connFaults

\* A chain of similar titles 1 - 2 - 3 in two documents, 1 and 3 similar from one side
\* only; each file keeps one match, and two workers compare them.
SimilarIn == [s \in Sources |-> IF s = 1 THEN d1 ELSE d2]
Chain == {<<1, 2>>, <<2, 1>>, <<2, 3>>, <<3, 2>>, <<3, 1>>}

\* Two similar titles in two documents, and an image beside the second, for one worker.
Pair == {<<1, 2>>, <<2, 1>>}
Alone == INSTANCE TitleSimilarity WITH
    Similar <- Pair, Silent <- {3}, Kept <- 3, Workers <- {w1}, MaxCuts <- 1

ASSUME ProgressAssumption ==
    Queue!QueueAssumption /\ SimilarAssumption /\ Alone!SimilarAssumption

-----------------------------------------------------------------------------
ProgressInit ==
    /\ part \in {"gate", "pool", "tx", "queue", "connection", "pairs", "similarity"}
    /\ GateInit /\ Pool!PoolInit /\ Tx!TxInit /\ Queue!QueueInit /\ Conn!ConnInit
    /\ IF part = "similarity" THEN Alone!SimInit ELSE SimInit

ProgressNext ==
    \/ part = "gate" /\ GateNext
       /\ UNCHANGED <<part, poolVars, txVars, queueVars, connVars, simVars>>
    \/ part = "pool" /\ Pool!PoolNext
       /\ UNCHANGED <<part, gateVars, txVars, queueVars, connVars, simVars>>
    \/ part = "tx" /\ Tx!TxNext
       /\ UNCHANGED <<part, gateVars, poolVars, queueVars, connVars, simVars>>
    \/ part = "queue" /\ Queue!QueueNext
       /\ UNCHANGED <<part, gateVars, poolVars, txVars, connVars, simVars>>
    \/ part = "connection" /\ Conn!ConnNext
       /\ UNCHANGED <<part, gateVars, poolVars, txVars, queueVars, simVars>>
    \/ part = "pairs" /\ SimNext
       /\ UNCHANGED <<part, gateVars, poolVars, txVars, queueVars, connVars>>
    \/ part = "similarity" /\ Alone!SimNext
       /\ UNCHANGED <<part, gateVars, poolVars, txVars, queueVars, connVars>>

ProgressSpec ==
    ProgressInit
    /\ [][ProgressNext]_<<part, gateVars, poolVars, txVars, queueVars, connVars, simVars>>

\* The type invariants of the parts.
ProgressTypeOK ==
    /\ GateTypeOK /\ Pool!PoolTypeOK /\ Tx!TypeOK /\ Tx!TxTypeOK
    /\ Queue!QueueTypeOK /\ Conn!ConnTypeOK
    /\ IF part = "similarity" THEN Alone!SimTypeOK ELSE SimTypeOK

\* Title jobs are served when the forms have been (EngineGate; client.go:130-152).
JobsServed == part = "gate" /\ Fair(Calls) => JobsEnd

\* Every stored file is fingerprinted in the end (JobPool; service.go:662-663).
FilesPickedUp == part = "pool" /\ Pool!PoolFairness => Pool!PickedUp

\* Every file is fingerprinted or removed (FingerprintTx; repo_fingerprint.go:176-330).
EverythingHashed == part = "tx" /\ Tx!Fairness => Tx!EverythingHashed

\* Every file in the title queue leaves it (TitleQueue; repo.go:379-400).
AllLeave == part = "queue" /\ Queue!QueueFairness => Queue!AllLeave

\* Processes that start together all connect in the end (Connection; postgres.go).
AllConnect == part = "connection" /\ Conn!ConnFairness => Conn!AllConnect

\* Two similar titles find each other in the end (TitleSimilarity; service.go:813-824).
SimilarMeet == part = "similarity" /\ Alone!SimFairness => Alone!AllCompared
=============================================================================
