------------------------------ MODULE MCParts ------------------------------
(* The parts of the system with few states, in one run: the locks of the     *)
(* object cache, the cache itself, uploads and removals, the connection to   *)
(* the database, fingerprints, the title queue and title scores.  A          *)
(* behaviour is one of a single part, chosen at the start; the others stay   *)
(* as they began.                                                            *)
EXTENDS KeyLock, BlobCache, UploadFlow, Connection, Fingerprints, TitleQueue, TitleScore, TLC

CONSTANTS
    q1, q2, q3, k1, k2,           \* calls of the cache, objects
    c1, a1, a2, e1, f3, f4, f5,   \* a create and two additions, their document and files
    old, new1, new2,              \* processes of a rolling deploy
    f1, f2, s1, s2, t1, t2,       \* files of which fingerprints are compared
    a, b, w1, w2, w3, p1, p2,     \* sources, workers, processes
    biological, geological, ecological, biologically, the, ox

VARIABLE part

ASSUME PartsAssumption ==
    CacheAssumption /\ UploadAssumption /\ QueueAssumption /\ ScoreAssumption

-----------------------------------------------------------------------------
\* A document with room for one more file, and two uploads that want it.
UploadDoc == [r \in Uploads |-> e1]
Uploaded == (c1 :> {f3}) @@ (a1 :> {f4}) @@ (a2 :> {f5})
Number == e1 :> "erp"

\* The old process has a binary with one migration less.
KnownByRelease == [p \in Processes |-> IF p = old THEN 2 ELSE 3]

\* Hashes of four bits in two bands.
TwoBands == [x \in Bits |-> IF x <= 2 THEN 1 ELSE 2]

\* Two processes, one of them with two workers.
TwoProcesses == [w \in Workers |-> IF w = w3 THEN p2 ELSE p1]

\* Words that resemble one another, with their real distances, a stopword and a short
\* word, in titles of two and three words.
Alike == {biological, geological, ecological, biologically}
ShortTitles == [1..2 -> Alike \union {the, ox}] \union [1..3 -> Alike]
Lengths == [w \in Alike \union {the, ox} |->
    CASE w = biologically -> 12 [] w = the -> 3 [] w = ox -> 2 [] OTHER -> 10]
Distances == [p \in {{v, w} : v, w \in Alike \union {the, ox}} |->
    CASE p = {biological, biologically} -> 83
      [] Cardinality(p) = 2 /\ p \subseteq Alike -> IF biologically \in p THEN 67 ELSE 80
      [] OTHER -> 0]

-----------------------------------------------------------------------------
PartsInit ==
    /\ part \in {"locks", "cache", "flow", "connection", "prints", "queue", "score"}
    /\ LockInit /\ (part # "locks" => key = [p \in Procs |-> k1])
    /\ CacheInit /\ UploadInit /\ ConnInit /\ PrintsInit /\ QueueInit
    /\ ScoreInit /\ (part # "score" => left = <<ox, ox>> /\ right = left)

stores == <<lockVars, cacheVars, uploadVars>>
titles == <<titleVars, scoreVars>>

PartsNext ==
    \/ part = "locks" /\ LockNext
       /\ UNCHANGED <<part, cacheVars, uploadVars, connVars, row, titles>>
    \/ part = "cache" /\ CacheNext
       /\ UNCHANGED <<part, lockVars, uploadVars, connVars, row, titles>>
    \/ part = "flow" /\ UploadNext
       /\ UNCHANGED <<part, lockVars, cacheVars, connVars, row, titles>>
    \/ part = "connection" /\ ConnNext /\ UNCHANGED <<part, stores, row, titles>>
    \/ part = "prints" /\ PrintsNext /\ UNCHANGED <<part, stores, connVars, titles>>
    \/ part = "queue" /\ QueueNext /\ UNCHANGED <<part, stores, connVars, row, scoreVars>>
    \/ part = "score" /\ ScoreNext /\ UNCHANGED <<part, stores, connVars, row, titleVars>>

PartsSpec == PartsInit /\ [][PartsNext]_<<part, stores, connVars, row, titles>>

\* The two calls of the cache are alike, and so are the two additions with their files.
PartsSymmetry ==
    Permutations(Callers) \union {(a1 :> a2) @@ (a2 :> a1) @@ (f4 :> f5) @@ (f5 :> f4)}

-----------------------------------------------------------------------------
\* The type invariants of the parts.
PartsTypeOK ==
    /\ LockInv /\ ConnTypeOK /\ PrintsTypeOK /\ CacheTypeOK /\ UploadTypeOK
    /\ QueueTypeOK /\ ScoreTypeOK
=============================================================================
