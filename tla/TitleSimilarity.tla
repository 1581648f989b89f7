-------------------------- MODULE TitleSimilarity --------------------------
(***************************************************************************)
(* Which files have similar titles: the columns title_norm, needs_title and *)
(* title_similar_at, the table title_similarities, and the jobs that fill   *)
(* it (similarSource, repo_title_similar.go) in workers of several          *)
(* processes, while titles arrive and files are removed.                    *)
(*                                                                          *)
(* Every file has one printed title, or none that can be compared (Silent:  *)
(* images, unreadable scans); <<s, t>> is in Similar if the title of s,     *)
(* compared with that of t, scores the threshold, best first in the order   *)
(* of Sources; it may join two files one way only (module TitleScore).      *)
(* The locks of ReplaceSimilar serialise transactions about one pair, so it *)
(* is one step.                                                             *)
(* Left out: scores, the queue of the pool (module JobPool), publishing.    *)
(***************************************************************************)
EXTENDS Naturals, FiniteSets

CONSTANTS
    Sources,
    DocOf,
    Similar,     \* pairs with similar titles
    Silent,      \* files whose title normalises to ""
    Kept,        \* maxSimilarKept
    Workers,
    ProcOf,      \* the process of a worker
    MaxCuts      \* bound: jobs cut off

SimilarAssumption ==
    /\ Sources \subseteq Nat \ {0} /\ IsFiniteSet(Sources)
    /\ Similar \subseteq (Sources \ Silent) \X (Sources \ Silent)
    /\ \A s \in Sources : <<s, s>> \notin Similar
    /\ Silent \subseteq Sources
    /\ Kept \in Nat \ {0} /\ MaxCuts \in Nat

VARIABLES
    live,       \* rows of sources
    gone,       \* ids of removed rows: they are not reused
    needs,      \* needs_title
    normed,     \* title_norm <> ''
    stamped,    \* title_similar_at IS NOT NULL
    pairs,      \* rows of title_similarities
    stage, job, \* of a worker: where it is in similarSource, and the source
    hits,       \* what it found
    cuts        \* jobs cut off so far

simRows == <<live, gone, needs, normed, stamped, pairs, cuts>>
simWorkers == <<stage, job, hits>>
simVars == <<live, gone, needs, normed, stamped, pairs, cuts, stage, job, hits>>

NoSource == 0
Stages == {"idle", "norm", "list", "peers", "replace"}

SimTypeOK ==
    /\ live \subseteq Sources \ gone /\ gone \subseteq Sources /\ needs \subseteq live
    /\ normed \subseteq live \ Silent /\ stamped \subseteq live
    /\ pairs \subseteq live \X live /\ cuts \in 0..MaxCuts
    /\ stage \in [Workers -> Stages] /\ hits \in [Workers -> SUBSET Sources]
    /\ \A w \in Workers : job[w] = NoSource <=> stage[w] = "idle"
    /\ \A v, w \in Workers :
           ProcOf[v] = ProcOf[w] /\ job[v] = job[w] /\ job[v] # NoSource => v = w

SimInit ==
    /\ live = {} /\ gone = {} /\ needs = {} /\ normed = {} /\ stamped = {} /\ pairs = {} /\ cuts = 0
    /\ stage = [w \in Workers |-> "idle"] /\ job = [w \in Workers |-> NoSource]
    /\ hits = [w \in Workers |-> {}]

-----------------------------------------------------------------------------
(* Uploads, titles, removals *)

\* The form has sent a title, or the engine is to be asked.
Insert(s) ==
    /\ s \notin live \union gone
    /\ live' = live \union {s}
    /\ \/ needs' = needs \union {s} /\ UNCHANGED normed
       \/ UNCHANGED needs /\ normed' = normed \union ({s} \ Silent)
    /\ UNCHANGED <<gone, stamped, pairs, cuts, simWorkers>>

\* SetSourceTitle, with a title that was not there before.
Titled(s) ==
    /\ s \in needs
    /\ needs' = needs \ {s}
    /\ normed' = normed \union ({s} \ Silent)
    /\ stamped' = stamped \ {s}
    /\ UNCHANGED <<live, gone, pairs, cuts, simWorkers>>

Remove(s) ==
    /\ s \in live
    /\ live' = live \ {s} /\ gone' = gone \union {s} /\ needs' = needs \ {s}
    /\ normed' = normed \ {s} /\ stamped' = stamped \ {s}
    /\ pairs' = {p \in pairs : p[1] # s /\ p[2] # s}
    /\ UNCHANGED <<cuts, simWorkers>>

-----------------------------------------------------------------------------
(* similarSource *)

MovesTo(w, place) == stage' = [stage EXCEPT ![w] = place]

Done(w) ==
    /\ MovesTo(w, "idle")
    /\ job' = [job EXCEPT ![w] = NoSource] /\ hits' = [hits EXCEPT ![w] = {}]

\* A job of enqueueSimilar: its key keeps the source from having another in the process.
Start(w, s) ==
    /\ stage[w] = "idle" /\ s \in live \ needs
    /\ \A v \in Workers : ProcOf[v] = ProcOf[w] => job[v] # s
    /\ MovesTo(w, "norm") /\ job' = [job EXCEPT ![w] = s]
    /\ UNCHANGED <<simRows, hits>>

SetTitleNorm(w) ==
    /\ stage[w] = "norm"
    /\ normed' = normed \union ((live \intersect {job[w]}) \ Silent)
    /\ MovesTo(w, IF job[w] \in Silent THEN "peers" ELSE "list")
    /\ UNCHANGED <<live, gone, needs, stamped, pairs, cuts, job, hits>>

Candidates(s) == normed \ {s}

Best(S) == {t \in S : Cardinality({u \in S : u < t}) < Kept}

ListCandidates_AllWait(w) ==
    /\ stage[w] = "list"
    /\ hits' = [hits EXCEPT ![w] = Best({t \in Candidates(job[w]) : <<job[w], t>> \in Similar})]
    /\ MovesTo(w, "peers")
    /\ UNCHANGED <<simRows, job>>

ListCandidates(w) ==
    /\ stage[w] = "list"
    /\ hits' = [hits EXCEPT ![w] = Best({t \in Candidates(job[w]) : <<job[w], t>> \in Similar})]
    /\ MovesTo(w, IF hits'[w] = {} THEN "peers" ELSE "replace")
    /\ UNCHANGED <<simRows, job>>

Unready(s) == {t \in needs \ {s} : DocOf[t] = DocOf[s]}

\* A source without hits waits for the titles of its document: it is not stamped.
HasUnready(w) ==
    /\ stage[w] = "peers"
    /\ IF Unready(job[w]) # {} THEN Done(w) ELSE MovesTo(w, "replace") /\ UNCHANGED <<job, hits>>
    /\ UNCHANGED simRows

Replaced_OneColumn(s, H) ==
    {p \in pairs : p[1] # s} \union ({s} \X H) \union (H \X {s})
Replaced(s, H) ==
    {p \in pairs : p[1] # s /\ p[2] # s} \union ({s} \X H) \union (H \X {s})

\* The transaction; a file that has been removed fails it (foreign keys).
ReplaceSimilar(w) ==
    /\ stage[w] = "replace"
    /\ IF hits[w] = {} \/ hits[w] \union {job[w]} \subseteq live
       THEN /\ pairs' = Replaced(job[w], hits[w])
            /\ stamped' = stamped \union (live \intersect {job[w]})
       ELSE UNCHANGED <<pairs, stamped>>
    /\ Done(w)
    /\ UNCHANGED <<live, gone, needs, normed, cuts>>

\* A query fails, the time of the job is up, or the process ends.
Abort(w) ==
    /\ stage[w] # "idle" /\ cuts < MaxCuts
    /\ cuts' = cuts + 1
    /\ Done(w)
    /\ UNCHANGED <<live, gone, needs, normed, stamped, pairs>>

Step(w) == SetTitleNorm(w) \/ ListCandidates(w) \/ HasUnready(w) \/ ReplaceSimilar(w)

SimNext ==
    \/ \E s \in Sources : Insert(s) \/ Titled(s) \/ Remove(s) \/ \E w \in Workers : Start(w, s)
    \/ \E w \in Workers : Step(w) \/ Abort(w)

SimSpec == SimInit /\ [][SimNext]_simVars

\* ListNeedingSimilar: the sweeper starts jobs for rows without the stamp.
Sweep(s) == s \notin stamped /\ \E w \in Workers : Start(w, s)

SimFairness ==
    /\ \A w \in Workers : WF_simVars(Step(w))
    /\ \A s \in Sources : SF_simVars(Sweep(s))

FairSimSpec == SimSpec /\ SimFairness

-----------------------------------------------------------------------------
(* Properties *)

\* From whichever file they are compared.
BothWays(s, t) == {<<s, t>>, <<t, s>>} \subseteq Similar

\* Each of two similar files lists the other, although a job writes only the pairs of its
\* own source and keeps a limited number of them (repo_title_similar.go:232-259).
PairsAreMutual ==
    \A p \in pairs : <<p[2], p[1]>> \in pairs /\ {p, <<p[2], p[1]>>} \intersect Similar # {}

\* Files that have both been compared, and are similar, are listed as such: "Unique files
\* with overlapping titles had title_similar_at set and never ran again" is what migration
\* 018_retitle_similar_now.sql:2-3 repairs.
StampedAreCompared ==
    \A s, t \in stamped : BothWays(s, t) => <<s, t>> \in pairs

\* Two similar titles find each other in the end: a title of the same document that never
\* comes holds up only the stamp of a file that is similar to none (service.go:813-824).
AllCompared ==
    \A p \in {q \in Similar : BothWays(q[1], q[2])} :
        {p[1], p[2]} \subseteq normed \ needs ~> p \in pairs \/ {p[1], p[2]} \intersect gone # {}
=============================================================================
