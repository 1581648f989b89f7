----------------------------- MODULE TitleQueue -----------------------------
(***************************************************************************)
(* The queue of files that wait for a title: the columns title, needs_title *)
(* and next_title_at, the queries of the sweepers, and the title jobs of    *)
(* several processes (runTitleSource; SetSourceTitle, DeferTitleRetry,      *)
(* ClearNeedsTitle, HealSettledTitles in repo.go).  A sweep has its list in  *)
(* hand while it submits the jobs one by one, and a job does not look at     *)
(* next_title_at again.                                                     *)
(*                                                                          *)
(* A time is NULL, still to come, or come; delays pass at any time.  The    *)
(* context of a job may end at any time, and with it every query the job    *)
(* still makes.  Left out: the length of delays and the number of attempts, *)
(* the queue and the slots (module JobPool), fetching files (BlobCache).    *)
(***************************************************************************)
EXTENDS Naturals, FiniteSets

CONSTANTS
    Sources,
    Workers,
    ProcOf,      \* the process of a worker
    Dotted,      \* rows with a heading that ends in .pdf, queued by migration 009 or 012
    MaxLapses    \* bound: jobs whose context ends, and failed queries

NoSource == "none"

Instances == {ProcOf[w] : w \in Workers}

QueueAssumption ==
    /\ Dotted \subseteq Sources /\ NoSource \notin Sources /\ MaxLapses \in Nat
    /\ IsFiniteSet(Instances)

VARIABLES
    title,       \* of a row: "none" (no row), "placeholder",
                 \* "dotted", "printed", "unreadable"
    needs,       \* rows with needs_title
    due,         \* next_title_at: "null", "later" or "now"
    jobAt, job,  \* of a worker: where it is in its job, and the source
    listed,      \* of a process: what its sweep has listed and not yet submitted
    uploaded,    \* of a process: what its uploads have stored and not yet submitted
    awaiting,    \* rows that a job has put off, until their delay passes
    early,       \* of such a row: the other jobs that have it then or get it before that
    lapses

titleRows == <<title, needs, due>>
hands == <<listed, uploaded>>
history == <<awaiting, early>>
titleVars == <<titleRows, jobAt, job, hands, history, lapses>>

\* TitleSettled, and what the queries take for a placeholder: they disagree on a heading
\* that ends in .pdf.
Settled(t) == t \in {"dotted", "printed", "unreadable"}
Placeholder(s) == title[s] \in {"placeholder", "dotted"}

QueueTypeOK ==
    /\ title \in [Sources -> {"none", "placeholder", "dotted", "printed", "unreadable"}]
    /\ needs \subseteq {s \in Sources : title[s] # "none"}
    /\ due \in [Sources -> {"null", "later", "now"}]
    /\ jobAt \in [Workers -> {"idle", "queued", "slot", "engine"}]
    /\ \A w \in Workers : job[w] \in Sources \union {NoSource}
                          /\ (job[w] = NoSource <=> jobAt[w] = "idle")
    /\ \A v, w \in Workers :
           ProcOf[v] = ProcOf[w] /\ job[v] = job[w] /\ job[v] # NoSource => v = w
    /\ listed \in [Instances -> SUBSET Sources] /\ uploaded \in [Instances -> SUBSET Sources]
    /\ awaiting \subseteq Sources /\ early \in [Sources -> Nat]
    /\ lapses \in 0..MaxLapses

QueueInit ==
    /\ title = [s \in Sources |-> IF s \in Dotted THEN "dotted" ELSE "none"]
    /\ needs = Dotted
    /\ due = [s \in Sources |-> "null"]
    /\ jobAt = [w \in Workers |-> "idle"] /\ job = [w \in Workers |-> NoSource]
    /\ listed = [p \in Instances |-> {}] /\ uploaded = listed
    /\ awaiting = {} /\ early = [s \in Sources |-> 0]
    /\ lapses = 0

-----------------------------------------------------------------------------
(* Rows *)

\* A PDF without a title from the form; other files never enter the queue.
Insert(p, s) ==
    /\ title[s] = "none"
    /\ uploaded' = [uploaded EXCEPT ![p] = @ \union {s}]
    /\ title' = [title EXCEPT ![s] = "placeholder"]
    /\ needs' = needs \union {s}
    /\ UNCHANGED <<due, jobAt, job, listed, history, lapses>>

\* PublicTitle drops the ending.
SetSourceTitle(s, t) ==
    /\ title' = [title EXCEPT ![s] = IF t = "dotted" THEN "printed" ELSE t]
    /\ needs' = needs \ {s}
    /\ due' = [due EXCEPT ![s] = "null"]

DeferTitleRetry_Anything(s) ==
    /\ needs' = needs \union {s} /\ due' = [due EXCEPT ![s] = "later"] /\ UNCHANGED title
DeferTitleRetry_NoDelay(s) ==
    /\ needs' = IF Placeholder(s) THEN needs \union {s} ELSE needs
    /\ UNCHANGED <<title, due>>

\* Leaves a settled title alone.
DeferTitleRetry(s) ==
    /\ IF Placeholder(s) THEN needs' = needs \union {s} /\ due' = [due EXCEPT ![s] = "later"]
                         ELSE UNCHANGED <<needs, due>>
    /\ UNCHANGED title

ClearNeedsTitle(s) == needs' = needs \ {s} /\ UNCHANGED <<title, due>>

HealSettledTitles ==
    /\ \E s \in needs : Settled(title[s])
    /\ needs' = {s \in needs : ~Settled(title[s])}
    /\ due' = [s \in Sources |-> IF s \in needs \ needs' THEN "null" ELSE due[s]]
    /\ UNCHANGED <<title, jobAt, job, hands, history, lapses>>

DelayPasses(s) ==
    /\ due[s] = "later"
    /\ due' = [due EXCEPT ![s] = "now"]
    /\ awaiting' = awaiting \ {s} /\ early' = [early EXCEPT ![s] = 0]
    /\ UNCHANGED <<title, needs, jobAt, job, hands, lapses>>

-----------------------------------------------------------------------------
(* Sweeps and uploads *)

Listed_Once(s) == s \in needs /\ Placeholder(s) /\ due[s] = "null"

\* The conditions of ListNeedingTitle.
Listed(s) == s \in needs /\ Placeholder(s) /\ due[s] \in {"null", "now"}

\* As many as the limit allows of those that are eight seconds old.
List(p) ==
    /\ listed[p] = {}
    /\ \E rows \in SUBSET {s \in Sources : Listed(s)} :
           rows # {} /\ listed' = [listed EXCEPT ![p] = rows]
    /\ UNCHANGED <<titleRows, jobAt, job, uploaded, history, lapses>>

Drop(hand, p, s) == [hand EXCEPT ![p] = @ \ {s}]
TakeFrom(p, s) ==
    \/ s \in listed[p] \ Dotted /\ listed' = Drop(listed, p, s) /\ UNCHANGED uploaded
    \/ s \in uploaded[p] /\ uploaded' = Drop(uploaded, p, s) /\ UNCHANGED listed

\* The processes with a job for the source.
Titling(s) == {ProcOf[w] : w \in {v \in Workers : job[v] = s}}

MovesJob(w, place) == jobAt' = [jobAt EXCEPT ![w] = place]
Done(w) == MovesJob(w, "idle") /\ job' = [job EXCEPT ![w] = NoSource]

\* enqueueTitle: the key of the source is free in this process.
Enqueue(w, s) ==
    /\ jobAt[w] = "idle" /\ ProcOf[w] \notin Titling(s)
    /\ TakeFrom(ProcOf[w], s)
    /\ MovesJob(w, "queued") /\ job' = [job EXCEPT ![w] = s]
    /\ early' = IF s \in awaiting THEN [early EXCEPT ![s] = @ + 1] ELSE early
    /\ UNCHANGED <<titleRows, awaiting, lapses>>

\* There is a job already, or the queue is too full for an upload.
Skip(p, s) ==
    /\ TakeFrom(p, s)
    /\ p \in Titling(s) \/ UNCHANGED listed
    /\ UNCHANGED <<titleRows, jobAt, job, history, lapses>>

\* A listed heading that is a title becomes one.
SettleListed(p, s) ==
    /\ s \in listed[p] \intersect Dotted
    /\ listed' = Drop(listed, p, s)
    /\ SetSourceTitle(s, "dotted")
    /\ UNCHANGED <<jobAt, job, uploaded, history, lapses>>

\* The query fails, or the process ends.
Forget(p, s) ==
    /\ lapses < MaxLapses /\ lapses' = lapses + 1
    /\ s \in listed[p] \union uploaded[p]
    /\ listed' = Drop(listed, p, s) /\ uploaded' = Drop(uploaded, p, s)
    /\ UNCHANGED <<titleRows, jobAt, job, history>>

-----------------------------------------------------------------------------
(* Jobs *)

\* A title that has come since is found.
Run(w) ==
    /\ jobAt[w] = "queued"
    /\ IF Settled(title[job[w]])
       THEN SetSourceTitle(job[w], title[job[w]]) /\ Done(w)
       ELSE MovesJob(w, "slot") /\ UNCHANGED <<titleRows, job>>
    /\ UNCHANGED <<hands, history, lapses>>

\* An attempt of the job: it looks for the title again, fetches the file, asks the engine.
Ask(w) ==
    /\ jobAt[w] = "slot"
    /\ IF Settled(title[job[w]])
       THEN SetSourceTitle(job[w], title[job[w]]) /\ Done(w)
       ELSE MovesJob(w, "engine") /\ UNCHANGED <<titleRows, job>>
    /\ UNCHANGED <<hands, history, lapses>>

\* The job goes on without its row when it cannot read it.
Unread(w) ==
    /\ lapses < MaxLapses /\ lapses' = lapses + 1
    /\ \/ jobAt[w] = "queued" /\ MovesJob(w, "slot")
       \/ jobAt[w] = "slot" /\ MovesJob(w, "engine")
    /\ UNCHANGED <<titleRows, job, hands, history>>

FileGone(w) ==
    /\ jobAt[w] = "slot" /\ ~Settled(title[job[w]])
    /\ ClearNeedsTitle(job[w])
    /\ Done(w)
    /\ UNCHANGED <<hands, history, lapses>>

Titled(w, t) ==
    /\ jobAt[w] = "engine" /\ Settled(t)
    /\ SetSourceTitle(job[w], t)
    /\ Done(w)
    /\ UNCHANGED <<hands, history, lapses>>

\* No title, or an error while the context of the job is alive.
Untitled(w) ==
    /\ jobAt[w] = "engine"
    /\ DeferTitleRetry(job[w])
    /\ IF Placeholder(job[w]) /\ job[w] \notin awaiting
       THEN /\ awaiting' = awaiting \union {job[w]}
            /\ early' = [early EXCEPT ![job[w]] = Cardinality(Titling(job[w]) \ {ProcOf[w]})]
       ELSE UNCHANGED history
    /\ Done(w)
    /\ UNCHANGED <<hands, lapses>>

\* retry.Do starts the next attempt after a transient error.
Retry(w) ==
    /\ jobAt[w] = "engine" /\ MovesJob(w, "slot")
    /\ UNCHANGED <<titleRows, job, hands, history, lapses>>

\* The four minutes of the job are up, or its process ends: the deferral fails with the
\* context it is given.
TimesOut(w) ==
    /\ jobAt[w] # "idle" /\ lapses < MaxLapses
    /\ lapses' = lapses + 1
    /\ Done(w)
    /\ UNCHANGED <<titleRows, hands, history>>

JobStep(w) ==
    \/ Run(w) \/ Ask(w) \/ FileGone(w) \/ Untitled(w)
    \/ \E t \in {"printed", "unreadable"} : Titled(w, t)

\* enqueueTitle deals with an entry of the list.
Handle(p, s) ==
    /\ s \in listed[p]
    /\ \/ Skip(p, s) \/ SettleListed(p, s)
       \/ \E w \in Workers : ProcOf[w] = p /\ Enqueue(w, s)

QueueNext ==
    \/ \E p \in Instances : \/ List(p)
                            \/ \E s \in Sources : \/ Insert(p, s) \/ Skip(p, s)
                                                  \/ SettleListed(p, s) \/ Forget(p, s)
    \/ \E s \in Sources : DelayPasses(s) \/ \E w \in Workers : Enqueue(w, s)
    \/ HealSettledTitles
    \/ \E w \in Workers : JobStep(w) \/ Retry(w) \/ Unread(w) \/ TimesOut(w)

QueueSpec == QueueInit /\ [][QueueNext]_titleVars

\* Sweepers list again and again, those first that have been due longest, and deal with what
\* they have listed; jobs proceed; the engine that is asked often enough has an answer.
QueueFairness ==
    /\ \A s \in Sources : /\ WF_titleVars(DelayPasses(s))
                          /\ SF_titleVars(\E p \in Instances : List(p) /\ s \in listed'[p])
                          /\ SF_titleVars(\E w \in Workers, t \in {"printed", "unreadable"} :
                                              job[w] = s /\ Titled(w, t))
    /\ WF_titleVars(HealSettledTitles)
    /\ \A p \in Instances : SF_titleVars(\E s \in Sources : Handle(p, s))
    /\ \A w \in Workers : WF_titleVars(JobStep(w)) /\ SF_titleVars(Ask(w))

FairQueueSpec == QueueSpec /\ QueueFairness

-----------------------------------------------------------------------------
(* Properties *)

\* "Printed titles must never stay in the extraction queue" (015_keep_printed_titles.sql):
\* whatever the jobs of two processes do with one source, a title that one has stored keeps
\* it out; the late job of the other neither takes it back nor delays it (repo.go:511-533).
SettledLeaves ==
    \A s \in Sources : title[s] \in {"printed", "unreadable"} => s \notin needs /\ due[s] = "null"

\* "Backoff is computed in Go so the sweeper does not hammer the engine" (repo.go:508-510):
\* until the delay of a source that has been put off is over, no more jobs run for it than are
\* on their way already, one in each other process, one in the list of each sweep and one of
\* the upload that has stored it; and then none, although no job looks at next_title_at and
\* jobs run out of time.
BacksOff == \A s \in awaiting : early[s] <= 2 * Cardinality(Instances)

\* What does not hold: that there is no such job,
DelayIsKept == \A s \in awaiting : early[s] = 0

\* and that every job that has asked the engine in vain puts its source off.
EndsDeferred ==
    [][\A w \in Workers, s \in Sources :
           job[w] = s /\ jobAt[w] = "engine" /\ jobAt'[w] = "idle" => ~Listed(s)']_titleVars

\* Every file in the queue leaves it, with a title or because its file is gone, however
\* often the engine has nothing to say or a job runs out of time; so do the rows that a
\* migration has queued although they have a heading (repo.go:379-400).
AllLeave == \A s \in Sources : s \in needs ~> s \notin needs
=============================================================================
