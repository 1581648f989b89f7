----------------------------- MODULE Connection -----------------------------
(***************************************************************************)
(* The connection of each process to PostgreSQL (postgres/postgres.go): it  *)
(* dials, applies the migrations the database does not have, hands the pool *)
(* out, and watches it until too many pings in a row have failed.           *)
(* Processes start together, old and new ones at a rolling deploy; requests *)
(* fail, answers to a commit are lost, processes restart.                   *)
(*                                                                          *)
(* Left out: the settings of the pool, the lengths of delays, what a        *)
(* migration does (its effect is atomic: its body and its row share a       *)
(* transaction), and the two seconds an abandoned pool is kept.             *)
(***************************************************************************)
EXTENDS Naturals, Sequences

CONSTANTS
    Processes,
    Known,        \* the migrations in the binary of a process are 1..Known[p]
    FailLimit,    \* 8 in watch
    MaxFaults     \* bound: failed calls, lost answers, restarts

ASSUME ConnectionAssumption ==
    Known \in [Processes -> Nat] /\ FailLimit \in Nat \ {0} /\ MaxFaults \in Nat

VARIABLES
    phase,      \* where Run is
    at,         \* the migration that migrate looks at
    handle,     \* whether Pool.pool is there
    ready,      \* Pool.ready
    fails,      \* pings in a row that failed
    versions,   \* the committed rows of schema_migrations
    applied,    \* the committed migrations, in the order of their commits
    faults

connVars == <<phase, at, handle, ready, fails, versions, applied, faults>>

InTx == {"record", "commit"}                        \* the body has run
Migrating == {"check", "body"} \union InTx

ConnInit ==
    /\ phase = [p \in Processes |-> "dial"]
    /\ at = [p \in Processes |-> 1]
    /\ handle = [p \in Processes |-> FALSE]
    /\ ready = [p \in Processes |-> FALSE]
    /\ fails = [p \in Processes |-> 0]
    /\ versions = {} /\ applied = <<>>
    /\ faults = 0

ConnTypeOK ==
    /\ phase \in [Processes -> {"dial", "up"} \union Migrating]
    /\ at \in [Processes -> Nat \ {0}]
    /\ handle \in [Processes -> BOOLEAN] /\ ready \in [Processes -> BOOLEAN]
    /\ fails \in [Processes -> 0..(FailLimit - 1)]
    /\ versions \subseteq Nat \ {0} /\ applied \in Seq(Nat)
    /\ faults \in 0..MaxFaults

Goto(p, ph) == phase' = [phase EXCEPT ![p] = ph]
Fault == faults < MaxFaults /\ faults' = faults + 1
Data == <<versions, applied>>

\* set: the pool, or nothing.
Set(p, pool) == handle' = [handle EXCEPT ![p] = pool] /\ ready' = [ready EXCEPT ![p] = pool]

\* connect reaches the server, and the table of the migrations is there.
Dial_Publishes(p) ==
    /\ phase[p] = "dial"
    /\ Goto(p, "check") /\ at' = [at EXCEPT ![p] = 1]
    /\ Set(p, TRUE)
    /\ UNCHANGED <<fails, versions, applied, faults>>
Dial(p) ==
    /\ phase[p] = "dial"
    /\ Goto(p, "check") /\ at' = [at EXCEPT ![p] = 1]
    /\ UNCHANGED <<handle, ready, fails, versions, applied, faults>>

\* One round of migrate: SELECT EXISTS, and after the last name the pool is handed out.
Check(p) ==
    /\ phase[p] = "check"
    /\ \/ /\ at[p] > Known[p]
          /\ Goto(p, "up") /\ Set(p, TRUE) /\ fails' = [fails EXCEPT ![p] = 0] /\ UNCHANGED at
       \/ /\ at[p] <= Known[p]
          /\ IF at[p] \in versions THEN at' = [at EXCEPT ![p] = @ + 1] /\ UNCHANGED phase
                                   ELSE Goto(p, "body") /\ UNCHANGED at
          /\ UNCHANGED <<handle, ready, fails>>
    /\ UNCHANGED <<versions, applied, faults>>

\* connect fails: its pool is closed, set(nil) publishes the error, Run tries again.
GiveUp_ForGood(p) == Goto(p, "up") /\ Set(p, FALSE) /\ UNCHANGED <<at, fails>>
GiveUp(p) == Goto(p, "dial") /\ Set(p, FALSE) /\ UNCHANGED <<at, fails>>

\* The statements may be refused when another process has applied them.
Body(p) ==
    /\ phase[p] = "body"
    /\ \/ Goto(p, "record") /\ UNCHANGED <<at, handle, ready, fails>>
       \/ at[p] \in versions /\ GiveUp(p)
    /\ UNCHANGED <<versions, applied, faults>>

\* INSERT INTO schema_migrations waits for a transaction that has inserted the same
\* version, and is refused when that version is there.
RowFree(p) == \A q \in Processes \ {p} : ~ (phase[q] = "commit" /\ at[q] = at[p])

Record_OnConflict(p) ==
    /\ phase[p] = "record" /\ RowFree(p)
    /\ Goto(p, "commit")
    /\ UNCHANGED <<at, handle, ready, fails, versions, applied, faults>>
Record(p) ==
    /\ phase[p] = "record" /\ RowFree(p)
    /\ \/ at[p] \notin versions /\ Goto(p, "commit") /\ UNCHANGED <<at, handle, ready, fails>>
       \/ at[p] \in versions /\ GiveUp(p)
    /\ UNCHANGED <<versions, applied, faults>>

\* The commit takes place; its answer may be lost.
Commit(p) ==
    /\ phase[p] = "commit"
    /\ versions' = versions \union {at[p]} /\ applied' = Append(applied, at[p])
    /\ \/ /\ Goto(p, "check") /\ at' = [at EXCEPT ![p] = @ + 1]
          /\ UNCHANGED <<handle, ready, fails, faults>>
       \/ Fault /\ GiveUp(p)

\* A call of connect fails, and a transaction that is open is rolled back.
ConnectFails(p) ==
    /\ phase[p] # "up"
    /\ Fault /\ GiveUp(p)
    /\ UNCHANGED Data

Ping(p) ==
    /\ phase[p] = "up"
    /\ fails' = [fails EXCEPT ![p] = 0] /\ ready' = [ready EXCEPT ![p] = TRUE]
    /\ UNCHANGED <<phase, at, handle, versions, applied, faults>>

PingFails(p) ==
    /\ phase[p] = "up" /\ Fault
    /\ IF fails[p] + 1 >= FailLimit
       THEN Goto(p, "dial") /\ Set(p, FALSE) /\ UNCHANGED <<at, fails>>
       ELSE fails' = [fails EXCEPT ![p] = @ + 1] /\ UNCHANGED <<phase, at, handle, ready>>
    /\ UNCHANGED Data

\* A process is killed or stopped (Close), and started again.
Restart(p) ==
    /\ Fault
    /\ Goto(p, "dial") /\ Set(p, FALSE) /\ fails' = [fails EXCEPT ![p] = 0]
    /\ UNCHANGED <<at, versions, applied>>

RunStep(p) == Dial(p) \/ Check(p) \/ Body(p) \/ Record(p) \/ Commit(p)

ConnNext ==
    \E p \in Processes : RunStep(p) \/ ConnectFails(p) \/ Ping(p) \/ PingFails(p) \/ Restart(p)

ConnSpec == ConnInit /\ [][ConnNext]_connVars

\* Run never stops trying: every delay ends.
ConnFairness == \A p \in Processes : WF_connVars(RunStep(p))

FairConnSpec == ConnSpec /\ ConnFairness

-----------------------------------------------------------------------------
(* Properties *)

\* "A redeploy replays migrate against the same database; it must be a no-op"
\* (migrate_test.go:83), also while another process migrates, after a commit whose answer
\* was lost and after a restart: every migration takes effect once, in the order of the names.
AppliedOnceInOrder ==
    /\ versions = 1..Len(applied)
    /\ \A i \in 1..Len(applied) : applied[i] = i

\* No query ever runs on a schema that lacks a column of its binary
\* (TestMigratedSchemaHasColumnsTheCodeReads): a pool is handed out after the last migration.
HandedOutMigrated == \A p \in Processes : handle[p] => 1..Known[p] \subseteq versions

\* Status of a process is "ok".
Status(p) == ready[p] /\ handle[p]

\* Processes that start together refuse one another's rows, and all of them get a migrated
\* database in the end and keep it, when the faults end.
AllConnect == <>[](\A p \in Processes : Status(p))
=============================================================================
