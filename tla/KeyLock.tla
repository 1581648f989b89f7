------------------------------ MODULE KeyLock ------------------------------
(***************************************************************************)
(* The table of locks of the object cache (lockCache in r2.go).  A lock is  *)
(* made when its key is first wanted and dropped with its last user, so a    *)
(* key may have different locks in the course of time.  cacheMu makes the    *)
(* two changes of the table atomic; the lock itself is taken and released    *)
(* outside it.                                                              *)
(***************************************************************************)
EXTENDS Integers, FiniteSets

CONSTANTS
    Procs, Keys, Nobody,
    Locks,     \* the cacheLock values; one nobody refers to may be used again
    NoLock

ASSUME LockAssumption ==
    /\ Nobody \notin Procs
    /\ NoLock \notin Locks
    /\ IsFiniteSet(Procs)

VARIABLES
    table,     \* cacheLocks
    refs,      \* of a lock
    holder,    \* who has locked mu
    stage, key, mine   \* of a process: where it is, for which key, with which lock

lockVars == <<table, refs, holder, stage, key, mine>>

\* "waits" has a reference, "holds" has the mutex, "leaves" has only the reference.
LockStages == {"out", "waits", "holds", "leaves"}

LockTypeOK ==
    /\ table \in [Keys -> Locks \union {NoLock}]
    /\ refs \in [Locks -> Nat]
    /\ holder \in [Locks -> Procs \union {Nobody}]
    /\ stage \in [Procs -> LockStages]
    /\ key \in [Procs -> Keys]
    /\ mine \in [Procs -> Locks \union {NoLock}]

LockInit ==
    /\ table = [k \in Keys |-> NoLock]
    /\ refs = [m \in Locks |-> 0]
    /\ holder = [m \in Locks |-> Nobody]
    /\ stage = [p \in Procs |-> "out"]
    /\ key \in [Procs -> Keys]
    /\ mine = [p \in Procs |-> NoLock]

Users(m) == {p \in Procs : mine[p] = m}

\* A value the collector has freed, or a new one.
Unused(m) == Users(m) = {} /\ \A k \in Keys : table[k] # m

Enter(p, k, m) ==
    /\ stage[p] = "out"
    /\ \/ table[k] = m /\ UNCHANGED table
       \/ table[k] = NoLock /\ Unused(m) /\ table' = [table EXCEPT ![k] = m]
    /\ refs' = [refs EXCEPT ![m] = IF table[k] = m THEN @ + 1 ELSE 1]
    /\ stage' = [stage EXCEPT ![p] = "waits"]
    /\ key' = [key EXCEPT ![p] = k]
    /\ mine' = [mine EXCEPT ![p] = m]
    /\ UNCHANGED holder

Lock(p) ==
    /\ stage[p] = "waits" /\ holder[mine[p]] = Nobody
    /\ holder' = [holder EXCEPT ![mine[p]] = p]
    /\ stage' = [stage EXCEPT ![p] = "holds"]
    /\ UNCHANGED <<table, refs, key, mine>>

Unlock(p) ==
    /\ stage[p] = "holds"
    /\ holder' = [holder EXCEPT ![mine[p]] = Nobody]
    /\ stage' = [stage EXCEPT ![p] = "leaves"]
    /\ UNCHANGED <<table, refs, key, mine>>

Leave_Always(p) ==
    /\ stage[p] = "leaves"
    /\ refs' = [refs EXCEPT ![mine[p]] = @ - 1]
    /\ table' = [table EXCEPT ![key[p]] = NoLock]
    /\ stage' = [stage EXCEPT ![p] = "out"]
    /\ mine' = [mine EXCEPT ![p] = NoLock]
    /\ UNCHANGED <<holder, key>>

Leave(p) ==
    /\ stage[p] = "leaves"
    /\ refs' = [refs EXCEPT ![mine[p]] = @ - 1]
    /\ table' = IF refs[mine[p]] = 1 THEN [table EXCEPT ![key[p]] = NoLock] ELSE table
    /\ stage' = [stage EXCEPT ![p] = "out"]
    /\ mine' = [mine EXCEPT ![p] = NoLock]
    /\ UNCHANGED <<holder, key>>

LockNext ==
    \E p \in Procs :
        \/ \E k \in Keys, m \in Locks : Enter(p, k, m)
        \/ Lock(p) \/ Unlock(p) \/ Leave(p)

LockSpec == LockInit /\ [][LockNext]_lockVars

-----------------------------------------------------------------------------
(* Properties *)

Inside == [k \in Keys |-> {p \in Procs : stage[p] = "holds" /\ key[p] = k}]

Mutex == INSTANCE KeyMutex WITH Callers <- Procs, Blobs <- Keys, inside <- Inside

\* Every history of the table is a history of one mutex per key, although the lock
\* of a key is not always the same one: no two calls are between the lock and the
\* unlock of an object (r2.go:107-129).
IsKeyMutex == Mutex!MutexSpec

\* "reference counted so the table cannot grow with every object the node has ever
\* touched" (r2.go:100-101): a key without a user has no entry.
TableIsInUse ==
    \A k \in Keys : table[k] # NoLock => \E p \in Procs : key[p] = k /\ mine[p] = table[k]

\* The inductive invariant: the references are counted, a user's lock is the one
\* the table has for its key, and one lock serves one key.
Counted == \A m \in Locks : refs[m] = Cardinality(Users(m))
InTable == \A p \in Procs : mine[p] # NoLock => table[key[p]] = mine[p]
OneKey == \A k, l \in Keys : table[k] # NoLock /\ table[k] = table[l] => k = l
Staged == \A p \in Procs : (stage[p] = "out") <=> (mine[p] = NoLock)
Held == \A p \in Procs : stage[p] = "holds" <=> \E m \in Locks : mine[p] = m /\ holder[m] = p
HeldByUser == \A m \in Locks : holder[m] # Nobody => mine[holder[m]] = m

LockInv ==
    /\ LockTypeOK
    /\ Counted
    /\ InTable
    /\ OneKey
    /\ Staged
    /\ Held
    /\ HeldByUser
    /\ TableIsInUse
=============================================================================
