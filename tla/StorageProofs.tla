---------------------------- MODULE StorageProofs ----------------------------
(* The stored objects.  First the table of locks: it implements one mutex per  *)
(* key, for any number of calls, keys and reused locks.  Then the cache that    *)
(* uses those mutexes, and last the uploads and removals that keep the bucket   *)
(* and the database together.                                                  *)
EXTENDS KeyLock, BlobCache, UploadFlow, FiniteSetTheorems, TLAPS

-----------------------------------------------------------------------------
(* Counting *)

LEMMA UsersFinite == \A m : IsFiniteSet(Users(m)) /\ Cardinality(Users(m)) \in Nat
<1>1. \A m : Users(m) \subseteq Procs
  BY DEF Users
<1>2. \A m : IsFiniteSet(Users(m))
  BY <1>1, FS_Subset, LockAssumption
<1> QED BY <1>2, FS_CardinalityType

\* A lock with one reference has one user.
LEMMA OneUser ==
    ASSUME NEW m, NEW p \in Users(m), Cardinality(Users(m)) = 1
    PROVE  Users(m) = {p}
<1>1. IsFiniteSet(Users(m) \ {p}) /\ Cardinality(Users(m) \ {p}) = 0
  BY UsersFinite, FS_RemoveElement
<1>2. Users(m) \ {p} = {}
  BY <1>1, FS_EmptySet
<1> QED BY <1>2

\* What one process does to its pointer moves it in or out of one set of users.
LEMMA UserEnters ==
    ASSUME LockTypeOK, NEW p \in Procs, NEW m \in Locks, mine[p] = NoLock,
           mine' = [mine EXCEPT ![p] = m]
    PROVE  /\ Users(m)' = Users(m) \union {p} /\ p \notin Users(m)
           /\ \A n \in Locks : n # m => Users(n)' = Users(n)
           /\ Cardinality(Users(m)') = Cardinality(Users(m)) + 1
<1>1. Users(m)' = Users(m) \union {p} /\ p \notin Users(m)
  BY LockAssumption DEF Users, LockTypeOK
<1>2. \A n \in Locks : n # m => Users(n)' = Users(n)
  BY LockAssumption DEF Users, LockTypeOK
<1>3. Cardinality(Users(m) \union {p}) = Cardinality(Users(m)) + 1
  BY <1>1, UsersFinite, FS_AddElement
<1> QED BY <1>1, <1>2, <1>3

LEMMA UserLeaves ==
    ASSUME LockTypeOK, NEW p \in Procs, NEW m \in Locks, mine[p] = m,
           mine' = [mine EXCEPT ![p] = NoLock]
    PROVE  /\ Users(m)' = Users(m) \ {p} /\ p \in Users(m)
           /\ \A n \in Locks : n # m => Users(n)' = Users(n)
           /\ Cardinality(Users(m)') = Cardinality(Users(m)) - 1
<1>1. Users(m)' = Users(m) \ {p} /\ p \in Users(m)
  BY LockAssumption DEF Users, LockTypeOK
<1>2. \A n \in Locks : n # m => Users(n)' = Users(n)
  BY LockAssumption DEF Users, LockTypeOK
<1>3. Cardinality(Users(m) \ {p}) = Cardinality(Users(m)) - 1
  BY <1>1, UsersFinite, FS_RemoveElement
<1> QED BY <1>1, <1>2, <1>3

-----------------------------------------------------------------------------
(* The inductive invariant *)

LEMMA InitInv == LockInit => LockInv
<1> SUFFICES ASSUME LockInit PROVE LockInv
  OBVIOUS
<1>1. \A m \in Locks : Users(m) = {}
  BY LockAssumption DEF LockInit, Users
<1>2. Counted
  BY <1>1, FS_EmptySet DEF Counted, LockInit
<1> QED BY <1>2, LockAssumption
    DEF LockInit, LockInv, LockTypeOK, LockStages, InTable, OneKey, Staged, Held,
        HeldByUser, TableIsInUse

LEMMA EnterInv ==
    ASSUME LockInv, NEW p \in Procs, NEW k \in Keys, NEW m \in Locks, Enter(p, k, m)
    PROVE  LockInv'
<1> USE DEF LockInv, LockTypeOK, LockStages
<1>1. mine[p] = NoLock /\ mine' = [mine EXCEPT ![p] = m]
  BY DEF Enter, Staged
<1>2. /\ Users(m)' = Users(m) \union {p}
      /\ \A n \in Locks : n # m => Users(n)' = Users(n)
      /\ Cardinality(Users(m)') = Cardinality(Users(m)) + 1
  BY <1>1, UserEnters
<1>3. LockTypeOK'
  BY DEF Enter
<1>4. table[k] = m \/ Cardinality(Users(m)) = 0
  BY FS_EmptySet DEF Enter, Unused
<1>5. Counted'
  <2>1. refs'[m] = Cardinality(Users(m)')
    BY <1>2, <1>4, UsersFinite DEF Enter, Counted
  <2>2. \A n \in Locks : n # m => refs'[n] = Cardinality(Users(n)')
    BY <1>2 DEF Enter, Counted
  <2> QED BY <2>1, <2>2 DEF Counted
<1>6. table'[k] = m /\ \A l \in Keys : l # k => table'[l] = table[l]
  BY DEF Enter
<1>7. \A q \in Procs : q # p => mine'[q] = mine[q] /\ key'[q] = key[q]
  BY DEF Enter
<1>8. key'[p] = k /\ mine'[p] = m
  BY DEF Enter
<1>9. InTable'
  <2>1. ASSUME NEW q \in Procs, q # p, mine'[q] # NoLock PROVE table'[key'[q]] = mine'[q]
    BY <2>1, <1>6, <1>7, LockAssumption DEF InTable, Enter
  <2> QED BY <2>1, <1>6, <1>8 DEF InTable
<1>10. OneKey'
  BY <1>6, LockAssumption DEF OneKey, Enter, Unused
<1>11. Staged'
  BY <1>1, LockAssumption DEF Staged, Enter
<1>12. Held' /\ HeldByUser'
  BY <1>1, LockAssumption DEF Held, HeldByUser, Enter, Staged
<1>13. TableIsInUse'
  <2>1. ASSUME NEW l \in Keys, l # k, table'[l] # NoLock
        PROVE \E q \in Procs : key'[q] = l /\ mine'[q] = table'[l]
    <3>1. PICK q \in Procs : key[q] = l /\ mine[q] = table[l]
      BY <2>1, <1>6 DEF TableIsInUse
    <3>2. q # p
      BY <3>1, <2>1, <1>1, <1>6
    <3> QED BY <3>1, <3>2, <1>6, <1>7, <2>1
  <2> QED BY <2>1, <1>6, <1>8 DEF TableIsInUse
<1> QED BY <1>3, <1>5, <1>9, <1>10, <1>11, <1>12, <1>13

LEMMA LockUnlockInv ==
    ASSUME LockInv, NEW p \in Procs, Lock(p) \/ Unlock(p)
    PROVE  LockInv'
<1> USE DEF LockInv, LockTypeOK, LockStages
<1>1. UNCHANGED <<table, refs, key, mine>>
  BY DEF Lock, Unlock
<1>2. mine[p] \in Locks
  BY DEF Lock, Unlock, Staged
<1>3. LockTypeOK'
  BY <1>2 DEF Lock, Unlock
<1>4. \A m : Users(m)' = Users(m)
  BY <1>1 DEF Users
<1>5. Counted' /\ InTable' /\ OneKey' /\ TableIsInUse'
  BY <1>1, <1>4 DEF Counted, InTable, OneKey, TableIsInUse
<1>6. Staged'
  BY <1>1 DEF Lock, Unlock, Staged
<1>7. Held' /\ HeldByUser'
  <2>1. CASE Lock(p)
    BY <2>1, <1>2, LockAssumption DEF Lock, Held, HeldByUser
  <2>2. CASE Unlock(p)
    BY <2>2, <1>2, LockAssumption DEF Unlock, Held, HeldByUser
  <2> QED BY <2>1, <2>2
<1> QED BY <1>3, <1>5, <1>6, <1>7

LEMMA LeaveInv ==
    ASSUME LockInv, NEW p \in Procs, Leave(p)
    PROVE  LockInv'
<1> USE DEF LockInv, LockTypeOK, LockStages
<1>1. PICK m \in Locks : mine[p] = m
  BY DEF Leave, Staged
<1>2. table[key[p]] = m
  BY <1>1, LockAssumption DEF InTable
<1>3. /\ Users(m)' = Users(m) \ {p} /\ p \in Users(m)
      /\ \A n \in Locks : n # m => Users(n)' = Users(n)
      /\ Cardinality(Users(m)') = Cardinality(Users(m)) - 1
  BY <1>1, UserLeaves DEF Leave
<1>4. refs[m] = Cardinality(Users(m)) /\ refs[m] - 1 \in Nat
  <2>1. Cardinality(Users(m)) # 0
    BY <1>3, UsersFinite, FS_EmptySet
  <2> QED BY <2>1, UsersFinite DEF Counted
<1>5. LockTypeOK'
  BY <1>1, <1>4 DEF Leave
<1>6. Counted'
  BY <1>1, <1>3, <1>4 DEF Counted, Leave
<1>7. \A q \in Procs : q # p => mine'[q] = mine[q]
  BY DEF Leave
<1>8. mine'[p] = NoLock /\ key' = key
  BY DEF Leave
<1>9. OneKey'
  BY LockAssumption DEF OneKey, Leave
<1>10. Staged' /\ Held' /\ HeldByUser'
  BY LockAssumption DEF Staged, Held, HeldByUser, Leave
<1>11. CASE refs[m] = 1
  <2>1. \A q \in Procs : q # p => mine[q] # m
    BY <1>11, <1>3, <1>4, OneUser DEF Users
  <2>2. table' = [table EXCEPT ![key[p]] = NoLock]
    BY <1>1, <1>11 DEF Leave
  <2>3. InTable'
    BY <2>1, <2>2, <1>2, <1>7, <1>8 DEF InTable
  <2>4. TableIsInUse'
    <3>1. ASSUME NEW l \in Keys, table'[l] # NoLock
          PROVE \E q \in Procs : key'[q] = l /\ mine'[q] = table'[l]
      <4>1. l # key[p] /\ table'[l] = table[l]
        BY <3>1, <2>2
      <4>2. PICK q \in Procs : key[q] = l /\ mine[q] = table[l]
        BY <4>1, <3>1 DEF TableIsInUse
      <4> QED BY <4>1, <4>2, <1>7, <1>8
    <3> QED BY <3>1 DEF TableIsInUse
  <2> QED BY <2>3, <2>4, <1>5, <1>6, <1>9, <1>10
<1>12. CASE refs[m] # 1
  <2>1. PICK q \in Users(m) : q # p
    <3>1. Users(m) # {p}
      <4>1. Cardinality({p}) = 1
        BY FS_Singleton
      <4> QED BY <4>1, <1>12, <1>4
    <3> QED BY <3>1, <1>3
  <2>2. q \in Procs /\ mine[q] = m /\ table[key[q]] = m
    BY <2>1, <1>2, LockAssumption DEF Users, InTable
  <2>3. key[q] = key[p]
    BY <2>2, <1>2, LockAssumption DEF OneKey
  <2>4. table' = table
    BY <1>1, <1>12 DEF Leave
  <2>5. InTable'
    BY <2>4, <1>7, <1>8 DEF InTable
  <2>6. TableIsInUse'
    <3>1. ASSUME NEW l \in Keys, table'[l] # NoLock
          PROVE \E r \in Procs : key'[r] = l /\ mine'[r] = table'[l]
      <4>1. PICK r \in Procs : key[r] = l /\ mine[r] = table[l]
        BY <3>1, <2>4 DEF TableIsInUse
      <4>2. CASE r # p
        BY <4>1, <4>2, <2>4, <1>7, <1>8
      <4>3. CASE r = p
        BY <4>1, <4>3, <2>1, <2>2, <2>3, <2>4, <1>7, <1>8
      <4> QED BY <4>2, <4>3
    <3> QED BY <3>1 DEF TableIsInUse
  <2> QED BY <2>5, <2>6, <1>5, <1>6, <1>9, <1>10
<1> QED BY <1>11, <1>12

LEMMA StepInv == LockInv /\ [LockNext]_lockVars => LockInv'
<1> SUFFICES ASSUME LockInv, [LockNext]_lockVars PROVE LockInv'
  OBVIOUS
<1>1. ASSUME NEW p \in Procs, NEW k \in Keys, NEW m \in Locks, Enter(p, k, m)
      PROVE LockInv'
  BY <1>1, EnterInv
<1>2. ASSUME NEW p \in Procs, Lock(p) \/ Unlock(p) PROVE LockInv'
  BY <1>2, LockUnlockInv
<1>3. ASSUME NEW p \in Procs, Leave(p) PROVE LockInv'
  BY <1>3, LeaveInv
<1>4. CASE UNCHANGED lockVars
  <2>1. \A m : Users(m)' = Users(m)
    BY <1>4 DEF lockVars, Users
  <2> QED BY <2>1, <1>4
      DEF lockVars, LockInv, LockTypeOK, Counted, InTable, OneKey, Staged, Held,
          HeldByUser, TableIsInUse
<1> QED BY <1>1, <1>2, <1>3, <1>4 DEF LockNext

\* The table always matches the calls under way.
THEOREM TableSound == LockSpec => []LockInv
<1> QED BY InitInv, StepInv, PTL DEF LockSpec

\* A key without a user has no entry, for any number of keys ever used
\* ("so the table cannot grow with every object the node has ever touched",
\* r2.go:100-101).
THEOREM TableNeverGrows == LockSpec => []TableIsInUse
<1>1. LockInv => TableIsInUse
  BY DEF LockInv
<1> QED BY <1>1, TableSound, PTL

-----------------------------------------------------------------------------
(* Refinement *)

\* Two calls that hold a key hold the same lock, so they are one call.
LEMMA HoldersAgree ==
    ASSUME LockInv, NEW p \in Procs, NEW q \in Procs,
           stage[p] = "holds", stage[q] = "holds", key[p] = key[q]
    PROVE  p = q
<1>1. mine[p] \in Locks /\ mine[q] \in Locks /\ holder[mine[p]] = p /\ holder[mine[q]] = q
  BY DEF LockInv, LockTypeOK, Held
<1>2. mine[p] = mine[q]
  BY <1>1, LockAssumption DEF LockInv, InTable
<1> QED BY <1>1, <1>2

LEMMA LockAcquires ==
    ASSUME LockInv, NEW p \in Procs, Lock(p)
    PROVE  Mutex!Acquire(p, key[p])
<1>1. key[p] \in Keys /\ key' = key /\ mine[p] \in Locks /\ holder[mine[p]] = Nobody
  BY DEF LockInv, LockTypeOK, Lock, Staged
<1>2. Inside[key[p]] = {}
  <2>1. ASSUME NEW q \in Procs, stage[q] = "holds", key[q] = key[p] PROVE FALSE
    <3>1. mine[q] \in Locks /\ holder[mine[q]] = q
      BY <2>1 DEF LockInv, LockTypeOK, Held
    <3>2. mine[q] = mine[p]
      BY <3>1, <1>1, <2>1, LockAssumption DEF LockInv, InTable
    <3> QED BY <3>1, <3>2, <1>1, LockAssumption
  <2> QED BY <2>1, <1>1 DEF Inside
<1>3. stage' = [stage EXCEPT ![p] = "holds"] /\ stage \in [Procs -> LockStages]
  BY DEF Lock, LockInv, LockTypeOK
<1>4. Inside' = [Inside EXCEPT ![key[p]] = {p}]
  <2>1. ASSUME NEW k \in Keys, k # key[p] PROVE Inside'[k] = Inside[k]
    BY <2>1, <1>1, <1>3 DEF Inside
  <2>2. Inside'[key[p]] = {p}
    BY <1>1, <1>2, <1>3 DEF Inside
  <2> QED BY <2>1, <2>2, <1>1 DEF Inside
<1> QED BY <1>2, <1>4 DEF Mutex!Acquire

LEMMA UnlockReleases ==
    ASSUME LockInv, NEW p \in Procs, Unlock(p)
    PROVE  Mutex!Release(p, key[p])
<1>1. key[p] \in Keys /\ key' = key /\ stage[p] = "holds"
  BY DEF LockInv, LockTypeOK, Unlock
<1>2. Inside[key[p]] = {p}
  BY <1>1, HoldersAgree DEF Inside
<1>3. stage' = [stage EXCEPT ![p] = "leaves"] /\ stage \in [Procs -> LockStages]
  BY DEF Unlock, LockInv, LockTypeOK
<1>4. Inside' = [Inside EXCEPT ![key[p]] = {}]
  <2>1. ASSUME NEW k \in Keys, k # key[p] PROVE Inside'[k] = Inside[k]
    BY <2>1, <1>1, <1>3 DEF Inside
  <2>2. Inside'[key[p]] = {}
    BY <1>1, <1>2, <1>3 DEF Inside
  <2> QED BY <2>1, <2>2, <1>1 DEF Inside
<1> QED BY <1>2, <1>4 DEF Mutex!Release

\* Making, counting and dropping locks is invisible.
LEMMA OthersStutter ==
    ASSUME LockInv,
           \/ \E p \in Procs : Leave(p) \/ \E k \in Keys, m \in Locks : Enter(p, k, m)
           \/ UNCHANGED lockVars
    PROVE  Inside' = Inside
<1>1. CASE UNCHANGED lockVars
  BY <1>1 DEF lockVars, Inside
<1>2. ASSUME NEW p \in Procs, NEW k \in Keys, NEW m \in Locks, Enter(p, k, m)
      PROVE Inside' = Inside
  <2>1. \A q \in Procs, l \in Keys :
            (stage'[q] = "holds" /\ key'[q] = l) <=> (stage[q] = "holds" /\ key[q] = l)
    BY <1>2 DEF LockInv, LockTypeOK, Enter
  <2> QED BY <2>1 DEF Inside
<1>3. ASSUME NEW p \in Procs, Leave(p) PROVE Inside' = Inside
  <2>1. \A q \in Procs, l \in Keys :
            (stage'[q] = "holds" /\ key'[q] = l) <=> (stage[q] = "holds" /\ key[q] = l)
    BY <1>3 DEF LockInv, LockTypeOK, Leave
  <2> QED BY <2>1 DEF Inside
<1> QED BY <1>1, <1>2, <1>3

\* The table of counted locks implements one mutex per key, for any number of calls,
\* keys and reused locks.
THEOREM TableIsMutex == LockSpec => IsKeyMutex
<1>1. LockInit => Mutex!MutexInit
  BY DEF LockInit, Inside, Mutex!MutexInit
<1>2. LockInv /\ [LockNext]_lockVars => [Mutex!MutexNext]_Inside
  <2> SUFFICES ASSUME LockInv, [LockNext]_lockVars PROVE [Mutex!MutexNext]_Inside
    OBVIOUS
  <2>1. ASSUME NEW p \in Procs, Lock(p) PROVE Mutex!MutexNext
    <3>1. key[p] \in Keys
      BY DEF LockInv, LockTypeOK
    <3> QED BY <2>1, <3>1, LockAcquires DEF Mutex!MutexNext
  <2>2. ASSUME NEW p \in Procs, Unlock(p) PROVE Mutex!MutexNext
    <3>1. key[p] \in Keys
      BY DEF LockInv, LockTypeOK
    <3> QED BY <2>2, <3>1, UnlockReleases DEF Mutex!MutexNext
  <2>3. CASE \/ \E p \in Procs : Leave(p) \/ \E k \in Keys, m \in Locks : Enter(p, k, m)
             \/ UNCHANGED lockVars
    BY <2>3, OthersStutter
  <2> QED BY <2>1, <2>2, <2>3 DEF LockNext
<1> QED BY <1>1, <1>2, TableSound, PTL DEF LockSpec, IsKeyMutex, Mutex!MutexSpec
-----------------------------------------------------------------------------
(* The cache *)

\* Between its lock and its unlock a call is alone with its object; one that removes it
\* is a Delete, and one that is about to keep a copy has seen the object.
Alone == \A p, q \in Callers, k \in Blobs : {p, q} \subseteq Locked(k) => p = q
DeletersDelete == \A p \in Callers : place[p] \in {"remote", "local"} => call[p] = "delete"
KeptIsStored == \A p \in Callers : place[p] = "keep" => object[p] \in bucket

CacheInv == CacheTypeOK /\ Alone /\ DeletersDelete /\ KeptIsStored /\ CopyHasObject

Outside == {"idle", "has", "lock", "open"}
IsCopied(c, k) == c[k] # "none"

LEMMA CacheInitInv == ASSUME CacheAssumption, CacheInit PROVE CacheInv
<1> USE DEF CacheAssumption, CacheInit, MutexInit
<1>1. (CHOOSE k \in Blobs : TRUE) \in Blobs
  OBVIOUS
<1>2. \A k \in Blobs : Locked(k) = {}
  BY DEF Locked
<1>3. Cardinality(Blobs) \in Nat
  BY FS_CardinalityType
<1>4. CacheTypeOK
  <2>1. inside = [k \in Blobs |-> Locked(k)]
    BY <1>2
  <2>2. total \in [Callers -> 0..Cardinality(Blobs)]
    BY <1>3
  <2>3. object \in [Callers -> Blobs]
    BY <1>1
  <2> QED BY <2>1, <2>2, <2>3 DEF CacheTypeOK, Calls, CallStages
<1>5. Alone
  BY <1>2 DEF Alone
<1>6. DeletersDelete /\ KeptIsStored /\ CopyHasObject
  BY DEF DeletersDelete, KeptIsStored, CopyHasObject, Copied
<1> QED BY <1>4, <1>5, <1>6 DEF CacheInv

\* A step of a call that neither takes nor releases the lock, and what it may do to the
\* two stores: only a Delete takes an object away, and it goes on to remove the copy.
Moves(p, s) ==
    /\ s \in CallStages /\ GoesTo(p, s) /\ (s \in Outside <=> place[p] \in Outside)
    /\ UNCHANGED <<inside, call, object>>
    /\ bucket' \subseteq Blobs /\ fileless' \subseteq Jobs \X Blobs
    /\ copy' \in [Blobs -> {"none", "young", "old"}]
    /\ sourceRow' \in [Blobs -> {"new", "stored", "live", "gone"}]
    /\ victims' \in [Callers -> SUBSET Blobs]
    /\ total' \in [Callers -> 0..Cardinality(Blobs)]
    /\ s \in {"remote", "local"} => call[p] = "delete"
    /\ s = "keep" => object[p] \in bucket'
    /\ bucket \ {object[p]} \subseteq bucket'
    /\ bucket \subseteq bucket' \/ (place[p] = "remote" /\ s = "local")
    /\ \A k \in Blobs \ {object[p]} : IsCopied(copy', k) => IsCopied(copy, k)
    /\ IsCopied(copy', object[p]) /\ object[p] \notin bucket' =>
           \/ s = "local"
           \/ IsCopied(copy, object[p]) /\ object[p] \notin bucket /\ place[p] # "local"

LEMMA MovesKeepCacheInv ==
    ASSUME CacheInv, NEW p \in Callers, NEW s, Moves(p, s)
    PROVE  CacheInv'
<1> USE DEF CacheInv, Moves, GoesTo
<1>1. \A q \in Callers : place'[q] \in Outside <=> place[q] \in Outside
  BY DEF CacheTypeOK
<1>2. \A k : Locked(k)' = Locked(k)
  <2> SUFFICES ASSUME NEW k PROVE Locked(k)' = Locked(k)
    OBVIOUS
  <2>1. Locked(k) = {q \in Callers : object[q] = k /\ place[q] \notin Outside}
    BY DEF Locked, Outside
  <2>2. Locked(k)' = {q \in Callers : object[q] = k /\ place'[q] \notin Outside}
    BY DEF Locked, Outside
  <2> QED BY <1>1, <2>1, <2>2
<1>3. CacheTypeOK'
  BY <1>2 DEF CacheTypeOK
<1>4. Alone'
  BY <1>2 DEF Alone
<1>5. DeletersDelete'
  BY DEF DeletersDelete, CacheTypeOK
<1>6. KeptIsStored'
  <2> SUFFICES ASSUME NEW q \in Callers, place'[q] = "keep" PROVE object[q] \in bucket'
    BY DEF KeptIsStored
  <2>1. CASE q = p
    BY <2>1 DEF CacheTypeOK
  <2>2. CASE q # p
    <3>1. place[q] = "keep" /\ object[q] \in bucket
      BY <2>2 DEF KeptIsStored, CacheTypeOK
    <3>2. CASE place[p] = "remote" /\ object[q] = object[p]
      <4>1. {p, q} \subseteq Locked(object[p])
        BY <3>1, <3>2 DEF Locked
      <4> QED BY <2>2, <4>1 DEF Alone, CacheTypeOK
    <3> QED BY <3>1, <3>2
  <2> QED BY <2>1, <2>2
<1>7. CopyHasObject'
  <2> SUFFICES ASSUME NEW k \in Blobs, IsCopied(copy', k), k \notin bucket'
               PROVE \E q \in Callers : Runs(q, "delete")' /\ object[q] = k /\ place'[q] = "local"
    BY DEF CopyHasObject, Copied, IsCopied
  <2>1. CASE k = object[p] /\ s = "local"
    BY <2>1 DEF CacheTypeOK, Runs
  <2>2. CASE ~ (k = object[p] /\ s = "local")
    <3>1. IsCopied(copy, k) /\ k \notin bucket /\ (k = object[p] => place[p] # "local")
      BY <2>2
    <3>2. PICK q \in Callers : Runs(q, "delete") /\ object[q] = k /\ place[q] = "local"
      BY <3>1 DEF CopyHasObject, Copied, IsCopied
    <3>3. q # p
      BY <3>1, <3>2
    <3> QED BY <3>2, <3>3 DEF Runs, CacheTypeOK
  <2> QED BY <2>1, <2>2
<1> QED BY <1>3, <1>4, <1>5, <1>6, <1>7

\* Calls that begin, and what happens to objects between the calls.
LEMMA BeginsKeepCacheInv ==
    ASSUME CacheAssumption, CacheInv,
           \/ Grow
           \/ \E k \in Blobs : \/ Inserted(k)
                               \/ \E p \in Callers :
                                      \/ BeginPut(p, k) \/ BeginImport(p, k) \/ BeginDelete(p, k)
                                      \/ \E c \in Calls : BeginRead(p, c, k)
    PROVE  CacheInv'
<1> USE DEF CacheInv
<1>1. CASE \/ Grow
           \/ \E k \in Blobs : Inserted(k)
  <2>1. /\ UNCHANGED <<inside, bucket, fileless, call, place, object, trimming>>
        /\ copy' \in [Blobs -> {"none", "young", "old"}]
        /\ sourceRow' \in [Blobs -> {"new", "stored", "live", "gone"}]
        /\ \A k \in Blobs : IsCopied(copy', k) => IsCopied(copy, k)
    BY <1>1 DEF Grow, Inserted, SetCopy, CacheTypeOK, IsCopied
  <2>2. \A k : Locked(k)' = Locked(k)
    BY <2>1 DEF Locked
  <2>3. CacheTypeOK'
    BY <2>1, <2>2 DEF CacheTypeOK, trimming
  <2>4. Alone' /\ DeletersDelete' /\ KeptIsStored'
    BY <2>1, <2>2 DEF Alone, DeletersDelete, KeptIsStored
  <2>5. CopyHasObject'
    BY <2>1 DEF CopyHasObject, Copied, IsCopied, Runs
  <2> QED BY <2>3, <2>4, <2>5
<1>2. ASSUME NEW k \in Blobs, NEW p \in Callers, NEW c \in Calls, NEW s \in {"has", "lock"},
             Starts(p, c, k, s), sourceRow' \in [Blobs -> {"new", "stored", "live", "gone"}]
      PROVE  CacheInv'
  <2> USE <1>2 DEF Starts, GoesTo
  <2>1. \A l : Locked(l)' = Locked(l)
    BY DEF Locked, CacheTypeOK
  <2>2. CacheTypeOK'
    BY <2>1 DEF CacheTypeOK, trimming, CallStages
  <2>3. Alone'
    BY <2>1 DEF Alone
  <2>4. DeletersDelete' /\ KeptIsStored'
    BY DEF DeletersDelete, KeptIsStored, CacheTypeOK
  <2>5. CopyHasObject'
    BY DEF CopyHasObject, Copied, Runs, CacheTypeOK
  <2> QED BY <2>2, <2>3, <2>4, <2>5
<1>3. {"put", "import", "delete"} \subseteq Calls
  BY DEF Calls
<1>4. ASSUME NEW k \in Blobs, NEW p \in Callers,
             BeginPut(p, k) \/ BeginImport(p, k) \/ BeginDelete(p, k)
      PROVE  CacheInv'
  <2>1. sourceRow' \in [Blobs -> {"new", "stored", "live", "gone"}]
    BY <1>4 DEF BeginPut, BeginImport, BeginDelete, CacheTypeOK
  <2> QED BY <1>2, <1>3, <1>4, <2>1 DEF BeginPut, BeginImport, BeginDelete
<1>5. ASSUME NEW k \in Blobs, NEW p \in Callers, NEW c \in Calls, BeginRead(p, c, k)
      PROVE  CacheInv'
  <2>1. sourceRow' \in [Blobs -> {"new", "stored", "live", "gone"}]
    BY <1>5 DEF BeginRead, CacheTypeOK
  <2> QED BY <1>2, <1>5, <2>1 DEF BeginRead
<1> QED BY <1>1, <1>4, <1>5

\* A call that takes the lock of its object is alone with it, because nobody is.
LEMMA LockKeepsCacheInv ==
    ASSUME CacheInv, NEW p \in Callers, LockKey(p)
    PROVE  CacheInv'
<1> USE DEF CacheInv, LockKey, GoesTo
<1>1. PICK k \in Blobs : k = object[p]
  BY DEF CacheTypeOK
<1>2. /\ place' \in [Callers -> CallStages]
      /\ place'[p] \in {"upload", "remote", "look"}
      /\ place'[p] = "remote" => call[p] = "delete"
      /\ \A q \in Callers \ {p} : place'[q] = place[q]
  BY DEF CacheTypeOK, CallStages
<1>3. Locked(k) = {} /\ inside' = [inside EXCEPT ![k] = {p}]
  BY <1>1 DEF Acquire, CacheTypeOK
<1>4. Locked(k)' = {p} /\ \A l \in Blobs \ {k} : Locked(l)' = Locked(l)
  BY <1>1, <1>2, <1>3 DEF Locked
<1>5. CacheTypeOK'
  <2>1. inside' = [l \in Blobs |-> Locked(l)']
    BY <1>3, <1>4 DEF CacheTypeOK
  <2> QED BY <1>2, <2>1 DEF CacheTypeOK, store, trimming
<1>6. Alone'
  BY <1>4 DEF Alone
<1>7. DeletersDelete' /\ KeptIsStored'
  BY <1>2 DEF DeletersDelete, KeptIsStored, store
<1>8. CopyHasObject'
  BY <1>2 DEF CopyHasObject, Copied, Runs, store
<1> QED BY <1>5, <1>6, <1>7, <1>8

LEMMA UnlockKeepsCacheInv ==
    ASSUME CacheInv, NEW p \in Callers, UnlockKey(p)
    PROVE  CacheInv'
<1> USE DEF CacheInv, Unlocks, GoesTo
<1>1. PICK k \in Blobs : k = object[p]
  BY DEF CacheTypeOK
<1>2. /\ place[p] \in {"unlock", "fail"}
      /\ place' \in [Callers -> CallStages] /\ place'[p] \in {"open", "idle"}
      /\ \A q \in Callers \ {p} : place'[q] = place[q]
      /\ UNCHANGED <<store, call, object, trimming>>
  BY DEF UnlockKey, CacheTypeOK, CallStages
<1>3. Locked(k) = {p} /\ inside' = [inside EXCEPT ![k] = {}]
  BY <1>1 DEF UnlockKey, Release, CacheTypeOK
<1>4. Locked(k)' = {} /\ \A l \in Blobs \ {k} : Locked(l)' = Locked(l)
  BY <1>1, <1>2, <1>3 DEF Locked
<1>5. CacheTypeOK'
  <2>1. inside' = [l \in Blobs |-> Locked(l)']
    BY <1>3, <1>4 DEF CacheTypeOK
  <2> QED BY <1>2, <2>1 DEF CacheTypeOK, store, trimming
<1>6. Alone'
  BY <1>4 DEF Alone
<1>7. DeletersDelete' /\ KeptIsStored'
  BY <1>2 DEF DeletersDelete, KeptIsStored, store
<1>8. CopyHasObject'
  BY <1>2 DEF CopyHasObject, Copied, Runs, store
<1> QED BY <1>5, <1>6, <1>7, <1>8

\* All other steps of a call are of the kind Moves describes.
LEMMA StepsMove ==
    ASSUME CacheAssumption, CacheInv, NEW p \in Callers, CallStep(p), ~ UnlockKey(p)
    PROVE  \E s : Moves(p, s)
<1> USE DEF CacheInv, CacheTypeOK, Step, Moves, Outside, CallStages, IsCopied
<1>1. object[p] \in Blobs /\ call[p] \in Calls
  OBVIOUS
<1>2. NoFile(p) => fileless' \subseteq Jobs \X Blobs
  BY DEF NoFile
<1>3. CASE Has(p)
  <2>1. place[p] = "has" /\ \E s \in {"lock", "idle"} : GoesTo(p, s)
    BY <1>3 DEF Has
  <2> QED BY <1>1, <1>3, <2>1 DEF Has, store, trimming
<1>4. CASE UploadObject(p)
  BY <1>1, <1>4 DEF UploadObject, trimming
<1>5. CASE Look(p)
  BY <1>1, <1>5 DEF Look, store, trimming
<1>6. CASE Fetch(p)
  BY <1>1, <1>2, <1>6 DEF Fetch, trimming
<1>7. CASE Keep(p)
  BY <1>1, <1>7 DEF Keep, SetCopy, KeptIsStored, trimming
<1>8. CASE DeleteRemote(p)
  BY <1>1, <1>8 DEF DeleteRemote, DeletersDelete, trimming
<1>9. CASE DeleteLocal(p)
  BY <1>1, <1>9 DEF DeleteLocal, SetCopy, trimming
<1>10. CASE OpenCopy(p)
  BY <1>1, <1>2, <1>10 DEF OpenCopy, trimming
<1>11. Cardinality(Copied) \in 0..Cardinality(Blobs) /\ Cardinality(Blobs) \in Nat
  <2>1. Copied \in SUBSET Blobs
    BY DEF Copied
  <2> QED BY <2>1, FS_Subset, FS_CardinalityType DEF CacheAssumption
<1>12. CASE Trim(p)
  BY <1>1, <1>11, <1>12 DEF Trim, store, trimming
<1>13. CASE Evict(p)
  <2>1. place[p] = "evict" /\ UNCHANGED <<inside, bucket, sourceRow, fileless, call, object>>
    BY <1>13 DEF Evict
  <2>2. ASSUME NEW k \in victims[p], total[p] > Want,
               victims' = [victims EXCEPT ![p] = @ \ {k}],
               total' = [total EXCEPT ![p] = IF k \in Copied THEN @ - 1 ELSE @],
               SetCopy(k, "none"), UNCHANGED place
        PROVE  Moves(p, "evict")
    <3>1. total[p] - 1 \in 0..Cardinality(Blobs)
      BY <1>11, <2>2 DEF CacheAssumption
    <3>2. total' \in [Callers -> 0..Cardinality(Blobs)]
      BY <2>2, <3>1
    <3>3. k \in Blobs /\ copy' \in [Blobs -> {"none", "young", "old"}]
          /\ \A l \in Blobs : IsCopied(copy', l) => IsCopied(copy, l)
      BY <2>2 DEF SetCopy
    <3>4. GoesTo(p, "evict") /\ victims' \in [Callers -> SUBSET Blobs]
      BY <2>1, <2>2 DEF GoesTo
    <3> QED BY <1>1, <2>1, <3>2, <3>3, <3>4
  <2>3. CASE GoesTo(p, "unlock") /\ UNCHANGED copy
             /\ victims' = [victims EXCEPT ![p] = {}] /\ total' = [total EXCEPT ![p] = 0]
    BY <1>1, <1>11, <2>1, <2>3
  <2> HIDE DEF Moves
  <2> QED BY <1>13, <2>2, <2>3 DEF Evict
<1> HIDE DEF Moves
<1> QED BY <1>3, <1>4, <1>5, <1>6, <1>7, <1>8, <1>9, <1>10, <1>12, <1>13 DEF CallStep

LEMMA CacheNextInv ==
    ASSUME CacheAssumption, CacheInv, [CacheNext]_cacheVars
    PROVE  CacheInv'
<1>1. CASE UNCHANGED cacheVars
  <2>1. \A k : Locked(k)' = Locked(k)
    BY <1>1 DEF cacheVars, Locked
  <2> QED BY <1>1, <2>1 DEF cacheVars, CacheInv, CacheTypeOK, Alone, DeletersDelete, KeptIsStored,
                            CopyHasObject, Copied, Runs
<1>2. CASE CacheNext
  <2>1. ASSUME NEW p \in Callers, CallStep(p) PROVE CacheInv'
    <3>1. CASE UnlockKey(p)
      BY <3>1, UnlockKeepsCacheInv
    <3>2. CASE ~ UnlockKey(p)
      BY <2>1, <3>2, StepsMove, MovesKeepCacheInv
    <3> QED BY <3>1, <3>2
  <2> QED BY <1>2, <2>1, BeginsKeepCacheInv, LockKeepsCacheInv DEF CacheNext
<1> QED BY <1>1, <1>2

LEMMA CacheSound == ASSUME CacheAssumption PROVE CacheSpec => []CacheInv
<1>1. CacheInit => CacheInv
  BY CacheInitInv
<1>2. CacheInv /\ [CacheNext]_cacheVars => CacheInv'
  BY CacheNextInv
<1> QED BY <1>1, <1>2, PTL DEF CacheSpec

\* The mutex of an object is held by exactly the calls between their lock and unlock.
THEOREM CacheTypes == ASSUME CacheAssumption PROVE CacheSpec => []CacheTypeOK
BY CacheSound, PTL DEF CacheInv

\* A local copy never outlives its object, whichever calls run at the same time, whatever
\* is trimmed and whatever fails (r2.go:400-422).
THEOREM CopyAlwaysHasObject == ASSUME CacheAssumption PROVE CacheSpec => []CopyHasObject
BY CacheSound, PTL DEF CacheInv

-----------------------------------------------------------------------------
(* Uploads and removals *)

\* Everything is a file of its upload.
Theirs ==
    /\ \A r \in Uploads : putting[r] \union written[r] \subseteq FilesOf[r]
    /\ \A d \in Docs :
           toRemove[d] \subseteq FilesIn(d) /\ (removal[d] # "objects" => toRemove[d] = {})
    /\ \A f \in objects \union rows : \E r \in Uploads : f \in FilesOf[r]

\* What an upload has written is there until it has inserted its rows.
WrittenIsStored ==
    /\ \A r \in Uploads \ lost :
           progress[r] \in {"new", "put", "insert"} => written[r] \subseteq objects
    /\ \A r \in Uploads : progress[r] = "insert" => written[r] = FilesOf[r]

\* Only an upload whose commit was lost goes on after its rows are there.
RowsAreFinal ==
    \A r \in Uploads \ lost : progress[r] # "done" => FilesOf[r] \intersect rows = {}

\* A removal works on rows that are gone, of uploads that are over.
LeftAreFinal ==
    \A r \in Uploads \ lost, d \in Docs : toRemove[d] \intersect FilesOf[r] # {} =>
        progress[r] = "done" /\ toRemove[d] \intersect FilesOf[r] \intersect rows = {}

\* An upload that is not over knows its objects, but for those a fault has left.
StoredIsWritten ==
    \A r \in Uploads :
        /\ progress[r] = "new" => FilesOf[r] \intersect objects = {}
        /\ progress[r] \in {"put", "insert", "cleanup"} =>
               FilesOf[r] \intersect objects \subseteq written[r] \union excused

\* No document, no rows; a document that is being created has few enough files.
RowsHaveDocs == \A d \in Docs \ docs : RowsIn(d) = {}
CreatesFit ==
    \A r \in Creates : progress[r] \in {"put", "insert"} => Cardinality(FilesOf[r]) <= MaxSources

ObjectsInv ==
    /\ Theirs /\ WrittenIsStored /\ RowsAreFinal /\ LeftAreFinal /\ StoredIsWritten
    /\ RowsHaveObjects /\ NoOrphans
TablesInv == SizeLimit /\ RowsHaveDocs /\ CreatesFit

UploadInv == UploadTypeOK /\ ObjectsInv /\ TablesInv

LEMMA InDoc ==
    /\ \A d, f : f \in FilesIn(d) <=> \E r \in Uploads : DocOf[r] = d /\ f \in FilesOf[r]
    /\ \A f : f \in Putting <=> \E r \in Uploads : f \in putting[r]
BY DEF FilesIn, Putting

\* A file has one upload, and so one document.
LEMMA OneUpload ==
    ASSUME UploadAssumption
    PROVE  /\ \A r, q \in Uploads : FilesOf[r] \intersect FilesOf[q] # {} => r = q
           /\ \A r \in Uploads : FilesOf[r] \subseteq Files /\ IsFiniteSet(FilesOf[r])
                                 /\ Cardinality(FilesOf[r]) \in Nat
                                 /\ FilesOf[r] \subseteq FilesIn(DocOf[r])
           /\ \A r \in Uploads, d \in Docs : DocOf[r] # d => FilesOf[r] \intersect FilesIn(d) = {}
<1>1. \A r, q \in Uploads : FilesOf[r] \intersect FilesOf[q] # {} => r = q
  BY DEF UploadAssumption
<1>2. \A r \in Uploads : FilesOf[r] \in SUBSET Files
  BY DEF UploadAssumption
<1>3. \A r \in Uploads : IsFiniteSet(FilesOf[r]) /\ Cardinality(FilesOf[r]) \in Nat
  BY <1>2, FS_Subset, FS_CardinalityType DEF UploadAssumption
<1>4. \A r \in Uploads, d \in Docs : DocOf[r] # d => FilesOf[r] \intersect FilesIn(d) = {}
  BY <1>1, InDoc
<1> QED BY <1>1, <1>2, <1>3, <1>4, InDoc

LEMMA UploadInitInv == ASSUME UploadAssumption, UploadInit PROVE UploadInv
<1> USE DEF UploadAssumption, UploadInit
<1>1. Putting = {} /\ \A d : RowsIn(d) = {}
  BY InDoc DEF RowsIn
<1>2. Cardinality({}) = 0
  BY FS_EmptySet
<1>3. UploadTypeOK
  BY <1>1, <1>2 DEF UploadTypeOK, Stages, Removals
<1>4. ObjectsInv
  BY DEF ObjectsInv, Theirs, WrittenIsStored, RowsAreFinal, LeftAreFinal, StoredIsWritten,
         RowsHaveObjects, NoOrphans
<1>5. \A d : Cardinality(RowsIn(d)) = 0
  BY <1>1, <1>2
<1>6. SizeLimit /\ RowsHaveDocs
  BY <1>1, <1>5 DEF SizeLimit, RowsHaveDocs
<1>7. CreatesFit
  BY DEF CreatesFit
<1> QED BY <1>3, <1>4, <1>6, <1>7 DEF UploadInv, TablesInv

-----------------------------------------------------------------------------
(* Uploads and removals: types, slots *)

LEMMA PuttingFinite ==
    ASSUME UploadAssumption, UploadTypeOK
    PROVE  Putting \subseteq Files /\ IsFiniteSet(Putting) /\ Cardinality(Putting) \in Nat
<1>1. Putting \in SUBSET Files
  BY InDoc DEF UploadTypeOK
<1> QED BY <1>1, FS_Subset, FS_CardinalityType DEF UploadAssumption

\* A slot is taken for each file that is being put, and given back when it is not.
LEMMA PutsKeepTypes ==
    ASSUME UploadAssumption, UploadTypeOK, Theirs, NEW r \in Uploads, NEW f \in Files,
           PutStart(r, f) \/ PutOK(r, f) \/ PutFails(r, f)
    PROVE  UploadTypeOK'
<1> USE DEF database, removing
<1>1. CASE PutStart(r, f)
  <2> USE <1>1 DEF PutStart
  <2>1. f \notin Putting /\ Putting' = Putting \union {f}
    <3>1. f \notin Putting
      BY InDoc, OneUpload DEF Theirs
    <3>2. \A x : x \in Putting' <=> x \in Putting \/ x = f
      BY DEF UploadTypeOK, Putting
    <3> QED BY <3>1, <3>2
  <2>2. Cardinality(Putting') = slots'
    BY <2>1, PuttingFinite, FS_AddElement DEF UploadTypeOK
  <2>3. slots' <= PutCap
    BY PuttingFinite DEF UploadTypeOK, UploadAssumption
  <2> QED BY <2>2, <2>3 DEF UploadTypeOK
<1>2. CASE PutOK(r, f) \/ PutFails(r, f)
  <2> USE <1>2 DEF PutOK, PutFails, PutEnds
  <2>1. f \in Putting /\ Putting' = Putting \ {f}
    <3>1. f \in Putting /\ \A q \in Uploads \ {r} : f \notin putting[q]
      BY InDoc, OneUpload DEF Theirs
    <3>2. \A x : x \in Putting' <=> x \in Putting /\ x # f
      BY <3>1 DEF UploadTypeOK, Putting
    <3> QED BY <3>1, <3>2
  <2>2. Cardinality(Putting') = slots'
    BY <2>1, PuttingFinite, FS_RemoveElement DEF UploadTypeOK
  <2>3. slots' <= PutCap
    BY PuttingFinite DEF UploadTypeOK, UploadAssumption
  <2>4. putting' \in [Uploads -> SUBSET Files] /\ written' \in [Uploads -> SUBSET Files]
    BY DEF UploadTypeOK
  <2>5. failed' \in [Uploads -> BOOLEAN]
    BY DEF UploadTypeOK
  <2>6. \A q \in Uploads : putting'[q] # {} => progress'[q] = "put"
    <3>1. putting[r] # {} /\ progress' = progress
      OBVIOUS
    <3>2. \A q \in Uploads \ {r} : putting'[q] = putting[q]
      BY DEF UploadTypeOK
    <3> QED BY <3>1, <3>2 DEF UploadTypeOK
  <2>7. objects' \subseteq Files /\ excused' \subseteq Files
    BY DEF UploadTypeOK
  <2> QED BY <2>2, <2>3, <2>4, <2>5, <2>6, <2>7 DEF UploadTypeOK
<1> QED BY <1>1, <1>2

LEMMA StepsKeepTypes ==
    ASSUME UploadAssumption, UploadTypeOK, NEW r \in Uploads,
           Begin(r) \/ Stored(r) \/ InsertRefused(r) \/ InsertOK(r) \/ InsertFails(r) \/ Cleanup(r)
    PROVE  UploadTypeOK'
<1> USE DEF database, removing, UploadTypeOK, MovesTo, Stages
<1>1. putting' = putting /\ slots' = slots /\ (putting[r] # {} => progress'[r] = progress[r])
  BY DEF Begin, Stored, InsertRefused, InsertOK, InsertFails, Cleanup, Inserting
<1>2. Putting' = Putting
  BY <1>1 DEF Putting
<1>3. progress' \in [Uploads -> Stages]
      /\ \A q \in Uploads \ {r} : progress'[q] = progress[q]
  BY DEF Begin, Stored, InsertRefused, InsertOK, InsertFails, Cleanup, Inserting, GivesUp
<1>4. tries' \in [Uploads \union Docs -> 0..Attempts]
  BY DEF Begin, Stored, InsertRefused, InsertOK, InsertFails, Cleanup, Inserting, GivesUp,
         Returned, TriesAgain, UploadAssumption
<1>5. /\ docs' \subseteq Docs /\ rows' \subseteq Files /\ lost' \subseteq Uploads
  BY OneUpload DEF Begin, Stored, InsertRefused, InsertOK, InsertFails, Cleanup, InsertRows,
         UploadAssumption
<1>6. /\ written' \in [Uploads -> SUBSET Files] /\ failed' \in [Uploads -> BOOLEAN]
      /\ objects' \subseteq Files /\ excused' \subseteq Files /\ UNCHANGED removing
  BY DEF Begin, Stored, InsertRefused, InsertOK, InsertFails, Inserting, Cleanup, Delete
<1> QED BY <1>1, <1>2, <1>3, <1>4, <1>5, <1>6

LEMMA RemovalsKeepTypes ==
    ASSUME UploadAssumption, UploadTypeOK, NEW d \in Docs,
           BeginRemoval(d, "delete") \/ BeginRemoval(d, "reject") \/ RemovalStep(d)
    PROVE  UploadTypeOK'
<1> USE DEF database, upload, UploadTypeOK, Removals
<1>1. UNCHANGED upload /\ Putting' = Putting /\ lost' = lost
  BY DEF BeginRemoval, RemovalStep, RemovalOK, RemovalFails, RemoveObject, Putting
<1>2. RowsIn(d) \subseteq Files
  BY DEF RowsIn
<1>3. docs' \subseteq Docs /\ rows' \subseteq Files /\ objects' \subseteq Files /\ excused' \subseteq Files
  BY <1>2 DEF BeginRemoval, RemovalStep, RemovalOK, RemovalFails, RemoveObject, RemoveRows, Delete
<1>4. removal' \in [Docs -> Removals] /\ toRemove' \in [Docs -> SUBSET Files]
  BY <1>2 DEF BeginRemoval, RemovalStep, RemovalOK, RemovalFails, RemoveObject
<1>5. tries' \in [Uploads \union Docs -> 0..Attempts]
  BY DEF BeginRemoval, RemovalStep, RemovalOK, RemovalFails, RemoveObject, Returned, TriesAgain,
         UploadAssumption
<1> QED BY <1>1, <1>3, <1>4, <1>5

LEMMA CrashKeepsTypes ==
    ASSUME UploadAssumption, UploadTypeOK, Crash
    PROVE  UploadTypeOK'
<1> USE DEF Crash, database
<1>1. Putting' = {} /\ slots' = Cardinality(Putting')
  BY FS_EmptySet, InDoc DEF Putting
<1>2. objects' \subseteq Files
  BY PuttingFinite DEF UploadTypeOK
<1>3. excused' \subseteq Files
  <2>1. UnderWay \subseteq Files
    BY DEF UnderWay
  <2> QED BY <2>1 DEF UploadTypeOK
<1> QED BY <1>1, <1>2, <1>3 DEF UploadTypeOK, UploadAssumption, Stages, Removals

LEMMA UploadKeepsTypes ==
    ASSUME UploadAssumption, UploadTypeOK, Theirs, [UploadNext]_uploadVars
    PROVE  UploadTypeOK'
<1>1. CASE UNCHANGED uploadVars
  BY <1>1 DEF uploadVars, database, upload, removing, UploadTypeOK, Putting
<1>2. ASSUME NEW r \in Uploads, UploadStep(r) PROVE UploadTypeOK'
  BY <1>2, PutsKeepTypes, StepsKeepTypes DEF UploadStep
<1>3. ASSUME NEW r \in Uploads, NEW f \in Files, PutStart(r, f) PROVE UploadTypeOK'
  BY <1>3, PutsKeepTypes
<1>4. CASE UploadNext
  BY <1>2, <1>3, <1>4, RemovalsKeepTypes, CrashKeepsTypes DEF UploadNext
<1> QED BY <1>1, <1>4

-----------------------------------------------------------------------------
(* Uploads and removals: rows and objects *)

\* The steps of an upload on its way to its rows.
LEMMA PutsKeepObjects ==
    ASSUME UploadAssumption, UploadTypeOK, ObjectsInv, NEW r \in Uploads,
           Begin(r) \/ Stored(r) \/ \E f \in Files : PutStart(r, f) \/ PutOK(r, f) \/ PutFails(r, f)
    PROVE  ObjectsInv'
<1> USE OneUpload DEF ObjectsInv, UploadTypeOK, database, removing, MovesTo
<1>1. CASE Begin(r)
  <2> USE <1>1 DEF Begin
  <2>1. Theirs'
    BY DEF Theirs
  <2>2. WrittenIsStored' /\ RowsAreFinal' /\ LeftAreFinal'
    BY DEF WrittenIsStored, RowsAreFinal, LeftAreFinal, StoredIsWritten
  <2>3. StoredIsWritten'
    BY DEF StoredIsWritten
  <2>4. RowsHaveObjects' /\ NoOrphans'
    BY DEF RowsHaveObjects, NoOrphans, StoredIsWritten
  <2> QED BY <2>1, <2>2, <2>3, <2>4
<1>2. CASE Stored(r)
  <2> USE <1>2 DEF Stored
  <2>1. Theirs'
    BY DEF Theirs
  <2>2. WrittenIsStored' /\ RowsAreFinal' /\ LeftAreFinal'
    BY DEF WrittenIsStored, RowsAreFinal, LeftAreFinal
  <2>3. StoredIsWritten'
    BY DEF StoredIsWritten
  <2>4. RowsHaveObjects' /\ NoOrphans'
    BY DEF RowsHaveObjects, NoOrphans
  <2> QED BY <2>1, <2>2, <2>3, <2>4
<1>3. ASSUME NEW f \in Files, PutStart(r, f) PROVE ObjectsInv'
  <2> USE <1>3 DEF PutStart
  <2>1. Theirs'
    BY DEF Theirs
  <2>2. WrittenIsStored' /\ RowsAreFinal' /\ LeftAreFinal' /\ StoredIsWritten'
    BY DEF WrittenIsStored, RowsAreFinal, LeftAreFinal, StoredIsWritten
  <2>3. RowsHaveObjects' /\ NoOrphans'
    BY DEF RowsHaveObjects, NoOrphans
  <2> QED BY <2>1, <2>2, <2>3
<1>4. ASSUME NEW f \in Files, PutOK(r, f) \/ PutFails(r, f) PROVE ObjectsInv'
  <2>1. /\ f \in FilesOf[r] /\ progress[r] = "put" /\ progress' = progress
        /\ UNCHANGED <<rows, toRemove, removal, lost>>
        /\ putting'[r] = putting[r] \ {f} /\ \A q \in Uploads \ {r} : putting'[q] = putting[q]
        /\ \A q \in Uploads \ {r} : written'[q] = written[q]
        /\ objects \subseteq objects' /\ excused \subseteq excused'
        /\ \/ objects' = objects \union {f} /\ written'[r] = written[r] \union {f}
           \/ objects' = objects \union {f} /\ f \in excused' /\ written'[r] = written[r]
           \/ objects' = objects /\ written'[r] = written[r]
    BY <1>4 DEF PutOK, PutFails, PutEnds, Theirs
  <2>2. Theirs'
    BY <2>1 DEF Theirs
  <2>3. WrittenIsStored'
    BY <2>1 DEF WrittenIsStored
  <2>4. RowsAreFinal' /\ LeftAreFinal' /\ RowsHaveObjects'
    BY <2>1 DEF RowsAreFinal, LeftAreFinal, RowsHaveObjects
  <2>5. StoredIsWritten'
    BY <2>1 DEF StoredIsWritten
  <2>6. NoOrphans'
    BY <2>1 DEF NoOrphans
  <2> QED BY <2>2, <2>3, <2>4, <2>5, <2>6
<1> QED BY <1>1, <1>2, <1>3, <1>4

\* The transaction of an upload commits, with or without an answer, or does not.
LEMMA InsertsKeepObjects ==
    ASSUME UploadAssumption, UploadTypeOK, ObjectsInv, NEW r \in Uploads,
           InsertRefused(r) \/ InsertOK(r) \/ InsertFails(r)
    PROVE  ObjectsInv'
<1> USE OneUpload DEF ObjectsInv, UploadTypeOK, database, removing, MovesTo
<1>1. /\ progress[r] = "insert" /\ progress'[r] \in {"insert", "cleanup", "done"}
      /\ \A q \in Uploads \ {r} : progress'[q] = progress[q]
      /\ UNCHANGED <<objects, putting, written, toRemove, removal, excused>>
      /\ \/ rows' = rows /\ lost' = lost /\ progress'[r] # "done"
         \/ rows' = rows \union FilesOf[r] /\ lost' = lost /\ progress'[r] = "done"
         \/ rows' = rows \union FilesOf[r] /\ lost' = lost \union {r} /\ progress'[r] # "done"
  BY DEF InsertRefused, InsertOK, InsertFails, Inserting, GivesUp, InsertRows
<1>2. Theirs'
  BY <1>1 DEF Theirs
<1>3. WrittenIsStored'
  BY <1>1 DEF WrittenIsStored
<1>4. RowsAreFinal'
  BY <1>1 DEF RowsAreFinal
<1>5. LeftAreFinal'
  BY <1>1 DEF LeftAreFinal
<1>6. StoredIsWritten'
  BY <1>1 DEF StoredIsWritten
<1>7. RowsHaveObjects'
  BY <1>1 DEF RowsHaveObjects, WrittenIsStored
<1>8. NoOrphans'
  BY <1>1 DEF NoOrphans
<1> QED BY <1>2, <1>3, <1>4, <1>5, <1>6, <1>7, <1>8

LEMMA CleanupKeepsObjects ==
    ASSUME UploadAssumption, UploadTypeOK, ObjectsInv, NEW r \in Uploads, Cleanup(r)
    PROVE  ObjectsInv'
<1> USE OneUpload DEF ObjectsInv, UploadTypeOK, database, removing, MovesTo
<1>1. /\ progress[r] = "cleanup" /\ UNCHANGED <<rows, toRemove, removal, lost, putting>>
      /\ \A q \in Uploads \ {r} : progress'[q] = progress[q]
      /\ \A q \in Uploads \ {r} : written'[q] = written[q]
      /\ excused \subseteq excused'
      /\ \/ \E f \in written[r] :
                /\ written'[r] = written[r] \ {f} /\ progress'[r] = "cleanup"
                /\ objects' = objects \ {f} \/ (objects' = objects /\ f \in excused')
         \/ written[r] = {} /\ written'[r] = {} /\ progress'[r] = "done" /\ UNCHANGED objects
  BY DEF Cleanup, Delete
<1>2. Theirs'
  BY <1>1 DEF Theirs
<1>3. written[r] \subseteq FilesOf[r]
  BY DEF Theirs
<1>4. WrittenIsStored'
  BY <1>1 DEF WrittenIsStored, Theirs
<1>5. RowsAreFinal' /\ LeftAreFinal'
  BY <1>1 DEF RowsAreFinal, LeftAreFinal
<1>6. StoredIsWritten'
  BY <1>1, <1>3 DEF StoredIsWritten
<1>7. RowsHaveObjects'
  BY <1>1, <1>3 DEF RowsHaveObjects, RowsAreFinal
<1>8. NoOrphans'
  BY <1>1 DEF NoOrphans, StoredIsWritten
<1> QED BY <1>2, <1>4, <1>5, <1>6, <1>7, <1>8

\* A removal takes the rows of a document, and remembers their keys or loses them.
LEMMA RemovalsKeepObjects ==
    ASSUME UploadAssumption, UploadTypeOK, ObjectsInv, NEW d \in Docs,
           BeginRemoval(d, "delete") \/ BeginRemoval(d, "reject") \/ RemovalOK(d) \/ RemovalFails(d)
    PROVE  ObjectsInv'
<1> USE OneUpload DEF ObjectsInv, UploadTypeOK, database, removing, upload
<1>1. /\ UNCHANGED <<objects, progress, putting, written, lost>>
      /\ \A e \in Docs \ {d} : toRemove'[e] = toRemove[e] /\ removal'[e] = removal[e]
      /\ \/ rows' = rows /\ toRemove' = toRemove /\ excused' = excused
            /\ (toRemove[d] # {} => removal'[d] = "objects")
         \/ /\ rows' = rows \ FilesIn(d) /\ toRemove'[d] = RowsIn(d) /\ excused' = excused
            /\ removal'[d] = "objects" /\ toRemove[d] = {}
         \/ /\ rows' = rows \ FilesIn(d) /\ toRemove' = toRemove /\ toRemove[d] = {}
            /\ excused' = excused \union RowsIn(d)
  BY DEF BeginRemoval, RemovalOK, RemovalFails, RemoveRows, Theirs
<1>2. \A f : f \in RowsIn(d) <=> f \in rows /\ f \in FilesIn(d)
  BY DEF RowsIn
<1>3. Theirs'
  BY <1>1, <1>2 DEF Theirs
<1>4. WrittenIsStored' /\ StoredIsWritten'
  BY <1>1, <1>2 DEF WrittenIsStored, StoredIsWritten
<1>5. RowsAreFinal' /\ RowsHaveObjects'
  BY <1>1, <1>2 DEF RowsAreFinal, RowsHaveObjects
<1>6. LeftAreFinal'
  BY <1>1, <1>2 DEF LeftAreFinal, RowsAreFinal
<1>7. NoOrphans'
  BY <1>1, <1>2 DEF NoOrphans
<1> QED BY <1>3, <1>4, <1>5, <1>6, <1>7

\* The objects of removed rows go, one after the other.
LEMMA RemovingKeepsObjects ==
    ASSUME UploadAssumption, UploadTypeOK, ObjectsInv, NEW d \in Docs, RemoveObject(d)
    PROVE  ObjectsInv'
<1> USE OneUpload DEF ObjectsInv, UploadTypeOK, database, upload
<1>1. /\ UNCHANGED <<rows, progress, putting, written, lost>>
      /\ \A e \in Docs \ {d} : toRemove'[e] = toRemove[e] /\ removal'[e] = removal[e]
      /\ toRemove'[d] # {} => removal'[d] = "objects"
      /\ excused \subseteq excused'
      /\ \/ UNCHANGED <<objects, toRemove>>
         \/ \E f \in toRemove[d] :
                /\ toRemove'[d] = toRemove[d] \ {f}
                /\ objects' = objects \ {f} \/ (objects' = objects /\ f \in excused')
  BY DEF RemoveObject, Delete
<1>2. \A f \in toRemove[d] : \E r \in Uploads :
          f \in FilesOf[r] /\ (r \in lost \/ (progress[r] = "done" /\ f \notin rows))
  BY InDoc DEF Theirs, LeftAreFinal
<1>3. Theirs'
  BY <1>1 DEF Theirs
<1>4. WrittenIsStored'
  BY <1>1, <1>2 DEF WrittenIsStored, Theirs
<1>5. RowsAreFinal' /\ LeftAreFinal' /\ StoredIsWritten'
  BY <1>1 DEF RowsAreFinal, LeftAreFinal, StoredIsWritten
<1>6. RowsHaveObjects'
  BY <1>1, <1>2 DEF RowsHaveObjects
<1>7. NoOrphans'
  BY <1>1 DEF NoOrphans
<1> QED BY <1>3, <1>4, <1>5, <1>6, <1>7

\* A crash excuses what was under way, and only that can lose its keeper.
LEMMA CrashKeepsObjects ==
    ASSUME UploadAssumption, UploadTypeOK, ObjectsInv, Crash
    PROVE  ObjectsInv'
<1> USE OneUpload DEF ObjectsInv, UploadTypeOK, database
<1>1. /\ UNCHANGED <<rows, lost>>
      /\ \A r \in Uploads : putting'[r] = {} /\ written'[r] = {}
      /\ \A r \in Uploads : progress'[r] = IF progress[r] = "new" THEN "new" ELSE "done"
      /\ \A d \in Docs : toRemove'[d] = {}
      /\ excused' = excused \union UnderWay
      /\ objects \subseteq objects'
  BY DEF Crash
<1>2. \A f \in objects' \ objects : \E r \in Uploads : f \in FilesOf[r] /\ progress[r] = "put"
  BY InDoc DEF Crash, Theirs
<1>3. \A f : f \in UnderWay <=> f \in Files /\ (\/ \E d \in Docs : f \in toRemove[d]
                              \/ \E r \in Uploads : f \in FilesOf[r] /\ progress[r] # "done")
  BY DEF UnderWay
<1>4. Theirs'
  BY <1>1, <1>2 DEF Theirs
<1>5. WrittenIsStored' /\ RowsAreFinal' /\ LeftAreFinal'
  BY <1>1 DEF WrittenIsStored, RowsAreFinal, LeftAreFinal
<1>6. StoredIsWritten'
  BY <1>1, <1>2 DEF StoredIsWritten
<1>7. RowsHaveObjects'
  BY <1>1 DEF RowsHaveObjects
<1>8. NoOrphans'
  BY <1>1, <1>2, <1>3 DEF NoOrphans
<1> QED BY <1>4, <1>5, <1>6, <1>7, <1>8

LEMMA UploadKeepsObjects ==
    ASSUME UploadAssumption, UploadTypeOK, ObjectsInv, [UploadNext]_uploadVars
    PROVE  ObjectsInv'
<1>1. CASE UNCHANGED uploadVars
  BY <1>1 DEF uploadVars, database, upload, removing, ObjectsInv, Theirs, WrittenIsStored,
              RowsAreFinal, LeftAreFinal, StoredIsWritten, RowsHaveObjects, NoOrphans
<1>2. ASSUME NEW r \in Uploads, UploadStep(r) PROVE ObjectsInv'
  BY <1>2, PutsKeepObjects, InsertsKeepObjects, CleanupKeepsObjects DEF UploadStep
<1>3. ASSUME NEW r \in Uploads, NEW f \in Files, PutStart(r, f) PROVE ObjectsInv'
  BY <1>3, PutsKeepObjects
<1>4. ASSUME NEW d \in Docs,
             BeginRemoval(d, "delete") \/ BeginRemoval(d, "reject") \/ RemovalStep(d)
      PROVE  ObjectsInv'
  BY <1>4, RemovalsKeepObjects, RemovingKeepsObjects DEF RemovalStep
<1>5. CASE UploadNext
  BY <1>2, <1>3, <1>4, <1>5, CrashKeepsObjects DEF UploadNext
<1> QED BY <1>1, <1>5

-----------------------------------------------------------------------------
(* Uploads and removals: the number of files *)

\* The count that AddSources makes before it stores anything plays no part: the
\* transaction counts again, with the document locked.
LEMMA CommitsFit ==
    ASSUME UploadAssumption, UploadTypeOK, TablesInv, NEW r \in Uploads,
           progress[r] = "insert", ~ Refused(r), InsertRows(r)
    PROVE  SizeLimit' /\ RowsHaveDocs'
<1> USE DEF TablesInv, InsertRows
<1>1. DocOf[r] \in Docs /\ MaxSources \in Nat
  BY DEF UploadAssumption
<1>2. ASSUME NEW d \in Docs, d # DocOf[r] PROVE RowsIn(d)' = RowsIn(d)
  <2>1. FilesOf[r] \intersect FilesIn(d) = {}
    BY <1>2, OneUpload
  <2> QED BY <2>1 DEF RowsIn
<1>3. RowsIn(DocOf[r])' = RowsIn(DocOf[r]) \union FilesOf[r]
  BY OneUpload DEF RowsIn
<1>4. Cardinality(RowsIn(DocOf[r]) \union FilesOf[r]) <= MaxSources
  <2>1. CASE r \in Creates
    <3>1. RowsIn(DocOf[r]) = {}
      BY <1>1, <2>1 DEF Refused, RowsHaveDocs
    <3>2. RowsIn(DocOf[r]) \union FilesOf[r] = FilesOf[r]
      BY <3>1
    <3>3. Cardinality(FilesOf[r]) <= MaxSources
      BY <2>1 DEF CreatesFit
    <3> QED BY <3>2, <3>3
  <2>2. CASE r \notin Creates
    <3> DEFINE R == RowsIn(DocOf[r])
               F == FilesOf[r]
    <3>1. Cardinality(R) + Cardinality(F) <= MaxSources
      BY <2>2 DEF Refused, HasRoom
    <3>2. R \in SUBSET Files
      BY DEF RowsIn, UploadTypeOK
    <3>3. IsFiniteSet(R) /\ IsFiniteSet(F) /\ IsFiniteSet(R \intersect F)
      BY <3>2, OneUpload, FS_Subset, FS_Intersection DEF UploadAssumption
    <3> HIDE DEF R, F
    <3>4. Cardinality(R) \in Nat /\ Cardinality(F) \in Nat /\ Cardinality(R \intersect F) \in Nat
      BY <3>3, FS_CardinalityType
    <3>5. Cardinality(R \union F) = Cardinality(R) + Cardinality(F) - Cardinality(R \intersect F)
      BY <3>3, FS_Union
    <3>6. Cardinality(R \union F) <= MaxSources
      BY <1>1, <3>1, <3>4, <3>5
    <3> QED BY <3>6 DEF R, F
  <2> QED BY <2>1, <2>2
<1>5. SizeLimit'
  BY <1>2, <1>3, <1>4 DEF SizeLimit
<1>6. RowsHaveDocs'
  BY <1>2 DEF RowsHaveDocs
<1> QED BY <1>5, <1>6

LEMMA RemovalsFit ==
    ASSUME UploadAssumption, UploadTypeOK, TablesInv, NEW d \in Docs, RemoveRows(d)
    PROVE  SizeLimit' /\ RowsHaveDocs'
<1> USE DEF TablesInv, RemoveRows
<1>1. \A e \in Docs : RowsIn(e)' \subseteq RowsIn(e)
  BY DEF RowsIn
<1>2. RowsIn(d)' = {}
  BY DEF RowsIn
<1>3. \A e \in Docs : Cardinality(RowsIn(e)') <= MaxSources
  <2> SUFFICES ASSUME NEW e \in Docs PROVE Cardinality(RowsIn(e)') <= MaxSources
    OBVIOUS
  <2>1. RowsIn(e) \in SUBSET Files /\ RowsIn(e)' \in SUBSET RowsIn(e)
    BY <1>1 DEF RowsIn, UploadTypeOK
  <2>2. IsFiniteSet(RowsIn(e)) /\ IsFiniteSet(RowsIn(e)')
        /\ Cardinality(RowsIn(e)') <= Cardinality(RowsIn(e))
    BY <2>1, FS_Subset DEF UploadAssumption
  <2>3. Cardinality(RowsIn(e)) \in Nat /\ Cardinality(RowsIn(e)') \in Nat
    BY <2>2, FS_CardinalityType
  <2> QED BY <2>2, <2>3 DEF SizeLimit, UploadAssumption
<1>4. SizeLimit'
  BY <1>3 DEF SizeLimit
<1>5. RowsHaveDocs'
  BY <1>1, <1>2 DEF RowsHaveDocs
<1> QED BY <1>4, <1>5

LEMMA UploadKeepsTables ==
    ASSUME UploadAssumption, UploadTypeOK, TablesInv, [UploadNext]_uploadVars
    PROVE  TablesInv'
<1>1. ASSUME UNCHANGED database PROVE SizeLimit' /\ RowsHaveDocs'
  BY <1>1 DEF TablesInv, SizeLimit, RowsHaveDocs, RowsIn, database
<1>2. SizeLimit' /\ RowsHaveDocs'
  <2>1. ASSUME NEW r \in Uploads, InsertOK(r) \/ InsertFails(r)
        PROVE  UNCHANGED database \/ (progress[r] = "insert" /\ ~ Refused(r) /\ InsertRows(r))
    BY <2>1 DEF InsertOK, InsertFails, Inserting
  <2>2. ASSUME NEW r \in Uploads, UploadStep(r)
        PROVE  UNCHANGED database \/ InsertOK(r) \/ InsertFails(r)
    BY <2>2 DEF UploadStep, Begin, Stored, PutOK, PutFails, PutEnds, InsertRefused, Cleanup
  <2>3. ASSUME NEW d \in Docs,
               BeginRemoval(d, "delete") \/ BeginRemoval(d, "reject") \/ RemovalStep(d)
        PROVE  UNCHANGED database \/ RemoveRows(d)
    BY <2>3 DEF BeginRemoval, RemovalStep, RemovalOK, RemovalFails, RemoveObject
  <2>4. CASE UNCHANGED database \/ Crash \/ UNCHANGED uploadVars
             \/ \E r \in Uploads, f \in Files : PutStart(r, f)
    BY <1>1, <2>4 DEF Crash, uploadVars, PutStart
  <2> QED BY <1>1, <2>1, <2>2, <2>3, <2>4, CommitsFit, RemovalsFit DEF UploadNext
<1>3. CreatesFit'
  <2>1. Creates \subseteq Uploads
    BY DEF UploadAssumption
  <2>2. \A r \in Creates : progress'[r] \in {"put", "insert"} =>
            progress[r] \in {"put", "insert"} \/ Cardinality(FilesOf[r]) <= MaxSources
    <3> SUFFICES ASSUME NEW q \in Creates, progress'[q] \in {"put", "insert"},
                        progress[q] \notin {"put", "insert"}
                 PROVE  Cardinality(FilesOf[q]) <= MaxSources
      OBVIOUS
    <3>1. ASSUME NEW r \in Uploads, UploadStep(r) \/ \E f \in Files : PutStart(r, f)
          PROVE  r = q /\ Begin(q)
      BY <2>1, <3>1 DEF UploadStep, Begin, Stored, PutStart, PutOK, PutFails, PutEnds, InsertRefused,
             InsertOK, InsertFails, Inserting, GivesUp, Cleanup, MovesTo, UploadTypeOK
    <3>2. progress'[q] # progress[q] /\ ~ Crash
      BY <2>1 DEF Crash
    <3>3. \E r \in Uploads : UploadStep(r) \/ \E f \in Files : PutStart(r, f)
      BY <3>2 DEF UploadNext, uploadVars, upload, BeginRemoval, RemovalStep, RemovalOK,
             RemovalFails, RemoveObject
    <3> QED BY <2>1, <3>1, <3>3 DEF Begin, Allowed, MovesTo, UploadTypeOK
  <2> QED BY <2>2 DEF TablesInv, CreatesFit
<1> QED BY <1>2, <1>3 DEF TablesInv

LEMMA UploadSound == ASSUME UploadAssumption PROVE UploadSpec => []UploadInv
<1>1. UploadInit => UploadInv
  BY UploadInitInv
<1>2. UploadInv /\ [UploadNext]_uploadVars => UploadInv'
  BY UploadKeepsTypes, UploadKeepsObjects, UploadKeepsTables DEF UploadInv, ObjectsInv
<1> QED BY <1>1, <1>2, PTL DEF UploadSpec

\* The slots for putting are counted exactly and never oversubscribed.
THEOREM UploadTypes == ASSUME UploadAssumption PROVE UploadSpec => []UploadTypeOK
BY UploadSound, PTL DEF UploadInv

\* No document ever has more files than it may, however many uploads add to it at the same
\* time (repo.go:286-292).
THEOREM SizeAlwaysLimited == ASSUME UploadAssumption PROVE UploadSpec => []SizeLimit
BY UploadSound, PTL DEF UploadInv, TablesInv

\* Every stored row has its object, whatever fails and is removed at the same time, unless
\* the answer to its commit was lost (service.go:197-200).
THEOREM RowsAlwaysHaveObjects == ASSUME UploadAssumption PROVE UploadSpec => []RowsHaveObjects
BY UploadSound, PTL DEF UploadInv, ObjectsInv

\* An object that nobody will ever remove is the trace of a fault (service.go:188-200,
\* 257-263, 302-308).
THEOREM NeverOrphans == ASSUME UploadAssumption PROVE UploadSpec => []NoOrphans
BY UploadSound, PTL DEF UploadInv, ObjectsInv
=============================================================================
