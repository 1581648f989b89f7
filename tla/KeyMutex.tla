------------------------------ MODULE KeyMutex ------------------------------
(* What lockCache promises: one mutex per key, whoever has used it before.     *)

CONSTANTS Callers, Blobs

VARIABLE inside   \* the calls between the lock and the unlock of a key

MutexInit == inside = [k \in Blobs |-> {}]

Acquire(p, k) ==
    /\ inside[k] = {}
    /\ inside' = [inside EXCEPT ![k] = {p}]

Release(p, k) ==
    /\ inside[k] = {p}
    /\ inside' = [inside EXCEPT ![k] = {}]

MutexNext == \E p \in Callers, k \in Blobs : Acquire(p, k) \/ Release(p, k)

MutexSpec == MutexInit /\ [][MutexNext]_inside
=============================================================================
