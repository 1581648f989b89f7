---------------------------- MODULE MCRealtimeHub ----------------------------
(* Two publishers in one process, a stream there and one in a second process.    *)
EXTENDS RealtimeHub, TLC

CONSTANTS p1, p2, u1, u2, s1, s2, ann, bob

MCHome == [x \in Publishers \union Streams |-> IF x = s2 THEN p2 ELSE p1]
MCOwner == (u1 :> ann) @@ (u2 :> bob)
SeesAll == [s \in Streams |-> {ann, bob}]
MCSees == [s \in Streams |-> IF s = s1 THEN {ann} ELSE {ann, bob}]
=============================================================================
