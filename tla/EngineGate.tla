----------------------------- MODULE EngineGate -----------------------------
(***************************************************************************)
(* The client of the extraction engine (engine/client.go): calls of forms   *)
(* (TitleNow) and of title jobs (Title) have slots of their own, and a job  *)
(* steps aside while a form is being served, also with its slot in hand.    *)
(* The engine answers, fails, or refuses for a time; contexts end at any    *)
(* time.                                                                    *)
(*                                                                          *)
(* Left out: requests and answers, the lengths of waits, the health probe.  *)
(***************************************************************************)
EXTENDS Integers, FiniteSets

CONSTANTS
    Forms, Jobs,         \* calls of TitleNow and of Title
    FastCap, TitleCap,   \* capacities of fast and sem
    Attempts             \* 4 in title

ASSUME GateAssumption ==
    /\ Forms \intersect Jobs = {} /\ IsFiniteSet(Forms) /\ IsFiniteSet(Jobs)
    /\ FastCap \in Nat \ {0} /\ TitleCap \in Nat \ {0} /\ Attempts \in Nat \ {0}

VARIABLES
    place,      \* where a call is in title
    tries,      \* attempts made
    fastLive    \* Client.fastLive

gateVars == <<place, tries, fastLive>>

Calls == Forms \union Jobs
Holding == {"ready", "call", "sleep"}                       \* with a slot
Inside == {"read", "yield", "gate"} \union Holding

GateInit ==
    /\ place = [c \in Calls |-> "new"]
    /\ tries = [c \in Calls |-> 0]
    /\ fastLive = 0

GateTypeOK ==
    /\ place \in [Calls -> {"new", "done"} \union Inside]
    /\ tries \in [Calls -> 0..Attempts]
    /\ fastLive \in 0..Cardinality(Forms)
    /\ Cardinality({f \in Forms : place[f] \in Holding}) <= FastCap
    /\ Cardinality({j \in Jobs : place[j] \in Holding}) <= TitleCap

Goto(c, p) == place' = [place EXCEPT ![c] = p]

Leave_CountStays(c) == Goto(c, "done") /\ UNCHANGED fastLive
Leave(c) ==
    /\ Goto(c, "done")
    /\ fastLive' = IF c \in Forms THEN fastLive - 1 ELSE fastLive

Enter(c) ==
    /\ place[c] = "new"
    /\ Goto(c, "read")
    /\ fastLive' = IF c \in Forms THEN fastLive + 1 ELSE fastLive
    /\ UNCHANGED tries

\* The body is read into memory before the call waits for anything.
ReadBody(c) ==
    /\ place[c] = "read"
    /\ \/ Goto(c, IF c \in Jobs THEN "yield" ELSE "gate") /\ UNCHANGED fastLive
       \/ Leave(c)
    /\ UNCHANGED tries

\* yieldForInteractive, before the slot and before each attempt.
Yield(j) ==
    /\ fastLive = 0
    /\ \/ place[j] = "yield" /\ Goto(j, "gate")
       \/ place[j] = "ready" /\ Goto(j, "call")
    /\ UNCHANGED <<tries, fastLive>>

SlotFree(c) ==
    IF c \in Forms THEN Cardinality({f \in Forms : place[f] \in Holding}) < FastCap
                   ELSE Cardinality({j \in Jobs : place[j] \in Holding}) < TitleCap

Attempt(c) == IF c \in Jobs THEN "ready" ELSE "call"

TakeSlot(c) ==
    /\ place[c] = "gate" /\ SlotFree(c)
    /\ Goto(c, Attempt(c))
    /\ UNCHANGED <<tries, fastLive>>

\* An answer, also one that cannot be used; and for a form, too, that it has to wait.
Answered(c) == place[c] = "call" /\ Leave(c) /\ UNCHANGED tries

\* The engine cannot be reached, fails, or tells a job to wait.
Failed(c) ==
    /\ place[c] = "call"
    /\ tries' = [tries EXCEPT ![c] = @ + 1]
    /\ Goto(c, "sleep")
    /\ UNCHANGED fastLive

Wake(c) ==
    /\ place[c] = "sleep"
    /\ IF tries[c] < Attempts THEN Goto(c, Attempt(c)) /\ UNCHANGED fastLive ELSE Leave(c)
    /\ UNCHANGED tries

\* The context of the call ends where it is waiting.
Expire(c) == place[c] \in {"yield", "gate", "ready", "call", "sleep"} /\ Leave(c) /\ UNCHANGED tries

CallStep(c) ==
    ReadBody(c) \/ (c \in Jobs /\ Yield(c)) \/ Answered(c) \/ Failed(c) \/ Wake(c)

GateNext == \E c \in Calls : Enter(c) \/ CallStep(c) \/ TakeSlot(c) \/ Expire(c)

GateSpec == GateInit /\ [][GateNext]_gateVars

\* A call proceeds, and the one that waits longest has the next slot.  Nothing is assumed of
\* the contexts: nobody relies on being cut off.
Fair(S) == \A c \in S : WF_gateVars(CallStep(c)) /\ SF_gateVars(TakeSlot(c))

FormsFairSpec == GateSpec /\ Fair(Forms)
FairGateSpec == GateSpec /\ Fair(Calls)

-----------------------------------------------------------------------------
(* Properties *)

\* The count of forms being served is exact on every way out of a call: a count left behind
\* would hold every title job up forever (client.go:130-152).
CountIsExact == fastLive = Cardinality({f \in Forms : place[f] \in Inside})

\* "it never waits on background title workers" (client.go:122): forms are served even if
\* every job stops in the middle of a call, with its slot.
FormsEnd == \A f \in Forms : place[f] = "read" ~> place[f] = "done"

\* Jobs are served when the forms have been: stepping aside with a slot in hand makes nobody
\* wait for each other.
JobsEnd == \A j \in Jobs : place[j] = "read" ~> place[j] = "done"
=============================================================================
