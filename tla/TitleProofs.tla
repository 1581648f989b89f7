---------------------------- MODULE TitleProofs ----------------------------
(* Titles of files.  First the client of the engine: the count of forms being *)
(* served is exact and the slots of the engine are never oversubscribed, for   *)
(* any number of calls and any capacities.  A step moves one call; OneMoves    *)
(* says what that does to the number of calls in some places, and both facts   *)
(* are such numbers.  Then the queue of files that wait for a title, for any   *)
(* number of files, workers and processes.  Last the score of two titles, for  *)
(* any titles: how far the greedy alignment can be from the best.               *)
EXTENDS EngineGate, TitleQueue, TitleScore, FiniteSetTheorems, SequenceTheorems, TLAPS

-----------------------------------------------------------------------------
(* The client of the engine *)

Served == {f \in Forms : place[f] \in Inside}
Slots(S) == {c \in S : place[c] \in Holding}
TriesLeft == \A c \in Calls : place[c] \notin {"sleep", "done"} => tries[c] < Attempts

GateInv == GateTypeOK /\ CountIsExact /\ TriesLeft

\* A call that moves joins those in some places, leaves them, or does neither.
LEMMA OneMoves ==
    ASSUME NEW S, IsFiniteSet(S), S \subseteq Calls, NEW P, NEW c \in Calls, NEW p,
           place \in [Calls -> {"new", "done"} \union Inside], Goto(c, p)
    PROVE  LET n == Cardinality({x \in S : place[x] \in P})
               m == Cardinality({x \in S : place'[x] \in P})
           IN  /\ n \in Nat /\ n <= Cardinality(S) /\ m \in Nat
               /\ m = IF c \notin S \/ (p \in P <=> place[c] \in P) THEN n
                      ELSE IF p \in P THEN n + 1 ELSE n - 1
<1> DEFINE A == {x \in S : place[x] \in P}
           B == {x \in S : place'[x] \in P}
<1>1. A \in SUBSET S /\ B \in SUBSET S
  OBVIOUS
<1>2. \A x \in S : place'[x] = IF x = c THEN p ELSE place[x]
  BY DEF Goto
<1>3. CASE c \notin S \/ (p \in P <=> place[c] \in P)
  <2>1. B = A
    BY <1>2, <1>3
  <2> HIDE DEF A, B
  <2>2. Cardinality(A) \in Nat /\ Cardinality(A) <= Cardinality(S)
    BY <1>1, FS_Subset, FS_CardinalityType
  <2>3. Cardinality(B) = Cardinality(A)
    BY <2>1
  <2> QED BY <1>3, <2>2, <2>3 DEF A, B
<1>4. CASE c \in S /\ p \in P /\ place[c] \notin P
  <2>1. B = A \union {c} /\ c \notin A
    BY <1>2, <1>4
  <2> HIDE DEF A, B
  <2>2. IsFiniteSet(A) /\ Cardinality(A) \in Nat /\ Cardinality(A) <= Cardinality(S)
    BY <1>1, FS_Subset, FS_CardinalityType
  <2>3. Cardinality(B) = Cardinality(A) + 1
    BY <2>1, <2>2, FS_AddElement
  <2> QED BY <1>4, <2>2, <2>3 DEF A, B
<1>5. CASE c \in S /\ p \notin P /\ place[c] \in P
  <2>1. B = A \ {c} /\ c \in A
    BY <1>2, <1>5
  <2> HIDE DEF A, B
  <2>2. IsFiniteSet(A) /\ Cardinality(A) \in Nat /\ Cardinality(A) <= Cardinality(S)
    BY <1>1, FS_Subset, FS_CardinalityType
  <2>3. IsFiniteSet(B) /\ Cardinality(B) = Cardinality(A) - 1 /\ Cardinality(B) \in Nat
    BY <1>1, <2>1, <2>2, FS_RemoveElement, FS_Subset, FS_CardinalityType
  <2> QED BY <1>5, <2>2, <2>3 DEF A, B
<1> QED BY <1>3, <1>4, <1>5

\* The same of the calls with a slot.
LEMMA HolderMoves ==
    ASSUME NEW S, IsFiniteSet(S), S \subseteq Calls, NEW c \in Calls, NEW p,
           place \in [Calls -> {"new", "done"} \union Inside], Goto(c, p)
    PROVE  /\ Cardinality({x \in S : place[x] \in Holding}) \in Nat
           /\ Cardinality({x \in S : place'[x] \in Holding}) \in Nat
           /\ Cardinality({x \in S : place'[x] \in Holding}) =
                IF c \notin S \/ (p \in Holding <=> place[c] \in Holding)
                THEN Cardinality({x \in S : place[x] \in Holding})
                ELSE IF p \in Holding THEN Cardinality({x \in S : place[x] \in Holding}) + 1
                ELSE Cardinality({x \in S : place[x] \in Holding}) - 1
BY OneMoves

LEMMA GateInitInv == GateInit => GateInv
<1> SUFFICES ASSUME GateInit PROVE GateInv
  OBVIOUS
<1> USE GateAssumption DEF GateInit
<1>1. Served = {} /\ Slots(Forms) = {} /\ Slots(Jobs) = {}
  BY DEF Served, Slots, Holding, Inside, Calls
<1>2. Cardinality(Forms) \in Nat
  BY FS_CardinalityType
<1>3. CountIsExact
  BY <1>1, FS_EmptySet DEF CountIsExact, Served
<1>4. GateTypeOK
  BY <1>1, <1>2, FS_EmptySet DEF GateTypeOK, Slots, Calls
<1> QED BY <1>3, <1>4 DEF GateInv, TriesLeft

\* Every step moves one call, from a place to another.
LEMMA GateSteps ==
    ASSUME GateInv, GateNext
    PROVE  \E c \in Calls, p \in {"done"} \union Inside :
               /\ Goto(c, p) /\ place[c] # "done"
               /\ p \in Holding /\ place[c] \notin Holding => SlotFree(c)
               /\ p \notin Inside \/ place[c] = "new" \/ place[c] \in Inside
               /\ fastLive' = IF c \notin Forms THEN fastLive
                              ELSE IF place[c] = "new" THEN fastLive + 1
                              ELSE IF p = "done" THEN fastLive - 1 ELSE fastLive
               /\ place[c] = "new" => p # "done"
               /\ \/ UNCHANGED tries /\ (p \in {"sleep", "done"} \/ tries[c] < Attempts)
                  \/ /\ tries[c] < Attempts /\ p = "sleep"
                     /\ tries' = [tries EXCEPT ![c] = @ + 1]
<1> USE DEF Inside, Holding, Leave, Attempt
<1>1. PICK c \in Calls : Enter(c) \/ CallStep(c) \/ TakeSlot(c) \/ Expire(c)
  BY DEF GateNext
<1>2. place[c] \notin {"sleep", "done"} => tries[c] < Attempts
  BY DEF GateInv, TriesLeft
<1>3. CASE Enter(c)
  BY <1>2, <1>3 DEF Enter
<1>4. CASE ReadBody(c)
  BY <1>2, <1>4 DEF ReadBody
<1>5. CASE c \in Jobs /\ Yield(c)
  BY <1>2, <1>5, GateAssumption DEF Yield
<1>6. CASE Answered(c)
  BY <1>2, <1>6 DEF Answered
<1>7. CASE Failed(c)
  BY <1>2, <1>7 DEF Failed
<1>8. CASE Wake(c)
  BY <1>2, <1>8 DEF Wake
<1>9. CASE TakeSlot(c)
  BY <1>2, <1>9 DEF TakeSlot
<1>10. CASE Expire(c)
  BY <1>2, <1>10 DEF Expire
<1> QED BY <1>1, <1>3, <1>4, <1>5, <1>6, <1>7, <1>8, <1>9, <1>10 DEF CallStep

LEMMA GateNextInv == GateInv /\ [GateNext]_gateVars => GateInv'
<1> SUFFICES ASSUME GateInv, [GateNext]_gateVars PROVE GateInv'
  OBVIOUS
<1>1. CASE UNCHANGED gateVars
  BY <1>1 DEF gateVars, GateInv, GateTypeOK, CountIsExact, TriesLeft
<1>2. CASE GateNext
  <2>1. PICK c \in Calls, p \in {"done"} \union Inside :
            /\ Goto(c, p) /\ place[c] # "done"
            /\ p \in Holding /\ place[c] \notin Holding => SlotFree(c)
            /\ p \notin Inside \/ place[c] = "new" \/ place[c] \in Inside
            /\ fastLive' = IF c \notin Forms THEN fastLive
                           ELSE IF place[c] = "new" THEN fastLive + 1
                           ELSE IF p = "done" THEN fastLive - 1 ELSE fastLive
            /\ place[c] = "new" => p # "done"
            /\ \/ UNCHANGED tries /\ (p \in {"sleep", "done"} \/ tries[c] < Attempts)
               \/ /\ tries[c] < Attempts /\ p = "sleep"
                  /\ tries' = [tries EXCEPT ![c] = @ + 1]
    BY <1>2, GateSteps
  <2>2. /\ place \in [Calls -> {"new", "done"} \union Inside]
        /\ tries \in [Calls -> 0..Attempts] /\ Attempts \in Nat
        /\ IsFiniteSet(Forms) /\ IsFiniteSet(Jobs) /\ Forms \intersect Jobs = {}
        /\ Forms \subseteq Calls /\ Jobs \subseteq Calls
    BY GateAssumption DEF GateInv, GateTypeOK, Calls
  <2>3. place' \in [Calls -> {"new", "done"} \union Inside]
    BY <2>1, <2>2 DEF Goto
  <2>4. tries' \in [Calls -> 0..Attempts]
    BY <2>1, <2>2
  <2>5. TriesLeft'
    BY <2>1, <2>2 DEF GateInv, TriesLeft, Goto
  <2>6. /\ Cardinality({f \in Forms : place[f] \in Inside}) \in Nat
        /\ Cardinality({f \in Forms : place'[f] \in Inside}) \in Nat
        /\ Cardinality({f \in Forms : place'[f] \in Inside}) =
             IF c \notin Forms \/ (p \in Inside <=> place[c] \in Inside)
             THEN Cardinality({f \in Forms : place[f] \in Inside})
             ELSE IF p \in Inside THEN Cardinality({f \in Forms : place[f] \in Inside}) + 1
             ELSE Cardinality({f \in Forms : place[f] \in Inside}) - 1
    BY <2>1, <2>2, OneMoves
  <2>7. (p \in Inside <=> p # "done") /\ (place[c] \in Inside <=> place[c] # "new")
    BY <2>1, <2>2 DEF Inside, Holding
  <2>8. CountIsExact'
    BY <2>1, <2>6, <2>7 DEF CountIsExact, GateInv
  <2>9. fastLive' \in 0..Cardinality(Forms)
    <3>1. {f \in Forms : place'[f] \in Inside} \in SUBSET Forms
      OBVIOUS
    <3>2. Cardinality({f \in Forms : place'[f] \in Inside}) <= Cardinality(Forms)
          /\ Cardinality(Forms) \in Nat
      BY <2>2, <3>1, FS_Subset, FS_CardinalityType
    <3> QED BY <2>6, <2>8, <3>2 DEF CountIsExact
  <2>10. Cardinality({f \in Forms : place'[f] \in Holding}) <= FastCap
    <3>1. /\ Cardinality({f \in Forms : place[f] \in Holding}) \in Nat
          /\ Cardinality({f \in Forms : place'[f] \in Holding}) \in Nat
          /\ Cardinality({f \in Forms : place'[f] \in Holding}) =
               IF c \notin Forms \/ (p \in Holding <=> place[c] \in Holding)
               THEN Cardinality({f \in Forms : place[f] \in Holding})
               ELSE IF p \in Holding THEN Cardinality({f \in Forms : place[f] \in Holding}) + 1
               ELSE Cardinality({f \in Forms : place[f] \in Holding}) - 1
      BY <2>1, <2>2, HolderMoves
    <3>2. p \in Holding /\ place[c] \notin Holding /\ c \in Forms =>
            Cardinality({f \in Forms : place[f] \in Holding}) < FastCap
      BY <2>1, <2>2 DEF SlotFree
    <3>3. Cardinality({f \in Forms : place[f] \in Holding}) <= FastCap /\ FastCap \in Nat
      BY GateAssumption DEF GateInv, GateTypeOK
    <3> QED BY <3>1, <3>2, <3>3
  <2>11. Cardinality({j \in Jobs : place'[j] \in Holding}) <= TitleCap
    <3>1. /\ Cardinality({j \in Jobs : place[j] \in Holding}) \in Nat
          /\ Cardinality({j \in Jobs : place'[j] \in Holding}) \in Nat
          /\ Cardinality({j \in Jobs : place'[j] \in Holding}) =
               IF c \notin Jobs \/ (p \in Holding <=> place[c] \in Holding)
               THEN Cardinality({j \in Jobs : place[j] \in Holding})
               ELSE IF p \in Holding THEN Cardinality({j \in Jobs : place[j] \in Holding}) + 1
               ELSE Cardinality({j \in Jobs : place[j] \in Holding}) - 1
      BY <2>1, <2>2, HolderMoves
    <3>2. p \in Holding /\ place[c] \notin Holding /\ c \in Jobs =>
            Cardinality({j \in Jobs : place[j] \in Holding}) < TitleCap
      BY <2>1, <2>2 DEF SlotFree
    <3>3. Cardinality({j \in Jobs : place[j] \in Holding}) <= TitleCap /\ TitleCap \in Nat
      BY GateAssumption DEF GateInv, GateTypeOK
    <3> QED BY <3>1, <3>2, <3>3
  <2> QED BY <2>3, <2>4, <2>5, <2>8, <2>9, <2>10, <2>11 DEF GateInv, GateTypeOK
<1> QED BY <1>1, <1>2

\* The slots of the engine are never oversubscribed, and no call makes more attempts than
\* title allows.
THEOREM GateTypes == GateSpec => []GateTypeOK
BY GateInitInv, GateNextInv, PTL DEF GateSpec, GateInv

\* The count of forms being served is exact, however calls end (client.go:130-152).
THEOREM CountAlwaysExact == GateSpec => []CountIsExact
BY GateInitInv, GateNextInv, PTL DEF GateSpec, GateInv

-----------------------------------------------------------------------------
(* The title queue *)

\* A source in a job or in a hand has a row, a job has no heading, and an upload has stored
\* its rows itself.
JobsHaveRows ==
    /\ job \in [Workers -> Sources \union {NoSource}]
    /\ \A w \in Workers : jobAt[w] # "idle" => title[job[w]] # "none" /\ job[w] \notin Dotted
    /\ \A p \in Instances : \A s \in listed[p] \union uploaded[p] : title[s] # "none"

HeadingsOnce ==
    /\ \A s \in Sources : title[s] = "dotted" => s \in Dotted
    /\ \A s \in Dotted : title[s] # "none"
    /\ \A p, q \in Instances : uploaded[p] \intersect uploaded[q] # {} => p = q
    /\ \A p \in Instances : uploaded[p] \intersect Dotted = {}

\* What has been put off is not listed.
PutOff ==
    \A s \in awaiting : title[s] # "none" /\ s \notin Dotted /\ (Placeholder(s) => due[s] = "later")

\* The jobs that a source has been given early, and those it may still be given.
ListedBy(s) == {p \in Instances : s \in listed[p]}
UploadedBy(s) == {p \in Instances : s \in uploaded[p]}
FewEarly ==
    \A s \in awaiting :
        early[s] + Cardinality(ListedBy(s)) + Cardinality(UploadedBy(s))
            <= 2 * Cardinality(Instances)

QueueInv ==
    QueueTypeOK /\ JobsHaveRows /\ HeadingsOnce /\ SettledLeaves /\ PutOff /\ FewEarly

LEMMA InstanceSets ==
    ASSUME QueueAssumption, NEW T \in SUBSET Instances
    PROVE  IsFiniteSet(T) /\ Cardinality(T) \in Nat /\ Cardinality(T) <= Cardinality(Instances)
BY FS_Subset, FS_CardinalityType DEF QueueAssumption

LEMMA QueueInitInv == ASSUME QueueAssumption, QueueInit PROVE QueueInv
<1> USE DEF QueueAssumption, QueueInit
<1>1. QueueTypeOK
  BY DEF QueueTypeOK
<1>2. JobsHaveRows /\ HeadingsOnce /\ SettledLeaves
  BY DEF JobsHaveRows, HeadingsOnce, SettledLeaves
<1>3. PutOff /\ FewEarly
  BY DEF PutOff, FewEarly
<1> QED BY <1>1, <1>2, <1>3 DEF QueueInv

\* A step that neither puts a source off nor gives one to a hand.
LEMMA NoneEarlier ==
    ASSUME QueueAssumption, QueueInv,
           \A s \in awaiting' : /\ s \in awaiting /\ early'[s] = early[s]
                                /\ ListedBy(s)' \subseteq ListedBy(s)
                                /\ UploadedBy(s)' \subseteq UploadedBy(s)
    PROVE  FewEarly'
<1> SUFFICES ASSUME NEW s \in awaiting'
             PROVE  early'[s] + Cardinality(ListedBy(s)') + Cardinality(UploadedBy(s)')
                        <= 2 * Cardinality(Instances)
  BY DEF FewEarly
<1>1. /\ early[s] + Cardinality(ListedBy(s)) + Cardinality(UploadedBy(s))
             <= 2 * Cardinality(Instances)
      /\ early[s] \in Nat
  BY DEF QueueInv, FewEarly, QueueTypeOK
<1>2. /\ IsFiniteSet(ListedBy(s)) /\ Cardinality(ListedBy(s)) \in Nat
      /\ IsFiniteSet(UploadedBy(s)) /\ Cardinality(UploadedBy(s)) \in Nat
      /\ Cardinality(Instances) \in Nat
  BY InstanceSets DEF ListedBy, UploadedBy
<1>3. /\ Cardinality(ListedBy(s)') \in Nat /\ Cardinality(ListedBy(s)') <= Cardinality(ListedBy(s))
      /\ Cardinality(UploadedBy(s)') \in Nat
      /\ Cardinality(UploadedBy(s)') <= Cardinality(UploadedBy(s))
  BY <1>2, FS_Subset, FS_CardinalityType
<1> QED BY <1>1, <1>2, <1>3

\* The steps that concern no job and no list.
LEMMA RowsKeepQueueInv ==
    ASSUME QueueAssumption, QueueInv,
           HealSettledTitles \/ \E s \in Sources : DelayPasses(s) \/ \E p \in Instances : Insert(p, s)
    PROVE  QueueInv'
<1> USE DEF QueueInv
<1>1. CASE HealSettledTitles
  <2> USE <1>1 DEF HealSettledTitles, QueueTypeOK, hands, history
  <2>1. QueueTypeOK' /\ JobsHaveRows' /\ HeadingsOnce'
    BY DEF JobsHaveRows, HeadingsOnce
  <2>2. SettledLeaves'
    BY DEF SettledLeaves
  <2>3. PutOff'
    BY DEF PutOff, HeadingsOnce, Placeholder, Settled
  <2>4. FewEarly'
    BY DEF FewEarly, ListedBy, UploadedBy
  <2> QED BY <2>1, <2>2, <2>3, <2>4
<1>2. ASSUME NEW s \in Sources, NEW p \in Instances, Insert(p, s) PROVE QueueInv'
  <2> USE <1>2 DEF Insert, QueueTypeOK, history
  <2>1. QueueTypeOK'
    OBVIOUS
  <2>2. JobsHaveRows' /\ SettledLeaves'
    BY DEF JobsHaveRows, SettledLeaves
  <2>3. HeadingsOnce'
    BY DEF JobsHaveRows, HeadingsOnce
  <2>4. PutOff'
    BY DEF PutOff, Placeholder
  <2>5. \A x \in awaiting : x # s
    BY DEF PutOff
  <2>6. FewEarly'
    BY <2>5, NoneEarlier DEF ListedBy, UploadedBy
  <2> QED BY <2>1, <2>2, <2>3, <2>4, <2>6
<1>3. ASSUME NEW s \in Sources, DelayPasses(s) PROVE QueueInv'
  <2> USE <1>3 DEF DelayPasses, QueueTypeOK, hands
  <2>1. QueueTypeOK' /\ JobsHaveRows' /\ HeadingsOnce'
    BY DEF JobsHaveRows, HeadingsOnce
  <2>2. SettledLeaves' /\ PutOff'
    BY DEF SettledLeaves, PutOff, Placeholder
  <2>3. FewEarly'
    BY NoneEarlier DEF ListedBy, UploadedBy
  <2> QED BY <2>1, <2>2, <2>3
<1> QED BY <1>1, <1>2, <1>3

\* A sweep lists what is due, which has not been put off; what it or an upload has in hand
\* is submitted or dropped.
LEMMA HandsKeepQueueInv ==
    ASSUME QueueAssumption, QueueInv, NEW p \in Instances,
           List(p) \/ \E s \in Sources : Skip(p, s) \/ SettleListed(p, s) \/ Forget(p, s)
    PROVE  QueueInv'
<1> USE DEF QueueInv
<1>1. CASE List(p)
  <2>1. PICK rows \in SUBSET {s \in Sources : Listed(s)} :
            listed' = [listed EXCEPT ![p] = rows]
    BY <1>1 DEF List
  <2>2. UNCHANGED <<title, needs, due, jobAt, job, uploaded, awaiting, early, lapses>>
    BY <1>1 DEF List, titleRows, history
  <2>3. QueueTypeOK' /\ HeadingsOnce' /\ SettledLeaves'
    BY <2>1, <2>2 DEF QueueTypeOK, HeadingsOnce, SettledLeaves
  <2>4. \A s \in rows : title[s] # "none" /\ s \notin awaiting
    BY <2>1 DEF Listed, Placeholder, PutOff
  <2>5. JobsHaveRows' /\ PutOff'
    BY <2>1, <2>2, <2>4 DEF JobsHaveRows, PutOff, Placeholder, QueueTypeOK
  <2>6. FewEarly'
    BY <2>1, <2>2, <2>4, NoneEarlier DEF ListedBy, UploadedBy, QueueTypeOK
  <2> QED BY <2>3, <2>5, <2>6
<1>2. ASSUME NEW s \in Sources, Skip(p, s) \/ SettleListed(p, s) \/ Forget(p, s)
      PROVE  QueueInv'
  <2>1. /\ UNCHANGED <<jobAt, job, awaiting, early>> /\ lapses' \in 0..MaxLapses
        /\ listed' \in {listed, [listed EXCEPT ![p] = @ \ {s}]}
        /\ uploaded' \in {uploaded, [uploaded EXCEPT ![p] = @ \ {s}]}
    BY <1>2 DEF Skip, SettleListed, Forget, TakeFrom, Drop, history, QueueTypeOK, QueueAssumption
  <2>2. \/ UNCHANGED titleRows
        \/ title[s] # "none" /\ s \in Dotted /\ SetSourceTitle(s, "dotted")
    BY <1>2 DEF Skip, SettleListed, Forget, JobsHaveRows
  <2>3. /\ title' \in [Sources -> {"none", "placeholder", "dotted", "printed", "unreadable"}]
        /\ due' \in [Sources -> {"null", "later", "now"}] /\ needs' \subseteq needs
        /\ \A x \in Sources : title'[x] # "none" <=> title[x] # "none"
        /\ \A x \in Sources : x # s \/ s \notin Dotted =>
               title'[x] = title[x] /\ due'[x] = due[x]
        /\ title'[s] = "dotted" => title[s] = "dotted"
        /\ SettledLeaves'
    BY <2>2 DEF titleRows, SetSourceTitle, QueueTypeOK, SettledLeaves
  <2>4. QueueTypeOK'
    BY <2>1, <2>3 DEF QueueTypeOK
  <2>5. JobsHaveRows' /\ HeadingsOnce'
    <3>1. \A q \in Instances : listed'[q] \subseteq listed[q] /\ uploaded'[q] \subseteq uploaded[q]
      BY <2>1 DEF QueueTypeOK
    <3>2. JobsHaveRows'
      BY <2>1, <2>3, <3>1 DEF JobsHaveRows, QueueTypeOK
    <3>3. \A x \in Sources : title'[x] = "dotted" => title[x] = "dotted"
      BY <2>3
    <3>4. \A x \in Dotted : title'[x] # "none"
      BY <2>3 DEF HeadingsOnce, QueueAssumption
    <3> QED BY <3>1, <3>2, <3>3, <3>4 DEF HeadingsOnce
  <2>6. PutOff'
    BY <2>1, <2>3 DEF PutOff, Placeholder, QueueTypeOK
  <2>7. FewEarly'
    BY <2>1, NoneEarlier DEF ListedBy, UploadedBy, QueueTypeOK
  <2> QED BY <2>3, <2>4, <2>5, <2>6, <2>7
<1> QED BY <1>1, <1>2

\* A job that starts takes its source from a hand: what is counted moves from there to the
\* jobs that are early.
LEMMA EnqueueKeepsQueueInv ==
    ASSUME QueueAssumption, QueueInv, NEW w \in Workers, NEW s \in Sources, Enqueue(w, s)
    PROVE  QueueInv'
<1> USE DEF QueueInv
<1> DEFINE p == ProcOf[w]
<1>1. /\ p \in Instances
      /\ UNCHANGED <<title, needs, due, awaiting, lapses>>
      /\ jobAt' = [jobAt EXCEPT ![w] = "queued"] /\ job' = [job EXCEPT ![w] = s]
      /\ early' = IF s \in awaiting THEN [early EXCEPT ![s] = @ + 1] ELSE early
      /\ \A v \in Workers : ProcOf[v] = p => job[v] # s
  BY DEF Enqueue, Instances, titleRows, MovesJob, Titling
<1>2. /\ s \in listed[p] \union uploaded[p] /\ s \notin Dotted
      /\ \/ s \in listed[p] /\ listed' = [listed EXCEPT ![p] = @ \ {s}] /\ uploaded' = uploaded
         \/ s \in uploaded[p] /\ uploaded' = [uploaded EXCEPT ![p] = @ \ {s}] /\ listed' = listed
  BY <1>1 DEF Enqueue, TakeFrom, Drop, HeadingsOnce
<1> HIDE DEF p
<1>3. QueueTypeOK'
  <2>1. \A v \in Workers : (job'[v] = NoSource <=> jobAt'[v] = "idle")
                           /\ job'[v] \in Sources \union {NoSource}
    BY <1>1 DEF QueueTypeOK, JobsHaveRows, QueueAssumption
  <2>2. \A u, v \in Workers :
            ProcOf[u] = ProcOf[v] /\ job'[u] = job'[v] /\ job'[u] # NoSource => u = v
    BY <1>1 DEF QueueTypeOK, JobsHaveRows, p
  <2> QED BY <1>1, <1>2, <2>1, <2>2 DEF QueueTypeOK
<1>4. JobsHaveRows' /\ HeadingsOnce'
  BY <1>1, <1>2 DEF JobsHaveRows, HeadingsOnce, QueueTypeOK
<1>5. SettledLeaves' /\ PutOff'
  BY <1>1 DEF SettledLeaves, PutOff, Placeholder
<1>6. FewEarly'
  <2>1. CASE s \notin awaiting
    BY <1>1, <1>2, <2>1, NoneEarlier DEF ListedBy, UploadedBy, QueueTypeOK
  <2>2. CASE s \in awaiting
    <3> SUFFICES ASSUME NEW x \in awaiting
                 PROVE  early'[x] + Cardinality(ListedBy(x)') + Cardinality(UploadedBy(x)')
                            <= 2 * Cardinality(Instances)
      BY <1>1 DEF FewEarly
    <3>1. early[x] + Cardinality(ListedBy(x)) + Cardinality(UploadedBy(x))
              <= 2 * Cardinality(Instances)
      BY DEF FewEarly
    <3>2. /\ IsFiniteSet(ListedBy(x)) /\ Cardinality(ListedBy(x)) \in Nat
          /\ IsFiniteSet(UploadedBy(x)) /\ Cardinality(UploadedBy(x)) \in Nat
          /\ Cardinality(Instances) \in Nat /\ early[x] \in Nat
      BY InstanceSets DEF ListedBy, UploadedBy, QueueTypeOK
    <3>3. CASE x # s
      <4>1. ListedBy(x)' = ListedBy(x) /\ UploadedBy(x)' = UploadedBy(x) /\ early'[x] = early[x]
        BY <1>1, <1>2, <2>2, <3>3 DEF ListedBy, UploadedBy, QueueTypeOK
      <4> QED BY <3>1, <4>1
    <3>4. CASE x = s
      <4>1. early'[x] = early[x] + 1
        BY <1>1, <2>2, <3>4 DEF QueueTypeOK
      <4>2. \/ /\ ListedBy(x)' = ListedBy(x) \ {p} /\ p \in ListedBy(x)
               /\ UploadedBy(x)' = UploadedBy(x)
            \/ /\ UploadedBy(x)' = UploadedBy(x) \ {p} /\ p \in UploadedBy(x)
               /\ ListedBy(x)' = ListedBy(x)
        BY <1>1, <1>2, <3>4 DEF ListedBy, UploadedBy, QueueTypeOK
      <4>3. \/ /\ Cardinality(ListedBy(x)') = Cardinality(ListedBy(x)) - 1
               /\ Cardinality(UploadedBy(x)') = Cardinality(UploadedBy(x))
            \/ /\ Cardinality(UploadedBy(x)') = Cardinality(UploadedBy(x)) - 1
               /\ Cardinality(ListedBy(x)') = Cardinality(ListedBy(x))
        BY <3>2, <4>2, FS_RemoveElement
      <4> HIDE DEF ListedBy, UploadedBy
      <4> QED BY <3>1, <3>2, <4>1, <4>3
    <3> QED BY <3>3, <3>4
  <2> QED BY <2>1, <2>2
<1> QED BY <1>3, <1>4, <1>5, <1>6

\* A job that goes on leaves the rows and its source alone.
LEMMA JobsKeepQueueInv ==
    ASSUME QueueAssumption, QueueInv, NEW w \in Workers,
           ((Run(w) \/ Ask(w)) /\ ~ Done(w)) \/ Retry(w) \/ Unread(w)
    PROVE  QueueInv'
<1> USE DEF QueueInv
<1>1. /\ UNCHANGED <<title, needs, due, job, listed, uploaded, awaiting, early>>
      /\ lapses' \in 0..MaxLapses /\ jobAt[w] # "idle"
      /\ \E p \in {"queued", "slot", "engine"} : jobAt' = [jobAt EXCEPT ![w] = p]
  BY DEF Run, Ask, Retry, Unread, MovesJob, titleRows, hands, history, QueueTypeOK, QueueAssumption
<1>2. QueueTypeOK'
  BY <1>1 DEF QueueTypeOK
<1>3. JobsHaveRows' /\ HeadingsOnce' /\ SettledLeaves' /\ PutOff'
  BY <1>1 DEF JobsHaveRows, HeadingsOnce, SettledLeaves, PutOff, Placeholder, QueueTypeOK
<1>4. FewEarly'
  BY <1>1 DEF FewEarly, ListedBy, UploadedBy
<1> QED BY <1>2, <1>3, <1>4

\* What the last step of a job on source s does to the rows.
LastStep(s) ==
    /\ title' \in [Sources -> {"none", "placeholder", "dotted", "printed", "unreadable"}]
    /\ due' \in [Sources -> {"null", "later", "now"}]
    /\ needs' \subseteq needs \union {s}
    /\ \A x \in Sources \ {s} :
           title'[x] = title[x] /\ due'[x] = due[x] /\ (x \in needs' <=> x \in needs)
    /\ title'[s] # "none" /\ (title'[s] = "dotted" => title[s] = "dotted")
    /\ title'[s] \in {"printed", "unreadable"} => s \notin needs' /\ due'[s] = "null"
    /\ s \in awaiting /\ Placeholder(s)' => due'[s] = "later"
    /\ lapses' \in 0..MaxLapses

LEMMA LastSteps ==
    ASSUME QueueAssumption, QueueInv, NEW w \in Workers, Done(w), JobStep(w) \/ TimesOut(w)
    PROVE  /\ job[w] \in Sources /\ jobAt[w] # "idle" /\ title[job[w]] # "none"
           /\ job[w] \notin Dotted /\ UNCHANGED hands /\ LastStep(job[w])
           /\ UNCHANGED history \/ Untitled(w)
<1> USE DEF QueueInv
<1>1. jobAt[w] # "idle" /\ UNCHANGED hands /\ (UNCHANGED history \/ Untitled(w))
  BY DEF JobStep, Run, Ask, FileGone, Titled, Untitled, TimesOut, Done, MovesJob, QueueTypeOK
<1>2. PICK s \in Sources : s = job[w] /\ title[s] # "none" /\ s \notin Dotted
  BY <1>1 DEF JobsHaveRows, QueueTypeOK
<1> USE <1>2 DEF QueueTypeOK, LastStep
<1>3. ASSUME UNCHANGED lapses, NEW t, Settled(t), SetSourceTitle(s, t) PROVE LastStep(s)
  <2>1. t \in {"dotted", "printed", "unreadable"}
    BY <1>3 DEF Settled
  <2>2. /\ title' = [title EXCEPT ![s] = IF t = "dotted" THEN "printed" ELSE t]
        /\ needs' = needs \ {s} /\ due' = [due EXCEPT ![s] = "null"]
    BY <1>3 DEF SetSourceTitle
  <2>3. title'[s] \in {"printed", "unreadable"} /\ ~ Placeholder(s)'
    BY <2>1, <2>2 DEF Placeholder
  <2> QED BY <1>3, <2>2, <2>3
<1>4. ASSUME UNCHANGED lapses, ~ Settled(title[s]), ClearNeedsTitle(s) PROVE LastStep(s)
  <2>1. needs' = needs \ {s} /\ UNCHANGED <<title, due>> /\ title[s] = "placeholder"
    BY <1>4 DEF ClearNeedsTitle, Settled
  <2> QED BY <1>4, <2>1 DEF PutOff, Placeholder
<1>5. ASSUME UNCHANGED lapses, DeferTitleRetry(s) PROVE LastStep(s)
  <2>1. CASE Placeholder(s)
    <3>1. /\ needs' = needs \union {s} /\ due' = [due EXCEPT ![s] = "later"]
          /\ UNCHANGED title
      BY <1>5, <2>1 DEF DeferTitleRetry
    <3> QED BY <1>5, <2>1, <3>1 DEF Placeholder
  <2>2. CASE ~ Placeholder(s)
    <3>1. UNCHANGED <<title, needs, due>>
      BY <1>5, <2>2 DEF DeferTitleRetry
    <3> QED BY <1>5, <2>2, <3>1 DEF Placeholder, SettledLeaves
  <2> QED BY <2>1, <2>2
<1>6. CASE TimesOut(w)
  <2>1. UNCHANGED <<title, needs, due>> /\ lapses' \in 0..MaxLapses
    BY <1>6 DEF TimesOut, titleRows, QueueAssumption
  <2>2. LastStep(s)
    BY <2>1 DEF SettledLeaves, PutOff, Placeholder
  <2> HIDE DEF LastStep
  <2> QED BY <1>1, <2>2
<1>7. CASE Run(w) \/ Ask(w)
  <2>1. Settled(title[s]) /\ SetSourceTitle(s, title[s]) /\ UNCHANGED lapses
    BY <1>1, <1>7 DEF Run, Ask, Done, MovesJob
  <2> HIDE DEF LastStep
  <2> QED BY <1>1, <1>3, <2>1
<1>8. CASE FileGone(w) \/ Untitled(w)
  <2>1. UNCHANGED lapses /\ (DeferTitleRetry(s) \/ (~ Settled(title[s]) /\ ClearNeedsTitle(s)))
    BY <1>8 DEF FileGone, Untitled
  <2> HIDE DEF LastStep
  <2> QED BY <1>1, <1>4, <1>5, <2>1
<1>9. CASE \E t \in {"printed", "unreadable"} : Titled(w, t)
  <2>1. UNCHANGED lapses /\ \E t : Settled(t) /\ SetSourceTitle(s, t)
    BY <1>9 DEF Titled
  <2> HIDE DEF LastStep
  <2> QED BY <1>1, <1>3, <2>1
<1> QED BY <1>6, <1>7, <1>8, <1>9 DEF JobStep

\* What has been put off is counted in full: each process but one may have a job for it, each
\* sweep may have it in hand, and one upload.
LEMMA CountAtDeferral ==
    ASSUME QueueAssumption, QueueInv, NEW w \in Workers, NEW s \in Sources
    PROVE  /\ Cardinality(Titling(s) \ {ProcOf[w]}) \in Nat
           /\ Cardinality(Titling(s) \ {ProcOf[w]}) + Cardinality(ListedBy(s))
                  + Cardinality(UploadedBy(s)) <= 2 * Cardinality(Instances)
<1> DEFINE p == ProcOf[w]
           Others == Titling(s) \ {p}
<1>1. p \in Instances /\ Others \subseteq Instances \ {p}
  BY DEF Instances, Titling
<1>2. /\ IsFiniteSet(Instances) /\ Cardinality(Instances) \in Nat
      /\ IsFiniteSet(Instances \ {p})
      /\ Cardinality(Instances \ {p}) = Cardinality(Instances) - 1
  BY <1>1, InstanceSets, FS_RemoveElement
<1>3. Cardinality(Others) \in Nat /\ Cardinality(Others) <= Cardinality(Instances) - 1
  BY <1>1, <1>2, FS_Subset, FS_CardinalityType
<1>4. Cardinality(ListedBy(s)) \in Nat /\ Cardinality(ListedBy(s)) <= Cardinality(Instances)
  BY InstanceSets DEF ListedBy
<1>5. Cardinality(UploadedBy(s)) \in 0..1
  <2>1. \A q, r \in UploadedBy(s) : q = r
    BY DEF QueueInv, HeadingsOnce, UploadedBy
  <2>2. CASE UploadedBy(s) = {}
    <3>1. Cardinality(UploadedBy(s)) = 0
      BY <2>2, FS_EmptySet
    <3> QED BY <3>1
  <2>3. CASE UploadedBy(s) # {}
    <3>1. PICK q : UploadedBy(s) = {q}
      BY <2>1, <2>3
    <3>2. Cardinality(UploadedBy(s)) = 1
      BY <3>1, FS_Singleton
    <3> QED BY <3>2
  <2> QED BY <2>2, <2>3
<1> HIDE DEF Others
<1>6. Cardinality(Others) + Cardinality(ListedBy(s)) + Cardinality(UploadedBy(s))
          <= 2 * Cardinality(Instances)
  BY <1>2, <1>3, <1>4, <1>5
<1> QED BY <1>3, <1>6 DEF Others

\* The last step of a job takes its source off the list, unless the context is gone.
LEMMA EndsKeepQueueInv ==
    ASSUME QueueAssumption, QueueInv, NEW w \in Workers, Done(w),
           JobStep(w) \/ TimesOut(w)
    PROVE  QueueInv'
<1> USE DEF QueueInv
<1>1. PICK s \in Sources : s = job[w]
  BY LastSteps
<1>2. /\ jobAt[w] # "idle" /\ title[s] # "none" /\ s \notin Dotted /\ LastStep(s)
      /\ UNCHANGED <<listed, uploaded>> /\ (UNCHANGED history \/ Untitled(w))
      /\ jobAt' = [jobAt EXCEPT ![w] = "idle"] /\ job' = [job EXCEPT ![w] = NoSource]
  BY <1>1, LastSteps DEF hands, Done, MovesJob
<1>3. /\ title' \in [Sources -> {"none", "placeholder", "dotted", "printed", "unreadable"}]
      /\ due' \in [Sources -> {"null", "later", "now"}]
      /\ needs' \subseteq needs \union {s}
      /\ \A x \in Sources \ {s} :
             title'[x] = title[x] /\ due'[x] = due[x] /\ (x \in needs' <=> x \in needs)
      /\ title'[s] # "none" /\ (title'[s] = "dotted" => title[s] = "dotted")
      /\ title'[s] \in {"printed", "unreadable"} => s \notin needs' /\ due'[s] = "null"
      /\ lapses' \in 0..MaxLapses
  BY <1>2 DEF LastStep
<1>4. awaiting' \subseteq Sources /\ early' \in [Sources -> Nat]
  <2>1. Cardinality(Titling(s) \ {ProcOf[w]}) \in Nat
    BY CountAtDeferral
  <2>2. \/ UNCHANGED <<awaiting, early>>
        \/ /\ awaiting' = awaiting \union {s}
           /\ early' = [early EXCEPT ![s] = Cardinality(Titling(s) \ {ProcOf[w]})]
    BY <1>1, <1>2 DEF Untitled, history
  <2> HIDE DEF Titling
  <2> QED BY <2>1, <2>2 DEF QueueTypeOK
<1>5. QueueTypeOK'
  BY <1>2, <1>3, <1>4 DEF QueueTypeOK, QueueAssumption, JobsHaveRows
<1>6. JobsHaveRows' /\ HeadingsOnce'
  <2>1. /\ \A x \in Sources : title[x] # "none" => title'[x] # "none"
        /\ \A x \in Sources : title'[x] = "dotted" => title[x] = "dotted"
    BY <1>3
  <2>2. job' \in [Workers -> Sources \union {NoSource}]
    BY <1>2 DEF JobsHaveRows
  <2>3. \A v \in Workers :
            jobAt'[v] # "idle" => jobAt[v] # "idle" /\ job'[v] = job[v] /\ job[v] \in Sources
    BY <1>2 DEF JobsHaveRows, QueueTypeOK
  <2>4. \A v \in Workers : jobAt'[v] # "idle" => title'[job'[v]] # "none" /\ job'[v] \notin Dotted
    BY <2>1, <2>3 DEF JobsHaveRows
  <2>5. \A p \in Instances : \A x \in listed'[p] \union uploaded'[p] : title'[x] # "none"
    <3>1. \A p \in Instances : listed[p] \subseteq Sources /\ uploaded[p] \subseteq Sources
      BY DEF QueueTypeOK
    <3>2. listed' = listed /\ uploaded' = uploaded
      BY <1>2
    <3> QED BY <2>1, <3>1, <3>2 DEF JobsHaveRows
  <2>6. \A x \in Dotted : title'[x] # "none"
    BY <2>1 DEF HeadingsOnce, QueueAssumption
  <2>7. HeadingsOnce'
    BY <1>2, <2>1, <2>6 DEF HeadingsOnce
  <2> QED BY <2>2, <2>4, <2>5, <2>7 DEF JobsHaveRows
<1>7. SettledLeaves'
  BY <1>3 DEF SettledLeaves
<1>8. CASE UNCHANGED history
  <2>1. PutOff'
    BY <1>2, <1>3, <1>8 DEF LastStep, PutOff, Placeholder, history, QueueTypeOK
  <2>2. FewEarly'
    BY <1>2, <1>8 DEF FewEarly, ListedBy, UploadedBy, history
  <2> QED BY <1>5, <1>6, <1>7, <2>1, <2>2
<1>9. CASE Placeholder(s) /\ s \notin awaiting /\ Untitled(w)
  <2>1. /\ awaiting' = awaiting \union {s} /\ DeferTitleRetry(s)
        /\ early' = [early EXCEPT ![s] = Cardinality(Titling(s) \ {ProcOf[w]})]
    BY <1>1, <1>9 DEF Untitled
  <2>2. PutOff'
    BY <1>2, <1>3, <1>9, <2>1 DEF PutOff, Placeholder, DeferTitleRetry, QueueTypeOK
  <2>3. \A x \in Sources : ListedBy(x)' = ListedBy(x) /\ UploadedBy(x)' = UploadedBy(x)
    BY <1>2 DEF ListedBy, UploadedBy
  <2>4. FewEarly'
    <3> SUFFICES ASSUME NEW x \in awaiting'
                 PROVE  early'[x] + Cardinality(ListedBy(x)) + Cardinality(UploadedBy(x))
                            <= 2 * Cardinality(Instances)
      BY <1>4, <2>3 DEF FewEarly
    <3>1. CASE x = s
      BY <2>1, <3>1, CountAtDeferral DEF QueueTypeOK
    <3>2. CASE x # s
      BY <2>1, <3>2 DEF FewEarly, QueueTypeOK
    <3> QED BY <3>1, <3>2
  <2> QED BY <1>5, <1>6, <1>7, <2>2, <2>4
<1> QED BY <1>1, <1>2, <1>8, <1>9 DEF Untitled

LEMMA QueueNextInv ==
    ASSUME QueueAssumption, QueueInv, [QueueNext]_titleVars
    PROVE  QueueInv'
<1>1. CASE UNCHANGED titleVars
  BY <1>1 DEF titleVars, titleRows, hands, history, QueueInv, QueueTypeOK, JobsHaveRows,
              HeadingsOnce, SettledLeaves, PutOff, FewEarly, Placeholder, ListedBy, UploadedBy
<1>2. ASSUME NEW w \in Workers, JobStep(w) PROVE Done(w) \/ Run(w) \/ Ask(w)
  BY <1>2 DEF JobStep, FileGone, Titled, Untitled
<1>3. ASSUME NEW w \in Workers, TimesOut(w) PROVE Done(w)
  BY <1>3 DEF TimesOut
<1>4. CASE QueueNext
  BY <1>2, <1>3, <1>4, RowsKeepQueueInv, HandsKeepQueueInv, EnqueueKeepsQueueInv,
     JobsKeepQueueInv, EndsKeepQueueInv DEF QueueNext
<1> QED BY <1>1, <1>4

LEMMA QueueSound == ASSUME QueueAssumption PROVE QueueSpec => []QueueInv
<1>1. QueueInit => QueueInv
  BY QueueInitInv
<1>2. QueueInv /\ [QueueNext]_titleVars => QueueInv'
  BY QueueNextInv
<1> QED BY <1>1, <1>2, PTL DEF QueueSpec

\* No process has two jobs for one source.
THEOREM QueueTypes == ASSUME QueueAssumption PROVE QueueSpec => []QueueTypeOK
BY QueueSound, PTL DEF QueueInv

\* A printed title keeps its source out of the queue, also when late jobs of other
\* processes defer it or clear it, and whatever fails (repo.go:511-533).
THEOREM SettledAlwaysLeaves == ASSUME QueueAssumption PROVE QueueSpec => []SettledLeaves
BY QueueSound, PTL DEF QueueInv

\* Until its delay is over, a source that a job has put off gets no more jobs than those on
\* their way already: two for each process at most, whatever fails (repo.go:508-510).
THEOREM AlwaysBacksOff == ASSUME QueueAssumption PROVE QueueSpec => []BacksOff
<1>1. QueueInv => BacksOff
  <2> SUFFICES ASSUME QueueInv, NEW s \in awaiting
               PROVE  early[s] <= 2 * Cardinality(Instances)
    BY DEF BacksOff
  <2>1. /\ early[s] + Cardinality(ListedBy(s)) + Cardinality(UploadedBy(s))
               <= 2 * Cardinality(Instances)
        /\ early[s] \in Nat
    BY DEF QueueInv, FewEarly, QueueTypeOK
  <2>2. /\ Cardinality(ListedBy(s)) \in Nat /\ Cardinality(UploadedBy(s)) \in Nat
        /\ Cardinality(Instances) \in Nat
    BY InstanceSets DEF ListedBy, UploadedBy
  <2> QED BY <2>1, <2>2
<1> QED BY <1>1, QueueSound, PTL

-----------------------------------------------------------------------------
(* The score of two titles *)

\* The natural numbers are well-founded.
LEMMA LeastNat == ASSUME NEW S \in SUBSET Nat, S # {} PROVE \E n \in S : \A m \in S : n <= m
<1>1. PICK n \in S : \A m \in S : ~ (<<m, n>> \in OpToRel(<, Nat))
  BY NatLessThanWellFounded, WFMin
<1>2. \A m \in S : ~ (m < n)
  BY <1>1 DEF OpToRel
<1> QED BY <1>2

LEMMA GreatestBelow ==
    ASSUME NEW S, S # {}, NEW N \in Nat, S \subseteq 0..N
    PROVE  \E n \in S : \A m \in S : m <= n
<1> DEFINE D == {d \in Nat : N - d \in S}
<1>1. D # {}
  <2>1. PICK n : n \in S
    OBVIOUS
  <2>2. n \in 0..N /\ N - n \in Nat /\ N - (N - n) = n
    BY <2>1
  <2> QED BY <2>1, <2>2
<1>2. PICK d \in D : \A e \in D : d <= e
  BY <1>1, LeastNat
<1>3. ASSUME NEW m \in S PROVE m <= N - d
  <2>1. m \in 0..N /\ N - m \in Nat /\ N - (N - m) = m
    OBVIOUS
  <2>2. N - m \in D
    BY <2>1
  <2> QED BY <1>2, <2>1, <2>2
<1> QED BY <1>2, <1>3

\* Tokens is what its loop computes: a sequence of words.
LEMMA TokensAreWords == ASSUME ScoreAssumption, NEW t \in Titles PROVE Tokens(t) \in Seq(Words)
<1> DEFINE N == Len(t)
           Step(g, k) == IF k = 0 THEN <<>>
                         ELSE IF t[k] \in Stop THEN g[k - 1] ELSE Append(g[k - 1], t[k])
           Loop(n) == \E g \in [0..n -> Seq(Words)] : \A k \in 0..n : g[k] = Step(g, k)
           Bad == {n \in 0..N : ~ Loop(n)}
<1>1. t \in Seq(Words) /\ N \in Nat /\ \A k \in 1..N : t[k] \in Words
  BY DEF ScoreAssumption
<1>2. ASSUME Bad # {} PROVE FALSE
  <2>1. Bad \in SUBSET Nat
    BY <1>1
  <2>2. PICK n \in Bad : \A m \in Bad : n <= m
    <3> HIDE DEF Bad
    <3> QED BY <1>2, <2>1, LeastNat
  <2>3. n \in 0..N /\ ~ Loop(n)
    BY <2>2
  <2>4. n # 0
    <3> DEFINE g == [k \in 0..0 |-> <<>>]
    <3>1. g \in [0..0 -> Seq(Words)] /\ \A k \in 0..0 : g[k] = Step(g, k)
      OBVIOUS
    <3> HIDE DEF g
    <3>2. Loop(0)
      BY <3>1
    <3> QED BY <2>3, <3>2
  <2>5. n - 1 \in 0..N /\ ~ (n <= n - 1)
    BY <1>1, <2>3, <2>4
  <2>6. Loop(n - 1)
    <3> HIDE DEF Loop
    <3> QED BY <2>2, <2>5
  <2>7. PICK g \in [0..(n - 1) -> Seq(Words)] : \A k \in 0..(n - 1) : g[k] = Step(g, k)
    BY <2>6
  <2> DEFINE last == IF t[n] \in Stop THEN g[n - 1] ELSE Append(g[n - 1], t[n])
             h == [k \in 0..n |-> IF k = n THEN last ELSE g[k]]
  <2>8. last \in Seq(Words)
    <3>1. g[n - 1] \in Seq(Words) /\ t[n] \in Words
      BY <1>1, <2>3, <2>4, <2>7
    <3> QED BY <3>1
  <2>9. \A k \in 0..n : k # n => k \in 0..(n - 1)
    BY <2>3
  <2>10. h \in [0..n -> Seq(Words)]
    BY <2>7, <2>8, <2>9
  <2>11. \A k \in 0..n : h[k] = Step(h, k)
    <3> SUFFICES ASSUME NEW k \in 0..n PROVE h[k] = Step(h, k)
      OBVIOUS
    <3>1. CASE k = n
      <4>1. n - 1 \in 0..n /\ n - 1 # n
        BY <2>3, <2>4
      <4> QED BY <2>4, <3>1, <4>1
    <3>2. CASE k # n
      <4>1. k \in 0..(n - 1) /\ h[k] = g[k] /\ (k # 0 => k - 1 \in 0..n /\ k - 1 # n)
        BY <2>3, <2>9, <3>2
      <4> QED BY <2>7, <4>1
    <3> QED BY <3>1, <3>2
  <2> HIDE DEF h
  <2> QED BY <2>3, <2>10, <2>11
<1>3. Loop(N)
  <2> HIDE DEF Loop
  <2> QED BY <1>1, <1>2
<1>4. PICK g \in [0..N -> Seq(Words)] : \A k \in 0..N : g[k] = Step(g, k)
  BY <1>3
<1> DEFINE up == CHOOSE f : f = [k \in 0..N |-> Step(f, k)]
<1>5. g = [k \in 0..N |-> Step(g, k)]
  BY <1>4
<1>6. up = [k \in 0..N |-> Step(up, k)]
  BY <1>5
<1>7. Tokens(t) = up[N]
  BY DEF Tokens
<1> HIDE DEF up
<1> DEFINE Odd == {k \in 0..N : up[k] \notin Seq(Words)}
<1>8. \A k \in 0..N : up[k] = Step(up, k)
  BY <1>6
<1>9. Odd = {}
  <2> SUFFICES ASSUME Odd # {} PROVE FALSE
    OBVIOUS
  <2>1. Odd \in SUBSET Nat
    BY <1>1
  <2>2. PICK k \in Odd : \A m \in Odd : k <= m
    <3> HIDE DEF Odd
    <3> QED BY <2>1, LeastNat
  <2>3. k \in 0..N /\ up[k] \notin Seq(Words) /\ up[k] = Step(up, k)
    BY <1>8, <2>2
  <2>4. k # 0
    BY <2>3
  <2>5. k - 1 \in 0..N /\ ~ (k <= k - 1) /\ k \in 1..N
    BY <1>1, <2>3, <2>4
  <2>6. up[k - 1] \in Seq(Words) /\ t[k] \in Words
    BY <1>1, <2>2, <2>5
  <2>7. Append(up[k - 1], t[k]) \in Seq(Words)
    BY <2>6
  <2> QED BY <2>4, <2>6, <2>7, <2>3
<1> QED BY <1>1, <1>7, <1>9

LEMMA WordScoreRange ==
    ASSUME ScoreAssumption, NEW v \in Words, NEW w \in Words
    PROVE  WordScore(v, w) \in 0..100
<1>1. {v, w} \in Couples
  BY DEF Couples
<1>2. Spelling[{v, w}] \in 0..99
  BY <1>1 DEF ScoreAssumption
<1> QED BY <1>2 DEF WordScore

LEMMA Compared == \A x, y \in 0..100 : x <= y => ~ (x > y) /\ (y > x \/ y = x)
OBVIOUS

\* The loop over the right title finds one word if there is any that is near enough.
LEMMA BestIsOne ==
    ASSUME ScoreAssumption, NEW w \in Words, NEW b \in Seq(Words)
    PROVE  /\ Best(w, b) \subseteq Free(w, b)
           /\ Free(w, b) = {} => Best(w, b) = {}
           /\ Free(w, b) # {} => \E j : Best(w, b) = {j}
<1> DEFINE F == Free(w, b)
           S == {WordScore(w, b[j]) : j \in F}
<1>1. Len(b) \in Nat /\ F \subseteq 1..Len(b) /\ \A j \in 1..Len(b) : b[j] \in Words
  BY DEF Free
<1>2. ASSUME NEW j \in F PROVE WordScore(w, b[j]) \in 0..100 /\ j \in Nat
  <2>1. j \in 1..Len(b)
    BY <1>1
  <2>2. j \in Nat /\ b[j] \in Words
    BY <1>1, <2>1
  <2>3. WordScore(w, b[j]) \in 0..100
    BY <2>2, WordScoreRange
  <2> QED BY <2>2, <2>3
<1>3. Best(w, b) \subseteq F
  BY DEF Best
<1>4. ASSUME F # {} PROVE \E j : Best(w, b) = {j}
  <2>1. S # {} /\ S \subseteq 0..100
    BY <1>4, <1>2
  <2>2. PICK s \in S : \A r \in S : r <= s
    <3> HIDE DEF S
    <3> QED BY <2>1, GreatestBelow
  <2> DEFINE T == {j \in F : WordScore(w, b[j]) = s}
  <2>3. T # {} /\ T \in SUBSET Nat
    BY <1>1, <2>2
  <2>4. PICK j \in T : \A k \in T : j <= k
    <3> HIDE DEF T
    <3> QED BY <2>3, LeastNat
  <2>5. j \in F /\ WordScore(w, b[j]) = s
    BY <2>4
  <2>6. \A k \in F : WordScore(w, b[k]) <= s /\ (WordScore(w, b[k]) = s => j <= k)
    BY <2>2, <2>4
  <2>7. \A k \in F : k \in Best(w, b) <=> \A m \in F :
            \/ WordScore(w, b[k]) > WordScore(w, b[m])
            \/ WordScore(w, b[k]) = WordScore(w, b[m]) /\ k <= m
    BY DEF Best
  <2>8. s \in 0..100
    BY <1>2, <2>5
  <2> HIDE DEF F, S, T
  <2>9. ASSUME NEW k \in F
        PROVE  k \in Best(w, b) <=> k = j
    <3>1. CASE k = j
      <4>1. \A m \in F : \/ WordScore(w, b[j]) > WordScore(w, b[m])
                         \/ WordScore(w, b[j]) = WordScore(w, b[m]) /\ j <= m
        <5> SUFFICES ASSUME NEW m \in F
                     PROVE  \/ WordScore(w, b[j]) > WordScore(w, b[m])
                            \/ WordScore(w, b[j]) = WordScore(w, b[m]) /\ j <= m
          OBVIOUS
        <5>1. WordScore(w, b[m]) \in 0..100
          BY <1>2
        <5> QED BY <2>5, <2>6, <2>8, <5>1, Compared
      <4> QED BY <2>7, <3>1, <4>1
    <3>2. CASE k # j
      <4>1. ~ (WordScore(w, b[k]) > s)
        <5>1. WordScore(w, b[k]) \in 0..100 /\ WordScore(w, b[k]) <= s
          BY <1>2, <2>6
        <5> QED BY <2>8, <5>1, Compared
      <4>2. WordScore(w, b[k]) = s => ~ (k <= j)
        BY <1>2, <2>5, <2>6, <3>2
      <4> QED BY <2>5, <2>7, <3>2, <4>1, <4>2
    <3> QED BY <3>1, <3>2
  <2> QED BY <1>3, <2>5, <2>9
<1> QED BY <1>3, <1>4

\* What one end of a pairing has in S is as many pairs.
LEMMA PairsOfEnds ==
    ASSUME NEW f, IsFiniteSet(f), NEW k \in {1, 2}, NEW S, IsFiniteSet(S),
           \A d, e \in f : d # e => d[k] # e[k]
    PROVE  LET g == {e \in f : e[k] \in S}
           IN  IsFiniteSet(g) /\ Cardinality(g) <= Cardinality(S)
<1> DEFINE g == {e \in f : e[k] \in S}
           end == [e \in g |-> e[k]]
<1>1. end \in Injection(g, S)
  BY DEF Injection, IsInjective
<1> QED BY <1>1, FS_Injection

\* The pairings of two titles: finite sets, of which one is the largest.
LEMMA BestPairingExists ==
    ASSUME NEW s, NEW t, Len(s) \in Nat, Len(t) \in Nat
    PROVE  /\ \A f \in Pairings(s, t) : /\ IsFiniteSet(f) /\ Cardinality(f) \in Nat
                                        /\ Cardinality(f) <= BestPairing(s, t)
                                        /\ Cardinality(f) <= Len(s) /\ Cardinality(f) <= Len(t)
           /\ BestPairing(s, t) \in Nat
           /\ \E f \in Pairings(s, t) : Cardinality(f) = BestPairing(s, t)
<1> DEFINE P == Pairings(s, t)
           C == {Cardinality(f) : f \in P}
<1>1. IsFiniteSet(1..Len(s)) /\ Cardinality(1..Len(s)) = Len(s)
      /\ IsFiniteSet(1..Len(t)) /\ Cardinality(1..Len(t)) = Len(t)
  <2>1. ASSUME NEW n \in Nat PROVE IsFiniteSet(1..n) /\ Cardinality(1..n) = n
    <3>1. 1 \in Int /\ n \in Int /\ (1 > n => n = 0) /\ n - 1 + 1 = n
      OBVIOUS
    <3>2. /\ IsFiniteSet(1..n)
          /\ Cardinality(1..n) = (IF 1 > n THEN 0 ELSE n - 1 + 1)
      BY ONLY <3>1, FS_Interval
    <3> QED BY <3>1, <3>2
  <2> QED BY <2>1
<1>2. IsFiniteSet((1..Len(s)) \X (1..Len(t)))
  BY <1>1, FS_Product
<1>3. ASSUME NEW f \in P
      PROVE  /\ IsFiniteSet(f) /\ Cardinality(f) \in Nat
             /\ Cardinality(f) <= Len(s) /\ Cardinality(f) <= Len(t)
  <2>1. f \subseteq (1..Len(s)) \X (1..Len(t)) /\ \A d, e \in f : d # e => d[1] # e[1] /\ d[2] # e[2]
    BY DEF Pairings
  <2>2. IsFiniteSet(f) /\ Cardinality(f) \in Nat
    BY <1>2, <2>1, FS_Subset, FS_CardinalityType
  <2>3. Cardinality({e \in f : e[1] \in 1..Len(s)}) <= Len(s)
    BY <1>1, <2>1, <2>2, PairsOfEnds
  <2>4. Cardinality({e \in f : e[2] \in 1..Len(t)}) <= Len(t)
    BY <1>1, <2>1, <2>2, PairsOfEnds
  <2>5. {e \in f : e[1] \in 1..Len(s)} = f /\ {e \in f : e[2] \in 1..Len(t)} = f
    BY <2>1
  <2> QED BY <2>2, <2>3, <2>4, <2>5
<1>4. C # {} /\ C \subseteq 0..Len(s)
  <2>1. {} \in P
    BY DEF Pairings
  <2> QED BY <1>3, <2>1
<1>5. PICK n \in C : \A m \in C : m <= n
  <2> HIDE DEF C
  <2> QED BY <1>4, GreatestBelow
<1>6. n \in 0..Len(s) /\ (\E f \in P : Cardinality(f) = n) /\ \A f \in P : Cardinality(f) <= n
  BY <1>4, <1>5
<1>7. /\ BestPairing(s, t) \in 0..Len(s)
      /\ \E f \in P : Cardinality(f) = BestPairing(s, t)
      /\ \A f \in P : Cardinality(f) <= BestPairing(s, t)
  BY <1>6 DEF BestPairing
<1> QED BY <1>3, <1>7

\* The greedy alignment so far is one of the pairings, and none can be added to it: where a
\* word before this one resembles a word of the right title, one of the two is taken.
Paired(f) ==
    /\ f \in Pairings(Tokens(left), Tokens(right))
    /\ Cardinality(f) = matched
    /\ \A e \in f : e[1] < word /\ e[2] \in hit
    /\ \A x \in 1..(word - 1), y \in 1..Len(Tokens(right)) :
           WordScore(Tokens(left)[x], Tokens(right)[y]) >= WordMin
               => y \in hit \/ \E e \in f : e[1] = x
Aligned == \E f \in Pairings(Tokens(left), Tokens(right)) : Paired(f)

ScoreInv == ScoreTypeOK /\ Aligned /\ ScoreInRange

\* A title and its words, as far as the proofs need them.
LEMMA ScoreTokens ==
    ASSUME ScoreAssumption, ScoreTypeOK
    PROVE  /\ Tokens(left) \in Seq(Words) /\ Tokens(right) \in Seq(Words)
           /\ Len(Tokens(left)) \in Nat /\ Len(Tokens(right)) \in Nat
           /\ IsFiniteSet(hit) /\ Cardinality(hit) \in Nat
<1>1. Tokens(left) \in Seq(Words) /\ Tokens(right) \in Seq(Words)
  BY TokensAreWords DEF ScoreTypeOK
<1>2. Len(Tokens(left)) \in Nat /\ Len(Tokens(right)) \in Nat
  BY <1>1, LenProperties
<1>3. IsFiniteSet(1..Len(Tokens(right)))
  BY <1>2, FS_Interval
<1>4. IsFiniteSet(hit) /\ Cardinality(hit) \in Nat
  BY <1>3, FS_Subset, FS_CardinalityType DEF ScoreTypeOK
<1> QED BY <1>1, <1>2, <1>4

LEMMA NothingPaired ==
    ASSUME ScoreAssumption, NEW a \in Titles, NEW b \in Titles
    PROVE  /\ {} \in Pairings(Tokens(a), Tokens(b))
           /\ Cardinality({}) = 0
           /\ 1 \in 1..(Len(Tokens(a)) + 1)
<1>1. Len(Tokens(a)) \in Nat
  BY TokensAreWords, LenProperties
<1>2. 1 \in 1..(Len(Tokens(a)) + 1)
  BY <1>1
<1> QED BY <1>2, FS_EmptySet DEF Pairings

LEMMA ScoreInitInv == ASSUME ScoreAssumption, ScoreInit PROVE ScoreInv
<1>1. /\ left \in Titles /\ right \in Titles /\ word = 1 /\ matched = 0 /\ hit = {} /\ scores = <<>>
  BY DEF ScoreInit
<1>2. ScoreTypeOK
  BY <1>1, NothingPaired DEF ScoreTypeOK
<1>3. Aligned
  BY <1>1, NothingPaired DEF Aligned, Paired
<1>4. ScoreInRange
  BY <1>1 DEF ScoreInRange
<1> QED BY <1>2, <1>3, <1>4 DEF ScoreInv

\* The next word takes the best free word that resembles it, or there is none.
LEMMA AlignKeepsScoreInv ==
    ASSUME ScoreAssumption, ScoreInv, AlignWord
    PROVE  ScoreInv'
<1> DEFINE L == Tokens(left)
           R == Tokens(right)
           best == Best(L[word], R)
<1>1. /\ L \in Seq(Words) /\ R \in Seq(Words) /\ Len(L) \in Nat /\ Len(R) \in Nat
      /\ IsFiniteSet(hit) /\ Cardinality(hit) \in Nat
  BY ScoreTokens DEF ScoreInv
<1>2. /\ word \in 1..Len(L) /\ hit' = hit \union best /\ matched' = matched + Cardinality(best)
      /\ word' = word + 1 /\ UNCHANGED <<left, right, scores>>
  BY <1>1 DEF AlignWord, ScoreInv, ScoreTypeOK
<1>3. /\ left \in Titles /\ right \in Titles /\ hit \subseteq 1..Len(R) /\ matched = Cardinality(hit)
      /\ scores \in Seq(Nat)
  BY DEF ScoreInv, ScoreTypeOK
<1>4. PICK f \in Pairings(L, R) : Paired(f)
  BY DEF ScoreInv, Aligned
<1>5. \A j \in Free(L[word], R) :
          j \in 1..Len(R) /\ j \notin hit /\ WordScore(L[word], R[j]) >= WordMin
  BY DEF Free
<1>6. \A j \in 1..Len(R) :
          WordScore(L[word], R[j]) >= WordMin => j \in hit \/ j \in Free(L[word], R)
  BY DEF Free
<1>7. /\ best \subseteq Free(L[word], R)
      /\ Free(L[word], R) = {} => best = {}
      /\ Free(L[word], R) # {} => \E j : best = {j}
  <2>1. L[word] \in Words
    BY <1>1, <1>2
  <2> QED BY <1>1, <2>1, BestIsOne
<1>8. word' \in 1..(Len(L) + 1)
  <2>1. \A n \in Nat : \A k \in 1..n : k + 1 \in 1..(n + 1)
    OBVIOUS
  <2> QED BY <1>1, <1>2, <2>1
<1> HIDE DEF L, R, best
<1>9. CASE Free(L[word], R) = {}
  <2>1. hit' = hit /\ matched' = matched
    <3>1. best = {} /\ Cardinality(best) = 0
      BY <1>7, <1>9, FS_EmptySet
    <3> QED BY <1>1, <1>2, <1>3, <3>1
  <2>2. Paired(f)'
    <3>1. \A x \in 1..(word' - 1) : x = word \/ x \in 1..(word - 1)
      BY <1>2
    <3>2. \A e \in f : e[1] < word' /\ e[2] \in hit'
      BY <1>2, <1>4, <2>1 DEF Paired, Pairings, L, R
    <3>3. \A x \in 1..(word' - 1), y \in 1..Len(R) :
              WordScore(L[x], R[y]) >= WordMin => y \in hit' \/ \E e \in f : e[1] = x
      BY <1>4, <1>6, <1>9, <2>1, <3>1 DEF Paired, L, R
    <3> QED BY <1>2, <1>4, <2>1, <3>2, <3>3 DEF Paired, L, R
  <2>3. ScoreTypeOK'
    BY <1>2, <1>3, <1>8, <2>1 DEF ScoreTypeOK, L, R
  <2>4. Aligned'
    BY <1>2, <1>4, <2>2 DEF Aligned, L, R
  <2>5. ScoreInRange'
    BY <1>2 DEF ScoreInv, ScoreInRange, Words2
  <2> QED BY <2>3, <2>4, <2>5 DEF ScoreInv
<1>10. CASE Free(L[word], R) # {}
  <2>1. PICK j : best = {j}
    BY <1>7, <1>10
  <2>2. j \in 1..Len(R) /\ j \notin hit /\ WordScore(L[word], R[j]) >= WordMin
    BY <1>5, <1>7, <2>1
  <2>3. /\ hit' = hit \union {j} /\ matched' = matched + 1 /\ matched' = Cardinality(hit')
    BY <1>1, <1>2, <1>3, <2>1, <2>2, FS_Singleton, FS_AddElement
  <2>4. PICK g : g = f \union {<<word, j>>}
    OBVIOUS
  <2>5. /\ f \subseteq (1..Len(L)) \X (1..Len(R))
        /\ \A e \in f : WordScore(L[e[1]], R[e[2]]) >= WordMin /\ e[1] < word /\ e[2] \in hit
        /\ \A d, e \in f : d # e => d[1] # e[1] /\ d[2] # e[2]
    BY <1>4 DEF Paired, Pairings, L, R
  <2>6. g \in Pairings(L, R)
    <3>1. <<word, j>> \in (1..Len(L)) \X (1..Len(R)) /\ <<word, j>>[1] = word /\ <<word, j>>[2] = j
      BY <1>2, <2>2
    <3>2. \A e \in f : e[1] # word /\ e[2] # j
      BY <1>2, <2>2, <2>5
    <3>3. g \in SUBSET {e \in (1..Len(L)) \X (1..Len(R)) : WordScore(L[e[1]], R[e[2]]) >= WordMin}
      BY <2>4, <2>2, <2>5, <3>1
    <3>4. \A d, e \in g : d # e => d[1] # e[1] /\ d[2] # e[2]
      BY <2>4, <2>5, <3>1, <3>2
    <3> QED BY <3>3, <3>4 DEF Pairings
  <2>7. Cardinality(g) = matched'
    <3>1. IsFiniteSet(f) /\ Cardinality(f) = matched
      BY <1>1, <1>4, BestPairingExists DEF Paired
    <3>2. <<word, j>> \notin f
      BY <1>2, <2>5
    <3> QED BY <2>4, <2>3, <3>1, <3>2, FS_AddElement
  <2>8. Paired(g)'
    <3>1. <<word, j>> \in g /\ <<word, j>>[1] = word /\ <<word, j>>[2] = j /\ f \subseteq g
      BY <2>4
    <3>2. \A e \in g : e[1] < word' /\ e[2] \in hit'
      BY <1>2, <2>4, <2>3, <2>5, <3>1
    <3>3. ASSUME NEW x \in 1..(word' - 1), NEW y \in 1..Len(R), WordScore(L[x], R[y]) >= WordMin
          PROVE  y \in hit' \/ \E e \in g : e[1] = x
      <4>1. CASE x = word
        BY <3>1, <4>1
      <4>2. CASE x # word
        <5>1. x \in 1..(word - 1)
          BY <1>2, <4>2
        <5>2. y \in hit \/ \E e \in f : e[1] = x
          BY <1>4, <3>3, <5>1 DEF Paired, L, R
        <5> QED BY <2>3, <3>1, <5>2
      <4> QED BY <4>1, <4>2
    <3> QED BY <1>2, <2>6, <2>7, <3>2, <3>3 DEF Paired, L, R
  <2>9. ScoreTypeOK'
    BY <1>2, <1>3, <1>8, <2>2, <2>3 DEF ScoreTypeOK, L, R
  <2>10. Aligned'
    BY <1>2, <2>6, <2>8 DEF Aligned, L, R
  <2>11. ScoreInRange'
    BY <1>2 DEF ScoreInv, ScoreInRange, Words2
  <2> QED BY <2>9, <2>10, <2>11 DEF ScoreInv
<1> QED BY <1>9, <1>10

\* A result counts no word twice.
LEMMA FinishKeepsScoreInv ==
    ASSUME ScoreAssumption, ScoreInv, Finish
    PROVE  ScoreInv'
<1>1. /\ left' = right /\ right' = left /\ word' = 1 /\ matched' = 0 /\ hit' = {}
      /\ scores' = Append(scores, Scored)
      /\ left \in Titles /\ right \in Titles /\ scores \in Seq(Nat)
  BY DEF Finish, ScoreInv, ScoreTypeOK
<1>2. Len(Tokens(left)) \in Nat /\ Len(Tokens(right)) \in Nat
  BY ScoreTokens DEF ScoreInv
<1>3. matched \in Nat /\ matched <= Len(Tokens(left)) /\ matched <= Len(Tokens(right))
  BY <1>2, BestPairingExists DEF ScoreInv, Aligned, Paired
<1>4. Words2 \in Nat /\ Scored \in Nat /\ Scored <= Words2 /\ Words2' = Words2
  BY <1>1, <1>2, <1>3 DEF Words2, Scored
<1>5. scores' \in Seq(Nat)
  BY <1>1, <1>4
<1>6. ScoreTypeOK'
  BY <1>1, <1>5, NothingPaired DEF ScoreTypeOK
<1>7. Aligned'
  BY <1>1, NothingPaired DEF Aligned, Paired
<1>8. ScoreInRange'
  <2> SUFFICES ASSUME NEW k \in 1..Len(scores') PROVE scores'[k] <= Words2
    BY <1>4 DEF ScoreInRange
  <2>1. k \in 1..Len(scores) \/ k = Len(scores) + 1
    BY <1>1
  <2> QED BY <1>1, <1>4, <2>1 DEF ScoreInv, ScoreInRange
<1> QED BY <1>6, <1>7, <1>8 DEF ScoreInv

LEMMA ScoreNextInv == ASSUME ScoreAssumption, ScoreInv, [ScoreNext]_scoreVars PROVE ScoreInv'
<1>1. CASE UNCHANGED scoreVars
  BY <1>1 DEF scoreVars, ScoreInv, ScoreTypeOK, Aligned, Paired, ScoreInRange, Words2
<1>2. CASE ScoreNext
  BY <1>2, AlignKeepsScoreInv, FinishKeepsScoreInv DEF ScoreNext
<1> QED BY <1>1, <1>2

LEMMA ScoreSound == ASSUME ScoreAssumption PROVE ScoreSpec => []ScoreInv
<1>1. ScoreInit => ScoreInv
  BY ScoreInitInv
<1>2. ScoreInv /\ [ScoreNext]_scoreVars => ScoreInv'
  BY ScoreNextInv
<1> QED BY <1>1, <1>2, PTL DEF ScoreSpec

\* The loop stays within the two titles.
THEOREM ScoreTypes == ASSUME ScoreAssumption PROVE ScoreSpec => []ScoreTypeOK
BY ScoreSound, PTL DEF ScoreInv

\* A score is at most 1, as the table demands (sim.go:70; CHECK of sql/013_title_similar.sql).
THEOREM ScoreAlwaysInRange == ASSUME ScoreAssumption PROVE ScoreSpec => []ScoreInRange
BY ScoreSound, PTL DEF ScoreInv

\* A best pairing has at most two pairs for each of the greedy one: a pair that is not
\* greedy shares its left word or its right word with one that is.
LEMMA GreedyIsHalf ==
    ASSUME ScoreAssumption, ScoreInv, word > Len(Tokens(left))
    PROVE  LET n == BestPairing(Tokens(left), Tokens(right))
           IN  n \in Nat /\ matched \in Nat /\ matched <= n /\ n <= 2 * matched
<1> DEFINE L == Tokens(left)
           R == Tokens(right)
           n == BestPairing(L, R)
<1>1. Len(L) \in Nat /\ Len(R) \in Nat /\ IsFiniteSet(hit) /\ Cardinality(hit) = matched
      /\ word = Len(L) + 1
  BY ScoreTokens DEF ScoreInv, ScoreTypeOK
<1>2. PICK f \in Pairings(L, R) : Paired(f)
  BY DEF ScoreInv, Aligned
<1>3. /\ IsFiniteSet(f) /\ Cardinality(f) = matched /\ matched \in Nat /\ matched <= n /\ n \in Nat
  BY <1>1, <1>2, BestPairingExists DEF Paired
<1>4. PICK g \in Pairings(L, R) : IsFiniteSet(g) /\ Cardinality(g) = n
  BY <1>1, BestPairingExists
<1> DEFINE D == {e[1] : e \in f}
           A == {e \in g : e[1] \in D}
           B == {e \in g : e[2] \in hit}
<1>5. IsFiniteSet(D) /\ Cardinality(D) <= matched /\ Cardinality(D) \in Nat
  <2> DEFINE end == [e \in f |-> e[1]]
  <2>1. end \in Surjection(f, D)
    BY DEF Surjection
  <2> QED BY <1>3, <2>1, FS_Surjection, FS_CardinalityType
<1>6. \A d, e \in g : d # e => d[1] # e[1] /\ d[2] # e[2]
  BY DEF Pairings
<1>7. g \subseteq A \union B
  <2> SUFFICES ASSUME NEW e \in g PROVE e[1] \in D \/ e[2] \in hit
    OBVIOUS
  <2>1. e[1] \in 1..Len(L) /\ e[2] \in 1..Len(R) /\ WordScore(L[e[1]], R[e[2]]) >= WordMin
    BY DEF Pairings
  <2>2. e[1] \in 1..(word - 1)
    BY <1>1, <2>1
  <2> QED BY <1>2, <2>1, <2>2 DEF Paired
<1>8. IsFiniteSet(A) /\ Cardinality(A) <= Cardinality(D) /\ Cardinality(A) \in Nat
  <2> HIDE DEF D
  <2> QED BY <1>4, <1>5, <1>6, PairsOfEnds, FS_CardinalityType
<1>9. IsFiniteSet(B) /\ Cardinality(B) <= matched /\ Cardinality(B) \in Nat
  BY <1>1, <1>4, <1>6, PairsOfEnds, FS_CardinalityType
<1>10. Cardinality(g) <= Cardinality(A) + Cardinality(B)
  <2> HIDE DEF A, B
  <2>1. /\ IsFiniteSet(A \union B)
        /\ Cardinality(A \union B) = Cardinality(A) + Cardinality(B) - Cardinality(A \intersect B)
    BY <1>8, <1>9, FS_Union
  <2>2. Cardinality(g) <= Cardinality(A \union B)
    BY <1>7, <2>1, FS_Subset
  <2>3. Cardinality(A \intersect B) \in Nat
    BY <1>8, FS_Intersection, FS_CardinalityType
  <2> QED BY <1>3, <1>4, <1>8, <1>9, <2>1, <2>2, <2>3
<1> HIDE DEF A, B, D
<1> QED BY <1>3, <1>4, <1>5, <1>8, <1>9, <1>10

\* Taking the best word at once costs at most half of the best alignment, and never finds
\* more than there is (sim.go:106-132), for all titles.
THEOREM GreedyAlwaysFair == ASSUME ScoreAssumption PROVE ScoreSpec => []GreedyIsFair
<1>1. ScoreInv => GreedyIsFair
  <2> SUFFICES ASSUME ScoreInv, word > Len(Tokens(left))
               PROVE  LET n == BestPairing(Tokens(left), Tokens(right))
                      IN  matched \in ((n + 1) \div 2)..n
    BY DEF GreedyIsFair
  <2>1. ASSUME NEW n \in Nat, NEW m \in Nat, m <= n, n <= 2 * m PROVE m \in ((n + 1) \div 2)..n
    BY <2>1
  <2> QED BY <2>1, GreedyIsHalf
<1> QED BY <1>1, ScoreSound, PTL
=============================================================================
