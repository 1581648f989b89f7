--------------------------- MODULE ProcessesProofs ---------------------------
(* Several processes around one database.  First their migrations: they take   *)
(* effect once and in order, for any number of processes, migrations and        *)
(* faults.  Then their event hubs: what the clients see, for any number of       *)
(* publishers, processes, streams and events.                                   *)
EXTENDS Connection, RealtimeHub, SequenceTheorems, TLAPS

-----------------------------------------------------------------------------
(* Migrations *)


\* What a process that migrates has found: all versions before the one it looks at, and,
\* with its row inserted and not committed, that the row was not there.  Rows of one version
\* wait for one another, so nobody else has inserted it.
Found ==
    /\ \A p \in Processes : phase[p] \in Migrating => 1..(at[p] - 1) \subseteq versions
    /\ \A p \in Processes : phase[p] = "commit" => at[p] \notin versions
    /\ \A p, q \in Processes :
           phase[p] = "commit" /\ phase[q] = "commit" /\ at[p] = at[q] => p = q

ConnInv == ConnTypeOK /\ AppliedOnceInOrder /\ HandedOutMigrated /\ Found

LEMMA InitInv == ConnInit => ConnInv
BY ConnectionAssumption
   DEF ConnInit, ConnInv, ConnTypeOK, AppliedOnceInOrder, HandedOutMigrated, Found, Migrating, InTx

\* The version that is committed is the next one.
LEMMA CommitIsNext ==
    ASSUME ConnInv, NEW p \in Processes, phase[p] = "commit"
    PROVE  at[p] = Len(applied) + 1
<1>1. Len(applied) \in Nat /\ versions = 1..Len(applied)
  BY DEF ConnInv, ConnTypeOK, AppliedOnceInOrder
<1>2. at[p] \in Nat \ {0} /\ at[p] \notin versions /\ 1..(at[p] - 1) \subseteq versions
  BY DEF ConnInv, ConnTypeOK, Found, Migrating, InTx
<1>3. ~ (at[p] <= Len(applied))
  BY <1>1, <1>2
<1>4. CASE at[p] = 1
  BY <1>1, <1>3, <1>4
<1>5. CASE at[p] > 1
  <2>1. at[p] - 1 \in 1..(at[p] - 1)
    BY <1>2, <1>5
  <2> QED BY <2>1, <1>1, <1>2, <1>3
<1> QED BY <1>2, <1>4, <1>5

LEMMA DialInv == ASSUME ConnInv, NEW p \in Processes, Dial(p) PROVE ConnInv'
<1> USE DEF ConnInv, Dial, Goto
<1>1. ConnTypeOK'
  BY DEF ConnTypeOK, Migrating, InTx
<1>2. AppliedOnceInOrder' /\ HandedOutMigrated'
  BY DEF AppliedOnceInOrder, HandedOutMigrated
<1>3. Found'
  BY DEF Found, ConnTypeOK, Migrating, InTx
<1> QED BY <1>1, <1>2, <1>3

LEMMA CheckInv == ASSUME ConnInv, NEW p \in Processes, Check(p) PROVE ConnInv'
<1>1. CASE at[p] > Known[p] /\ Goto(p, "up") /\ Set(p, TRUE) /\ fails' = [fails EXCEPT ![p] = 0] /\ UNCHANGED at
  <2>1. ConnTypeOK'
    BY <1>1, ConnectionAssumption DEF ConnInv, ConnTypeOK, Check, Goto, Set, Migrating, InTx
  <2>2. 1..Known[p] \subseteq versions
    <3>1. 1..(at[p] - 1) \subseteq versions /\ Known[p] \in Nat /\ at[p] \in Nat
      BY ConnectionAssumption DEF ConnInv, ConnTypeOK, Found, Check, Migrating, InTx
    <3>2. 1..Known[p] \subseteq 1..(at[p] - 1)
      BY <3>1, <1>1
    <3> QED BY <3>1, <3>2
  <2>3. AppliedOnceInOrder' /\ HandedOutMigrated'
    BY <1>1, <2>2 DEF ConnInv, ConnTypeOK, AppliedOnceInOrder, HandedOutMigrated, Check, Set
  <2>4. Found'
    BY <1>1 DEF ConnInv, ConnTypeOK, Found, Check, Goto, Migrating, InTx
  <2> QED BY <2>1, <2>3, <2>4 DEF ConnInv
<1>2. CASE at[p] \in versions /\ at' = [at EXCEPT ![p] = @ + 1] /\ UNCHANGED <<phase, handle, ready, fails>>
  <2>1. ConnTypeOK'
    BY <1>2 DEF ConnInv, ConnTypeOK, Check
  <2>2. AppliedOnceInOrder' /\ HandedOutMigrated'
    BY <1>2 DEF ConnInv, AppliedOnceInOrder, HandedOutMigrated, Check
  <2>3. 1..(at'[p] - 1) \subseteq versions'
    <3>1. 1..(at[p] - 1) \subseteq versions /\ at[p] \in Nat \ {0} /\ at'[p] = at[p] + 1
      BY <1>2 DEF ConnInv, ConnTypeOK, Found, Check, Migrating, InTx
    <3>2. 1..at[p] = (1..(at[p] - 1)) \union {at[p]}
      BY <3>1
    <3>3. at'[p] - 1 = at[p]
      BY <3>1
    <3> QED BY <3>1, <3>2, <3>3, <1>2 DEF Check
  <2>4. Found'
    BY <1>2, <2>3 DEF ConnInv, ConnTypeOK, Found, Check, Migrating, InTx
  <2> QED BY <2>1, <2>2, <2>4 DEF ConnInv
<1>3. CASE Goto(p, "body") /\ UNCHANGED <<at, handle, ready, fails>>
  <2>1. ConnTypeOK'
    BY <1>3 DEF ConnInv, ConnTypeOK, Check, Goto, Migrating, InTx
  <2>2. AppliedOnceInOrder' /\ HandedOutMigrated'
    BY <1>3 DEF ConnInv, AppliedOnceInOrder, HandedOutMigrated, Check
  <2>3. Found'
    BY <1>3 DEF ConnInv, ConnTypeOK, Found, Check, Goto, Migrating, InTx
  <2> QED BY <2>1, <2>2, <2>3 DEF ConnInv
<1> QED BY <1>1, <1>2, <1>3 DEF Check

\* A process that gives up has nothing, and the database what it had.
LEMMA GiveUpInv ==
    ASSUME ConnInv, NEW p \in Processes, GiveUp(p), UNCHANGED Data, faults' \in 0..MaxFaults
    PROVE  ConnInv'
<1> USE DEF ConnInv, GiveUp, Goto, Set, Data
<1>1. ConnTypeOK'
  BY DEF ConnTypeOK, Migrating, InTx
<1>2. AppliedOnceInOrder' /\ HandedOutMigrated'
  BY DEF AppliedOnceInOrder, HandedOutMigrated, ConnTypeOK
<1>3. Found'
  BY DEF Found, ConnTypeOK, Migrating, InTx
<1> QED BY <1>1, <1>2, <1>3

LEMMA BodyInv == ASSUME ConnInv, NEW p \in Processes, Body(p) PROVE ConnInv'
<1>1. CASE Goto(p, "record") /\ UNCHANGED <<at, handle, ready, fails, versions, applied, faults>>
  <2>1. ConnTypeOK'
    BY <1>1 DEF ConnInv, ConnTypeOK, Goto, Migrating, InTx
  <2>2. AppliedOnceInOrder' /\ HandedOutMigrated'
    BY <1>1 DEF ConnInv, AppliedOnceInOrder, HandedOutMigrated
  <2>3. Found'
    BY <1>1 DEF ConnInv, ConnTypeOK, Found, Body, Goto, Migrating, InTx
  <2> QED BY <2>1, <2>2, <2>3 DEF ConnInv
<1>2. CASE GiveUp(p) /\ UNCHANGED <<versions, applied, faults>>
  BY <1>2, GiveUpInv DEF Data, ConnInv, ConnTypeOK
<1> QED BY <1>1, <1>2 DEF Body

LEMMA RecordInv == ASSUME ConnInv, NEW p \in Processes, Record(p) PROVE ConnInv'
<1>1. CASE /\ at[p] \notin versions /\ Goto(p, "commit")
           /\ UNCHANGED <<at, handle, ready, fails, versions, applied, faults>>
  <2>1. ConnTypeOK'
    BY <1>1 DEF ConnInv, ConnTypeOK, Goto, Migrating, InTx
  <2>2. AppliedOnceInOrder' /\ HandedOutMigrated'
    BY <1>1 DEF ConnInv, AppliedOnceInOrder, HandedOutMigrated
  <2>3. Found'
    BY <1>1 DEF ConnInv, ConnTypeOK, Found, Record, RowFree, Goto, Migrating, InTx
  <2> QED BY <2>1, <2>2, <2>3 DEF ConnInv
<1>2. CASE GiveUp(p) /\ UNCHANGED <<versions, applied, faults>>
  BY <1>2, GiveUpInv DEF Data, ConnInv, ConnTypeOK
<1> QED BY <1>1, <1>2 DEF Record

LEMMA CommitInv == ASSUME ConnInv, NEW p \in Processes, Commit(p) PROVE ConnInv'
<1> DEFINE n == Len(applied)
<1>1. phase[p] = "commit" /\ at[p] = n + 1 /\ n \in Nat
  BY CommitIsNext DEF Commit, ConnInv, ConnTypeOK
<1>2. versions' = versions \union {at[p]} /\ applied' = Append(applied, n + 1)
  BY <1>1 DEF Commit
<1>3. /\ applied \in Seq(Nat) /\ applied' \in Seq(Nat) /\ Len(applied') = n + 1
      /\ \A k \in 1..n : applied'[k] = applied[k]
      /\ applied'[n + 1] = n + 1
  BY <1>1, <1>2 DEF ConnInv, ConnTypeOK
<1>4. AppliedOnceInOrder'
  <2>1. versions = 1..n /\ \A k \in 1..n : applied[k] = k
    BY DEF ConnInv, AppliedOnceInOrder
  <2>2. 1..(n + 1) = (1..n) \union {n + 1}
    BY <1>1
  <2> QED BY <2>1, <2>2, <1>1, <1>2, <1>3 DEF AppliedOnceInOrder
<1>5. \A q \in Processes : 1..(at[q] - 1) \subseteq versions => 1..(at[q] - 1) \subseteq versions'
  BY <1>2
<1>6. 1..at[p] \subseteq versions'
  <2>1. versions' = 1..(n + 1)
    BY <1>4, <1>3 DEF AppliedOnceInOrder
  <2> QED BY <2>1, <1>1
<1>7. versions' \subseteq Nat \ {0}
  BY <1>1, <1>2 DEF ConnInv, ConnTypeOK
<1>8. CASE /\ Goto(p, "check") /\ at' = [at EXCEPT ![p] = @ + 1]
           /\ UNCHANGED <<handle, ready, fails, faults>>
  <2>1. ConnTypeOK'
    BY <1>8, <1>3, <1>7 DEF ConnInv, ConnTypeOK, Goto, Migrating, InTx
  <2>2. HandedOutMigrated'
    BY <1>8, <1>2 DEF ConnInv, HandedOutMigrated
  <2>3. at[p] \in Nat /\ at'[p] - 1 = at[p]
    BY <1>8 DEF ConnInv, ConnTypeOK
  <2>4. \A q \in Processes : phase'[q] \in Migrating => 1..(at'[q] - 1) \subseteq versions'
    BY <1>8, <1>5, <1>6, <2>3 DEF ConnInv, ConnTypeOK, Found, Goto
  <2>5. \A q \in Processes : phase'[q] = "commit" => at'[q] \notin versions'
    BY <1>8, <1>1, <1>2 DEF ConnInv, ConnTypeOK, Found, Goto
  <2>6. Found'
    BY <1>8, <2>4, <2>5 DEF ConnInv, ConnTypeOK, Found, Goto
  <2> QED BY <2>1, <2>2, <2>6, <1>4 DEF ConnInv
<1>9. CASE Fault /\ GiveUp(p)
  <2>1. ConnTypeOK'
    <3>1. faults' \in 0..MaxFaults
      BY <1>9, ConnectionAssumption DEF ConnInv, ConnTypeOK, Fault
    <3>2. at' = at /\ fails' = fails
      BY <1>9 DEF GiveUp
    <3>3. phase' \in [Processes -> {"dial", "up"} \union Migrating]
      BY <1>9 DEF ConnInv, ConnTypeOK, GiveUp, Goto
    <3>4. handle' \in [Processes -> BOOLEAN] /\ ready' \in [Processes -> BOOLEAN]
      BY <1>9 DEF ConnInv, ConnTypeOK, GiveUp, Set
    <3>5. applied' \in Seq(Nat) /\ versions' \subseteq Nat \ {0}
      BY <1>3, <1>7
    <3> QED BY <3>1, <3>2, <3>3, <3>4, <3>5 DEF ConnInv, ConnTypeOK
  <2>2. HandedOutMigrated'
    BY <1>9, <1>2 DEF ConnInv, ConnTypeOK, HandedOutMigrated, GiveUp, Set
  <2>3. \A q \in Processes : phase'[q] \in Migrating => 1..(at'[q] - 1) \subseteq versions'
    BY <1>9, <1>5 DEF ConnInv, ConnTypeOK, Found, GiveUp, Goto, Migrating, InTx
  <2>4. \A q \in Processes : phase'[q] = "commit" => at'[q] \notin versions'
    BY <1>9, <1>1, <1>2 DEF ConnInv, ConnTypeOK, Found, GiveUp, Goto
  <2>5. Found'
    BY <1>9, <2>3, <2>4 DEF ConnInv, ConnTypeOK, Found, GiveUp, Goto
  <2> QED BY <2>1, <2>2, <2>5, <1>4 DEF ConnInv
<1> QED BY <1>8, <1>9 DEF Commit

LEMMA UpInv == ASSUME ConnInv, NEW p \in Processes, Ping(p) \/ PingFails(p) \/ Restart(p) PROVE ConnInv'
<1>1. UNCHANGED Data /\ UNCHANGED at
  BY DEF Ping, PingFails, Restart, Data
<1>2. \A q \in Processes : phase'[q] \in Migrating => phase'[q] = phase[q]
  BY DEF ConnInv, ConnTypeOK, Ping, PingFails, Restart, Goto, Migrating, InTx
<1>3. \A q \in Processes : handle'[q] => handle[q]
  BY DEF ConnInv, ConnTypeOK, Ping, PingFails, Restart, Set
<1>4. ConnTypeOK'
  <2>1. CASE Ping(p)
    BY <2>1, ConnectionAssumption DEF ConnInv, ConnTypeOK, Ping
  <2>2. CASE PingFails(p)
    <3>1. faults' \in 0..MaxFaults /\ UNCHANGED Data
      BY <2>2, ConnectionAssumption DEF ConnInv, ConnTypeOK, PingFails, Fault
    <3>2. CASE fails[p] + 1 >= FailLimit
      BY <2>2, <3>1, <3>2 DEF ConnInv, ConnTypeOK, PingFails, Goto, Set, Data
    <3>3. CASE ~ (fails[p] + 1 >= FailLimit)
      <4>1. fails' = [fails EXCEPT ![p] = @ + 1] /\ UNCHANGED <<phase, at, handle, ready>>
        BY <2>2, <3>3 DEF PingFails
      <4>2. fails[p] + 1 \in 0..(FailLimit - 1)
        BY <3>3, ConnectionAssumption DEF ConnInv, ConnTypeOK
      <4>3. fails' \in [Processes -> 0..(FailLimit - 1)]
        BY <4>1, <4>2 DEF ConnInv, ConnTypeOK
      <4> QED BY <3>1, <4>1, <4>3 DEF ConnInv, ConnTypeOK, Data
    <3> QED BY <3>2, <3>3
  <2>3. CASE Restart(p)
    BY <2>3, ConnectionAssumption DEF ConnInv, ConnTypeOK, Restart, Fault, Goto, Set
  <2> QED BY <2>1, <2>2, <2>3
<1>5. AppliedOnceInOrder' /\ HandedOutMigrated'
  BY <1>1, <1>3 DEF ConnInv, AppliedOnceInOrder, HandedOutMigrated, Data
<1>6. Found'
  BY <1>1, <1>2 DEF ConnInv, Found, Data, Migrating, InTx
<1> QED BY <1>4, <1>5, <1>6 DEF ConnInv

LEMMA StepInv == ConnInv /\ [ConnNext]_connVars => ConnInv'
<1> SUFFICES ASSUME ConnInv, [ConnNext]_connVars PROVE ConnInv'
  OBVIOUS
<1>1. CASE UNCHANGED connVars
  BY <1>1 DEF connVars, ConnInv, ConnTypeOK, AppliedOnceInOrder, HandedOutMigrated, Found
<1>2. CASE ConnNext
  <2>1. PICK p \in Processes : RunStep(p) \/ ConnectFails(p) \/ Ping(p) \/ PingFails(p) \/ Restart(p)
    BY <1>2 DEF ConnNext
  <2>2. CASE RunStep(p)
    BY <2>2, DialInv, CheckInv, BodyInv, RecordInv, CommitInv DEF RunStep
  <2>3. CASE ConnectFails(p)
    <3>1. GiveUp(p) /\ UNCHANGED Data
      BY <2>3 DEF ConnectFails
    <3>2. faults' \in 0..MaxFaults
      BY <2>3, ConnectionAssumption DEF ConnectFails, Fault, ConnInv, ConnTypeOK
    <3> QED BY <3>1, <3>2, GiveUpInv
  <2>4. CASE Ping(p) \/ PingFails(p) \/ Restart(p)
    BY <2>4, UpInv
  <2> QED BY <2>1, <2>2, <2>3, <2>4
<1> QED BY <1>1, <1>2

-----------------------------------------------------------------------------
\* The domains of the connection's state.
THEOREM ConnTypeCorrect == ConnSpec => []ConnTypeOK
<1>1. ConnInv => ConnTypeOK
  BY DEF ConnInv
<1> QED BY <1>1, InitInv, StepInv, PTL DEF ConnSpec

\* Migrations run once and in order, whoever starts when and fails where.
THEOREM MigratedOnceInOrder == ConnSpec => []AppliedOnceInOrder
<1>1. ConnInv => AppliedOnceInOrder
  BY DEF ConnInv
<1> QED BY <1>1, InitInv, StepInv, PTL DEF ConnSpec

\* A pool that is handed out leads to a migrated database.
THEOREM AlwaysHandedOutMigrated == ConnSpec => []HandedOutMigrated
<1>1. ConnInv => HandedOutMigrated
  BY DEF ConnInv
<1> QED BY <1>1, InitInv, StepInv, PTL DEF ConnSpec

-----------------------------------------------------------------------------
(* The event hub: sequences of events *)

\* The events of K of one publisher in the sequence, or in S and then e, are in order; b
\* says who has published them.
Rises(b, K, q) ==
    \A i, j \in DOMAIN q : i < j /\ {q[i], q[j]} \subseteq K /\ b[q[i]] = b[q[j]] => q[i] < q[j]
Below(b, K, S, e) == e \in K => \A x \in S \intersect K : b[x] = b[e] => x < e

LEMMA AppendSet ==
    ASSUME NEW S, NEW q \in Seq(S), NEW e \in S
    PROVE  /\ Append(q, e) \in Seq(S) /\ Append(q, e) # <<>>
           /\ Len(Append(q, e)) = Len(q) + 1
           /\ ToSet(Append(q, e)) = ToSet(q) \union {e}
<1>1. /\ Append(q, e) \in Seq(S) /\ Len(q) \in Nat /\ Len(Append(q, e)) = Len(q) + 1
      /\ DOMAIN q = 1..Len(q) /\ DOMAIN Append(q, e) = 1..(Len(q) + 1)
      /\ \A i \in 1..Len(q) : Append(q, e)[i] = q[i]
      /\ Append(q, e)[Len(q) + 1] = e
  OBVIOUS
<1>2. \A x : x \in ToSet(Append(q, e)) <=> \E i \in 1..(Len(q) + 1) : x = Append(q, e)[i]
  BY <1>1 DEF ToSet
<1>3. \A x : x \in ToSet(q) <=> \E i \in 1..Len(q) : x = q[i]
  BY <1>1 DEF ToSet
<1> HIDE DEF ToSet
<1>4. \A i \in 1..(Len(q) + 1) : i \in 1..Len(q) \/ i = Len(q) + 1
  BY <1>1
<1>5. \A i \in 1..Len(q) : i \in 1..(Len(q) + 1)
  BY <1>1
<1>6. Len(q) + 1 \in 1..(Len(q) + 1)
  BY <1>1
<1>7. \A x : x \in ToSet(Append(q, e)) <=> x \in ToSet(q) \/ x = e
  BY <1>1, <1>2, <1>3, <1>4, <1>5, <1>6
<1>8. Append(q, e) # <<>>
  BY <1>1
<1> QED BY <1>1, <1>7, <1>8

LEMMA TailSet ==
    ASSUME NEW S, NEW q \in Seq(S), q # <<>>
    PROVE  /\ Head(q) \in S /\ Tail(q) \in Seq(S) /\ Len(Tail(q)) < Len(q)
           /\ Head(q) \in ToSet(q) /\ ToSet(Tail(q)) \subseteq ToSet(q)
<1>1. /\ Head(q) \in S /\ Tail(q) \in Seq(S) /\ Len(Tail(q)) = Len(q) - 1
      /\ Len(q) \in Nat \ {0}
      /\ DOMAIN q = 1..Len(q) /\ DOMAIN Tail(q) = 1..(Len(q) - 1)
      /\ \A i \in 1..(Len(q) - 1) : Tail(q)[i] = q[i + 1]
      /\ Head(q) = q[1]
  BY HeadTailProperties, LenProperties, EmptySeq
<1>2. Head(q) \in ToSet(q)
  BY <1>1 DEF ToSet
<1>3. ASSUME NEW x \in ToSet(Tail(q)) PROVE x \in ToSet(q)
  <2>1. PICK i \in 1..(Len(q) - 1) : x = q[i + 1]
    BY <1>1, <1>3 DEF ToSet
  <2>2. i + 1 \in DOMAIN q
    BY <1>1, <2>1
  <2> QED BY <2>1, <2>2 DEF ToSet
<1> QED BY <1>1, <1>2, <1>3

LEMMA RisesAppend ==
    ASSUME NEW S, NEW b, NEW K, NEW q \in Seq(S), NEW e \in S, Rises(b, K, q), Below(b, K, ToSet(q), e)
    PROVE  Rises(b, K, Append(q, e))
<1>1. /\ Len(q) \in Nat /\ DOMAIN q = 1..Len(q) /\ DOMAIN Append(q, e) = 1..(Len(q) + 1)
      /\ \A i \in 1..Len(q) : Append(q, e)[i] = q[i]
      /\ Append(q, e)[Len(q) + 1] = e
  OBVIOUS
<1>2. \A i \in 1..Len(q) : {q[i], e} \subseteq K /\ b[q[i]] = b[e] => q[i] < e
  BY <1>1 DEF Below, ToSet
<1>3. ASSUME NEW i \in 1..(Len(q) + 1), NEW j \in 1..(Len(q) + 1), i < j,
             {Append(q, e)[i], Append(q, e)[j]} \subseteq K, b[Append(q, e)[i]] = b[Append(q, e)[j]]
      PROVE  Append(q, e)[i] < Append(q, e)[j]
  <2>1. i \in 1..Len(q) /\ (j \in 1..Len(q) \/ j = Len(q) + 1)
    BY <1>1, <1>3
  <2> QED BY <1>1, <1>2, <1>3, <2>1 DEF Rises
<1> QED BY <1>1, <1>3 DEF Rises

LEMMA RisesTail ==
    ASSUME NEW S, NEW b, NEW K, NEW q \in Seq(S), q # <<>>, Rises(b, K, q)
    PROVE  /\ Rises(b, K, Tail(q))
           /\ \A x \in ToSet(Tail(q)) : {Head(q), x} \subseteq K /\ b[Head(q)] = b[x] => Head(q) < x
<1>1. /\ Len(q) \in Nat \ {0}
      /\ DOMAIN q = 1..Len(q) /\ DOMAIN Tail(q) = 1..(Len(q) - 1)
      /\ \A i \in 1..(Len(q) - 1) : Tail(q)[i] = q[i + 1]
      /\ Head(q) = q[1]
  BY HeadTailProperties, LenProperties, EmptySeq
<1>2. ASSUME NEW i \in 1..(Len(q) - 1), NEW j \in 1..(Len(q) - 1), i < j,
             {Tail(q)[i], Tail(q)[j]} \subseteq K, b[Tail(q)[i]] = b[Tail(q)[j]]
      PROVE  Tail(q)[i] < Tail(q)[j]
  <2>1. i + 1 \in 1..Len(q) /\ j + 1 \in 1..Len(q) /\ i + 1 < j + 1
    BY <1>1, <1>2
  <2> QED BY <1>1, <1>2, <2>1 DEF Rises
<1>3. ASSUME NEW x \in ToSet(Tail(q)), {Head(q), x} \subseteq K, b[Head(q)] = b[x] PROVE Head(q) < x
  <2>1. PICK i \in 1..(Len(q) - 1) : x = q[i + 1]
    BY <1>1, <1>3 DEF ToSet
  <2>2. i + 1 \in 1..Len(q) /\ 1 \in 1..Len(q) /\ 1 < i + 1
    BY <1>1, <2>1
  <2> QED BY <1>1, <1>3, <2>1, <2>2 DEF Rises
<1> QED BY <1>1, <1>2, <1>3 DEF Rises

-----------------------------------------------------------------------------
(* The event hub: types, and streams that are not silenced *)

\* Where a broadcast is: it sends to a stream of its process that it has taken off its list.
Routed ==
    /\ todo \in [Threads -> SUBSET Streams]
    /\ sending \in [Threads -> {None} \union (Streams \X {2, 3})]
    /\ \A t \in Threads : sending[t] # None =>
           Home[sending[t][1]] = HomeOf(t) /\ sending[t][1] \notin todo[t]

\* The thread has still to send its event to the stream, or is at it.
Carries(t, s) == s \in todo[t] \/ (sending[t] # None /\ sending[t][1] = s)

\* Everything that is on its way has been published.
Received(s) == ToSet(seen[s]) \union ToSet(chan[s])
Published ==
    /\ \A s \in Streams : Received(s) \subseteq 1..Len(by)
    /\ \A p \in Procs : ToSet(wire[p]) \subseteq 1..Len(by)
    /\ \A t \in Threads : event[t] # Idle => event[t] \in 1..Len(by)
    /\ unsure \subseteq 1..Len(by)

HubShape == HubTypeOK /\ Routed /\ NeverSilenced

LEMMA ToSetEmpty == ToSet(<<>>) = {}
BY DEF ToSet

LEMMA HubInitShape == HubInit => HubShape /\ Published
<1> SUFFICES ASSUME HubInit PROVE HubShape /\ Published
  OBVIOUS
<1> USE HubAssumption DEF HubInit
<1>1. HubTypeOK
  BY DEF HubTypeOK
<1>2. Routed /\ NeverSilenced
  BY DEF Routed, NeverSilenced
<1>3. Published
  BY ToSetEmpty DEF Published, Received
<1> QED BY <1>1, <1>2, <1>3 DEF HubShape

LEMMA StreamsKeepShape ==
    ASSUME HubShape, NEW s \in Streams, Subscribe(s) \/ Unsubscribe(s) \/ Receive(s)
    PROVE  HubShape'
<1> USE DEF HubShape, thread, redis
<1>1. UNCHANGED <<by, event, todo, sending, redis>>
  BY DEF Subscribe, Unsubscribe, Receive
<1>2. CASE Subscribe(s) \/ Unsubscribe(s)
  <2>1. HubTypeOK'
    BY <1>2 DEF Subscribe, Unsubscribe, HubTypeOK
  <2>2. Routed' /\ NeverSilenced'
    BY <1>2 DEF Subscribe, Unsubscribe, Routed, NeverSilenced, SendingTo
  <2> QED BY <2>1, <2>2
<1>3. CASE Receive(s)
  <2>1. /\ chan \in [Streams -> Seq(Events)] /\ seen \in [Streams -> Seq(Events)]
        /\ chan[s] \in Seq(Events) /\ chan[s] # <<>> /\ seen[s] \in Seq(Events)
    BY <1>3 DEF Receive, HubTypeOK
  <2>2. Head(chan[s]) \in Events /\ Tail(chan[s]) \in Seq(Events)
        /\ Len(Tail(chan[s])) < Len(chan[s]) /\ Len(chan[s]) \in Nat /\ Len(Tail(chan[s])) \in Nat
    BY <2>1, TailSet, LenProperties
  <2>3. Append(seen[s], Head(chan[s])) \in Seq(Events)
    BY <2>1, <2>2
  <2>4. chan' = [chan EXCEPT ![s] = Tail(chan[s])]
        /\ seen' \in {seen, [seen EXCEPT ![s] = Append(seen[s], Head(chan[s]))]}
        /\ owed' = owed \ {s} /\ UNCHANGED <<subs, closed>>
    BY <1>3 DEF Receive
  <2>5. chan' \in [Streams -> Seq(Events)] /\ seen' \in [Streams -> Seq(Events)]
    BY <2>1, <2>2, <2>3, <2>4
  <2>6. \A x \in Streams : Len(chan'[x]) <= Buffer
    <3>1. Len(chan[s]) <= Buffer /\ Buffer \in Nat
      BY HubAssumption DEF HubTypeOK
    <3>2. Len(Tail(chan[s])) <= Buffer
      BY <2>2, <3>1
    <3> QED BY <2>1, <2>4, <3>2 DEF HubTypeOK
  <2>7. HubTypeOK'
    BY <1>1, <2>4, <2>5, <2>6 DEF HubTypeOK
  <2>8. Routed' /\ NeverSilenced'
    BY <1>1, <2>1, <2>4 DEF Routed, NeverSilenced, SendingTo
  <2> QED BY <2>7, <2>8
<1> QED BY <1>2, <1>3

\* A broadcast begins: a publisher has an event, or a listener takes one or skips it.
LEMMA BeginsKeepShape ==
    ASSUME HubShape, NEW t \in Threads,
           (t \in Publishers /\ Publish(t)) \/ (t \in Procs /\ Consume(t))
    PROVE  HubShape'
<1> USE DEF HubShape, streams, redis
<1>1. by \in Seq(Publishers) /\ Len(by) \in Nat /\ HomeOf(t) \in Procs
  BY HubAssumption, LenProperties DEF HubTypeOK, HomeOf, Threads
<1>2. /\ by' \in Seq(Publishers) /\ Len(by') <= MaxEvents
      /\ event[t] = Idle /\ event'[t] \in Events \union {Idle}
      /\ event' = [event EXCEPT ![t] = event'[t]]
      /\ \/ event' = event /\ todo' = todo
         \/ event'[t] # Idle /\ todo' = [todo EXCEPT ![t] = subs \intersect StreamsAt(HomeOf(t))]
      /\ UNCHANGED <<subs, closed, chan, seen, sending, unanswered, unsure, lost, owed>>
      /\ wire' \in [Procs -> Seq(Events)]
  <2>1. CASE t \in Publishers /\ Publish(t)
    BY <1>1, <2>1, HubAssumption DEF Publish, Broadcast, HubTypeOK, Events, Idle
  <2>2. CASE t \in Procs /\ Consume(t)
    <3>1. wire[t] \in Seq(Events) /\ wire[t] # <<>> /\ event \in [Threads -> Events \union {Idle}]
      BY <2>2 DEF Consume, HubTypeOK
    <3>2. Head(wire[t]) \in Events /\ Tail(wire[t]) \in Seq(Events)
      BY <3>1, TailSet
    <3>3. wire' \in [Procs -> Seq(Events)]
      BY <2>2, <3>2 DEF Consume, HubTypeOK
    <3>4. CASE Home[by[Head(wire[t])]] = t
      BY <2>2, <3>1, <3>3, <3>4 DEF Consume, HubTypeOK
    <3>5. CASE Broadcast(t, Head(wire[t]))
      <4>1. Idle \notin Events
        BY DEF Events, Idle
      <4> QED BY <2>2, <3>1, <3>2, <3>3, <3>5, <4>1 DEF Consume, Broadcast, HubTypeOK
    <3> QED BY <2>2, <3>4, <3>5 DEF Consume
  <2> QED BY <2>1, <2>2
<1>3. HubTypeOK'
  <2>1. event' \in [Threads -> Events \union {Idle}]
    BY <1>2 DEF HubTypeOK
  <2>2. \A u \in Threads : /\ todo'[u] \subseteq StreamsAt(HomeOf(u))
                           /\ event'[u] = Idle => todo'[u] = {} /\ sending'[u] = None
    BY <1>2 DEF HubTypeOK, Routed
  <2> QED BY <1>2, <2>1, <2>2 DEF HubTypeOK
<1>4. Routed'
  <2>1. sending[t] = None
    BY <1>2 DEF HubTypeOK
  <2> QED BY <1>2, <2>1 DEF Routed, StreamsAt
<1>5. NeverSilenced'
  BY <1>2 DEF NeverSilenced, SendingTo
<1> QED BY <1>3, <1>4, <1>5

LEMMA NotNone == \A s : /\ <<s, 2>> # None /\ <<s, 3>> # None
                       /\ <<s, 2>>[1] = s /\ <<s, 3>>[1] = s
BY DEF None

\* What a step of sendLatest may do: it puts the event into the buffer, takes the oldest out
\* of it or leaves it alone, and whoever finds no room leaves a buffer that is not empty.
SendStep(t, s) ==
    /\ UNCHANGED <<subs, closed, seen, by, event, redis>>
    /\ event[t] \in Events /\ Carries(t, s) /\ Home[s] = HomeOf(t)
    /\ sending[t] = None \/ sending[t][1] = s
    /\ chan' \in [Streams -> Seq(Events)] /\ Len(chan'[s]) <= Buffer
    /\ \A x \in Streams \ {s} : chan'[x] = chan[x]
    /\ todo' \in [Threads -> SUBSET Streams] /\ todo'[t] = todo[t] \ {s}
    /\ sending' \in [Threads -> {None} \union (Streams \X {2, 3})]
    /\ sending'[t] \in {None, <<s, 2>>, <<s, 3>>}
    /\ \A u \in Threads \ {t} : todo'[u] = todo[u] /\ sending'[u] = sending[u]
    /\ owed' = IF sending'[t] = None THEN owed \union {s} ELSE owed
    /\ sending'[t] = None => chan'[s] # <<>>
    /\ \/ chan'[s] = Append(chan[s], event[t]) /\ sending'[t] = None
       \/ chan[s] # <<>> /\ chan'[s] = Tail(chan[s])
       \/ chan'[s] = chan[s]

LEMMA SendSteps ==
    ASSUME HubTypeOK, Routed, NEW t \in Threads, NEW s \in Streams,
           TrySend(t, s) \/ DropOldest(t, s) \/ SendOrLose(t, s)
    PROVE  SendStep(t, s)
<1> USE DEF Select
<1>1. /\ chan \in [Streams -> Seq(Events)] /\ chan[s] \in Seq(Events) /\ Len(chan[s]) \in Nat
      /\ Buffer \in Nat \ {0} /\ Len(chan[s]) <= Buffer
      /\ todo \in [Threads -> SUBSET Streams]
      /\ sending \in [Threads -> {None} \union (Streams \X {2, 3})]
  BY HubAssumption, LenProperties DEF HubTypeOK, Routed
<1>2. Carries(t, s) /\ (sending[t] = None \/ sending[t][1] = s)
  <2>1. CASE TrySend(t, s)
    BY <2>1 DEF TrySend, Carries
  <2>2. CASE DropOldest(t, s) \/ SendOrLose(t, s)
    <3>1. sending[t] = <<s, 2>> \/ sending[t] = <<s, 3>>
      BY <2>2 DEF DropOldest, SendOrLose
    <3>2. sending[t] # None /\ sending[t][1] = s
      BY <3>1, NotNone
    <3> QED BY <3>2 DEF Carries
  <2> QED BY <2>1, <2>2
<1>3. Home[s] = HomeOf(t)
  BY <1>2 DEF Carries, Routed, HubTypeOK, StreamsAt
<1>4. event[t] \in Events
  BY <1>2 DEF Carries, HubTypeOK
<1>5. /\ Append(chan[s], event[t]) \in Seq(Events) /\ Append(chan[s], event[t]) # <<>>
      /\ Len(Append(chan[s], event[t])) = Len(chan[s]) + 1
  BY <1>1, <1>4, AppendSet
<1>6. chan[s] # <<>> => /\ Tail(chan[s]) \in Seq(Events)
                        /\ Len(Tail(chan[s])) \in Nat /\ Len(Tail(chan[s])) < Len(chan[s])
  BY <1>1, TailSet, LenProperties
<1>7. ~ HasRoom(s) => chan[s] # <<>>
  <2>1. Len(<<>>) = 0
    OBVIOUS
  <2> QED BY <1>1, <2>1 DEF HasRoom
<1>8. HasRoom(s) => Len(chan[s]) + 1 <= Buffer
  BY <1>1 DEF HasRoom
<1>9. CASE TrySend(t, s)
  <2>1. /\ todo' \in [Threads -> SUBSET Streams] /\ todo'[t] = todo[t] \ {s}
        /\ \A u \in Threads \ {t} : todo'[u] = todo[u]
    BY <1>1, <1>9 DEF TrySend
  <2>2. CASE HasRoom(s)
    <3>1. /\ chan' = [chan EXCEPT ![s] = Append(chan[s], event[t])]
          /\ sending' = [sending EXCEPT ![t] = None] /\ owed' = owed \union {s}
      BY <1>9, <2>2 DEF TrySend, Put, Sent
    <3>2. /\ chan' \in [Streams -> Seq(Events)] /\ chan'[s] = Append(chan[s], event[t])
          /\ \A x \in Streams \ {s} : chan'[x] = chan[x]
      BY <1>1, <1>5, <3>1
    <3>3. Len(chan'[s]) <= Buffer
      BY <1>5, <1>8, <2>2, <3>2
    <3>4. /\ sending' \in [Threads -> {None} \union (Streams \X {2, 3})] /\ sending'[t] = None
          /\ \A u \in Threads \ {t} : sending'[u] = sending[u]
      BY <1>1, <3>1
    <3> QED BY <1>2, <1>3, <1>4, <1>5, <1>9, <2>1, <3>1, <3>2, <3>3, <3>4 DEF TrySend, SendStep
  <2>3. CASE ~ HasRoom(s)
    <3>1. sending' = [sending EXCEPT ![t] = <<s, 2>>] /\ UNCHANGED <<chan, owed>>
      BY <1>9, <2>3 DEF TrySend
    <3>2. /\ sending' \in [Threads -> {None} \union (Streams \X {2, 3})]
          /\ sending'[t] = <<s, 2>> /\ \A u \in Threads \ {t} : sending'[u] = sending[u]
      BY <1>1, <3>1
    <3> QED BY <1>1, <1>2, <1>3, <1>4, <1>9, <2>1, <3>1, <3>2, NotNone DEF TrySend, SendStep
  <2> QED BY <2>2, <2>3
<1>10. CASE DropOldest(t, s)
  <2>1. s \notin todo[t] /\ UNCHANGED <<todo, owed>>
    BY <1>10, NotNone DEF DropOldest, Routed
  <2>2. /\ sending' \in [Threads -> {None} \union (Streams \X {2, 3})]
        /\ sending'[t] = <<s, 3>> /\ \A u \in Threads \ {t} : sending'[u] = sending[u]
    BY <1>1, <1>10 DEF DropOldest
  <2>3. todo'[t] = todo[t] \ {s}
    BY <1>1, <2>1
  <2>4. /\ chan' \in [Streams -> Seq(Events)] /\ \A x \in Streams \ {s} : chan'[x] = chan[x]
        /\ \/ chan[s] # <<>> /\ chan'[s] = Tail(chan[s])
           \/ chan'[s] = chan[s]
    BY <1>1, <1>6, <1>10 DEF DropOldest
  <2>5. Len(chan'[s]) <= Buffer
    BY <1>1, <1>6, <2>4
  <2> QED BY <1>1, <1>2, <1>3, <1>4, <1>10, <2>1, <2>4, <2>5, <2>2, <2>3, NotNone
         DEF DropOldest, SendStep
<1>11. CASE SendOrLose(t, s)
  <2>1. s \notin todo[t] /\ todo' = todo
    BY <1>11, NotNone DEF SendOrLose, Routed
  <2> QED BY <1>1, <1>2, <1>3, <1>4, <1>5, <1>7, <1>8, <1>11, <2>1 DEF SendOrLose, Put, Sent, SendStep
<1> QED BY <1>9, <1>10, <1>11

LEMMA SendsKeepShape ==
    ASSUME HubShape, NEW t \in Threads, NEW s \in Streams, SendStep(t, s)
    PROVE  HubShape'
<1> USE DEF HubShape, SendStep, redis
<1>1. HubTypeOK'
  <2>1. \A x \in Streams : Len(chan'[x]) <= Buffer
    BY DEF HubTypeOK
  <2>2. owed' \subseteq Streams
    BY DEF HubTypeOK
  <2>3. event[t] # Idle
    BY DEF Events, Idle
  <2>4. \A u \in Threads : /\ todo'[u] \subseteq StreamsAt(HomeOf(u))
                           /\ event'[u] = Idle => todo'[u] = {} /\ sending'[u] = None
    BY <2>3 DEF HubTypeOK
  <2> QED BY <2>1, <2>2, <2>4 DEF HubTypeOK
<1>2. Routed'
  <2>1. ASSUME NEW u \in Threads, sending'[u] # None
        PROVE  Home[sending'[u][1]] = HomeOf(u) /\ sending'[u][1] \notin todo'[u]
    <3>1. CASE u = t
      BY <2>1, <3>1
    <3>2. CASE u # t
      BY <2>1, <3>2 DEF Routed
    <3> QED BY <3>1, <3>2
  <2> QED BY <2>1 DEF Routed
<1>3. NeverSilenced'
  <2> SUFFICES ASSUME NEW x \in owed', SendingTo(x)' = {} PROVE chan'[x] # <<>>
    BY DEF NeverSilenced
  <2>1. x \in Streams
    BY DEF HubTypeOK
  <2>2. CASE x = s
    <3>1. sending'[t] # None => sending'[t][1] = s
      OBVIOUS
    <3>2. sending'[t] = None
      BY <2>2, <3>1 DEF SendingTo
    <3> QED BY <2>2, <3>2
  <2>3. CASE x # s
    <3>1. x \in owed /\ chan'[x] = chan[x]
      BY <2>1, <2>3
    <3>2. SendingTo(x) = {}
      <4>1. ASSUME NEW u \in Threads, sending[u] # None, sending[u][1] = x PROVE FALSE
        <5>1. u # t
          BY <2>3, <4>1
        <5>2. sending'[u] = sending[u]
          BY <5>1
        <5> QED BY <4>1, <5>2 DEF SendingTo
      <4> QED BY <4>1 DEF SendingTo
    <3> QED BY <3>1, <3>2 DEF NeverSilenced
  <2> QED BY <2>2, <2>3
<1> QED BY <1>1, <1>2, <1>3

LEMMA OnAllWiresType ==
    ASSUME HubTypeOK, NEW e \in Events, OnAllWires(e)
    PROVE  wire' \in [Procs -> Seq(Events)]
<1>1. \A p \in Procs : Append(wire[p], e) \in Seq(Events)
  BY AppendSet DEF HubTypeOK
<1> QED BY <1>1 DEF OnAllWires

\* Redis executes a PUBLISH, or does not answer one, or loses events on their way.
LEMMA RedisKeepsShape ==
    ASSUME HubShape,
           \/ \E t \in Publishers : LoseReply(t)
           \/ \E c \in unanswered : Execute(c)
           \/ \E p \in Procs : Dropped(p)
    PROVE  HubShape'
<1> USE DEF HubShape, streams, thread
<1> DEFINE RedisStep ==
        /\ UNCHANGED <<streams, by, thread, owed>> /\ wire' \in [Procs -> Seq(Events)]
        /\ lost' \in 0..MaxLost /\ unsure' \subseteq Events
        /\ unanswered' \subseteq unsure' \X (1..lost')
<1>1. RedisStep
  <2>1. CASE \E p \in Procs : Dropped(p)
    BY <2>1 DEF Dropped, HubTypeOK
  <2>2. ASSUME NEW t \in Publishers, LoseReply(t) PROVE RedisStep
    <3>1. /\ lost' = lost + 1 /\ lost < MaxLost /\ lost \in Nat /\ MaxLost \in Nat
          /\ unsure' = unsure \union {event[t]} /\ UNCHANGED <<streams, by, thread, wire, owed>>
          /\ unanswered' = unanswered \union {<<event[t], lost + 1>>}
      BY <2>2, HubAssumption DEF LoseReply, HubTypeOK
    <3>2. event[t] \in Events
      BY <2>2 DEF LoseReply, Broadcasted, HubTypeOK, Threads
    <3>3. unsure \X (1..lost) \subseteq unsure' \X (1..lost') /\ lost + 1 \in 1..lost'
      BY <3>1
    <3>4. unanswered' \subseteq unsure' \X (1..lost')
      BY <3>1, <3>3 DEF HubTypeOK
    <3> QED BY <3>1, <3>2, <3>4 DEF HubTypeOK
  <2>3. ASSUME NEW c \in unanswered, Execute(c) PROVE RedisStep
    <3>1. c[1] \in Events /\ OnAllWires(c[1])
      BY <2>3 DEF Execute, HubTypeOK
    <3> QED BY <2>3, <3>1, OnAllWiresType DEF Execute, HubTypeOK
  <2> QED BY <2>1, <2>2, <2>3
<1> QED BY <1>1 DEF HubTypeOK, Routed, NeverSilenced, SendingTo

\* A broadcast ends, and Redis has its event or has not.
LEMMA EndsKeepShape ==
    ASSUME HubShape, \E t \in Threads : Finish(t)
    PROVE  HubShape'
<1> USE DEF HubShape, streams, thread
<1>1. ASSUME NEW t \in Threads, Finish(t) PROVE HubShape'
  <2>1. event[t] \in Events /\ todo[t] = {} /\ sending[t] = None
    BY <1>1 DEF Finish, Broadcasted, HubTypeOK
  <2>2. wire' \in [Procs -> Seq(Events)]
    BY <1>1, <2>1, OnAllWiresType DEF Finish, HubTypeOK
  <2>3. HubTypeOK'
    BY <1>1, <2>1, <2>2 DEF Finish, HubTypeOK
  <2>4. Routed' /\ NeverSilenced'
    BY <1>1 DEF Finish, Routed, NeverSilenced, SendingTo
  <2> QED BY <2>3, <2>4
<1> QED BY <1>1

LEMMA HubKeepsShape ==
    ASSUME HubShape, [HubNext]_hubVars
    PROVE  HubShape'
<1>1. CASE UNCHANGED hubVars
  BY <1>1 DEF hubVars, streams, thread, redis, HubShape, HubTypeOK, Routed, NeverSilenced, SendingTo
<1>2. CASE HubNext
  BY <1>2, StreamsKeepShape, BeginsKeepShape, SendSteps, SendsKeepShape, EndsKeepShape,
     RedisKeepsShape
     DEF HubNext, BroadcastStep, Threads, HubShape
<1> QED BY <1>1, <1>2

LEMMA HubShaped == HubSpec => []HubShape
<1>1. HubInit => HubShape
  BY HubInitShape
<1>2. HubShape /\ [HubNext]_hubVars => HubShape'
  BY HubKeepsShape
<1> QED BY <1>1, <1>2, PTL DEF HubSpec

\* Buffers and lists of broadcasts are what the code takes them for.
THEOREM HubTypes == HubSpec => []HubTypeOK
BY HubShaped, PTL DEF HubShape

\* Broadcasts that race for a full buffer never make each other lose everything
\* (hub.go:61-76).
THEOREM StreamsNeverSilenced == HubSpec => []NeverSilenced
BY HubShaped, PTL DEF HubShape

-----------------------------------------------------------------------------
(* The event hub: clients see the events of one publisher in their order *)

\* Events whose PUBLISH never went without an answer: what is counted of the events of
\* other processes.
Clear == {e \in 1..Len(by) : e \notin unsure}

\* On the way of an event to a stream, whatever is behind is later: what the stream has
\* received, what it has in its buffer,
StreamsInOrder ==
    \A s \in Streams :
        /\ Rises(by, Counted(s), seen[s]) /\ Rises(by, Counted(s), chan[s])
        /\ \A x \in ToSet(chan[s]) : Below(by, Counted(s), ToSet(seen[s]), x)

\* what a thread is about to send it,
CarriedInOrder ==
    \A t \in Threads : \A s \in Streams : Carries(t, s) => Below(by, Counted(s), Received(s), event[t])

\* what Redis has for the listener of its process, which carries events of others only,
Foreign(p, x) == Home[by[x]] # p
OnWireInOrder ==
    \A p \in Procs :
        /\ Rises(by, Clear, wire[p])
        /\ \A s \in StreamsAt(p) : \A x \in ToSet(wire[p]) :
               Foreign(p, x) => Below(by, Counted(s), Received(s), x)
ListenersInOrder ==
    \A p \in Procs : event[p] # Idle =>
        /\ Foreign(p, event[p])
        /\ \A x \in ToSet(wire[p]) : Below(by, Clear, {event[p]}, x)

\* and what a publisher of another process has yet to give to Redis.
PublishersInOrder ==
    \A q \in Publishers : event[q] # Idle =>
        /\ by[event[q]] = q
        /\ \A p \in Procs : /\ Below(by, Clear, ToSet(wire[p]), event[q])
                            /\ event[p] # Idle => Below(by, Clear, {event[p]}, event[q])
        /\ \A s \in Streams : Home[s] # Home[q] => Below(by, Counted(s), Received(s), event[q])

InOrder ==
    /\ Published /\ StreamsInOrder /\ CarriedInOrder
    /\ OnWireInOrder /\ ListenersInOrder /\ PublishersInOrder

LEMMA BelowLess ==
    \A b, K, S, e : Below(b, K, S, e) => \A T \in SUBSET S, L \in SUBSET K : Below(b, L, T, e)
BY DEF Below

LEMMA RisesLess == \A b, K, q : Rises(b, K, q) => \A L \in SUBSET K : Rises(b, L, q)
BY DEF Rises

LEMMA CountedOfOthers ==
    ASSUME NEW s \in Streams
    PROVE  /\ Clear \subseteq Counted(s)
           /\ \A x \in Counted(s) : Home[by[x]] # Home[s] => x \in Clear
BY DEF Clear, Counted

\* What is counted, when nothing is published.
LEMMA SameCounted ==
    ASSUME UNCHANGED by, unsure \subseteq unsure'
    PROVE  /\ Clear' \subseteq Clear /\ (unsure' = unsure => Clear' = Clear)
           /\ \A s \in Streams : /\ Counted(s)' \subseteq Counted(s)
                                 /\ unsure' = unsure => Counted(s)' = Counted(s)
BY DEF Clear, Counted

LEMMA RisesEmpty == \A b, K : Rises(b, K, <<>>)
BY DEF Rises

LEMMA HubInitOrder == HubInit => InOrder
<1> SUFFICES ASSUME HubInit PROVE InOrder
  OBVIOUS
<1>1. Published
  BY HubInitShape
<1>2. StreamsInOrder
  BY RisesEmpty, ToSetEmpty DEF HubInit, StreamsInOrder
<1>3. CarriedInOrder
  BY DEF HubInit, CarriedInOrder, Carries
<1>4. OnWireInOrder
  BY RisesEmpty, ToSetEmpty DEF HubInit, OnWireInOrder
<1>5. ListenersInOrder /\ PublishersInOrder
  BY DEF HubInit, ListenersInOrder, PublishersInOrder, Threads
<1> QED BY <1>1, <1>2, <1>3, <1>4, <1>5 DEF InOrder

\* A step that gives no stream anything new, and leaves a listener what it had or nothing.
LEMMA QuietKeepsOrder ==
    ASSUME HubShape, InOrder, UNCHANGED <<by, event>>, StreamsInOrder',
           unsure \subseteq unsure', unsure' \subseteq 1..Len(by),
           \A s \in Streams : Received(s)' \subseteq Received(s),
           \A t \in Threads, s \in Streams : Carries(t, s)' => Carries(t, s),
           \A p \in Procs : wire'[p] = wire[p] \/ wire'[p] = <<>>
    PROVE  InOrder'
<1> USE DEF InOrder
<1>0. Clear' \subseteq Clear /\ \A s \in Streams : Counted(s)' \subseteq Counted(s)
  BY SameCounted
<1>1. \A p \in Procs : ToSet(wire'[p]) \subseteq ToSet(wire[p])
  BY ToSetEmpty
<1>2. Published'
  BY <1>1 DEF Published
<1>3. CarriedInOrder'
  BY <1>0, BelowLess DEF CarriedInOrder
<1>4. OnWireInOrder'
  <2>1. \A p \in Procs : Rises(by, Clear', wire'[p])
    BY <1>0, RisesLess, RisesEmpty DEF OnWireInOrder
  <2>2. \A p \in Procs : \A s \in StreamsAt(p) : \A x \in ToSet(wire'[p]) :
            Home[by[x]] # p => Below(by, Counted(s)', Received(s)', x)
    BY <1>0, <1>1, BelowLess DEF OnWireInOrder, Foreign, StreamsAt
  <2> QED BY <2>1, <2>2 DEF OnWireInOrder, Foreign
<1>5. ListenersInOrder'
  BY <1>0, <1>1, BelowLess DEF ListenersInOrder, Foreign
<1>6. PublishersInOrder'
  <2> SUFFICES ASSUME NEW q \in Publishers, event[q] # Idle
               PROVE  /\ by[event[q]] = q
                      /\ \A p \in Procs : /\ Below(by, Clear', ToSet(wire'[p]), event[q])
                                          /\ event[p] # Idle => Below(by, Clear', {event[p]}, event[q])
                      /\ \A s \in Streams :
                             Home[s] # Home[q] => Below(by, Counted(s)', Received(s)', event[q])
    BY DEF PublishersInOrder
  <2> QED BY <1>0, <1>1, BelowLess DEF PublishersInOrder
<1> QED BY <1>2, <1>3, <1>4, <1>5, <1>6

LEMMA StreamsKeepOrder ==
    ASSUME HubShape, InOrder, NEW s \in Streams, Subscribe(s) \/ Unsubscribe(s) \/ Receive(s)
    PROVE  InOrder'
<1>1. UNCHANGED <<by, event, todo, sending, wire, unsure>>
  BY DEF Subscribe, Unsubscribe, Receive, thread, redis
<1>0. \A x \in Streams : Counted(x)' = Counted(x)
  BY <1>1, SameCounted
<1>2. StreamsInOrder' /\ \A x \in Streams : Received(x)' \subseteq Received(x)
  <2>1. CASE Subscribe(s) \/ Unsubscribe(s)
    BY <1>0, <1>1, <2>1 DEF Subscribe, Unsubscribe, InOrder, StreamsInOrder, Received
  <2>2. CASE Receive(s)
    <3> DEFINE h == Head(chan[s])
    <3>1. /\ chan \in [Streams -> Seq(Events)] /\ seen \in [Streams -> Seq(Events)]
          /\ chan[s] \in Seq(Events) /\ chan[s] # <<>> /\ seen[s] \in Seq(Events)
      BY <2>2 DEF Receive, HubShape, HubTypeOK
    <3>2. h \in Events /\ h \in ToSet(chan[s]) /\ ToSet(Tail(chan[s])) \subseteq ToSet(chan[s])
      BY <3>1, TailSet
    <3>3. /\ Rises(by, Counted(s), seen[s]) /\ Rises(by, Counted(s), chan[s])
          /\ \A x \in ToSet(chan[s]) : Below(by, Counted(s), ToSet(seen[s]), x)
      BY DEF InOrder, StreamsInOrder
    <3>4. /\ Rises(by, Counted(s), Tail(chan[s]))
          /\ \A x \in ToSet(Tail(chan[s])) : {h, x} \subseteq Counted(s) /\ by[h] = by[x] => h < x
      BY <3>1, <3>3, RisesTail
    <3>5. Rises(by, Counted(s), Append(seen[s], h)) /\ ToSet(Append(seen[s], h)) = ToSet(seen[s]) \union {h}
      BY <3>1, <3>2, <3>3, RisesAppend, AppendSet
    <3>6. /\ chan'[s] = Tail(chan[s])
          /\ seen'[s] = seen[s] \/ seen'[s] = Append(seen[s], h)
          /\ \A x \in Streams \ {s} : chan'[x] = chan[x] /\ seen'[x] = seen[x]
      BY <2>2, <3>1 DEF Receive
    <3> HIDE DEF h
    <3>7. ASSUME NEW x \in ToSet(chan'[s]) PROVE Below(by, Counted(s), ToSet(seen'[s]), x)
      <4>1. x \in ToSet(Tail(chan[s])) /\ Below(by, Counted(s), ToSet(seen[s]), x)
        BY <3>2, <3>3, <3>6
      <4>2. \A y \in ToSet(seen'[s]) : y \in ToSet(seen[s]) \/ y = h
        BY <3>5, <3>6
      <4>3. {h, x} \subseteq Counted(s) /\ by[h] = by[x] => h < x
        BY <3>4, <4>1
      <4> QED BY <4>1, <4>2, <4>3 DEF Below
    <3>8. StreamsInOrder'
      BY <1>0, <1>1, <3>3, <3>4, <3>5, <3>6, <3>7 DEF StreamsInOrder, InOrder
    <3>9. \A x \in Streams : Received(x)' \subseteq Received(x)
      BY <3>2, <3>5, <3>6 DEF Received
    <3> QED BY <3>8, <3>9
  <2> QED BY <2>1, <2>2
<1>3. \A t \in Threads, x \in Streams : Carries(t, x)' => Carries(t, x)
  BY <1>1 DEF Carries
<1> QED BY <1>1, <1>2, <1>3, QuietKeepsOrder DEF InOrder, Published

\* Two threads that are about to send events of one publisher to one stream are one thread:
\* the publisher itself in its process, the listener in every other.
LEMMA OneCarrier ==
    ASSUME HubShape, InOrder, NEW s \in Streams, NEW t \in Threads, NEW u \in Threads,
           event[t] # Idle, event[u] # Idle, HomeOf(t) = Home[s], HomeOf(u) = Home[s],
           by[event[t]] = by[event[u]]
    PROVE  t = u
<1>1. \A q \in Publishers : q \notin Procs /\ HomeOf(q) = Home[q] /\ (event[q] # Idle => by[event[q]] = q)
  BY HubAssumption DEF InOrder, PublishersInOrder, HomeOf
<1>2. \A p \in Procs : HomeOf(p) = p /\ (event[p] # Idle => Home[by[event[p]]] # p)
  BY DEF InOrder, ListenersInOrder, Foreign, HomeOf
<1>3. t \in Publishers \/ t \in Procs
  BY DEF Threads
<1>4. u \in Publishers \/ u \in Procs
  BY DEF Threads
<1> QED BY <1>1, <1>2, <1>3, <1>4

\* A thread that gives its event to a stream is ahead of everything behind it.
LEMMA PutKeepsOrder ==
    ASSUME HubShape, InOrder, NEW t \in Threads, NEW s \in Streams, SendStep(t, s),
           chan'[s] = Append(chan[s], event[t]), sending'[t] = None
    PROVE  InOrder'
<1> DEFINE e == event[t]
<1>1. /\ UNCHANGED <<seen, by, event, wire, unsure>> /\ e \in Events /\ e # Idle
      /\ Carries(t, s) /\ Home[s] = HomeOf(t)
      /\ \A x \in Streams \ {s} : chan'[x] = chan[x]
      /\ chan[s] \in Seq(Events)
  BY DEF SendStep, HubShape, HubTypeOK, Events, Idle, redis
<1>0. Clear' = Clear /\ \A x \in Streams : Counted(x)' = Counted(x)
  BY <1>1, SameCounted
<1>2. ToSet(chan'[s]) = ToSet(chan[s]) \union {e}
  BY <1>1, AppendSet
<1>3. /\ Received(s)' = Received(s) \union {e}
      /\ \A x \in Streams \ {s} : Received(x)' = Received(x)
  BY <1>1, <1>2 DEF Received
<1>4. Below(by, Counted(s), Received(s), e)
  BY <1>1 DEF InOrder, CarriedInOrder
<1>5. \A x \in Streams : Home[x] \in Procs
  BY HubAssumption
<1>6. Published'
  BY <1>1, <1>3 DEF InOrder, Published
<1>7. StreamsInOrder'
  <2>1. Rises(by, Counted(s), chan'[s])
    <3>1. Rises(by, Counted(s), chan[s]) /\ Below(by, Counted(s), ToSet(chan[s]), e)
      BY <1>4 DEF InOrder, StreamsInOrder, Below, Received
    <3> QED BY <1>1, <3>1, RisesAppend
  <2>2. \A x \in ToSet(chan'[s]) : Below(by, Counted(s), ToSet(seen[s]), x)
    BY <1>2, <1>4 DEF InOrder, StreamsInOrder, Below, Received
  <2> QED BY <1>0, <1>1, <2>1, <2>2 DEF InOrder, StreamsInOrder
<1>8. CarriedInOrder'
  <2> SUFFICES ASSUME NEW u \in Threads, NEW x \in Streams, Carries(u, x)'
               PROVE  Below(by, Counted(x), Received(x)', event[u])
    BY <1>0, <1>1 DEF CarriedInOrder
  <2>1. u # t => Carries(u, x)
    BY DEF SendStep, Carries
  <2>2. x # s => Carries(u, x)
    BY NotNone DEF SendStep, Carries
  <2>3. ~ Carries(t, s)'
    BY DEF SendStep, Carries
  <2>4. Carries(u, x)
    BY <2>1, <2>2, <2>3
  <2>5. Below(by, Counted(x), Received(x), event[u])
    BY <2>4 DEF InOrder, CarriedInOrder
  <2>6. CASE x = s
    <3>1. u # t /\ HomeOf(u) = Home[s] /\ event[u] # Idle
      BY <2>3, <2>4, <2>6 DEF HubShape, HubTypeOK, Routed, Carries, StreamsAt
    <3>2. by[e] # by[event[u]]
      BY <1>1, <3>1, OneCarrier
    <3> QED BY <1>3, <2>5, <2>6, <3>2 DEF Below
  <2> QED BY <1>3, <2>5, <2>6
<1>9. OnWireInOrder'
  <2> SUFFICES ASSUME NEW p \in Procs, NEW r \in StreamsAt(p), NEW x \in ToSet(wire[p]), Foreign(p, x)
               PROVE  Below(by, Counted(r), Received(r)', x)
    BY <1>0, <1>1 DEF InOrder, OnWireInOrder, Foreign, StreamsAt
  <2>1. Below(by, Counted(r), Received(r), x) /\ r \in Streams /\ Home[r] = p
    BY DEF InOrder, OnWireInOrder, StreamsAt
  <2>2. CASE r = s
    <3>1. CASE t \in Publishers
      <4>1. by[e] = t /\ Home[t] = p
        BY <1>1, <2>1, <2>2, <3>1, HubAssumption DEF InOrder, PublishersInOrder, HomeOf
      <4>2. by[e] # by[x]
        BY <4>1 DEF Foreign
      <4> QED BY <1>3, <2>1, <2>2, <4>2 DEF Below
    <3>2. CASE t \in Procs
      <4>1. t = p
        BY <1>1, <2>1, <2>2, <3>2 DEF HomeOf
      <4>2. {e, x} \subseteq Counted(s) /\ by[e] = by[x] => e < x
        <5>1. Below(by, Clear, {e}, x) /\ Foreign(p, e)
          BY <1>1, <4>1 DEF InOrder, ListenersInOrder
        <5> QED BY <2>1, <2>2, <5>1, CountedOfOthers DEF Below, Foreign
      <4> QED BY <1>3, <2>1, <2>2, <4>2 DEF Below
    <3> QED BY <3>1, <3>2 DEF Threads
  <2> QED BY <1>3, <2>1, <2>2
<1>10. ListenersInOrder'
  BY <1>0, <1>1 DEF InOrder, ListenersInOrder, Foreign
<1>11. PublishersInOrder'
  <2>1. ASSUME NEW q \in Publishers, event[q] # Idle, NEW x \in Streams, Home[x] # Home[q]
        PROVE  Below(by, Counted(x), Received(x)', event[q])
    <3>1. Below(by, Counted(x), Received(x), event[q]) /\ by[event[q]] = q
      BY <2>1 DEF InOrder, PublishersInOrder
    <3>2. CASE x = s
      <4>1. {e, event[q]} \subseteq Counted(s) /\ by[e] = q => e < event[q]
        <5>1. CASE t \in Publishers
          BY <1>1, <2>1, <3>2, <5>1, HubAssumption DEF InOrder, PublishersInOrder, HomeOf
        <5>2. CASE t \in Procs
          <6>1. Below(by, Clear, {e}, event[q])
            BY <1>1, <2>1, <5>2 DEF InOrder, PublishersInOrder
          <6> QED BY <2>1, <3>1, <3>2, <6>1, CountedOfOthers DEF Below
        <5> QED BY <5>1, <5>2 DEF Threads
      <4> QED BY <1>3, <3>1, <3>2, <4>1 DEF Below
    <3> QED BY <1>3, <3>1, <3>2
  <2> QED BY <1>0, <1>1, <2>1 DEF InOrder, PublishersInOrder
<1> QED BY <1>6, <1>7, <1>8, <1>9, <1>10, <1>11 DEF InOrder

LEMMA SendsKeepOrder ==
    ASSUME HubShape, InOrder, NEW t \in Threads, NEW s \in Streams, SendStep(t, s)
    PROVE  InOrder'
<1>1. CASE chan'[s] = Append(chan[s], event[t]) /\ sending'[t] = None
  BY <1>1, PutKeepsOrder
<1>2. CASE (chan[s] # <<>> /\ chan'[s] = Tail(chan[s])) \/ chan'[s] = chan[s]
  <2>1. /\ UNCHANGED <<seen, by, event, wire, unsure>>
        /\ \A x \in Streams \ {s} : chan'[x] = chan[x]
        /\ chan[s] \in Seq(Events)
        /\ \A x \in Streams : Counted(x)' = Counted(x)
    BY SameCounted DEF SendStep, HubShape, HubTypeOK, redis
  <2>2. ToSet(chan'[s]) \subseteq ToSet(chan[s]) /\ Rises(by, Counted(s), chan'[s])
    <3>1. Rises(by, Counted(s), chan[s])
      BY DEF InOrder, StreamsInOrder
    <3> QED BY <1>2, <2>1, <3>1, TailSet, RisesTail
  <2>3. StreamsInOrder'
    BY <2>1, <2>2 DEF InOrder, StreamsInOrder
  <2>4. \A x \in Streams : Received(x)' \subseteq Received(x)
    BY <2>1, <2>2 DEF Received
  <2>5. \A u \in Threads, x \in Streams : Carries(u, x)' => Carries(u, x)
    BY NotNone DEF SendStep, Carries
  <2> QED BY <2>1, <2>3, <2>4, <2>5, QuietKeepsOrder DEF InOrder, Published
<1> QED BY <1>1, <1>2 DEF SendStep

\* A broadcast has ended: the event is behind what Redis already has.
LEMMA FinishKeepsOrder ==
    ASSUME HubShape, InOrder, NEW t \in Threads, Finish(t)
    PROVE  InOrder'
<1> DEFINE e == event[t]
<1>1. /\ UNCHANGED <<subs, closed, chan, seen, by, todo, sending, unsure>>
      /\ e \in Events /\ e # Idle
      /\ event' = [event EXCEPT ![t] = Idle]
      /\ \/ t \in Publishers /\ wire' = [p \in Procs |-> Append(wire[p], e)]
         \/ wire' = wire
  BY DEF Finish, Broadcasted, OnAllWires, streams, HubShape, HubTypeOK
<1>0. Clear' = Clear /\ \A x \in Streams : Counted(x)' = Counted(x)
  BY <1>1, SameCounted
<1>2. \A u \in Threads : event'[u] # Idle => u # t /\ event'[u] = event[u]
  BY <1>1 DEF HubShape, HubTypeOK
<1>3. \A s \in Streams : Received(s)' = Received(s)
  BY <1>1 DEF Received
<1>4. \A u \in Threads, s \in Streams : Carries(u, s)' => event'[u] = event[u] /\ Carries(u, s)
  BY <1>1, <1>2 DEF Carries, Finish, Broadcasted, HubShape, HubTypeOK
<1>5. /\ e \in 1..Len(by)
      /\ t \in Publishers =>
            /\ by[e] = t
            /\ \A p \in Procs : /\ Below(by, Clear, ToSet(wire[p]), e)
                                /\ event[p] # Idle => Below(by, Clear, {event[p]}, e)
            /\ \A s \in Streams : Home[s] # Home[t] => Below(by, Counted(s), Received(s), e)
  BY <1>1 DEF InOrder, Published, PublishersInOrder
<1>6. /\ StreamsInOrder' /\ CarriedInOrder'
  BY <1>0, <1>1, <1>3, <1>4 DEF InOrder, StreamsInOrder, CarriedInOrder
<1>7. CASE wire' = wire
  <2>1. Published'
    BY <1>1, <1>2, <1>3, <1>7 DEF InOrder, Published
  <2>2. OnWireInOrder'
    BY <1>0, <1>1, <1>3, <1>7 DEF InOrder, OnWireInOrder, Foreign, StreamsAt
  <2>3. ListenersInOrder'
    BY <1>0, <1>1, <1>2, <1>7 DEF InOrder, ListenersInOrder, Foreign, Threads
  <2>4. PublishersInOrder'
    <3> SUFFICES ASSUME NEW q \in Publishers, event'[q] # Idle
                 PROVE  /\ by[event'[q]] = q
                        /\ \A p \in Procs : /\ Below(by, Clear, ToSet(wire[p]), event'[q])
                                            /\ event'[p] # Idle => Below(by, Clear, {event'[p]}, event'[q])
                        /\ \A s \in Streams : Home[s] # Home[q] => Below(by, Counted(s), Received(s), event'[q])
      BY <1>0, <1>1, <1>3, <1>7 DEF PublishersInOrder
    <3>1. event'[q] = event[q] /\ \A p \in Procs : event'[p] # Idle => event'[p] = event[p]
      BY <1>2 DEF Threads
    <3> QED BY <3>1 DEF InOrder, PublishersInOrder
  <2> QED BY <1>6, <2>1, <2>2, <2>3, <2>4 DEF InOrder
<1>8. CASE t \in Publishers /\ wire' = [p \in Procs |-> Append(wire[p], e)]
  <2>1. \A p \in Procs : /\ wire[p] \in Seq(Events) /\ wire'[p] = Append(wire[p], e)
                         /\ ToSet(wire'[p]) = ToSet(wire[p]) \union {e}
    BY <1>1, <1>8, AppendSet DEF HubShape, HubTypeOK
  <2>2. Published'
    <3>1. /\ \A s \in Streams : Received(s)' \subseteq 1..Len(by')
          /\ \A u \in Threads : event'[u] # Idle => event'[u] \in 1..Len(by')
          /\ unsure' \subseteq 1..Len(by')
      BY <1>1, <1>2, <1>3 DEF InOrder, Published
    <3>2. \A p \in Procs : ToSet(wire'[p]) \subseteq 1..Len(by')
      BY <1>1, <1>5, <2>1 DEF InOrder, Published
    <3> QED BY <3>1, <3>2 DEF Published
  <2>3. OnWireInOrder'
    <3>1. \A p \in Procs : Rises(by, Clear, wire'[p])
      BY <1>1, <1>5, <1>8, <2>1, RisesAppend DEF InOrder, OnWireInOrder
    <3>2. ASSUME NEW p \in Procs, NEW s \in StreamsAt(p), NEW x \in ToSet(wire'[p]), Foreign(p, x)
          PROVE  Below(by, Counted(s), Received(s), x)
      <4>1. s \in Streams /\ Home[s] = p
        BY DEF StreamsAt
      <4>2. CASE x \in ToSet(wire[p])
        BY <3>2, <4>2 DEF InOrder, OnWireInOrder
      <4>3. CASE x = e
        BY <1>5, <1>8, <3>2, <4>1, <4>3 DEF Foreign
      <4> QED BY <2>1, <4>2, <4>3
    <3> QED BY <1>0, <1>1, <1>3, <3>1, <3>2 DEF OnWireInOrder, Foreign, StreamsAt
  <2>4. ListenersInOrder'
    <3> SUFFICES ASSUME NEW p \in Procs, event'[p] # Idle
                 PROVE  Foreign(p, event[p]) /\ \A x \in ToSet(wire'[p]) : Below(by, Clear, {event[p]}, x)
      BY <1>0, <1>1, <1>2 DEF ListenersInOrder, Foreign, Threads
    <3>1. event'[p] = event[p]
      BY <1>2 DEF Threads
    <3> QED BY <1>5, <1>8, <2>1, <3>1 DEF InOrder, ListenersInOrder
  <2>5. PublishersInOrder'
    <3> SUFFICES ASSUME NEW q \in Publishers, event'[q] # Idle
                 PROVE  /\ by[event[q]] = q
                        /\ \A p \in Procs : /\ Below(by, Clear, ToSet(wire'[p]), event[q])
                                            /\ event'[p] # Idle => Below(by, Clear, {event'[p]}, event[q])
                        /\ \A s \in Streams : Home[s] # Home[q] => Below(by, Counted(s), Received(s), event[q])
      BY <1>0, <1>1, <1>2, <1>3 DEF PublishersInOrder, Threads
    <3>1. q # t /\ event[q] # Idle
      BY <1>2 DEF Threads
    <3>2. by[event[q]] # by[e]
      BY <1>5, <1>8, <3>1 DEF InOrder, PublishersInOrder
    <3>3. ASSUME NEW p \in Procs PROVE Below(by, Clear, ToSet(wire'[p]), event[q])
      <4>1. Below(by, Clear, ToSet(wire[p]), event[q])
        BY <3>1 DEF InOrder, PublishersInOrder
      <4>2. ToSet(wire'[p]) = ToSet(wire[p]) \union {e}
        BY <2>1
      <4> HIDE DEF e
      <4> QED BY <3>2, <4>1, <4>2 DEF Below
    <3> QED BY <1>2, <3>1, <3>3 DEF InOrder, PublishersInOrder, Threads
  <2> QED BY <1>6, <2>2, <2>3, <2>4, <2>5 DEF InOrder
<1> QED BY <1>1, <1>7, <1>8

LEMMA DroppedKeepsOrder ==
    ASSUME HubShape, InOrder, NEW p \in Procs, Dropped(p)
    PROVE  InOrder'
<1>1. UNCHANGED <<subs, closed, chan, seen, by, event, todo, sending, unsure>>
  BY DEF Dropped, streams, thread
<1>2. \A r \in Procs : wire'[r] = wire[r] \/ wire'[r] = <<>>
  BY DEF Dropped, HubShape, HubTypeOK
<1>3. StreamsInOrder' /\ \A s \in Streams : Received(s)' = Received(s)
  BY <1>1, SameCounted DEF InOrder, StreamsInOrder, Received
<1>4. \A t \in Threads, s \in Streams : Carries(t, s)' => Carries(t, s)
  BY <1>1 DEF Carries
<1> QED BY <1>1, <1>2, <1>3, <1>4, QuietKeepsOrder DEF InOrder, Published

\* An event whose PUBLISH gets no answer is no longer counted elsewhere.
LEMMA LoseReplyKeepsOrder ==
    ASSUME HubShape, InOrder, NEW t \in Publishers, LoseReply(t)
    PROVE  InOrder'
<1>1. /\ UNCHANGED <<subs, closed, chan, seen, by, event, todo, sending, wire>>
      /\ unsure' = unsure \union {event[t]} /\ event[t] # Idle
  BY DEF LoseReply, Broadcasted, streams, thread
<1>2. unsure' \subseteq 1..Len(by)
  BY <1>1 DEF InOrder, Published, Threads
<1>3. \A s \in Streams : Counted(s)' \subseteq Counted(s)
  BY <1>1, SameCounted
<1>4. StreamsInOrder' /\ \A s \in Streams : Received(s)' = Received(s)
  BY <1>1, <1>3, RisesLess, BelowLess DEF InOrder, StreamsInOrder, Received
<1>5. \A u \in Threads, s \in Streams : Carries(u, s)' => Carries(u, s)
  BY <1>1 DEF Carries
<1> QED BY <1>1, <1>2, <1>4, <1>5, QuietKeepsOrder

\* A PUBLISH without an answer that Redis executes, soon or late, again or for the first
\* time: its event is not counted, and the others keep their places.
LEMMA ExecuteKeepsOrder ==
    ASSUME HubShape, InOrder, NEW c \in unanswered, Execute(c)
    PROVE  InOrder'
<1> DEFINE e == c[1]
<1>1. /\ UNCHANGED <<subs, closed, chan, seen, by, event, todo, sending, unsure>>
      /\ wire' = [p \in Procs |-> Append(wire[p], e)]
      /\ e \in Events /\ e \in unsure
  BY DEF Execute, OnAllWires, streams, thread, HubShape, HubTypeOK
<1>0. Clear' = Clear /\ \A x \in Streams : Counted(x)' = Counted(x)
  BY <1>1, SameCounted
<1> HIDE DEF e
<1>2. e \notin Clear
  BY <1>1 DEF Clear
<1>3. \A S : Below(by, Clear, S, e)
  BY <1>2 DEF Below
<1>4. \A p \in Procs : /\ wire[p] \in Seq(Events) /\ wire'[p] = Append(wire[p], e)
                       /\ ToSet(wire'[p]) = ToSet(wire[p]) \union {e}
  BY <1>1, AppendSet DEF HubShape, HubTypeOK
<1>5. \A s \in Streams : Received(s)' = Received(s)
  BY <1>1 DEF Received
<1>6. Published'
  <2>1. \A p \in Procs : ToSet(wire'[p]) \subseteq 1..Len(by)
    BY <1>1, <1>4 DEF InOrder, Published
  <2> QED BY <1>1, <1>5, <2>1 DEF InOrder, Published
<1>7. StreamsInOrder' /\ CarriedInOrder'
  BY <1>0, <1>1, <1>5 DEF InOrder, StreamsInOrder, CarriedInOrder, Carries
<1>8. OnWireInOrder'
  <2>1. \A p \in Procs : Rises(by, Clear, wire'[p])
    BY <1>1, <1>3, <1>4, RisesAppend DEF InOrder, OnWireInOrder
  <2>2. ASSUME NEW p \in Procs, NEW s \in StreamsAt(p), NEW x \in ToSet(wire'[p]), Foreign(p, x)
        PROVE  Below(by, Counted(s), Received(s), x)
    <3>1. CASE x \in ToSet(wire[p])
      BY <2>2, <3>1 DEF InOrder, OnWireInOrder
    <3>2. CASE x = e
      BY <1>2, <2>2, <3>2, CountedOfOthers DEF Below, Foreign, StreamsAt
    <3> QED BY <1>4, <3>1, <3>2
  <2> QED BY <1>0, <1>1, <1>5, <2>1, <2>2 DEF OnWireInOrder, Foreign, StreamsAt
<1>9. ListenersInOrder'
  <2> SUFFICES ASSUME NEW p \in Procs, event[p] # Idle
               PROVE  Foreign(p, event[p]) /\ \A x \in ToSet(wire'[p]) : Below(by, Clear, {event[p]}, x)
    BY <1>0, <1>1 DEF ListenersInOrder, Foreign
  <2> QED BY <1>3, <1>4 DEF InOrder, ListenersInOrder
<1>10. PublishersInOrder'
  <2> SUFFICES ASSUME NEW q \in Publishers, event[q] # Idle, NEW p \in Procs
               PROVE  Below(by, Clear, ToSet(wire'[p]), event[q])
    BY <1>0, <1>1, <1>5 DEF InOrder, PublishersInOrder
  <2>1. Below(by, Clear, ToSet(wire[p]), event[q])
    BY DEF InOrder, PublishersInOrder
  <2> QED BY <1>2, <1>4, <2>1 DEF Below
<1> QED BY <1>6, <1>7, <1>8, <1>9, <1>10 DEF InOrder

\* The listener takes the next event: its own hub's it skips, and the first of another
\* process is ahead of those that remain.
LEMMA ConsumeKeepsOrder ==
    ASSUME HubShape, InOrder, NEW p \in Procs, Consume(p)
    PROVE  InOrder'
<1> DEFINE h == Head(wire[p])
<1>1. /\ UNCHANGED <<subs, closed, chan, seen, by, sending, unsure>>
      /\ event[p] = Idle /\ wire[p] # <<>> /\ wire[p] \in Seq(Events)
      /\ wire' = [wire EXCEPT ![p] = Tail(wire[p])]
      /\ IF Home[by[h]] = p THEN UNCHANGED <<event, todo>> ELSE Broadcast(p, h)
  BY DEF Consume, streams, HubShape, HubTypeOK
<1>0. Clear' = Clear /\ \A x \in Streams : Counted(x)' = Counted(x)
  BY <1>1, SameCounted
<1>2. /\ h \in Events /\ h \in ToSet(wire[p]) /\ h # Idle
      /\ ToSet(Tail(wire[p])) \subseteq ToSet(wire[p])
  <2>1. /\ h \in Events /\ h \in ToSet(wire[p])
        /\ ToSet(Tail(wire[p])) \subseteq ToSet(wire[p])
    BY <1>1, TailSet
  <2>2. Idle \notin Events
    BY DEF Events, Idle
  <2> QED BY <2>1, <2>2
<1>3. /\ Rises(by, Clear, Tail(wire[p]))
      /\ \A x \in ToSet(Tail(wire[p])) : {h, x} \subseteq Clear /\ by[h] = by[x] => h < x
  BY <1>1, RisesTail DEF InOrder, OnWireInOrder
<1> HIDE DEF h
<1>4. /\ wire'[p] = Tail(wire[p]) /\ \A r \in Procs \ {p} : wire'[r] = wire[r]
      /\ \A r \in Procs : ToSet(wire'[r]) \subseteq ToSet(wire[r])
  BY <1>1, <1>2 DEF HubShape, HubTypeOK
<1>5. \A s \in Streams : Received(s)' = Received(s)
  BY <1>1 DEF Received
<1>6. /\ \A u \in Threads \ {p} : event'[u] = event[u] /\ todo'[u] = todo[u]
      /\ event'[p] # Idle => /\ event'[p] = h /\ Home[by[h]] # p
                             /\ todo'[p] \subseteq StreamsAt(p)
      /\ event'[p] = Idle => todo'[p] = todo[p]
  BY <1>1, <1>2 DEF Broadcast, HubShape, HubTypeOK, HomeOf, Threads, Routed
<1>7. Published'
  BY <1>1, <1>2, <1>4, <1>5, <1>6 DEF InOrder, Published
<1>8. StreamsInOrder'
  BY <1>0, <1>1 DEF InOrder, StreamsInOrder
<1>9. CarriedInOrder'
  <2> SUFFICES ASSUME NEW u \in Threads, NEW s \in Streams, Carries(u, s)'
               PROVE  Below(by, Counted(s), Received(s), event'[u])
    BY <1>0, <1>1, <1>5 DEF CarriedInOrder
  <2>1. CASE u # p
    BY <1>1, <1>6, <2>1 DEF Carries, InOrder, CarriedInOrder
  <2>2. CASE u = p
    <3>1. todo[p] = {} /\ sending[p] = None
      BY <1>1 DEF HubShape, HubTypeOK, Threads
    <3>2. s \in todo'[p]
      BY <1>1, <2>2, <3>1 DEF Carries
    <3>3. event'[p] = h /\ Home[by[h]] # p /\ s \in StreamsAt(p)
      BY <1>6, <3>1, <3>2
    <3> QED BY <1>2, <2>2, <3>3 DEF InOrder, OnWireInOrder, Foreign
  <2> QED BY <2>1, <2>2
<1>10. OnWireInOrder'
  <2>1. \A r \in Procs : Rises(by, Clear, wire'[r])
    BY <1>3, <1>4 DEF InOrder, OnWireInOrder
  <2>2. \A r \in Procs : \A s \in StreamsAt(r) : \A x \in ToSet(wire'[r]) :
            Foreign(r, x) => Below(by, Counted(s), Received(s), x)
    BY <1>4 DEF InOrder, OnWireInOrder
  <2> QED BY <1>0, <1>1, <1>5, <2>1, <2>2 DEF OnWireInOrder, Foreign, StreamsAt
<1>11. ListenersInOrder'
  <2> SUFFICES ASSUME NEW r \in Procs, event'[r] # Idle
               PROVE  /\ Foreign(r, event'[r])
                      /\ \A x \in ToSet(wire'[r]) : Below(by, Clear, {event'[r]}, x)
    BY <1>0, <1>1 DEF ListenersInOrder, Foreign
  <2>1. CASE r = p
    BY <1>3, <1>4, <1>6, <2>1 DEF Foreign, Below
  <2>2. CASE r # p
    BY <1>4, <1>6, <2>2 DEF InOrder, ListenersInOrder, Threads
  <2> QED BY <2>1, <2>2
<1>12. PublishersInOrder'
  <2> SUFFICES ASSUME NEW q \in Publishers, event'[q] # Idle
               PROVE  /\ by[event'[q]] = q
                      /\ \A r \in Procs : /\ Below(by, Clear, ToSet(wire'[r]), event'[q])
                                          /\ event'[r] # Idle => Below(by, Clear, {event'[r]}, event'[q])
                      /\ \A s \in Streams : Home[s] # Home[q] => Below(by, Counted(s), Received(s), event'[q])
    BY <1>0, <1>1, <1>5 DEF PublishersInOrder
  <2>1. q # p /\ event'[q] = event[q] /\ event[q] # Idle
    BY <1>6, HubAssumption DEF Threads
  <2>2. /\ by[event[q]] = q
        /\ \A r \in Procs : /\ Below(by, Clear, ToSet(wire[r]), event[q])
                            /\ event[r] # Idle => Below(by, Clear, {event[r]}, event[q])
        /\ \A s \in Streams : Home[s] # Home[q] => Below(by, Counted(s), Received(s), event[q])
    BY <2>1 DEF InOrder, PublishersInOrder
  <2>3. \A r \in Procs : Below(by, Clear, ToSet(wire'[r]), event[q])
    BY <1>4, <2>2, BelowLess
  <2>4. ASSUME NEW r \in Procs, event'[r] # Idle PROVE Below(by, Clear, {event'[r]}, event[q])
    <3>1. CASE r = p
      BY <1>2, <1>6, <2>2, <2>4, <3>1 DEF Below
    <3>2. CASE r # p
      BY <1>6, <2>2, <2>4, <3>2 DEF Threads
    <3> QED BY <3>1, <3>2
  <2> QED BY <2>1, <2>2, <2>3, <2>4
<1> QED BY <1>7, <1>8, <1>9, <1>10, <1>11, <1>12 DEF InOrder

LEMMA RisesSame ==
    ASSUME NEW S, NEW N, NEW b, NEW c, NEW K, NEW L, NEW q \in Seq(S), ToSet(q) \subseteq N,
           \A x \in N : c[x] = b[x], L \intersect N \subseteq K, Rises(b, K, q)
    PROVE  Rises(c, L, q)
<1> SUFFICES ASSUME NEW i \in DOMAIN q, NEW j \in DOMAIN q, i < j, q[i] \in L, q[j] \in L,
                    c[q[i]] = c[q[j]]
             PROVE  q[i] < q[j]
  BY DEF Rises
<1>1. q[i] \in N /\ q[j] \in N
  BY DEF ToSet
<1> QED BY <1>1 DEF Rises

\* A new event is later than all that has been published.
LEMMA PublishKeepsOrder ==
    ASSUME HubShape, InOrder, NEW q \in Publishers, Publish(q)
    PROVE  InOrder'
<1> DEFINE e == Len(by) + 1
<1>1. /\ UNCHANGED <<subs, closed, chan, seen, sending, wire, unsure>>
      /\ event[q] = Idle /\ event' = [event EXCEPT ![q] = e]
      /\ todo' = [todo EXCEPT ![q] = subs \intersect StreamsAt(HomeOf(q))]
      /\ by' = Append(by, q) /\ by \in Seq(Publishers)
  BY DEF Publish, Broadcast, streams, redis, HubShape, HubTypeOK
<1>2. /\ Len(by) \in Nat /\ Len(by') = e /\ by'[e] = q
      /\ \A x \in 1..Len(by) : by'[x] = by[x] /\ x < e
      /\ e # Idle /\ e \in 1..e /\ 1..Len(by) \subseteq 1..e
  BY <1>1, LenProperties DEF Idle
<1> HIDE DEF e
<1>3. /\ \A s \in Streams : Received(s) \subseteq 1..Len(by) /\ Received(s)' = Received(s)
      /\ \A p \in Procs : ToSet(wire[p]) \subseteq 1..Len(by)
      /\ \A t \in Threads : event[t] # Idle => event[t] \in 1..Len(by)
      /\ unsure \subseteq 1..Len(by)
  BY <1>1 DEF InOrder, Published, Received
<1>0. /\ Clear' \intersect (1..Len(by)) \subseteq Clear
      /\ \A s \in Streams : Counted(s)' \intersect (1..Len(by)) \subseteq Counted(s)
  BY <1>1, <1>2 DEF Clear, Counted
<1>4. /\ event'[q] = e
      /\ \A t \in Threads \ {q} : event'[t] = event[t] /\ todo'[t] = todo[t]
      /\ \A p \in Procs : p # q /\ event'[p] = event[p]
  BY <1>1, HubAssumption DEF HubShape, HubTypeOK, Routed, Threads
<1>5. \A K, L : L \intersect (1..Len(by)) \subseteq K => \A S \in SUBSET (1..Len(by)) :
          /\ \A x \in 1..Len(by) : Below(by, K, S, x) => Below(by', L, S, x)
          /\ Below(by', L, S, e)
  BY <1>2 DEF Below
<1>6. \A r \in Seq(Events) : ToSet(r) \subseteq 1..Len(by) => \A K, L :
          L \intersect (1..Len(by)) \subseteq K /\ Rises(by, K, r) => Rises(by', L, r)
  BY <1>2, RisesSame
<1>7. Published'
  BY <1>1, <1>2, <1>3, <1>4 DEF Published
<1>8. StreamsInOrder'
  <2> SUFFICES ASSUME NEW s \in Streams
               PROVE  /\ Rises(by', Counted(s)', seen[s]) /\ Rises(by', Counted(s)', chan[s])
                      /\ \A x \in ToSet(chan[s]) : Below(by', Counted(s)', ToSet(seen[s]), x)
    BY <1>1 DEF StreamsInOrder
  <2>1. /\ seen[s] \in Seq(Events) /\ chan[s] \in Seq(Events)
        /\ ToSet(seen[s]) \subseteq 1..Len(by) /\ ToSet(chan[s]) \subseteq 1..Len(by)
    BY <1>3 DEF HubShape, HubTypeOK, Received
  <2> QED BY <1>0, <1>5, <1>6, <2>1 DEF InOrder, StreamsInOrder
<1>9. CarriedInOrder'
  <2> SUFFICES ASSUME NEW u \in Threads, NEW s \in Streams, Carries(u, s)'
               PROVE  Below(by', Counted(s)', Received(s), event'[u])
    BY <1>3 DEF CarriedInOrder
  <2>1. CASE u = q
    BY <1>0, <1>3, <1>4, <1>5, <2>1
  <2>2. CASE u # q
    <3>1. Carries(u, s) /\ event'[u] = event[u]
      BY <1>1, <1>4, <2>2 DEF Carries
    <3>2. event[u] \in 1..Len(by)
      BY <1>3, <3>1 DEF Carries, HubShape, HubTypeOK
    <3> QED BY <1>0, <1>3, <1>5, <3>1, <3>2 DEF InOrder, CarriedInOrder
  <2> QED BY <2>1, <2>2
<1>10. OnWireInOrder'
  <2> SUFFICES ASSUME NEW p \in Procs
               PROVE  /\ Rises(by', Clear', wire[p])
                      /\ \A s \in StreamsAt(p) : \A x \in ToSet(wire[p]) :
                             Home[by'[x]] # p => Below(by', Counted(s)', Received(s), x)
    BY <1>1, <1>3 DEF OnWireInOrder, Foreign, StreamsAt
  <2>1. wire[p] \in Seq(Events) /\ Rises(by, Clear, wire[p])
    BY DEF HubShape, HubTypeOK, InOrder, OnWireInOrder
  <2>2. ASSUME NEW s \in StreamsAt(p), NEW x \in ToSet(wire[p]), Home[by'[x]] # p
        PROVE  Below(by', Counted(s)', Received(s), x)
    <3>1. x \in 1..Len(by) /\ by'[x] = by[x] /\ s \in Streams
      BY <1>2, <1>3 DEF StreamsAt
    <3>2. Below(by, Counted(s), Received(s), x)
      BY <2>2, <3>1 DEF InOrder, OnWireInOrder, Foreign
    <3> QED BY <1>0, <1>3, <1>5, <3>1, <3>2
  <2> QED BY <1>0, <1>3, <1>6, <2>1, <2>2
<1>11. ListenersInOrder'
  <2> SUFFICES ASSUME NEW p \in Procs, event[p] # Idle
               PROVE  Home[by'[event[p]]] # p /\ \A x \in ToSet(wire[p]) : Below(by', Clear', {event[p]}, x)
    BY <1>1, <1>4 DEF ListenersInOrder, Foreign
  <2>1. event[p] \in 1..Len(by) /\ ToSet(wire[p]) \subseteq 1..Len(by)
    BY <1>3 DEF Threads
  <2> QED BY <1>0, <1>2, <1>5, <2>1 DEF InOrder, ListenersInOrder, Foreign
<1>12. PublishersInOrder'
  <2> SUFFICES ASSUME NEW r \in Publishers, event'[r] # Idle
               PROVE  /\ by'[event'[r]] = r
                      /\ \A p \in Procs : /\ Below(by', Clear', ToSet(wire[p]), event'[r])
                                          /\ event[p] # Idle => Below(by', Clear', {event[p]}, event'[r])
                      /\ \A s \in Streams : Home[s] # Home[r] => Below(by', Counted(s)', Received(s), event'[r])
    <3>1. /\ wire' = wire /\ \A p \in Procs : event'[p] = event[p]
          /\ \A s \in Streams : Received(s)' = Received(s)
      BY <1>1, <1>3, <1>4
    <3> QED BY <3>1 DEF PublishersInOrder
  <2>1. \A p \in Procs : event[p] # Idle => {event[p]} \subseteq 1..Len(by)
    BY <1>3 DEF Threads
  <2>2. CASE r = q
    BY <1>0, <1>2, <1>3, <1>4, <1>5, <2>1, <2>2
  <2>3. CASE r # q
    <3>1. event'[r] = event[r] /\ event[r] \in 1..Len(by)
      BY <1>3, <1>4, <2>3 DEF Threads
    <3> QED BY <1>0, <1>2, <1>3, <1>5, <2>1, <3>1 DEF InOrder, PublishersInOrder
  <2> QED BY <2>2, <2>3
<1> QED BY <1>7, <1>8, <1>9, <1>10, <1>11, <1>12 DEF InOrder

LEMMA HubKeepsOrder ==
    ASSUME HubShape, InOrder, [HubNext]_hubVars
    PROVE  InOrder'
<1>1. CASE UNCHANGED hubVars
  <2>1. UNCHANGED <<subs, closed, chan, seen, by, event, todo, sending, wire, unsure>>
    BY <1>1 DEF hubVars, streams, thread, redis
  <2>2. \A s \in Streams : Counted(s)' = Counted(s)
    BY <2>1, SameCounted
  <2>3. StreamsInOrder'
    BY <2>1, <2>2 DEF InOrder, StreamsInOrder
  <2>4. /\ \A s \in Streams : Received(s)' = Received(s)
        /\ \A t \in Threads, s \in Streams : Carries(t, s)' => Carries(t, s)
    BY <2>1 DEF Received, Carries
  <2> QED BY <2>1, <2>3, <2>4, QuietKeepsOrder DEF InOrder, Published
<1>2. CASE HubNext
  BY <1>2, StreamsKeepOrder, PublishKeepsOrder, SendSteps, SendsKeepOrder, FinishKeepsOrder,
     ConsumeKeepsOrder, DroppedKeepsOrder, LoseReplyKeepsOrder, ExecuteKeepsOrder
     DEF HubNext, BroadcastStep, HubShape
<1> QED BY <1>1, <1>2

\* A client sees the events of one publisher at most once and in their order, although they
\* reach a process both directly and through Redis (hub.go:145-160); of another process those
\* whose PUBLISH was always answered (redisx/client.go:87), whatever happens to the others.
THEOREM EventsSeenInOrder == HubSpec => []SeenInOrder
<1>1. HubInit => HubShape /\ InOrder
  BY HubInitShape, HubInitOrder
<1>2. HubShape /\ InOrder /\ [HubNext]_hubVars => (HubShape /\ InOrder)'
  BY HubKeepsShape, HubKeepsOrder
<1>3. InOrder => SeenInOrder
  BY DEF InOrder, StreamsInOrder, Rises, SeenInOrder
<1> QED BY <1>1, <1>2, <1>3, PTL DEF HubSpec
=============================================================================
