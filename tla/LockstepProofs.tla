--------------------------- MODULE LockstepProofs ---------------------------
(***************************************************************************)
(* The safety properties of module Lockstep, for any number of sessions    *)
(* that join, are refused, load, play, time out and leave in any order,    *)
(* and for any number of frames and inputs.                                *)
(*                                                                         *)
(* Three invariants, each resting on the one before it:                    *)
(*   PInv  the places and the identifiers that the host gives out;         *)
(*   SInv  what is on its way to a session is the rest of the one script   *)
(*         that the host follows, and continues what the session holds;    *)
(*   CInv  how many inputs of a session the host has accepted.             *)
(***************************************************************************)
EXTENDS Lockstep, Induction, SequenceTheorems, FiniteSetTheorems, TLAPS

(* The states of a connection of the host. *)
ConnState == ActiveStates \cup {"absent", "connecting", "disconnected"}

(* Identifiers are given out by counting the connections that ever were:   *)
(* none has reached the next one.                                          *)
PlayersBelow ==
  \A r \in Connections : player[r] \in 2 .. Cardinality(Connections) + 1

(* The host's identifiers and its places. *)
PInv == /\ max_clients \in Nat
        /\ conn \in [Remote -> ConnState]
        /\ player \in [Remote -> Nat]
        /\ PlayersBelow
        /\ PlayersDistinct
        /\ WithinClientLimit

(* The sets that are counted are finite. *)
LEMMA Finite ==
  /\ IsFiniteSet(Connections) /\ Cardinality(Connections) \in Nat
  /\ IsFiniteSet(Active) /\ Cardinality(Active) \in Nat
<1>1. Connections \subseteq Remote /\ Active \subseteq Remote
  BY DEF Connections, Active
<1> QED BY <1>1, LockstepAssumption, FS_Subset, FS_CardinalityType

(* At first nobody has a place or an identifier. *)
LEMMA InitInvariant == Init => PInv
<1> SUFFICES ASSUME Init PROVE PInv
  OBVIOUS
<1>1. Connections = {} /\ Active = {}
  BY DEF Init, Connections, Active, ActiveStates
<1>2. Cardinality(Active) = 0 BY <1>1, FS_EmptySet
<1> QED BY <1>1, <1>2, LockstepAssumption
    DEF Init, PInv, PlayersBelow, PlayersDistinct, WithinClientLimit,
        ConnState, Null

(* An action that opens no connection and gives nobody a place keeps the   *)
(* invariant.                                                              *)
LEMMA NobodyComes ==
  ASSUME PInv, UNCHANGED <<max_clients, player>>,
         conn' \in [Remote -> ConnState],
         \A r \in Remote : /\ conn'[r] = "absent" <=> conn[r] = "absent"
                           /\ conn'[r] \in ActiveStates
                                => conn[r] \in ActiveStates
  PROVE  PInv'
<1>1. Connections' = Connections BY DEF Connections
<1>2. Active' \subseteq Active BY DEF Active
<1>3. /\ Cardinality(Active') \in Nat
      /\ Cardinality(Active') <= Cardinality(Active)
  BY <1>2, Finite, FS_Subset, FS_CardinalityType
<1>4. WithinClientLimit'
  BY <1>3, Finite DEF PInv, WithinClientLimit
<1> QED BY <1>1, <1>4 DEF PInv, PlayersBelow, PlayersDistinct

(* A new connection gets the one identifier that follows all others. *)
LEMMA OpenInvariant ==
  ASSUME PInv, UNCHANGED max_clients, NEW r \in Remote, Open(r)
  PROVE  PInv'
<1>1. /\ conn' \in [Remote -> ConnState] /\ player' \in [Remote -> Nat]
      /\ conn'[r] = "connecting" /\ player'[r] = Newcomer
      /\ r \notin Connections
      /\ \A q \in Remote \ {r} : conn'[q] = conn[q] /\ player'[q] = player[q]
  BY Finite DEF Open, PInv, ConnState, Newcomer, ID, Connections
<1>2. Connections' = Connections \cup {r} BY <1>1 DEF Connections
<1>3. Active' = Active
  BY <1>1 DEF Active, ActiveStates, Open
<1>4. Cardinality(Connections') = Cardinality(Connections) + 1
  BY <1>1, <1>2, Finite, FS_AddElement
<1>5. Newcomer = Cardinality(Connections) + 2
  BY Finite DEF Newcomer, ID
<1>6. ASSUME NEW q \in Connections'
      PROVE  \/ q = r /\ player'[q] = Cardinality(Connections) + 2
             \/ /\ q # r /\ q \in Connections
                /\ player'[q] \in 2 .. Cardinality(Connections) + 1
                /\ player'[q] = player[q]
  BY <1>1, <1>2, <1>5 DEF PInv, PlayersBelow, Connections
<1>7. PlayersBelow' BY <1>4, <1>6, Finite DEF PlayersBelow
<1>8. PlayersDistinct'
  BY <1>6, Finite DEF PInv, PlayersDistinct, Null, HostOwner, ID
<1>9. WithinClientLimit' BY <1>3 DEF PInv, WithinClientLimit
<1> QED BY <1>1, <1>7, <1>8, <1>9 DEF PInv

(* A join takes a place only while there is one. *)
LEMMA ReceiveJoinInvariant ==
  ASSUME PInv, UNCHANGED max_clients, NEW r \in Remote, ReceiveJoin(r)
  PROVE  PInv'
<1>1. CASE UNCHANGED connVars
  BY <1>1, NobodyComes DEF connVars, PInv
<1>2. CASE conn[r] = "connecting" /\ Close(r)
  BY <1>2, NobodyComes DEF Close, Shut, PInv, ConnState, ActiveStates
<1>3. CASE /\ conn[r] = "connecting" /\ HasRoom
           /\ conn' = [conn EXCEPT ![r] = "logging_in"]
           /\ UNCHANGED player
  <2>1. Connections' = Connections /\ conn' \in [Remote -> ConnState]
    BY <1>3 DEF Connections, PInv, ConnState, ActiveStates
  <2>2. Active' \subseteq Active \cup {r}
    BY <1>3 DEF Active, PInv
  <2>3. /\ IsFiniteSet(Active \cup {r})
        /\ Cardinality(Active \cup {r}) <= Cardinality(Active) + 1
        /\ Cardinality(Active \cup {r}) \in Nat
    <3>1. IsFiniteSet(Active) /\ Cardinality(Active) \in Nat BY Finite
    <3>2. /\ IsFiniteSet(Active \cup {r})
          /\ Cardinality(Active \cup {r}) =
               IF r \in Active THEN Cardinality(Active)
               ELSE Cardinality(Active) + 1
      BY <3>1, FS_AddElement
    <3> QED BY <3>1, <3>2
  <2>4. /\ Cardinality(Active') \in Nat
        /\ Cardinality(Active') <= Cardinality(Active) + 1
    BY <2>2, <2>3, Finite, FS_Subset, FS_CardinalityType
  <2>5. WithinClientLimit'
    BY <1>3, <2>4, Finite DEF HasRoom, WithinClientLimit, PInv
  <2> QED BY <1>3, <2>1, <2>5 DEF PInv, PlayersBelow, PlayersDistinct
<1> QED BY <1>1, <1>2, <1>3 DEF ReceiveJoin

(* Closing a connection opens none. *)
LEMMA ShutInvariant ==
  ASSUME PInv, UNCHANGED max_clients, NEW r \in Remote, Shut(r),
         conn[r] # "absent"
  PROVE  PInv'
BY NobodyComes DEF Shut, PInv, ConnState, ActiveStates

(* No step gives out a place too many or an identifier twice. *)
LEMMA NextInvariant == PInv /\ [Next /\ UNCHANGED max_clients]_vars => PInv'
<1> SUFFICES ASSUME PInv, [Next /\ UNCHANGED max_clients]_vars PROVE PInv'
  OBVIOUS
<1>1. CASE UNCHANGED <<max_clients, connVars>>
  BY <1>1, NobodyComes DEF connVars, PInv
<1>2. CASE UNCHANGED vars
  BY <1>1, <1>2 DEF vars, sessionVars
<1>3. CASE Next /\ UNCHANGED max_clients
  <2>1. CASE HostDisconnect
    BY <2>1, <1>3, NobodyComes
    DEF HostDisconnect, PInv, ConnState, ActiveStates
  <2>2. CASE HostSubmit \/ Advance
    BY <2>2, <1>1, <1>3 DEF HostSubmit, Advance
  <2>3. ASSUME NEW r \in Remote, Open(r) PROVE PInv'
    BY <2>3, <1>3, OpenInvariant
  <2>4. ASSUME NEW r \in Remote, ReceiveJoin(r) PROVE PInv'
    BY <2>4, <1>3, ReceiveJoinInvariant
  <2>5. ASSUME NEW r \in Remote, ReceiveLoaded(r) PROVE PInv'
    <3>1. CASE Breach(r)
      BY <3>1, <2>5, <1>3, ShutInvariant DEF Breach, ReceiveLoaded, Arrives
    <3>2. CASE /\ conn[r] = "downloading_snapshot" /\ UNCHANGED player
               /\ conn' = [conn EXCEPT ![r] = "joined"]
      BY <3>2, <2>5, <1>3, NobodyComes DEF PInv, ConnState, ActiveStates
    <3> QED BY <2>5, <3>1, <3>2 DEF ReceiveLoaded
  <2>6. ASSUME NEW r \in Remote, ReceiveInput(r) PROVE PInv'
    <3>1. CASE Shut(r)
      BY <3>1, <2>6, <1>3, ShutInvariant DEF ReceiveInput, Arrives
    <3> QED BY <2>6, <3>1, <1>1, <1>3 DEF ReceiveInput, Breach, Close
  <2>7. ASSUME NEW r \in Remote,
               \/ ReceiveDisconnect(r) \/ HostTimeout(r) \/ DisconnectPeer(r)
        PROVE  PInv'
    BY <2>7, <1>3, ShutInvariant
    DEF ReceiveDisconnect, HostTimeout, DisconnectPeer, Arrives, Close,
        TimedStates
  <2>8. ASSUME NEW r \in Remote,
               \/ RequestSnapshot(r) \/ AcceptLogin(r) \/ SendSnapshot(r)
        PROVE  PInv'
    BY <2>8, <1>3, NobodyComes
    DEF RequestSnapshot, AcceptLogin, SendSnapshot, PInv, ConnState,
        ActiveStates
  <2>9. ASSUME NEW r \in Remote,
               \/ Login(r) \/ RemoteTimeout(r) \/ FinishLoad(r)
               \/ RemoteSubmit(r) \/ RemoteDisconnect(r) \/ LoseTail(r)
               \/ \E n \in 0 .. Len(down[r]) : RemoteUpdate(r, n)
        PROVE  PInv'
    BY <2>9, <1>1, <1>3
    DEF Login, RemoteTimeout, FinishLoad, RemoteSubmit, RemoteDisconnect,
        LoseTail, RemoteUpdate
  <2> QED BY <1>3, <2>1, <2>2, <2>3, <2>4, <2>5, <2>6, <2>7, <2>8, <2>9
      DEF Next
<1> QED BY <1>2, <1>3

(* The places and the identifiers, in every state. *)
LEMMA Invariance == Spec => []PInv
BY InitInvariant, NextInvariant, PTL DEF Spec

(* However joins, refusals, time limits and departures mix, the host never *)
(* has more sessions in a place than max_clients allows.                   *)
THEOREM PlacesAreLimited == Spec => []WithinClientLimit
<1>1. PInv => WithinClientLimit BY DEF PInv
<1> QED BY <1>1, Invariance, PTL

(* The identifier that the host gives a session is never the host's own    *)
(* nor that of another, not even of one that has left.                     *)
THEOREM IdentifiersAreDistinct == Spec => []PlayersDistinct
<1>1. PInv => PlayersDistinct BY DEF PInv
<1> QED BY <1>1, Invariance, PTL

-----------------------------------------------------------------------------
(* The sort of HostSession::advance. *)
Input == [source : Nat, id : Nat]

(* p puts the first n inputs of s in order. *)
Arranges(p, s, n) ==
  /\ p \in Bijection(1 .. n, 1 .. n)
  /\ \A i, j \in 1 .. n : i < j => ~ InputOrder(s[p[j]], s[p[i]])

(* An arrangement of the first n inputs takes in the next one. *)
LEMMA Inserted ==
  ASSUME NEW s \in Seq(Input), NEW n \in Nat, n + 1 \in 1 .. Len(s),
         NEW p, Arranges(p, s, n)
  PROVE  \E q : Arranges(q, s, n + 1)
<1> DEFINE x == s[n + 1]
           Above == {m \in 1 .. n : InputOrder(x, s[p[m]])} \cup {n + 1}
<1>1. /\ p \in [1 .. n -> 1 .. n] /\ x \in Input
      /\ \A i, j \in 1 .. n : p[i] = p[j] => i = j
      /\ \A i \in 1 .. n : \E j \in 1 .. n : p[j] = i
      /\ \A i \in 1 .. n : s[p[i]] \in Input
  <2>1. /\ p \in [1 .. n -> 1 .. n]
        /\ \A i, j \in 1 .. n : p[i] = p[j] => i = j
        /\ \A i \in 1 .. n : \E j \in 1 .. n : p[j] = i
    BY DEF Arranges, Bijection, Injection, Surjection, IsInjective
  <2>2. \A i \in 1 .. n + 1 : s[i] \in Input
    OBVIOUS
  <2>3. ASSUME NEW i \in 1 .. n PROVE s[p[i]] \in Input
    <3>1. p[i] \in 1 .. n
      BY <2>1
    <3>2. p[i] \in 1 .. n + 1
      BY <3>1
    <3> QED BY <2>2, <3>2
  <2>4. x \in Input
    BY <2>2
  <2> HIDE DEF x
  <2> QED BY <2>1, <2>3, <2>4
<1>2. PICK m \in Above : \A i \in Above : m <= i
  <2>1. Above \in SUBSET Nat /\ Above # {}
    OBVIOUS
  <2> HIDE DEF Above
  <2> QED BY <2>1, LeastNumber
<1>3. /\ m \in 1 .. n + 1
      /\ \A i \in 1 .. n : i < m => ~ InputOrder(x, s[p[i]])
      /\ m # n + 1 => InputOrder(x, s[p[m]])
  <2>1. m \in 1 .. n + 1 /\ (m # n + 1 => InputOrder(x, s[p[m]]))
    BY <1>2
  <2>2. ASSUME NEW i \in 1 .. n, i < m PROVE ~ InputOrder(x, s[p[i]])
    <3>1. i \notin Above
      <4>1. i \in Int /\ m \in Int
        BY <2>1
      <4> HIDE DEF Above
      <4> QED BY <2>2, <1>2, <4>1
    <3> QED BY <3>1
  <2> HIDE DEF x
  <2> QED BY <1>2, <2>2
<1> DEFINE q == [i \in 1 .. n + 1 |->
                   IF i < m THEN p[i] ELSE IF i = m THEN n + 1 ELSE p[i - 1]]
<1> HIDE DEF Above
<1>4. q \in [1 .. n + 1 -> 1 .. n + 1]
  <2> SUFFICES ASSUME NEW i \in 1 .. n + 1
               PROVE  (IF i < m THEN p[i]
                       ELSE IF i = m THEN n + 1 ELSE p[i - 1]) \in 1 .. n + 1
    OBVIOUS
  <2>1. i < m => i \in 1 .. n
    BY <1>3
  <2>2. i > m => i - 1 \in 1 .. n
    BY <1>3
  <2>3. ASSUME NEW h \in 1 .. n PROVE p[h] \in 1 .. n + 1
    <3>1. p[h] \in 1 .. n
      BY <1>1
    <3> QED BY <3>1
  <2> QED BY <2>1, <2>2, <2>3, <1>3
<1>5. \A i, j \in 1 .. n + 1 : q[i] = q[j] => i = j
  <2> SUFFICES ASSUME NEW i \in 1 .. n + 1, NEW j \in 1 .. n + 1, i < j
               PROVE  q[i] # q[j]
    OBVIOUS
  <2>1. CASE j < m
    BY <2>1, <1>1, <1>3
  <2>2. CASE j = m
    BY <2>2, <1>1, <1>3
  <2>3. CASE j > m
    <3>1. q[j] = p[j - 1] /\ j - 1 \in 1 .. n
      BY <2>3, <1>3
    <3>2. CASE i < m
      <4>1. q[i] = p[i] /\ i # j - 1 /\ i \in 1 .. n
        BY <3>2, <1>3, <2>3
      <4> HIDE DEF q
      <4> QED BY <4>1, <3>1, <1>1
    <3>3. CASE i = m
      BY <3>1, <3>3, <1>1, <1>3
    <3>4. CASE i > m
      <4>1. q[i] = p[i - 1] /\ i - 1 # j - 1 /\ i - 1 \in 1 .. n
        BY <3>4, <1>3
      <4> QED BY <4>1, <3>1, <1>1
    <3> QED BY <3>2, <3>3, <3>4, <1>3
  <2> QED BY <2>1, <2>2, <2>3, <1>3
<1>6. \A i \in 1 .. n + 1 : \E j \in 1 .. n + 1 : q[j] = i
  <2> SUFFICES ASSUME NEW i \in 1 .. n + 1 PROVE \E j \in 1 .. n + 1 : q[j] = i
    OBVIOUS
  <2>1. CASE i = n + 1
    BY <2>1, <1>3
  <2>2. CASE i # n + 1
    <3>1. PICK j \in 1 .. n : p[j] = i
      BY <2>2, <1>1
    <3>2. j < m => q[j] = i
      BY <3>1
    <3>3. ~ (j < m) => j + 1 \in 1 .. n + 1 /\ q[j + 1] = i
      BY <3>1, <1>3
    <3> QED BY <3>1, <3>2, <3>3
  <2> QED BY <2>1, <2>2
<1>7. \A i, j \in 1 .. n + 1 : i < j => ~ InputOrder(s[q[j]], s[q[i]])
  <2> SUFFICES ASSUME NEW i \in 1 .. n + 1, NEW j \in 1 .. n + 1, i < j
               PROVE  ~ InputOrder(s[q[j]], s[q[i]])
    OBVIOUS
  <2>0. \A a, b \in 1 .. n : a < b => ~ InputOrder(s[p[b]], s[p[a]])
    BY DEF Arranges
  <2>1. CASE j < m
    <3>1. q[i] = p[i] /\ q[j] = p[j] /\ i \in 1 .. n /\ j \in 1 .. n
      BY <2>1, <1>3
    <3> HIDE DEF q
    <3> QED BY <3>1, <2>0
  <2>2. CASE j = m
    <3>1. q[i] = p[i] /\ s[q[j]] = x /\ i \in 1 .. n /\ i < m
      BY <2>2, <1>3
    <3> HIDE DEF q, x
    <3> QED BY <3>1, <1>3
  <2>3. CASE j > m
    <3>1. q[j] = p[j - 1] /\ j - 1 \in 1 .. n /\ m # n + 1 /\ m \in 1 .. n
      BY <2>3, <1>3
    <3>2. CASE i < m
      <4>1. q[i] = p[i] /\ i < j - 1 /\ i \in 1 .. n
        BY <3>2, <1>3, <2>3
      <4> HIDE DEF q
      <4> QED BY <4>1, <3>1, <2>0
    <3>3. CASE i = m
      <4>1. s[q[i]] = x
        BY <3>3, <1>3
      <4>2. InputOrder(x, s[p[m]])
        BY <1>3, <3>1
      <4>3. m = j - 1 \/ ~ InputOrder(s[p[j - 1]], s[p[m]])
        BY <2>0, <3>1, <2>3
      <4>4. s[p[m]] \in Input /\ s[p[j - 1]] \in Input
        BY <1>1, <3>1
      <4> DEFINE a == s[p[m]]
                 b == s[p[j - 1]]
      <4>5. a \in Input /\ b \in Input /\ x \in Input /\ InputOrder(x, a)
            /\ (a = b \/ ~ InputOrder(b, a))
        BY <4>2, <4>3, <4>4, <1>1
      <4>6. s[q[j]] = b
        BY <3>1
      <4> HIDE DEF a, b, x, q
      <4>7. ~ InputOrder(b, x)
        <5>1. /\ a.source \in Nat /\ b.source \in Nat /\ x.source \in Nat
              /\ a.id \in Nat /\ b.id \in Nat /\ x.id \in Nat
          BY <4>5 DEF Input
        <5> QED BY <4>5, <5>1 DEF InputOrder
      <4> QED BY <4>1, <4>6, <4>7
    <3>4. CASE i > m
      <4>1. q[i] = p[i - 1] /\ i - 1 < j - 1 /\ i - 1 \in 1 .. n
        BY <3>4, <1>3
      <4> HIDE DEF q
      <4> QED BY <4>1, <3>1, <2>0
    <3> QED BY <3>2, <3>3, <3>4, <1>3
  <2> QED BY <2>1, <2>2, <2>3, <1>3
<1>8. Arranges(q, s, n + 1)
  <2> HIDE DEF q
  <2> QED BY <1>4, <1>5, <1>6, <1>7
      DEF Arranges, Bijection, Injection, Surjection, IsInjective
<1> QED BY <1>8

(* What std::stable_sort leaves: the same inputs, in order. *)
LEMMA SortedArranged ==
  ASSUME NEW s \in Seq(Input)
  PROVE  \E p \in Bijection(1 .. Len(s), 1 .. Len(s)) :
           /\ Sorted(s) = [i \in 1 .. Len(s) |-> s[p[i]]]
           /\ \A i, j \in 1 .. Len(s) :
                i < j => ~ InputOrder(Sorted(s)[j], Sorted(s)[i])
<1> DEFINE T == {n \in 0 .. Len(s) : \E p : Arranges(p, s, n)}
           P(t) == \A i, j \in 1 .. Len(s) : i < j => ~ InputOrder(t[j], t[i])
           A == {[i \in 1 .. Len(s) |-> s[p[i]]] :
                   p \in Bijection(1 .. Len(s), 1 .. Len(s))}
<1>0. Len(s) \in Nat /\ DOMAIN s = 1 .. Len(s)
  OBVIOUS
<1>1. 0 \in T
  <2>1. Arranges(<<>>, s, 0)
    BY DEF Arranges, Bijection, Injection, Surjection, IsInjective
  <2> QED BY <2>1
<1>2. ASSUME NEW n \in 0 .. Len(s) - 1, n \in T PROVE n + 1 \in T
  <2>1. PICK p : Arranges(p, s, n)
    BY <1>2
  <2>2. n \in Nat /\ n + 1 \in 1 .. Len(s)
    BY <1>0
  <2>3. \E q : Arranges(q, s, n + 1)
    BY <2>1, <2>2, Inserted
  <2> QED BY <2>2, <2>3
<1>3. Len(s) \in T
  <2> HIDE DEF T
  <2>1. 0 .. Len(s) \subseteq T
    BY <1>0, <1>1, <1>2, IntervalInduction
  <2> QED BY <1>0, <2>1
<1>4. PICK p : Arranges(p, s, Len(s))
  BY <1>3
<1>5. /\ p \in Bijection(1 .. Len(s), 1 .. Len(s))
      /\ p \in [1 .. Len(s) -> 1 .. Len(s)]
      /\ \A i, j \in 1 .. Len(s) : i < j => ~ InputOrder(s[p[j]], s[p[i]])
  BY <1>4 DEF Arranges, Bijection, Injection
<1> DEFINE arranged == [i \in 1 .. Len(s) |-> s[p[i]]]
<1>6. arranged \in A /\ P(arranged)
  BY <1>5
<1>7. Sorted(s) = CHOOSE t \in A : P(t)
  BY <1>0 DEF Sorted
<1>8. Sorted(s) \in A /\ P(Sorted(s))
  <2> HIDE DEF A, P, arranged
  <2> QED BY <1>6, <1>7
<1> QED BY <1>8

-----------------------------------------------------------------------------
(* A session, the messages on their way to it and the host's connection *)

Frame == [tick : Nat, inputs : Seq(Input)]

(* What is sent, and where a session can be. *)
SessionState ==
  {"connecting", "logging_in", "preparing_snapshot", "downloading_snapshot",
   "catching_up", "joined", "disconnected"}

(* No session ends for a breach of the protocol. *)
Session ==
  [state : SessionState, owner : Nat, tick : Nat, announced : BOOLEAN,
   delivered : BOOLEAN, buffered : Seq(Frame), next : Nat,
   applied : Seq(Frame), base : Nat,
   cause : {"none", "told", "timeout", "left"}]

DownMessage ==
  [type : {"welcome"}, player : Nat]
    \cup [type : {"snapshot_begin"}, tick : Nat]
    \cup [type : {"snapshot", "disconnect"}]
    \cup [type : {"frame"}, frame : Frame]

UpMessage ==
  [type : {"join", "loaded", "disconnect"}]
    \cup [type : {"input"}, id : Nat \ {Null}]

(* The frames that the host has made. *)
Made(made) ==
  /\ made \in Seq(Frame)
  /\ \A t \in 1 .. Len(made) : made[t].tick = t

(* The frames that s has run, and those that wait. *)
Ran(s) == Len(s.applied)
Waiting(s) == Len(s.buffered)

(* What s has run and what it holds back are the host's frames. *)
InOrder(s, made) ==
  /\ s.tick = s.base + Ran(s)
  /\ s.tick + Waiting(s) <= Len(made)
  /\ \A i \in 1 .. Ran(s) : s.applied[i] = made[s.base + i]
  /\ \A i \in 1 .. Waiting(s) : s.buffered[i] = made[s.tick + i]
  /\ s.state \in {"connecting", "logging_in", "preparing_snapshot"} =>
       s.applied = <<>> /\ s.buffered = <<>> /\ ~ s.delivered
  /\ s.state = "downloading_snapshot" =>
       /\ s.announced /\ s.applied = <<>>
       /\ ~ s.delivered => s.buffered = <<>>

(* All that the host sends, in order, is the welcome, the announcement of  *)
(* the snapshot, the snapshot, and the frames after it.  How many of these *)
(* a session has read:                                                     *)
Position(s) ==
  IF s.state = "logging_in" THEN 0
  ELSE IF s.state = "preparing_snapshot" THEN 1
  ELSE IF s.state = "downloading_snapshot" /\ ~ s.delivered THEN 2
  ELSE 3 + Ran(s) + Waiting(s)

(* The tick of the snapshot, of which k messages of q have been read. *)
Base(s, q, k) ==
  IF s.state = "preparing_snapshot" THEN q[k + 1].tick ELSE s.base

(* The message that is the place-th of that script. *)
Script(m, place, p, b, made) ==
  \/ place = 1 /\ m.type = "welcome" /\ m.player = p
  \/ /\ place = 2 /\ m.type = "snapshot_begin"
     /\ m.tick = b /\ b \in 0 .. Len(made)
  \/ place = 3 /\ m.type = "snapshot"
  \/ /\ place > 3 /\ m.type = "frame"
     /\ b + place - 3 \in 1 .. Len(made) /\ m.frame = made[b + place - 3]

(* The messages of q after the first k come when s expects them. *)
Due(s, q, k, p, made) ==
  \A i \in k + 1 .. Len(q) :
    \/ q[i].type = "disconnect" /\ i = Len(q)
    \/ /\ s.state = "logging_in" => i = k + 1
       /\ Script(q[i], Position(s) + i - k, p, Base(s, q, k), made)

(* With what is on its way, s has all of the host's frames. *)
UpToDate(s, q, k, made) ==
  Position(s) + Len(q) - k = 3 + Len(made) - Base(s, q, k)

(* Where a session is whose connection is in state c. *)
Where(c, s, q, k, made) ==
  /\ c = "absent" => s.state \in {"connecting", "logging_in"}
  /\ c \in {"connecting", "logging_in"} => s.state = "logging_in"
  /\ c = "preparing_snapshot" => s.state = "preparing_snapshot"
  /\ c \in {"absent", "connecting", "logging_in", "preparing_snapshot"} =>
       Len(q) = k
  /\ c = "accepting" =>
       \/ s.state = "logging_in" /\ Len(q) = k + 1
       \/ s.state = "preparing_snapshot" /\ Len(q) = k
  /\ c = "downloading_snapshot" =>
       /\ s.state \in {"preparing_snapshot", "downloading_snapshot",
                       "catching_up", "joined"}
       /\ s.state = "preparing_snapshot" => Len(q) >= k + 2
       /\ UpToDate(s, q, k, made)
  /\ c = "joined" =>
       s.state \in {"catching_up", "joined"} /\ UpToDate(s, q, k, made)
  /\ s.state = "connecting" => c = "absent"
  /\ c # "disconnected" =>
       \A i \in k + 1 .. Len(q) : q[i].type # "disconnect"

(* A session, and the messages of q that are still to be read. *)
Follows(s, q, k, c, p, made) ==
  /\ InOrder(s, made)
  /\ s.state # "disconnected" =>
       /\ s.owner = IF s.state \in {"connecting", "logging_in"} THEN Null
                    ELSE p
       /\ Due(s, q, k, p, made)
       /\ Where(c, s, q, k, made)

(* What a session holds. *)
LEMMA SequencesType ==
  ASSUME NEW s \in Session
  PROVE  /\ s.applied \in Seq(Frame) /\ s.buffered \in Seq(Frame)
         /\ Ran(s) = Len(s.applied) /\ Waiting(s) = Len(s.buffered)
BY DEF Session, Ran, Waiting

(* The positions of w elements after the first a of n. *)
LEMMA Within ==
  ASSUME NEW a \in Nat, NEW w \in Nat, NEW n \in Nat, a + w <= n
  PROVE  \A i \in 1 .. w : a + i \in 1 .. n
OBVIOUS

(* The numbers that say where a session is. *)
LEMMA PositionType ==
  ASSUME NEW s \in Session
  PROVE  /\ Position(s) \in Nat /\ s.base \in Nat /\ s.state \in SessionState
         /\ Ran(s) \in Nat /\ Waiting(s) \in Nat /\ s.tick \in Nat
<1>1. s.base \in Nat /\ s.state \in SessionState /\ s.tick \in Nat
  BY DEF Session
<1>2. Ran(s) \in Nat
  BY SequencesType
<1>3. Waiting(s) \in Nat
  BY SequencesType
<1>4. 3 + Ran(s) + Waiting(s) \in Nat
  BY <1>2, <1>3
<1>5. Position(s) \in Nat
  BY <1>4 DEF Position
<1> QED BY <1>1, <1>2, <1>3, <1>5

(* Sessions that hold the same frames hold as many. *)
LEMMA HeldSame ==
  ASSUME NEW s, NEW t
  PROVE  /\ t.applied = s.applied => Ran(t) = Ran(s)
         /\ t.buffered = s.buffered => Waiting(t) = Waiting(s)
         /\ s.applied = <<>> => Ran(s) = 0
         /\ s.buffered = <<>> => Waiting(s) = 0
BY DEF Ran, Waiting

(* A session that reads the next d messages. *)
LEMMA Advances ==
  ASSUME NEW s \in Session, NEW t \in Session, NEW made \in Seq(Frame),
         NEW q \in Seq(DownMessage), NEW d \in 0 .. 1, NEW k \in Nat,
         k + d <= Len(q), NEW c, NEW p,
         Due(s, q, k, p, made), Where(c, s, q, k, made),
         s.state \in {"preparing_snapshot", "downloading_snapshot",
                      "catching_up", "joined"},
         t.state \in {"downloading_snapshot", "catching_up", "joined"},
         s.state \in {"catching_up", "joined"} =>
           t.state \in {"catching_up", "joined"},
         s.state = "preparing_snapshot" => d = 1,
         Position(t) = Position(s) + d, t.base = Base(s, q, k)
  PROVE  Due(t, q, k + d, p, made) /\ Where(c, t, q, k + d, made)
<1>1. /\ Position(s) \in Nat /\ Position(t) \in Nat /\ t.base \in Nat
      /\ Len(q) \in Nat /\ Len(made) \in Nat
  BY PositionType
<1>2. Base(t, q, k + d) = t.base
  BY DEF Base
<1>3. ASSUME NEW i \in k + d + 1 .. Len(q)
      PROVE  \/ q[i].type = "disconnect" /\ i = Len(q)
             \/ Script(q[i], Position(t) + i - (k + d), p, t.base, made)
  <2>1. i \in k + 1 .. Len(q)
    OBVIOUS
  <2>2. Position(t) + i - (k + d) = Position(s) + i - k
    BY <1>1
  <2> QED BY <2>1, <2>2 DEF Due
<1>4. Due(t, q, k + d, p, made)
  BY <1>2, <1>3 DEF Due
<1>5. UpToDate(s, q, k, made) => UpToDate(t, q, k + d, made)
  BY <1>1, <1>2 DEF UpToDate
<1>6. Where(c, t, q, k + d, made)
  <2>1. \A i \in k + d + 1 .. Len(q) : i \in k + 1 .. Len(q)
    OBVIOUS
  <2>2. c \notin {"absent", "connecting", "logging_in", "preparing_snapshot",
                  "accepting"}
    BY <1>1 DEF Where
  <2> QED BY <2>1, <2>2, <1>5 DEF Where
<1> QED BY <1>4, <1>6

(* RemoteSession::receive: every message finds the session ready for it.   *)
LEMMA WelcomeFollows ==
  ASSUME NEW s \in Session, NEW q \in Seq(DownMessage), NEW k \in Nat,
         k < Len(q), NEW c, NEW p \in Nat, p # Null, NEW made \in Seq(Frame),
         Follows(s, q, k, c, p, made), s.state = "logging_in",
         q[k + 1].type # "disconnect"
  PROVE  /\ Handled(s, q[k + 1]) \in Session
         /\ Follows(Handled(s, q[k + 1]), q, k + 1, c, p, made)
<1> DEFINE m == q[k + 1]
           t == [s EXCEPT !.state = "preparing_snapshot", !.owner = p]
<1>1. /\ k + 1 \in k + 1 .. Len(q) /\ Len(q) \in Nat
      /\ Position(s) + (k + 1) - k = 1
  BY DEF Position
<1>2. m.type = "welcome" /\ m.player = p
  <2>1. Script(m, Position(s) + (k + 1) - k, p, Base(s, q, k), made)
    BY <1>1 DEF Follows, Due
  <2> HIDE DEF m
  <2> QED BY <1>1, <2>1 DEF Script
<1>3. Handled(s, m) = t
  BY <1>2 DEF Handled, Welcomed
<1>4. /\ t \in Session /\ t.state = "preparing_snapshot" /\ t.owner = p
      /\ t.tick = s.tick /\ t.base = s.base /\ t.applied = s.applied
      /\ t.buffered = s.buffered /\ t.delivered = s.delivered
  BY DEF Session, SessionState
<1> HIDE DEF t, m
<1>5. InOrder(t, made)
  BY <1>4, HeldSame DEF Follows, InOrder
<1>6. ASSUME NEW i \in k + 2 .. Len(q)
      PROVE  q[i].type = "disconnect" /\ i = Len(q)
  <2>1. i \in k + 1 .. Len(q) /\ i # k + 1
    OBVIOUS
  <2> QED BY <2>1 DEF Follows, Due
<1>7. Due(t, q, k + 1, p, made)
  BY <1>6 DEF Due
<1>8. Where(c, t, q, k + 1, made)
  BY <1>1, <1>4, <1>6 DEF Follows, Where
<1> QED BY <1>3, <1>4, <1>5, <1>7, <1>8 DEF Follows, m

(* The message that is due. *)
LEMMA DueNext ==
  ASSUME NEW s \in Session, NEW q \in Seq(DownMessage), NEW k \in Nat,
         k < Len(q), NEW p, NEW made, Due(s, q, k, p, made),
         q[k + 1].type # "disconnect"
  PROVE  /\ k + 1 \in 1 .. Len(q) /\ q[k + 1] \in DownMessage
         /\ Script(q[k + 1], Position(s) + 1, p, Base(s, q, k), made)
<1>1. k + 1 \in k + 1 .. Len(q) /\ k + 1 \in 1 .. Len(q) /\ Len(q) \in Nat
  OBVIOUS
<1>2. Position(s) + (k + 1) - k = Position(s) + 1
  BY PositionType
<1>3. Script(q[k + 1], Position(s) + (k + 1) - k, p, Base(s, q, k), made)
  BY <1>1 DEF Due
<1> QED BY <1>1, <1>2, <1>3

(* The announcement of the snapshot sets the tick that the frames follow. *)
LEMMA AnnouncementFollows ==
  ASSUME NEW s \in Session, NEW q \in Seq(DownMessage), NEW k \in Nat,
         k < Len(q), NEW c, NEW p, NEW made \in Seq(Frame),
         Follows(s, q, k, c, p, made), s.state = "preparing_snapshot",
         q[k + 1].type # "disconnect"
  PROVE  /\ Handled(s, q[k + 1]) \in Session
         /\ Follows(Handled(s, q[k + 1]), q, k + 1, c, p, made)
<1> DEFINE m == q[k + 1]
           t == [s EXCEPT !.state = "downloading_snapshot",
                          !.announced = TRUE, !.tick = m.tick,
                          !.base = m.tick]
<1>1. /\ Due(s, q, k, p, made) /\ Where(c, s, q, k, made) /\ s.owner = p
      /\ s.applied = <<>> /\ s.buffered = <<>> /\ ~ s.delivered
  BY DEF Follows, InOrder
<1>2. Position(s) = 1 /\ Base(s, q, k) = m.tick /\ m \in DownMessage
  BY <1>1, DueNext DEF Position, Base
<1>3. Script(m, 2, p, m.tick, made)
  BY <1>1, <1>2, DueNext
<1> HIDE DEF m
<1>4. m.type = "snapshot_begin" /\ m.tick <= Len(made)
  BY <1>3 DEF Script
<1>5. m.tick \in Nat
  BY <1>2, <1>4 DEF DownMessage
<1>6. Handled(s, m) = t
  BY <1>4 DEF Handled, SnapshotBegun
<1>7. /\ t \in Session /\ t.state = "downloading_snapshot" /\ t.announced
      /\ t.owner = p /\ t.tick = m.tick /\ t.base = m.tick
      /\ t.applied = <<>> /\ t.buffered = <<>> /\ ~ t.delivered
  BY <1>1, <1>5 DEF Session, SessionState
<1> HIDE DEF t
<1>8. Position(t) = Position(s) + 1
  BY <1>2, <1>7 DEF Position
<1>9. InOrder(t, made)
  <2>1. Ran(t) = 0 /\ Waiting(t) = 0
    BY <1>7, HeldSame
  <2>2. t.tick = t.base + Ran(t) /\ t.tick + Waiting(t) <= Len(made)
    BY <1>4, <1>5, <1>7, <2>1
  <2> QED BY <1>7, <2>1, <2>2 DEF InOrder
<1>10. Due(t, q, k + 1, p, made) /\ Where(c, t, q, k + 1, made)
  <2>1. 1 \in 0 .. 1 /\ k + 1 <= Len(q) /\ t.base = Base(s, q, k)
    BY <1>2, <1>7
  <2> QED BY <1>1, <1>7, <1>8, <2>1, Advances
<1> QED BY <1>6, <1>7, <1>9, <1>10 DEF Follows, m

(* The snapshot comes while it is expected, and only once. *)
LEMMA SnapshotFollows ==
  ASSUME NEW s \in Session, NEW q \in Seq(DownMessage), NEW k \in Nat,
         k < Len(q), NEW c, NEW p, NEW made \in Seq(Frame),
         Follows(s, q, k, c, p, made),
         s.state = "downloading_snapshot", ~ s.delivered,
         q[k + 1].type # "disconnect"
  PROVE  /\ Handled(s, q[k + 1]) \in Session
         /\ Follows(Handled(s, q[k + 1]), q, k + 1, c, p, made)
<1> DEFINE m == q[k + 1]
           t == [s EXCEPT !.delivered = TRUE]
<1>1. /\ Due(s, q, k, p, made) /\ Where(c, s, q, k, made) /\ s.owner = p
      /\ InOrder(s, made)
      /\ s.announced /\ s.applied = <<>> /\ s.buffered = <<>>
  BY DEF Follows, InOrder
<1>2. Position(s) = 2 /\ Base(s, q, k) = s.base
  BY DEF Position, Base
<1>3. Script(m, 3, p, s.base, made)
  BY <1>1, <1>2, DueNext
<1> HIDE DEF m
<1>4. m.type = "snapshot"
  BY <1>3 DEF Script
<1>5. Handled(s, m) = t
  BY <1>1, <1>4 DEF Handled, SnapshotArrived
<1>6. /\ t \in Session /\ t.state = s.state /\ t.announced = s.announced
      /\ t.owner = s.owner /\ t.tick = s.tick /\ t.base = s.base
      /\ t.applied = s.applied /\ t.buffered = s.buffered /\ t.delivered
  BY DEF Session
<1> HIDE DEF t
<1>7. Position(t) = Position(s) + 1
  <2>1. Ran(t) = 0 /\ Waiting(t) = 0
    BY <1>1, <1>6, HeldSame
  <2> QED BY <1>2, <1>6, <2>1 DEF Position
<1>8. InOrder(t, made)
  BY <1>1, <1>6, HeldSame DEF InOrder
<1>9. Due(t, q, k + 1, p, made) /\ Where(c, t, q, k + 1, made)
  <2>1. 1 \in 0 .. 1 /\ k + 1 <= Len(q) /\ t.base = Base(s, q, k)
    BY <1>2, <1>6
  <2> QED BY <1>1, <1>6, <1>7, <2>1, Advances
<1> QED BY <1>1, <1>5, <1>6, <1>8, <1>9 DEF Follows, m

(* A frame is the one after those that the session has run or holds back. *)
LEMMA FrameFollows ==
  ASSUME NEW s \in Session, NEW q \in Seq(DownMessage), NEW k \in Nat,
         k < Len(q), NEW c, NEW p, NEW made, Made(made),
         Follows(s, q, k, c, p, made),
         \/ s.state = "downloading_snapshot" /\ s.delivered
         \/ s.state \in {"catching_up", "joined"},
         q[k + 1].type # "disconnect"
  PROVE  /\ Handled(s, q[k + 1]) \in Session
         /\ Follows(Handled(s, q[k + 1]), q, k + 1, c, p, made)
<1> DEFINE m == q[k + 1]
           t == [s EXCEPT !.buffered = Append(@, m.frame)]
           place == Position(s) + 1
<1>1. /\ Due(s, q, k, p, made) /\ Where(c, s, q, k, made) /\ s.owner = p
      /\ InOrder(s, made) /\ made \in Seq(Frame)
  BY DEF Follows, Made
<1>2. /\ Position(s) = 3 + Ran(s) + Waiting(s)
      /\ Base(s, q, k) = s.base
  BY DEF Position, Base
<1>3. Script(m, place, p, s.base, made) /\ m \in DownMessage
  BY <1>1, <1>2, DueNext
<1>0. /\ s.tick = s.base + Ran(s) /\ s.base \in Nat /\ s.tick \in Nat
      /\ Ran(s) \in Nat /\ Waiting(s) \in Nat
  BY <1>1, PositionType DEF InOrder
<1> HIDE DEF m
<1>4. place > 3 /\ s.base + place - 3 = s.tick + Waiting(s) + 1
  BY <1>0, <1>2, SMTT(30)
<1>5. /\ m.type = "frame" /\ s.tick + Waiting(s) + 1 <= Len(made)
      /\ m.frame = made[s.tick + Waiting(s) + 1]
  <2> HIDE DEF place
  <2>1. /\ m.type = "frame" /\ s.base + place - 3 \in 1 .. Len(made)
        /\ m.frame = made[s.base + place - 3]
    BY <1>3, <1>4, PositionType DEF Script, place
  <2> QED BY <2>1, <1>4
<1>6. Handled(s, m) = t
  BY <1>5 DEF Handled, FrameArrived
<1>a. s.buffered \in Seq(Frame) /\ Waiting(s) = Len(s.buffered)
  BY SequencesType
<1>7. m.frame \in Frame
  BY <1>3, <1>5 DEF DownMessage
<1>8. /\ t \in Session /\ t.state = s.state /\ t.announced = s.announced
      /\ t.owner = s.owner /\ t.tick = s.tick /\ t.base = s.base
      /\ t.applied = s.applied /\ t.delivered = s.delivered
      /\ t.buffered = Append(s.buffered, m.frame)
  <2>1. Append(s.buffered, m.frame) \in Seq(Frame)
    BY <1>a, <1>7
  <2> QED BY <2>1 DEF Session
<1> HIDE DEF t
<1>9. /\ Waiting(t) = Waiting(s) + 1 /\ Ran(t) = Ran(s)
      /\ \A i \in 1 .. Waiting(t) :
           t.buffered[i] = IF i <= Waiting(s) THEN s.buffered[i]
                           ELSE m.frame
  <2>1. Waiting(t) = Len(t.buffered) /\ Ran(t) = Ran(s)
    BY <1>8 DEF Waiting, Ran
  <2>2. /\ Len(t.buffered) = Len(s.buffered) + 1
        /\ \A i \in 1 .. Len(s.buffered) : t.buffered[i] = s.buffered[i]
        /\ t.buffered[Len(s.buffered) + 1] = m.frame
    BY <1>a, <1>7, <1>8
  <2>3. /\ Waiting(t) = Waiting(s) + 1
        /\ \A i \in 1 .. Waiting(s) : t.buffered[i] = s.buffered[i]
        /\ t.buffered[Waiting(s) + 1] = m.frame
    BY <1>a, <2>1, <2>2
  <2> QED BY <1>0, <2>1, <2>3
<1>10. Position(t) = Position(s) + 1
  <2>1. Position(t) = 3 + Ran(t) + Waiting(t)
    BY <1>8 DEF Position
  <2> QED BY <2>1, <1>0, <1>2, <1>8, <1>9
<1>11. InOrder(t, made)
  <2>1. \A i \in 1 .. Waiting(t) : t.buffered[i] = made[t.tick + i]
    <3> SUFFICES ASSUME NEW i \in 1 .. Waiting(t)
                 PROVE  t.buffered[i] = made[t.tick + i]
      OBVIOUS
    <3>1. CASE i <= Waiting(s)
      <4>1. i \in 1 .. Waiting(s)
        BY <3>1, <1>0
      <4> QED BY <4>1, <1>1, <1>8, <1>9, <3>1 DEF InOrder
    <3>2. CASE i = Waiting(s) + 1
      <4>1. t.buffered[i] = m.frame
        BY <3>2, <1>0, <1>9
      <4>2. t.tick + i = s.tick + Waiting(s) + 1
        <5>1. t.tick = s.tick /\ s.tick \in Nat /\ Waiting(s) \in Nat
          BY <1>0, <1>8
        <5> QED BY <5>1, <3>2
      <4> QED BY <4>1, <4>2, <1>5
    <3>3. i <= Waiting(s) \/ i = Waiting(s) + 1
      <4>1. Waiting(t) = Waiting(s) + 1 /\ Waiting(s) \in Nat
        BY <1>0, <1>9
      <4> QED BY <4>1
    <3> QED BY <3>1, <3>2, <3>3
  <2>2. t.tick + Waiting(t) <= Len(made)
    <3>1. t.tick = s.tick /\ Waiting(t) = Waiting(s) + 1
      BY <1>8, <1>9
    <3>2. s.tick + (Waiting(s) + 1) = s.tick + Waiting(s) + 1
      BY <1>0
    <3> QED BY <1>5, <3>1, <3>2
  <2>3. \A i \in 1 .. Ran(t) : t.applied[i] = made[t.base + i]
    BY <1>1, <1>8, <1>9 DEF InOrder
  <2>4. t.tick = t.base + Ran(t)
    BY <1>0, <1>8, <1>9
  <2> QED BY <1>1, <1>8, <2>1, <2>2, <2>3, <2>4 DEF InOrder
<1>12. Due(t, q, k + 1, p, made) /\ Where(c, t, q, k + 1, made)
  <2>1. 1 \in 0 .. 1 /\ k + 1 <= Len(q) /\ t.base = Base(s, q, k)
    BY <1>2, <1>8
  <2> QED BY <1>1, <1>8, <1>10, <2>1, Advances
<1> QED BY <1>1, <1>6, <1>8, <1>11, <1>12 DEF Follows, m

(* Any message that is due leaves the session where the next one is. *)
LEMMA HandledFollows ==
  ASSUME NEW s \in Session, NEW q \in Seq(DownMessage), NEW k \in Nat,
         k < Len(q), NEW c, NEW p \in Nat, c = "absent" \/ p # Null,
         NEW made, Made(made), Follows(s, q, k, c, p, made)
  PROVE  /\ Handled(s, q[k + 1]) \in Session
         /\ Follows(Handled(s, q[k + 1]), q, k + 1, c, p, made)
<1> DEFINE m == q[k + 1]
<1>0. made \in Seq(Frame)
  BY DEF Made
<1>1. CASE s.state = "disconnected"
  <2>1. Handled(s, m) = s
    BY <1>1 DEF Handled
  <2> QED BY <1>1, <2>1 DEF Follows
<1>2. CASE s.state # "disconnected" /\ m.type = "disconnect"
  <2> DEFINE t == [s EXCEPT !.state = "disconnected", !.cause = "told"]
  <2>1. Handled(s, m) = t
    BY <1>2 DEF Handled, Stop
  <2>2. /\ t \in Session /\ t.state = "disconnected" /\ t.tick = s.tick
        /\ t.base = s.base /\ t.applied = s.applied
        /\ t.buffered = s.buffered
    BY DEF Session, SessionState
  <2> HIDE DEF t
  <2>3. InOrder(t, made)
    BY <2>2, HeldSame DEF Follows, InOrder
  <2> QED BY <2>1, <2>2, <2>3 DEF Follows
<1>3. CASE s.state # "disconnected" /\ m.type # "disconnect"
  <2>1. s.state # "connecting" /\ (s.state = "logging_in" => p # Null)
    <3>1. Where(c, s, q, k, made) /\ Len(q) # k
      BY <1>3 DEF Follows
    <3> HIDE DEF m
    <3> QED BY <3>1 DEF Where
  <2>2. s.state \in SessionState \ {"connecting", "disconnected"}
    BY <1>3, <2>1, PositionType
  <2>3. CASE s.state = "logging_in"
    BY <1>0, <1>3, <2>1, <2>3, WelcomeFollows
  <2>4. CASE s.state = "preparing_snapshot"
    BY <1>0, <1>3, <2>4, AnnouncementFollows
  <2>5. CASE s.state = "downloading_snapshot" /\ ~ s.delivered
    BY <1>0, <1>3, <2>5, SnapshotFollows
  <2>6. CASE \/ s.state = "downloading_snapshot" /\ s.delivered
             \/ s.state \in {"catching_up", "joined"}
    BY <1>3, <2>6, FrameFollows
  <2> QED BY <2>2, <2>3, <2>4, <2>5, <2>6 DEF SessionState
<1> QED BY <1>1, <1>2, <1>3

(* The session runs frames and submits inputs. *)
Playing(s) == s.state \in {"catching_up", "joined"}

(* t is s when it has read some of the messages on their way to it. *)
Reads(s, t) ==
  /\ t.next = s.next
  /\ t.state # "disconnected" =>
       /\ s.state # "disconnected"
       /\ Playing(t) <=> Playing(s)
       /\ t.state = "connecting" => s.state = "connecting"

(* Handling a message submits nothing and starts no play. *)
LEMMA HandledReads ==
  ASSUME NEW s \in Session, NEW m \in DownMessage
  PROVE  Reads(s, Handled(s, m))
<1>1. ASSUME NEW why
      PROVE  Reads(s, Stop(s, why))
  <2>1. CASE s.state = "disconnected"
    BY <2>1 DEF Reads, Stop
  <2>2. CASE s.state # "disconnected"
    <3> DEFINE t == [s EXCEPT !.state = "disconnected", !.cause = why]
    <3>1. Stop(s, why) = t /\ t.state = "disconnected" /\ t.next = s.next
      BY <2>2 DEF Stop, Session
    <3> QED BY <3>1 DEF Reads
  <2> QED BY <2>1, <2>2
<1>2. Reads(s, Welcomed(s, m))
  <2> DEFINE t == [s EXCEPT !.state = "preparing_snapshot",
                            !.owner = m.player]
  <2>1. t.state = "preparing_snapshot" /\ t.next = s.next
    BY DEF Session
  <2> HIDE DEF t
  <2>2. s.state = "logging_in" => Reads(s, t)
    BY <2>1 DEF Reads, Playing
  <2>3. \/ Welcomed(s, m) = Stop(s, "breach")
        \/ s.state = "logging_in" /\ Welcomed(s, m) = t
    BY DEF Welcomed, t
  <2> QED BY <1>1, <2>2, <2>3
<1>3. Reads(s, SnapshotBegun(s, m))
  <2> DEFINE t == [s EXCEPT !.state = "downloading_snapshot",
                            !.announced = TRUE, !.tick = m.tick,
                            !.base = m.tick]
  <2>1. t.state = "downloading_snapshot" /\ t.next = s.next
    BY DEF Session
  <2> HIDE DEF t
  <2>2. s.state = "preparing_snapshot" => Reads(s, t)
    BY <2>1 DEF Reads, Playing
  <2>3. \/ SnapshotBegun(s, m) = Stop(s, "breach")
        \/ s.state = "preparing_snapshot" /\ SnapshotBegun(s, m) = t
    BY DEF SnapshotBegun, t
  <2> QED BY <1>1, <2>2, <2>3
<1>4. Reads(s, SnapshotArrived(s, m))
  <2> DEFINE t == [s EXCEPT !.delivered = TRUE]
  <2>1. t.state = s.state /\ t.next = s.next
    BY DEF Session
  <2> HIDE DEF t
  <2>2. Reads(s, t)
    BY <2>1 DEF Reads, Playing
  <2>3. SnapshotArrived(s, m) \in {Stop(s, "breach"), t}
    BY DEF SnapshotArrived, t
  <2> QED BY <1>1, <2>2, <2>3
<1>5. Reads(s, FrameArrived(s, m))
  <2> DEFINE longer == Append(s.buffered, m.frame)
             t == [s EXCEPT !.buffered = longer]
  <2> HIDE DEF longer
  <2>1. t.state = s.state /\ t.next = s.next
    BY DEF Session
  <2>2. FrameArrived(s, m) = t
    BY DEF FrameArrived, longer
  <2> HIDE DEF t
  <2> QED BY <2>1, <2>2 DEF Reads, Playing
<1>6. Reads(s, s)
  BY DEF Reads
<1>7. Handled(s, m) \in {s, Welcomed(s, m), SnapshotBegun(s, m),
                         SnapshotArrived(s, m), FrameArrived(s, m),
                         Stop(s, "told")}
  BY DEF Handled, DownMessage
<1> HIDE DEF Welcomed, SnapshotBegun
<1> QED BY <1>1, <1>2, <1>3, <1>4, <1>5, <1>6, <1>7

(* One reading after another is a reading. *)
LEMMA ReadsOn ==
  ASSUME NEW s, NEW t, NEW x, Reads(s, t), Reads(t, x)
  PROVE  Reads(s, x)
BY DEF Reads

(* RemoteSession::update handles the messages that have come in order.     *)
LEMMA HandledFirstFollows ==
  ASSUME NEW s \in Session, NEW q \in Seq(DownMessage), NEW count \in Nat,
         count <= Len(q), NEW c, NEW p \in Nat, c = "absent" \/ p # Null,
         NEW made, Made(made), Follows(s, q, 0, c, p, made)
  PROVE  /\ HandledFirst(s, q, count) \in Session
         /\ Follows(HandledFirst(s, q, count), q, count, c, p, made)
         /\ Reads(s, HandledFirst(s, q, count))
<1> DEFINE I == [n \in 0 .. count |->
                   {x \in Session : /\ Follows(x, q, n, c, p, made)
                                   /\ Reads(s, x)}]
           step == [x \in Session \X (1 .. count) |-> Handled(x[1], q[x[2]])]
           Eq(f) == f = [n \in 0 .. count |->
                           IF n = 0 THEN s ELSE Handled(f[n - 1], q[n])]
           handled == CHOOSE f : Eq(f)
<1>1. s \in I[0]
  BY DEF Reads
<1>2. ASSUME NEW n \in 1 .. count, NEW x \in I[n - 1]
      PROVE  x \in Session /\ Handled(x, q[n]) \in I[n]
  <2>1. n - 1 \in 0 .. count /\ n \in 0 .. count /\ (n - 1) + 1 = n
    OBVIOUS
  <2>2. x \in Session /\ Follows(x, q, n - 1, c, p, made) /\ Reads(s, x)
    BY <2>1
  <2>3. n - 1 \in Nat /\ n - 1 < Len(q)
    OBVIOUS
  <2>4. /\ Handled(x, q[(n - 1) + 1]) \in Session
        /\ Follows(Handled(x, q[(n - 1) + 1]), q, (n - 1) + 1, c, p, made)
    BY <2>2, <2>3, HandledFollows
  <2>5. q[n] \in DownMessage
    OBVIOUS
  <2>6. Reads(s, Handled(x, q[n]))
    BY <2>2, <2>5, HandledReads, ReadsOn
  <2> QED BY <2>1, <2>2, <2>4, <2>6
<1> HIDE DEF I
<1>3. ASSUME NEW n \in 1 .. count, NEW x \in I[n - 1]
      PROVE  step[<<x, n>>] = Handled(x, q[n])
  <2>1. <<x, n>> \in Session \X (1 .. count)
    BY <1>2
  <2> QED BY <2>1
<1>4. \A n \in 1 .. count : \A x \in I[n - 1] : step[<<x, n>>] \in I[n]
  BY <1>2, <1>3
<1> HIDE DEF step
<1>5. PICK f : Recurs(f, count, s, step)
  BY <1>1, <1>4, RecursionWithin
<1>6. \A n \in 0 .. count : f[n] \in I[n]
  BY <1>1, <1>4, <1>5, RecursionStays
<1>7. Eq(f)
  <2>1. ASSUME NEW n \in 0 .. count, n # 0
        PROVE  step[<<f[n - 1], n>>] = Handled(f[n - 1], q[n])
    <3>1. n \in 1 .. count /\ n - 1 \in 0 .. count
      BY <2>1
    <3>2. f[n - 1] \in I[n - 1]
      BY <3>1, <1>6
    <3> QED BY <3>1, <3>2, <1>3
  <2> QED BY <1>5, <2>1 DEF Recurs
<1>8. HandledFirst(s, q, count) = handled[count]
  BY DEF HandledFirst
<1>9. Eq(handled)
  <2> HIDE DEF Eq
  <2> QED BY <1>7
<1> DEFINE T == {n \in 0 .. count : handled[n] \in I[n]}
<1>11. 0 \in T
  <2>1. handled[0] = s
    <3> HIDE DEF handled
    <3> QED BY <1>9
  <2> HIDE DEF handled
  <2> QED BY <1>1, <2>1
<1>12. ASSUME NEW n \in 0 .. count - 1, n \in T PROVE n + 1 \in T
  <2>1. n + 1 \in 1 .. count /\ (n + 1) - 1 = n /\ n + 1 \in 0 .. count
    OBVIOUS
  <2>2. handled[n + 1] = Handled(handled[n], q[n + 1])
    <3> HIDE DEF handled
    <3> QED BY <1>9, <2>1
  <2>3. handled[n] \in I[(n + 1) - 1]
    <3> HIDE DEF handled
    <3> QED BY <1>12, <2>1
  <2> HIDE DEF handled
  <2> QED BY <2>1, <2>2, <2>3, <1>2
<1>13. handled[count] \in I[count]
  <2>1. 0 .. count \subseteq T
    <3> HIDE DEF T
    <3> QED BY <1>11, <1>12, IntervalInduction
  <2> HIDE DEF handled
  <2> QED BY <2>1
<1> QED BY <1>8, <1>13 DEF I

(* s when it has run the first n of the frames that waited. *)
Further(s, n, made) ==
  {x \in Session :
     /\ x.state \in {"catching_up", "joined"}
     /\ x.owner = s.owner /\ x.base = s.base /\ x.buffered = s.buffered
     /\ x.next = s.next
     /\ x.tick = x.base + Ran(x) /\ Ran(x) = Ran(s) + n
     /\ \A i \in 1 .. Ran(x) : x.applied[i] = made[x.base + i]}

(* RemoteSession::drain runs the frame after the last, never another. *)
LEMMA AppliedFurther ==
  ASSUME NEW s \in Session, NEW made, Made(made), InOrder(s, made),
         NEW n \in 1 .. Waiting(s), NEW x \in Further(s, n - 1, made)
  PROVE  Applied(x, s.buffered[n]) \in Further(s, n, made)
<1> DEFINE frame == s.buffered[n]
           t == [x EXCEPT !.tick = frame.tick,
                          !.applied = Append(@, frame), !.state = "joined"]
<1>1. /\ s.base \in Nat /\ s.tick \in Nat /\ Ran(s) \in Nat /\ n \in Nat
      /\ Waiting(s) \in Nat
      /\ s.tick = s.base + Ran(s) /\ s.tick + Waiting(s) <= Len(made)
      /\ frame = made[s.tick + n] /\ Len(made) \in Nat
  BY PositionType DEF InOrder, Made
<1>2. s.tick + n \in 1 .. Len(made)
  <2>1. /\ s.tick \in Nat /\ Waiting(s) \in Nat /\ Len(made) \in Nat
        /\ s.tick + Waiting(s) <= Len(made) /\ n \in 1 .. Waiting(s)
    BY <1>1
  <2> HIDE DEF frame, t
  <2> QED BY <2>1, Within
<1>3. frame \in Frame /\ frame.tick = s.tick + n
  <2>1. frame = made[s.tick + n] /\ s.tick + n \in DOMAIN made
    BY <1>1, <1>2 DEF Made
  <2>2. \A i \in DOMAIN made : made[i] \in Frame /\ made[i].tick = i
    BY DEF Made
  <2> HIDE DEF frame, t
  <2> QED BY <2>1, <2>2
<1>4. /\ x \in Session /\ x.state \in {"catching_up", "joined"}
      /\ x.owner = s.owner /\ x.base = s.base /\ x.buffered = s.buffered
      /\ x.next = s.next
      /\ x.tick = x.base + Ran(x) /\ Ran(x) = Ran(s) + (n - 1)
      /\ \A i \in 1 .. Ran(x) : x.applied[i] = made[x.base + i]
  BY DEF Further
<1>5. x.tick + 1 = s.tick + n /\ Ran(x) + 1 = Ran(s) + n /\ Ran(x) \in Nat
      /\ s.tick + n = x.base + (Ran(x) + 1) /\ s.tick + n \in Nat
  <2>1. /\ s.base \in Nat /\ s.tick \in Nat /\ Ran(s) \in Nat /\ n \in Nat
        /\ s.tick = s.base + Ran(s) /\ n >= 1
    BY <1>1
  <2>2. /\ x.base = s.base /\ x.tick = x.base + Ran(x)
        /\ Ran(x) = Ran(s) + (n - 1)
    BY <1>4
  <2> QED BY <2>1, <2>2
<1> HIDE DEF frame
<1>6. Applied(x, frame) = t
  BY <1>3, <1>4, <1>5 DEF Applied
<1>7. x.applied \in Seq(Frame) /\ Ran(x) = Len(x.applied)
  BY <1>4, SequencesType
<1>8. Append(x.applied, frame) \in Seq(Frame)
  BY <1>3, <1>7
<1>9. /\ t \in Session /\ t.state = "joined" /\ t.owner = x.owner
      /\ t.base = x.base /\ t.buffered = x.buffered /\ t.tick = s.tick + n
      /\ t.next = x.next
      /\ t.applied = Append(x.applied, frame)
  <2> DEFINE longer == Append(x.applied, frame)
             now == frame.tick
  <2>1. longer \in Seq(Frame) /\ now \in Nat /\ now = s.tick + n
    BY <1>3, <1>5, <1>8
  <2> HIDE DEF longer, now
  <2>2. t = [x EXCEPT !.tick = now, !.applied = longer, !.state = "joined"]
    BY DEF longer, now
  <2> QED BY <1>4, <2>1, <2>2 DEF Session, SessionState, longer
<1> HIDE DEF t
<1>10. /\ Len(t.applied) = Len(x.applied) + 1
       /\ \A i \in 1 .. Len(x.applied) : t.applied[i] = x.applied[i]
       /\ t.applied[Len(x.applied) + 1] = frame
  BY <1>3, <1>7, <1>9
<1>11. /\ Ran(t) = Ran(x) + 1
       /\ \A i \in 1 .. Ran(x) : t.applied[i] = x.applied[i]
       /\ t.applied[Ran(x) + 1] = frame
  BY <1>7, <1>10 DEF Ran
<1>12. \A i \in 1 .. Ran(t) : t.applied[i] = made[t.base + i]
  <2> SUFFICES ASSUME NEW i \in 1 .. Ran(t)
               PROVE  t.applied[i] = made[t.base + i]
    OBVIOUS
  <2>1. CASE i \in 1 .. Ran(x)
    BY <2>1, <1>4, <1>9, <1>11
  <2>2. CASE i = Ran(x) + 1
    BY <2>2, <1>1, <1>5, <1>9, <1>11
  <2> QED BY <2>1, <2>2, <1>5, <1>11
<1>13. t.tick = t.base + Ran(t) /\ Ran(t) = Ran(s) + n
  <2>1. t.tick = s.tick + n /\ t.base = x.base
    BY <1>9
  <2> QED BY <2>1, <1>5, <1>11
<1> QED BY <1>4, <1>6, <1>9, <1>12, <1>13 DEF Further, frame

(* RemoteSession::drain: the frames that waited are the next ones to run.  *)
LEMMA DrainedFollows ==
  ASSUME NEW s \in Session, NEW q \in Seq(DownMessage), NEW k \in Nat,
         k <= Len(q), NEW c, NEW p, NEW made, Made(made),
         Follows(s, q, k, c, p, made)
  PROVE  /\ Drained(s) \in Session /\ Follows(Drained(s), q, k, c, p, made)
         /\ Reads(s, Drained(s))
<1>1. CASE s.state \notin {"catching_up", "joined"}
  <2>1. Drained(s) = s
    BY <1>1 DEF Drained
  <2> QED BY <2>1 DEF Reads
<1>2. CASE s.state \in {"catching_up", "joined"}
  <2> DEFINE count == Len(s.buffered)
             I == [n \in 0 .. count |-> Further(s, n, made)]
             step == [x \in Session \X (1 .. count) |->
                        Applied(x[1], s.buffered[x[2]])]
             Eq(f) == f = [n \in 0 .. count |->
                             IF n = 0 THEN s
                             ELSE Applied(f[n - 1], s.buffered[n])]
             applied == CHOOSE f : Eq(f)
  <2>0. /\ count \in Nat /\ count = Waiting(s) /\ InOrder(s, made)
        /\ Ran(s) \in Nat
    BY SequencesType, PositionType DEF Follows
  <2>1. s \in I[0]
    <3>1. s \in Further(s, 0, made)
      BY <1>2, <2>0 DEF Further, InOrder
    <3> QED BY <2>0, <3>1
  <2>2. ASSUME NEW n \in 1 .. count, NEW x \in I[n - 1]
        PROVE  x \in Session /\ Applied(x, s.buffered[n]) \in I[n]
    <3>1. n - 1 \in 0 .. count /\ n \in 0 .. count /\ n \in 1 .. Waiting(s)
      BY <2>0
    <3>2. x \in Further(s, n - 1, made)
      BY <3>1
    <3>3. Applied(x, s.buffered[n]) \in Further(s, n, made)
      BY <2>0, <3>1, <3>2, AppliedFurther
    <3> QED BY <3>1, <3>2, <3>3 DEF Further
  <2> HIDE DEF I, count
  <2>3. ASSUME NEW n \in 1 .. count, NEW x \in I[n - 1]
        PROVE  step[<<x, n>>] = Applied(x, s.buffered[n])
    <3>1. <<x, n>> \in Session \X (1 .. count)
      BY <2>2
    <3> QED BY <3>1
  <2>4. \A n \in 1 .. count : \A x \in I[n - 1] : step[<<x, n>>] \in I[n]
    BY <2>2, <2>3
  <2> HIDE DEF step
  <2>5. PICK f : Recurs(f, count, s, step)
    BY <2>0, <2>1, <2>4, RecursionWithin
  <2>6. \A n \in 0 .. count : f[n] \in I[n]
    BY <2>0, <2>1, <2>4, <2>5, RecursionStays
  <2>7. Eq(f)
    <3>1. ASSUME NEW n \in 0 .. count, n # 0
          PROVE  step[<<f[n - 1], n>>] = Applied(f[n - 1], s.buffered[n])
      <4>1. n \in 1 .. count /\ n - 1 \in 0 .. count
        BY <3>1, <2>0
      <4>2. f[n - 1] \in I[n - 1]
        BY <4>1, <2>6
      <4> QED BY <4>1, <4>2, <2>3
    <3> QED BY <2>5, <3>1 DEF Recurs
  <2>8. Drained(s) = [applied[count] EXCEPT !.buffered = <<>>]
    BY <1>2 DEF Drained, count
  <2>9. Eq(applied)
    <3> HIDE DEF Eq
    <3> QED BY <2>7
  <2> DEFINE T == {n \in 0 .. count : applied[n] \in I[n]}
  <2>10. 0 \in T
    <3> HIDE DEF applied
    <3>1. applied[0] = s
      BY <2>0, <2>9
    <3> QED BY <2>0, <2>1, <3>1
  <2>11. ASSUME NEW n \in 0 .. count - 1, n \in T PROVE n + 1 \in T
    <3> HIDE DEF applied
    <3>1. n + 1 \in 1 .. count /\ (n + 1) - 1 = n /\ n + 1 \in 0 .. count
      BY <2>0
    <3>2. applied[n + 1] = Applied(applied[n], s.buffered[n + 1])
      <4>1. n + 1 # 0
        BY <2>0
      <4> QED BY <2>9, <3>1, <4>1
    <3>3. applied[n] \in I[(n + 1) - 1]
      BY <2>11, <3>1
    <3> QED BY <3>1, <3>2, <3>3, <2>2
  <2>12. applied[count] \in Further(s, count, made)
    <3>1. 0 .. count \subseteq T
      <4> HIDE DEF T
      <4> QED BY <2>0, <2>10, <2>11, IntervalInduction
    <3>2. count \in 0 .. count
      BY <2>0
    <3> HIDE DEF applied
    <3> QED BY <3>1, <3>2 DEF I
  <2> HIDE DEF applied
  <2>13. PICK x \in Further(s, count, made) : x = applied[count]
    BY <2>12
  <2> DEFINE t == [x EXCEPT !.buffered = <<>>]
  <2>14. /\ x \in Session /\ x.state \in {"catching_up", "joined"}
         /\ x.owner = s.owner /\ x.base = s.base /\ x.next = s.next
         /\ x.tick = x.base + Ran(x) /\ Ran(x) = Ran(s) + count
         /\ \A i \in 1 .. Ran(x) : x.applied[i] = made[x.base + i]
    BY DEF Further
  <2>15. /\ t \in Session /\ t.state = x.state /\ t.owner = x.owner
         /\ t.base = x.base /\ t.tick = x.tick /\ t.applied = x.applied
         /\ t.buffered = <<>> /\ t.next = x.next
    <3>1. <<>> \in Seq(Frame)
      OBVIOUS
    <3> HIDE DEF Eq
    <3> QED BY <2>14, <3>1 DEF Session
  <2>16. Drained(s) = t
    BY <2>8, <2>13
  <2> HIDE DEF t
  <2>17. Ran(t) = Ran(x) /\ Waiting(t) = 0 /\ Ran(x) \in Nat
    BY <2>14, <2>15, HeldSame, PositionType
  <2>18. Position(t) = Position(s) + 0
    <3>1. /\ Position(t) = 3 + Ran(t) + Waiting(t)
          /\ Position(s) = 3 + Ran(s) + Waiting(s)
      BY <1>2, <2>14, <2>15 DEF Position
    <3> QED BY <3>1, <2>0, <2>14, <2>17
  <2>19. InOrder(t, made)
    <3>1. \A i \in 1 .. Ran(t) : t.applied[i] = made[t.base + i]
      BY <2>14, <2>15, <2>17
    <3>2. t.tick = t.base + Ran(t)
      BY <2>14, <2>15, <2>17
    <3>3. /\ s.tick = s.base + Ran(s) /\ s.tick + Waiting(s) <= Len(made)
          /\ s.base \in Nat /\ s.tick \in Nat
      BY <2>0, PositionType DEF InOrder
    <3>4. x.tick = s.base + (Ran(s) + count)
      BY <2>14
    <3>5. t.tick = s.tick + count
      <4>1. s.base + (Ran(s) + count) = (s.base + Ran(s)) + count
        BY <3>3, <2>0
      <4>2. t.tick = x.tick
        BY <2>15
      <4> QED BY <3>3, <3>4, <4>1, <4>2
    <3>6. t.tick + Waiting(t) <= Len(made)
      <4>1. Waiting(t) = 0 /\ Waiting(s) = count
        BY <2>0, <2>17
      <4>2. s.tick + Waiting(s) \in Nat
        BY <3>3, PositionType
      <4>3. t.tick + Waiting(t) = s.tick + Waiting(s)
        BY <3>5, <4>1, <4>2
      <4> QED BY <3>3, <4>3
    <3> QED BY <2>14, <2>15, <2>17, <3>1, <3>2, <3>6 DEF InOrder
  <2>20. Due(s, q, k, p, made) /\ Where(c, s, q, k, made) /\ s.owner = p
    BY <1>2 DEF Follows
  <2>21. Due(t, q, k + 0, p, made) /\ Where(c, t, q, k + 0, made)
    <3>1. 0 \in 0 .. 1 /\ k + 0 <= Len(q) /\ made \in Seq(Frame)
      BY DEF Made
    <3>2. t.base = Base(s, q, k)
      BY <1>2, <2>14, <2>15 DEF Base
    <3> QED BY <1>2, <2>14, <2>15, <2>18, <2>20, <3>1, <3>2, Advances
  <2>22. k + 0 = k
    OBVIOUS
  <2>23. Reads(s, t)
    BY <1>2, <2>14, <2>15 DEF Reads, Playing
  <2> QED BY <2>14, <2>15, <2>16, <2>19, <2>20, <2>21, <2>22, <2>23
          DEF Follows
<1> QED BY <1>1, <1>2

(* What is left in the queue when the first n messages have been read. *)
LEMMA RestFollows ==
  ASSUME NEW s \in Session, NEW q \in Seq(DownMessage), NEW n \in Nat,
         n <= Len(q), NEW c, NEW p, NEW made, Made(made),
         Follows(s, q, n, c, p, made)
  PROVE  /\ SubSeq(q, n + 1, Len(q)) \in Seq(DownMessage)
         /\ Follows(s, SubSeq(q, n + 1, Len(q)), 0, c, p, made)
<1> DEFINE rest == SubSeq(q, n + 1, Len(q))
<1>1. /\ Len(q) \in Nat /\ rest \in Seq(DownMessage)
      /\ Len(rest) = Len(q) - n
      /\ \A i \in 1 .. Len(q) - n : rest[i] = q[n + i]
  <2>1. Len(q) \in Nat
    OBVIOUS
  <2>2. \A i \in n + 1 .. Len(q) : q[i] \in DownMessage
    OBVIOUS
  <2>3. /\ rest \in Seq(DownMessage)
        /\ Len(rest) = IF n + 1 <= Len(q) THEN Len(q) - (n + 1) + 1 ELSE 0
        /\ \A i \in 1 .. Len(q) - (n + 1) + 1 : rest[i] = q[n + 1 + i - 1]
    BY <2>1, <2>2, SubSeqProperties
  <2>4. \A i \in 1 .. Len(q) - n : n + 1 + i - 1 = n + i
    OBVIOUS
  <2>5. Len(q) - (n + 1) + 1 = Len(q) - n
    BY <2>1
  <2> HIDE DEF rest
  <2>6. Len(rest) = Len(q) - n
    BY <2>1, <2>3
  <2>7. \A i \in 1 .. Len(q) - n : rest[i] = q[n + 1 + i - 1]
    BY <2>3, <2>5
  <2>8. \A i \in 1 .. Len(q) - n : rest[i] = q[n + i]
    BY <2>4, <2>7
  <2> QED BY <2>1, <2>3, <2>6, <2>8
<1> HIDE DEF rest
<1>2. CASE s.state = "disconnected"
  BY <1>1, <1>2 DEF Follows, rest
<1>3. CASE s.state # "disconnected"
  <2>1. Due(s, q, n, p, made) /\ Where(c, s, q, n, made)
    BY <1>3 DEF Follows
  <2>2. n + 1 <= Len(q) => Base(s, rest, 0) = Base(s, q, n)
    <3>1. n + 1 <= Len(q) => rest[0 + 1] = q[n + 1]
      BY <1>1
    <3> QED BY <3>1 DEF Base
  <2>3. ASSUME NEW i \in 0 + 1 .. Len(rest)
        PROVE  /\ n + i \in n + 1 .. Len(q) /\ rest[i] = q[n + i]
               /\ n + 1 <= Len(q) /\ (n + i = Len(q) <=> i = Len(rest))
               /\ (n + i = n + 1 <=> i = 0 + 1)
               /\ Position(s) + (n + i) - n = Position(s) + i - 0
    BY <1>1, PositionType
  <2>4. ASSUME NEW i \in 0 + 1 .. Len(rest)
        PROVE  \/ rest[i].type = "disconnect" /\ i = Len(rest)
               \/ /\ s.state = "logging_in" => i = 0 + 1
                  /\ Script(rest[i], Position(s) + i - 0, p,
                            Base(s, rest, 0), made)
    BY <2>1, <2>2, <2>3 DEF Due
  <2>5. Due(s, rest, 0, p, made)
    BY <2>4 DEF Due
  <2>6. /\ Len(rest) = 0 <=> Len(q) = n
        /\ Len(rest) = 0 + 1 <=> Len(q) = n + 1
        /\ Len(rest) >= 0 + 2 <=> Len(q) >= n + 2
    BY <1>1
  <2>7. (s.state = "preparing_snapshot" => n + 1 <= Len(q)) =>
          (UpToDate(s, q, n, made) => UpToDate(s, rest, 0, made))
    <3> SUFFICES ASSUME s.state = "preparing_snapshot" => n + 1 <= Len(q),
                        UpToDate(s, q, n, made)
                 PROVE  UpToDate(s, rest, 0, made)
      OBVIOUS
    <3>1. Base(s, rest, 0) = Base(s, q, n)
      BY <2>2 DEF Base
    <3>2. Position(s) + Len(rest) - 0 = Position(s) + Len(q) - n
      BY <1>1, PositionType
    <3> QED BY <3>1, <3>2 DEF UpToDate
  <2>8. Where(c, s, rest, 0, made)
    <3>1. \A i \in 0 + 1 .. Len(rest) :
            c # "disconnected" => rest[i].type # "disconnect"
      BY <2>1, <2>3 DEF Where
    <3>2. c \in {"downloading_snapshot", "joined"} =>
            UpToDate(s, rest, 0, made)
      <4>1. Len(q) >= n + 2 => n + 1 <= Len(q)
        BY <1>1
      <4> QED BY <2>1, <2>7, <4>1 DEF Where
    <3> QED BY <2>1, <2>6, <3>1, <3>2 DEF Where
  <2> QED BY <1>1, <2>5, <2>8 DEF Follows, rest
<1> QED BY <1>2, <1>3

(* What a session has sent: it joins, then reports that it has loaded, and *)
(* then submits inputs.                                                    *)
UpFits(c, u) ==
  \A i \in 1 .. Len(u) :
    /\ u[i].type = "loaded" => i = 1 /\ c = "downloading_snapshot"
    /\ u[i].type = "input" =>
         /\ \/ c = "joined"
            \/ c = "downloading_snapshot" /\ u[1].type = "loaded"
         /\ \A j \in 1 .. i - 1 : u[j].type \in {"loaded", "input"}

(* The same of a session that has not stopped. *)
UpExact(c, s, u) ==
  /\ s.state = "connecting" => u = <<>>
  /\ c \in {"absent", "connecting"} => Len(u) <= 1
  /\ c \in {"logging_in", "accepting", "preparing_snapshot"} => u = <<>>
  /\ c \in {"downloading_snapshot", "joined"} =>
       \A i \in 1 .. Len(u) : u[i].type \in {"loaded", "input"}
  /\ c = "downloading_snapshot" =>
       IF Playing(s) THEN u # <<>> /\ u[1].type = "loaded" ELSE u = <<>>

(* A session, its connection, and what passes between them. *)
Link(s, d, u, c, p, made) ==
  /\ Follows(s, d, 0, c, p, made)
  /\ c # "disconnected" =>
       /\ UpFits(c, u)
       /\ s.state # "disconnected" => UpExact(c, s, u)

(* A message more for a session. *)
LEMMA Appended ==
  ASSUME NEW s \in Session, NEW d \in Seq(DownMessage), NEW m \in DownMessage,
         NEW p, NEW made, Due(s, d, 0, p, made),
         \A i \in 1 .. Len(d) : d[i].type # "disconnect",
         \/ m.type = "disconnect"
         \/ /\ s.state = "logging_in" => Len(d) = 0
            /\ Script(m, Position(s) + Len(d) + 1, p,
                      Base(s, Append(d, m), 0), made)
  PROVE  /\ Append(d, m) \in Seq(DownMessage)
         /\ Len(Append(d, m)) = Len(d) + 1
         /\ Due(s, Append(d, m), 0, p, made)
         /\ Append(d, m)[Len(d) + 1] = m
         /\ \A i \in 1 .. Len(d) : Append(d, m)[i] = d[i]
         /\ Len(d) > 0 => Base(s, Append(d, m), 0) = Base(s, d, 0)
<1> DEFINE e == Append(d, m)
<1>1. /\ e \in Seq(DownMessage) /\ Len(e) = Len(d) + 1 /\ Len(d) \in Nat
      /\ e[Len(d) + 1] = m /\ \A i \in 1 .. Len(d) : e[i] = d[i]
  OBVIOUS
<1> HIDE DEF e
<1>2. Len(d) > 0 => Base(s, e, 0) = Base(s, d, 0)
  <2>1. Len(d) > 0 => e[0 + 1] = d[0 + 1]
    BY <1>1
  <2> QED BY <2>1 DEF Base
<1>3. ASSUME NEW i \in 0 + 1 .. Len(e)
      PROVE  \/ e[i].type = "disconnect" /\ i = Len(e)
             \/ /\ s.state = "logging_in" => i = 0 + 1
                /\ Script(e[i], Position(s) + i - 0, p, Base(s, e, 0), made)
  <2>1. CASE i = Len(d) + 1
    <3>1. Position(s) + i - 0 = Position(s) + Len(d) + 1
      BY <2>1, <1>1, PositionType
    <3>2. e[i] = m /\ (Len(d) = 0 => i = 0 + 1)
      BY <2>1, <1>1
    <3> QED BY <2>1, <3>1, <3>2, <1>1 DEF e
  <2>2. CASE i \in 1 .. Len(d)
    <3>1. i \in 0 + 1 .. Len(d) /\ Len(d) > 0 /\ e[i] = d[i]
      BY <2>2, <1>1
    <3> QED BY <3>1, <2>2, <1>2 DEF Due
  <2> QED BY <2>1, <2>2, <1>1
<1>4. Due(s, e, 0, p, made)
  BY <1>3 DEF Due
<1> QED BY <1>1, <1>2, <1>4 DEF e

(* HostSession::close. *)
LEMMA LinkShut ==
  ASSUME NEW s \in Session, NEW d \in Seq(DownMessage), NEW u, NEW c,
         c \notin {"absent", "disconnected"}, NEW p, NEW made,
         Link(s, d, u, c, p, made),
         NEW e, e = IF s.state = "disconnected" THEN d
                    ELSE Append(d, [type |-> "disconnect"])
  PROVE  e \in Seq(DownMessage) /\ Link(s, e, <<>>, "disconnected", p, made)
<1> DEFINE m == [type |-> "disconnect"]
<1>1. CASE s.state = "disconnected"
  BY <1>1 DEF Link, Follows
<1>2. CASE s.state # "disconnected"
  <2>1. m \in DownMessage /\ m.type = "disconnect"
    BY DEF DownMessage
  <2>2. /\ Due(s, d, 0, p, made) /\ Where(c, s, d, 0, made)
        /\ InOrder(s, made)
    BY <1>2 DEF Link, Follows
  <2>3. \A i \in 1 .. Len(d) : d[i].type # "disconnect"
    BY <2>2 DEF Where
  <2> HIDE DEF m
  <2>4. e \in Seq(DownMessage) /\ Due(s, e, 0, p, made)
    <3>1. e = Append(d, m)
      BY <1>2 DEF m
    <3> QED BY <2>1, <2>2, <2>3, <3>1, Appended
  <2>5. Where("disconnected", s, e, 0, made)
    BY <2>2 DEF Where
  <2> QED BY <1>2, <2>2, <2>4, <2>5 DEF Link, Follows
<1> QED BY <1>1, <1>2

(* A frame more of the host. *)
LEMMA MadeMore ==
  ASSUME NEW made, Made(made), NEW f \in Frame, f.tick = Len(made) + 1,
         NEW s \in Session, NEW d \in Seq(DownMessage), NEW c, NEW p,
         Follows(s, d, 0, c, p, made)
  PROVE  /\ Made(Append(made, f)) /\ Len(Append(made, f)) = Len(made) + 1
         /\ Append(made, f)[Len(made) + 1] = f
         /\ \A t \in 1 .. Len(made) : Append(made, f)[t] = made[t]
         /\ InOrder(s, Append(made, f))
         /\ s.state # "disconnected" => Due(s, d, 0, p, Append(made, f))
<1> DEFINE more == Append(made, f)
<1>0. made \in Seq(Frame) /\ Len(made) \in Nat
  BY DEF Made
<1>1. /\ more \in Seq(Frame) /\ Len(more) = Len(made) + 1
      /\ more[Len(made) + 1] = f
      /\ \A t \in 1 .. Len(made) : more[t] = made[t]
  BY <1>0
<1> HIDE DEF more
<1>2. Made(more)
  <2> SUFFICES ASSUME NEW t \in 1 .. Len(more) PROVE more[t].tick = t
    BY <1>1 DEF Made
  <2>1. t \in 1 .. Len(made) \/ t = Len(made) + 1
    BY <1>0, <1>1
  <2>2. \A v \in 1 .. Len(made) : made[v].tick = v
    BY DEF Made
  <2> QED BY <1>1, <2>1, <2>2
<1>3. /\ s.tick = s.base + Ran(s) /\ s.tick + Waiting(s) <= Len(made)
      /\ s.base \in Nat /\ s.tick \in Nat /\ Ran(s) \in Nat
      /\ Waiting(s) \in Nat
  BY PositionType DEF Follows, InOrder
<1>a. Len(made) \in Nat
  BY <1>0
<1>b. s.base + Ran(s) <= Len(made)
  BY <1>3, <1>a
<1>4. \A i \in 1 .. Ran(s) : s.base + i \in 1 .. Len(made)
  BY <1>3, <1>a, <1>b, Within
<1>5. \A i \in 1 .. Waiting(s) : s.tick + i \in 1 .. Len(made)
  BY <1>3, <1>a, Within
<1>6. InOrder(s, more)
  <2>1. s.tick + Waiting(s) <= Len(more)
    BY <1>0, <1>1, <1>3
  <2> QED BY <1>1, <1>4, <1>5, <2>1 DEF Follows, InOrder
<1>7. ASSUME s.state # "disconnected" PROVE Due(s, d, 0, p, more)
  <2> DEFINE b == Base(s, d, 0)
  <2>1. ASSUME NEW i \in 0 + 1 .. Len(d),
               Script(d[i], Position(s) + i - 0, p, b, made)
        PROVE  Script(d[i], Position(s) + i - 0, p, b, more)
    <3> DEFINE place == Position(s) + i - 0
    <3>1. b + place - 3 \in 1 .. Len(made) =>
            /\ b + place - 3 \in 1 .. Len(more)
            /\ more[b + place - 3] = made[b + place - 3]
      BY <1>0, <1>1
    <3>2. b \in 0 .. Len(made) => b \in 0 .. Len(more)
      BY <1>0, <1>1
    <3> HIDE DEF place, b
    <3> QED BY <2>1, <3>1, <3>2 DEF Script, place
  <2> QED BY <1>7, <2>1 DEF Follows, Due
<1> QED BY <1>1, <1>2, <1>6, <1>7 DEF more

(* HostSession::accept_login. *)
LEMMA LinkWelcome ==
  ASSUME NEW s \in Session, NEW d \in Seq(DownMessage), NEW u, NEW p \in Nat,
         NEW made, Link(s, d, u, "logging_in", p, made),
         NEW e, e = IF s.state = "disconnected" THEN d
                    ELSE Append(d, [type |-> "welcome", player |-> p])
  PROVE  e \in Seq(DownMessage) /\ Link(s, e, u, "accepting", p, made)
<1> DEFINE m == [type |-> "welcome", player |-> p]
<1>0. UpFits("accepting", u)
  BY DEF Link, UpFits
<1>1. CASE s.state = "disconnected"
  BY <1>0, <1>1 DEF Link, Follows
<1>2. CASE s.state # "disconnected"
  <2>1. m \in DownMessage /\ m.type = "welcome" /\ m.player = p
    BY DEF DownMessage
  <2>2. /\ Due(s, d, 0, p, made) /\ Where("logging_in", s, d, 0, made)
        /\ InOrder(s, made) /\ UpExact("logging_in", s, u)
    BY <1>2 DEF Link, Follows
  <2>3. s.state = "logging_in" /\ Len(d) = 0 /\ Position(s) = 0
    BY <2>2 DEF Where, Position
  <2> HIDE DEF m
  <2>4. Script(m, Position(s) + Len(d) + 1, p, Base(s, Append(d, m), 0), made)
    <3>1. Position(s) + Len(d) + 1 = 1
      BY <2>3
    <3> QED BY <2>1, <3>1 DEF Script
  <2>5. /\ e \in Seq(DownMessage) /\ Due(s, e, 0, p, made)
        /\ Len(e) = 1 /\ e[1] = m
    <3>1. e = Append(d, m)
      BY <1>2 DEF m
    <3>2. \A i \in 1 .. Len(d) : d[i].type # "disconnect"
      BY <2>3
    <3>3. s.state = "logging_in" => Len(d) = 0
      BY <2>3
    <3>4. /\ Append(d, m) \in Seq(DownMessage)
          /\ Due(s, Append(d, m), 0, p, made)
          /\ Len(Append(d, m)) = Len(d) + 1 /\ Append(d, m)[Len(d) + 1] = m
      BY <2>1, <2>2, <2>4, <3>2, <3>3, Appended
    <3>5. Len(d) + 1 = 1
      BY <2>3
    <3> QED BY <3>1, <3>4, <3>5
  <2>6. Where("accepting", s, e, 0, made)
    <3>1. \A i \in 0 + 1 .. Len(e) : e[i].type # "disconnect"
      BY <2>1, <2>5
    <3> QED BY <2>3, <2>5, <3>1 DEF Where
  <2>7. UpExact("accepting", s, u)
    BY <2>2, <2>3 DEF UpExact, Playing
  <2> QED BY <1>0, <1>2, <2>2, <2>5, <2>6, <2>7 DEF Link, Follows
<1> QED BY <1>1, <1>2

(* HostSession::send_snapshot. *)
LEMMA LinkSnapshot ==
  ASSUME NEW s \in Session, NEW d \in Seq(DownMessage), NEW u, NEW p,
         NEW made, Made(made), Link(s, d, u, "preparing_snapshot", p, made),
         NEW now, now = Len(made),
         NEW e, e = IF s.state = "disconnected" THEN d
                    ELSE Append(Append(d, [type |-> "snapshot_begin",
                                           tick |-> now]),
                                [type |-> "snapshot"])
  PROVE  /\ e \in Seq(DownMessage)
         /\ Link(s, e, u, "downloading_snapshot", p, made)
<1> DEFINE m == [type |-> "snapshot_begin", tick |-> now]
           n == [type |-> "snapshot"]
           half == Append(d, m)
<1>0. UpFits("downloading_snapshot", u)
  BY DEF Link, UpFits
<1>1. CASE s.state = "disconnected"
  BY <1>0, <1>1 DEF Link, Follows
<1>2. CASE s.state # "disconnected"
  <2>0. now \in Nat
    BY DEF Made
  <2>1. /\ m \in DownMessage /\ m.type = "snapshot_begin" /\ m.tick = now
        /\ n \in DownMessage /\ n.type = "snapshot"
    BY <2>0 DEF DownMessage
  <2>2. /\ Due(s, d, 0, p, made) /\ Where("preparing_snapshot", s, d, 0, made)
        /\ InOrder(s, made) /\ UpExact("preparing_snapshot", s, u)
    BY <1>2 DEF Link, Follows
  <2>3. s.state = "preparing_snapshot" /\ Len(d) = 0 /\ Position(s) = 1
    BY <2>2 DEF Where, Position
  <2> HIDE DEF m, n
  <2>4. Base(s, half, 0) = now
    <3>1. half[1] = m
      BY <2>1, <2>3
    <3> HIDE DEF half
    <3> QED BY <2>1, <2>3, <3>1 DEF Base
  <2>5. Script(m, Position(s) + Len(d) + 1, p, Base(s, half, 0), made)
    <3>1. Position(s) + Len(d) + 1 = 2 /\ now \in 0 .. Len(made)
      BY <2>0, <2>3
    <3> QED BY <2>1, <2>4, <3>1 DEF Script
  <2>6. /\ half \in Seq(DownMessage) /\ Due(s, half, 0, p, made)
        /\ Len(half) = 1 /\ half[1] = m
    <3>2. \A i \in 1 .. Len(d) : d[i].type # "disconnect"
      BY <2>3
    <3>3. s.state = "logging_in" => Len(d) = 0
      BY <2>3
    <3>4. /\ half \in Seq(DownMessage) /\ Due(s, half, 0, p, made)
          /\ Len(half) = Len(d) + 1 /\ half[Len(d) + 1] = m
      BY <2>1, <2>2, <2>5, <3>2, <3>3, Appended
    <3>5. Len(d) + 1 = 1
      BY <2>3
    <3> QED BY <3>4, <3>5
  <2> HIDE DEF half
  <2>7. Script(n, Position(s) + Len(half) + 1, p, Base(s, Append(half, n), 0),
               made)
    <3>1. Position(s) + Len(half) + 1 = 3
      BY <2>3, <2>6
    <3> QED BY <2>1, <3>1 DEF Script
  <2>8. /\ e \in Seq(DownMessage) /\ Due(s, e, 0, p, made)
        /\ Len(e) = 2 /\ e[1] = m /\ e[2] = n /\ Base(s, e, 0) = now
    <3>1. e = Append(half, n)
      BY <1>2 DEF m, n, half
    <3>2. \A i \in 1 .. Len(half) : half[i].type # "disconnect"
      BY <2>1, <2>6
    <3>3. s.state # "logging_in"
      BY <2>3
    <3> DEFINE full == Append(half, n)
    <3>4. /\ full \in Seq(DownMessage) /\ Due(s, full, 0, p, made)
          /\ Len(full) = Len(half) + 1 /\ full[Len(half) + 1] = n
          /\ \A i \in 1 .. Len(half) : full[i] = half[i]
          /\ Len(half) > 0 => Base(s, full, 0) = Base(s, half, 0)
      <4>1. s.state = "logging_in" => Len(half) = 0
        BY <3>3
      <4>2. /\ half \in Seq(DownMessage) /\ Due(s, half, 0, p, made)
            /\ n \in DownMessage
        BY <2>1, <2>6
      <4> HIDE DEF n
      <4> QED BY <2>7, <3>2, <4>1, <4>2, Appended
    <3>5. Len(half) + 1 = 2 /\ Len(half) > 0 /\ 1 \in 1 .. Len(half)
      BY <2>6
    <3> HIDE DEF full
    <3>6. e = full
      BY <3>1 DEF full
    <3>7. full[1] = half[1] /\ full[2] = n /\ Len(full) = 2
      BY <3>4, <3>5
    <3>8. Base(s, full, 0) = now
      BY <3>4, <3>5, <2>4
    <3> QED BY <3>4, <3>6, <3>7, <3>8, <2>6
  <2>9. UpToDate(s, e, 0, made)
    <3>1. Position(s) + Len(e) - 0 = 3 + Len(made) - now
      BY <2>0, <2>3, <2>8
    <3> QED BY <2>8, <3>1 DEF UpToDate
  <2>10. Where("downloading_snapshot", s, e, 0, made)
    <3>1. \A i \in 0 + 1 .. Len(e) : e[i].type # "disconnect"
      <4>0. \A i \in 0 + 1 .. 2 : i = 1 \/ i = 2
        OBVIOUS
      <4>1. \A i \in 0 + 1 .. Len(e) : i = 1 \/ i = 2
        <5>1. Len(e) = 2
          BY <2>8
        <5> QED BY <5>1, <4>0
      <4> QED BY <2>1, <2>8, <4>1
    <3>2. Len(e) >= 0 + 2
      BY <2>8
    <3> QED BY <2>3, <2>9, <3>1, <3>2 DEF Where
  <2>11. UpExact("downloading_snapshot", s, u)
    BY <2>2, <2>3 DEF UpExact, Playing
  <2> QED BY <1>0, <1>2, <2>2, <2>3, <2>8, <2>10, <2>11 DEF Link, Follows
<1> QED BY <1>1, <1>2

(* HostSession::advance, for those that receive the frame, and the others. *)
LEMMA LinkFrame ==
  ASSUME NEW s \in Session, NEW d \in Seq(DownMessage), NEW u, NEW p, NEW c,
         c \in {"downloading_snapshot", "joined"}, NEW made, Made(made),
         Link(s, d, u, c, p, made), NEW f \in Frame, f.tick = Len(made) + 1,
         NEW e, e = IF s.state = "disconnected" THEN d
                    ELSE Append(d, [type |-> "frame", frame |-> f])
  PROVE  e \in Seq(DownMessage) /\ Link(s, e, u, c, p, Append(made, f))
<1> DEFINE m == [type |-> "frame", frame |-> f]
           more == Append(made, f)
<1>0. Follows(s, d, 0, c, p, made)
  BY DEF Link
<1>1. /\ Len(more) = Len(made) + 1 /\ more[Len(made) + 1] = f
      /\ InOrder(s, more) /\ Len(made) \in Nat
      /\ s.state # "disconnected" => Due(s, d, 0, p, more)
  BY <1>0, MadeMore DEF Made
<1> HIDE DEF more
<1>2. CASE s.state = "disconnected"
  BY <1>1, <1>2 DEF Link, Follows, more
<1>3. CASE s.state # "disconnected"
  <2>1. m \in DownMessage /\ m.type = "frame" /\ m.frame = f
    BY DEF DownMessage
  <2>2. Due(s, d, 0, p, more) /\ Where(c, s, d, 0, made)
    BY <1>0, <1>1, <1>3 DEF Follows
  <2>3. /\ s.state \in {"preparing_snapshot", "downloading_snapshot",
                        "catching_up", "joined"}
        /\ s.state = "preparing_snapshot" => Len(d) > 0
        /\ UpToDate(s, d, 0, made)
    BY <2>2 DEF Where
  <2> HIDE DEF m
  <2> DEFINE b == Base(s, d, 0)
             place == Position(s) + Len(d) + 1
  <2>4. Base(s, Append(d, m), 0) = b
    <3>1. CASE s.state = "preparing_snapshot"
      <4>1. Append(d, m)[0 + 1] = d[0 + 1]
        BY <2>1, <2>3, <3>1
      <4> QED BY <4>1 DEF Base
    <3>2. CASE s.state # "preparing_snapshot"
      BY <3>2 DEF Base
    <3> QED BY <3>1, <3>2
  <2>5. b \in 0 .. Len(made)
    <3>1. CASE s.state = "preparing_snapshot"
      <4>1. 0 + 1 \in 0 + 1 .. Len(d) /\ Position(s) = 1
        BY <2>3, <3>1 DEF Position
      <4>2. d[0 + 1].type # "disconnect"
        BY <2>2, <4>1 DEF Where
      <4>3. Script(d[0 + 1], Position(s) + (0 + 1) - 0, p, b, made)
        BY <1>0, <1>3, <4>1, <4>2 DEF Follows, Due
      <4>4. Position(s) + (0 + 1) - 0 = 2
        BY <4>1
      <4> QED BY <4>3, <4>4 DEF Script
    <3>2. CASE s.state # "preparing_snapshot"
      <4>1. b = s.base
        BY <3>2 DEF Base
      <4>2. /\ s.tick = s.base + Ran(s) /\ s.tick + Waiting(s) <= Len(made)
            /\ s.base \in Nat /\ Ran(s) \in Nat /\ Waiting(s) \in Nat
        BY <1>0, PositionType DEF Follows, InOrder
      <4> QED BY <4>1, <4>2, <1>1
    <3> QED BY <3>1, <3>2
  <2> HIDE DEF b
  <2>6. place = 4 + Len(made) - b /\ Position(s) \in Nat /\ Len(d) \in Nat
    <3>1. Position(s) + Len(d) - 0 = 3 + Len(made) - b
      BY <2>3 DEF UpToDate, b
    <3>2. Position(s) \in Nat /\ Len(d) \in Nat
      BY PositionType
    <3> QED BY <3>1, <3>2, <2>5, <1>1
  <2>7. /\ place > 3 /\ b + place - 3 = Len(made) + 1
        /\ Len(made) + 1 \in 1 .. Len(more)
    BY <1>1, <2>5, <2>6
  <2>8. Script(m, place, p, b, more)
    <3> HIDE DEF place
    <3> QED BY <1>1, <2>1, <2>7 DEF Script
  <2>9. /\ e \in Seq(DownMessage) /\ Due(s, e, 0, p, more)
        /\ Len(e) = Len(d) + 1 /\ e[Len(d) + 1] = m
        /\ \A i \in 1 .. Len(d) : e[i] = d[i]
        /\ Base(s, e, 0) = b
    <3>1. e = Append(d, m)
      BY <1>3 DEF m
    <3>2. \A i \in 1 .. Len(d) : d[i].type # "disconnect"
      BY <2>2 DEF Where
    <3>3. s.state # "logging_in"
      BY <2>3
    <3> QED BY <2>1, <2>2, <2>4, <2>8, <3>1, <3>2, <3>3, Appended
  <2>10. UpToDate(s, e, 0, more)
    <3>1. Position(s) + Len(e) - 0 = 3 + Len(more) - b
      BY <1>1, <2>5, <2>6, <2>9
    <3> QED BY <2>9, <3>1 DEF UpToDate
  <2>11. Where(c, s, e, 0, more)
    <3>1. \A i \in 0 + 1 .. Len(e) : e[i].type # "disconnect"
      <4> SUFFICES ASSUME NEW i \in 0 + 1 .. Len(e)
                   PROVE  e[i].type # "disconnect"
        OBVIOUS
      <4>1. i \in 1 .. Len(d) \/ i = Len(d) + 1
        BY <2>6, <2>9
      <4>2. i \in 1 .. Len(d) => d[i].type # "disconnect"
        BY <2>2 DEF Where
      <4> QED BY <2>1, <2>9, <4>1, <4>2
    <3>2. s.state = "preparing_snapshot" => Len(e) >= 0 + 2
      BY <2>3, <2>6, <2>9
    <3>3. c = "joined" => s.state \in {"catching_up", "joined"}
      BY <2>2 DEF Where
    <3> QED BY <2>3, <2>10, <3>1, <3>2, <3>3 DEF Where
  <2> QED BY <1>0, <1>1, <1>3, <2>9, <2>11 DEF Link, Follows, more
<1> QED BY <1>2, <1>3

(* A frame that a session is not sent does not concern it yet. *)
LEMMA LinkMore ==
  ASSUME NEW s \in Session, NEW d \in Seq(DownMessage), NEW u, NEW p, NEW c,
         c \notin {"downloading_snapshot", "joined"}, NEW made, Made(made),
         Link(s, d, u, c, p, made), NEW f \in Frame, f.tick = Len(made) + 1
  PROVE  Link(s, d, u, c, p, Append(made, f))
<1> DEFINE more == Append(made, f)
<1>0. Follows(s, d, 0, c, p, made)
  BY DEF Link
<1>1. /\ InOrder(s, more)
      /\ s.state # "disconnected" => Due(s, d, 0, p, more)
  BY <1>0, MadeMore
<1> HIDE DEF more
<1>2. s.state # "disconnected" => Where(c, s, d, 0, more)
  BY <1>0 DEF Follows, Where
<1> QED BY <1>0, <1>1, <1>2 DEF Link, Follows, more

(* The messages of a session when the host has read the first. *)
LEMMA Consumed ==
  ASSUME NEW u \in Seq(UpMessage), u # <<>>
  PROVE  /\ Tail(u) \in Seq(UpMessage) /\ Head(u) = u[1] /\ u[1] \in UpMessage
         /\ Len(u) \in Nat /\ Len(u) >= 1 /\ Len(Tail(u)) = Len(u) - 1
         /\ \A i \in 1 .. Len(Tail(u)) :
              i + 1 \in 1 .. Len(u) /\ Tail(u)[i] = u[i + 1]
<1>1. /\ Head(u) = u[1] /\ Len(u) \in Nat /\ Len(u) >= 1 /\ u[1] \in UpMessage
  OBVIOUS
<1>2. /\ Tail(u) \in Seq(UpMessage) /\ Len(Tail(u)) = Len(u) - 1
      /\ \A i \in 1 .. Len(Tail(u)) : Tail(u)[i] = u[i + 1]
  BY HeadTailProperties
<1>3. \A i \in 1 .. Len(u) - 1 : i + 1 \in 1 .. Len(u)
  BY <1>1
<1> QED BY <1>1, <1>2, <1>3

(* What the host may still read when it has read the first message. *)
LEMMA UpRest ==
  ASSUME NEW u \in Seq(UpMessage), u # <<>>, NEW b, NEW c, UpFits(b, u),
         \/ b = "connecting"
         \/ b = c /\ u[1].type = "join"
         \/ b = "downloading_snapshot" /\ u[1].type = "loaded" /\ c = "joined"
         \/ b = "joined" /\ c = "joined"
  PROVE  UpFits(c, Tail(u))
<1> DEFINE v == Tail(u)
<1>1. /\ Len(u) \in Nat /\ Len(u) >= 1 /\ Len(v) = Len(u) - 1
      /\ \A i \in 1 .. Len(v) : i + 1 \in 1 .. Len(u) /\ v[i] = u[i + 1]
  BY Consumed
<1> HIDE DEF v
<1> SUFFICES ASSUME NEW i \in 1 .. Len(v)
             PROVE  /\ v[i].type = "loaded" =>
                         i = 1 /\ c = "downloading_snapshot"
                    /\ v[i].type = "input" =>
                         /\ \/ c = "joined"
                            \/ /\ c = "downloading_snapshot"
                               /\ v[1].type = "loaded"
                         /\ \A j \in 1 .. i - 1 :
                              v[j].type \in {"loaded", "input"}
  BY DEF UpFits, v
<1>2. i + 1 \in 1 .. Len(u) /\ v[i] = u[i + 1] /\ i + 1 # 1
  BY <1>1
<1>3. v[i].type # "loaded"
  BY <1>2 DEF UpFits
<1>4. CASE v[i].type = "input"
  <2>1. /\ \/ b = "joined"
           \/ b = "downloading_snapshot" /\ u[1].type = "loaded"
        /\ \A j \in 1 .. (i + 1) - 1 : u[j].type \in {"loaded", "input"}
    BY <1>2, <1>4 DEF UpFits
  <2>2. 1 \in 1 .. (i + 1) - 1
    BY <1>1
  <2>3. u[1].type \in {"loaded", "input"}
    BY <2>1, <2>2
  <2>4. c = "joined"
    BY <2>1, <2>3
  <2>5. ASSUME NEW j \in 1 .. i - 1
        PROVE  v[j].type \in {"loaded", "input"}
    <3>1. j \in 1 .. Len(v) /\ j + 1 \in 1 .. (i + 1) - 1
      BY <1>1
    <3> QED BY <3>1, <2>1, <1>1
  <2> QED BY <2>4, <2>5, <1>3
<1> QED BY <1>3, <1>4

(* HostSession::update opens a connection. *)
LEMMA LinkOpen ==
  ASSUME NEW s \in Session, NEW d \in Seq(DownMessage),
         NEW u, u # <<>>, NEW o, NEW p, NEW made,
         Link(s, d, u, "absent", o, made)
  PROVE  Link(s, d, u, "connecting", p, made)
<1>0. UpFits("connecting", u)
  BY DEF Link, UpFits
<1>1. CASE s.state = "disconnected"
  BY <1>0, <1>1 DEF Link, Follows
<1>2. CASE s.state # "disconnected"
  <2>1. /\ Where("absent", s, d, 0, made) /\ InOrder(s, made)
        /\ UpExact("absent", s, u)
        /\ s.owner = IF s.state \in {"connecting", "logging_in"} THEN Null
                     ELSE o
    BY <1>2 DEF Link, Follows
  <2>2. s.state = "logging_in" /\ Len(d) = 0 /\ s.owner = Null
    BY <2>1 DEF Where, UpExact
  <2>3. Due(s, d, 0, p, made)
    BY <2>2 DEF Due
  <2>4. Where("connecting", s, d, 0, made)
    BY <2>1, <2>2 DEF Where
  <2>5. UpExact("connecting", s, u)
    BY <2>1, <2>2 DEF UpExact
  <2> QED BY <1>0, <1>2, <2>1, <2>2, <2>3, <2>4, <2>5 DEF Link, Follows
<1> QED BY <1>1, <1>2

(* HostSession::update asks for the snapshot. *)
LEMMA LinkRequest ==
  ASSUME NEW s \in Session, NEW d \in Seq(DownMessage), NEW u, NEW p,
         NEW made, Link(s, d, u, "accepting", p, made), s.owner # Null
  PROVE  Link(s, d, u, "preparing_snapshot", p, made)
<1>0. UpFits("preparing_snapshot", u)
  BY DEF Link, UpFits
<1>1. CASE s.state = "disconnected"
  BY <1>0, <1>1 DEF Link, Follows
<1>2. CASE s.state # "disconnected"
  <2>1. /\ Where("accepting", s, d, 0, made) /\ InOrder(s, made)
        /\ UpExact("accepting", s, u) /\ Due(s, d, 0, p, made)
        /\ s.owner = IF s.state \in {"connecting", "logging_in"} THEN Null
                     ELSE p
    BY <1>2 DEF Link, Follows
  <2>2. s.state = "preparing_snapshot" /\ Len(d) = 0
    BY <2>1 DEF Where
  <2>3. Where("preparing_snapshot", s, d, 0, made)
    BY <2>1, <2>2 DEF Where
  <2>4. UpExact("preparing_snapshot", s, u)
    BY <2>1, <2>2 DEF UpExact
  <2> QED BY <1>0, <1>2, <2>1, <2>3, <2>4 DEF Link, Follows
<1> QED BY <1>1, <1>2

(* HostSession::receive, when the message is no breach and ends nothing.   *)
LEMMA LinkJoin ==
  ASSUME NEW s \in Session, NEW d \in Seq(DownMessage),
         NEW u \in Seq(UpMessage), u # <<>>, NEW p, NEW made,
         Link(s, d, u, "connecting", p, made)
  PROVE  Link(s, d, Tail(u), "logging_in", p, made)
<1>0. UpFits("logging_in", Tail(u))
  BY UpRest DEF Link
<1>1. CASE s.state = "disconnected"
  BY <1>0, <1>1 DEF Link, Follows
<1>2. CASE s.state # "disconnected"
  <2>1. /\ Where("connecting", s, d, 0, made) /\ InOrder(s, made)
        /\ UpExact("connecting", s, u) /\ Due(s, d, 0, p, made)
        /\ s.owner = IF s.state \in {"connecting", "logging_in"} THEN Null
                     ELSE p
    BY <1>2 DEF Link, Follows
  <2>2. Tail(u) = <<>>
    <3>1. Len(u) <= 1
      BY <2>1 DEF UpExact
    <3> DEFINE v == Tail(u)
    <3>2. /\ v \in Seq(UpMessage) /\ Len(v) = Len(u) - 1 /\ Len(u) \in Nat
          /\ Len(u) >= 1
      BY Consumed
    <3> HIDE DEF v
    <3>3. Len(v) = 0
      BY <3>1, <3>2
    <3>4. v = <<>>
      BY <3>2, <3>3, EmptySeq
    <3> QED BY <3>4 DEF v
  <2>3. Where("logging_in", s, d, 0, made) /\ s.state = "logging_in"
    BY <2>1 DEF Where
  <2>4. UpExact("logging_in", s, Tail(u))
    BY <2>2, <2>3 DEF UpExact
  <2> QED BY <1>0, <1>2, <2>1, <2>3, <2>4 DEF Link, Follows
<1> QED BY <1>1, <1>2

(* A join that comes again is of a session that has gone. *)
LEMMA LinkIgnored ==
  ASSUME NEW s \in Session, NEW d \in Seq(DownMessage),
         NEW u \in Seq(UpMessage), u # <<>>, u[1].type = "join",
         NEW c \in ConnState \ {"absent", "connecting", "disconnected"}, NEW p,
         NEW made, Link(s, d, u, c, p, made)
  PROVE  s.state = "disconnected" /\ Link(s, d, Tail(u), c, p, made)
<1>1. UpFits(c, Tail(u))
  BY UpRest DEF Link
<1>2. CASE s.state # "disconnected"
  <2>1. UpExact(c, s, u)
    BY <1>2 DEF Link
  <2>2. 1 \in 1 .. Len(u)
    BY Consumed
  <2> QED BY <2>1, <2>2 DEF UpExact, ConnState, ActiveStates
<1>3. CASE s.state = "disconnected"
  BY <1>1, <1>3 DEF Link, Follows
<1> QED BY <1>2, <1>3

(* The session whose snapshot the host thinks loaded plays. *)
LEMMA LinkLoaded ==
  ASSUME NEW s \in Session, NEW d \in Seq(DownMessage),
         NEW u \in Seq(UpMessage), u # <<>>, u[1].type = "loaded", NEW p,
         NEW made, Link(s, d, u, "downloading_snapshot", p, made)
  PROVE  Link(s, d, Tail(u), "joined", p, made)
<1>0. UpFits("joined", Tail(u))
  BY UpRest DEF Link
<1>1. CASE s.state = "disconnected"
  BY <1>0, <1>1 DEF Link, Follows
<1>2. CASE s.state # "disconnected"
  <2>1. /\ Where("downloading_snapshot", s, d, 0, made) /\ InOrder(s, made)
        /\ UpExact("downloading_snapshot", s, u) /\ Due(s, d, 0, p, made)
        /\ s.owner = IF s.state \in {"connecting", "logging_in"} THEN Null
                     ELSE p
    BY <1>2 DEF Link, Follows
  <2>2. Playing(s)
    BY <2>1 DEF UpExact
  <2>3. Where("joined", s, d, 0, made)
    BY <2>1, <2>2 DEF Where, Playing
  <2>4. \A i \in 1 .. Len(Tail(u)) : Tail(u)[i].type \in {"loaded", "input"}
    BY <2>1, Consumed DEF UpExact
  <2>5. UpExact("joined", s, Tail(u))
    BY <2>2, <2>4 DEF UpExact, Playing
  <2> QED BY <1>0, <1>2, <2>1, <2>3, <2>5 DEF Link, Follows
<1> QED BY <1>1, <1>2

(* An input is of a session that plays. *)
LEMMA LinkInput ==
  ASSUME NEW s \in Session, NEW d \in Seq(DownMessage),
         NEW u \in Seq(UpMessage), u # <<>>, NEW p,
         NEW made, Link(s, d, u, "joined", p, made)
  PROVE  Link(s, d, Tail(u), "joined", p, made)
<1>0. UpFits("joined", Tail(u))
  BY UpRest DEF Link
<1>1. CASE s.state = "disconnected"
  BY <1>0, <1>1 DEF Link, Follows
<1>2. CASE s.state # "disconnected"
  <2>1. UpExact("joined", s, u) /\ Where("joined", s, d, 0, made)
    BY <1>2 DEF Link, Follows
  <2>2. s.state # "connecting"
    BY <2>1 DEF Where
  <2>3. \A i \in 1 .. Len(Tail(u)) : Tail(u)[i].type \in {"loaded", "input"}
    BY <2>1, Consumed DEF UpExact
  <2>4. UpExact("joined", s, Tail(u))
    BY <2>2, <2>3 DEF UpExact
  <2> QED BY <1>0, <2>4 DEF Link
<1> QED BY <1>1, <1>2

(* A message more of a session. *)
LEMMA Sends ==
  ASSUME NEW u \in Seq(UpMessage), NEW m \in UpMessage
  PROVE  /\ Append(u, m) \in Seq(UpMessage) /\ Len(u) \in Nat
         /\ Len(Append(u, m)) = Len(u) + 1
         /\ Append(u, m)[Len(u) + 1] = m
         /\ \A i \in 1 .. Len(u) : Append(u, m)[i] = u[i]
         /\ Append(u, m) # <<>>
OBVIOUS

(* What a session may send after what it has sent. *)
LEMMA UpMore ==
  ASSUME NEW u \in Seq(UpMessage), NEW m \in UpMessage, NEW c, UpFits(c, u),
         \/ m.type \in {"join", "disconnect"}
         \/ m.type = "loaded" /\ Len(u) = 0 /\ c = "downloading_snapshot"
         \/ /\ m.type = "input"
            /\ \A i \in 1 .. Len(u) : u[i].type \in {"loaded", "input"}
            /\ \/ c = "joined"
               \/ /\ c = "downloading_snapshot" /\ Len(u) > 0
                  /\ u[1].type = "loaded"
  PROVE  UpFits(c, Append(u, m))
<1> DEFINE v == Append(u, m)
<1>1. /\ Len(u) \in Nat /\ Len(v) = Len(u) + 1 /\ v[Len(u) + 1] = m
      /\ \A i \in 1 .. Len(u) : v[i] = u[i]
  BY Sends
<1> HIDE DEF v
<1> SUFFICES ASSUME NEW i \in 1 .. Len(v)
             PROVE  /\ v[i].type = "loaded" =>
                         i = 1 /\ c = "downloading_snapshot"
                    /\ v[i].type = "input" =>
                         /\ \/ c = "joined"
                            \/ /\ c = "downloading_snapshot"
                               /\ v[1].type = "loaded"
                         /\ \A j \in 1 .. i - 1 :
                              v[j].type \in {"loaded", "input"}
  BY DEF UpFits, v
<1>2. CASE i \in 1 .. Len(u)
  <2>1. v[i] = u[i] /\ v[1] = u[1]
    BY <1>1, <1>2
  <2>2. \A j \in 1 .. i - 1 : v[j] = u[j]
    BY <1>1, <1>2
  <2> QED BY <1>2, <2>1, <2>2 DEF UpFits
<1>3. CASE i = Len(u) + 1
  <2>1. v[i] = m
    BY <1>1, <1>3
  <2>2. \A j \in 1 .. i - 1 : j \in 1 .. Len(u) /\ v[j] = u[j]
    BY <1>1, <1>3
  <2>3. Len(u) > 0 => v[1] = u[1]
    BY <1>1
  <2>4. Len(u) = 0 => i = 1
    BY <1>3
  <2> QED BY <2>1, <2>2, <2>3, <2>4
<1> QED BY <1>1, <1>2, <1>3

(* A session without frames has none out of order. *)
LEMMA InOrderSame ==
  ASSUME NEW s, NEW t, NEW made, InOrder(s, made),
         s.state \in {"connecting", "logging_in", "preparing_snapshot"},
         t.tick = s.tick, t.base = s.base, t.applied = s.applied,
         t.buffered = s.buffered, t.delivered = s.delivered,
         t.state # "downloading_snapshot"
  PROVE  InOrder(t, made)
<1>1. Ran(t) = Ran(s) /\ Waiting(t) = Waiting(s)
  BY HeldSame
<1> QED BY <1>1 DEF InOrder

(* RemoteSession::set_login_payload. *)
LEMMA LinkLogin ==
  ASSUME NEW s \in Session, s.state = "connecting",
         NEW d \in Seq(DownMessage), NEW u \in Seq(UpMessage), NEW c, NEW p,
         NEW made, Link(s, d, u, c, p, made),
         NEW t, t = [s EXCEPT !.state = "logging_in"],
         NEW v, v = Append(u, [type |-> "join"])
  PROVE  t \in Session /\ v \in Seq(UpMessage) /\ Link(t, d, v, c, p, made)
<1>1. /\ Where(c, s, d, 0, made) /\ InOrder(s, made) /\ s.owner = Null
  BY DEF Link, Follows
<1>2. c = "absent" /\ Len(d) = 0
  BY <1>1 DEF Where
<1>3. /\ t \in Session /\ t.state = "logging_in" /\ t.owner = s.owner
      /\ t.tick = s.tick /\ t.base = s.base /\ t.applied = s.applied
      /\ t.buffered = s.buffered /\ t.delivered = s.delivered
  BY DEF Session, SessionState
<1>4. Follows(t, d, 0, c, p, made)
  <2>1. InOrder(t, made)
    BY <1>1, <1>3, InOrderSame
  <2>2. Due(t, d, 0, p, made)
    BY <1>2 DEF Due
  <2>3. Where(c, t, d, 0, made)
    BY <1>1, <1>2, <1>3 DEF Where
  <2> QED BY <1>1, <1>3, <2>1, <2>2, <2>3 DEF Follows
<1>5. u = <<>> /\ UpFits(c, u)
  BY <1>2 DEF Link, UpExact
<1>6. [type |-> "join"] \in UpMessage
  BY DEF UpMessage
<1>7. v \in Seq(UpMessage) /\ Len(v) = 1 /\ UpFits(c, v)
  <2>1. v \in Seq(UpMessage) /\ Len(v) = Len(u) + 1
    BY <1>6, Sends
  <2>2. Len(u) = 0
    BY <1>5
  <2>3. UpFits(c, v)
    BY <1>5, <1>6, UpMore
  <2> QED BY <2>1, <2>2, <2>3
<1>8. UpExact(c, t, v)
  BY <1>2, <1>3, <1>7 DEF UpExact
<1> QED BY <1>3, <1>4, <1>7, <1>8 DEF Link

(* What a session has sent still fits when it has read messages. *)
LEMMA ExactReads ==
  ASSUME NEW s, NEW t, Reads(s, t), t.state # "disconnected", NEW c, NEW u,
         UpExact(c, s, u)
  PROVE  UpExact(c, t, u)
BY DEF Reads, UpExact

(* RemoteSession::update. *)
Read(s, d, n) == Drained(HandledFirst(s, d, n))
Unread(s, d, n) == IF Read(s, d, n).state = "disconnected" THEN <<>>
                   ELSE SubSeq(d, n + 1, Len(d))

(* What is left unread is due to the session that has read the rest. *)
LEMMA LinkRead ==
  ASSUME NEW s \in Session, NEW d \in Seq(DownMessage), NEW u,
         NEW n \in Nat, n <= Len(d), NEW c, NEW p \in Nat,
         c = "absent" \/ p # Null, NEW made, Made(made),
         Link(s, d, u, c, p, made)
  PROVE  /\ Read(s, d, n) \in Session /\ Reads(s, Read(s, d, n))
         /\ Unread(s, d, n) \in Seq(DownMessage)
         /\ Link(Read(s, d, n), Unread(s, d, n), u, c, p, made)
<1> SUFFICES ASSUME NEW t, t = Drained(HandledFirst(s, d, n)),
                    NEW e, e = IF t.state = "disconnected" THEN <<>>
                               ELSE SubSeq(d, n + 1, Len(d))
             PROVE  /\ t \in Session /\ e \in Seq(DownMessage) /\ Reads(s, t)
                    /\ Link(t, e, u, c, p, made)
  BY DEF Read, Unread
<1> DEFINE h == HandledFirst(s, d, n)
<1>0. /\ Follows(s, d, 0, c, p, made) /\ (c # "disconnected" => UpFits(c, u))
  BY DEF Link
<1>1. h \in Session /\ Follows(h, d, n, c, p, made) /\ Reads(s, h)
  BY <1>0, HandledFirstFollows
<1>2. t \in Session /\ Follows(t, d, n, c, p, made) /\ Reads(h, t)
  <2>1. t = Drained(h)
    OBVIOUS
  <2> HIDE DEF h
  <2> QED BY <1>1, <2>1, DrainedFollows
<1>3. Reads(s, t)
  <2> HIDE DEF h
  <2> QED BY <1>1, <1>2, ReadsOn
<1> HIDE DEF h
<1>4. CASE t.state = "disconnected"
  <2>1. e = <<>> /\ <<>> \in Seq(DownMessage)
    BY <1>4
  <2>2. Follows(t, e, 0, c, p, made)
    BY <1>2, <1>4 DEF Follows
  <2> QED BY <1>0, <1>2, <1>3, <1>4, <2>1, <2>2 DEF Link
<1>5. CASE t.state # "disconnected"
  <2>1. e \in Seq(DownMessage) /\ Follows(t, e, 0, c, p, made)
    <3>1. e = SubSeq(d, n + 1, Len(d))
      BY <1>5
    <3>2. /\ SubSeq(d, n + 1, Len(d)) \in Seq(DownMessage)
          /\ Follows(t, SubSeq(d, n + 1, Len(d)), 0, c, p, made)
      BY <1>2, RestFollows
    <3> QED BY <3>1, <3>2
  <2>2. c # "disconnected" => UpExact(c, s, u)
    BY <1>3, <1>5 DEF Link, Reads
  <2>3. c # "disconnected" => UpExact(c, t, u)
    BY <2>2, <1>3, <1>5, ExactReads
  <2> QED BY <1>0, <1>2, <1>3, <2>1, <2>3 DEF Link
<1> QED BY <1>4, <1>5

(* What is sent to a host that no longer reads is not kept. *)
Sent(c, u, m) == IF c = "disconnected" THEN u ELSE Append(u, m)

(* RemoteSession::finish_snapshot_load. *)
Loaded(s) == Drained([s EXCEPT !.state = "catching_up", !.announced = FALSE])
LoadedQueue(s, d) == IF Loaded(s).state = "disconnected" THEN <<>> ELSE d

(* Reporting the snapshot loaded, and running the frames held back. *)
LEMMA LinkLoad ==
  ASSUME NEW s \in Session, s.state = "downloading_snapshot", s.delivered,
         NEW d \in Seq(DownMessage), NEW u \in Seq(UpMessage),
         NEW c \in ConnState, NEW p \in Nat, NEW made, Made(made),
         Link(s, d, u, c, p, made)
  PROVE  /\ Loaded(s) \in Session /\ LoadedQueue(s, d) \in Seq(DownMessage)
         /\ Sent(c, u, [type |-> "loaded"]) \in Seq(UpMessage)
         /\ Loaded(s).next = s.next
         /\ Loaded(s).state # "disconnected" => Playing(Loaded(s))
         /\ c # "disconnected" => c = "downloading_snapshot" /\ u = <<>>
         /\ Link(Loaded(s), LoadedQueue(s, d),
                 Sent(c, u, [type |-> "loaded"]), c, p, made)
<1> SUFFICES
      ASSUME NEW t, t = Drained([s EXCEPT !.state = "catching_up",
                                          !.announced = FALSE]),
             NEW e, e = IF t.state = "disconnected" THEN <<>> ELSE d,
             NEW v, v = IF c = "disconnected" THEN u
                        ELSE Append(u, [type |-> "loaded"])
      PROVE  /\ t \in Session /\ e \in Seq(DownMessage) /\ v \in Seq(UpMessage)
             /\ t.next = s.next
             /\ t.state # "disconnected" => Playing(t)
             /\ c # "disconnected" => c = "downloading_snapshot" /\ u = <<>>
             /\ Link(t, e, v, c, p, made)
  BY DEF Loaded, LoadedQueue, Sent
<1> DEFINE h == [s EXCEPT !.state = "catching_up", !.announced = FALSE]
<1>1. /\ Due(s, d, 0, p, made) /\ Where(c, s, d, 0, made) /\ s.owner = p
      /\ InOrder(s, made) /\ made \in Seq(Frame)
      /\ c # "disconnected" => UpExact(c, s, u) /\ UpFits(c, u)
  BY DEF Link, Follows, Made
<1>2. /\ h \in Session /\ h.state = "catching_up" /\ h.owner = s.owner
      /\ h.tick = s.tick /\ h.base = s.base /\ h.applied = s.applied
      /\ h.buffered = s.buffered /\ h.next = s.next
  BY DEF Session, SessionState
<1>3. t = Drained(h)
  OBVIOUS
<1> HIDE DEF h
<1>4. InOrder(h, made)
  BY <1>1, <1>2, HeldSame DEF InOrder
<1>5. Due(h, d, 0 + 0, p, made) /\ Where(c, h, d, 0 + 0, made)
  <2>1. Position(h) = Position(s) + 0
    <3>1. Position(h) = 3 + Ran(h) + Waiting(h)
      BY <1>2 DEF Position
    <3>2. Position(s) = 3 + Ran(s) + Waiting(s)
      BY DEF Position
    <3>3. Position(h) = Position(s)
      BY <3>1, <3>2, <1>2, HeldSame
    <3> QED BY <3>3, PositionType
  <2>2. h.base = Base(s, d, 0)
    BY <1>2 DEF Base
  <2>3. 0 + 0 <= Len(d) /\ 0 \in 0 .. 1 /\ 0 \in Nat
    OBVIOUS
  <2> QED BY <1>1, <1>2, <2>1, <2>2, <2>3, Advances
<1>6. Follows(h, d, 0, c, p, made)
  <2>1. 0 + 0 = 0
    OBVIOUS
  <2> QED BY <1>1, <1>2, <1>4, <1>5, <2>1 DEF Follows
<1>7. /\ t \in Session /\ Follows(t, d, 0, c, p, made) /\ Reads(h, t)
  <2>1. 0 <= Len(d) /\ 0 \in Nat
    OBVIOUS
  <2> QED BY <1>2, <1>3, <1>6, <2>1, DrainedFollows
<1>8. t.next = s.next /\ (t.state # "disconnected" => Playing(t))
  BY <1>2, <1>7 DEF Reads, Playing
<1>9. e \in Seq(DownMessage) /\ Follows(t, e, 0, c, p, made)
  BY <1>7 DEF Follows
<1>10. CASE c = "disconnected"
  BY <1>7, <1>8, <1>9, <1>10 DEF Link
<1>11. CASE c # "disconnected"
  <2>1. c = "downloading_snapshot"
    BY <1>1, <1>11 DEF Where, ConnState, ActiveStates
  <2>2. u = <<>> /\ UpFits(c, u)
    BY <1>1, <2>1 DEF UpExact, Playing
  <2> DEFINE m == [type |-> "loaded"]
  <2>3. m \in UpMessage /\ m.type = "loaded" /\ Len(u) = 0 /\ v = Append(u, m)
    BY <1>11, <2>2 DEF UpMessage
  <2> HIDE DEF m
  <2>4. v \in Seq(UpMessage) /\ Len(v) = 1 /\ v[1] = m /\ v # <<>>
    <3>1. /\ Append(u, m) \in Seq(UpMessage)
          /\ Len(Append(u, m)) = Len(u) + 1
          /\ Append(u, m)[Len(u) + 1] = m /\ Append(u, m) # <<>>
      BY <2>3, Sends
    <3>2. Len(u) + 1 = 1
      BY <2>3
    <3> QED BY <3>1, <3>2, <2>3
  <2>5. UpFits(c, v)
    BY <2>1, <2>2, <2>3, UpMore
  <2>6. t.state # "disconnected" => UpExact(c, t, v)
    <3>1. \A i \in 1 .. Len(v) : i = 1
      <4>1. \A i \in 1 .. 1 : i = 1
        OBVIOUS
      <4> QED BY <4>1, <2>4
    <3> QED BY <2>1, <2>3, <2>4, <3>1, <1>8 DEF UpExact, Playing
  <2> QED BY <1>7, <1>8, <1>9, <1>11, <2>1, <2>2, <2>4, <2>5, <2>6 DEF Link
<1> QED BY <1>10, <1>11

(* RemoteSession::submit. *)
Submitted(s) == [s EXCEPT !.next = @ + 1]

(* An input more on its way to the host. *)
LEMMA LinkSubmit ==
  ASSUME NEW s \in Session, s.state = "joined",
         NEW d \in Seq(DownMessage), NEW u \in Seq(UpMessage),
         NEW c \in ConnState, NEW p, NEW made,
         Link(s, d, u, c, p, made)
  PROVE  /\ Submitted(s) \in Session /\ Submitted(s).next = s.next + 1
         /\ Submitted(s).state = s.state
         /\ Sent(c, u, [type |-> "input", id |-> ID(s.next)])
              \in Seq(UpMessage)
         /\ c # "disconnected" => c \in {"downloading_snapshot", "joined"}
         /\ Link(Submitted(s), d, Sent(c, u, [type |-> "input",
                                             id |-> ID(s.next)]), c, p, made)
<1> SUFFICES
      ASSUME NEW t, t = [s EXCEPT !.next = @ + 1],
             NEW v, v = IF c = "disconnected" THEN u
                        ELSE Append(u, [type |-> "input", id |-> ID(s.next)])
      PROVE  /\ t \in Session /\ v \in Seq(UpMessage) /\ t.next = s.next + 1
             /\ t.state = s.state
             /\ c # "disconnected" => c \in {"downloading_snapshot", "joined"}
             /\ Link(t, d, v, c, p, made)
  BY DEF Submitted, Sent
<1>1. /\ Due(s, d, 0, p, made) /\ Where(c, s, d, 0, made) /\ s.owner = p
      /\ InOrder(s, made)
      /\ c # "disconnected" => UpExact(c, s, u) /\ UpFits(c, u)
  BY DEF Link, Follows
<1>2. s.next \in Nat
  BY DEF Session
<1> DEFINE number == s.next + 1
<1>3. number \in Nat
  BY <1>2
<1> HIDE DEF number
<1>4. t = [s EXCEPT !.next = number]
  BY DEF number
<1>5. /\ t \in Session /\ t.state = s.state /\ t.owner = s.owner
      /\ t.tick = s.tick /\ t.base = s.base /\ t.applied = s.applied
      /\ t.buffered = s.buffered /\ t.delivered = s.delivered
      /\ t.announced = s.announced /\ t.next = number
  BY <1>3, <1>4 DEF Session
<1>6. /\ Ran(t) = Ran(s) /\ Waiting(t) = Waiting(s)
      /\ Position(t) = Position(s) /\ Base(t, d, 0) = Base(s, d, 0)
  BY <1>5, HeldSame DEF Position, Base
<1>7. Follows(t, d, 0, c, p, made)
  <2>1. InOrder(t, made)
    BY <1>1, <1>5, <1>6 DEF InOrder
  <2>2. Due(t, d, 0, p, made)
    BY <1>1, <1>5, <1>6 DEF Due
  <2>3. Where(c, t, d, 0, made)
    BY <1>1, <1>5, <1>6 DEF Where, UpToDate
  <2> QED BY <1>1, <1>5, <2>1, <2>2, <2>3 DEF Follows
<1>8. c # "disconnected" => c \in {"downloading_snapshot", "joined"}
  BY <1>1 DEF Where, ConnState, ActiveStates
<1>9. CASE c = "disconnected"
  BY <1>5, <1>7, <1>9 DEF Link, number
<1>10. CASE c # "disconnected"
  <2> DEFINE m == [type |-> "input", id |-> ID(s.next)]
  <2>1. m \in UpMessage
    <3>1. ID(s.next) \in Nat \ {Null}
      BY <1>2 DEF ID, Null
    <3> QED BY <3>1 DEF UpMessage
  <2>2. m.type = "input" /\ v = Append(u, m)
    BY <1>10
  <2> HIDE DEF m
  <2>3. /\ UpFits(c, u)
        /\ \A i \in 1 .. Len(u) : u[i].type \in {"loaded", "input"}
        /\ c = "downloading_snapshot" => u # <<>> /\ u[1].type = "loaded"
    BY <1>1, <1>8, <1>10 DEF UpExact, Playing
  <2>4. c = "downloading_snapshot" => Len(u) > 0
    BY <2>3, EmptySeq
  <2>5. UpFits(c, v)
    BY <1>8, <1>10, <2>1, <2>2, <2>3, <2>4, UpMore
  <2>6. /\ v \in Seq(UpMessage) /\ Len(u) \in Nat /\ Len(v) = Len(u) + 1
        /\ v[Len(u) + 1] = m /\ \A i \in 1 .. Len(u) : v[i] = u[i]
        /\ v # <<>>
    BY <2>1, <2>2, Sends
  <2>7. \A i \in 1 .. Len(v) : v[i].type \in {"loaded", "input"}
    <3> SUFFICES ASSUME NEW i \in 1 .. Len(v)
                 PROVE  v[i].type \in {"loaded", "input"}
      OBVIOUS
    <3>1. i \in 1 .. Len(u) \/ i = Len(u) + 1
      BY <2>6
    <3> QED BY <3>1, <2>2, <2>3, <2>6
  <2>8. c = "downloading_snapshot" => v[1] = u[1]
    BY <2>4, <2>6
  <2>9. UpExact(c, t, v)
    BY <1>5, <1>8, <1>10, <2>3, <2>6, <2>7, <2>8 DEF UpExact, Playing
  <2> QED BY <1>5, <1>7, <1>8, <2>5, <2>6, <2>9 DEF Link, number
<1> QED BY <1>9, <1>10

(* A session that stops. *)
LEMMA LinkGone ==
  ASSUME NEW s \in Session, s.state # "disconnected",
         NEW d \in Seq(DownMessage), NEW u \in Seq(UpMessage),
         NEW why \in {"timeout", "left"}, NEW c, NEW p, NEW made,
         Link(s, d, u, c, p, made)
  PROVE  /\ Stop(s, why) \in Session /\ Stop(s, why).state = "disconnected"
         /\ Stop(s, why).next = s.next
         /\ Append(u, [type |-> "disconnect"]) \in Seq(UpMessage)
         /\ Link(Stop(s, why), <<>>, u, c, p, made)
         /\ Link(Stop(s, why), <<>>, Append(u, [type |-> "disconnect"]), c, p,
                 made)
<1> SUFFICES
      ASSUME NEW t, t = Stop(s, why),
             NEW v, v = u \/ v = Append(u, [type |-> "disconnect"])
      PROVE  /\ t \in Session /\ t.state = "disconnected" /\ t.next = s.next
             /\ v \in Seq(UpMessage) /\ Link(t, <<>>, v, c, p, made)
  OBVIOUS
<1>1. t = [s EXCEPT !.state = "disconnected", !.cause = why]
  BY DEF Stop
<1>2. /\ t \in Session /\ t.state = "disconnected" /\ t.tick = s.tick
      /\ t.base = s.base /\ t.applied = s.applied /\ t.next = s.next
      /\ t.buffered = s.buffered
  BY <1>1 DEF Session, SessionState
<1>3. InOrder(t, made)
  <2>1. InOrder(s, made) /\ Ran(t) = Ran(s) /\ Waiting(t) = Waiting(s)
    BY <1>2, HeldSame DEF Link, Follows
  <2> QED BY <1>2, <2>1 DEF InOrder
<1>4. [type |-> "disconnect"] \in UpMessage
  BY DEF UpMessage
<1>5. v \in Seq(UpMessage) /\ (c # "disconnected" => UpFits(c, v))
  <2>1. c # "disconnected" => UpFits(c, u)
    BY DEF Link
  <2>2. Append(u, [type |-> "disconnect"]) \in Seq(UpMessage)
    BY <1>4, Sends
  <2>3. c # "disconnected" => UpFits(c, Append(u, [type |-> "disconnect"]))
    BY <1>4, <2>1, UpMore
  <2> QED BY <2>1, <2>2, <2>3
<1> QED BY <1>2, <1>3, <1>5 DEF Link, Follows

(* A queue without its last message. *)
LEMMA FrontFacts ==
  ASSUME NEW S, NEW q \in Seq(S), q # <<>>
  PROVE  /\ Front(q) \in Seq(S) /\ Len(Front(q)) = Len(q) - 1
         /\ Len(q) \in Nat /\ Len(q) >= 1
         /\ \A i \in 1 .. Len(Front(q)) :
              i \in 1 .. Len(q) /\ i < Len(q) /\ Front(q)[i] = q[i]
<1> DEFINE r == SubSeq(q, 1, Len(q) - 1)
<1>1. Len(q) \in Nat /\ Len(q) >= 1
  BY EmptySeq
<1>2. \A i \in 1 .. Len(q) - 1 : q[i] \in S
  OBVIOUS
<1>3. /\ r \in Seq(S)
      /\ Len(r) = IF 1 <= Len(q) - 1 THEN Len(q) - 1 - 1 + 1 ELSE 0
      /\ \A i \in 1 .. Len(q) - 1 - 1 + 1 : r[i] = q[1 + i - 1]
  <2>1. 1 \in Int /\ Len(q) - 1 \in Int
    BY <1>1
  <2> QED BY <1>2, <2>1, SubSeqProperties
<1>4. r = Front(q)
  BY DEF Front
<1> HIDE DEF r
<1>5. Len(r) = Len(q) - 1
  <2>1. \A n \in Nat : n >= 1 =>
          (IF 1 <= n - 1 THEN n - 1 - 1 + 1 ELSE 0) = n - 1
    OBVIOUS
  <2>2. Len(r) = IF 1 <= Len(q) - 1 THEN Len(q) - 1 - 1 + 1 ELSE 0
    BY <1>3
  <2> QED BY <1>1, <2>1, <2>2
<1>6. ASSUME NEW i \in 1 .. Len(r)
      PROVE  i \in 1 .. Len(q) /\ i < Len(q) /\ r[i] = q[i]
  <2>1. i \in 1 .. Len(q) - 1 - 1 + 1 /\ 1 + i - 1 = i
    BY <1>1, <1>5
  <2>2. r[i] = q[i]
    BY <2>1, <1>3
  <2> QED BY <1>1, <2>1, <2>2
<1> QED BY <1>1, <1>3, <1>4, <1>5, <1>6

(* What a side that has stopped sent last is lost. *)
LEMMA LinkLoseUp ==
  ASSUME NEW s, s.state = "disconnected", NEW d,
         NEW u \in Seq(UpMessage), u # <<>>, NEW c, NEW p, NEW made,
         Link(s, d, u, c, p, made)
  PROVE  Link(s, d, Front(u), c, p, made)
<1>1. ASSUME UpFits(c, u) PROVE UpFits(c, Front(u))
  <2> SUFFICES ASSUME NEW i \in 1 .. Len(Front(u))
               PROVE  /\ Front(u)[i].type = "loaded" =>
                           i = 1 /\ c = "downloading_snapshot"
                      /\ Front(u)[i].type = "input" =>
                           /\ \/ c = "joined"
                              \/ /\ c = "downloading_snapshot"
                                 /\ Front(u)[1].type = "loaded"
                           /\ \A j \in 1 .. i - 1 :
                                Front(u)[j].type \in {"loaded", "input"}
    BY DEF UpFits
  <2>1. i \in 1 .. Len(u) /\ Front(u)[i] = u[i] /\ Len(Front(u)) \in Nat
    BY FrontFacts
  <2>2. /\ 1 \in 1 .. Len(Front(u))
        /\ \A j \in 1 .. i - 1 : j \in 1 .. Len(Front(u))
    BY <2>1
  <2>3. Front(u)[1] = u[1] /\ \A j \in 1 .. i - 1 : Front(u)[j] = u[j]
    BY <2>2, FrontFacts
  <2> QED BY <1>1, <2>1, <2>3 DEF UpFits
<1> QED BY <1>1 DEF Link, Follows

(* The session sees less of what was sent, but nothing else. *)
LEMMA LinkLoseDown ==
  ASSUME NEW s \in Session, NEW d \in Seq(DownMessage), d # <<>>, NEW u,
         NEW p, NEW made, Link(s, d, u, "disconnected", p, made)
  PROVE  Link(s, Front(d), u, "disconnected", p, made)
<1> DEFINE e == Front(d)
<1>1. /\ Len(e) = Len(d) - 1 /\ Len(d) \in Nat /\ Len(e) \in Nat
      /\ \A i \in 1 .. Len(e) : i \in 1 .. Len(d) /\ i < Len(d) /\ e[i] = d[i]
  BY FrontFacts
<1> HIDE DEF e
<1>2. ASSUME s.state # "disconnected" PROVE Due(s, e, 0, p, made)
  <2> SUFFICES ASSUME NEW i \in 0 + 1 .. Len(e)
               PROVE  /\ s.state = "logging_in" => i = 0 + 1
                      /\ Script(e[i], Position(s) + i - 0, p,
                                Base(s, e, 0), made)
    BY DEF Due
  <2>1. /\ i \in 0 + 1 .. Len(d) /\ i # Len(d) /\ e[i] = d[i]
        /\ 0 + 1 \in 1 .. Len(e)
    BY <1>1
  <2>2. Base(s, e, 0) = Base(s, d, 0)
    BY <1>1, <2>1 DEF Base
  <2> QED BY <1>2, <2>1, <2>2 DEF Link, Follows, Due
<1>3. s.state # "disconnected" => Where("disconnected", s, e, 0, made)
  BY DEF Link, Follows, Where
<1> QED BY <1>2, <1>3 DEF Link, Follows, e

(* The inputs of a frame are inputs. *)
LEMMA SortedType == ASSUME NEW s \in Seq(Input) PROVE Sorted(s) \in Seq(Input)
<1>1. PICK p \in Bijection(1 .. Len(s), 1 .. Len(s)) :
        Sorted(s) = [i \in 1 .. Len(s) |-> s[p[i]]]
  BY SortedArranged
<1>2. p \in [1 .. Len(s) -> 1 .. Len(s)]
  BY DEF Bijection, Injection
<1>3. \A i \in 1 .. Len(s) : s[p[i]] \in Input
  BY <1>2
<1>4. Len(s) \in Nat
  OBVIOUS
<1>5. [i \in 1 .. Len(s) |-> s[p[i]]] \in [1 .. Len(s) -> Input]
  BY <1>3
<1> QED BY <1>1, <1>4, <1>5, SeqDef
-----------------------------------------------------------------------------
(* The same of session r. *)
Linked(r) == Link(remote[r], down[r], up[r], conn[r], player[r], frames)

(* The host, and what the histories say of it. *)
Kept == /\ status \in {"joined", "disconnected"}
        /\ status = "disconnected" =>
             \A r \in Remote : conn[r] \in {"absent", "disconnected"}
        /\ Made(frames) /\ Len(frames) = tick
        /\ inputs \in Seq(Input) /\ submitted \in Nat
        /\ breached = {}
        /\ remote \in [Remote -> Session]
        /\ up \in [Remote -> Seq(UpMessage)]
        /\ down \in [Remote -> Seq(DownMessage)]

(* Every session is where the messages on their way expect it. *)
SInv == PInv /\ Kept /\ \A r \in Remote : Linked(r)

(* At first nothing is on its way. *)
LEMMA InitLinked == Init => SInv
<1> SUFFICES ASSUME Init PROVE SInv
  OBVIOUS
<1>1. PInv
  BY InitInvariant
<1>2. Joining \in Session /\ Joining.state = "connecting"
  BY DEF Joining, Session, SessionState, Null
<1>3. Made(frames) /\ Len(frames) = 0
  BY DEF Init, Made
<1>4. Kept
  BY <1>2, <1>3 DEF Init, Kept
<1>5. ASSUME NEW r \in Remote PROVE Linked(r)
  <2>1. /\ remote[r] = Joining /\ down[r] = <<>> /\ up[r] = <<>>
        /\ conn[r] = "absent" /\ player[r] = Null /\ frames = <<>>
    BY DEF Init
  <2>2. Ran(Joining) = 0 /\ Waiting(Joining) = 0
    BY DEF Ran, Waiting, Joining
  <2>3. InOrder(Joining, <<>>)
    BY <2>2 DEF InOrder, Joining
  <2>4. /\ Due(Joining, <<>>, 0, Null, <<>>)
        /\ Where("absent", Joining, <<>>, 0, <<>>)
    BY <1>2 DEF Due, Where
  <2>5. Follows(Joining, <<>>, 0, "absent", Null, <<>>)
    BY <2>3, <2>4 DEF Follows, Joining
  <2>6. UpFits("absent", <<>>) /\ UpExact("absent", Joining, <<>>)
    BY DEF UpFits, UpExact
  <2> QED BY <2>1, <2>5, <2>6 DEF Linked, Link
<1> QED BY <1>1, <1>4, <1>5 DEF SInv

(* What is known of one session and its connection. *)
LEMMA Known ==
  ASSUME SInv, NEW r \in Remote
  PROVE  /\ remote[r] \in Session /\ down[r] \in Seq(DownMessage)
         /\ up[r] \in Seq(UpMessage) /\ conn[r] \in ConnState
         /\ player[r] \in Nat /\ (conn[r] = "absent" \/ player[r] # Null)
         /\ Link(remote[r], down[r], up[r], conn[r], player[r], frames)
         /\ Made(frames) /\ Len(frames) = tick
         /\ (status = "disconnected" => conn[r] \in {"absent", "disconnected"})
BY DEF SInv, PInv, Kept, Linked, PlayersDistinct, Connections

(* One session, its connection and what passes between them change. *)
LEMMA OneMoves ==
  ASSUME SInv, PInv', UNCHANGED <<status, tick, frames, breached>>,
         inputs' \in Seq(Input), submitted' \in Nat, NEW r \in Remote,
         NEW s \in Session, remote' = [remote EXCEPT ![r] = s],
         NEW d \in Seq(DownMessage), down' = [down EXCEPT ![r] = d],
         NEW u \in Seq(UpMessage), up' = [up EXCEPT ![r] = u],
         NEW c, conn' = [conn EXCEPT ![r] = c],
         status = "disconnected" => c \in {"absent", "disconnected"},
         NEW p, player' = [player EXCEPT ![r] = p],
         Link(s, d, u, c, p, frames)
  PROVE  SInv'
<1>1. /\ remote \in [Remote -> Session] /\ conn \in [Remote -> ConnState]
      /\ up \in [Remote -> Seq(UpMessage)]
      /\ down \in [Remote -> Seq(DownMessage)] /\ player \in [Remote -> Nat]
      /\ Kept
  BY DEF SInv, Kept, PInv
<1>2. /\ remote' \in [Remote -> Session]
      /\ up' \in [Remote -> Seq(UpMessage)]
      /\ down' \in [Remote -> Seq(DownMessage)]
  BY <1>1
<1>3. \A q \in Remote : conn'[q] = IF q = r THEN c ELSE conn[q]
  BY <1>1
<1>4. Kept'
  BY <1>1, <1>2, <1>3 DEF Kept
<1>5. ASSUME NEW q \in Remote PROVE Linked(q)'
  <2>1. CASE q = r
    <3>1. /\ remote'[q] = s /\ down'[q] = d /\ up'[q] = u /\ conn'[q] = c
          /\ player'[q] = p
      BY <1>1, <2>1
    <3> QED BY <3>1 DEF Linked
  <2>2. CASE q # r
    <3>1. /\ remote'[q] = remote[q] /\ down'[q] = down[q] /\ up'[q] = up[q]
          /\ conn'[q] = conn[q] /\ player'[q] = player[q]
      BY <1>1, <2>2
    <3>2. Linked(q)
      BY DEF SInv
    <3> QED BY <3>1, <3>2 DEF Linked
  <2> QED BY <2>1, <2>2
<1> QED BY <1>4, <1>5 DEF SInv

(* A step that leaves one part alone changes it to what it is. *)
LEMMA Itself ==
  ASSUME SInv, NEW r \in Remote
  PROVE  /\ remote = [remote EXCEPT ![r] = remote[r]]
         /\ down = [down EXCEPT ![r] = down[r]]
         /\ up = [up EXCEPT ![r] = up[r]]
         /\ conn = [conn EXCEPT ![r] = conn[r]]
         /\ player = [player EXCEPT ![r] = player[r]]
         /\ inputs \in Seq(Input) /\ submitted \in Nat
BY DEF SInv, PInv, Kept

(* HostSession::close. *)
LEMMA ShutLinked ==
  ASSUME SInv, PInv', UNCHANGED <<hostVars, breached, remote>>,
         NEW r \in Remote, Shut(r), conn[r] \notin {"absent", "disconnected"}
  PROVE  SInv'
<1> DEFINE d == Queue(r, down[r], [type |-> "disconnect"])
<1>1. /\ conn' = [conn EXCEPT ![r] = "disconnected"]
      /\ down' = [down EXCEPT ![r] = d] /\ up' = [up EXCEPT ![r] = <<>>]
      /\ remote' = [remote EXCEPT ![r] = remote[r]]
      /\ player' = [player EXCEPT ![r] = player[r]]
  BY Itself DEF Shut, SendDown
<1>2. d = IF remote[r].state = "disconnected" THEN down[r]
          ELSE Append(down[r], [type |-> "disconnect"])
  BY DEF Queue, Gone
<1> HIDE DEF d
<1>a. /\ remote[r] \in Session /\ down[r] \in Seq(DownMessage)
      /\ Link(remote[r], down[r], up[r], conn[r], player[r], frames)
  BY Known
<1>3. /\ d \in Seq(DownMessage)
      /\ Link(remote[r], d, <<>>, "disconnected", player[r], frames)
  BY <1>2, <1>a, LinkShut
<1>4. UNCHANGED <<status, tick, frames, breached, inputs, submitted>>
      /\ remote[r] \in Session /\ <<>> \in Seq(UpMessage)
      /\ inputs' \in Seq(Input) /\ submitted' \in Nat
  BY Known, Itself DEF hostVars
<1> QED BY <1>1, <1>3, <1>4, OneMoves

(* What OneMoves asks for of a step that changes no inputs. *)
LEMMA Quiet ==
  ASSUME SInv, UNCHANGED hostVars
  PROVE  /\ UNCHANGED <<status, tick, frames>>
         /\ inputs' \in Seq(Input) /\ submitted' \in Nat
BY DEF SInv, Kept, hostVars

(* One lemma for each action: HostSession::update opens a connection. *)
LEMMA OpenLinked ==
  ASSUME SInv, PInv', NEW r \in Remote, Open(r)
  PROVE  SInv'
<1>1. /\ status = "joined" /\ conn[r] = "absent" /\ up[r] # <<>>
      /\ conn' = [conn EXCEPT ![r] = "connecting"]
      /\ player' = [player EXCEPT ![r] = Newcomer]
      /\ UNCHANGED <<hostVars, breached, remote, up, down>>
  BY DEF Open
<1>2. Link(remote[r], down[r], up[r], "connecting", Newcomer, frames)
  BY <1>1, Known, LinkOpen
<1>3. /\ remote' = [remote EXCEPT ![r] = remote[r]]
      /\ down' = [down EXCEPT ![r] = down[r]]
      /\ up' = [up EXCEPT ![r] = up[r]] /\ breached' = breached
  BY <1>1, Itself
<1> QED BY <1>1, <1>2, <1>3, Known, Quiet, OneMoves

(* HostSession::receive: a join. *)
LEMMA ReceiveJoinLinked ==
  ASSUME SInv, PInv', NEW r \in Remote, ReceiveJoin(r)
  PROVE  SInv'
<1>1. /\ status = "joined" /\ up[r] # <<>> /\ Head(up[r]).type = "join"
      /\ conn[r] \in ConnState \ {"absent", "disconnected"}
      /\ UNCHANGED <<hostVars, remote>>
  BY Known DEF ReceiveJoin, Arrives
<1>2. up[r][1].type = "join" /\ Tail(up[r]) \in Seq(UpMessage)
  BY <1>1, Known, Consumed
<1>3. CASE conn[r] # "connecting" /\ Consume(r) /\ UNCHANGED <<connVars, down>>
  <2>1. Link(remote[r], down[r], Tail(up[r]), conn[r], player[r], frames)
    BY <1>1, <1>2, <1>3, Known, LinkIgnored
  <2>2. /\ remote' = [remote EXCEPT ![r] = remote[r]]
        /\ down' = [down EXCEPT ![r] = down[r]]
        /\ up' = [up EXCEPT ![r] = Tail(up[r])]
        /\ conn' = [conn EXCEPT ![r] = conn[r]]
        /\ player' = [player EXCEPT ![r] = player[r]] /\ breached' = breached
    BY <1>1, <1>3, Itself DEF Consume, connVars
  <2> QED BY <1>1, <1>2, <2>1, <2>2, Known, Quiet, OneMoves
<1>4. CASE Close(r)
  BY <1>1, <1>4, ShutLinked DEF Close
<1>5. CASE /\ conn[r] = "connecting" /\ Consume(r)
           /\ conn' = [conn EXCEPT ![r] = "logging_in"]
           /\ UNCHANGED <<player, breached, down>>
  <2>1. Link(remote[r], down[r], Tail(up[r]), "logging_in", player[r], frames)
    BY <1>1, <1>5, Known, LinkJoin
  <2>2. /\ remote' = [remote EXCEPT ![r] = remote[r]]
        /\ down' = [down EXCEPT ![r] = down[r]]
        /\ up' = [up EXCEPT ![r] = Tail(up[r])]
        /\ player' = [player EXCEPT ![r] = player[r]] /\ breached' = breached
    BY <1>1, <1>5, Itself DEF Consume
  <2> QED BY <1>1, <1>2, <1>5, <2>1, <2>2, Known, Quiet, OneMoves
<1> QED BY <1>3, <1>4, <1>5 DEF ReceiveJoin

(* A connection is closed for a message out of place: never.               *)
LEMMA LoadedInPlace ==
  ASSUME SInv, NEW r \in Remote, Arrives(r, "loaded")
  PROVE  conn[r] = "downloading_snapshot"
<1>1. up[r] # <<>> /\ Head(up[r]).type = "loaded" /\ conn[r] # "disconnected"
  BY DEF Arrives
<1>2. /\ UpFits(conn[r], up[r]) /\ 1 \in 1 .. Len(up[r])
      /\ up[r][1].type = "loaded"
  BY <1>1, Known, Consumed DEF Link
<1> QED BY <1>2 DEF UpFits

(* An input comes when the host expects it, and with an identifier. *)
LEMMA InputInPlace ==
  ASSUME SInv, NEW r \in Remote, Arrives(r, "input")
  PROVE  conn[r] = "joined" /\ Head(up[r]).id \in Nat \ {Null}
<1>1. up[r] # <<>> /\ Head(up[r]).type = "input" /\ conn[r] # "disconnected"
  BY DEF Arrives
<1>2. /\ UpFits(conn[r], up[r]) /\ 1 \in 1 .. Len(up[r])
      /\ up[r][1].type = "input" /\ Head(up[r]) = up[r][1]
      /\ up[r][1] \in UpMessage
  BY <1>1, Known, Consumed DEF Link
<1> QED BY <1>2 DEF UpFits, UpMessage

(* HostSession::receive: the snapshot is loaded. *)
LEMMA ReceiveLoadedLinked ==
  ASSUME SInv, PInv', NEW r \in Remote, ReceiveLoaded(r)
  PROVE  SInv'
<1>1. /\ status = "joined" /\ up[r] # <<>> /\ Head(up[r]).type = "loaded"
      /\ Arrives(r, "loaded") /\ UNCHANGED <<hostVars, remote>>
  BY DEF ReceiveLoaded, Arrives
<1>2. /\ conn[r] = "downloading_snapshot" /\ Consume(r)
      /\ conn' = [conn EXCEPT ![r] = "joined"]
      /\ UNCHANGED <<player, breached, down>>
  BY <1>1, LoadedInPlace DEF ReceiveLoaded
<1>3. up[r][1].type = "loaded" /\ Tail(up[r]) \in Seq(UpMessage)
  BY <1>1, Known, Consumed
<1>4. Link(remote[r], down[r], Tail(up[r]), "joined", player[r], frames)
  BY <1>1, <1>2, <1>3, Known, LinkLoaded
<1>5. /\ remote' = [remote EXCEPT ![r] = remote[r]]
      /\ down' = [down EXCEPT ![r] = down[r]]
      /\ up' = [up EXCEPT ![r] = Tail(up[r])]
      /\ player' = [player EXCEPT ![r] = player[r]] /\ breached' = breached
  BY <1>1, <1>2, Itself DEF Consume
<1> QED BY <1>1, <1>2, <1>3, <1>4, <1>5, Known, Quiet, OneMoves

(* HostSession::receive: an input, which input_handler may refuse. *)
LEMMA ReceiveInputLinked ==
  ASSUME SInv, PInv', NEW r \in Remote, ReceiveInput(r)
  PROVE  SInv'
<1>1. /\ status = "joined" /\ up[r] # <<>> /\ conn[r] = "joined"
      /\ Head(up[r]).id \in Nat \ {Null}
      /\ UNCHANGED <<status, tick, submitted, frames, remote>>
  BY InputInPlace DEF ReceiveInput, Arrives
<1>2. CASE Close(r) /\ UNCHANGED inputs
  BY <1>1, <1>2, ShutLinked DEF Close, hostVars
<1>3. CASE /\ Consume(r)
           /\ inputs' = Append(inputs, [source |-> player[r],
                                        id |-> Head(up[r]).id])
           /\ UNCHANGED <<connVars, down>>
  <2>1. Link(remote[r], down[r], Tail(up[r]), "joined", player[r], frames)
    BY <1>1, Known, LinkInput
  <2>2. /\ remote' = [remote EXCEPT ![r] = remote[r]]
        /\ down' = [down EXCEPT ![r] = down[r]]
        /\ up' = [up EXCEPT ![r] = Tail(up[r])]
        /\ conn' = [conn EXCEPT ![r] = "joined"]
        /\ player' = [player EXCEPT ![r] = player[r]] /\ breached' = breached
    BY <1>1, <1>3, Itself DEF Consume, connVars
  <2>3. inputs' \in Seq(Input) /\ submitted' \in Nat
    <3>1. [source |-> player[r], id |-> Head(up[r]).id] \in Input
      BY <1>1, Known DEF Input
    <3>2. inputs \in Seq(Input) /\ submitted \in Nat
      BY Itself
    <3> QED BY <1>1, <1>3, <3>1, <3>2
  <2>4. Tail(up[r]) \in Seq(UpMessage)
    BY <1>1, Known, Consumed
  <2> QED BY <1>1, <2>1, <2>2, <2>3, <2>4, Known, OneMoves
<1> QED BY <1>1, <1>2, <1>3 DEF ReceiveInput

(* HostSession::close, for whatever reason. *)
LEMMA ClosedLinked ==
  ASSUME SInv, PInv', NEW r \in Remote,
         ReceiveDisconnect(r) \/ HostTimeout(r) \/ DisconnectPeer(r)
  PROVE  SInv'
<1>1. Close(r) /\ UNCHANGED <<hostVars, remote>>
  BY DEF ReceiveDisconnect, HostTimeout, DisconnectPeer
<1>2. conn[r] \notin {"absent", "disconnected"}
  BY DEF ReceiveDisconnect, HostTimeout, DisconnectPeer, Arrives, TimedStates
<1> QED BY <1>1, <1>2, ShutLinked DEF Close

(* HostSession::update asks for the snapshot. *)
LEMMA RequestSnapshotLinked ==
  ASSUME SInv, PInv', NEW r \in Remote, RequestSnapshot(r)
  PROVE  SInv'
<1>1. /\ status = "joined" /\ conn[r] = "accepting" /\ remote[r].owner # Null
      /\ conn' = [conn EXCEPT ![r] = "preparing_snapshot"]
      /\ UNCHANGED <<hostVars, player, breached, remote, up, down>>
  BY DEF RequestSnapshot, WelcomeAcknowledged
<1>2. Link(remote[r], down[r], up[r], "preparing_snapshot", player[r], frames)
  BY <1>1, Known, LinkRequest
<1>3. /\ remote' = [remote EXCEPT ![r] = remote[r]]
      /\ down' = [down EXCEPT ![r] = down[r]]
      /\ up' = [up EXCEPT ![r] = up[r]]
      /\ player' = [player EXCEPT ![r] = player[r]] /\ breached' = breached
  BY <1>1, Itself
<1> QED BY <1>1, <1>2, <1>3, Known, Quiet, OneMoves

(* HostSession::accept_login. *)
LEMMA AcceptLoginLinked ==
  ASSUME SInv, PInv', NEW r \in Remote, AcceptLogin(r)
  PROVE  SInv'
<1> DEFINE d == Queue(r, down[r], [type |-> "welcome", player |-> player[r]])
<1>1. /\ conn[r] = "logging_in" /\ down' = [down EXCEPT ![r] = d]
      /\ conn' = [conn EXCEPT ![r] = "accepting"]
      /\ UNCHANGED <<hostVars, player, breached, remote, up>>
  BY DEF AcceptLogin, SendDown
<1>2. d = IF remote[r].state = "disconnected" THEN down[r]
          ELSE Append(down[r], [type |-> "welcome", player |-> player[r]])
  BY DEF Queue, Gone
<1> HIDE DEF d
<1>3. /\ d \in Seq(DownMessage)
      /\ Link(remote[r], d, up[r], "accepting", player[r], frames)
  BY <1>1, <1>2, Known, LinkWelcome
<1>4. /\ remote' = [remote EXCEPT ![r] = remote[r]]
      /\ up' = [up EXCEPT ![r] = up[r]]
      /\ player' = [player EXCEPT ![r] = player[r]] /\ breached' = breached
      /\ status # "disconnected"
  BY <1>1, Itself, Known
<1> QED BY <1>1, <1>3, <1>4, Known, Quiet, OneMoves

(* HostSession::send_snapshot. *)
LEMMA SendSnapshotLinked ==
  ASSUME SInv, PInv', NEW r \in Remote, SendSnapshot(r)
  PROVE  SInv'
<1> DEFINE d == Queue(r, Queue(r, down[r], [type |-> "snapshot_begin",
                                            tick |-> tick]),
                      [type |-> "snapshot"])
<1>1. /\ conn[r] = "preparing_snapshot" /\ down' = [down EXCEPT ![r] = d]
      /\ conn' = [conn EXCEPT ![r] = "downloading_snapshot"]
      /\ UNCHANGED <<hostVars, player, breached, remote, up>>
  BY DEF SendSnapshot
<1>2. d = IF remote[r].state = "disconnected" THEN down[r]
          ELSE Append(Append(down[r], [type |-> "snapshot_begin",
                                       tick |-> tick]),
                      [type |-> "snapshot"])
  BY DEF Queue, Gone
<1> HIDE DEF d
<1>3. /\ d \in Seq(DownMessage)
      /\ Link(remote[r], d, up[r], "downloading_snapshot", player[r], frames)
  <2>1. tick = Len(frames)
    BY Known
  <2> QED BY <1>1, <1>2, <2>1, Known, LinkSnapshot
<1>4. /\ remote' = [remote EXCEPT ![r] = remote[r]]
      /\ up' = [up EXCEPT ![r] = up[r]]
      /\ player' = [player EXCEPT ![r] = player[r]] /\ breached' = breached
      /\ status # "disconnected"
  BY <1>1, Itself, Known
<1> QED BY <1>1, <1>3, <1>4, Known, Quiet, OneMoves

(* RemoteSession::set_login_payload. *)
LEMMA LoginLinked ==
  ASSUME SInv, PInv', NEW r \in Remote, Login(r)
  PROVE  SInv'
<1> DEFINE s == [remote[r] EXCEPT !.state = "logging_in"]
           u == Append(up[r], [type |-> "join"])
<1>1. /\ remote[r].state = "connecting"
      /\ remote' = [remote EXCEPT ![r] = s] /\ up' = [up EXCEPT ![r] = u]
      /\ UNCHANGED <<hostVars, connVars, down>>
  BY DEF Login
<1>2. /\ s \in Session /\ u \in Seq(UpMessage)
      /\ Link(s, down[r], u, conn[r], player[r], frames)
  BY <1>1, Known, LinkLogin
<1> HIDE DEF s, u
<1>3. /\ conn' = [conn EXCEPT ![r] = conn[r]]
      /\ down' = [down EXCEPT ![r] = down[r]]
      /\ player' = [player EXCEPT ![r] = player[r]] /\ breached' = breached
  BY <1>1, Itself DEF connVars
<1> QED BY <1>1, <1>2, <1>3, Known, Quiet, OneMoves

(* RemoteSession::update. *)
LEMMA RemoteUpdateLinked ==
  ASSUME SInv, PInv', NEW r \in Remote, NEW n \in 0 .. Len(down[r]),
         RemoteUpdate(r, n)
  PROVE  SInv'
<1> DEFINE s == Read(remote[r], down[r], n)
           d == Unread(remote[r], down[r], n)
<1>1. /\ remote' = [remote EXCEPT ![r] = s] /\ down' = [down EXCEPT ![r] = d]
      /\ UNCHANGED <<hostVars, connVars, up>>
  BY DEF RemoteUpdate, Read, Unread
<1>2. /\ s \in Session /\ d \in Seq(DownMessage)
      /\ Link(s, d, up[r], conn[r], player[r], frames)
  <2>1. n \in Nat /\ n <= Len(down[r])
    BY Known
  <2> QED BY <2>1, Known, LinkRead
<1> HIDE DEF s, d
<1>3. /\ conn' = [conn EXCEPT ![r] = conn[r]]
      /\ up' = [up EXCEPT ![r] = up[r]]
      /\ player' = [player EXCEPT ![r] = player[r]] /\ breached' = breached
  BY <1>1, Itself DEF connVars
<1> QED BY <1>1, <1>2, <1>3, Known, Quiet, OneMoves

(* What is sent to a host that no longer reads is not kept. *)
LEMMA SentUp ==
  ASSUME SInv, NEW r \in Remote, NEW m, SendUp(r, m), conn[r] # "absent"
  PROVE  up' = [up EXCEPT ![r] = IF conn[r] = "disconnected" THEN up[r]
                                 ELSE Append(up[r], m)]
<1>1. status # "joined" => conn[r] = "disconnected"
  BY DEF SInv, Kept
<1> QED BY <1>1 DEF SendUp

(* RemoteSession::finish_snapshot_load. *)
LEMMA FinishLoadLinked ==
  ASSUME SInv, PInv', NEW r \in Remote, FinishLoad(r)
  PROVE  SInv'
<1> DEFINE s == Loaded(remote[r])
           d == LoadedQueue(remote[r], down[r])
           u == Sent(conn[r], up[r], [type |-> "loaded"])
<1>1. /\ remote[r].state = "downloading_snapshot" /\ remote[r].delivered
      /\ remote' = [remote EXCEPT ![r] = s] /\ down' = [down EXCEPT ![r] = d]
      /\ SendUp(r, [type |-> "loaded"])
      /\ UNCHANGED <<hostVars, connVars>>
  BY DEF FinishLoad, Become, Loaded, LoadedQueue
<1>2. conn[r] # "absent"
  BY <1>1, Known DEF Link, Follows, Where
<1>3. up' = [up EXCEPT ![r] = u]
  BY <1>1, <1>2, SentUp DEF Sent
<1>4. /\ s \in Session /\ d \in Seq(DownMessage) /\ u \in Seq(UpMessage)
      /\ Link(s, d, u, conn[r], player[r], frames)
  BY <1>1, Known, LinkLoad
<1> HIDE DEF s, d, u
<1>5. /\ conn' = [conn EXCEPT ![r] = conn[r]]
      /\ player' = [player EXCEPT ![r] = player[r]] /\ breached' = breached
  BY <1>1, Itself DEF connVars
<1> QED BY <1>1, <1>3, <1>4, <1>5, Known, Quiet, OneMoves

(* RemoteSession::submit. *)
LEMMA RemoteSubmitLinked ==
  ASSUME SInv, PInv', NEW r \in Remote, RemoteSubmit(r)
  PROVE  SInv'
<1> DEFINE s == Submitted(remote[r])
           u == Sent(conn[r], up[r], [type |-> "input",
                                      id |-> ID(remote[r].next)])
<1>1. /\ remote[r].state = "joined"
      /\ remote' = [remote EXCEPT ![r] = s]
      /\ SendUp(r, [type |-> "input", id |-> ID(remote[r].next)])
      /\ UNCHANGED <<hostVars, connVars, down>>
  BY Known DEF RemoteSubmit, Submitted, SInv, Kept
<1>2. conn[r] # "absent"
  BY <1>1, Known DEF Link, Follows, Where
<1>3. up' = [up EXCEPT ![r] = u]
  BY <1>1, <1>2, SentUp DEF Sent
<1>4. /\ s \in Session /\ u \in Seq(UpMessage)
      /\ Link(s, down[r], u, conn[r], player[r], frames)
  BY <1>1, Known, LinkSubmit
<1> HIDE DEF s, u
<1>5. /\ conn' = [conn EXCEPT ![r] = conn[r]]
      /\ down' = [down EXCEPT ![r] = down[r]]
      /\ player' = [player EXCEPT ![r] = player[r]] /\ breached' = breached
  BY <1>1, Itself DEF connVars
<1> QED BY <1>1, <1>3, <1>4, <1>5, Known, Quiet, OneMoves

(* RemoteSession::disconnect, or its time limit. *)
LEMMA RemoteGoneLinked ==
  ASSUME SInv, PInv', NEW r \in Remote, RemoteTimeout(r) \/ RemoteDisconnect(r)
  PROVE  SInv'
<1>1. PICK why \in {"timeout", "left"} :
        /\ remote[r].state # "disconnected" /\ Become(r, Stop(remote[r], why))
        /\ UNCHANGED <<hostVars, connVars>>
        /\ UNCHANGED up \/ SendUp(r, [type |-> "disconnect"])
  BY DEF RemoteTimeout, RemoteDisconnect, ExpectsHost, Gone
<1> DEFINE u == IF \/ UNCHANGED up \/ conn[r] = "disconnected"
                   \/ status # "joined"
                THEN up[r] ELSE Append(up[r], [type |-> "disconnect"])
<1>2. up' = [up EXCEPT ![r] = u]
  <2>1. CASE UNCHANGED up
    BY <2>1, Itself
  <2>2. CASE ~ UNCHANGED up
    BY <1>1, <2>2 DEF SendUp
  <2> QED BY <2>1, <2>2
<1>3. u = up[r] \/ u = Append(up[r], [type |-> "disconnect"])
  OBVIOUS
<1> HIDE DEF u
<1>4. /\ Stop(remote[r], why) \in Session
      /\ Stop(remote[r], why).state = "disconnected"
      /\ Append(up[r], [type |-> "disconnect"]) \in Seq(UpMessage)
      /\ Link(Stop(remote[r], why), <<>>, up[r], conn[r], player[r], frames)
      /\ Link(Stop(remote[r], why), <<>>,
              Append(up[r], [type |-> "disconnect"]), conn[r], player[r],
              frames)
  BY <1>1, Known, LinkGone
<1> DEFINE s == Stop(remote[r], why)
<1>5. /\ s \in Session /\ u \in Seq(UpMessage)
      /\ Link(s, <<>>, u, conn[r], player[r], frames)
      /\ remote' = [remote EXCEPT ![r] = s]
      /\ down' = [down EXCEPT ![r] = <<>>]
  BY <1>1, <1>3, <1>4, Known DEF Become
<1> HIDE DEF s
<1>6. /\ conn' = [conn EXCEPT ![r] = conn[r]]
      /\ player' = [player EXCEPT ![r] = player[r]] /\ breached' = breached
      /\ <<>> \in Seq(DownMessage)
  BY <1>1, Itself DEF connVars
<1> QED BY <1>1, <1>2, <1>5, <1>6, Known, Quiet, OneMoves

(* The last message of a side that has stopped is lost. *)
LEMMA LoseTailLinked ==
  ASSUME SInv, PInv', NEW r \in Remote, LoseTail(r)
  PROVE  SInv'
<1>1. /\ remote' = [remote EXCEPT ![r] = remote[r]]
      /\ conn' = [conn EXCEPT ![r] = conn[r]]
      /\ player' = [player EXCEPT ![r] = player[r]] /\ breached' = breached
      /\ UNCHANGED hostVars
  BY Itself DEF LoseTail, connVars
<1>2. CASE /\ Gone(r) /\ up[r] # <<>> /\ UNCHANGED down
           /\ up' = [up EXCEPT ![r] = Front(@)]
  <2>1. Link(remote[r], down[r], Front(up[r]), conn[r], player[r], frames)
    BY <1>2, Known, LinkLoseUp DEF Gone
  <2>2. /\ down' = [down EXCEPT ![r] = down[r]]
        /\ up' = [up EXCEPT ![r] = Front(up[r])]
        /\ Front(up[r]) \in Seq(UpMessage)
    BY <1>2, Itself, Known, FrontFacts
  <2> QED BY <1>1, <2>1, <2>2, Known, Quiet, OneMoves
<1>3. CASE /\ conn[r] = "disconnected" /\ down[r] # <<>> /\ UNCHANGED up
           /\ down' = [down EXCEPT ![r] = Front(@)]
  <2>1. Link(remote[r], Front(down[r]), up[r], conn[r], player[r], frames)
    BY <1>3, Known, LinkLoseDown
  <2>2. /\ up' = [up EXCEPT ![r] = up[r]]
        /\ down' = [down EXCEPT ![r] = Front(down[r])]
        /\ Front(down[r]) \in Seq(DownMessage)
    BY <1>3, Itself, Known, FrontFacts
  <2> QED BY <1>1, <2>1, <2>2, Known, Quiet, OneMoves
<1> QED BY <1>2, <1>3 DEF LoseTail

(* HostSession::disconnect closes every connection. *)
LEMMA HostDisconnectLinked ==
  ASSUME SInv, PInv', HostDisconnect
  PROVE  SInv'
<1>1. ASSUME NEW r \in Remote
      PROVE  down'[r] \in Seq(DownMessage) /\ Linked(r)'
  <2>1. /\ remote'[r] = remote[r] /\ up'[r] = <<>> /\ player'[r] = player[r]
        /\ frames' = frames
        /\ conn'[r] = IF conn[r] = "absent" THEN "absent" ELSE "disconnected"
        /\ down'[r] = IF conn[r] \in {"absent", "disconnected"} THEN down[r]
                      ELSE Queue(r, down[r], [type |-> "disconnect"])
    BY DEF HostDisconnect
  <2>2. Link(remote[r], down[r], up[r], conn[r], player[r], frames)
    BY Known
  <2>3. CASE conn[r] = "absent"
    <3>1. Link(remote[r], down[r], <<>>, "absent", player[r], frames)
      BY <2>2, <2>3 DEF Link, UpFits, UpExact
    <3> QED BY <2>1, <2>3, <3>1, Known DEF Linked
  <2>4. CASE conn[r] = "disconnected"
    <3>1. Link(remote[r], down[r], <<>>, "disconnected", player[r], frames)
      BY <2>2, <2>4 DEF Link
    <3> QED BY <2>1, <2>4, <3>1, Known DEF Linked
  <2>5. CASE conn[r] \notin {"absent", "disconnected"}
    <3> DEFINE d == Queue(r, down[r], [type |-> "disconnect"])
    <3>1. d = IF remote[r].state = "disconnected" THEN down[r]
              ELSE Append(down[r], [type |-> "disconnect"])
      BY DEF Queue, Gone
    <3> HIDE DEF d
    <3>a. /\ remote[r] \in Session /\ down[r] \in Seq(DownMessage)
          /\ Link(remote[r], down[r], up[r], conn[r], player[r], frames)
      BY <2>2, Known
    <3>2. /\ d \in Seq(DownMessage)
          /\ Link(remote[r], d, <<>>, "disconnected", player[r], frames)
      BY <2>2, <2>5, <3>1, <3>a, LinkShut
    <3>3. down'[r] = d
      BY <2>1, <2>5 DEF d
    <3> QED BY <2>1, <2>5, <3>2, <3>3 DEF Linked
  <2> QED BY <2>3, <2>4, <2>5
<1>2. Kept'
  <2>1. Kept
    BY DEF SInv
  <2>2. up' \in [Remote -> Seq(UpMessage)]
    BY DEF HostDisconnect
  <2>3. down' \in [Remote -> Seq(DownMessage)]
    <3>1. down' = [r \in Remote |-> down'[r]]
      BY DEF HostDisconnect
    <3> QED BY <3>1, <1>1
  <2>4. \A r \in Remote : conn'[r] \in {"absent", "disconnected"}
    BY DEF HostDisconnect
  <2>5. /\ status' = "disconnected"
        /\ UNCHANGED <<tick, inputs, submitted, frames, breached, remote>>
    BY DEF HostDisconnect
  <2> QED BY <2>1, <2>2, <2>3, <2>4, <2>5 DEF Kept
<1> QED BY <1>1, <1>2 DEF SInv

(* HostSession::submit. *)
LEMMA HostSubmitLinked ==
  ASSUME SInv, PInv', HostSubmit
  PROVE  SInv'
<1>1. /\ inputs' = Append(inputs, [source |-> HostOwner, id |-> ID(submitted)])
      /\ submitted' = submitted + 1
      /\ UNCHANGED <<status, tick, frames, conn, player, breached, remote, up,
                     down>>
  BY DEF HostSubmit, connVars
<1>2. Kept
  BY DEF SInv
<1>3. inputs' \in Seq(Input) /\ submitted' \in Nat
  <2>1. submitted \in Nat /\ inputs \in Seq(Input)
    BY <1>2 DEF Kept
  <2>2. [source |-> HostOwner, id |-> ID(submitted)] \in Input
    BY <2>1 DEF Input, HostOwner, ID
  <2>3. inputs' \in Seq(Input)
    BY <1>1, <2>1, <2>2
  <2>4. submitted' \in Nat
    BY <1>1, <2>1
  <2> QED BY <2>3, <2>4
<1>4. Kept'
  BY <1>1, <1>2, <1>3 DEF Kept
<1>5. \A r \in Remote : Linked(r)'
  BY <1>1 DEF SInv, Linked
<1> QED BY <1>4, <1>5 DEF SInv

(* HostSession::advance. *)
LEMMA AdvanceLinked ==
  ASSUME SInv, PInv', Advance
  PROVE  SInv'
<1> DEFINE f == [tick |-> tick + 1, inputs |-> Sorted(inputs)]
<1>0. Kept
  BY DEF SInv
<1>1. /\ frames' = Append(frames, f) /\ tick' = tick + 1 /\ inputs' = <<>>
      /\ down' = [r \in Remote |->
           IF r \in Receivers
           THEN Queue(r, down[r], [type |-> "frame", frame |-> f])
           ELSE down[r]]
      /\ UNCHANGED <<status, submitted, conn, player, breached, remote, up>>
  BY DEF Advance, connVars
<1>2. f \in Frame /\ f.tick = Len(frames) + 1 /\ Made(frames)
      /\ Len(frames) = tick /\ tick \in Nat
  <2>1. tick \in Nat /\ tick = Len(frames) /\ Made(frames)
    BY <1>0 DEF Kept, Made
  <2>2. Sorted(inputs) \in Seq(Input)
    BY <1>0, SortedType DEF Kept
  <2>3. tick + 1 \in Nat
    BY <2>1
  <2>4. f \in Frame
    BY <2>2, <2>3 DEF Frame
  <2> QED BY <2>1, <2>4
<1> HIDE DEF f
<1>3. ASSUME NEW r \in Remote
      PROVE  down'[r] \in Seq(DownMessage) /\ Linked(r)'
  <2>1. /\ remote'[r] = remote[r] /\ up'[r] = up[r] /\ player'[r] = player[r]
        /\ conn'[r] = conn[r]
        /\ down'[r] = IF r \in Receivers
                      THEN Queue(r, down[r], [type |-> "frame", frame |-> f])
                      ELSE down[r]
    BY <1>1
  <2>2. CASE r \in Receivers
    <3>1. /\ conn[r] \in {"downloading_snapshot", "joined"}
          /\ down'[r] = IF remote[r].state = "disconnected" THEN down[r]
                        ELSE Append(down[r], [type |-> "frame", frame |-> f])
      BY <2>1, <2>2 DEF Receivers, Queue, Gone
    <3>2. /\ down'[r] \in Seq(DownMessage)
          /\ Link(remote[r], down'[r], up[r], conn[r], player[r],
                  Append(frames, f))
      <4>1. /\ remote[r] \in Session /\ down[r] \in Seq(DownMessage)
            /\ Link(remote[r], down[r], up[r], conn[r], player[r], frames)
            /\ Made(frames)
        BY Known
      <4> QED BY <1>2, <3>1, <4>1, LinkFrame
    <3> QED BY <1>1, <2>1, <3>2 DEF Linked
  <2>3. CASE r \notin Receivers
    <3>1. /\ conn[r] \notin {"downloading_snapshot", "joined"}
          /\ down'[r] = down[r]
      BY <2>1, <2>3 DEF Receivers
    <3>2. Link(remote[r], down[r], up[r], conn[r], player[r],
               Append(frames, f))
      BY <1>2, <3>1, Known, LinkMore
    <3> QED BY <1>1, <2>1, <3>1, <3>2, Known DEF Linked
  <2> QED BY <2>2, <2>3
<1>4. Made(frames') /\ Len(frames') = tick'
  <2>1. /\ Append(frames, f) \in Seq(Frame)
        /\ Len(Append(frames, f)) = tick + 1
        /\ Append(frames, f)[tick + 1] = f
        /\ \A t \in 1 .. tick : Append(frames, f)[t] = frames[t]
    <3>1. frames \in Seq(Frame)
      BY <1>2 DEF Made
    <3> QED BY <1>2, <3>1
  <2>2. ASSUME NEW t \in 1 .. tick + 1 PROVE Append(frames, f)[t].tick = t
    <3>1. t \in 1 .. tick \/ t = tick + 1
      BY <1>2
    <3>2. \A v \in 1 .. tick : frames[v].tick = v
      BY <1>2 DEF Made
    <3>3. f.tick = tick + 1
      BY <1>2
    <3> QED BY <2>1, <3>1, <3>2, <3>3
  <2> QED BY <1>1, <2>1, <2>2 DEF Made
<1>5. down' \in [Remote -> Seq(DownMessage)]
  <2>1. down' = [r \in Remote |-> down'[r]]
    BY <1>1
  <2> QED BY <2>1, <1>3
<1>6. Kept'
  <2>1. <<>> \in Seq(Input)
    OBVIOUS
  <2> QED BY <1>0, <1>1, <1>4, <1>5, <2>1 DEF Kept
<1> QED BY <1>3, <1>6 DEF SInv

(* No step breaks a link. *)
LEMMA NextLinked == SInv /\ [Next /\ UNCHANGED max_clients]_vars => SInv'
<1> SUFFICES ASSUME SInv, [Next /\ UNCHANGED max_clients]_vars PROVE SInv'
  OBVIOUS
<1>1. PInv'
  BY NextInvariant DEF SInv
<1>2. CASE UNCHANGED vars
  <2>1. UNCHANGED <<status, tick, inputs, submitted, frames, conn, player,
                    breached, remote, up, down>>
    BY <1>2 DEF vars, sessionVars, hostVars, connVars
  <2>2. Kept'
    BY <2>1 DEF SInv, Kept
  <2>3. \A r \in Remote : Linked(r)'
    BY <2>1 DEF SInv, Linked
  <2> QED BY <1>1, <2>2, <2>3 DEF SInv
<1>3. CASE Next
  <2>1. CASE HostDisconnect
    BY <1>1, <2>1, HostDisconnectLinked
  <2>2. CASE HostSubmit
    BY <1>1, <2>2, HostSubmitLinked
  <2>3. CASE Advance
    BY <1>1, <2>3, AdvanceLinked
  <2>4. ASSUME NEW r \in Remote,
               \/ Open(r) \/ ReceiveJoin(r) \/ ReceiveLoaded(r)
               \/ ReceiveInput(r) \/ ReceiveDisconnect(r) \/ HostTimeout(r)
               \/ RequestSnapshot(r) \/ AcceptLogin(r) \/ SendSnapshot(r)
               \/ DisconnectPeer(r)
        PROVE  SInv'
    BY <1>1, <2>4, OpenLinked, ReceiveJoinLinked, ReceiveLoadedLinked,
       ReceiveInputLinked, ClosedLinked, RequestSnapshotLinked,
       AcceptLoginLinked, SendSnapshotLinked
  <2>5. ASSUME NEW r \in Remote,
               \/ Login(r) \/ RemoteTimeout(r) \/ FinishLoad(r)
               \/ RemoteSubmit(r) \/ RemoteDisconnect(r) \/ LoseTail(r)
        PROVE  SInv'
    BY <1>1, <2>5, LoginLinked, RemoteGoneLinked, FinishLoadLinked,
       RemoteSubmitLinked, LoseTailLinked
  <2>6. ASSUME NEW r \in Remote, NEW n \in 0 .. Len(down[r]),
               RemoteUpdate(r, n)
        PROVE  SInv'
    BY <1>1, <2>6, RemoteUpdateLinked
  <2> QED BY <1>3, <2>1, <2>2, <2>3, <2>4, <2>5, <2>6 DEF Next
<1> QED BY <1>2, <1>3

(* The links, in every state. *)
LEMMA Linkage == Spec => []SInv
BY InitLinked, NextLinked, PTL DEF Spec

(* A sequence that agrees with a stretch of another one is that stretch. *)
LEMMA Stretch ==
  ASSUME NEW S, NEW q \in Seq(S), NEW run \in Seq(S), NEW b \in Nat,
         b + Len(run) <= Len(q), \A i \in 1 .. Len(run) : run[i] = q[b + i]
  PROVE  run = SubSeq(q, b + 1, b + Len(run))
<1> DEFINE n == Len(run)
           m == b + 1
           k == b + n
           slice == SubSeq(q, m, k)
<1>1. n \in Nat /\ Len(q) \in Nat /\ b + n <= Len(q)
  OBVIOUS
<1>2. \A i \in 1 .. Len(q) : q[i] \in S
  OBVIOUS
<1> HIDE DEF n
<1>3. \A i \in m .. k : q[i] \in S
  BY <1>1, <1>2
<1>4. /\ m \in Int /\ k \in Int
      /\ (IF m <= k THEN k - m + 1 ELSE 0) = n /\ k - m + 1 = n
      /\ \A i \in 1 .. n : m + i - 1 = b + i
  BY <1>1
<1> HIDE DEF m, k
<1>5. /\ slice \in Seq(S) /\ Len(slice) = IF m <= k THEN k - m + 1 ELSE 0
      /\ \A i \in 1 .. k - m + 1 : slice[i] = q[m + i - 1]
  BY <1>3, <1>4, SubSeqProperties
<1> HIDE DEF slice
<1>6. Len(slice) = n
  BY <1>4, <1>5
<1>7. ASSUME NEW i \in 1 .. n PROVE slice[i] = run[i]
  <2>1. i \in 1 .. k - m + 1 /\ m + i - 1 = b + i
    BY <1>4
  <2>2. slice[i] = q[m + i - 1]
    BY <2>1, <1>5
  <2>3. run[i] = q[b + i]
    BY DEF n
  <2> QED BY <2>1, <2>2, <2>3
<1>8. run = slice
  <2>1. Len(run) = Len(slice)
    BY <1>6 DEF n
  <2>2. \A i \in 1 .. Len(run) : run[i] = slice[i]
    BY <1>7 DEF n
  <2> QED BY <1>5, <2>1, <2>2, SeqEqual
<1> QED BY <1>8 DEF slice, m, k, n

(* Whatever is sent when, and whoever stops: the frames that a session has *)
(* run are the host's, from the one after its snapshot to the last, each   *)
(* once and in their order (HostSession::advance, RemoteSession::drain).   *)
THEOREM RemotesFollow == Spec => []RemotesRunTheHostsFrames
<1>1. ASSUME SInv PROVE RemotesRunTheHostsFrames
  <2>1. Len(frames) = tick /\ frames \in Seq(Frame)
    BY <1>1 DEF SInv, Kept, Made
  <2>2. ASSUME NEW r \in Remote
        PROVE  remote[r].applied =
                 SubSeq(frames, remote[r].base + 1,
                        remote[r].base + Len(remote[r].applied))
    <3> DEFINE s == remote[r]
    <3>1. /\ s \in Session /\ InOrder(s, frames)
      BY <1>1, Known DEF Link, Follows
    <3> HIDE DEF s
    <3>2. /\ s.base \in Nat /\ Ran(s) \in Nat /\ Waiting(s) \in Nat
          /\ s.tick = s.base + Ran(s) /\ s.tick + Waiting(s) <= Len(frames)
          /\ \A i \in 1 .. Ran(s) : s.applied[i] = frames[s.base + i]
      BY <3>1, PositionType DEF InOrder
    <3>3. s.base + Ran(s) <= Len(frames)
      <4>1. Len(frames) \in Nat
        BY <2>1
      <4> QED BY <3>2, <4>1
    <3>4. s.applied \in Seq(Frame) /\ Ran(s) = Len(s.applied)
      BY <3>1, SequencesType
    <3>5. s.applied = SubSeq(frames, s.base + 1, s.base + Len(s.applied))
      BY <2>1, <3>2, <3>3, <3>4, Stretch
    <3> QED BY <3>5 DEF s
  <2> QED BY <2>1, <2>2 DEF RemotesRunTheHostsFrames
<1> QED BY <1>1, Linkage, PTL

(* Neither HostSession::receive nor RemoteSession::receive or drain() ever *)
(* closes a connection because a message came out of place.                *)
THEOREM ProtocolIsKept == Spec => []NoBreach
<1>1. SInv => NoBreach
  BY DEF SInv, Kept, NoBreach, Session
<1> QED BY <1>1, Linkage, PTL

(* The state of the host's connection tells where its session is: no       *)
(* snapshot is prepared for a session that has not read its welcome.       *)
THEOREM TheSidesAgree == Spec => []SidesAgree
<1>1. ASSUME SInv PROVE SidesAgree
  <2>1. ASSUME NEW r \in Remote, remote[r].state # "disconnected"
        PROVE  /\ Where(conn[r], remote[r], down[r], 0, frames)
               /\ remote[r].owner \in {Null, player[r]}
    BY <1>1, <2>1, Known DEF Link, Follows
  <2> QED BY <2>1 DEF SidesAgree, Where
<1> QED BY <1>1, Linkage, PTL

-----------------------------------------------------------------------------
(* The inputs of the frames made and those waiting for the next one, as    *)
(* Carried, Places and InputAt have them.                                  *)
Held(made, waiting, t) == IF t > Len(made) THEN waiting ELSE made[t].inputs

(* The places of the inputs, and the input at one. *)
Spots(made, waiting) ==
  UNION {{t} \X DOMAIN Held(made, waiting, t) : t \in 1 .. Len(made) + 1}

At(made, waiting, x) == Held(made, waiting, x[1])[x[2]]

(* The places of the inputs of a source. *)
Own(made, waiting, source) ==
  {x \in Spots(made, waiting) : At(made, waiting, x).source = source}

(* The inputs of a source are those with the identifiers 1 to k, in order. *)
Numbered(made, waiting, source, k) ==
  /\ \A x \in Own(made, waiting, source) : At(made, waiting, x).id \in 1 .. k
  /\ \A j \in 1 .. k :
       \E x \in Own(made, waiting, source) : At(made, waiting, x).id = j
  /\ \A x, y \in Own(made, waiting, source) :
       Earlier(x, y) => At(made, waiting, x).id < At(made, waiting, y).id

(* The inputs at a place are inputs. *)
LEMMA HeldType ==
  ASSUME NEW made \in Seq(Frame), NEW waiting \in Seq(Input),
         NEW t \in 1 .. Len(made) + 1
  PROVE  /\ Held(made, waiting, t) \in Seq(Input)
         /\ DOMAIN Held(made, waiting, t) = 1 .. Len(Held(made, waiting, t))
<1>1. CASE t > Len(made)
  BY <1>1 DEF Held
<1>2. CASE ~ t > Len(made)
  <2>1. Len(made) \in Nat
    OBVIOUS
  <2>2. t \in 1 .. Len(made)
    BY <1>2, <2>1
  <2>3. made[t] \in Frame
    BY <2>2
  <2>4. made[t].inputs \in Seq(Input)
    BY <2>3 DEF Frame
  <2>5. Held(made, waiting, t) = made[t].inputs
    BY <1>2 DEF Held
  <2> QED BY <2>4, <2>5
<1> QED BY <1>1, <1>2

(* A place is a number of a frame and a number in it. *)
LEMMA SpotsAre ==
  ASSUME NEW made \in Seq(Frame), NEW waiting \in Seq(Input)
  PROVE  /\ \A x : x \in Spots(made, waiting) <=>
              /\ x = <<x[1], x[2]>> /\ x[1] \in 1 .. Len(made) + 1
              /\ x[2] \in 1 .. Len(Held(made, waiting, x[1]))
         /\ \A x \in Spots(made, waiting) :
              /\ x[1] \in Nat /\ x[2] \in Nat
              /\ At(made, waiting, x) \in Input
<1>1. ASSUME NEW x
      PROVE  x \in Spots(made, waiting) <=>
               /\ x = <<x[1], x[2]>> /\ x[1] \in 1 .. Len(made) + 1
               /\ x[2] \in 1 .. Len(Held(made, waiting, x[1]))
  <2>1. x \in Spots(made, waiting) <=>
          \E t \in 1 .. Len(made) + 1 :
            x \in {t} \X (1 .. Len(Held(made, waiting, t)))
    BY HeldType DEF Spots
  <2>2. \A t : x \in {t} \X (1 .. Len(Held(made, waiting, t))) <=>
          /\ x = <<x[1], x[2]>> /\ x[1] = t
          /\ x[2] \in 1 .. Len(Held(made, waiting, t))
    OBVIOUS
  <2> QED BY <2>1, <2>2
<1>2. ASSUME NEW x \in Spots(made, waiting)
      PROVE  /\ x[1] \in Nat /\ x[2] \in Nat
             /\ At(made, waiting, x) \in Input
  <2>1. /\ x[1] \in 1 .. Len(made) + 1
        /\ x[2] \in 1 .. Len(Held(made, waiting, x[1]))
    BY <1>1
  <2>2. Held(made, waiting, x[1]) \in Seq(Input)
    BY <2>1, HeldType
  <2> DEFINE held == Held(made, waiting, x[1])
  <2>3. held[x[2]] \in Input
    BY <2>1, <2>2
  <2> QED BY <2>1, <2>3 DEF At
<1> QED BY <1>1, <1>2

(* An input more that waits. *)
LEMMA SpotsMore ==
  ASSUME NEW made \in Seq(Frame), NEW waiting \in Seq(Input), NEW e \in Input
  PROVE  \E z : /\ Spots(made, Append(waiting, e)) =
                     Spots(made, waiting) \cup {z}
                /\ At(made, Append(waiting, e), z) = e
                /\ \A x \in Spots(made, waiting) :
                     /\ At(made, Append(waiting, e), x) = At(made, waiting, x)
                     /\ ~ Earlier(z, x) /\ x # z
                /\ ~ Earlier(z, z)
<1> DEFINE n == Len(made) + 1
           more == Append(waiting, e)
           z == <<n, Len(waiting) + 1>>
<1>1. Len(made) \in Nat /\ Len(waiting) \in Nat
  OBVIOUS
<1>2. /\ more \in Seq(Input) /\ Len(more) = Len(waiting) + 1
      /\ more[Len(waiting) + 1] = e
      /\ \A i \in 1 .. Len(waiting) : more[i] = waiting[i]
  OBVIOUS
<1> HIDE DEF more
<1>3. /\ Held(made, waiting, n) = waiting /\ Held(made, more, n) = more
      /\ \A t \in 1 .. Len(made) : Held(made, more, t) = Held(made, waiting, t)
  BY <1>1 DEF Held
<1>4. \A t \in 1 .. n : t \in 1 .. Len(made) \/ t = n
  BY <1>1
<1>5. n \in 1 .. n /\ \A t \in 1 .. Len(made) : t \in 1 .. n /\ t < n
  BY <1>1
<1> HIDE DEF n
<1>6. \A i : i \in 1 .. Len(more) <=>
               i \in 1 .. Len(waiting) \/ i = Len(waiting) + 1
  BY <1>1, <1>2
<1>7. ASSUME NEW x
      PROVE  x \in Spots(made, more) <=> x \in Spots(made, waiting) \/ x = z
  <2>1. /\ x \in Spots(made, more) <=>
             /\ x = <<x[1], x[2]>> /\ x[1] \in 1 .. n
             /\ x[2] \in 1 .. Len(Held(made, more, x[1]))
        /\ x \in Spots(made, waiting) <=>
             /\ x = <<x[1], x[2]>> /\ x[1] \in 1 .. n
             /\ x[2] \in 1 .. Len(Held(made, waiting, x[1]))
    BY <1>2, SpotsAre DEF n
  <2>2. x = z <=> x = <<x[1], x[2]>> /\ x[1] = n /\ x[2] = Len(waiting) + 1
    OBVIOUS
  <2> HIDE DEF z
  <2> QED BY <2>1, <2>2, <1>3, <1>4, <1>5, <1>6
<1>8. At(made, more, z) = e
  BY <1>2, <1>3 DEF At
<1>9. ASSUME NEW x \in Spots(made, waiting)
      PROVE  /\ At(made, more, x) = At(made, waiting, x)
             /\ ~ Earlier(z, x) /\ x # z
  <2>1. /\ x[1] \in 1 .. n /\ x[1] \in Nat /\ x[2] \in Nat
        /\ x[2] \in 1 .. Len(Held(made, waiting, x[1]))
    BY SpotsAre DEF n
  <2>2. CASE x[1] \in 1 .. Len(made)
    <3>1. Held(made, more, x[1]) = Held(made, waiting, x[1]) /\ x[1] < n
      BY <2>2, <1>3, <1>5
    <3>2. z[1] = n /\ n \in Nat
      BY <1>1 DEF n
    <3> HIDE DEF z
    <3>3. ~ Earlier(z, x) /\ x # z
      BY <2>1, <3>1, <3>2 DEF Earlier
    <3> QED BY <3>1, <3>3 DEF At
  <2>3. CASE x[1] = n
    <3>1. x[2] \in 1 .. Len(waiting)
      BY <2>1, <2>3, <1>3
    <3>2. /\ At(made, more, x) = more[x[2]]
          /\ At(made, waiting, x) = waiting[x[2]]
      BY <2>3, <1>3 DEF At
    <3>3. z[1] = n /\ z[2] = Len(waiting) + 1 /\ n \in Nat
      BY <1>1 DEF n
    <3> HIDE DEF z
    <3>4. ~ Earlier(z, x) /\ x # z
      BY <2>3, <3>1, <3>3, <1>1 DEF Earlier
    <3> QED BY <1>2, <3>1, <3>2, <3>4
  <2> QED BY <2>1, <2>2, <2>3, <1>4
<1>10. ~ Earlier(z, z)
  BY <1>1 DEF Earlier, n
<1> HIDE DEF z
<1>11. Spots(made, more) = Spots(made, waiting) \cup {z}
  BY <1>7
<1> QED BY <1>8, <1>9, <1>10, <1>11 DEF more

(* The next input of a source continues its numbers, and no others. *)
LEMMA NumberedMore ==
  ASSUME NEW made \in Seq(Frame), NEW waiting \in Seq(Input), NEW e \in Input,
         NEW source, NEW k \in Nat, Numbered(made, waiting, source, k)
  PROVE  /\ e.source # source =>
              Numbered(made, Append(waiting, e), source, k)
         /\ e.source = source /\ e.id = k + 1 =>
              Numbered(made, Append(waiting, e), source, k + 1)
<1> DEFINE more == Append(waiting, e)
<1>1. PICK z : /\ Spots(made, more) = Spots(made, waiting) \cup {z}
               /\ At(made, more, z) = e
               /\ \A x \in Spots(made, waiting) :
                    /\ At(made, more, x) = At(made, waiting, x)
                    /\ ~ Earlier(z, x) /\ x # z
               /\ ~ Earlier(z, z)
  BY SpotsMore
<1> HIDE DEF more
<1> DEFINE O == Own(made, waiting, source)
           O2 == Own(made, more, source)
<1>2. \A x \in O : /\ x \in O2 /\ At(made, more, x) = At(made, waiting, x)
                   /\ At(made, more, x).id \in 1 .. k
                   /\ ~ Earlier(z, x)
  BY <1>1 DEF Own, Numbered
<1>3. \A x \in O2 : x \in O \/ (x = z /\ e.source = source)
  BY <1>1 DEF Own
<1>4. /\ \A j \in 1 .. k : \E x \in O : At(made, waiting, x).id = j
      /\ \A x, y \in O : Earlier(x, y) =>
           At(made, waiting, x).id < At(made, waiting, y).id
  BY DEF Numbered
<1>5. e.source = source => z \in O2
  BY <1>1 DEF Own
<1> HIDE DEF O, O2
<1>6. ASSUME e.source # source PROVE Numbered(made, more, source, k)
  BY <1>2, <1>3, <1>4, <1>6 DEF Numbered, O2
<1>7. ASSUME e.source = source, e.id = k + 1
      PROVE  Numbered(made, more, source, k + 1)
  <2>1. \A i \in 1 .. k : i \in 1 .. k + 1 /\ i < k + 1
    OBVIOUS
  <2>2. \A i \in 1 .. k + 1 : i \in 1 .. k \/ i = k + 1
    OBVIOUS
  <2>3. k + 1 \in 1 .. k + 1
    OBVIOUS
  <2>4. \A x \in O2 : At(made, more, x).id \in 1 .. k + 1
    BY <1>1, <1>2, <1>3, <1>7, <2>1, <2>3
  <2>5. \A j \in 1 .. k + 1 : \E x \in O2 : At(made, more, x).id = j
    BY <1>1, <1>2, <1>4, <1>5, <1>7, <2>2
  <2>6. ASSUME NEW x \in O2, NEW y \in O2, Earlier(x, y)
        PROVE  At(made, more, x).id < At(made, more, y).id
    <3>1. x \in O
      BY <1>1, <1>2, <1>3, <2>6
    <3>2. CASE y \in O
      BY <3>1, <3>2, <1>2, <1>4, <2>6
    <3>3. CASE y = z
      BY <3>1, <3>3, <1>1, <1>2, <1>7, <2>1
    <3> QED BY <3>2, <3>3, <1>3
  <2> QED BY <2>4, <2>5, <2>6 DEF Numbered, O2
<1> QED BY <1>6, <1>7 DEF more

(* The inputs that waited are those of the frame, in the order of frames. *)
Moved(made, waiting, more, back) ==
  /\ back \in [Spots(more, <<>>) -> Spots(made, waiting)]
  /\ \A y \in Spots(made, waiting) : \E x \in Spots(more, <<>>) : back[x] = y
  /\ \A x \in Spots(more, <<>>) :
       At(more, <<>>, x) = At(made, waiting, back[x])
  /\ \A x, y \in Spots(more, <<>>) : Earlier(x, y) =>
       \/ Earlier(back[x], back[y])
       \/ /\ Earlier(back[y], back[x])
          /\ ~ InputOrder(At(more, <<>>, y), At(more, <<>>, x))

(* A frame takes the inputs that waited, each to one place. *)
LEMMA FrameMoves ==
  ASSUME NEW made \in Seq(Frame), NEW waiting \in Seq(Input), NEW f \in Frame,
         f.inputs = Sorted(waiting)
  PROVE  \E back : Moved(made, waiting, Append(made, f), back)
<1> DEFINE n == Len(made) + 1
           more == Append(made, f)
           len == Len(waiting)
           inorder == Sorted(waiting)
<1>1. PICK p \in Bijection(1 .. len, 1 .. len) :
        /\ inorder = [i \in 1 .. len |-> waiting[p[i]]]
        /\ \A i, j \in 1 .. len :
             i < j => ~ InputOrder(inorder[j], inorder[i])
  BY SortedArranged
<1>2. /\ p \in [1 .. len -> 1 .. len]
      /\ \A i, j \in 1 .. len : p[i] = p[j] => i = j
      /\ \A i \in 1 .. len : \E j \in 1 .. len : p[j] = i
  <2> HIDE DEF len
  <2> QED BY DEF Bijection, Injection, Surjection, IsInjective
<1>3. /\ inorder \in Seq(Input) /\ Len(inorder) = len
      /\ \A i \in 1 .. len : inorder[i] = waiting[p[i]]
  <2>1. inorder \in Seq(Input)
    BY SortedType
  <2>2. len \in Nat
    OBVIOUS
  <2> HIDE DEF len, inorder
  <2> QED BY <1>1, <2>1, <2>2
<1>4. /\ Len(made) \in Nat /\ len \in Nat /\ more \in Seq(Frame)
      /\ Len(more) = n /\ more[n] = f
      /\ \A t \in 1 .. Len(made) : more[t] = made[t]
  OBVIOUS
<1> HIDE DEF more, len, inorder
<1>5. /\ Held(made, waiting, n) = waiting /\ Held(more, <<>>, n) = inorder
      /\ Held(more, <<>>, n + 1) = <<>>
      /\ \A t \in 1 .. Len(made) : Held(more, <<>>, t) = Held(made, waiting, t)
  BY <1>4 DEF Held, inorder
<1>6. /\ \A t \in 1 .. n : t \in 1 .. n + 1 /\ (t \in 1 .. Len(made) \/ t = n)
      /\ \A t \in 1 .. n + 1 : t \in 1 .. n \/ t = n + 1
      /\ \A t \in 1 .. Len(made) : t \in 1 .. n /\ t < n
      /\ n \in 1 .. n /\ n \in Nat
  BY <1>4
<1>7. Len(waiting) = len
  BY DEF len
<1>x. n = Len(made) + 1
  OBVIOUS
<1> HIDE DEF n
<1>8. ASSUME NEW x
      PROVE  /\ x \in Spots(made, waiting) <=>
                  /\ x = <<x[1], x[2]>>
                  /\ \/ /\ x[1] \in 1 .. Len(made)
                        /\ x[2] \in 1 .. Len(Held(made, waiting, x[1]))
                     \/ x[1] = n /\ x[2] \in 1 .. len
             /\ x \in Spots(more, <<>>) <=> x \in Spots(made, waiting)
  <2>1. x \in Spots(made, waiting) <=>
             /\ x = <<x[1], x[2]>> /\ x[1] \in 1 .. n
             /\ x[2] \in 1 .. Len(Held(made, waiting, x[1]))
    BY <1>x, SpotsAre
  <2>2. x \in Spots(more, <<>>) <=>
             /\ x = <<x[1], x[2]>> /\ x[1] \in 1 .. n + 1
             /\ x[2] \in 1 .. Len(Held(more, <<>>, x[1]))
    <3>1. <<>> \in Seq(Input)
      OBVIOUS
    <3> QED BY <1>4, <3>1, SpotsAre
  <2>3. 1 .. Len(<<>>) = {}
    OBVIOUS
  <2> QED BY <2>1, <2>2, <2>3, <1>3, <1>5, <1>6, <1>7
<1> DEFINE P == Spots(made, waiting)
           back == [x \in P |-> IF x[1] = n THEN <<n, p[x[2]]>> ELSE x]
<1>9. Spots(more, <<>>) = P
  BY <1>8
<1>10. ASSUME NEW x \in P
       PROVE  /\ x[1] # n => back[x] = x /\ x[1] \in 1 .. Len(made)
              /\ x[1] = n => /\ back[x] = <<n, p[x[2]]>>
                             /\ x[2] \in 1 .. len /\ p[x[2]] \in 1 .. len
              /\ back[x] \in P /\ back[x][1] = x[1]
              /\ x = <<x[1], x[2]>>
  <2>0. /\ x = <<x[1], x[2]>>
        /\ \/ /\ x[1] \in 1 .. Len(made)
              /\ x[2] \in 1 .. Len(Held(made, waiting, x[1]))
           \/ x[1] = n /\ x[2] \in 1 .. len
    BY <1>8
  <2>1. CASE x[1] # n
    BY <2>0, <2>1
  <2>2. CASE x[1] = n
    <3>1. x[2] \in 1 .. len /\ p[x[2]] \in 1 .. len
      <4>1. x[1] \notin 1 .. Len(made)
        BY <2>2, <1>6
      <4> QED BY <2>0, <4>1, <1>2
    <3>2. back[x] = <<n, p[x[2]]>>
      BY <2>2
    <3>3. <<n, p[x[2]]>> \in P
      BY <3>1, <1>8
    <3> QED BY <2>0, <2>2, <3>1, <3>2, <3>3
  <2> QED BY <2>1, <2>2
<1>11. back \in [P -> P]
  <2>1. \A x \in P : back[x] \in P
    BY <1>10
  <2>2. back = [x \in P |-> back[x]]
    OBVIOUS
  <2> HIDE DEF back, P
  <2> QED BY <2>1, <2>2
<1> HIDE DEF back, P
<1>12. ASSUME NEW y \in P PROVE \E x \in P : back[x] = y
  <2>1. CASE y[1] # n
    BY <2>1, <1>10
  <2>2. CASE y[1] = n
    <3>1. y[2] \in 1 .. len
      BY <2>2, <1>10
    <3>2. PICK j \in 1 .. len : p[j] = y[2]
      BY <3>1, <1>2
    <3>3. <<n, j>> \in P /\ <<n, j>>[1] = n /\ <<n, j>>[2] = j
      BY <1>8 DEF P
    <3>4. back[<<n, j>>] = <<n, p[j]>>
      BY <3>3, <1>10
    <3>5. y = <<n, y[2]>>
      BY <2>2, <1>10
    <3> QED BY <3>2, <3>3, <3>4, <3>5
  <2> QED BY <2>1, <2>2
<1>13. ASSUME NEW x \in P PROVE At(more, <<>>, x) = At(made, waiting, back[x])
  <2>1. CASE x[1] # n
    BY <2>1, <1>5, <1>10 DEF At
  <2>2. CASE x[1] = n
    <3>1. /\ back[x][1] = n /\ back[x][2] = p[x[2]] /\ x[2] \in 1 .. len
      BY <2>2, <1>10
    <3>2. At(more, <<>>, x) = inorder[x[2]]
      BY <2>2, <1>5 DEF At
    <3>3. At(made, waiting, back[x]) = waiting[p[x[2]]]
      BY <3>1, <1>5 DEF At
    <3> QED BY <3>1, <3>2, <3>3, <1>3
  <2> QED BY <2>1, <2>2
<1>14. ASSUME NEW x \in P, NEW y \in P, Earlier(x, y)
       PROVE  \/ Earlier(back[x], back[y])
              \/ /\ Earlier(back[y], back[x])
                 /\ ~ InputOrder(At(more, <<>>, y), At(more, <<>>, x))
  <2>1. CASE x[1] < y[1]
    BY <2>1, <1>10 DEF Earlier
  <2>2. CASE x[1] = y[1] /\ x[1] # n
    BY <2>2, <1>10, <1>14
  <2>3. CASE x[1] = y[1] /\ x[1] = n /\ ~ x[1] < y[1]
    <3>1. /\ x[2] \in 1 .. len /\ y[2] \in 1 .. len /\ x[2] < y[2]
      BY <2>3, <1>10, <1>14 DEF Earlier
    <3>2. /\ back[x][1] = n /\ back[x][2] = p[x[2]]
          /\ back[y][1] = n /\ back[y][2] = p[y[2]]
      <4>1. back[x] = <<n, p[x[2]]>>
        BY <2>3, <1>10
      <4>2. y[1] = n
        BY <2>3
      <4>3. back[y] = <<n, p[y[2]]>>
        BY <4>2, <1>10
      <4> QED BY <4>1, <4>3
    <3>3. p[x[2]] \in Nat /\ p[y[2]] \in Nat /\ p[x[2]] # p[y[2]]
      <4>1. x[2] # y[2]
        BY <3>1, <1>4
      <4>2. p[x[2]] \in 1 .. len /\ p[y[2]] \in 1 .. len
        <5>1. x[1] = n /\ y[1] = n
          BY <2>3
        <5> HIDE DEF P
        <5> QED BY <5>1, <1>10
      <4>3. p[x[2]] # p[y[2]]
        BY <3>1, <4>1, <1>2
      <4>4. \A i \in 1 .. len : i \in Nat
        BY <1>4
      <4> QED BY <4>2, <4>3, <4>4
    <3>4. Earlier(back[x], back[y]) \/ Earlier(back[y], back[x])
      <4>1. p[x[2]] < p[y[2]] \/ p[y[2]] < p[x[2]]
        BY <3>3
      <4> QED BY <3>2, <4>1 DEF Earlier
    <3>5. ~ InputOrder(inorder[y[2]], inorder[x[2]])
      BY <3>1, <1>1
    <3>6. /\ At(more, <<>>, x) = inorder[x[2]]
          /\ At(more, <<>>, y) = inorder[y[2]]
      BY <2>3, <1>5 DEF At
    <3> QED BY <3>4, <3>5, <3>6
  <2> QED BY <2>1, <2>2, <2>3, <1>14 DEF Earlier
<1>15. Moved(made, waiting, more, back)
  BY <1>9, <1>11, <1>12, <1>13, <1>14 DEF Moved, P
<1> QED BY <1>15 DEF more

(* Sorting a frame leaves the inputs of each source in their order. *)
LEMMA NumberedMoved ==
  ASSUME NEW made \in Seq(Frame), NEW waiting \in Seq(Input),
         NEW more, NEW back, Moved(made, waiting, more, back),
         NEW source, NEW k \in Nat, Numbered(made, waiting, source, k)
  PROVE  Numbered(more, <<>>, source, k)
<1> DEFINE O == Own(made, waiting, source)
           O2 == Own(more, <<>>, source)
<1>1. ASSUME NEW x \in O2
      PROVE  /\ x \in Spots(more, <<>>) /\ back[x] \in O
             /\ At(more, <<>>, x) = At(made, waiting, back[x])
             /\ At(more, <<>>, x).source = source
             /\ At(more, <<>>, x).id \in 1 .. k
  <2>1. /\ x \in Spots(more, <<>>) /\ At(more, <<>>, x).source = source
    BY DEF Own
  <2>2. /\ back[x] \in Spots(made, waiting)
        /\ At(more, <<>>, x) = At(made, waiting, back[x])
    BY <2>1 DEF Moved
  <2>3. back[x] \in O
    BY <2>1, <2>2 DEF Own
  <2> QED BY <2>1, <2>2, <2>3 DEF Numbered
<1>2. ASSUME NEW j \in 1 .. k
      PROVE  \E x \in O2 : At(more, <<>>, x).id = j
  <2>1. PICK y \in O : At(made, waiting, y).id = j
    BY DEF Numbered
  <2>2. y \in Spots(made, waiting) /\ At(made, waiting, y).source = source
    BY DEF Own
  <2>3. PICK x \in Spots(more, <<>>) : back[x] = y
    BY <2>2 DEF Moved
  <2>4. At(more, <<>>, x) = At(made, waiting, y)
    BY <2>3 DEF Moved
  <2>5. x \in O2
    BY <2>2, <2>4 DEF Own
  <2> QED BY <2>1, <2>4, <2>5
<1>3. ASSUME NEW x \in O2, NEW y \in O2, Earlier(x, y)
      PROVE  At(more, <<>>, x).id < At(more, <<>>, y).id
  <2>1. \/ Earlier(back[x], back[y])
        \/ /\ Earlier(back[y], back[x])
           /\ ~ InputOrder(At(more, <<>>, y), At(more, <<>>, x))
    BY <1>1, <1>3 DEF Moved
  <2>2. CASE Earlier(back[x], back[y])
    BY <1>1, <2>2 DEF Numbered
  <2>3. CASE /\ Earlier(back[y], back[x])
             /\ ~ InputOrder(At(more, <<>>, y), At(more, <<>>, x))
    <3>1. At(more, <<>>, y).id < At(more, <<>>, x).id
      BY <1>1, <2>3 DEF Numbered
    <3>2. ~ (At(more, <<>>, y).id < At(more, <<>>, x).id)
      BY <1>1, <2>3 DEF InputOrder
    <3> QED BY <3>1, <3>2
  <2> QED BY <2>1, <2>2, <2>3
<1> QED BY <1>1, <1>2, <1>3 DEF Numbered

-----------------------------------------------------------------------------
(* The host has accepted k inputs of a session: those on their way follow. *)
Opening(u) == IF Len(u) > 0 /\ u[1].type = "loaded" THEN 1 ELSE 0

(* The inputs of u carry the numbers after k. *)
Continues(u, k) ==
  \A i \in 1 .. Len(u) : u[i].type = "input" => u[i].id = k + i - Opening(u)

(* Together with those on their way, s has submitted next inputs. *)
Pending(s, u, c, k) ==
  c # "disconnected" =>
    /\ c = "absent" => k = 0
    /\ Continues(u, k)
    /\ s.state # "disconnected" =>
         IF Playing(s) THEN s.next = k + Len(u) - Opening(u)
         ELSE k = 0 /\ s.next = 0

(* A session has joined no further than its messages say. *)
LEMMA PendingJoin ==
  ASSUME NEW s, NEW u \in Seq(UpMessage), u # <<>>, u[1].type = "join",
         NEW b, b # "disconnected", NEW c, c # "absent", NEW k,
         UpFits(b, u), Pending(s, u, b, k),
         s.state = "disconnected" \/ ~ Playing(s)
  PROVE  Pending(s, Tail(u), c, k)
<1>1. Len(u) >= 1 /\ Len(u) \in Nat
  BY Consumed
<1>2. \A i \in 1 .. Len(u) : u[i].type # "input"
  <2> SUFFICES ASSUME NEW i \in 1 .. Len(u), u[i].type = "input" PROVE FALSE
    OBVIOUS
  <2>1. i = 1 \/ 1 \in 1 .. i - 1
    OBVIOUS
  <2> QED BY <2>1 DEF UpFits
<1>3. Continues(Tail(u), k)
  BY <1>2, Consumed DEF Continues
<1> QED BY <1>3 DEF Pending

(* A session reports once that it has loaded. *)
LEMMA OpeningRest ==
  ASSUME NEW u \in Seq(UpMessage), u # <<>>, UpFits("joined", Tail(u))
  PROVE  Opening(Tail(u)) = 0
<1> DEFINE v == Tail(u)
<1>1. Len(v) \in Nat
  BY Consumed
<1> HIDE DEF v
<1>2. Len(v) > 0 => 1 \in 1 .. Len(v)
  BY <1>1
<1>3. Opening(v) = 0
  BY <1>2 DEF UpFits, Opening, v
<1> QED BY <1>3 DEF v

(* The report is read: the first input comes next. *)
LEMMA PendingLoaded ==
  ASSUME NEW s \in Session, NEW u \in Seq(UpMessage), u # <<>>,
         u[1].type = "loaded", NEW k \in Nat,
         UpFits("joined", Tail(u)), Pending(s, u, "downloading_snapshot", k)
  PROVE  Pending(s, Tail(u), "joined", k)
<1> DEFINE v == Tail(u)
           n == Len(u)
           m == Len(v)
<1>1. /\ n \in Nat /\ n >= 1 /\ m = n - 1
      /\ \A i \in 1 .. m : i + 1 \in 1 .. n /\ v[i] = u[i + 1]
  BY Consumed
<1>2. Opening(v) = 0
  BY OpeningRest
<1>3. Opening(u) = 1
  BY <1>1 DEF Opening
<1> HIDE DEF n, m, v
<1>4. \A i \in 1 .. m : v[i].type = "input" => v[i].id = k + (i + 1) - 1
  BY <1>1, <1>3 DEF Pending, Continues, n
<1>5. \A i \in 1 .. m : k + (i + 1) - 1 = k + i - 0
  BY <1>1
<1>6. Continues(v, k)
  BY <1>2, <1>4, <1>5 DEF Continues, m
<1>7. k + n - 1 = k + m - 0
  BY <1>1
<1>8. s.state # "disconnected" =>
        IF Playing(s) THEN s.next = k + m - Opening(v)
        ELSE k = 0 /\ s.next = 0
  BY <1>2, <1>3, <1>7 DEF Pending, n
<1> QED BY <1>6, <1>8 DEF Pending, m, v

(* The first input on its way is the one after those accepted. *)
LEMMA PendingInput ==
  ASSUME NEW s \in Session, NEW u \in Seq(UpMessage), u # <<>>,
         u[1].type = "input", NEW k \in Nat,
         s.state = "disconnected" \/ Playing(s),
         UpFits("joined", u), UpFits("joined", Tail(u)),
         Pending(s, u, "joined", k)
  PROVE  u[1].id = k + 1 /\ Pending(s, Tail(u), "joined", k + 1)
<1> DEFINE v == Tail(u)
           n == Len(u)
           m == Len(v)
<1>1. /\ n \in Nat /\ n >= 1 /\ m = n - 1
      /\ \A i \in 1 .. m : i + 1 \in 1 .. n /\ v[i] = u[i + 1]
  BY Consumed
<1>2. Opening(v) = 0
  BY OpeningRest
<1>3. Opening(u) = 0
  BY DEF Opening
<1> HIDE DEF n, m, v
<1>4. u[1].id = k + 1
  <2>1. 1 \in 1 .. n /\ k + 1 - 0 = k + 1
    BY <1>1
  <2> QED BY <1>3, <2>1 DEF Pending, Continues, n
<1>5. \A i \in 1 .. m : v[i].type = "input" => v[i].id = k + (i + 1) - 0
  BY <1>1, <1>3 DEF Pending, Continues, n
<1>6. \A i \in 1 .. m : k + (i + 1) - 0 = (k + 1) + i - 0
  BY <1>1
<1>7. Continues(v, k + 1)
  BY <1>2, <1>5, <1>6 DEF Continues, m
<1>8. k + n - 0 = (k + 1) + m - 0
  BY <1>1
<1>9. s.state # "disconnected" => s.next = (k + 1) + m - Opening(v)
  BY <1>2, <1>3, <1>8 DEF Pending, n
<1> QED BY <1>4, <1>7, <1>9 DEF Pending, m, v

(* A message more, that is not the first report of a snapshot loaded. *)
LEMMA ContinuesMore ==
  ASSUME NEW u \in Seq(UpMessage), NEW m \in UpMessage, m.type # "loaded",
         NEW k \in Nat, Continues(u, k),
         m.type = "input" => m.id = k + Len(u) - Opening(u) + 1
  PROVE  /\ Continues(Append(u, m), k)
         /\ Opening(Append(u, m)) = Opening(u) /\ Opening(u) \in 0 .. 1
<1> DEFINE v == Append(u, m)
           n == Len(u)
<1>1. /\ n \in Nat /\ Len(v) = n + 1 /\ v[n + 1] = m
      /\ \A i \in 1 .. n : v[i] = u[i]
  BY Sends
<1> HIDE DEF v
<1>2. Opening(v) = Opening(u)
  <2>1. CASE n = 0
    BY <2>1, <1>1 DEF Opening
  <2>2. CASE n # 0
    <3>1. n > 0 /\ Len(v) > 0 /\ 1 \in 1 .. n
      BY <1>1, <2>2
    <3>2. v[1] = u[1]
      BY <1>1, <3>1
    <3> QED BY <3>1, <3>2 DEF Opening
  <2> QED BY <2>1, <2>2
<1>3. Opening(u) \in 0 .. 1
  BY DEF Opening
<1>4. ASSUME NEW i \in 1 .. n + 1, v[i].type = "input"
      PROVE  v[i].id = k + i - Opening(u)
  <2>1. CASE i = n + 1
    <3>1. k + n - Opening(u) + 1 = k + (n + 1) - Opening(u)
      BY <1>1, <1>3
    <3> QED BY <1>1, <1>4, <2>1, <3>1
  <2>2. CASE i \in 1 .. n
    BY <1>1, <1>4, <2>2 DEF Continues
  <2> QED BY <2>1, <2>2, <1>1
<1>5. Continues(v, k)
  BY <1>1, <1>2, <1>4 DEF Continues
<1> QED BY <1>2, <1>3, <1>5 DEF v

(* A session that stops has nothing more to submit. *)
LEMMA PendingGone ==
  ASSUME NEW s, NEW t, t.state = "disconnected", NEW u \in Seq(UpMessage),
         NEW c, NEW k \in Nat, Pending(s, u, c, k)
  PROVE  /\ Pending(t, u, c, k)
         /\ Pending(t, Append(u, [type |-> "disconnect"]), c, k)
<1> DEFINE m == [type |-> "disconnect"]
<1>1. m \in UpMessage /\ m.type = "disconnect"
  BY DEF UpMessage
<1> HIDE DEF m
<1>2. Continues(u, k) => Continues(Append(u, m), k)
  BY <1>1, ContinuesMore
<1> QED BY <1>2 DEF Pending, m

(* A session that asks to join has submitted nothing. *)
LEMMA PendingLogin ==
  ASSUME NEW s, s.state = "connecting", NEW t, t.state = "logging_in",
         t.next = s.next, NEW u \in Seq(UpMessage),
         NEW c, NEW k \in Nat, Pending(s, u, c, k)
  PROVE  Pending(t, Append(u, [type |-> "join"]), c, k)
<1> DEFINE m == [type |-> "join"]
<1>1. m \in UpMessage /\ m.type = "join"
  BY DEF UpMessage
<1> HIDE DEF m
<1>2. Continues(u, k) => Continues(Append(u, m), k)
  BY <1>1, ContinuesMore
<1> QED BY <1>2 DEF Pending, Playing, m

(* Reading messages changes nothing of what was submitted. *)
LEMMA PendingRead ==
  ASSUME NEW s, NEW t, Reads(s, t), NEW u, NEW c, NEW k, Pending(s, u, c, k)
  PROVE  Pending(t, u, c, k)
BY DEF Pending, Reads

(* A session that has just loaded has submitted nothing. *)
LEMMA PendingLoad ==
  ASSUME NEW s, s.state = "downloading_snapshot", NEW t, t.next = s.next,
         t.state # "disconnected" => Playing(t), NEW u, NEW c,
         c # "disconnected" => c = "downloading_snapshot" /\ u = <<>>,
         NEW k, Pending(s, u, c, k)
  PROVE  Pending(t, Sent(c, u, [type |-> "loaded"]), c, k)
<1>1. CASE c = "disconnected"
  BY <1>1 DEF Pending
<1>2. CASE c # "disconnected"
  <2> DEFINE v == Append(u, [type |-> "loaded"])
  <2>1. /\ u = <<>> /\ c = "downloading_snapshot" /\ k = 0 /\ t.next = 0
        /\ v = Sent(c, u, [type |-> "loaded"])
    BY <1>2 DEF Pending, Playing, Sent
  <2>2. Len(v) = 1 /\ v[1].type = "loaded"
    BY <2>1
  <2> HIDE DEF v
  <2>3. Opening(v) = 1 /\ Continues(v, k)
    BY <2>2 DEF Opening, Continues
  <2>4. t.next = k + Len(v) - Opening(v)
    <3>1. 0 = 0 + 1 - 1
      OBVIOUS
    <3>2. Opening(v) = 1
      BY <2>3
    <3> QED BY <2>1, <2>2, <3>1, <3>2
  <2> QED BY <2>1, <2>3, <2>4 DEF Pending
<1> QED BY <1>1, <1>2

(* The input submitted is the one after those on their way. *)
LEMMA PendingSubmit ==
  ASSUME NEW s \in Session, s.state = "joined", NEW t, t.next = s.next + 1,
         t.state = s.state, NEW u \in Seq(UpMessage), NEW c, NEW k \in Nat,
         Pending(s, u, c, k)
  PROVE  Pending(t, Sent(c, u, [type |-> "input", id |-> ID(s.next)]), c, k)
<1>1. CASE c = "disconnected"
  BY <1>1 DEF Pending
<1>2. CASE c # "disconnected"
  <2> DEFINE m == [type |-> "input", id |-> ID(s.next)]
             v == Append(u, m)
             n == Len(u)
  <2>0. s.next \in Nat
    BY DEF Session
  <2>1. m \in UpMessage /\ m.type = "input" /\ m.id = s.next + 1
    <3>1. ID(s.next) \in Nat \ {Null} /\ ID(s.next) = s.next + 1
      BY <2>0 DEF ID, Null
    <3> QED BY <3>1 DEF UpMessage
  <2>2. v = Sent(c, u, m)
    BY <1>2 DEF Sent
  <2>3. Len(v) = n + 1 /\ n \in Nat
    <3> HIDE DEF m
    <3> QED BY <2>1, Sends
  <2>4. Continues(u, k) /\ s.next = k + n - Opening(u)
    BY <1>2 DEF Pending, Playing
  <2> HIDE DEF m, n
  <2>5. m.id = k + n - Opening(u) + 1
    BY <2>1, <2>4
  <2>6. Continues(v, k) /\ Opening(v) = Opening(u) /\ Opening(u) \in 0 .. 1
    BY <2>1, <2>4, <2>5, ContinuesMore DEF n
  <2> HIDE DEF v
  <2>7. t.next = k + Len(v) - Opening(v)
    <3>1. t.next = (k + n - Opening(u)) + 1
      BY <2>4
    <3> QED BY <2>3, <2>6, <3>1
  <2>8. c = "absent" => k = 0
    BY <1>2 DEF Pending
  <2> QED BY <2>2, <2>6, <2>7, <2>8 DEF Pending, Playing, m
<1> QED BY <1>1, <1>2

(* The last message lost, the others still follow. *)
LEMMA PendingLoseUp ==
  ASSUME NEW s, s.state = "disconnected", NEW u \in Seq(UpMessage), u # <<>>,
         NEW c, NEW k \in Nat, Pending(s, u, c, k)
  PROVE  Pending(s, Front(u), c, k)
<1> DEFINE v == Front(u)
<1>1. /\ Len(v) = Len(u) - 1 /\ Len(u) \in Nat /\ Len(u) >= 1
      /\ \A i \in 1 .. Len(v) : i \in 1 .. Len(u) /\ v[i] = u[i]
  BY FrontFacts
<1> HIDE DEF v
<1>2. Len(v) > 0 => Opening(v) = Opening(u)
  <2>1. Len(v) > 0 => 1 \in 1 .. Len(v) /\ Len(u) > 0
    BY <1>1
  <2> QED BY <2>1, <1>1 DEF Opening
<1>3. \A i \in 1 .. Len(v) : Len(v) > 0
  BY <1>1
<1>4. Continues(u, k) => Continues(v, k)
  BY <1>1, <1>2, <1>3 DEF Continues
<1> QED BY <1>4 DEF Pending, v

(* Every input is of one of the sources in S. *)
From(made, waiting, S) ==
  \A x \in Spots(made, waiting) : At(made, waiting, x).source \in S

(* Every frame has its inputs in order. *)
AllSorted(made) ==
  \A t \in 1 .. Len(made) : \A i, j \in DOMAIN made[t].inputs :
    i < j => InputOrder(made[t].inputs[i], made[t].inputs[j])

(* An input more of a known source. *)
LEMMA FromMore ==
  ASSUME NEW made \in Seq(Frame), NEW waiting \in Seq(Input), NEW e \in Input,
         NEW S, From(made, waiting, S), e.source \in S
  PROVE  From(made, Append(waiting, e), S)
<1> DEFINE more == Append(waiting, e)
<1>1. PICK z : /\ Spots(made, more) = Spots(made, waiting) \cup {z}
               /\ At(made, more, z) = e
               /\ \A x \in Spots(made, waiting) :
                    At(made, more, x) = At(made, waiting, x)
  BY SpotsMore
<1> HIDE DEF more
<1>2. From(made, more, S)
  BY <1>1 DEF From
<1> QED BY <1>2 DEF more

(* The sources are the same when a frame takes what waited. *)
LEMMA FromMoved ==
  ASSUME NEW made, NEW waiting, NEW more, NEW back,
         Moved(made, waiting, more, back), NEW S, From(made, waiting, S)
  PROVE  From(more, <<>>, S)
BY DEF Moved, From

(* Inputs that compare equal never meet in a frame. *)
LEMMA FrameSorted ==
  ASSUME NEW made \in Seq(Frame), NEW waiting \in Seq(Input), NEW f \in Frame,
         f.inputs = Sorted(waiting), AllSorted(made), NEW S,
         From(Append(made, f), <<>>, S),
         \A source \in S :
           \E k \in Nat : Numbered(Append(made, f), <<>>, source, k)
  PROVE  AllSorted(Append(made, f))
<1> DEFINE n == Len(made) + 1
           more == Append(made, f)
           inorder == Sorted(waiting)
           len == Len(waiting)
<1>1. /\ Len(made) \in Nat /\ more \in Seq(Frame) /\ Len(more) = n
      /\ more[n] = f /\ \A t \in 1 .. Len(made) : more[t] = made[t]
      /\ len \in Nat
  OBVIOUS
<1>2. /\ inorder \in Seq(Input) /\ DOMAIN inorder = 1 .. len
      /\ \A i, j \in 1 .. len : i < j => ~ InputOrder(inorder[j], inorder[i])
  BY SortedType, SortedArranged
<1> HIDE DEF more, inorder
<1>x. \A i \in 1 .. len : inorder[i] \in Input
  <2>1. \A i \in DOMAIN inorder : inorder[i] \in Input
    BY <1>2
  <2> QED BY <1>2, <2>1
<1>3. \A t \in 1 .. n : t \in 1 .. Len(made) \/ t = n
  BY <1>1
<1>4. n \in 1 .. n /\ n \in 1 .. n + 1 /\ ~ (n > n) /\ n \in Nat
  BY <1>1
<1> HIDE DEF n, len
<1>5. ASSUME NEW i \in 1 .. len, NEW j \in 1 .. len, i < j
      PROVE  InputOrder(inorder[i], inorder[j])
  <2> DEFINE x == <<n, i>>
             y == <<n, j>>
             a == inorder[i]
             b == inorder[j]
  <2>1. Held(more, <<>>, n) = inorder
    BY <1>1, <1>4 DEF Held, inorder
  <2>2. At(more, <<>>, x) = a /\ At(more, <<>>, y) = b
    BY <2>1 DEF At
  <2>3. Earlier(x, y)
    BY <1>5 DEF Earlier
  <2>4. Len(inorder) = len
    BY <1>1, <1>2
  <2>5. x \in Spots(more, <<>>) /\ y \in Spots(more, <<>>)
    <3>1. <<>> \in Seq(Input) /\ Len(more) + 1 = n + 1
      BY <1>1
    <3> HIDE DEF x, y
    <3>2. /\ x = <<n, i>> /\ x[1] = n /\ x[2] = i
          /\ y = <<n, j>> /\ y[1] = n /\ y[2] = j
      BY DEF x, y
    <3> QED BY <1>1, <1>4, <2>1, <2>4, <3>1, <3>2, SpotsAre
  <2>6. a \in Input /\ b \in Input
    BY <1>x
  <2>7. ~ InputOrder(b, a)
    BY <1>2, <1>5
  <2> HIDE DEF x, y, a, b
  <2>8. ASSUME a.source = b.source PROVE a.id < b.id
    <3>1. a.source \in S
      BY <2>2, <2>5 DEF From, more
    <3>2. PICK k \in Nat : Numbered(more, <<>>, a.source, k)
      BY <3>1 DEF more
    <3>3. /\ x \in Own(more, <<>>, a.source) /\ y \in Own(more, <<>>, a.source)
      BY <2>2, <2>5, <2>8 DEF Own
    <3> QED BY <2>2, <2>3, <3>2, <3>3 DEF Numbered
  <2>9. InputOrder(a, b)
    BY <2>6, <2>7, <2>8 DEF InputOrder, Input
  <2> QED BY <2>9 DEF a, b
<1>6. AllSorted(more)
  <2> SUFFICES ASSUME NEW t \in 1 .. n, NEW i \in DOMAIN more[t].inputs,
                      NEW j \in DOMAIN more[t].inputs, i < j
               PROVE  InputOrder(more[t].inputs[i], more[t].inputs[j])
    BY <1>1 DEF AllSorted
  <2>1. CASE t \in 1 .. Len(made)
    BY <1>1, <2>1 DEF AllSorted
  <2>2. CASE t = n
    <3>1. more[t].inputs = inorder
      BY <1>1, <2>2 DEF inorder
    <3> QED BY <3>1, <1>2, <1>5
  <2> QED BY <1>3, <2>1, <2>2
<1> QED BY <1>6 DEF more
-----------------------------------------------------------------------------
(* The sources that the host knows. *)
Givers == {HostOwner} \cup {player[r] : r \in Connections}

(* The host has accepted the first k inputs of r. *)
Counted(r) ==
  \E k \in Nat :
    /\ conn[r] # "absent" => Numbered(frames, inputs, player[r], k)
    /\ Pending(remote[r], up[r], conn[r], k)

(* The inputs in the frames and those that wait. *)
Carry == /\ From(frames, inputs, Givers)
         /\ AllSorted(frames)
         /\ Numbered(frames, inputs, HostOwner, submitted)

(* Every input accepted is counted once, for its session. *)
CInv == SInv /\ Carry /\ \A r \in Remote : Counted(r)

(* However many inputs are accepted, those on their way still follow. *)
Preserves(s, u, c, t, v, b) ==
  \A k \in Nat : Pending(s, u, c, k) => Pending(t, v, b, k)

(* At first there are no inputs. *)
LEMMA NothingCarried ==
  ASSUME NEW source
  PROVE  /\ Spots(<<>>, <<>>) = {} /\ Numbered(<<>>, <<>>, source, 0)
         /\ \A S : From(<<>>, <<>>, S)
         /\ AllSorted(<<>>)
<1>1. Spots(<<>>, <<>>) = {}
  <2>1. <<>> \in Seq(Frame) /\ <<>> \in Seq(Input) /\ Len(<<>>) = 0
    OBVIOUS
  <2>2. \A t \in 1 .. Len(<<>>) + 1 : Held(<<>>, <<>>, t) = <<>>
    BY <2>1 DEF Held
  <2>3. DOMAIN <<>> = {}
    OBVIOUS
  <2> QED BY <2>2, <2>3 DEF Spots
<1> QED BY <1>1 DEF Numbered, Own, From, AllSorted

(* Nothing is counted at first. *)
LEMMA InitCounted == Init => CInv
<1> SUFFICES ASSUME Init PROVE CInv
  OBVIOUS
<1>1. SInv
  BY InitLinked
<1>2. frames = <<>> /\ inputs = <<>> /\ submitted = 0
  BY DEF Init
<1>3. Carry
  BY <1>2, NothingCarried DEF Carry
<1>4. ASSUME NEW r \in Remote PROVE Counted(r)
  <2>1. conn[r] = "absent" /\ remote[r] = Joining /\ up[r] = <<>>
    BY DEF Init
  <2>2. Joining.state = "connecting" /\ Joining.next = 0
    BY DEF Joining
  <2>3. Continues(<<>>, 0)
    BY DEF Continues
  <2>4. Pending(Joining, <<>>, "absent", 0)
    BY <2>2, <2>3 DEF Pending, Playing
  <2>5. 0 \in Nat
    OBVIOUS
  <2> QED BY <2>1, <2>4, <2>5 DEF Counted
<1> QED BY <1>1, <1>3, <1>4 DEF CInv

(* One session, its connection and what passes between them change. *)
LEMMA OneCounts ==
  ASSUME CInv, SInv', UNCHANGED <<frames, inputs, submitted, player>>,
         NEW r \in Remote, NEW s, remote' = [remote EXCEPT ![r] = s],
         NEW u, up' = [up EXCEPT ![r] = u],
         NEW c, conn' = [conn EXCEPT ![r] = c],
         c = "absent" <=> conn[r] = "absent",
         Preserves(remote[r], up[r], conn[r], s, u, c)
  PROVE  CInv'
<1>1. /\ remote \in [Remote -> Session] /\ conn \in [Remote -> ConnState]
      /\ up \in [Remote -> Seq(UpMessage)]
  BY DEF CInv, SInv, Kept, PInv
<1>2. \A q \in Remote : (conn'[q] = "absent") <=> (conn[q] = "absent")
  BY <1>1
<1>3. Carry'
  <2>1. Connections' = Connections
    BY <1>2 DEF Connections
  <2>2. Givers' = Givers
    BY <2>1 DEF Givers
  <2> QED BY <2>2 DEF CInv, Carry
<1>4. ASSUME NEW q \in Remote PROVE Counted(q)'
  <2>1. PICK k \in Nat :
          /\ conn[q] # "absent" => Numbered(frames, inputs, player[q], k)
          /\ Pending(remote[q], up[q], conn[q], k)
    BY DEF CInv, Counted
  <2>2. Pending(remote'[q], up'[q], conn'[q], k)
    <3>1. CASE q = r
      <4>1. remote'[q] = s /\ up'[q] = u /\ conn'[q] = c
        BY <1>1, <3>1
      <4> QED BY <2>1, <3>1, <4>1 DEF Preserves
    <3>2. CASE q # r
      <4>1. remote'[q] = remote[q] /\ up'[q] = up[q] /\ conn'[q] = conn[q]
        BY <1>1, <3>2
      <4> QED BY <2>1, <4>1
    <3> QED BY <3>1, <3>2
  <2> QED BY <1>2, <2>1, <2>2 DEF Counted
<1> QED BY <1>3, <1>4 DEF CInv

(* A step that leaves one part alone changes it to what it is. *)
LEMMA ItselfCounts ==
  ASSUME CInv, NEW r \in Remote
  PROVE  /\ SInv /\ remote = [remote EXCEPT ![r] = remote[r]]
         /\ up = [up EXCEPT ![r] = up[r]]
         /\ conn = [conn EXCEPT ![r] = conn[r]]
BY Itself DEF CInv

(* HostSession::close. *)
LEMMA ShutCounts ==
  ASSUME CInv, SInv', UNCHANGED <<frames, inputs, submitted, remote>>,
         NEW r \in Remote, Shut(r), conn[r] # "absent"
  PROVE  CInv'
<1>1. /\ conn' = [conn EXCEPT ![r] = "disconnected"]
      /\ up' = [up EXCEPT ![r] = <<>>] /\ UNCHANGED player
      /\ remote' = [remote EXCEPT ![r] = remote[r]]
  BY ItselfCounts DEF Shut
<1>2. Preserves(remote[r], up[r], conn[r], remote[r], <<>>, "disconnected")
  BY DEF Preserves, Pending
<1> QED BY <1>1, <1>2, OneCounts

(* HostSession::update opens a connection: nothing is of this source yet.  *)
LEMMA OpenCounts ==
  ASSUME CInv, SInv', NEW r \in Remote, Open(r)
  PROVE  CInv'
<1>1. /\ conn[r] = "absent" /\ conn' = [conn EXCEPT ![r] = "connecting"]
      /\ player' = [player EXCEPT ![r] = Newcomer]
      /\ UNCHANGED <<frames, inputs, submitted, remote, up>>
  BY DEF Open, hostVars
<1>2. /\ conn \in [Remote -> ConnState] /\ player \in [Remote -> Nat]
      /\ PlayersBelow
  BY DEF CInv, SInv, PInv
<1>3. /\ conn'[r] = "connecting" /\ player'[r] = Newcomer
      /\ \A q \in Remote \ {r} : conn'[q] = conn[q] /\ player'[q] = player[q]
  BY <1>1, <1>2
<1>4. Givers \subseteq Givers' /\ HostOwner = 1
  BY <1>1, <1>3 DEF Givers, Connections, HostOwner, ID
<1>5. Newcomer \notin Givers
  <2>1. Newcomer = Cardinality(Connections) + 2
        /\ Cardinality(Connections) \in Nat
    BY Finite DEF Newcomer, ID
  <2>2. \A q \in Connections : player[q] # Newcomer
    BY <1>2, <2>1 DEF PlayersBelow
  <2>3. Newcomer # HostOwner
    BY <2>1, <1>4
  <2> QED BY <2>2, <2>3 DEF Givers
<1>6. Carry'
  BY <1>1, <1>4 DEF CInv, Carry, From
<1>7. Numbered(frames, inputs, Newcomer, 0)
  <2>1. Own(frames, inputs, Newcomer) = {}
    BY <1>5 DEF Own, CInv, Carry, From
  <2> QED BY <2>1 DEF Numbered
<1>8. ASSUME NEW q \in Remote PROVE Counted(q)'
  <2>1. PICK k \in Nat :
          /\ conn[q] # "absent" => Numbered(frames, inputs, player[q], k)
          /\ Pending(remote[q], up[q], conn[q], k)
    BY DEF CInv, Counted
  <2>2. CASE q = r
    <3>1. k = 0 /\ Pending(remote[q], up[q], "connecting", k)
      BY <1>1, <2>1, <2>2 DEF Pending
    <3>2. Numbered(frames, inputs, player'[q], k)
      BY <1>3, <1>7, <2>2, <3>1
    <3>3. Pending(remote[q], up[q], conn'[q], k)
      BY <1>3, <2>2, <3>1
    <3> QED BY <1>1, <3>2, <3>3 DEF Counted
  <2>3. CASE q # r
    BY <1>1, <1>3, <2>1, <2>3 DEF Counted
  <2> QED BY <2>2, <2>3
<1> QED BY <1>6, <1>8 DEF CInv

(* HostSession::receive: a join. *)
LEMMA ReceiveJoinCounts ==
  ASSUME CInv, SInv', NEW r \in Remote, ReceiveJoin(r)
  PROVE  CInv'
<1>1. /\ SInv /\ up[r] # <<>> /\ Head(up[r]).type = "join"
      /\ conn[r] \in ConnState \ {"absent", "disconnected"}
      /\ UNCHANGED <<frames, inputs, submitted, remote>>
  BY Known DEF CInv, ReceiveJoin, Arrives, hostVars
<1>2. /\ up[r][1].type = "join" /\ up[r] \in Seq(UpMessage)
      /\ UpFits(conn[r], up[r])
  BY <1>1, Known, Consumed DEF Link
<1>3. CASE Close(r)
  BY <1>1, <1>3, ShutCounts DEF Close
<1>4. ASSUME NEW c, c # "absent", Consume(r),
             conn' = [conn EXCEPT ![r] = c], UNCHANGED player,
             remote[r].state = "disconnected" \/ ~ Playing(remote[r])
      PROVE  CInv'
  <2>1. /\ up' = [up EXCEPT ![r] = Tail(up[r])]
        /\ remote' = [remote EXCEPT ![r] = remote[r]]
    BY <1>1, <1>4, ItselfCounts DEF Consume
  <2>2. Preserves(remote[r], up[r], conn[r], remote[r], Tail(up[r]), c)
    BY <1>1, <1>2, <1>4, PendingJoin DEF Preserves
  <2> QED BY <1>1, <1>4, <2>1, <2>2, OneCounts
<1>5. CASE conn[r] # "connecting" /\ Consume(r) /\ UNCHANGED connVars
  <2>1. remote[r].state = "disconnected"
    BY <1>1, <1>2, <1>5, Known, LinkIgnored
  <2>2. conn' = [conn EXCEPT ![r] = conn[r]] /\ UNCHANGED player
    BY <1>5, ItselfCounts DEF connVars
  <2> QED BY <1>1, <1>4, <1>5, <2>1, <2>2
<1>6. CASE /\ conn[r] = "connecting" /\ Consume(r) /\ UNCHANGED player
           /\ conn' = [conn EXCEPT ![r] = "logging_in"]
  <2>1. remote[r].state = "disconnected" \/ ~ Playing(remote[r])
    BY <1>1, <1>6, Known DEF Link, Follows, Where, Playing
  <2> QED BY <1>4, <1>6, <2>1
<1> QED BY <1>3, <1>5, <1>6 DEF ReceiveJoin

(* HostSession::receive: the snapshot is loaded. *)
LEMMA ReceiveLoadedCounts ==
  ASSUME CInv, SInv', NEW r \in Remote, ReceiveLoaded(r)
  PROVE  CInv'
<1>1. /\ SInv /\ up[r] # <<>> /\ Head(up[r]).type = "loaded"
      /\ Arrives(r, "loaded")
      /\ UNCHANGED <<frames, inputs, submitted, remote>>
  BY DEF CInv, ReceiveLoaded, Arrives, hostVars
<1>2. /\ conn[r] = "downloading_snapshot" /\ Consume(r)
      /\ conn' = [conn EXCEPT ![r] = "joined"] /\ UNCHANGED player
  BY <1>1, LoadedInPlace DEF ReceiveLoaded
<1>3. /\ up[r][1].type = "loaded" /\ up[r] \in Seq(UpMessage)
      /\ remote[r] \in Session /\ UpFits(conn[r], up[r])
  BY <1>1, <1>2, Known, Consumed DEF Link
<1>4. UpFits("joined", Tail(up[r]))
  BY <1>1, <1>2, <1>3, UpRest
<1>5. Preserves(remote[r], up[r], conn[r], remote[r], Tail(up[r]), "joined")
  BY <1>1, <1>2, <1>3, <1>4, PendingLoaded DEF Preserves
<1>6. /\ up' = [up EXCEPT ![r] = Tail(up[r])]
      /\ remote' = [remote EXCEPT ![r] = remote[r]]
  BY <1>1, <1>2, ItselfCounts DEF Consume
<1> QED BY <1>1, <1>2, <1>5, <1>6, OneCounts

(* A step of the host alone, or of the host and what it tells a session.   *)
LEMMA MovesOnCounts ==
  ASSUME CInv, SInv', NEW r \in Remote,
         RequestSnapshot(r) \/ AcceptLogin(r) \/ SendSnapshot(r)
  PROVE  CInv'
<1>1. PICK c \in {"preparing_snapshot", "accepting", "downloading_snapshot"} :
        /\ conn' = [conn EXCEPT ![r] = c]
        /\ conn[r] \notin {"absent", "disconnected"}
        /\ UNCHANGED <<frames, inputs, submitted, player, remote, up>>
  BY DEF RequestSnapshot, AcceptLogin, SendSnapshot, hostVars
<1>2. Preserves(remote[r], up[r], conn[r], remote[r], up[r], c)
  BY <1>1 DEF Preserves, Pending
<1>3. /\ up' = [up EXCEPT ![r] = up[r]]
      /\ remote' = [remote EXCEPT ![r] = remote[r]]
  BY <1>1, ItselfCounts
<1> QED BY <1>1, <1>2, <1>3, OneCounts

(* HostSession::close, for whatever reason. *)
LEMMA ClosedCounts ==
  ASSUME CInv, SInv', NEW r \in Remote,
         ReceiveDisconnect(r) \/ HostTimeout(r) \/ DisconnectPeer(r)
  PROVE  CInv'
<1>1. /\ Shut(r) /\ UNCHANGED <<frames, inputs, submitted, remote>>
      /\ conn[r] # "absent"
  BY DEF ReceiveDisconnect, HostTimeout, DisconnectPeer, Close, hostVars,
         Arrives, TimedStates
<1> QED BY <1>1, ShutCounts

(* An input more that waits, the next one of its source. *)
LEMMA OneMoreCarried ==
  ASSUME CInv, NEW e \in Input, e.source \in Givers
  PROVE  From(frames, Append(inputs, e), Givers)
<1>1. frames \in Seq(Frame) /\ inputs \in Seq(Input)
  BY DEF CInv, SInv, Kept, Made
<1> QED BY <1>1, FromMore DEF CInv, Carry

(* HostSession::receive: an input, accepted or refused. *)
LEMMA ReceiveInputCounts ==
  ASSUME CInv, SInv', NEW r \in Remote, ReceiveInput(r)
  PROVE  CInv'
<1> DEFINE e == [source |-> player[r], id |-> Head(up[r]).id]
<1>1. /\ SInv /\ up[r] # <<>> /\ Head(up[r]).type = "input"
      /\ Arrives(r, "input") /\ conn[r] = "joined"
      /\ Head(up[r]).id \in Nat \ {Null}
      /\ UNCHANGED <<frames, submitted, remote>>
  BY InputInPlace DEF CInv, ReceiveInput, Arrives
<1>2. CASE Close(r) /\ UNCHANGED inputs
  BY <1>1, <1>2, ShutCounts DEF Close
<1>3. CASE /\ Consume(r) /\ inputs' = Append(inputs, e) /\ UNCHANGED connVars
  <2>1. /\ up[r][1].type = "input" /\ Head(up[r]) = up[r][1]
        /\ up[r] \in Seq(UpMessage) /\ remote[r] \in Session
        /\ UpFits("joined", up[r]) /\ player[r] \in Nat
        /\ Where("joined", remote[r], down[r], 0, frames)
             \/ remote[r].state = "disconnected"
    BY <1>1, Known, Consumed DEF Link, Follows
  <2>2. /\ UpFits("joined", Tail(up[r]))
        /\ remote[r].state = "disconnected" \/ Playing(remote[r])
    BY <1>1, <2>1, UpRest DEF Where, Playing
  <2>3. /\ up \in [Remote -> Seq(UpMessage)] /\ PlayersDistinct
        /\ frames \in Seq(Frame) /\ inputs \in Seq(Input)
    BY <1>1 DEF SInv, Kept, PInv, Made
  <2>4. e \in Input /\ e.source = player[r] /\ e.id = up[r][1].id
    BY <1>1, <2>1 DEF Input
  <2>5. r \in Connections
    BY <1>1 DEF Connections
  <2> HIDE DEF e
  <2>6. UNCHANGED <<conn, player, breached>> /\ Givers' = Givers
    BY <1>3 DEF connVars, Givers, Connections
  <2>7. Carry'
    <3>1. From(frames, inputs', Givers)
      BY <1>3, <2>4, <2>5, OneMoreCarried DEF Givers
    <3>2. Numbered(frames, inputs', HostOwner, submitted)
      <4>1. submitted \in Nat /\ e.source # HostOwner
        BY <1>1, <2>3, <2>4, <2>5 DEF SInv, Kept, PlayersDistinct
      <4>2. Numbered(frames, inputs, HostOwner, submitted)
        BY DEF CInv, Carry
      <4> QED BY <1>3, <2>3, <2>4, <4>1, <4>2, NumberedMore
    <3> QED BY <1>1, <2>6, <3>1, <3>2 DEF CInv, Carry
  <2>8. ASSUME NEW q \in Remote PROVE Counted(q)'
    <3>1. PICK k \in Nat :
            /\ conn[q] # "absent" => Numbered(frames, inputs, player[q], k)
            /\ Pending(remote[q], up[q], conn[q], k)
      BY DEF CInv, Counted
    <3>2. CASE q = r
      <4>1. Numbered(frames, inputs, player[r], k)
        BY <1>1, <3>1, <3>2
      <4>2. Pending(remote[r], up[r], "joined", k)
        BY <1>1, <3>1, <3>2
      <4>3. /\ up[r][1].id = k + 1
            /\ Pending(remote[r], Tail(up[r]), "joined", k + 1)
        BY <1>1, <2>1, <2>2, <4>2, PendingInput
      <4>4. Numbered(frames, inputs', player[r], k + 1)
        BY <1>3, <2>3, <2>4, <4>1, <4>3, NumberedMore
      <4>5. up'[r] = Tail(up[r])
        BY <1>3, <2>3 DEF Consume
      <4>6. k + 1 \in Nat
        OBVIOUS
      <4>7. \E h \in Nat :
              /\ conn'[r] # "absent" =>
                   Numbered(frames', inputs', player'[r], h)
              /\ Pending(remote'[r], up'[r], conn'[r], h)
        BY <1>1, <2>6, <4>3, <4>4, <4>5, <4>6
      <4> QED BY <3>2, <4>7 DEF Counted
    <3>3. CASE q # r
      <4>1. up'[q] = up[q]
        BY <1>3, <2>3, <3>3 DEF Consume
      <4>2. conn[q] # "absent" => Numbered(frames, inputs', player[q], k)
        <5>1. conn[q] # "absent" => e.source # player[q]
          BY <2>3, <2>4, <2>5, <3>3 DEF PlayersDistinct, Connections
        <5> QED BY <1>3, <2>3, <2>4, <3>1, <5>1, NumberedMore
      <4> QED BY <1>1, <2>6, <3>1, <4>1, <4>2 DEF Counted
    <3> QED BY <3>2, <3>3
  <2> QED BY <2>7, <2>8 DEF CInv
<1> QED BY <1>1, <1>2, <1>3 DEF ReceiveInput

(* RemoteSession::set_login_payload. *)
LEMMA LoginCounts ==
  ASSUME CInv, SInv', NEW r \in Remote, Login(r)
  PROVE  CInv'
<1> DEFINE s == [remote[r] EXCEPT !.state = "logging_in"]
           u == Append(up[r], [type |-> "join"])
<1>1. /\ SInv /\ remote[r].state = "connecting"
      /\ remote' = [remote EXCEPT ![r] = s] /\ up' = [up EXCEPT ![r] = u]
      /\ UNCHANGED <<frames, inputs, submitted, conn, player>>
  BY DEF CInv, Login, hostVars, connVars
<1>2. remote[r] \in Session /\ up[r] \in Seq(UpMessage)
  BY <1>1, Known
<1>3. s.state = "logging_in" /\ s.next = remote[r].next
  BY <1>2 DEF Session
<1> HIDE DEF s
<1>4. Preserves(remote[r], up[r], conn[r], s, u, conn[r])
  BY <1>1, <1>2, <1>3, PendingLogin DEF Preserves
<1>5. conn' = [conn EXCEPT ![r] = conn[r]]
  BY <1>1, ItselfCounts
<1> HIDE DEF u
<1> QED BY <1>1, <1>4, <1>5, OneCounts

(* RemoteSession::update. *)
LEMMA RemoteUpdateCounts ==
  ASSUME CInv, SInv', NEW r \in Remote, NEW n \in 0 .. Len(down[r]),
         RemoteUpdate(r, n)
  PROVE  CInv'
<1> DEFINE s == Read(remote[r], down[r], n)
<1>1. /\ SInv /\ remote' = [remote EXCEPT ![r] = s]
      /\ UNCHANGED <<frames, inputs, submitted, conn, player, up>>
  BY DEF CInv, RemoteUpdate, Read, hostVars, connVars
<1>2. Reads(remote[r], s)
  <2>1. n \in Nat /\ n <= Len(down[r])
    BY <1>1, Known
  <2> QED BY <1>1, <2>1, Known, LinkRead
<1> HIDE DEF s
<1>3. Preserves(remote[r], up[r], conn[r], s, up[r], conn[r])
  BY <1>2, PendingRead DEF Preserves
<1>4. conn' = [conn EXCEPT ![r] = conn[r]] /\ up' = [up EXCEPT ![r] = up[r]]
  BY <1>1, ItselfCounts
<1> QED BY <1>1, <1>3, <1>4, OneCounts

(* RemoteSession::finish_snapshot_load. *)
LEMMA FinishLoadCounts ==
  ASSUME CInv, SInv', NEW r \in Remote, FinishLoad(r)
  PROVE  CInv'
<1> DEFINE s == Loaded(remote[r])
           u == Sent(conn[r], up[r], [type |-> "loaded"])
<1>1. /\ SInv
      /\ remote[r].state = "downloading_snapshot" /\ remote[r].delivered
      /\ remote' = [remote EXCEPT ![r] = s]
      /\ SendUp(r, [type |-> "loaded"])
      /\ UNCHANGED <<frames, inputs, submitted, conn, player>>
  BY DEF CInv, FinishLoad, Become, Loaded, hostVars, connVars
<1>2. conn[r] # "absent"
  BY <1>1, Known DEF Link, Follows, Where
<1>3. up' = [up EXCEPT ![r] = u]
  BY <1>1, <1>2, SentUp DEF Sent
<1>4. /\ s.next = remote[r].next
      /\ s.state # "disconnected" => Playing(s)
      /\ conn[r] # "disconnected" =>
           conn[r] = "downloading_snapshot" /\ up[r] = <<>>
  BY <1>1, Known, LinkLoad
<1> HIDE DEF s
<1>5. Preserves(remote[r], up[r], conn[r], s, u, conn[r])
  BY <1>1, <1>4, PendingLoad DEF Preserves
<1> HIDE DEF u
<1>6. conn' = [conn EXCEPT ![r] = conn[r]]
  BY <1>1, ItselfCounts
<1> QED BY <1>1, <1>3, <1>5, <1>6, OneCounts

(* RemoteSession::submit. *)
LEMMA RemoteSubmitCounts ==
  ASSUME CInv, SInv', NEW r \in Remote, RemoteSubmit(r)
  PROVE  CInv'
<1> DEFINE s == Submitted(remote[r])
           u == Sent(conn[r], up[r], [type |-> "input",
                                      id |-> ID(remote[r].next)])
<1>1. /\ SInv /\ remote[r].state = "joined"
      /\ remote' = [remote EXCEPT ![r] = s]
      /\ SendUp(r, [type |-> "input", id |-> ID(remote[r].next)])
      /\ UNCHANGED <<frames, inputs, submitted, conn, player>>
  BY Known DEF CInv, RemoteSubmit, Submitted, hostVars, connVars, SInv, Kept
<1>2. conn[r] # "absent"
  BY <1>1, Known DEF Link, Follows, Where
<1>3. up' = [up EXCEPT ![r] = u]
  BY <1>1, <1>2, SentUp DEF Sent
<1>4. /\ s.next = remote[r].next + 1 /\ s.state = remote[r].state
      /\ remote[r] \in Session /\ up[r] \in Seq(UpMessage)
  BY <1>1, Known, LinkSubmit
<1> HIDE DEF s
<1>5. Preserves(remote[r], up[r], conn[r], s, u, conn[r])
  BY <1>1, <1>4, PendingSubmit DEF Preserves
<1> HIDE DEF u
<1>6. conn' = [conn EXCEPT ![r] = conn[r]]
  BY <1>1, ItselfCounts
<1> QED BY <1>1, <1>3, <1>5, <1>6, OneCounts

(* RemoteSession::disconnect, or its time limit. *)
LEMMA RemoteGoneCounts ==
  ASSUME CInv, SInv', NEW r \in Remote, RemoteTimeout(r) \/ RemoteDisconnect(r)
  PROVE  CInv'
<1>1. PICK why \in {"timeout", "left"} :
        /\ remote' = [remote EXCEPT ![r] = Stop(remote[r], why)]
        /\ remote[r].state # "disconnected"
        /\ UNCHANGED <<frames, inputs, submitted, conn, player>>
        /\ UNCHANGED up \/ SendUp(r, [type |-> "disconnect"])
  BY DEF RemoteTimeout, RemoteDisconnect, ExpectsHost, Gone, Become, hostVars,
         connVars
<1> DEFINE s == Stop(remote[r], why)
           u == IF \/ UNCHANGED up \/ conn[r] = "disconnected"
                   \/ status # "joined"
                THEN up[r] ELSE Append(up[r], [type |-> "disconnect"])
<1>2. up' = [up EXCEPT ![r] = u]
  <2>1. CASE UNCHANGED up
    BY <2>1, ItselfCounts
  <2>2. CASE ~ UNCHANGED up
    BY <1>1, <2>2 DEF SendUp
  <2> QED BY <2>1, <2>2
<1>3. u = up[r] \/ u = Append(up[r], [type |-> "disconnect"])
  OBVIOUS
<1> HIDE DEF u
<1>4. s.state = "disconnected" /\ up[r] \in Seq(UpMessage)
  <2>1. SInv /\ remote[r] \in Session /\ up[r] \in Seq(UpMessage)
    BY Known DEF CInv
  <2> QED BY <1>1, <2>1 DEF Stop, Session
<1> HIDE DEF s
<1>5. Preserves(remote[r], up[r], conn[r], s, u, conn[r])
  <2>1. /\ Preserves(remote[r], up[r], conn[r], s, up[r], conn[r])
        /\ Preserves(remote[r], up[r], conn[r], s,
                     Append(up[r], [type |-> "disconnect"]), conn[r])
    BY <1>4, PendingGone DEF Preserves
  <2> QED BY <1>3, <2>1
<1>6. conn' = [conn EXCEPT ![r] = conn[r]]
      /\ remote' = [remote EXCEPT ![r] = s]
  BY <1>1, ItselfCounts DEF s
<1> QED BY <1>1, <1>2, <1>5, <1>6, OneCounts

(* The last message of a side that has stopped is lost. *)
LEMMA LoseTailCounts ==
  ASSUME CInv, SInv', NEW r \in Remote, LoseTail(r)
  PROVE  CInv'
<1>1. /\ SInv /\ remote' = [remote EXCEPT ![r] = remote[r]]
      /\ conn' = [conn EXCEPT ![r] = conn[r]]
      /\ UNCHANGED <<frames, inputs, submitted, player>>
  BY ItselfCounts DEF LoseTail, hostVars, connVars
<1>2. CASE /\ Gone(r) /\ up[r] # <<>>
           /\ up' = [up EXCEPT ![r] = Front(@)]
  <2>1. remote[r].state = "disconnected" /\ up[r] \in Seq(UpMessage)
    BY <1>1, <1>2, Known DEF Gone
  <2>2. Preserves(remote[r], up[r], conn[r], remote[r], Front(up[r]), conn[r])
    BY <1>2, <2>1, PendingLoseUp DEF Preserves
  <2>3. up' = [up EXCEPT ![r] = Front(up[r])]
    BY <1>2
  <2> QED BY <1>1, <2>2, <2>3, OneCounts
<1>3. CASE UNCHANGED up
  <2>1. up' = [up EXCEPT ![r] = up[r]]
    BY <1>3, ItselfCounts
  <2>2. Preserves(remote[r], up[r], conn[r], remote[r], up[r], conn[r])
    BY DEF Preserves
  <2> QED BY <1>1, <2>1, <2>2, OneCounts
<1> QED BY <1>2, <1>3 DEF LoseTail

(* HostSession::disconnect. *)
LEMMA HostDisconnectCounts ==
  ASSUME CInv, SInv', HostDisconnect
  PROVE  CInv'
<1>1. /\ UNCHANGED <<frames, inputs, submitted, player, remote>>
      /\ \A q \in Remote :
           conn'[q] = IF conn[q] = "absent" THEN "absent" ELSE "disconnected"
      /\ \A q \in Remote : up'[q] = <<>>
  BY DEF HostDisconnect
<1>2. Connections' = Connections /\ Givers' = Givers
  BY <1>1 DEF Connections, Givers
<1>3. Carry'
  BY <1>1, <1>2 DEF CInv, Carry
<1>4. ASSUME NEW q \in Remote PROVE Counted(q)'
  <2>1. PICK k \in Nat :
          /\ conn[q] # "absent" => Numbered(frames, inputs, player[q], k)
          /\ Pending(remote[q], up[q], conn[q], k)
    BY DEF CInv, Counted
  <2>2. Pending(remote[q], <<>>, conn'[q], k)
    <3>1. CASE conn[q] = "absent"
      <4>1. Continues(<<>>, k)
        BY DEF Continues
      <4>2. ~ Playing(remote[q]) \/ remote[q].state = "disconnected"
        BY <3>1, Known DEF CInv, Link, Follows, Where, Playing
      <4> QED BY <1>1, <2>1, <3>1, <4>1, <4>2 DEF Pending
    <3>2. CASE conn[q] # "absent"
      BY <1>1, <3>2 DEF Pending
    <3> QED BY <3>1, <3>2
  <2> QED BY <1>1, <2>1, <2>2 DEF Counted
<1> QED BY <1>3, <1>4 DEF CInv

(* HostSession::submit. *)
LEMMA HostSubmitCounts ==
  ASSUME CInv, SInv', HostSubmit
  PROVE  CInv'
<1> DEFINE e == [source |-> HostOwner, id |-> ID(submitted)]
<1>1. /\ inputs' = Append(inputs, e) /\ submitted' = submitted + 1
      /\ UNCHANGED <<frames, conn, player, remote, up>>
  BY DEF HostSubmit, connVars
<1>2. /\ frames \in Seq(Frame) /\ inputs \in Seq(Input) /\ submitted \in Nat
      /\ PlayersDistinct
  BY DEF CInv, SInv, Kept, PInv, Made
<1>3. e \in Input /\ e.source = HostOwner /\ e.id = submitted + 1
  BY <1>2 DEF Input, ID, HostOwner
<1> HIDE DEF e
<1>4. Givers' = Givers /\ HostOwner \in Givers
  BY <1>1 DEF Givers, Connections
<1>5. Carry'
  <2>1. From(frames, inputs', Givers)
    BY <1>1, <1>3, <1>4, OneMoreCarried
  <2>2. Numbered(frames, inputs', HostOwner, submitted')
    <3>1. Numbered(frames, inputs, HostOwner, submitted)
      BY DEF CInv, Carry
    <3> QED BY <1>1, <1>2, <1>3, <3>1, NumberedMore
  <2> QED BY <1>1, <1>4, <2>1, <2>2 DEF CInv, Carry
<1>6. ASSUME NEW q \in Remote PROVE Counted(q)'
  <2>1. PICK k \in Nat :
          /\ conn[q] # "absent" => Numbered(frames, inputs, player[q], k)
          /\ Pending(remote[q], up[q], conn[q], k)
    BY DEF CInv, Counted
  <2>2. conn[q] # "absent" => Numbered(frames, inputs', player[q], k)
    <3>1. conn[q] # "absent" => e.source # player[q]
      BY <1>2, <1>3 DEF PlayersDistinct, Connections
    <3> QED BY <1>1, <1>2, <1>3, <2>1, <3>1, NumberedMore
  <2> QED BY <1>1, <2>1, <2>2 DEF Counted
<1> QED BY <1>5, <1>6 DEF CInv

(* HostSession::advance. *)
LEMMA AdvanceCounts ==
  ASSUME CInv, SInv', Advance
  PROVE  CInv'
<1> DEFINE f == [tick |-> tick + 1, inputs |-> Sorted(inputs)]
<1>1. /\ frames' = Append(frames, f) /\ inputs' = <<>>
      /\ UNCHANGED <<submitted, conn, player, remote, up>>
  BY DEF Advance, connVars
<1>2. /\ frames \in Seq(Frame) /\ inputs \in Seq(Input) /\ submitted \in Nat
      /\ tick \in Nat
  BY DEF CInv, SInv, Kept, Made
<1>3. f \in Frame /\ f.inputs = Sorted(inputs)
  <2>1. Sorted(inputs) \in Seq(Input) /\ tick + 1 \in Nat
    BY <1>2, SortedType
  <2> QED BY <2>1 DEF Frame
<1> HIDE DEF f
<1>4. PICK back : Moved(frames, inputs, Append(frames, f), back)
  BY <1>2, <1>3, FrameMoves
<1>5. Givers' = Givers
  BY <1>1 DEF Givers, Connections
<1>6. ASSUME NEW source, NEW k \in Nat, Numbered(frames, inputs, source, k)
      PROVE  Numbered(Append(frames, f), <<>>, source, k)
  BY <1>2, <1>4, <1>6, NumberedMoved
<1>7. ASSUME NEW source \in Givers
      PROVE  \E k \in Nat : Numbered(Append(frames, f), <<>>, source, k)
  <2>1. CASE source = HostOwner
    BY <1>2, <1>6, <2>1 DEF CInv, Carry
  <2>2. CASE source # HostOwner
    <3>1. PICK q \in Connections : source = player[q]
      BY <2>2 DEF Givers
    <3>2. q \in Remote /\ conn[q] # "absent" /\ Counted(q)
      BY DEF Connections, CInv
    <3>3. PICK k \in Nat : Numbered(frames, inputs, source, k)
      BY <3>1, <3>2 DEF Counted
    <3> QED BY <1>6, <3>3
  <2> QED BY <2>1, <2>2
<1>8. Carry'
  <2>1. From(Append(frames, f), <<>>, Givers)
    BY <1>4, FromMoved DEF CInv, Carry
  <2>2. AllSorted(Append(frames, f))
    BY <1>2, <1>3, <1>7, <2>1, FrameSorted DEF CInv, Carry
  <2>3. Numbered(Append(frames, f), <<>>, HostOwner, submitted)
    BY <1>2, <1>6 DEF CInv, Carry
  <2> QED BY <1>1, <1>5, <2>1, <2>2, <2>3 DEF Carry
<1>9. \A q \in Remote : Counted(q)'
  BY <1>1, <1>6 DEF CInv, Counted
<1> QED BY <1>8, <1>9 DEF CInv

(* No step loses, doubles or reorders an input. *)
LEMMA NextCounts == CInv /\ [Next /\ UNCHANGED max_clients]_vars => CInv'
<1> SUFFICES ASSUME CInv, [Next /\ UNCHANGED max_clients]_vars PROVE CInv'
  OBVIOUS
<1>1. SInv'
  BY NextLinked DEF CInv
<1>2. CASE UNCHANGED vars
  <2>1. UNCHANGED <<frames, inputs, submitted, conn, player, remote, up>>
    BY <1>2 DEF vars, sessionVars, hostVars, connVars
  <2>2. Carry'
    BY <2>1 DEF CInv, Carry, Givers, Connections
  <2>3. \A r \in Remote : Counted(r)'
    BY <2>1 DEF CInv, Counted
  <2> QED BY <1>1, <2>2, <2>3 DEF CInv
<1>3. CASE Next
  <2>1. CASE HostDisconnect
    BY <1>1, <2>1, HostDisconnectCounts
  <2>2. CASE HostSubmit
    BY <1>1, <2>2, HostSubmitCounts
  <2>3. CASE Advance
    BY <1>1, <2>3, AdvanceCounts
  <2>4. ASSUME NEW r \in Remote,
               \/ Open(r) \/ ReceiveJoin(r) \/ ReceiveLoaded(r)
               \/ ReceiveInput(r) \/ ReceiveDisconnect(r) \/ HostTimeout(r)
               \/ RequestSnapshot(r) \/ AcceptLogin(r) \/ SendSnapshot(r)
               \/ DisconnectPeer(r)
        PROVE  CInv'
    BY <1>1, <2>4, OpenCounts, ReceiveJoinCounts, ReceiveLoadedCounts,
       ReceiveInputCounts, ClosedCounts, MovesOnCounts
  <2>5. ASSUME NEW r \in Remote,
               \/ Login(r) \/ RemoteTimeout(r) \/ FinishLoad(r)
               \/ RemoteSubmit(r) \/ RemoteDisconnect(r) \/ LoseTail(r)
        PROVE  CInv'
    BY <1>1, <2>5, LoginCounts, RemoteGoneCounts, FinishLoadCounts,
       RemoteSubmitCounts, LoseTailCounts
  <2>6. ASSUME NEW r \in Remote, NEW n \in 0 .. Len(down[r]),
               RemoteUpdate(r, n)
        PROVE  CInv'
    BY <1>1, <2>6, RemoteUpdateCounts
  <2> QED BY <1>3, <2>1, <2>2, <2>3, <2>4, <2>5, <2>6 DEF Next
<1> QED BY <1>2, <1>3

(* The counts, in every state. *)
LEMMA Counting == Spec => []CInv
BY InitCounted, NextCounts, PTL DEF Spec

(* No input is lost, doubled or overtaken by a later one of its session on *)
(* its way through up[r], HostSession::receive, the inputs that wait and   *)
(* the sort of HostSession::advance, and every frame has its inputs in     *)
(* the one order that every session can reproduce.                         *)
THEOREM InputsArriveOnceInOrder == Spec => []InputsOnceInOrder
<1>1. ASSUME CInv PROVE InputsOnceInOrder
  <2>1. /\ Places = Spots(frames, inputs)
        /\ \A x : InputAt(x) = At(frames, inputs, x)
    BY DEF Places, Spots, InputAt, At, Carried, Held
  <2>2. ASSUME NEW x \in Places
        PROVE  \E k \in Nat : Numbered(frames, inputs, InputAt(x).source, k)
    <3>1. InputAt(x).source \in Givers
      BY <1>1, <2>1 DEF CInv, Carry, From
    <3>2. CASE InputAt(x).source = HostOwner
      BY <1>1, <3>2 DEF CInv, Carry, SInv, Kept
    <3>3. CASE InputAt(x).source # HostOwner
      <4>1. PICK q \in Connections : InputAt(x).source = player[q]
        BY <3>1, <3>3 DEF Givers
      <4>2. q \in Remote /\ conn[q] # "absent" /\ Counted(q)
        BY <1>1 DEF Connections, CInv
      <4> QED BY <4>1, <4>2 DEF Counted
    <3> QED BY <3>2, <3>3
  <2>3. ASSUME NEW x \in Places, NEW y \in Places,
               InputAt(x).source = InputAt(y).source, Earlier(x, y)
        PROVE  InputAt(x).id < InputAt(y).id
    <3>1. PICK k \in Nat : Numbered(frames, inputs, InputAt(x).source, k)
      BY <2>2
    <3>2. /\ x \in Own(frames, inputs, InputAt(x).source)
          /\ y \in Own(frames, inputs, InputAt(x).source)
      BY <2>1, <2>3 DEF Own
    <3> QED BY <2>1, <2>3, <3>1, <3>2 DEF Numbered
  <2>4. ASSUME NEW x \in Places, InputAt(x).id # ID(0)
        PROVE  \E y \in Places : /\ InputAt(y).source = InputAt(x).source
                                 /\ ID(InputAt(y).id) = InputAt(x).id
    <3>1. PICK k \in Nat : Numbered(frames, inputs, InputAt(x).source, k)
      BY <2>2
    <3>2. x \in Own(frames, inputs, InputAt(x).source)
      BY <2>1 DEF Own
    <3> DEFINE i == InputAt(x).id
    <3>3. i \in 1 .. k /\ i # 1
      BY <2>1, <2>4, <3>1, <3>2 DEF Numbered, ID
    <3> HIDE DEF i
    <3>4. i - 1 \in 1 .. k /\ ID(i - 1) = i
      BY <3>3 DEF ID
    <3>5. PICK y \in Own(frames, inputs, InputAt(x).source) :
            At(frames, inputs, y).id = i - 1
      BY <3>1, <3>4 DEF Numbered
    <3>6. /\ y \in Places /\ InputAt(y).source = InputAt(x).source
          /\ InputAt(y).id = i - 1
      BY <2>1, <3>5 DEF Own
    <3> QED BY <3>4, <3>6 DEF i
  <2>5. \A t \in 1 .. Len(frames) : \A i, j \in DOMAIN frames[t].inputs :
          i < j => InputOrder(frames[t].inputs[i], frames[t].inputs[j])
    BY <1>1 DEF CInv, Carry, AllSorted
  <2> QED BY <2>3, <2>4, <2>5 DEF InputsOnceInOrder
<1> QED BY <1>1, Counting, PTL
=============================================================================
