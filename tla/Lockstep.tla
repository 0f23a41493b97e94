------------------------------ MODULE Lockstep ------------------------------
(***************************************************************************)
(* modules/lockstep: a host session and the remote sessions that log in,   *)
(* download a snapshot, catch up and then run in lockstep with it.         *)
(*                                                                         *)
(* Between the host and a remote runs an lf::net::Channel, here the two    *)
(* FIFO queues that module Channel is shown to implement (MessageStream):  *)
(* up towards the host, down towards the remote.  A session that has       *)
(* stopped never updates its channel again, so the tail of what it sent    *)
(* may be lost: also its last word, the disconnect message.  A process     *)
(* that dies is a session that disconnects and loses that message.         *)
(***************************************************************************)
EXTENDS Integers, Sequences, FiniteSets, SequencesExt

CONSTANTS Remote,      \* remote sessions, each with a channel id of its own
          Limits,      \* client limits a host may have, 0 for none
          MaxTick,     \* bound: frames the host advances
          MaxInput,    \* bound: inputs each remote session submits
          MaxHostInput \* bound: inputs the host submits

ASSUME LockstepAssumption ==
  /\ IsFiniteSet(Remote)
  /\ Limits \subseteq Nat
  /\ MaxTick \in Nat /\ MaxInput \in Nat /\ MaxHostInput \in Nat

(* Raw identifiers: 0 is null, ID{ i } is i + 1. *)
Null == 0
ID(i) == i + 1
HostOwner == ID(0)

VARIABLES
  max_clients, \* option of the host, set for good
  status,      \* state of the host session
  tick,        \* current_tick of the host
  inputs,      \* inputs the next frame of the host will carry
  submitted,   \* host's next_input, as the number of inputs it submitted
  frames,      \* history: every frame the host made ready
  conn,        \* conn[r]: state of the host's connection to r
  player,      \* player[r]: identifier the host gave r
  breached,    \* history: connections closed for a message out of place
  remote,      \* remote[r]: the remote session
  up, down     \* messages on their way to the host / to the remote

hostVars == <<status, tick, inputs, submitted, frames>>
connVars == <<conn, player, breached>>
sessionVars == <<hostVars, connVars, remote, up, down>>
vars == <<max_clients, sessionVars>>

(* owner and tick are fields of the Session; announced: snapshot_size is   *)
(* set; delivered: the snapshot_received event was raised; next: number of *)
(* inputs submitted.  applied, base and cause are history: the frames made *)
(* ready, the tick of the snapshot, and why the session ended.             *)
Joining == [state |-> "connecting", owner |-> Null, tick |-> 0,
            announced |-> FALSE, delivered |-> FALSE, buffered |-> <<>>,
            next |-> 0, applied |-> <<>>, base |-> 0, cause |-> "none"]

Gone(r) == remote[r].state = "disconnected"
-----------------------------------------------------------------------------
(* The host's side. *)

Connections == {r \in Remote : conn[r] # "absent"}

(* What counts against max_clients. *)
ActiveStates ==
  {"logging_in", "accepting", "preparing_snapshot", "downloading_snapshot",
   "joined"}
Active == {r \in Remote : conn[r] \in ActiveStates}

(* Nothing reads what is sent to a session that has stopped. *)
Queue(r, q, m) == IF Gone(r) THEN q ELSE Append(q, m)

SendDown(r, m) == down' = [down EXCEPT ![r] = Queue(r, @, m)]

(* HostSession::close.  The datagrams of a disconnected connection are     *)
(* read and dropped: what is in up[r] no longer matters.                   *)
Shut(r) ==
  /\ conn' = [conn EXCEPT ![r] = "disconnected"]
  /\ SendDown(r, [type |-> "disconnect"])
  /\ up' = [up EXCEPT ![r] = <<>>]
  /\ UNCHANGED player

Close(r) == Shut(r) /\ UNCHANGED breached
Breach(r) == Shut(r) /\ breached' = breached \cup {r}

(* Faulty variant: the identifier of a session that left is given again. *)
NewcomerAmongActive == ID(Cardinality(Active) + 1)

Newcomer == ID(Cardinality(Connections) + 1)

(* HostSession::update: a datagram at offset 0 opens the connection. *)
Open(r) ==
  /\ status = "joined"
  /\ conn[r] = "absent" /\ up[r] # <<>>
  /\ conn' = [conn EXCEPT ![r] = "connecting"]
  /\ player' = [player EXCEPT ![r] = Newcomer]
  /\ UNCHANGED <<hostVars, breached, remote, up, down>>

(* A message that the channel has handed over to a live connection. *)
Arrives(r, type) ==
  /\ status = "joined"
  /\ conn[r] \notin {"absent", "disconnected"}
  /\ up[r] # <<>> /\ Head(up[r]).type = type

Consume(r) == up' = [up EXCEPT ![r] = Tail(@)]

(* Faulty variant: off by one. *)
HasRoomForOneMore == max_clients = 0 \/ Cardinality(Active) <= max_clients

HasRoom == max_clients = 0 \/ Cardinality(Active) < max_clients

ReceiveJoin(r) ==
  /\ Arrives(r, "join")
  /\ UNCHANGED <<hostVars, remote>>
  /\ \/ /\ conn[r] # "connecting"
        /\ Consume(r)
        /\ UNCHANGED <<connVars, down>>
     \/ /\ conn[r] = "connecting" /\ ~ HasRoom
        /\ Close(r)
     \/ /\ conn[r] = "connecting" /\ HasRoom
        /\ Consume(r)
        /\ conn' = [conn EXCEPT ![r] = "logging_in"]
        /\ UNCHANGED <<player, breached, down>>

ReceiveLoaded(r) ==
  /\ Arrives(r, "loaded")
  /\ UNCHANGED <<hostVars, remote>>
  /\ \/ /\ conn[r] # "downloading_snapshot"
        /\ Breach(r)
     \/ /\ conn[r] = "downloading_snapshot"
        /\ Consume(r)
        /\ conn' = [conn EXCEPT ![r] = "joined"]
        /\ UNCHANGED <<player, breached, down>>

(* input_handler may refuse the input, which closes the connection. *)
ReceiveInput(r) ==
  /\ Arrives(r, "input")
  /\ UNCHANGED <<status, tick, submitted, frames, remote>>
  /\ \/ /\ conn[r] # "joined" \/ Head(up[r]).id = Null
        /\ Breach(r)
        /\ UNCHANGED inputs
     \/ /\ conn[r] = "joined" /\ Head(up[r]).id # Null
        /\ Close(r)
        /\ UNCHANGED inputs
     \/ /\ conn[r] = "joined" /\ Head(up[r]).id # Null
        /\ Consume(r)
        /\ inputs' = Append(inputs, [source |-> player[r],
                                     id |-> Head(up[r]).id])
        /\ UNCHANGED <<connVars, down>>

ReceiveDisconnect(r) ==
  /\ Arrives(r, "disconnect")
  /\ Close(r)
  /\ UNCHANGED <<hostVars, remote>>

(* Faulty variant: a session that plays is not expected to be heard of. *)
TimedStatesWithoutJoined == {"connecting", "logging_in", "accepting"}

TimedStates == {"connecting", "logging_in", "accepting", "joined"}

(* The second loop of HostSession::update. *)
HostTimeout(r) ==
  /\ status = "joined"
  /\ conn[r] \in TimedStates
  /\ Close(r)
  /\ UNCHANGED <<hostVars, remote>>

(* Faulty variants: the snapshot is asked for at once, or only when the    *)
(* session, which waits for it, has begun to download it.                  *)
WelcomeSent(r) == TRUE
DownloadBegun(r) == remote[r].state = "downloading_snapshot"

(* acknowledged_bytes() >= acceptance.  The remote's channel acknowledges  *)
(* bytes in an update() that has already handled the messages they carry,  *)
(* and the welcome is what sets owner.                                     *)
WelcomeAcknowledged(r) == remote[r].owner # Null

RequestSnapshot(r) ==
  /\ status = "joined"
  /\ conn[r] = "accepting" /\ WelcomeAcknowledged(r)
  /\ conn' = [conn EXCEPT ![r] = "preparing_snapshot"]
  /\ UNCHANGED <<hostVars, player, breached, remote, up, down>>

AcceptLogin(r) ==
  /\ conn[r] = "logging_in"
  /\ SendDown(r, [type |-> "welcome", player |-> player[r]])
  /\ conn' = [conn EXCEPT ![r] = "accepting"]
  /\ UNCHANGED <<hostVars, player, breached, remote, up>>

(* snapshot_begin, then the snapshot itself: it is the state at that tick. *)
SendSnapshot(r) ==
  /\ conn[r] = "preparing_snapshot"
  /\ down' = [down EXCEPT ![r] =
       Queue(r, Queue(r, @, [type |-> "snapshot_begin", tick |-> tick]),
             [type |-> "snapshot"])]
  /\ conn' = [conn EXCEPT ![r] = "downloading_snapshot"]
  /\ UNCHANGED <<hostVars, player, breached, remote, up>>

(* HostSession::disconnect_peer, which reject_login calls. *)
DisconnectPeer(r) ==
  /\ conn[r] \notin {"absent", "disconnected"}
  /\ Close(r)
  /\ UNCHANGED <<hostVars, remote>>

(* HostSession::disconnect *)
HostDisconnect ==
  /\ status = "joined"
  /\ status' = "disconnected"
  /\ down' = [r \in Remote |->
       IF conn[r] \in {"absent", "disconnected"} THEN down[r]
       ELSE Queue(r, down[r], [type |-> "disconnect"])]
  /\ conn' = [r \in Remote |->
       IF conn[r] = "absent" THEN "absent" ELSE "disconnected"]
  /\ up' = [r \in Remote |-> <<>>]
  /\ UNCHANGED <<tick, inputs, submitted, frames, player, breached, remote>>

HostSubmit ==
  /\ status = "joined" /\ submitted < MaxHostInput
  /\ inputs' = Append(inputs, [source |-> HostOwner, id |-> ID(submitted)])
  /\ submitted' = submitted + 1
  /\ UNCHANGED <<status, tick, frames, connVars, remote, up, down>>

InputOrder(a, b) == \/ a.source < b.source
                    \/ a.source = b.source /\ a.id < b.id

(* Inputs that compare equal are the same: one arrangement is in order. *)
Sorted(s) ==
  CHOOSE t \in {[i \in DOMAIN s |-> s[p[i]]] :
                   p \in Bijection(DOMAIN s, DOMAIN s)} :
    \A i, j \in DOMAIN s : i < j => ~ InputOrder(t[j], t[i])

(* Faulty variant: frames advanced while a snapshot is loaded are missed. *)
JoinedReceivers == {r \in Remote : conn[r] = "joined"}

(* HostSession::advance *)
Receivers == {r \in Remote : conn[r] \in {"downloading_snapshot", "joined"}}

(* Faulty variants: the frame is sent before its inputs are sorted; the    *)
(* inputs are copied into it instead of moved.                             *)
AdvanceUnsorted ==
  /\ status = "joined" /\ tick < MaxTick
  /\ LET frame == [tick |-> tick + 1, inputs |-> inputs]
     IN  /\ frames' = Append(frames, [frame EXCEPT !.inputs =
                                        Sorted(inputs)])
         /\ down' = [r \in Remote |->
              IF r \in Receivers
              THEN Queue(r, down[r], [type |-> "frame", frame |-> frame])
              ELSE down[r]]
  /\ tick' = tick + 1
  /\ inputs' = <<>>
  /\ UNCHANGED <<status, submitted, connVars, remote, up>>

AdvanceKeepingInputs ==
  /\ status = "joined" /\ tick < MaxTick
  /\ LET frame == [tick |-> tick + 1, inputs |-> Sorted(inputs)]
     IN  /\ frames' = Append(frames, frame)
         /\ down' = [r \in Remote |->
              IF r \in Receivers
              THEN Queue(r, down[r], [type |-> "frame", frame |-> frame])
              ELSE down[r]]
  /\ tick' = tick + 1
  /\ UNCHANGED <<inputs, status, submitted, connVars, remote, up>>

Advance ==
  /\ status = "joined" /\ tick < MaxTick
  /\ LET frame == [tick |-> tick + 1, inputs |-> Sorted(inputs)]
     IN  /\ frames' = Append(frames, frame)
         /\ down' = [r \in Remote |->
              IF r \in Receivers
              THEN Queue(r, down[r], [type |-> "frame", frame |-> frame])
              ELSE down[r]]
  /\ tick' = tick + 1
  /\ inputs' = <<>>
  /\ UNCHANGED <<status, submitted, connVars, remote, up>>
-----------------------------------------------------------------------------
(* The remote's side: functions on a session s. *)

Stop(s, why) == IF s.state = "disconnected" THEN s
                ELSE [s EXCEPT !.state = "disconnected", !.cause = why]

(* RemoteSession::receive *)
Welcomed(s, m) ==
  IF s.state = "logging_in" /\ m.player # Null
  THEN [s EXCEPT !.state = "preparing_snapshot", !.owner = m.player]
  ELSE Stop(s, "breach")


SnapshotBegun(s, m) ==
  IF s.state = "preparing_snapshot"
  THEN [s EXCEPT !.state = "downloading_snapshot", !.announced = TRUE,
                 !.tick = m.tick, !.base = m.tick]
  ELSE Stop(s, "breach")

SnapshotArrived(s, m) ==
  IF s.state = "downloading_snapshot" /\ s.announced
  THEN [s EXCEPT !.delivered = TRUE]
  ELSE Stop(s, "breach")

FrameArrived(s, m) == [s EXCEPT !.buffered = Append(@, m.frame)]

Handled(s, m) ==
  CASE s.state = "disconnected" -> s
    [] s.state # "disconnected" /\ m.type = "welcome" -> Welcomed(s, m)
    [] s.state # "disconnected" /\ m.type = "snapshot_begin" ->
         SnapshotBegun(s, m)
    [] s.state # "disconnected" /\ m.type = "snapshot" -> SnapshotArrived(s, m)
    [] s.state # "disconnected" /\ m.type = "frame" -> FrameArrived(s, m)
    [] s.state # "disconnected" /\ m.type = "disconnect" -> Stop(s, "told")

(* The first messages of a queue, one after the other. *)
HandledFirst(s, queue, count) ==
  LET handled[n \in 0 .. count] ==
        IF n = 0 THEN s ELSE Handled(handled[n - 1], queue[n])
  IN  handled[count]

(* RemoteSession::drain *)
Applied(s, frame) ==
  CASE s.state = "disconnected" -> s
    [] s.state # "disconnected" /\ frame.tick # s.tick + 1 -> Stop(s, "breach")
    [] s.state # "disconnected" /\ frame.tick = s.tick + 1 ->
         [s EXCEPT !.tick = frame.tick, !.applied = Append(@, frame),
                   !.state = "joined"]

Drained(s) ==
  LET applied[n \in 0 .. Len(s.buffered)] ==
        IF n = 0 THEN s ELSE Applied(applied[n - 1], s.buffered[n])
  IN  IF s.state \in {"catching_up", "joined"}
      THEN [applied[Len(s.buffered)] EXCEPT !.buffered = <<>>]
      ELSE s

(* A session that has stopped reads nothing more. *)
Become(r, s) ==
  /\ remote' = [remote EXCEPT ![r] = s]
  /\ down' = [down EXCEPT ![r] = IF s.state = "disconnected" THEN <<>> ELSE @]

(* RemoteSession::set_login_payload *)
Login(r) ==
  /\ remote[r].state = "connecting"
  /\ remote' = [remote EXCEPT ![r].state = "logging_in"]
  /\ up' = [up EXCEPT ![r] = Append(@, [type |-> "join"])]
  /\ UNCHANGED <<hostVars, connVars, down>>

(* RemoteSession::update: the first n messages on their way, then drain(). *)
RemoteUpdate(r, n) ==
  /\ ~ Gone(r)
  /\ n <= Len(down[r])
  /\ LET s == Drained(HandledFirst(remote[r], down[r], n))
     IN  /\ remote' = [remote EXCEPT ![r] = s]
         /\ down' = [down EXCEPT ![r] =
              IF s.state = "disconnected" THEN <<>>
              ELSE SubSeq(@, n + 1, Len(@))]
  /\ UNCHANGED <<hostVars, connVars, up>>

ExpectsHost(s) == s.state \notin {"disconnected", "preparing_snapshot"}

(* RemoteSession::update when nothing was heard for connect_timeout. *)
RemoteTimeout(r) ==
  /\ ExpectsHost(remote[r])
  /\ Become(r, Stop(remote[r], "timeout"))
  /\ UNCHANGED <<hostVars, connVars, up>>

(* What is sent to a host that no longer reads is not kept. *)
SendUp(r, m) ==
  up' = [up EXCEPT ![r] = IF conn[r] = "disconnected" \/ status # "joined"
                          THEN @ ELSE Append(@, m)]

(* RemoteSession::finish_snapshot_load, called on the event. *)
FinishLoad(r) ==
  /\ remote[r].state = "downloading_snapshot" /\ remote[r].delivered
  /\ SendUp(r, [type |-> "loaded"])
  /\ Become(r, Drained([remote[r] EXCEPT !.state = "catching_up",
                                         !.announced = FALSE]))
  /\ UNCHANGED <<hostVars, connVars>>

RemoteSubmit(r) ==
  /\ remote[r].state = "joined" /\ remote[r].next < MaxInput
  /\ SendUp(r, [type |-> "input", id |-> ID(remote[r].next)])
  /\ remote' = [remote EXCEPT ![r].next = @ + 1]
  /\ UNCHANGED <<hostVars, connVars, down>>

(* RemoteSession::disconnect *)
RemoteDisconnect(r) ==
  /\ ~ Gone(r)
  /\ SendUp(r, [type |-> "disconnect"])
  /\ Become(r, Stop(remote[r], "left"))
  /\ UNCHANGED <<hostVars, connVars>>

(* A side that has stopped no longer retransmits. *)
LoseTail(r) ==
  /\ \/ /\ Gone(r) /\ up[r] # <<>>
        /\ up' = [up EXCEPT ![r] = Front(@)]
        /\ UNCHANGED down
     \/ /\ conn[r] = "disconnected" /\ down[r] # <<>>
        /\ down' = [down EXCEPT ![r] = Front(@)]
        /\ UNCHANGED up
  /\ UNCHANGED <<hostVars, connVars, remote>>
-----------------------------------------------------------------------------
Init == /\ max_clients \in Limits
        /\ status = "joined"
        /\ tick = 0
        /\ inputs = <<>>
        /\ submitted = 0
        /\ frames = <<>>
        /\ conn = [r \in Remote |-> "absent"]
        /\ breached = {}
        /\ player = [r \in Remote |-> Null]
        /\ remote = [r \in Remote |-> Joining]
        /\ up = [r \in Remote |-> <<>>]
        /\ down = [r \in Remote |-> <<>>]

Next ==
  \/ HostDisconnect \/ HostSubmit \/ Advance
  \/ \E r \in Remote :
       \/ Open(r) \/ ReceiveJoin(r) \/ ReceiveLoaded(r) \/ ReceiveInput(r)
       \/ ReceiveDisconnect(r) \/ HostTimeout(r) \/ RequestSnapshot(r)
       \/ AcceptLogin(r) \/ SendSnapshot(r) \/ DisconnectPeer(r)
       \/ Login(r) \/ \E n \in 0 .. Len(down[r]) : RemoteUpdate(r, n)
       \/ RemoteTimeout(r) \/ FinishLoad(r) \/ RemoteSubmit(r)
       \/ RemoteDisconnect(r) \/ LoseTail(r)

Spec == Init /\ [][Next /\ UNCHANGED max_clients]_vars

(* Both sides call update() on every pass of their loops, and the channel  *)
(* delivers what a live side sends (LossySpec in Channel): messages are    *)
(* received and the welcome is acknowledged.  A side that hears nothing    *)
(* times out, here once the other has stopped for good; it may also time   *)
(* out earlier.  The application answers the events: it accepts or refuses *)
(* a login, supplies the snapshot, and reports when it has loaded it.      *)
HostReceive(r) == \/ ReceiveJoin(r) \/ ReceiveLoaded(r) \/ ReceiveInput(r)
                  \/ ReceiveDisconnect(r)

HostStopped(r) == conn[r] = "disconnected" \/ status = "disconnected"

Fairness ==
  \A r \in Remote :
    /\ WF_sessionVars(Open(r)) /\ WF_sessionVars(HostReceive(r))
    /\ WF_sessionVars(RemoteUpdate(r, Len(down[r])))
    /\ WF_sessionVars(RequestSnapshot(r))
    /\ WF_sessionVars(Gone(r) /\ HostTimeout(r))
    /\ WF_sessionVars(HostStopped(r) /\ RemoteTimeout(r))
    /\ WF_sessionVars(AcceptLogin(r)) /\ WF_sessionVars(SendSnapshot(r))
    /\ WF_sessionVars(FinishLoad(r))

FairSpec == Spec /\ Fairness
-----------------------------------------------------------------------------
(* Every frame a session runs is the host's frame of that tick, and none   *)
(* is missing between its snapshot and the last one it ran: the property   *)
(* lockstep exists for.                                                    *)
RemotesRunTheHostsFrames ==
  /\ Len(frames) = tick
  /\ \A r \in Remote :
       LET s == remote[r]
       IN  s.applied = SubSeq(frames, s.base + 1, s.base + Len(s.applied))

(* A session that keeps to the protocol is never disconnected for breach   *)
(* of it, by the host or by itself: the messages of the two sides cross    *)
(* only in ways that the receive functions and drain() allow for.          *)
NoBreach ==
  /\ breached = {}
  /\ \A r \in Remote : remote[r].cause # "breach"

(* Where a connection is tells where its session can be.  In particular    *)
(* the host asks for the snapshot, and itself stops timing the connection  *)
(* out, only once the session has read the welcome and will not time out   *)
(* while the snapshot is prepared ("Join acceptance precedes slow snapshot *)
(* preparation and loading", tests/network/channel.cpp:103).               *)
SidesAgree ==
  \A r \in Remote : remote[r].state # "disconnected" =>
    /\ conn[r] = "logging_in" => remote[r].state = "logging_in"
    /\ conn[r] = "preparing_snapshot" => remote[r].state = "preparing_snapshot"
    /\ conn[r] = "downloading_snapshot" =>
         remote[r].state \in {"preparing_snapshot", "downloading_snapshot",
                              "catching_up", "joined"}
    /\ conn[r] = "joined" => remote[r].state \in {"catching_up", "joined"}
    /\ remote[r].owner \in {Null, player[r]}

(* The client limit holds however joins, rejections and timeouts mix.      *)
WithinClientLimit == max_clients # 0 => Cardinality(Active) <= max_clients

(* No two sessions, the host among them, go by one identifier, not even    *)
(* after some of them have left.                                           *)
PlayersDistinct ==
  \A r, q \in Connections :
    /\ player[r] \notin {Null, HostOwner}
    /\ r # q => player[r] # player[q]

(* The inputs of the frames so far, and those that wait for the next one. *)
Carried(t) == IF t > Len(frames) THEN inputs ELSE frames[t].inputs

Places == UNION {{t} \X DOMAIN Carried(t) : t \in 1 .. Len(frames) + 1}

InputAt(x) == Carried(x[1])[x[2]]

Earlier(x, y) == x[1] < y[1] \/ (x[1] = y[1] /\ x[2] < y[2])

(* Over all frames together, the inputs of a session appear in the order   *)
(* and as often as it submitted them: once, with no gap; and in each frame *)
(* they are in the one order that every session can reproduce.             *)
InputsOnceInOrder ==
  /\ \A x, y \in Places :
       InputAt(x).source = InputAt(y).source /\ Earlier(x, y) =>
         InputAt(x).id < InputAt(y).id
  /\ \A x \in Places :
       \/ InputAt(x).id = ID(0)
       \/ \E y \in Places : /\ InputAt(y).source = InputAt(x).source
                            /\ ID(InputAt(y).id) = InputAt(x).id
  /\ \A t \in 1 .. Len(frames) : \A i, j \in DOMAIN frames[t].inputs :
       i < j => InputOrder(frames[t].inputs[i], frames[t].inputs[j])

(* A login is never left hanging: the session plays or is told, or finds   *)
(* out, that it does not, but for the one state in which it waits without  *)
(* a time limit.  If the host stops then and its disconnect message is     *)
(* lost, nobody repeats it.                                                *)
LoginSettles ==
  \A r \in Remote :
    remote[r].state = "logging_in" ~>
      \/ remote[r].state \in {"catching_up", "joined", "disconnected"}
      \/ remote[r].state = "preparing_snapshot" /\ HostStopped(r)

(* Neither side is left with a peer that has gone.  The host closes the    *)
(* connection of every session that has, told or not, except in the two    *)
(* states it does not time out: the place of a client that dies while it   *)
(* downloads is never freed by it.  And a session notices that the host    *)
(* has dropped it, with the same exception as in LoginSettles.             *)
DeparturesNoticed ==
  \A r \in Remote :
    /\ (Gone(r) /\ conn[r] # "absent") ~>
         conn[r] \in {"disconnected", "preparing_snapshot",
                     "downloading_snapshot"}
    /\ conn[r] = "disconnected" ~>
         (Gone(r) \/ remote[r].state = "preparing_snapshot")
=============================================================================
