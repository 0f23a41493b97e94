------------------------------ MODULE Channel ------------------------------
(***************************************************************************)
(* modules/network/channel.cpp: an ordered message stream over a datagram  *)
(* socket.  Two ends run the same code; between them the socket loses,     *)
(* duplicates, delays and reorders datagrams.                              *)
(*                                                                         *)
(* Bytes are kept: a message is framed by a header of HEADER bytes in base *)
(* Base, so that a stream misaligned by one byte would really be misread.  *)
(* The retry and heartbeat timers are abstracted to their expiry: update() *)
(* may find either of them due or not.                                     *)
(***************************************************************************)
EXTENDS Integers, Sequences, FiniteSets

CONSTANTS End,            \* the two ends
          Base,           \* a byte is a number below Base (256 in the code)
          HEADER,         \* bytes of a message header (8 in the code)
          PACKET_BYTES,   \* payload bytes of a datagram (1000 in the code)
          WINDOW_BYTES,   \* unacknowledged bytes in flight (128 packets)
          Message,        \* messages the owners send, sequences of bytes
          MessageLimit    \* bound: how many messages each end sends

Byte == 0 .. Base - 1

ASSUME EndAssumption == \E x, y \in End : x # y /\ End = {x, y}
ASSUME SizeAssumption == /\ Base \in Nat \ {0}
                         /\ HEADER \in Nat \ {0}
                         /\ PACKET_BYTES \in Nat \ {0}
                         /\ WINDOW_BYTES \in Nat \ {0}
(* True of every positive Base; stated because no prover computes powers. *)
ASSUME PowerAssumption ==
  /\ Base ^ 0 = 1
  /\ \A i \in 1 .. HEADER : /\ Base ^ (i - 1) \in Nat \ {0}
                            /\ Base ^ i = Base ^ (i - 1) * Base
ASSUME MessageAssumption == /\ \A m \in Message : m \in Seq(Byte)
                            /\ \A m \in Message : Len(m) < Base ^ HEADER
ASSUME LimitAssumption == MessageLimit \in [End -> Nat]

Other(e) == CHOOSE x \in End : x # e

VARIABLES
  outgoing,             \* bytes sent and not yet trimmed
  outgoing_base,        \* stream offset of the first byte of outgoing
  acknowledged,         \* bytes the peer is known to have
  transmitted,          \* bytes put in a datagram at least once
  incoming,             \* bytes received and not yet assembled
  received,             \* length of the contiguous stream received
  reordered,            \* offset -> bytes of datagrams that came early
  messages,             \* assembled messages not yet taken
  acknowledgement_due,  \* data came since the last datagram was sent
  network,              \* datagrams each end has sent that may still arrive
  posted, taken,        \* history: the messages sent by / handed to each end
  sent, accepted        \* history: the byte streams behind them

senderVars == <<outgoing, outgoing_base, transmitted>>
receiverVars == <<incoming, received, reordered>>
historyVars == <<posted, taken, sent, accepted>>
vars == <<outgoing, outgoing_base, acknowledged, transmitted, incoming,
          received, reordered, messages, acknowledgement_due, network,
          posted, taken, sent, accepted>>

Lesser(i, j) == IF i <= j THEN i ELSE j
Greater(i, j) == IF i >= j THEN i ELSE j

Datagram == [offset : Nat, acknowledged : Nat, bytes : Seq(Byte)]
-----------------------------------------------------------------------------
(* Framing: the size, least significant byte first, then the message. *)
Header(n) == [i \in 1 .. HEADER |-> (n \div (Base ^ (i - 1))) % Base]

Frame(m) == Header(Len(m)) \o m

SizeAt(bytes, from) ==
  CHOOSE n \in 0 .. (Base ^ HEADER) - 1 :
    Header(n) = SubSeq(bytes, from + 1, from + HEADER)

(* Faulty variant: a message that ends where bytes end is not seen. *)
CompleteAndMoreAt(bytes, from) ==
  /\ Len(bytes) - from >= HEADER
  /\ Len(bytes) - from > HEADER + SizeAt(bytes, from)

(* A whole message starts at offset from of bytes. *)
CompleteAt(bytes, from) ==
  /\ Len(bytes) - from >= HEADER
  /\ Len(bytes) - from >= HEADER + SizeAt(bytes, from)

(* One pass of the loop of assemble(): a whole message more, if there is.  *)
Assemble(bytes, done) ==
  LET begin == done.consumed + HEADER
      end == begin + SizeAt(bytes, done.consumed)
  IN  IF CompleteAt(bytes, done.consumed)
      THEN [consumed |-> end,
            messages |-> Append(done.messages, SubSeq(bytes, begin + 1, end))]
      ELSE done

(* The loop; no message is shorter than its header, so that it has come to *)
(* its end after as many passes as there are bytes.                        *)
Assembly(bytes) ==
  LET after[n \in 0 .. Len(bytes)] ==
        IF n = 0 THEN [consumed |-> 0, messages |-> <<>>]
        ELSE Assemble(bytes, after[n - 1])
  IN  after[Len(bytes)]

(* The whole messages at the front of bytes. *)
Assembled(bytes) == Assembly(bytes).messages

(* What assemble() leaves in incoming. *)
Unassembled(bytes) == SubSeq(bytes, Assembly(bytes).consumed + 1, Len(bytes))
-----------------------------------------------------------------------------
(* The pieces of the held map that the drain loop of receive() consumes:   *)
(* they tile first .. end - 1, and nothing is held at end.  Each piece is  *)
(* found at the very offset where the previous one stopped.                *)
EndOf(held, o) == o + Len(held[o])

Tiles(held, pieces, first, end) ==
  /\ first <= end
  /\ pieces \subseteq DOMAIN held
  /\ \A o \in pieces : first <= o /\ EndOf(held, o) <= end
  /\ \A p \in first .. end - 1 :
       \E o \in pieces : /\ o <= p /\ p < EndOf(held, o)
                         /\ \A q \in pieces :
                              q <= p /\ p < EndOf(held, q) => q = o
  /\ end \notin DOMAIN held

(* The bytes first .. end - 1 that those pieces hold. *)
Joined(held, pieces, first, end) ==
  [i \in 1 .. end - first |->
     LET o == CHOOSE o \in pieces :
                o < first + i /\ first + i <= EndOf(held, o)
     IN  held[o][first + i - o]]

Ends(held, first) == {first} \cup {EndOf(held, o) : o \in DOMAIN held}
-----------------------------------------------------------------------------
Init == /\ outgoing = [e \in End |-> <<>>]
        /\ outgoing_base = [e \in End |-> 0]
        /\ acknowledged = [e \in End |-> 0]
        /\ transmitted = [e \in End |-> 0]
        /\ incoming = [e \in End |-> <<>>]
        /\ received = [e \in End |-> 0]
        /\ reordered = [e \in End |-> <<>>]
        /\ messages = [e \in End |-> <<>>]
        /\ acknowledgement_due = [e \in End |-> FALSE]
        /\ network = [e \in End |-> {}]
        /\ posted = [e \in End |-> <<>>]
        /\ taken = [e \in End |-> <<>>]
        /\ sent = [e \in End |-> <<>>]
        /\ accepted = [e \in End |-> <<>>]

(* Channel::send *)
Send(e, m) ==
  /\ Len(posted[e]) < MessageLimit[e]
  /\ outgoing' = [outgoing EXCEPT ![e] = @ \o Frame(m)]
  /\ sent' = [sent EXCEPT ![e] = @ \o Frame(m)]
  /\ posted' = [posted EXCEPT ![e] = Append(@, m)]
  /\ UNCHANGED <<outgoing_base, acknowledged, transmitted, incoming, received,
                 reordered, messages, acknowledgement_due, network, taken,
                 accepted>>

HasBytes(d) == d.bytes # <<>>

(* The early returns of Channel::receive that drop a datagram's bytes. *)
Stale(e, d) == \/ d.offset < received[e]
               \/ d.offset - received[e] >= WINDOW_BYTES

(* Faulty variant: bytes are appended without waiting for those before. *)
IsNextOrLater(e, d) == d.offset >= received[e]

IsNext(e, d) == d.offset = received[e]

(* Its first lines: the acknowledgement is read whatever the bytes are. *)
Acknowledge(e, d) ==
  /\ d \in network[Other(e)]
  /\ d.acknowledged <= transmitted[e]
  /\ acknowledged' = [acknowledged EXCEPT ![e] = Greater(@, d.acknowledged)]

ReceiveNothing(e, d) ==
  /\ Acknowledge(e, d)
  /\ ~ HasBytes(d) \/ Stale(e, d)
  /\ acknowledgement_due' =
       [acknowledgement_due EXCEPT ![e] = @ \/ HasBytes(d)]
  /\ UNCHANGED <<senderVars, receiverVars, messages, network, historyVars>>

(* try_emplace: what is already held at the offset stays. *)
ReceiveEarly(e, d) ==
  /\ Acknowledge(e, d)
  /\ HasBytes(d) /\ ~ Stale(e, d) /\ ~ IsNext(e, d)
  /\ acknowledgement_due' = [acknowledgement_due EXCEPT ![e] = TRUE]
  /\ reordered' =
       [reordered EXCEPT ![e] =
          [o \in DOMAIN @ \cup {d.offset} |->
             IF o \in DOMAIN @ THEN @[o] ELSE d.bytes]]
  /\ UNCHANGED <<senderVars, incoming, received, messages, network,
                 historyVars>>

(* Faulty variant: pieces that were skipped over are never erased. *)
HeldForEver(held, end) == DOMAIN held

StillHeld(held, end) == {o \in DOMAIN held : o >= end}

(* The next bytes of the stream, and after them all that was held for them *)
(* in reordered; what lies before the new end is erased from it.           *)
ReceiveNext(e, d) ==
  /\ Acknowledge(e, d)
  /\ HasBytes(d) /\ ~ Stale(e, d) /\ IsNext(e, d)
  /\ acknowledgement_due' = [acknowledgement_due EXCEPT ![e] = TRUE]
  /\ LET held == reordered[e]
         first == received[e] + Len(d.bytes)
     IN  \E pieces \in SUBSET DOMAIN held, end \in Ends(held, first) :
           /\ Tiles(held, pieces, first, end)
           /\ LET arrived == d.bytes \o Joined(held, pieces, first, end)
                  stream == incoming[e] \o arrived
              IN  /\ received' = [received EXCEPT ![e] = end]
                  /\ reordered' = [reordered EXCEPT ![e] =
                       [o \in StillHeld(held, end) |-> held[o]]]
                  /\ incoming' = [incoming EXCEPT ![e] = Unassembled(stream)]
                  /\ messages' = [messages EXCEPT ![e] = @ \o Assembled(stream)]
                  /\ accepted' = [accepted EXCEPT ![e] = @ \o arrived]
  /\ UNCHANGED <<senderVars, network, posted, taken, sent>>

(* Channel::receive *)
Receive(e, d) == ReceiveNothing(e, d) \/ ReceiveEarly(e, d) \/ ReceiveNext(e, d)
-----------------------------------------------------------------------------
(* The pieces of Channel::update. *)
StreamEnd(e) == outgoing_base[e] + Len(outgoing[e])

(* Faulty variant: what was transmitted once is not sent again. *)
FromTransmitted(e, retry) == transmitted[e]

(* Retransmission goes back to the first unacknowledged byte. *)
From(e, retry) == IF retry THEN acknowledged[e] ELSE transmitted[e]

(* Faulty variant: no window. *)
LimitOfStream(e) == StreamEnd(e)

Limit(e) == Lesser(StreamEnd(e), acknowledged[e] + WINDOW_BYTES)

Slice(e, from, to) ==
  SubSeq(outgoing[e], from - outgoing_base[e] + 1, to - outgoing_base[e])

DataPackets(e, from, limit) ==
  {[offset |-> o, acknowledged |-> received[e],
    bytes |-> Slice(e, o, Lesser(o + PACKET_BYTES, limit))] :
      o \in {p \in from .. limit - 1 : (p - from) % PACKET_BYTES = 0}}

(* Faulty variant: transmitted is not brought up to date. *)
NotReached(e, from, limit) == transmitted[e]

Reached(e, from, limit) ==
  IF from < limit THEN Greater(transmitted[e], limit) ELSE transmitted[e]

(* A datagram without bytes, for its acknowledgement alone; transmit()     *)
(* cleared acknowledgement_due if a data packet already carries one.       *)
Announcements(e, heartbeat, from, limit, offset) ==
  IF heartbeat \/ (acknowledgement_due[e] /\ from >= limit)
  THEN {[offset |-> offset, acknowledged |-> received[e], bytes |-> <<>>]}
  ELSE {}

(* Faulty variant: the last part of a window is kept for ever. *)
WindowDue(e) == acknowledged[e] - outgoing_base[e] >= WINDOW_BYTES

(* Acknowledged bytes are dropped once they are all there is or a window. *)
TrimDue(e) == \/ acknowledged[e] = StreamEnd(e)
              \/ acknowledged[e] - outgoing_base[e] >= WINDOW_BYTES

Trimmed(e) == IF TrimDue(e) THEN acknowledged[e] ELSE outgoing_base[e]

(* Channel::update *)
Update(e, retry, heartbeat) ==
  LET from == From(e, retry)
      limit == Limit(e)
      reached == Reached(e, from, limit)
  IN  /\ network' = [network EXCEPT ![e] =
            @ \cup DataPackets(e, from, limit)
              \cup Announcements(e, heartbeat, from, limit, reached)]
      /\ transmitted' = [transmitted EXCEPT ![e] = reached]
      /\ acknowledgement_due' = [acknowledgement_due EXCEPT ![e] = FALSE]
      /\ outgoing' = [outgoing EXCEPT ![e] = Slice(e, Trimmed(e), StreamEnd(e))]
      /\ outgoing_base' = [outgoing_base EXCEPT ![e] = Trimmed(e)]
      /\ UNCHANGED <<acknowledged, receiverVars, messages, historyVars>>

(* Faulty variant: the messages are copied out instead of moved. *)
CopyMessages(e) ==
  /\ messages[e] # <<>>
  /\ taken' = [taken EXCEPT ![e] = @ \o messages[e]]
  /\ UNCHANGED <<senderVars, receiverVars, messages, acknowledged,
                 acknowledgement_due, network, posted, sent, accepted>>

(* Channel::take_messages *)
TakeMessages(e) ==
  /\ messages[e] # <<>>
  /\ taken' = [taken EXCEPT ![e] = @ \o messages[e]]
  /\ messages' = [messages EXCEPT ![e] = <<>>]
  /\ UNCHANGED <<senderVars, receiverVars, acknowledged, acknowledgement_due,
                 network, posted, sent, accepted>>

(* The socket loses a datagram for good.  Safety does not need the step: a *)
(* datagram that is never received is as good as lost.                     *)
Lose(e, d) ==
  /\ d \in network[e]
  /\ network' = [network EXCEPT ![e] = @ \ {d}]
  /\ UNCHANGED <<senderVars, receiverVars, acknowledged, messages,
                 acknowledgement_due, historyVars>>
-----------------------------------------------------------------------------
Next == \E e \in End :
          \/ \E m \in Message : Send(e, m)
          \/ \E d \in network[Other(e)] : Receive(e, d)
          \/ \E retry, heartbeat \in BOOLEAN : Update(e, retry, heartbeat)
          \/ TakeMessages(e)

Spec == Init /\ [][Next]_vars

(* A receive that moves the connection forward. *)
Advance(e) == /\ \E d \in network[Other(e)] : Receive(e, d)
              /\ received' # received \/ acknowledged' # acknowledged

(* The owners call update() and take_messages() on every pass of their     *)
(* loop and time passes, so both timers keep expiring.  The socket may     *)
(* lose any datagram, but not every one of those that are sent again and   *)
(* again: a useful datagram that is on its way infinitely often arrives.   *)
LossySpec == /\ Init
             /\ [][Next \/ \E e \in End : \E d \in network[e] : Lose(e, d)]_vars
             /\ \A e \in End : /\ WF_vars(Update(e, TRUE, TRUE))
                               /\ WF_vars(TakeMessages(e))
                               /\ SF_vars(Advance(e))
-----------------------------------------------------------------------------
TypeOK ==
  /\ outgoing \in [End -> Seq(Byte)]
  /\ outgoing_base \in [End -> Nat]
  /\ acknowledged \in [End -> Nat]
  /\ transmitted \in [End -> Nat]
  /\ received \in [End -> Nat]
  /\ DOMAIN reordered = End
  /\ \A e \in End : /\ DOMAIN reordered[e] \subseteq Nat
                     /\ \A o \in DOMAIN reordered[e] :
                          /\ reordered[e][o] \in Seq(Byte)
                          /\ reordered[e][o] # <<>>
  /\ acknowledgement_due \in [End -> BOOLEAN]
  /\ network \in [End -> SUBSET Datagram]
  /\ sent \in [End -> Seq(Byte)]
  /\ accepted \in [End -> Seq(Byte)]

(* bytes are the bytes of the stream from the given offset on. *)
IsSlice(stream, offset, bytes) ==
  /\ offset + Len(bytes) <= Len(stream)
  /\ \A i \in 1 .. Len(bytes) : bytes[i] = stream[offset + i]

(* The counters of the two ends, kept in step only by datagrams that may be *)
(* old: nothing unacknowledged is trimmed, no byte is acknowledged that the *)
(* peer does not have, and no more than a window is on its way.             *)
OffsetsOrdered ==
  \A e \in End :
    /\ outgoing_base[e] <= acknowledged[e]
    /\ acknowledged[e] <= received[Other(e)]
    /\ received[Other(e)] <= transmitted[e]
    /\ transmitted[e] <= Lesser(Len(sent[e]), acknowledged[e] + WINDOW_BYTES)

(* Whatever datagrams are delivered, in whatever order and however often,  *)
(* and however their boundaries changed when they were sent again, the     *)
(* bytes appended to incoming are the first bytes that the peer sent.      *)
AcceptedIsPrefix ==
  \A e \in End : /\ received[e] = Len(accepted[e])
                 /\ IsSlice(sent[Other(e)], 0, accepted[e])

(* receive() never reports "Invalid channel acknowledgement" to a peer     *)
(* that runs the same code: no delayed datagram acknowledges bytes that    *)
(* were never transmitted.                                                 *)
AcknowledgementsValid ==
  \A e \in End : \A d \in network[Other(e)] :
    d.acknowledged <= transmitted[e]

(* The window test of receive() never drops bytes that the receiver still  *)
(* needs, because the sender measures its window from acknowledged, which  *)
(* never runs ahead of received.                                           *)
WindowAdmitsNewBytes ==
  \A e \in End : \A d \in network[Other(e)] :
    HasBytes(d) /\ d.offset >= received[e] => ~ Stale(e, d)

(* Every message is assembled as soon as its last byte is contiguous, and  *)
(* messages come out whole, once and in order: framing is never lost.      *)
MessagesInOrder ==
  \A e \in End :
    LET delivered == taken[e] \o messages[e]
    IN  /\ Len(delivered) <= Len(posted[Other(e)])
        /\ delivered = SubSeq(posted[Other(e)], 1, Len(delivered))
        /\ received[e] = Len(sent[Other(e)])
              => delivered = posted[Other(e)] /\ incoming[e] = <<>>

(* The buffers stay bounded: trimming lags the acknowledgements by less    *)
(* than two windows, and reordered holds only pieces ahead of received and *)
(* inside the window.                                                      *)
BuffersBounded ==
  \A e \in End :
    /\ acknowledged[e] - outgoing_base[e] < 2 * WINDOW_BYTES
    /\ \A o \in DOMAIN reordered[e] :
         received[e] < o /\ o < received[e] + WINDOW_BYTES

(* A datagram that is already late never moves a counter back, and a byte  *)
(* once handed over is never taken back.                                   *)
CountersGrow ==
  \A e \in End : /\ acknowledged[e] <= acknowledged'[e]
                 /\ received[e] <= received'[e]
                 /\ transmitted[e] <= transmitted'[e]
                 /\ outgoing_base[e] <= outgoing_base'[e]

CountersAdvance == [][CountersGrow]_vars

(* Channel gives its owner the streams of MessageStream. *)
Stream == INSTANCE MessageStream
Implements == Stream!Spec

(* ... and, under the fairness of LossySpec, withholds nothing for ever.   *)
ImplementsFairly == Stream!FairSpec

(* However many datagrams are lost, every byte is acknowledged in the end  *)
(* and no sender keeps bytes it could drop.                                *)
EventuallyAcknowledged ==
  \A e \in End : []<>(acknowledged[e] = Len(sent[e]) /\ outgoing[e] = <<>>)
=============================================================================
