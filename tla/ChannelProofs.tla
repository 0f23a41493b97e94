--------------------------- MODULE ChannelProofs ---------------------------
(***************************************************************************)
(* Safety of Channel for any sizes of packet, window and header and any    *)
(* messages.                                                               *)
(***************************************************************************)
EXTENDS Channel, Induction, SequenceTheorems, TLAPS

(* The end opposite to e: there is one, another one, and its opposite is e. *)
LEMMA OtherEnd ==
  ASSUME NEW e \in End
  PROVE  /\ Other(e) \in End
         /\ Other(e) # e
         /\ Other(Other(e)) = e
         /\ \A x \in End : x # e => x = Other(e)
BY EndAssumption DEF Other

(* A frame is a sequence of bytes at least as long as its header. *)
LEMMA FrameIsBytes ==
  ASSUME NEW m \in Message
  PROVE  Frame(m) \in Seq(Byte)
<1>1. m \in Seq(Byte) BY MessageAssumption
<1>2. Header(Len(m)) \in Seq(Byte)
  <2>1. \A i \in 1 .. HEADER : (Len(m) \div (Base ^ (i - 1))) % Base \in Byte
    <3> SUFFICES ASSUME NEW i \in 1 .. HEADER
                 PROVE  (Len(m) \div (Base ^ (i - 1))) % Base \in Byte
      OBVIOUS
    <3>1. Base ^ (i - 1) \in Int BY SizeAssumption
    <3>2. Len(m) \div (Base ^ (i - 1)) \in Int BY <1>1, <3>1, PowerAssumption
    <3> QED BY <3>2, SizeAssumption DEF Byte
  <2> QED BY <2>1, SizeAssumption, SeqDef DEF Header
<1> QED BY <1>1, <1>2 DEF Frame
-----------------------------------------------------------------------------
(* The inductive invariant.  OffsetsOrdered and AcceptedIsPrefix hold only *)
(* because everything that may still be delivered or drained, and all that *)
(* may still be sent again, agrees with the stream that was sent.          *)

(* outgoing is the untrimmed rest of the stream. *)
IsTail(stream, base, tail) ==
  /\ Len(stream) = base + Len(tail)
  /\ \A i \in 1 .. Len(tail) : tail[i] = stream[base + i]

OutgoingIsTail ==
  \A e \in End : IsTail(sent[e], outgoing_base[e], outgoing[e])

(* A datagram on its way, however old. *)
DatagramsAreSlices ==
  \A e \in End : \A d \in network[e] :
    /\ IsSlice(sent[e], d.offset, d.bytes)
    /\ d.offset + Len(d.bytes) <= transmitted[e]
    /\ d.acknowledged <= received[e]
    /\ HasBytes(d) => d.offset < acknowledged[e] + WINDOW_BYTES

(* A piece held in reordered. *)
PiecesAreSlices ==
  \A e \in End : \A o \in DOMAIN reordered[e] :
    /\ IsSlice(sent[Other(e)], o, reordered[e][o])
    /\ o + Len(reordered[e][o]) <= transmitted[Other(e)]
    /\ received[e] < o
    /\ o < received[e] + WINDOW_BYTES

(* What update() left untrimmed, counted from the last byte transmitted. *)
TrimKeepsUp ==
  \A e \in End : transmitted[e] - outgoing_base[e] < 2 * WINDOW_BYTES

IInv == /\ TypeOK
        /\ OffsetsOrdered
        /\ AcceptedIsPrefix
        /\ OutgoingIsTail
        /\ DatagramsAreSlices
        /\ PiecesAreSlices
        /\ TrimKeepsUp

(* Base case: both ends are new and nothing has been sent. *)
LEMMA InitInvariant == Init => IInv
<1> SUFFICES ASSUME Init PROVE IInv
  OBVIOUS
<1> USE SizeAssumption, OtherEnd
<1>1. TypeOK BY EmptySeq DEF Init, TypeOK
<1>2. OffsetsOrdered BY DEF Init, OffsetsOrdered, Lesser
<1>3. AcceptedIsPrefix BY DEF Init, AcceptedIsPrefix, IsSlice
<1>4. OutgoingIsTail BY DEF Init, OutgoingIsTail, IsTail
<1>5. DatagramsAreSlices BY DEF Init, DatagramsAreSlices
<1>6. PiecesAreSlices BY DEF Init, PiecesAreSlices
<1>7. TrimKeepsUp BY DEF Init, TrimKeepsUp
<1> QED BY <1>1, <1>2, <1>3, <1>4, <1>5, <1>6, <1>7 DEF IInv

(* The lengths of the sequences of an end are natural numbers. *)
LEMMA Lengths ==
  ASSUME TypeOK, NEW x \in End
  PROVE  /\ Len(sent[x]) \in Nat
         /\ Len(outgoing[x]) \in Nat
         /\ Len(accepted[x]) \in Nat
         /\ \A o \in DOMAIN reordered[x] : Len(reordered[x][o]) \in Nat \ {0}
BY LenProperties, EmptySeq DEF TypeOK

(* The fields of a datagram under way. *)
LEMMA DatagramType ==
  ASSUME TypeOK, NEW x \in End, NEW d \in network[x]
  PROVE  /\ d.offset \in Nat
         /\ d.acknowledged \in Nat
         /\ d.bytes \in Seq(Byte)
         /\ Len(d.bytes) \in Nat
         /\ d.bytes # <<>> => Len(d.bytes) # 0
<1>1. d \in Datagram BY DEF TypeOK
<1>2. d.bytes \in Seq(Byte) BY <1>1 DEF Datagram
<1> QED BY <1>1, <1>2, LenProperties, EmptySeq DEF Datagram

(* Appending to a stream appends the same bytes to its tail. *)
LEMMA TailGrows ==
  ASSUME NEW s \in Seq(Byte), NEW t \in Seq(Byte), NEW f \in Seq(Byte),
         NEW base \in Nat, IsTail(s, base, t)
  PROVE  IsTail(s \o f, base, t \o f)
<1>1. /\ Len(s) \in Nat /\ Len(t) \in Nat /\ Len(f) \in Nat
      /\ Len(s) = base + Len(t)
  BY LenProperties DEF IsTail
<1>2. /\ Len(s \o f) = Len(s) + Len(f)
      /\ Len(t \o f) = Len(t) + Len(f)
      /\ \A i \in 1 .. Len(s) + Len(f) :
           (s \o f)[i] = IF i <= Len(s) THEN s[i] ELSE f[i - Len(s)]
      /\ \A i \in 1 .. Len(t) + Len(f) :
           (t \o f)[i] = IF i <= Len(t) THEN t[i] ELSE f[i - Len(t)]
  BY ConcatProperties
<1>3. ASSUME NEW i \in 1 .. Len(t) + Len(f)
      PROVE  (t \o f)[i] = (s \o f)[base + i]
  <2>1. base + i \in 1 .. Len(s) + Len(f) BY <1>1
  <2>2. CASE i <= Len(t)
    BY <1>1, <1>2, <2>1, <2>2 DEF IsTail
  <2>3. CASE i > Len(t)
    <3>1. base + i - Len(s) = i - Len(t) /\ ~ (base + i <= Len(s))
      BY <1>1, <2>3
    <3>2. (s \o f)[base + i] = f[base + i - Len(s)]
      BY <1>2, <2>1, <3>1
    <3>3. (t \o f)[i] = f[i - Len(t)]
      BY <1>1, <1>2, <2>3
    <3> QED BY <3>1, <3>2, <3>3
  <2>4. i <= Len(t) \/ i > Len(t) BY <1>1
  <2> QED BY <2>2, <2>3, <2>4
<1> QED BY <1>1, <1>2, <1>3 DEF IsTail

(* send() only makes the stream longer. *)
LEMMA SendInvariant ==
  ASSUME IInv, NEW e \in End, NEW m \in Message, Send(e, m)
  PROVE  IInv'
<1> USE SizeAssumption
<1> DEFINE f == Frame(m)
<1>1. f \in Seq(Byte) BY FrameIsBytes
<1> HIDE DEF f
<1>2. /\ sent' = [sent EXCEPT ![e] = @ \o f]
      /\ outgoing' = [outgoing EXCEPT ![e] = @ \o f]
      /\ UNCHANGED <<outgoing_base, acknowledged, transmitted, received,
                     reordered, acknowledgement_due, network, accepted>>
  BY DEF Send, f
<1>3. TypeOK BY DEF IInv
<1>4. /\ sent[e] \in Seq(Byte) /\ outgoing[e] \in Seq(Byte)
      /\ \A x \in End \ {e} : /\ sent'[x] = sent[x]
                             /\ outgoing'[x] = outgoing[x]
      /\ sent'[e] = sent[e] \o f
      /\ outgoing'[e] = outgoing[e] \o f
  BY <1>2, <1>3 DEF TypeOK
<1>5. /\ sent'[e] \in Seq(Byte) /\ outgoing'[e] \in Seq(Byte)
      /\ Len(f) \in Nat
      /\ Len(sent'[e]) = Len(sent[e]) + Len(f)
      /\ Len(outgoing'[e]) = Len(outgoing[e]) + Len(f)
      /\ \A i \in 1 .. Len(sent[e]) + Len(f) :
           sent'[e][i] = IF i <= Len(sent[e]) THEN sent[e][i]
                         ELSE f[i - Len(sent[e])]
      /\ \A i \in 1 .. Len(outgoing[e]) + Len(f) :
           outgoing'[e][i] = IF i <= Len(outgoing[e]) THEN outgoing[e][i]
                             ELSE f[i - Len(outgoing[e])]
  BY <1>1, <1>4, ConcatProperties, LenProperties
<1>6. TypeOK' BY <1>2, <1>3, <1>5 DEF TypeOK
<1>7. \A x \in End : /\ Len(sent[x]) \in Nat
                    /\ Len(sent[x]) <= Len(sent'[x])
                    /\ \A i \in 1 .. Len(sent[x]) : sent'[x][i] = sent[x][i]
  <2> TAKE x \in End
  <2>1. Len(sent[x]) \in Nat BY <1>3, Lengths
  <2>2. CASE x = e BY <2>1, <2>2, <1>5
  <2>3. CASE x # e
    <3>1. sent'[x] = sent[x] BY <2>3, <1>4
    <3> QED BY <3>1, <2>1
  <2> QED BY <2>2, <2>3
<1>8. ASSUME NEW x \in End, NEW o \in Nat, NEW b \in Seq(Byte),
             IsSlice(sent[x], o, b)
      PROVE  IsSlice(sent'[x], o, b)
  <2>1. Len(b) \in Nat /\ Len(sent'[x]) \in Nat
    BY <1>6, LenProperties DEF TypeOK
  <2>2. /\ Len(sent[x]) \in Nat /\ Len(sent[x]) <= Len(sent'[x])
        /\ \A i \in 1 .. Len(sent[x]) : sent'[x][i] = sent[x][i]
    BY <1>7
  <2>3. /\ o + Len(b) <= Len(sent[x])
        /\ \A i \in 1 .. Len(b) : b[i] = sent[x][o + i]
    BY <1>8 DEF IsSlice
  <2>4. \A i \in 1 .. Len(b) : o + i \in 1 .. Len(sent[x])
    BY <2>1, <2>2, <2>3
  <2>5. \A i \in 1 .. Len(b) : b[i] = sent'[x][o + i]
    BY <2>2, <2>3, <2>4
  <2> QED BY <2>1, <2>2, <2>3, <2>5 DEF IsSlice
<1>9. OffsetsOrdered'
  <2> SUFFICES ASSUME NEW x \in End
               PROVE  transmitted[x] <= Lesser(Len(sent'[x]),
                                               acknowledged[x] + WINDOW_BYTES)
    BY <1>2 DEF IInv, OffsetsOrdered
  <2>1. /\ Len(sent[x]) \in Nat /\ Len(sent'[x]) \in Nat
        /\ Len(sent[x]) <= Len(sent'[x])
    BY <1>6, <1>7, LenProperties DEF TypeOK
  <2>2. transmitted[x] <= Lesser(Len(sent[x]), acknowledged[x] + WINDOW_BYTES)
    BY DEF IInv, OffsetsOrdered
  <2>3. transmitted[x] \in Nat /\ acknowledged[x] \in Nat BY <1>3 DEF TypeOK
  <2> QED BY <2>1, <2>2, <2>3, SizeAssumption DEF Lesser
<1>10. AcceptedIsPrefix'
  BY <1>2, <1>3, <1>8, OtherEnd DEF IInv, AcceptedIsPrefix, TypeOK
<1>11. OutgoingIsTail'
  <2>1. \A x \in End : IsTail(sent[x], outgoing_base[x], outgoing[x])
    BY DEF IInv, OutgoingIsTail
  <2>2. IsTail(sent[e] \o f, outgoing_base[e], outgoing[e] \o f)
    BY <1>1, <1>3, <1>4, <2>1, TailGrows DEF TypeOK
  <2>3. \A x \in End : IsTail(sent'[x], outgoing_base[x], outgoing'[x])
    BY <1>4, <2>1, <2>2
  <2> QED BY <1>2, <2>3 DEF OutgoingIsTail
<1>12. DatagramsAreSlices'
  <2> SUFFICES ASSUME NEW x \in End, NEW d \in network[x]
               PROVE  IsSlice(sent'[x], d.offset, d.bytes)
    BY <1>2 DEF IInv, DatagramsAreSlices
  <2>1. d.offset \in Nat /\ d.bytes \in Seq(Byte)
    BY <1>3, DatagramType
  <2>2. IsSlice(sent[x], d.offset, d.bytes)
    BY DEF IInv, DatagramsAreSlices
  <2> QED BY <1>8, <2>1, <2>2
<1>13. PiecesAreSlices'
  BY <1>2, <1>3, <1>8, OtherEnd DEF IInv, PiecesAreSlices, TypeOK
<1>14. TrimKeepsUp' BY <1>2 DEF IInv, TrimKeepsUp
<1> QED BY <1>6, <1>9, <1>10, <1>11, <1>12, <1>13, <1>14 DEF IInv
-----------------------------------------------------------------------------
(* Two adjacent slices of a stream make a slice. *)
LEMMA SliceGrows ==
  ASSUME NEW s \in Seq(Byte), NEW x \in Seq(Byte), NEW y \in Seq(Byte),
         NEW o \in Nat, IsSlice(s, o, x), IsSlice(s, o + Len(x), y)
  PROVE  /\ x \o y \in Seq(Byte)
         /\ Len(x \o y) = Len(x) + Len(y)
         /\ IsSlice(s, o, x \o y)
<1>1. /\ Len(s) \in Nat /\ Len(x) \in Nat /\ Len(y) \in Nat
  BY LenProperties
<1>2. /\ x \o y \in Seq(Byte)
      /\ Len(x \o y) = Len(x) + Len(y)
      /\ \A i \in 1 .. Len(x) + Len(y) :
           (x \o y)[i] = IF i <= Len(x) THEN x[i] ELSE y[i - Len(x)]
  BY ConcatProperties
<1>3. ASSUME NEW i \in 1 .. Len(x) + Len(y)
      PROVE  (x \o y)[i] = s[o + i]
  <2>1. CASE i <= Len(x) BY <1>1, <1>2, <2>1 DEF IsSlice
  <2>2. CASE i > Len(x)
    <3>1. i - Len(x) \in 1 .. Len(y) /\ o + Len(x) + (i - Len(x)) = o + i
      BY <1>1, <2>2
    <3> QED BY <1>1, <1>2, <2>2, <3>1 DEF IsSlice
  <2> QED BY <1>1, <2>1, <2>2
<1> QED BY <1>1, <1>2, <1>3 DEF IsSlice

(* What the drain loop appends is the stream between first and end. *)
LEMMA JoinedIsSlice ==
  ASSUME NEW held, NEW s \in Seq(Byte), DOMAIN held \subseteq Nat,
         \A o \in DOMAIN held : /\ Len(held[o]) \in Nat
                                /\ IsSlice(s, o, held[o]),
         NEW pieces, NEW first \in Nat, NEW end \in Nat,
         first <= Len(s), Tiles(held, pieces, first, end)
  PROVE  /\ Joined(held, pieces, first, end) \in Seq(Byte)
         /\ Len(Joined(held, pieces, first, end)) = end - first
         /\ IsSlice(s, first, Joined(held, pieces, first, end))
         /\ end = first \/ \E o \in DOMAIN held : end = EndOf(held, o)
<1> DEFINE J == Joined(held, pieces, first, end)
           Covers(o, i) == o < first + i /\ first + i <= EndOf(held, o)
<1>1. first <= end /\ end - first \in Nat /\ Len(s) \in Nat
  BY LenProperties DEF Tiles
<1>2. ASSUME NEW i \in 1 .. end - first
      PROVE  /\ J[i] = s[first + i]
             /\ first + i \in 1 .. Len(s)
  <2>1. first + i - 1 \in first .. end - 1 BY <1>1
  <2>2. PICK o \in pieces : o <= first + i - 1 /\ first + i - 1 < EndOf(held, o)
    BY <2>1 DEF Tiles
  <2>3. o \in Nat /\ Len(held[o]) \in Nat BY <2>2 DEF Tiles
  <2>4. Covers(o, i) BY <2>2, <2>3, <1>1 DEF EndOf
  <2> DEFINE q == CHOOSE q \in pieces : Covers(q, i)
  <2>5. q \in pieces /\ Covers(q, i) BY <2>4
  <2>6. J[i] = held[q][first + i - q] BY DEF Joined
  <2> HIDE DEF q
  <2>7. /\ q \in Nat /\ q \in DOMAIN held /\ Len(held[q]) \in Nat
        /\ IsSlice(s, q, held[q])
    BY <2>5 DEF Tiles
  <2>8. first + i - q \in 1 .. Len(held[q]) BY <2>5, <2>7, <1>1 DEF EndOf
  <2>9. held[q][first + i - q] = s[q + (first + i - q)]
    BY <2>7, <2>8 DEF IsSlice
  <2>10. q + (first + i - q) = first + i BY <2>7, <1>1
  <2>11. first + i <= Len(s) BY <2>5, <2>7, <1>1 DEF EndOf, IsSlice
  <2> QED BY <2>6, <2>9, <2>10, <2>11, <1>1
<1>3. \A i \in 1 .. end - first : J[i] \in Byte
  BY <1>2, ElementOfSeq
<1>4. J = [i \in 1 .. end - first |-> J[i]] BY DEF Joined
<1>5. J \in Seq(Byte) /\ Len(J) = end - first
  <2>1. J \in [1 .. end - first -> Byte] BY <1>3, <1>4
  <2> QED BY <1>1, <2>1, SeqDef, LenProperties
<1>6. first + (end - first) <= Len(s)
  BY <1>1, <1>2
<1>7. IsSlice(s, first, J) BY <1>2, <1>5, <1>6 DEF IsSlice
<1>8. end = first \/ \E o \in DOMAIN held : end = EndOf(held, o)
  <2> SUFFICES ASSUME end # first
               PROVE  \E o \in DOMAIN held : end = EndOf(held, o)
    OBVIOUS
  <2>1. end - 1 \in first .. end - 1 BY <1>1
  <2>2. PICK o \in pieces : o <= end - 1 /\ end - 1 < EndOf(held, o)
    BY <2>1 DEF Tiles
  <2>3. o \in DOMAIN held /\ EndOf(held, o) <= end BY DEF Tiles
  <2>4. EndOf(held, o) \in Nat BY <2>3 DEF EndOf
  <2> QED BY <2>2, <2>3, <2>4
<1> QED BY <1>5, <1>7, <1>8
-----------------------------------------------------------------------------
(* What every branch of Channel::receive does first keeps the counters in  *)
(* order, whatever becomes of the bytes.                                   *)
LEMMA AcknowledgeInOrder ==
  ASSUME IInv, NEW e \in End, NEW d \in network[Other(e)], Acknowledge(e, d)
  PROVE  /\ acknowledged' \in [End -> Nat]
         /\ \A x \in End : /\ acknowledged[x] <= acknowledged'[x]
                           /\ acknowledged'[x] <= received[Other(x)]
<1>1. /\ TypeOK /\ Other(e) \in End
      /\ d.acknowledged \in Nat /\ d.acknowledged <= received[Other(e)]
  <2>1. TypeOK /\ Other(e) \in End BY OtherEnd DEF IInv
  <2> QED BY <2>1, DatagramType DEF IInv, DatagramsAreSlices
<1>2. acknowledged \in [End -> Nat] /\ received \in [End -> Nat]
  BY <1>1 DEF TypeOK
<1>3. \A x \in End : acknowledged[x] <= received[Other(x)]
  BY DEF IInv, OffsetsOrdered
<1> QED BY <1>1, <1>2, <1>3, OtherEnd DEF Acknowledge, Greater

(* ... and so does a receiver that has moved on, within what was sent.     *)
LEMMA ReceiveInOrder ==
  ASSUME IInv, NEW e \in End, NEW d \in network[Other(e)], Acknowledge(e, d),
         UNCHANGED <<outgoing_base, transmitted, network, sent>>,
         \A x \in End : /\ received'[x] \in Nat
                        /\ received[x] <= received'[x]
                        /\ received'[x] <= transmitted[Other(x)]
  PROVE  OffsetsOrdered' /\ DatagramsAreSlices'
<1> USE SizeAssumption
<1>1. TypeOK BY DEF IInv
<1>2. /\ acknowledged' \in [End -> Nat]
      /\ \A x \in End : /\ acknowledged[x] <= acknowledged'[x]
                        /\ acknowledged'[x] <= received[Other(x)]
  BY AcknowledgeInOrder
<1>3. \A x \in End : /\ acknowledged[x] \in Nat /\ received[x] \in Nat
                    /\ transmitted[x] \in Nat /\ outgoing_base[x] \in Nat
                    /\ acknowledged'[x] \in Nat
  BY <1>1, <1>2 DEF TypeOK
<1>4. ASSUME NEW x \in End
      PROVE  /\ outgoing_base[x] <= acknowledged'[x]
             /\ acknowledged'[x] <= received'[Other(x)]
             /\ received'[Other(x)] <= transmitted[x]
             /\ transmitted[x] <= Lesser(Len(sent[x]),
                                         acknowledged'[x] + WINDOW_BYTES)
  <2>1. Other(x) \in End /\ Other(Other(x)) = x BY OtherEnd
  <2>2. /\ outgoing_base[x] <= acknowledged[x]
        /\ transmitted[x] <= Lesser(Len(sent[x]),
                                    acknowledged[x] + WINDOW_BYTES)
    BY DEF IInv, OffsetsOrdered
  <2>3. Len(sent[x]) \in Nat BY <1>1, Lengths
  <2>4. acknowledged[x] <= acknowledged'[x]
        /\ acknowledged'[x] <= received[Other(x)]
    BY <1>2
  <2>5. received'[Other(x)] \in Nat /\ received[Other(x)] <= received'[Other(x)]
        /\ received'[Other(x)] <= transmitted[x]
    BY <2>1
  <2>6. acknowledged'[x] <= received'[Other(x)]
    BY <2>1, <2>4, <2>5, <1>3
  <2>7. outgoing_base[x] <= acknowledged'[x]
    BY <2>2, <2>4, <1>3
  <2>8. transmitted[x] <= Lesser(Len(sent[x]), acknowledged'[x] + WINDOW_BYTES)
    <3>1. /\ transmitted[x] \in Nat /\ acknowledged[x] \in Nat
          /\ acknowledged'[x] \in Nat
      BY <1>3
    <3> DEFINE t == transmitted[x]
               l == Len(sent[x])
               a == acknowledged[x]
               b == acknowledged'[x]
    <3>2. /\ t \in Nat /\ l \in Nat /\ a \in Nat /\ b \in Nat /\ a <= b
          /\ t <= Lesser(l, a + WINDOW_BYTES)
      BY <3>1, <2>2, <2>3, <2>4
    <3> HIDE DEF t, l, a, b
    <3>3. t <= Lesser(l, b + WINDOW_BYTES)
      BY <3>2 DEF Lesser
    <3> QED BY <3>3 DEF t, l, b
  <2> QED BY <2>5, <2>6, <2>7, <2>8
<1>5. OffsetsOrdered' BY <1>4 DEF OffsetsOrdered
<1>6. ASSUME NEW x \in End, NEW p \in network[x]
      PROVE  /\ IsSlice(sent[x], p.offset, p.bytes)
             /\ p.offset + Len(p.bytes) <= transmitted[x]
             /\ p.acknowledged <= received'[x]
             /\ HasBytes(p) => p.offset < acknowledged'[x] + WINDOW_BYTES
  <2>1. /\ IsSlice(sent[x], p.offset, p.bytes)
        /\ p.offset + Len(p.bytes) <= transmitted[x]
        /\ p.acknowledged <= received[x]
        /\ HasBytes(p) => p.offset < acknowledged[x] + WINDOW_BYTES
    BY DEF IInv, DatagramsAreSlices
  <2>2. p.offset \in Nat /\ p.acknowledged \in Nat BY <1>1, DatagramType
  <2>3. p.acknowledged <= received'[x] BY <2>1, <2>2, <1>3
  <2>4. HasBytes(p) => p.offset < acknowledged'[x] + WINDOW_BYTES
    BY <2>1, <2>2, <1>2, <1>3
  <2> QED BY <2>1, <2>3, <2>4
<1>7. DatagramsAreSlices' BY <1>6 DEF DatagramsAreSlices, HasBytes
<1> QED BY <1>5, <1>7

(* The same when no counter of the receiver moves. *)
LEMMA ReceiveNoMore ==
  ASSUME IInv, NEW e \in End, NEW d \in network[Other(e)], Acknowledge(e, d),
         UNCHANGED <<outgoing_base, transmitted, received, network, sent>>
  PROVE  OffsetsOrdered' /\ DatagramsAreSlices'
<1>1. ASSUME NEW x \in End
      PROVE  /\ received'[x] \in Nat
             /\ received[x] <= received'[x]
             /\ received'[x] <= transmitted[Other(x)]
  <2>1. Other(x) \in End /\ Other(Other(x)) = x BY OtherEnd
  <2>2. received[Other(Other(x))] <= transmitted[Other(x)]
    BY <2>1 DEF IInv, OffsetsOrdered
  <2>3. received[x] \in Nat BY DEF IInv, TypeOK
  <2> QED BY <2>1, <2>2, <2>3
<1> QED BY <1>1, ReceiveInOrder

(* receive() of a datagram without bytes, or with bytes that are dropped. *)
LEMMA ReceiveNothingInvariant ==
  ASSUME IInv, NEW e \in End, NEW d \in network[Other(e)],
         ReceiveNothing(e, d)
  PROVE  IInv'
<1> USE SizeAssumption
<1>1. UNCHANGED <<outgoing, outgoing_base, transmitted, received, reordered,
                  network, sent, accepted>>
  BY DEF ReceiveNothing, senderVars, receiverVars, historyVars
<1>2. /\ acknowledged' \in [End -> Nat]
      /\ \A x \in End : /\ acknowledged[x] <= acknowledged'[x]
                        /\ acknowledged'[x] <= received[Other(x)]
  BY AcknowledgeInOrder DEF ReceiveNothing
<1>3. TypeOK BY DEF IInv
<1>4. TypeOK'
  <2>1. acknowledgement_due' \in [End -> BOOLEAN]
    BY <1>3 DEF ReceiveNothing, TypeOK, HasBytes
  <2> QED BY <1>1, <1>2, <1>3, <2>1 DEF TypeOK
<1>5. OffsetsOrdered' BY <1>1, ReceiveNoMore DEF ReceiveNothing
<1>6. AcceptedIsPrefix' BY <1>1 DEF IInv, AcceptedIsPrefix
<1>7. OutgoingIsTail' BY <1>1 DEF IInv, OutgoingIsTail
<1>8. DatagramsAreSlices' BY <1>1, ReceiveNoMore DEF ReceiveNothing
<1>9. PiecesAreSlices' BY <1>1 DEF IInv, PiecesAreSlices
<1>10. TrimKeepsUp' BY <1>1 DEF IInv, TrimKeepsUp
<1> QED BY <1>4, <1>5, <1>6, <1>7, <1>8, <1>9, <1>10 DEF IInv

(* receive() of a datagram that is held for later. *)
LEMMA ReceiveEarlyInvariant ==
  ASSUME IInv, NEW e \in End, NEW d \in network[Other(e)], ReceiveEarly(e, d)
  PROVE  IInv'
<1> USE SizeAssumption
<1>1. UNCHANGED <<outgoing, outgoing_base, transmitted, received, network,
                  sent, accepted>>
  BY DEF ReceiveEarly, senderVars, historyVars
<1>2. /\ acknowledged' \in [End -> Nat]
      /\ \A x \in End : /\ acknowledged[x] <= acknowledged'[x]
                        /\ acknowledged'[x] <= received[Other(x)]
  BY AcknowledgeInOrder DEF ReceiveEarly
<1>3. TypeOK BY DEF IInv
<1>4. /\ d.offset \in Nat /\ d.bytes \in Seq(Byte) /\ d.bytes # <<>>
      /\ received[e] < d.offset /\ d.offset < received[e] + WINDOW_BYTES
      /\ received[e] \in Nat
  <2>1. d.offset \in Nat /\ d.bytes \in Seq(Byte) BY <1>3, OtherEnd, DatagramType
  <2>2. received[e] \in Nat BY <1>3 DEF TypeOK
  <2> QED BY <2>1, <2>2 DEF ReceiveEarly, Stale, HasBytes, IsNext
<1>5. /\ IsSlice(sent[Other(e)], d.offset, d.bytes)
      /\ d.offset + Len(d.bytes) <= transmitted[Other(e)]
  BY OtherEnd DEF IInv, DatagramsAreSlices
<1>6. /\ DOMAIN reordered' = End
      /\ \A x \in End \ {e} : reordered'[x] = reordered[x]
      /\ DOMAIN reordered'[e] = DOMAIN reordered[e] \cup {d.offset}
      /\ \A o \in DOMAIN reordered'[e] :
           \/ o \in DOMAIN reordered[e] /\ reordered'[e][o] = reordered[e][o]
           \/ o = d.offset /\ reordered'[e][o] = d.bytes
  BY <1>3 DEF ReceiveEarly, TypeOK
<1>7. TypeOK'
  <2>1. acknowledgement_due' \in [End -> BOOLEAN]
    BY <1>3 DEF ReceiveEarly, TypeOK
  <2>2. ASSUME NEW x \in End
        PROVE  /\ DOMAIN reordered'[x] \subseteq Nat
               /\ \A o \in DOMAIN reordered'[x] :
                    reordered'[x][o] \in Seq(Byte) /\ reordered'[x][o] # <<>>
    <3>1. CASE x = e
      <4>1. /\ DOMAIN reordered[e] \subseteq Nat
            /\ \A o \in DOMAIN reordered[e] :
                 reordered[e][o] \in Seq(Byte) /\ reordered[e][o] # <<>>
        BY <1>3 DEF TypeOK
      <4> QED BY <1>4, <1>6, <3>1, <4>1
    <3>2. CASE x # e
      <4>1. reordered'[x] = reordered[x] BY <3>2, <1>6
      <4> QED BY <4>1, <1>3 DEF TypeOK
    <3> QED BY <3>1, <3>2
  <2> QED BY <1>1, <1>2, <1>3, <1>6, <2>1, <2>2 DEF TypeOK
<1>8. OffsetsOrdered' BY <1>1, ReceiveNoMore DEF ReceiveEarly
<1>9. AcceptedIsPrefix' BY <1>1 DEF IInv, AcceptedIsPrefix
<1>10. OutgoingIsTail' BY <1>1 DEF IInv, OutgoingIsTail
<1>11. DatagramsAreSlices' BY <1>1, ReceiveNoMore DEF ReceiveEarly
<1>12. PiecesAreSlices'
  <2> SUFFICES ASSUME NEW x \in End, NEW o \in DOMAIN reordered'[x]
               PROVE  /\ IsSlice(sent[Other(x)], o, reordered'[x][o])
                      /\ o + Len(reordered'[x][o]) <= transmitted[Other(x)]
                      /\ received[x] < o
                      /\ o < received[x] + WINDOW_BYTES
    BY <1>1 DEF PiecesAreSlices
  <2>1. CASE x = e
    BY <1>4, <1>5, <1>6, <2>1 DEF IInv, PiecesAreSlices
  <2>2. CASE x # e
    <3>1. reordered'[x] = reordered[x] BY <2>2, <1>6
    <3> QED BY <3>1 DEF IInv, PiecesAreSlices
  <2> QED BY <2>1, <2>2
<1>13. TrimKeepsUp' BY <1>1 DEF IInv, TrimKeepsUp
<1> QED BY <1>7, <1>8, <1>9, <1>10, <1>11, <1>12, <1>13 DEF IInv

(* What receive() appends for the next bytes, with all that was held for   *)
(* them, is the stream from received on.                                   *)
LEMMA ReceivedBytes ==
  ASSUME IInv, NEW e \in End, NEW d \in network[Other(e)], ReceiveNext(e, d)
  PROVE  \E end \in Nat, arrived \in Seq(Byte) :
           /\ received[e] < end /\ end <= transmitted[Other(e)]
           /\ end \notin DOMAIN reordered[e]
           /\ Len(arrived) = end - received[e]
           /\ IsSlice(sent[Other(e)], received[e], arrived)
           /\ received' = [received EXCEPT ![e] = end]
           /\ reordered' = [reordered EXCEPT
                ![e] = [o \in StillHeld(@, end) |-> @[o]]]
           /\ accepted' = [accepted EXCEPT ![e] = @ \o arrived]
           /\ incoming' = [incoming EXCEPT
                ![e] = Unassembled(@ \o arrived)]
           /\ messages' = [messages EXCEPT
                ![e] = @ \o Assembled(incoming[e] \o arrived)]
<1> USE SizeAssumption
<1> DEFINE held == reordered[e]
           peer == sent[Other(e)]
           first == received[e] + Len(d.bytes)
           J(pieces, end) == Joined(held, pieces, first, end)
<1>1. TypeOK /\ Other(e) \in End BY OtherEnd DEF IInv
<1>2. /\ d.bytes \in Seq(Byte) /\ Len(d.bytes) \in Nat /\ Len(d.bytes) # 0
      /\ d.offset = received[e] /\ received[e] \in Nat
  <2>1. /\ d.bytes \in Seq(Byte) /\ Len(d.bytes) \in Nat
        /\ d.bytes # <<>> => Len(d.bytes) # 0
    BY <1>1, DatagramType
  <2>2. received[e] \in Nat BY <1>1 DEF TypeOK
  <2> QED BY <2>1, <2>2 DEF ReceiveNext, HasBytes, IsNext
<1>3. /\ IsSlice(peer, received[e], d.bytes)
      /\ first <= transmitted[Other(e)]
  BY <1>1, <1>2 DEF IInv, DatagramsAreSlices
<1>4. /\ peer \in Seq(Byte) /\ Len(peer) \in Nat
      /\ transmitted[Other(e)] \in Nat /\ transmitted[Other(e)] <= Len(peer)
  <2>1. transmitted[Other(e)] \in Nat /\ acknowledged[Other(e)] \in Nat
    BY <1>1 DEF TypeOK
  <2>2. peer \in Seq(Byte) /\ Len(peer) \in Nat
    BY <1>1, Lengths DEF TypeOK
  <2>3. transmitted[Other(e)] <= Lesser(Len(peer),
                                 acknowledged[Other(e)] + WINDOW_BYTES)
    BY <1>1 DEF IInv, OffsetsOrdered
  <2> QED BY <2>1, <2>2, <2>3 DEF Lesser
<1>5. /\ DOMAIN held \subseteq Nat
      /\ \A o \in DOMAIN held :
           /\ Len(held[o]) \in Nat
           /\ IsSlice(peer, o, held[o])
           /\ EndOf(held, o) <= transmitted[Other(e)]
  BY <1>1, Lengths DEF IInv, PiecesAreSlices, TypeOK, EndOf
<1>6. PICK pieces \in SUBSET DOMAIN held, end \in Ends(held, first) :
        /\ Tiles(held, pieces, first, end)
        /\ received' = [received EXCEPT ![e] = end]
        /\ reordered' = [reordered EXCEPT ![e] =
                           [o \in StillHeld(held, end) |-> held[o]]]
        /\ accepted' = [accepted EXCEPT ![e] = @ \o (d.bytes \o J(pieces, end))]
        /\ incoming' = [incoming EXCEPT
             ![e] = Unassembled(@ \o (d.bytes \o J(pieces, end)))]
        /\ messages' = [messages EXCEPT
             ![e] = @ \o Assembled(incoming[e] \o (d.bytes \o J(pieces, end)))]
  BY DEF ReceiveNext
<1>7. first \in Nat /\ first <= Len(peer) BY <1>2, <1>3, <1>4
<1>8. end \in Nat
  <2>1. CASE end = first BY <1>7, <2>1
  <2>2. CASE end # first
    <3>1. PICK o \in DOMAIN held : end = EndOf(held, o) BY <2>2 DEF Ends
    <3> QED BY <3>1, <1>5 DEF EndOf
  <2> QED BY <2>1, <2>2
<1>9. /\ J(pieces, end) \in Seq(Byte)
      /\ Len(J(pieces, end)) = end - first
      /\ IsSlice(peer, first, J(pieces, end))
      /\ end = first \/ \E o \in DOMAIN held : end = EndOf(held, o)
  <2>1. \A o \in DOMAIN held : /\ Len(held[o]) \in Nat
                              /\ IsSlice(peer, o, held[o])
    BY <1>5
  <2>2. Tiles(held, pieces, first, end) BY <1>6
  <2> HIDE DEF held, peer, first
  <2> QED BY <1>4, <1>5, <1>7, <1>8, <2>1, <2>2, JoinedIsSlice
<1>10. /\ first <= end /\ end <= transmitted[Other(e)] /\ received[e] < end
       /\ end \notin DOMAIN held
  <2>1. first <= end /\ end \notin DOMAIN held BY <1>6 DEF Tiles
  <2>2. end <= transmitted[Other(e)] BY <1>3, <1>5, <1>9
  <2>3. received[e] < end BY <1>2, <1>8, <2>1
  <2> QED BY <2>1, <2>2, <2>3
<1> HIDE DEF J
<1> DEFINE arrived == d.bytes \o J(pieces, end)
<1>11. /\ arrived \in Seq(Byte)
       /\ Len(arrived) = end - received[e]
       /\ IsSlice(peer, received[e], arrived)
  <2>1. /\ arrived \in Seq(Byte)
        /\ Len(arrived) = Len(d.bytes) + Len(J(pieces, end))
        /\ IsSlice(peer, received[e], arrived)
    <3> HIDE DEF peer
    <3> QED BY <1>2, <1>3, <1>4, <1>9, SliceGrows
  <2> QED BY <2>1, <1>2, <1>8, <1>9
<1> HIDE DEF arrived
<1>12. /\ received' = [received EXCEPT ![e] = end]
       /\ reordered' = [reordered EXCEPT
            ![e] = [o \in StillHeld(@, end) |-> @[o]]]
       /\ accepted' = [accepted EXCEPT ![e] = @ \o arrived]
       /\ incoming' = [incoming EXCEPT ![e] = Unassembled(@ \o arrived)]
       /\ messages' = [messages EXCEPT
            ![e] = @ \o Assembled(incoming[e] \o arrived)]
  BY <1>6 DEF arrived
<1> QED BY <1>8, <1>10, <1>11, <1>12

(* receive() of the next bytes keeps the invariant. *)
LEMMA ReceiveNextInvariant ==
  ASSUME IInv, NEW e \in End, NEW d \in network[Other(e)], ReceiveNext(e, d)
  PROVE  IInv'
<1> USE SizeAssumption
<1> DEFINE held == reordered[e]
           peer == sent[Other(e)]
<1>1. UNCHANGED <<outgoing, outgoing_base, transmitted, network, sent>>
  BY DEF ReceiveNext, senderVars
<1>2. TypeOK /\ Other(e) \in End BY OtherEnd DEF IInv
<1>3. /\ received[e] \in Nat /\ peer \in Seq(Byte)
      /\ DOMAIN held \subseteq Nat
  BY <1>2 DEF TypeOK
<1>4. PICK end \in Nat, arrived \in Seq(Byte) :
        /\ received[e] < end /\ end <= transmitted[Other(e)]
        /\ end \notin DOMAIN held
        /\ Len(arrived) = end - received[e]
        /\ IsSlice(peer, received[e], arrived)
        /\ received' = [received EXCEPT ![e] = end]
        /\ reordered' = [reordered EXCEPT
             ![e] = [o \in StillHeld(@, end) |-> @[o]]]
        /\ accepted' = [accepted EXCEPT ![e] = @ \o arrived]
        /\ incoming' = [incoming EXCEPT ![e] = Unassembled(@ \o arrived)]
        /\ messages' = [messages EXCEPT
             ![e] = @ \o Assembled(incoming[e] \o arrived)]
  BY ReceivedBytes
<1>5. /\ accepted[e] \in Seq(Byte) /\ Len(accepted[e]) = received[e]
      /\ IsSlice(peer, 0, accepted[e])
  BY <1>2 DEF IInv, AcceptedIsPrefix, TypeOK
<1>6. /\ accepted[e] \o arrived \in Seq(Byte)
      /\ Len(accepted[e] \o arrived) = end
      /\ IsSlice(peer, 0, accepted[e] \o arrived)
  <2>1. 0 + Len(accepted[e]) = received[e] BY <1>5, <1>3
  <2>2. /\ accepted[e] \o arrived \in Seq(Byte)
        /\ Len(accepted[e] \o arrived) = Len(accepted[e]) + Len(arrived)
        /\ IsSlice(peer, 0, accepted[e] \o arrived)
    <3> HIDE DEF peer
    <3> QED BY <2>1, <1>3, <1>4, <1>5, SliceGrows
  <2> QED BY <2>2, <1>3, <1>4, <1>5
<1>7. /\ \A x \in End \ {e} : /\ received'[x] = received[x]
                              /\ reordered'[x] = reordered[x]
                              /\ accepted'[x] = accepted[x]
      /\ received'[e] = end
      /\ accepted'[e] = accepted[e] \o arrived
      /\ DOMAIN reordered'[e] = StillHeld(held, end)
      /\ \A o \in StillHeld(held, end) : reordered'[e][o] = held[o]
      /\ DOMAIN reordered' = End
      /\ received' \in [End -> Nat]
  BY <1>2, <1>4 DEF TypeOK
<1>8. ASSUME NEW x \in End
      PROVE  /\ received'[x] \in Nat
             /\ received[x] <= received'[x]
             /\ received'[x] <= transmitted[Other(x)]
  <2>1. CASE x = e BY <2>1, <1>3, <1>4, <1>7
  <2>2. CASE x # e
    <3>1. Other(x) \in End /\ Other(Other(x)) = x BY OtherEnd
    <3>2. received[Other(Other(x))] <= transmitted[Other(x)]
      BY <3>1 DEF IInv, OffsetsOrdered
    <3>3. received'[x] = received[x] /\ received[x] \in Nat
      BY <2>2, <1>2, <1>7 DEF TypeOK
    <3> QED BY <3>1, <3>2, <3>3
  <2> QED BY <2>1, <2>2
<1>9. OffsetsOrdered' /\ DatagramsAreSlices'
  BY <1>1, <1>8, ReceiveInOrder DEF ReceiveNext
<1>10. TypeOK'
  <2>1. acknowledgement_due' \in [End -> BOOLEAN]
    BY <1>2 DEF ReceiveNext, TypeOK
  <2>2. ASSUME NEW x \in End
        PROVE  /\ DOMAIN reordered'[x] \subseteq Nat
               /\ \A o \in DOMAIN reordered'[x] :
                    reordered'[x][o] \in Seq(Byte) /\ reordered'[x][o] # <<>>
    <3>1. CASE x = e BY <1>2, <1>7, <3>1 DEF TypeOK, StillHeld
    <3>2. CASE x # e
      <4>1. reordered'[x] = reordered[x] BY <3>2, <1>7
      <4> QED BY <4>1, <1>2 DEF TypeOK
    <3> QED BY <3>1, <3>2
  <2>3. accepted' \in [End -> Seq(Byte)]
    BY <1>2, <1>4, <1>6 DEF TypeOK
  <2>4. acknowledged' \in [End -> Nat]
    BY AcknowledgeInOrder DEF ReceiveNext
  <2> QED BY <1>1, <1>2, <1>7, <2>1, <2>2, <2>3, <2>4 DEF TypeOK
<1>11. AcceptedIsPrefix'
  <2> SUFFICES ASSUME NEW x \in End
               PROVE  /\ received'[x] = Len(accepted'[x])
                      /\ IsSlice(sent[Other(x)], 0, accepted'[x])
    BY <1>1 DEF AcceptedIsPrefix
  <2>1. CASE x = e BY <2>1, <1>6, <1>7
  <2>2. CASE x # e
    <3>1. received'[x] = received[x] /\ accepted'[x] = accepted[x]
      BY <2>2, <1>7
    <3> QED BY <3>1 DEF IInv, AcceptedIsPrefix
  <2> QED BY <2>1, <2>2
<1>12. OutgoingIsTail' BY <1>1 DEF IInv, OutgoingIsTail
<1>13. PiecesAreSlices'
  <2> SUFFICES ASSUME NEW x \in End, NEW o \in DOMAIN reordered'[x]
               PROVE  /\ IsSlice(sent[Other(x)], o, reordered'[x][o])
                      /\ o + Len(reordered'[x][o]) <= transmitted[Other(x)]
                      /\ received'[x] < o
                      /\ o < received'[x] + WINDOW_BYTES
    BY <1>1 DEF PiecesAreSlices
  <2>1. CASE x = e
    <3>1. /\ o \in DOMAIN held /\ o >= end /\ reordered'[x][o] = held[o]
      BY <2>1, <1>7 DEF StillHeld
    <3>2. /\ IsSlice(peer, o, held[o])
          /\ o + Len(held[o]) <= transmitted[Other(e)]
          /\ o < received[e] + WINDOW_BYTES
      BY <3>1 DEF IInv, PiecesAreSlices
    <3>3. o \in Nat /\ end # o BY <3>1, <1>3, <1>4
    <3>4. received[e] \in Nat /\ received'[e] = end /\ received[e] < end
      BY <1>3, <1>4, <1>7
    <3>5. end < o /\ o < end + WINDOW_BYTES
      BY <3>1, <3>2, <3>3, <3>4
    <3> HIDE DEF held
    <3> QED BY <2>1, <3>1, <3>2, <3>4, <3>5
  <2>2. CASE x # e
    <3>1. reordered'[x] = reordered[x] /\ received'[x] = received[x]
      BY <2>2, <1>7
    <3> QED BY <3>1 DEF IInv, PiecesAreSlices
  <2> QED BY <2>1, <2>2
<1>14. TrimKeepsUp' BY <1>1 DEF IInv, TrimKeepsUp
<1> QED BY <1>9, <1>10, <1>11, <1>12, <1>13, <1>14 DEF IInv
-----------------------------------------------------------------------------
(* Cutting a piece out of outgoing. *)
LEMMA SliceOfTail ==
  ASSUME NEW s \in Seq(Byte), NEW t \in Seq(Byte), NEW base \in Nat,
         IsTail(s, base, t), NEW x \in Nat, NEW y \in Nat,
         base <= x, x <= y, y <= Len(s)
  PROVE  LET piece == SubSeq(t, x - base + 1, y - base)
         IN  /\ piece \in Seq(Byte)
             /\ Len(piece) = y - x
             /\ IsSlice(s, x, piece)
<1> DEFINE piece == SubSeq(t, x - base + 1, y - base)
<1>1. Len(s) \in Nat /\ Len(t) \in Nat /\ Len(s) = base + Len(t)
  BY LenProperties DEF IsTail
<1>2. \A i \in x - base + 1 .. y - base : i \in 1 .. Len(t)
  BY <1>1
<1>3. \A i \in x - base + 1 .. y - base : t[i] \in Byte
  BY <1>2, ElementOfSeq
<1>4. /\ piece \in Seq(Byte)
      /\ Len(piece) = IF x - base + 1 <= y - base
                      THEN (y - base) - (x - base + 1) + 1 ELSE 0
      /\ \A i \in 1 .. (y - base) - (x - base + 1) + 1 :
           piece[i] = t[x - base + 1 + i - 1]
  <2> DEFINE first == x - base + 1
             last == y - base
  <2>1. first \in Int /\ last \in Int OBVIOUS
  <2>2. \A i \in first .. last : t[i] \in Byte BY <1>3
  <2> HIDE DEF first, last
  <2>3. /\ SubSeq(t, first, last) \in Seq(Byte)
        /\ Len(SubSeq(t, first, last)) = IF first <= last
                                         THEN last - first + 1 ELSE 0
        /\ \A i \in 1 .. last - first + 1 :
             SubSeq(t, first, last)[i] = t[first + i - 1]
    BY <2>1, <2>2, SubSeqProperties
  <2> QED BY <2>3 DEF first, last
<1> HIDE DEF piece
<1>5. Len(piece) = y - x BY <1>4
<1>6. ASSUME NEW i \in 1 .. y - x
      PROVE  piece[i] = s[x + i]
  <2>1. i \in 1 .. (y - base) - (x - base + 1) + 1 OBVIOUS
  <2>2. piece[i] = t[x - base + 1 + i - 1] BY <1>4, <2>1
  <2>3. /\ x - base + 1 + i - 1 = x - base + i
        /\ x - base + i \in 1 .. Len(t)
        /\ base + (x - base + i) = x + i
    BY <1>1
  <2>4. t[x - base + i] = s[base + (x - base + i)] BY <2>3 DEF IsTail
  <2> QED BY <2>2, <2>3, <2>4
<1>7. IsSlice(s, x, piece) BY <1>1, <1>5, <1>6 DEF IsSlice
<1> QED BY <1>4, <1>5, <1>7 DEF piece

(* update(): slices of the stream are sent, acknowledged bytes trimmed. *)
LEMMA UpdateInvariant ==
  ASSUME IInv, NEW e \in End, NEW retry \in BOOLEAN, NEW heartbeat \in BOOLEAN,
         Update(e, retry, heartbeat)
  PROVE  IInv'
<1> USE SizeAssumption
<1> DEFINE base == outgoing_base[e]
           ack == acknowledged[e]
           from == From(e, retry)
           limit == Limit(e)
           reached == Reached(e, from, limit)
           trim == Trimmed(e)
           data == DataPackets(e, from, limit)
           announced == Announcements(e, heartbeat, from, limit, reached)
<1>1. TypeOK BY DEF IInv
<1>2. /\ network' = [network EXCEPT ![e] = @ \cup data \cup announced]
      /\ transmitted' = [transmitted EXCEPT ![e] = reached]
      /\ acknowledgement_due' = [acknowledgement_due EXCEPT ![e] = FALSE]
      /\ outgoing' = [outgoing EXCEPT ![e] = Slice(e, trim, StreamEnd(e))]
      /\ outgoing_base' = [outgoing_base EXCEPT ![e] = trim]
      /\ UNCHANGED <<acknowledged, received, reordered, sent, accepted>>
  BY DEF Update, receiverVars, historyVars
<1>3. /\ base \in Nat /\ ack \in Nat /\ transmitted[e] \in Nat
      /\ received[e] \in Nat /\ Len(sent[e]) \in Nat
      /\ outgoing[e] \in Seq(Byte) /\ sent[e] \in Seq(Byte)
  BY <1>1, Lengths DEF TypeOK
<1>4. IsTail(sent[e], base, outgoing[e]) BY DEF IInv, OutgoingIsTail
<1>5. StreamEnd(e) = Len(sent[e]) BY <1>4 DEF StreamEnd, IsTail
<1>6. base <= ack /\ ack <= transmitted[e]
  <2>1. Other(e) \in End /\ received[Other(e)] \in Nat
    BY <1>1, OtherEnd DEF TypeOK
  <2>2. /\ base <= ack /\ ack <= received[Other(e)]
        /\ received[Other(e)] <= transmitted[e]
    BY DEF IInv, OffsetsOrdered
  <2> QED BY <1>3, <2>1, <2>2
<1>7. /\ limit \in Nat /\ transmitted[e] <= limit
      /\ limit <= Len(sent[e]) /\ limit <= ack + WINDOW_BYTES
  <2>1. transmitted[e] <= Lesser(Len(sent[e]), ack + WINDOW_BYTES)
    BY DEF IInv, OffsetsOrdered
  <2> QED BY <1>3, <1>5, <2>1 DEF Limit, Lesser
<1>8. from \in Nat /\ ack <= from /\ from <= transmitted[e]
  BY <1>3, <1>6 DEF From
<1>9. /\ reached \in Nat /\ transmitted[e] <= reached /\ reached <= limit
      /\ from < limit => reached = limit
  BY <1>3, <1>7, <1>8 DEF Reached, Greater
<1>10. /\ trim \in Nat /\ base <= trim /\ trim <= ack
       /\ ack - trim < WINDOW_BYTES
  BY <1>3, <1>6 DEF Trimmed, TrimDue
<1>11. /\ Slice(e, trim, StreamEnd(e)) \in Seq(Byte)
       /\ Len(Slice(e, trim, StreamEnd(e))) = Len(sent[e]) - trim
       /\ IsSlice(sent[e], trim, Slice(e, trim, StreamEnd(e)))
  <2>1. trim <= Len(sent[e]) BY <1>3, <1>6, <1>7, <1>10
  <2> DEFINE n == Len(sent[e])
  <2>2. n \in Nat /\ n <= Len(sent[e]) BY <1>3
  <2> HIDE DEF trim, n
  <2>3. /\ Slice(e, trim, n) \in Seq(Byte)
        /\ Len(Slice(e, trim, n)) = n - trim
        /\ IsSlice(sent[e], trim, Slice(e, trim, n))
    BY <1>3, <1>4, <1>10, <2>1, <2>2, SliceOfTail DEF Slice, n
  <2> QED BY <1>5, <2>3 DEF n
<1> HIDE DEF trim, from, limit, reached
<1>12. ASSUME NEW p \in data
       PROVE  /\ p \in Datagram
              /\ IsSlice(sent[e], p.offset, p.bytes)
              /\ p.offset + Len(p.bytes) <= reached
              /\ p.acknowledged = received[e]
              /\ p.offset < ack + WINDOW_BYTES
  <2>1. PICK o \in from .. limit - 1 :
          p = [offset |-> o, acknowledged |-> received[e],
               bytes |-> Slice(e, o, Lesser(o + PACKET_BYTES, limit))]
    BY DEF DataPackets
  <2> DEFINE to == Lesser(o + PACKET_BYTES, limit)
  <2>2. /\ o \in Nat /\ to \in Nat /\ base <= o /\ o <= to
        /\ to <= limit /\ to <= Len(sent[e])
    BY <1>3, <1>6, <1>7, <1>8 DEF Lesser
  <2> HIDE DEF to
  <2>3. /\ Slice(e, o, to) \in Seq(Byte)
        /\ Len(Slice(e, o, to)) = to - o
        /\ IsSlice(sent[e], o, Slice(e, o, to))
    BY <1>3, <1>4, <2>2, SliceOfTail DEF Slice
  <2>4. p.offset = o /\ p.bytes = Slice(e, o, to) /\ p.acknowledged = received[e]
    BY <2>1 DEF to
  <2>5. p \in Datagram BY <1>3, <2>1, <2>2, <2>3 DEF Datagram, to
  <2>6. o + (to - o) <= reached /\ o < ack + WINDOW_BYTES
    BY <1>3, <1>7, <1>8, <1>9, <2>2
  <2> QED BY <2>3, <2>4, <2>5, <2>6
<1>13. ASSUME NEW p \in announced
       PROVE  /\ p \in Datagram
              /\ IsSlice(sent[e], p.offset, p.bytes)
              /\ p.offset + Len(p.bytes) <= reached
              /\ p.acknowledged = received[e]
              /\ ~ HasBytes(p)
  <2>1. p = [offset |-> reached, acknowledged |-> received[e], bytes |-> <<>>]
    BY DEF Announcements
  <2>2. reached <= Len(sent[e]) BY <1>3, <1>7, <1>9
  <2>3. /\ p.offset = reached /\ p.bytes = <<>>
        /\ p.acknowledged = received[e]
    BY <2>1
  <2>4. p \in Datagram BY <1>3, <1>9, <2>1, EmptySeq DEF Datagram
  <2> QED BY <1>3, <1>9, <2>2, <2>3, <2>4, EmptySeq DEF IsSlice, HasBytes
<1> HIDE DEF data, announced
<1>14. /\ \A x \in End \ {e} : /\ network'[x] = network[x]
                             /\ transmitted'[x] = transmitted[x]
                             /\ outgoing'[x] = outgoing[x]
                             /\ outgoing_base'[x] = outgoing_base[x]
       /\ network'[e] = network[e] \cup data \cup announced
       /\ transmitted'[e] = reached
       /\ outgoing'[e] = Slice(e, trim, StreamEnd(e))
       /\ outgoing_base'[e] = trim
  BY <1>1, <1>2 DEF TypeOK
<1>15. TypeOK'
  <2>1. network' \in [End -> SUBSET Datagram]
    BY <1>1, <1>2, <1>12, <1>13 DEF TypeOK
  <2>2. /\ transmitted' \in [End -> Nat] /\ outgoing_base' \in [End -> Nat]
        /\ acknowledgement_due' \in [End -> BOOLEAN]
    BY <1>1, <1>2, <1>9, <1>10 DEF TypeOK
  <2>3. outgoing' \in [End -> Seq(Byte)] BY <1>1, <1>2, <1>11 DEF TypeOK
  <2> QED BY <1>1, <1>2, <2>1, <2>2, <2>3 DEF TypeOK
<1>16. OffsetsOrdered'
  <2> SUFFICES ASSUME NEW x \in End
               PROVE  /\ outgoing_base'[x] <= acknowledged[x]
                      /\ acknowledged[x] <= received[Other(x)]
                      /\ received[Other(x)] <= transmitted'[x]
                      /\ transmitted'[x] <= Lesser(Len(sent[x]),
                                              acknowledged[x] + WINDOW_BYTES)
    BY <1>2 DEF OffsetsOrdered
  <2>1. /\ outgoing_base[x] <= acknowledged[x]
        /\ acknowledged[x] <= received[Other(x)]
        /\ received[Other(x)] <= transmitted[x]
        /\ transmitted[x] <= Lesser(Len(sent[x]),
                                    acknowledged[x] + WINDOW_BYTES)
    BY DEF IInv, OffsetsOrdered
  <2>2. CASE x = e
    <3>1. received[Other(e)] \in Nat BY <1>1, OtherEnd DEF TypeOK
    <3>2. received[Other(e)] <= reached BY <2>1, <2>2, <3>1, <1>3, <1>9
    <3>3. reached <= Lesser(Len(sent[e]), ack + WINDOW_BYTES)
      BY <1>3, <1>7, <1>9 DEF Lesser
    <3> QED BY <2>1, <2>2, <3>2, <3>3, <1>10, <1>14
  <2>3. CASE x # e BY <2>1, <2>3, <1>14
  <2> QED BY <2>2, <2>3
<1>17. AcceptedIsPrefix' BY <1>2 DEF IInv, AcceptedIsPrefix
<1>18. OutgoingIsTail'
  <2>1. IsTail(sent[e], trim, Slice(e, trim, StreamEnd(e)))
    BY <1>3, <1>10, <1>11 DEF IsSlice, IsTail
  <2>2. \A x \in End : IsTail(sent[x], outgoing_base'[x], outgoing'[x])
    <3> TAKE x \in End
    <3>1. CASE x = e BY <3>1, <2>1, <1>14
    <3>2. CASE x # e
      <4>1. outgoing'[x] = outgoing[x] /\ outgoing_base'[x] = outgoing_base[x]
        BY <3>2, <1>14
      <4> QED BY <4>1 DEF IInv, OutgoingIsTail
    <3> QED BY <3>1, <3>2
  <2> QED BY <1>2, <2>2 DEF OutgoingIsTail
<1>19. DatagramsAreSlices'
  <2> SUFFICES ASSUME NEW x \in End, NEW p \in network'[x]
               PROVE  /\ IsSlice(sent[x], p.offset, p.bytes)
                      /\ p.offset + Len(p.bytes) <= transmitted'[x]
                      /\ p.acknowledged <= received[x]
                      /\ HasBytes(p) => p.offset < acknowledged[x] + WINDOW_BYTES
    BY <1>2 DEF DatagramsAreSlices, HasBytes
  <2>1. CASE p \in network[x]
    <3>1. /\ IsSlice(sent[x], p.offset, p.bytes)
          /\ p.offset + Len(p.bytes) <= transmitted[x]
          /\ p.acknowledged <= received[x]
          /\ HasBytes(p) => p.offset < acknowledged[x] + WINDOW_BYTES
      BY <2>1 DEF IInv, DatagramsAreSlices
    <3>2. p.offset \in Nat /\ Len(p.bytes) \in Nat BY <1>1, <2>1, DatagramType
    <3>3. CASE x = e BY <3>1, <3>2, <3>3, <1>3, <1>9, <1>14
    <3>4. CASE x # e BY <3>1, <3>4, <1>14
    <3> QED BY <3>1, <3>3, <3>4
  <2>2. CASE p \notin network[x]
    <3>1. x = e /\ p \in data \cup announced BY <2>2, <1>14
    <3>2. CASE p \in data BY <3>1, <3>2, <1>3, <1>12, <1>14
    <3>3. CASE p \in announced BY <3>1, <3>3, <1>3, <1>13, <1>14
    <3> QED BY <3>1, <3>2, <3>3
  <2> QED BY <2>1, <2>2
<1>20. PiecesAreSlices'
  <2> SUFFICES ASSUME NEW x \in End, NEW o \in DOMAIN reordered[x]
               PROVE  o + Len(reordered[x][o]) <= transmitted'[Other(x)]
    BY <1>2 DEF IInv, PiecesAreSlices
  <2>1. o + Len(reordered[x][o]) <= transmitted[Other(x)]
    BY DEF IInv, PiecesAreSlices
  <2>2. o \in Nat /\ Len(reordered[x][o]) \in Nat BY <1>1, Lengths DEF TypeOK
  <2>3. CASE Other(x) = e BY <2>1, <2>2, <2>3, <1>3, <1>9, <1>14
  <2>4. CASE Other(x) # e BY <2>1, <2>4, <1>14, OtherEnd
  <2> QED BY <2>3, <2>4
<1>21. TrimKeepsUp'
  <2> SUFFICES ASSUME NEW x \in End
               PROVE  transmitted'[x] - outgoing_base'[x] < 2 * WINDOW_BYTES
    BY DEF TrimKeepsUp
  <2>1. CASE x = e BY <2>1, <1>3, <1>7, <1>9, <1>10, <1>14
  <2>2. CASE x # e BY <2>2, <1>14 DEF IInv, TrimKeepsUp
  <2> QED BY <2>1, <2>2
<1> QED BY <1>15, <1>16, <1>17, <1>18, <1>19, <1>20, <1>21 DEF IInv

(* take_messages() touches none of the variables of the invariant. *)
LEMMA TakeMessagesInvariant ==
  ASSUME IInv, NEW e \in End, TakeMessages(e)
  PROVE  IInv'
<1>1. UNCHANGED <<outgoing, outgoing_base, acknowledged, transmitted, received,
                  reordered, acknowledgement_due, network, sent, accepted>>
  BY DEF TakeMessages, senderVars, receiverVars
<1> QED BY <1>1 DEF IInv, TypeOK, OffsetsOrdered, AcceptedIsPrefix,
                    OutgoingIsTail, DatagramsAreSlices, PiecesAreSlices,
                    TrimKeepsUp
-----------------------------------------------------------------------------
(* The invariant is inductive. *)
LEMMA NextInvariant == IInv /\ [Next]_vars => IInv'
<1> SUFFICES ASSUME IInv, [Next]_vars PROVE IInv'
  OBVIOUS
<1>1. ASSUME NEW e \in End, NEW m \in Message, Send(e, m)
      PROVE  IInv'
  BY <1>1, SendInvariant
<1>2. ASSUME NEW e \in End, NEW d \in network[Other(e)], Receive(e, d)
      PROVE  IInv'
  BY <1>2, ReceiveNothingInvariant, ReceiveEarlyInvariant,
     ReceiveNextInvariant DEF Receive
<1>3. ASSUME NEW e \in End, NEW retry \in BOOLEAN, NEW heartbeat \in BOOLEAN,
             Update(e, retry, heartbeat)
      PROVE  IInv'
  BY <1>3, UpdateInvariant
<1>4. ASSUME NEW e \in End, TakeMessages(e)
      PROVE  IInv'
  BY <1>4, TakeMessagesInvariant
<1>5. CASE UNCHANGED vars
  BY <1>5 DEF vars, IInv, TypeOK, OffsetsOrdered, AcceptedIsPrefix,
              OutgoingIsTail, DatagramsAreSlices, PiecesAreSlices, TrimKeepsUp
<1> QED BY <1>1, <1>2, <1>3, <1>4, <1>5 DEF Next

(* The inductive invariant holds in every behaviour. *)
LEMMA Invariance == Spec => []IInv
BY InitInvariant, NextInvariant, PTL DEF Spec

(* Every variable of Channel has its type, whatever the socket does.       *)
THEOREM TypeCorrect == Spec => []TypeOK
<1>1. IInv => TypeOK BY DEF IInv
<1> QED BY <1>1, Invariance, PTL

(* Trimming, acknowledging, receiving and transmitting stay in this order  *)
(* along the stream, whichever old datagrams are delivered.                *)
THEOREM CountersInOrder == Spec => []OffsetsOrdered
<1>1. IInv => OffsetsOrdered BY DEF IInv
<1> QED BY <1>1, Invariance, PTL

(* The bytes that receive() appends are exactly those send() appended at   *)
(* the other end, from the first one on.                                   *)
THEOREM StreamIntegrity == Spec => []AcceptedIsPrefix
<1>1. IInv => AcceptedIsPrefix BY DEF IInv
<1> QED BY <1>1, Invariance, PTL

(* receive() never reports an invalid acknowledgement to an honest peer.   *)
THEOREM NoInvalidAcknowledgement == Spec => []AcknowledgementsValid
<1>1. ASSUME IInv, NEW e \in End, NEW d \in network[Other(e)]
      PROVE  d.acknowledged <= transmitted[e]
  <2>1. /\ Other(e) \in End /\ TypeOK BY <1>1, OtherEnd DEF IInv
  <2>2. d.acknowledged \in Nat BY <2>1, DatagramType
  <2>3. received[Other(e)] \in Nat /\ transmitted[e] \in Nat
    BY <2>1 DEF TypeOK
  <2>4. d.acknowledged <= received[Other(e)]
    BY <1>1, <2>1 DEF IInv, DatagramsAreSlices
  <2>5. received[Other(e)] <= transmitted[e] BY <1>1 DEF IInv, OffsetsOrdered
  <2> QED BY <2>2, <2>3, <2>4, <2>5
<1>2. IInv => AcknowledgementsValid BY <1>1 DEF AcknowledgementsValid
<1> QED BY <1>2, Invariance, PTL

(* The receiver's window test drops no byte that it has not received yet.  *)
THEOREM WindowNeverDropsNewBytes == Spec => []WindowAdmitsNewBytes
<1> USE SizeAssumption
<1>1. ASSUME IInv, NEW e \in End, NEW d \in network[Other(e)],
             HasBytes(d), d.offset >= received[e]
      PROVE  ~ Stale(e, d)
  <2>1. Other(e) \in End /\ Other(Other(e)) = e /\ TypeOK
    BY <1>1, OtherEnd DEF IInv
  <2>2. d.offset \in Nat BY <2>1, DatagramType
  <2>3. received[e] \in Nat /\ acknowledged[Other(e)] \in Nat
    BY <2>1 DEF TypeOK
  <2>4. d.offset < acknowledged[Other(e)] + WINDOW_BYTES
    BY <1>1, <2>1 DEF IInv, DatagramsAreSlices
  <2>5. acknowledged[Other(e)] <= received[Other(Other(e))]
    BY <1>1, <2>1 DEF IInv, OffsetsOrdered
  <2> QED BY <1>1, <2>1, <2>2, <2>3, <2>4, <2>5 DEF Stale
<1>2. IInv => WindowAdmitsNewBytes BY <1>1 DEF WindowAdmitsNewBytes
<1> QED BY <1>2, Invariance, PTL

(* Neither outgoing nor reordered grows beyond a few windows because of    *)
(* what the socket does.                                                   *)
THEOREM MemoryBounded == Spec => []BuffersBounded
<1> USE SizeAssumption
<1>1. ASSUME IInv, NEW e \in End
      PROVE  /\ acknowledged[e] - outgoing_base[e] < 2 * WINDOW_BYTES
             /\ \A o \in DOMAIN reordered[e] :
                  received[e] < o /\ o < received[e] + WINDOW_BYTES
  <2>1. /\ Other(e) \in End /\ TypeOK BY <1>1, OtherEnd DEF IInv
  <2>2. /\ acknowledged[e] \in Nat /\ received[Other(e)] \in Nat
        /\ transmitted[e] \in Nat /\ outgoing_base[e] \in Nat
    BY <2>1 DEF TypeOK
  <2>3. acknowledged[e] <= received[Other(e)]
        /\ received[Other(e)] <= transmitted[e]
    BY <1>1 DEF IInv, OffsetsOrdered
  <2>4. transmitted[e] - outgoing_base[e] < 2 * WINDOW_BYTES
    BY <1>1 DEF IInv, TrimKeepsUp
  <2>5. acknowledged[e] - outgoing_base[e] < 2 * WINDOW_BYTES
    BY <2>2, <2>3, <2>4
  <2> QED BY <1>1, <2>5 DEF IInv, PiecesAreSlices
<1>2. IInv => BuffersBounded BY <1>1 DEF BuffersBounded
<1> QED BY <1>2, Invariance, PTL

(* Whatever old datagrams are delivered, no step of either end moves one   *)
(* of its four counters back.                                              *)
THEOREM CountersNeverFall == Spec => CountersAdvance
<1> DEFINE Grow(e) == /\ acknowledged[e] <= acknowledged'[e]
                      /\ received[e] <= received'[e]
                      /\ transmitted[e] <= transmitted'[e]
                      /\ outgoing_base[e] <= outgoing_base'[e]
<1>1. ASSUME IInv, NEW e \in End
      PROVE  /\ acknowledged[e] \in Nat /\ received[e] \in Nat
             /\ transmitted[e] \in Nat /\ outgoing_base[e] \in Nat
             /\ outgoing_base[e] <= acknowledged[e]
  BY <1>1 DEF IInv, TypeOK, OffsetsOrdered
<1>2. ASSUME IInv, NEW e \in End, NEW m \in Message, Send(e, m), NEW x \in End
      PROVE  Grow(x)
  BY <1>1, <1>2 DEF Send
<1>3. ASSUME IInv, NEW e \in End, NEW d \in network[Other(e)], Receive(e, d),
             NEW x \in End
      PROVE  Grow(x)
  <2>1. TypeOK /\ Other(e) \in End BY <1>3, OtherEnd DEF IInv
  <2>2. Acknowledge(e, d) /\ UNCHANGED senderVars
    BY <1>3 DEF Receive, ReceiveNothing, ReceiveEarly, ReceiveNext
  <2>3. acknowledged[x] <= acknowledged'[x]
    BY <1>3, <2>2, AcknowledgeInOrder
  <2>4. received[x] <= received'[x]
    <3>1. CASE UNCHANGED received BY <3>1, <1>1, <1>3
    <3>2. CASE ReceiveNext(e, d)
      <4> DEFINE held == reordered[e]
                 first == received[e] + Len(d.bytes)
      <4>1. /\ Len(d.bytes) \in Nat /\ received[e] \in Nat
            /\ \A o \in DOMAIN held : o + Len(held[o]) \in Nat
        <5>1. Len(d.bytes) \in Nat BY <2>1, DatagramType
        <5>2. \A o \in DOMAIN held : o \in Nat /\ Len(held[o]) \in Nat
          BY <2>1, Lengths DEF TypeOK
        <5>3. received[e] \in Nat BY <1>1, <1>3
        <5> HIDE DEF held, Grow
        <5> QED BY <5>1, <5>2, <5>3
      <4>2. PICK end \in Ends(held, first) :
              /\ first <= end
              /\ received' = [received EXCEPT ![e] = end]
        BY <3>2 DEF ReceiveNext, Tiles
      <4>3. end \in Nat BY <4>1, <4>2 DEF Ends, EndOf
      <4>4. received[e] <= end BY <4>1, <4>2, <4>3
      <4>5. received[x] \in Nat BY <1>1, <1>3
      <4>6. received \in [End -> Nat] BY <2>1 DEF TypeOK
      <4> HIDE DEF held, first, Grow
      <4> QED BY <4>2, <4>4, <4>5, <4>6
    <3> QED BY <1>3, <3>1, <3>2
        DEF Receive, ReceiveNothing, ReceiveEarly, receiverVars
  <2> QED BY <2>2, <2>3, <2>4, <1>1, <1>3 DEF senderVars
<1>4. ASSUME IInv, NEW e \in End, NEW retry \in BOOLEAN,
             NEW heartbeat \in BOOLEAN, Update(e, retry, heartbeat),
             NEW x \in End
      PROVE  Grow(x)
  <2> USE SizeAssumption
  <2>1. TypeOK BY <1>4 DEF IInv
  <2>2. /\ UNCHANGED <<acknowledged, received>>
        /\ transmitted' = [transmitted EXCEPT
             ![e] = Reached(e, From(e, retry), Limit(e))]
        /\ outgoing_base' = [outgoing_base EXCEPT ![e] = Trimmed(e)]
    BY <1>4 DEF Update, receiverVars
  <2>3. Len(outgoing[e]) \in Nat BY <2>1, Lengths DEF TypeOK
  <2>4. StreamEnd(e) \in Nat BY <1>1, <1>4, <2>3 DEF StreamEnd
  <2>5. Limit(e) \in Nat BY <2>4, <1>1, <1>4 DEF Limit, Lesser
  <2>6. transmitted[e] <= Reached(e, From(e, retry), Limit(e))
    BY <2>5, <1>1, <1>4 DEF Reached, Greater
  <2>7. outgoing_base[e] <= Trimmed(e) BY <1>1, <1>4 DEF Trimmed
  <2> QED BY <2>1, <2>2, <2>6, <2>7, <1>1, <1>4 DEF TypeOK
<1>5. ASSUME IInv, NEW e \in End, TakeMessages(e), NEW x \in End
      PROVE  Grow(x)
  BY <1>1, <1>5 DEF TakeMessages, senderVars, receiverVars
<1>6. ASSUME IInv, UNCHANGED vars, NEW x \in End PROVE Grow(x)
  BY <1>1, <1>6 DEF vars
<1>7. IInv /\ [Next]_vars => [CountersGrow]_vars
  BY <1>2, <1>3, <1>4, <1>5, <1>6 DEF Next, CountersGrow
<1> QED BY <1>7, Invariance, PTL DEF CountersAdvance, Spec
-----------------------------------------------------------------------------
(* The framing.  assemble() finds every message where send() put it: the   *)
(* bytes of a header tell the size, so that one message ends where the next *)
(* begins.                                                                 *)

(* The quotient is what the remainder leaves of it. *)
LEMMA QuotientUnique ==
  ASSUME NEW n \in Nat, NEW d \in Nat \ {0}, NEW q \in Nat,
         NEW r \in Nat, r < d, n = d * q + r
  PROVE  n \div d = q
<1>1. n = d * (n \div d) + (n % d) /\ n % d \in 0 .. d - 1 /\ n \div d \in Int
  OBVIOUS
<1> DEFINE x == n \div d
           y == n % d
<1> HIDE DEF x, y
<1>3. n = d * x + y /\ y \in 0 .. d - 1 /\ x \in Int
  BY <1>1 DEF x, y
<1>4. d * (x - q) = r - y
  BY <1>3
<1>5. CASE x > q
  <2>1. d * (x - q) >= d
     BY <1>5, <1>3
  <2> QED BY <2>1, <1>4, <1>3
<1>6. CASE x < q
  <2>1. d * (q - x) >= d
     BY <1>6, <1>3
  <2>2. d * (q - x) = y - r
     BY <1>3
  <2> QED BY <2>1, <2>2, <1>3
<1> QED BY <1>5, <1>6, <1>3 DEF x

(* Dividing twice is dividing by the product. *)
LEMMA NestedQuotient ==
  ASSUME NEW n \in Nat, NEW p \in Nat \ {0}, NEW b \in Nat \ {0}
  PROVE  (n \div p) \div b = n \div (p * b)
<1>1. PICK q \in Nat, r \in Nat : n = p * q + r /\ r < p /\ q = n \div p
  OBVIOUS
<1>2. PICK u \in Nat, v \in Nat : q = b * u + v /\ v < b /\ u = q \div b
  OBVIOUS
<1>3. n = (p * b) * u + (p * v + r)
  <2>1. n = p * (b * u + v) + r
    BY <1>1, <1>2
  <2>2. p * (b * u + v) = (p * b) * u + p * v
    OBVIOUS
  <2>3. (p * b) * u \in Int /\ p * v \in Int
    OBVIOUS
  <2> DEFINE y == (p * b) * u
             z == p * v
  <2>4. n = (y + z) + r
    BY <2>1, <2>2
  <2> HIDE DEF y, z
  <2>5. (y + z) + r = y + (z + r)
    BY <2>3 DEF y, z
  <2> QED BY <2>4, <2>5 DEF y, z
<1>4. p * v + r < p * b
  <2>1. p * v <= p * (b - 1)
    BY <1>2
  <2> QED BY <2>1, <1>1, <1>2
<1>5. p * b \in Nat \ {0} /\ p * v + r \in Nat
  BY <1>1, <1>2
<1> DEFINE d == p * b
           s == p * v + r
<1>6. d \in Nat \ {0} /\ s \in Nat /\ s < d /\ n = d * u + s
  BY <1>3, <1>4, <1>5
<1> HIDE DEF d, s
<1>7. n \div d = u
  BY <1>6, QuotientUnique
<1> QED BY <1>7, <1>1, <1>2 DEF d

(* A digit more and the quotient above it tell the quotient below. *)
LEMMA SameQuotient ==
  ASSUME NEW n \in Nat, NEW k \in Nat, NEW p \in Nat \ {0}, NEW b \in Nat \ {0},
         (n \div p) % b = (k \div p) % b, n \div (p * b) = k \div (p * b)
  PROVE  n \div p = k \div p
<1> DEFINE x == n \div p
           y == k \div p
<1>1. x \in Nat /\ y \in Nat
  OBVIOUS
<1>2. x \div b = n \div (p * b) /\ y \div b = k \div (p * b)
  BY NestedQuotient
<1>3. x \div b = y \div b /\ x % b = y % b
  BY <1>2
<1> HIDE DEF x, y
<1>4. x = b * (x \div b) + (x % b) /\ y = b * (y \div b) + (y % b)
  BY <1>1
<1>5. x = y
  BY <1>3, <1>4
<1> QED BY <1>5 DEF x, y

(* The bytes of a header tell its size. *)
LEMMA HeaderTells ==
  ASSUME NEW n \in Nat, n < Base ^ HEADER, NEW k \in Nat, k < Base ^ HEADER,
         Header(n) = Header(k)
  PROVE  n = k
<1> USE SizeAssumption
<1> DEFINE T == {j \in 0 .. HEADER :
                   n \div Base ^ (HEADER - j) = k \div Base ^ (HEADER - j)}
<1>1. \A i \in 1 .. HEADER :
        /\ Base ^ (i - 1) \in Nat \ {0} /\ Base ^ i = Base ^ (i - 1) * Base
  BY PowerAssumption
<1>2. 0 \in T
  <2> DEFINE p == Base ^ HEADER
  <2>1. p \in Nat \ {0}
    <3>1. HEADER \in 1 .. HEADER
      OBVIOUS
    <3> DEFINE q == Base ^ (HEADER - 1)
    <3>2. q \in Nat \ {0} /\ p = q * Base
      BY <1>1, <3>1
    <3> HIDE DEF p, q
    <3> QED BY <3>2
  <2>2. n < p /\ k < p
    OBVIOUS
  <2>a. HEADER - 0 = HEADER /\ 0 \in 0 .. HEADER
    OBVIOUS
  <2>3. n \div p = 0 /\ k \div p = 0
    <3> HIDE DEF p
    <3> QED BY <2>1, <2>2
  <2> QED BY <2>3, <2>a
<1>3. ASSUME NEW j \in 0 .. HEADER - 1, j \in T PROVE j + 1 \in T
  <2> DEFINE i == HEADER - j
             p == Base ^ (i - 1)
  <2>1. i \in 1 .. HEADER /\ HEADER - (j + 1) = i - 1 /\ j + 1 \in 0 .. HEADER
    OBVIOUS
  <2>2. p \in Nat \ {0} /\ Base ^ i = p * Base
    BY <1>1, <2>1
  <2>3. (n \div p) % Base = (k \div p) % Base
    <3>1. Header(n)[i] = Header(k)[i]
      OBVIOUS
    <3>2. Header(n)[i] = (n \div p) % Base /\ Header(k)[i] = (k \div p) % Base
      BY <2>1 DEF Header
    <3> HIDE DEF p
    <3> QED BY <3>1, <3>2
  <2>4. n \div (p * Base) = k \div (p * Base)
    BY <1>3, <2>2
  <2>5. n \div p = k \div p
    <3>1. Base \in Nat \ {0} /\ p \in Nat \ {0} /\ n \in Nat /\ k \in Nat
      BY <2>2
    <3> HIDE DEF p
    <3> QED BY <2>3, <2>4, <3>1, SameQuotient, ZenonT(30)
  <2> QED BY <2>1, <2>5
<1>4. 0 .. HEADER \subseteq T
  <2> HIDE DEF T
  <2> QED BY <1>2, <1>3, IntervalInduction
<1>5. n \div Base ^ 0 = k \div Base ^ 0
  <2>1. HEADER \in 0 .. HEADER /\ HEADER - HEADER = 0
    OBVIOUS
  <2> QED BY <1>4, <2>1
<1>6. n \div 1 = k \div 1
  BY <1>5, PowerAssumption
<1> QED BY <1>6

(* The size that assemble() reads from a header is the message's. *)
LEMMA SizeRead ==
  ASSUME NEW bytes \in Seq(Byte), NEW from \in Nat, NEW m \in Message,
         from + HEADER <= Len(bytes),
         \A i \in 1 .. HEADER : bytes[from + i] = Header(Len(m))[i]
  PROVE  SizeAt(bytes, from) = Len(m)
<1> USE SizeAssumption
<1> DEFINE front == SubSeq(bytes, from + 1, from + HEADER)
           B == Base ^ HEADER
<1>1. Len(m) \in Nat /\ Len(m) < B
  BY MessageAssumption
<1>2. front = Header(Len(m))
  <2>1. front = [i \in 1 .. HEADER |-> bytes[from + i]]
    <3>1. front = [i \in 1 .. (from + HEADER) - (from + 1) + 1 |->
                     bytes[(from + 1) + i - 1]]
      OBVIOUS
    <3>2. (from + HEADER) - (from + 1) + 1 = HEADER
      OBVIOUS
    <3>3. \A i \in 1 .. HEADER : (from + 1) + i - 1 = from + i
      OBVIOUS
    <3> QED BY <3>1, <3>2, <3>3
  <2>2. Header(Len(m)) = [i \in 1 .. HEADER |-> Header(Len(m))[i]]
    BY DEF Header
  <2> QED BY <2>1, <2>2
<1>3. \A n \in 0 .. B - 1 : Header(n) = front => n = Len(m)
  <2> SUFFICES ASSUME NEW n \in 0 .. B - 1, Header(n) = front PROVE n = Len(m)
    OBVIOUS
  <2>1. n \in Nat /\ n < B
    <3>1. B \in Int
      BY SizeAssumption
    <3> HIDE DEF B
    <3> QED BY <3>1
  <2> QED BY <1>1, <1>2, <2>1, HeaderTells
<1>4. Len(m) \in 0 .. B - 1
  <2>1. B \in Int
    BY SizeAssumption
  <2> HIDE DEF B
  <2> QED BY <1>1, <2>1
<1>5. SizeAt(bytes, from) = CHOOSE n \in 0 .. B - 1 : Header(n) = front
  BY DEF SizeAt
<1> HIDE DEF B, front
<1> QED BY <1>2, <1>3, <1>4, <1>5
-----------------------------------------------------------------------------
(* A part of a sequence. *)
LEMMA Part ==
  ASSUME NEW S, NEW s \in Seq(S), NEW c \in Nat, NEW d \in Nat,
         c <= d, d <= Len(s)
  PROVE  /\ SubSeq(s, c + 1, d) \in Seq(S)
         /\ Len(SubSeq(s, c + 1, d)) = d - c
         /\ \A i \in 1 .. d - c : SubSeq(s, c + 1, d)[i] = s[c + i]
<1> DEFINE t == SubSeq(s, c + 1, d)
<1>1. \A i \in c + 1 .. d : s[i] \in S
  OBVIOUS
<1>2. c + 1 \in Int /\ d \in Int
  OBVIOUS
<1>3. /\ t \in Seq(S)
      /\ Len(t) = IF c + 1 <= d THEN d - (c + 1) + 1 ELSE 0
      /\ \A i \in 1 .. d - (c + 1) + 1 : t[i] = s[(c + 1) + i - 1]
  BY <1>1, <1>2, SubSeqProperties
<1>4. d - (c + 1) + 1 = d - c /\ (c + 1 <= d \/ d - c = 0)
  OBVIOUS
<1>5. \A i \in 1 .. d - c : (c + 1) + i - 1 = c + i
  OBVIOUS
<1> HIDE DEF t
<1>6. t \in Seq(S) /\ Len(t) = d - c /\ \A i \in 1 .. d - c : t[i] = s[c + i]
  BY <1>3, <1>4, <1>5
<1> QED BY <1>6 DEF t

(* A part of a sequence and the element after it. *)
LEMMA SubSeqMore ==
  ASSUME NEW S, NEW s \in Seq(S), NEW k \in Nat, NEW n \in Nat,
         k <= n, n < Len(s)
  PROVE  Append(SubSeq(s, k + 1, n), s[n + 1]) = SubSeq(s, k + 1, n + 1)
<1> DEFINE a == SubSeq(s, k + 1, n)
           b == SubSeq(s, k + 1, n + 1)
           c == Append(a, s[n + 1])
<1>1. /\ a \in Seq(S) /\ Len(a) = n - k
      /\ \A i \in 1 .. n - k : a[i] = s[k + i]
  BY Part
<1>2. /\ b \in Seq(S) /\ Len(b) = n + 1 - k
      /\ \A i \in 1 .. n + 1 - k : b[i] = s[k + i]
  <2>1. n + 1 \in Nat /\ k <= n + 1 /\ n + 1 <= Len(s)
    OBVIOUS
  <2> QED BY <2>1, Part
<1>3. s[n + 1] \in S
  OBVIOUS
<1> HIDE DEF a, b
<1>4. c \in Seq(S) /\ Len(c) = n - k + 1 /\ c[n - k + 1] = s[n + 1]
      /\ \A i \in 1 .. n - k : c[i] = a[i]
  BY <1>1, <1>3
<1> HIDE DEF c
<1>5. \A i \in 1 .. n + 1 - k : c[i] = b[i]
  <2> SUFFICES ASSUME NEW i \in 1 .. n + 1 - k PROVE c[i] = b[i]
    OBVIOUS
  <2>1. CASE i \in 1 .. n - k
    BY <1>1, <1>2, <1>4, <2>1
  <2>2. CASE i = n - k + 1
    <3>1. k + i = n + 1
      BY <2>2
    <3> QED BY <1>2, <1>4, <2>2, <3>1
  <2> QED BY <2>1, <2>2
<1>6. c = b
  <2>1. n - k + 1 = n + 1 - k
    OBVIOUS
  <2> QED BY <1>2, <1>4, <1>5, <2>1, SeqEqual
<1> QED BY <1>6 DEF a, b, c

(* The frames of the messages ms are the stream; the frame of the j-th     *)
(* begins where the one before it ends.                                    *)
FrameAt(starts, stream, m, j) ==
  /\ starts[j] = starts[j - 1] + HEADER + Len(m)
  /\ \A i \in 1 .. HEADER : stream[starts[j - 1] + i] = Header(Len(m))[i]
  /\ \A i \in 1 .. Len(m) : stream[starts[j - 1] + HEADER + i] = m[i]

Framed(starts, stream, ms) ==
  /\ starts \in [0 .. Len(ms) -> Nat]
  /\ starts[0] = 0 /\ starts[Len(ms)] = Len(stream)
  /\ \A j \in 1 .. Len(ms) : FrameAt(starts, stream, ms[j], j)
  /\ \A i, j \in 0 .. Len(ms) : i < j => starts[i] + (j - i) <= starts[j]

(* assemble() when it has read j messages after the first k. *)
ReadTo(starts, ms, k, j) ==
  [consumed |-> starts[k + j] - starts[k],
   messages |-> SubSeq(ms, k + 1, k + j)]

(* The numbers in which a place in the stream is told. *)
LEMMA Places ==
  ASSUME NEW stream \in Seq(Byte), NEW ms \in Seq(Message), NEW starts,
         Framed(starts, stream, ms), NEW k \in 0 .. Len(ms),
         NEW j \in Nat, k + j <= Len(ms)
  PROVE  /\ Len(ms) \in Nat /\ Len(stream) \in Nat
         /\ starts[k] \in Nat /\ starts[k + j] \in Nat
         /\ starts[k] + j <= starts[k + j] /\ starts[k + j] <= Len(stream)
<1>1. k + j \in 0 .. Len(ms) /\ Len(ms) \in 0 .. Len(ms)
      /\ Len(ms) \in Nat /\ Len(stream) \in Nat
  OBVIOUS
<1>2. starts[k] \in Nat /\ starts[k + j] \in Nat
  BY <1>1 DEF Framed
<1>3. k < k + j => starts[k] + ((k + j) - k) <= starts[k + j]
  BY <1>1 DEF Framed
<1>4. k + j < Len(ms) => starts[k + j] + (Len(ms) - (k + j)) <= starts[Len(ms)]
  BY <1>1 DEF Framed
<1>5. starts[Len(ms)] = Len(stream)
  BY DEF Framed
<1>6. starts[k] + j <= starts[k + j]
  <2>1. CASE j = 0
    BY <2>1, <1>2
  <2>2. CASE j # 0
    <3>1. k < k + j /\ (k + j) - k = j
      BY <2>2
    <3> QED BY <3>1, <1>3
  <2> QED BY <2>1, <2>2
<1>7. starts[k + j] <= Len(stream)
  <2>1. CASE k + j = Len(ms)
    BY <2>1, <1>1, <1>2, <1>5
  <2>2. CASE k + j < Len(ms)
    <3>1. Len(ms) - (k + j) \in Nat
      BY <2>2, <1>1
    <3> QED BY <2>2, <3>1, <1>1, <1>2, <1>4, <1>5
  <2> QED BY <2>1, <2>2, <1>1
<1> QED BY <1>1, <1>2, <1>6, <1>7

(* How far a message of w bytes at b reaches in the l bytes from a on. *)
LEMMA ReachSteps ==
  \A a, b, l, w, h \in Nat : \A c, d :
    a <= b /\ b <= a + l /\ c = b - a /\ d = b + h + w
    => /\ l - c >= h + w <=> d <= a + l
       /\ l - c < h => a + l < d
       /\ c + h + w = d - a
       /\ d \in Nat
       /\ a + l < d <=> ~ d <= a + l
OBVIOUS

(* A pass of the loop reads the next message if all of it has come. *)
LEMMA Pass ==
  ASSUME NEW stream \in Seq(Byte), NEW ms \in Seq(Message), NEW starts,
         Framed(starts, stream, ms), NEW k \in 0 .. Len(ms),
         NEW bytes \in Seq(Byte), IsSlice(stream, starts[k], bytes),
         NEW j \in Nat, k + j <= Len(ms),
         starts[k + j] <= starts[k] + Len(bytes)
  PROVE  /\ k + j < Len(ms) /\ starts[k + j + 1] <= starts[k] + Len(bytes)
              => Assemble(bytes, ReadTo(starts, ms, k, j)) =
                   ReadTo(starts, ms, k, j + 1)
         /\ k + j = Len(ms) \/ starts[k] + Len(bytes) < starts[k + j + 1]
              => Assemble(bytes, ReadTo(starts, ms, k, j)) =
                   ReadTo(starts, ms, k, j)
<1> USE SizeAssumption
<1> DEFINE n == k + j
           c == starts[n] - starts[k]
           x == ReadTo(starts, ms, k, j)
           L == Len(bytes)
           m == ms[n + 1]
<1>1. /\ Len(ms) \in Nat /\ Len(stream) \in Nat /\ L \in Nat /\ n \in Nat
      /\ starts[k] \in Nat /\ starts[n] \in Nat
      /\ starts[k] <= starts[n] /\ starts[n] <= starts[k] + L
  <2>1. /\ Len(ms) \in Nat /\ Len(stream) \in Nat
        /\ starts[k] \in Nat /\ starts[k + j] \in Nat
        /\ starts[k] + j <= starts[k + j]
    BY Places
  <2> QED BY <2>1
<1>2. /\ x.consumed = c /\ x.messages = SubSeq(ms, k + 1, n)
      /\ x = [consumed |-> c, messages |-> SubSeq(ms, k + 1, n)]
  BY DEF ReadTo
<1>3. /\ starts[k] + L <= Len(stream)
      /\ \A i \in 1 .. L : bytes[i] = stream[starts[k] + i]
  BY DEF IsSlice
<1>4. c \in Nat /\ c <= L /\ starts[k] + c = starts[n]
  BY <1>1
<1>a. c = starts[n] - starts[k]
  OBVIOUS
<1>b. starts[k] + L <= Len(stream)
  BY <1>3
<1> HIDE DEF x, c, L, m, n
<1>5. Assemble(bytes, x) =
        IF CompleteAt(bytes, c)
        THEN [consumed |-> c + HEADER + SizeAt(bytes, c),
              messages |-> Append(x.messages,
                                  SubSeq(bytes, c + HEADER + 1,
                                         c + HEADER + SizeAt(bytes, c)))]
        ELSE x
  BY <1>2 DEF Assemble
<1>6. CASE n = Len(ms)
  <2>1. starts[n] = Len(stream)
    BY <1>6 DEF Framed
  <2>2. L - c < HEADER
    <3>1. starts[n] = starts[k] + L
      BY <1>1, <1>b, <2>1
    <3>2. L \in Nat /\ starts[k] \in Nat
      BY <1>1
    <3>3. c = L
      BY <3>1, <3>2, <1>a
    <3>4. HEADER > 0
      OBVIOUS
    <3> QED BY <3>2, <3>3, <3>4
  <2>3. ~ CompleteAt(bytes, c)
    BY <2>2, <1>1, <1>4 DEF CompleteAt, L
  <2> QED BY <1>5, <1>6, <1>1, <2>3 DEF x, n
<1>7. CASE n < Len(ms)
  <2>1. n + 1 \in 1 .. Len(ms) /\ (n + 1) - 1 = n
    BY <1>1, <1>7
  <2>2. FrameAt(starts, stream, m, n + 1)
    BY <2>1 DEF Framed, m
  <2>3. m \in Message /\ m \in Seq(Byte) /\ Len(m) \in Nat
    BY <2>1, MessageAssumption DEF m
  <2>4. /\ starts[n + 1] = starts[n] + HEADER + Len(m)
        /\ \A i \in 1 .. HEADER : stream[starts[n] + i] = Header(Len(m))[i]
        /\ \A i \in 1 .. Len(m) : stream[starts[n] + HEADER + i] = m[i]
    BY <2>1, <2>2 DEF FrameAt
  <2>a. starts[n + 1] = starts[n] + HEADER + Len(m)
    BY <2>4
  <2>b. /\ L - c >= HEADER + Len(m) <=> starts[n + 1] <= starts[k] + L
        /\ L - c < HEADER => starts[k] + L < starts[n + 1]
        /\ c + HEADER + Len(m) = starts[n + 1] - starts[k]
        /\ starts[n + 1] \in Nat
        /\ starts[k] + L < starts[n + 1] <=> ~ starts[n + 1] <= starts[k] + L
    <3> DEFINE a == starts[k]
               b == starts[n]
               d == starts[n + 1]
               w == Len(m)
    <3>1. a \in Nat /\ b \in Nat /\ L \in Nat /\ w \in Nat /\ a <= b
          /\ b <= a + L /\ c = b - a /\ d = b + HEADER + w
          /\ HEADER \in Nat
      BY <1>1, <1>a, <2>3, <2>a
    <3> HIDE DEF a, b, d, w
    <3>2. /\ L - c >= HEADER + w <=> d <= a + L
          /\ L - c < HEADER => a + L < d
          /\ c + HEADER + w = d - a
          /\ d \in Nat
          /\ a + L < d <=> ~ d <= a + L
      BY <3>1, ReachSteps
    <3> QED BY <3>2 DEF a, b, d, w
  <2>5. CASE L - c < HEADER
    <3>1. ~ CompleteAt(bytes, c)
      BY <2>5, <1>1, <1>4 DEF CompleteAt, L
    <3>2. starts[k] + L < starts[n + 1]
      BY <2>5, <2>b
    <3>3. ~ starts[n + 1] <= starts[k] + L
      BY <3>2, <2>b
    <3> QED BY <3>1, <3>2, <3>3, <1>5, <1>7 DEF x, n, L
  <2>6. CASE L - c >= HEADER
    <3>1. SizeAt(bytes, c) = Len(m)
      <4>1. ASSUME NEW i \in 1 .. HEADER
            PROVE  bytes[c + i] = Header(Len(m))[i]
        <5>1. c + i \in 1 .. L /\ starts[k] + (c + i) = starts[n] + i
          <6> DEFINE a == starts[k]
                     b == starts[n]
          <6>1. /\ a \in Nat /\ b \in Nat /\ L \in Nat /\ c \in Nat
                /\ a + c = b /\ L - c >= HEADER /\ HEADER \in Nat
            BY <1>1, <1>4, <2>6
          <6> HIDE DEF a, b
          <6>2. c + i \in 1 .. L /\ a + (c + i) = b + i
            BY <6>1
          <6> QED BY <6>2 DEF a, b
        <5> QED BY <5>1, <1>3, <2>4
      <4>2. c + HEADER <= Len(bytes)
        BY <1>1, <1>4, <2>6 DEF L
      <4> QED BY <4>1, <4>2, <1>4, <2>3, SizeRead
    <3>2. CompleteAt(bytes, c) <=> starts[n + 1] <= starts[k] + L
      <4>1. CompleteAt(bytes, c) <=> L - c >= HEADER + Len(m)
        BY <3>1, <2>6 DEF CompleteAt, L
      <4>2. L - c >= HEADER + Len(m) <=> starts[n + 1] <= starts[k] + L
        BY <2>b
      <4> QED BY <4>1, <4>2
    <3>3. CASE starts[n + 1] <= starts[k] + L
      <4> DEFINE end == c + HEADER + Len(m)
                 got == SubSeq(bytes, c + HEADER + 1, end)
      <4>1. end = starts[n + 1] - starts[k] /\ end <= L /\ end \in Nat
        <5>1. end = starts[n + 1] - starts[k]
          BY <2>b
        <5> DEFINE a == starts[k]
                   b == starts[n]
                   f == starts[n + 1]
                   w == Len(m)
        <5>2. /\ a \in Nat /\ b \in Nat /\ f \in Nat /\ w \in Nat
              /\ L \in Nat /\ a <= b /\ f = b + HEADER + w
              /\ end = f - a /\ f <= a + L
          BY <1>1, <2>3, <2>a, <2>b, <3>3, <5>1
        <5> HIDE DEF end, a, b, f, w
        <5>3. end = f - a /\ end <= L /\ end \in Nat
          BY <5>2
        <5> QED BY <5>3 DEF a, f
      <4>2. got = m
        <5> DEFINE d == c + HEADER
        <5>1. /\ d \in Nat /\ end = d + Len(m) /\ d <= end
              /\ end - d = Len(m)
          BY <1>4, <2>3
        <5>2. \A i \in 1 .. Len(m) :
                d + i \in 1 .. L /\ starts[k] + (d + i) = starts[n] + HEADER + i
          <6> DEFINE a == starts[k]
                     b == starts[n]
                     w == Len(m)
          <6>1. /\ a \in Nat /\ c \in Nat /\ b = a + c /\ w \in Nat
                /\ c + HEADER + w <= L /\ L \in Nat
            BY <1>1, <1>4, <2>3, <4>1
          <6> HIDE DEF a, b, w
          <6>2. \A i \in 1 .. w : d + i \in 1 .. L /\ a + (d + i) = b + HEADER + i
            BY <6>1
          <6> QED BY <6>2 DEF a, b, w
        <5> HIDE DEF d, end
        <5>3. /\ SubSeq(bytes, d + 1, end) \in Seq(Byte)
              /\ Len(SubSeq(bytes, d + 1, end)) = end - d
              /\ \A i \in 1 .. end - d :
                   SubSeq(bytes, d + 1, end)[i] = bytes[d + i]
          <6>1. /\ bytes \in Seq(Byte) /\ d \in Nat /\ end \in Nat /\ d <= end
                /\ end <= Len(bytes)
            BY <4>1, <5>1 DEF L
          <6> QED BY <6>1, Part
        <5>4. got = SubSeq(bytes, d + 1, end)
          BY DEF d
        <5> HIDE DEF got
        <5>5. ASSUME NEW i \in 1 .. Len(m) PROVE got[i] = m[i]
          <6>1. got[i] = bytes[d + i]
            BY <5>1, <5>3, <5>4
          <6>2. bytes[d + i] = stream[starts[n] + HEADER + i]
            BY <5>2, <1>3
          <6>3. stream[starts[n] + HEADER + i] = m[i]
            BY <2>4
          <6> QED BY <6>1, <6>2, <6>3
        <5>6. got \in Seq(Byte) /\ Len(got) = Len(m)
          BY <5>1, <5>3, <5>4
        <5> QED BY <5>5, <5>6, <2>3, SeqEqual
      <4>3. Append(SubSeq(ms, k + 1, n), m) = SubSeq(ms, k + 1, n + 1)
        <5>1. k <= n
          BY DEF n
        <5> QED BY <5>1, <1>1, <1>7, SubSeqMore DEF m
      <4>4. Assemble(bytes, x) =
              [consumed |-> starts[n + 1] - starts[k],
               messages |-> SubSeq(ms, k + 1, n + 1)]
        <5> HIDE DEF got, end
        <5>1. c + HEADER + SizeAt(bytes, c) = end
          BY <3>1 DEF end
        <5>2. SubSeq(bytes, c + HEADER + 1, c + HEADER + SizeAt(bytes, c)) = m
          BY <5>1, <4>2 DEF got
        <5> QED BY <1>5, <1>2, <3>2, <3>3, <4>1, <4>3, <5>1, <5>2
      <4>5. k + (j + 1) = n + 1
        BY <1>1 DEF n
      <4>6. Assemble(bytes, x) = ReadTo(starts, ms, k, j + 1)
        BY <4>4, <4>5 DEF ReadTo
      <4>7. ~ starts[k] + L < starts[n + 1]
        BY <3>3, <2>b
      <4> QED BY <4>6, <4>7, <1>7, <1>1 DEF x, n, L
    <3>4. CASE ~ starts[n + 1] <= starts[k] + L
      BY <3>4, <3>2, <1>5 DEF x, n, L
    <3> QED BY <3>3, <3>4
  <2> QED BY <2>5, <2>6, <1>1, <1>4
<1> QED BY <1>1, <1>6, <1>7 DEF n

(* j messages after the first k lie within l bytes ... *)
Fits(starts, ms, k, l, j) ==
  k + j <= Len(ms) /\ starts[k + j] <= starts[k] + l

(* ... and one more does not. *)
NoneAfter(starts, ms, k, l, j) ==
  k + j = Len(ms) \/ starts[k] + l < starts[k + j + 1]

(* assemble() comes to its end, with every whole message and no other. *)
LEMMA AssemblyReads ==
  ASSUME NEW stream \in Seq(Byte), NEW ms \in Seq(Message), NEW starts,
         Framed(starts, stream, ms), NEW k \in 0 .. Len(ms),
         NEW bytes \in Seq(Byte), IsSlice(stream, starts[k], bytes)
  PROVE  \E j \in Nat : /\ Fits(starts, ms, k, Len(bytes), j)
                        /\ NoneAfter(starts, ms, k, Len(bytes), j)
                        /\ Assembly(bytes) = ReadTo(starts, ms, k, j)
<1> DEFINE L == Len(bytes)
           fits(j) == Fits(starts, ms, k, L, j)
           last(j) == NoneAfter(starts, ms, k, L, j)
           read(j) == ReadTo(starts, ms, k, j)
           I == [n \in 0 .. L |->
                   {read(j) :
                      j \in {i \in 0 .. n : fits(i) /\ (i = n \/ last(i))}}]
           S == UNION {I[n] : n \in 0 .. L}
           begin == [consumed |-> 0, messages |-> <<>>]
           step == [x \in S \X (1 .. L) |-> Assemble(bytes, x[1])]
           Eq(f) == f = [n \in 0 .. L |->
                           IF n = 0 THEN begin ELSE Assemble(bytes, f[n - 1])]
           after == CHOOSE f : Eq(f)
<1>1. L \in Nat /\ Len(ms) \in Nat /\ k \in Nat /\ k <= Len(ms)
  OBVIOUS
<1>2. ASSUME NEW j \in Nat, fits(j), ~ last(j)
      PROVE  fits(j + 1) /\ Assemble(bytes, read(j)) = read(j + 1)
  <2>1. k + j <= Len(ms) /\ starts[k + j] <= starts[k] + L
    BY <1>2 DEF Fits
  <2>2. k + j # Len(ms) /\ ~ starts[k] + L < starts[k + j + 1]
    BY <1>2 DEF NoneAfter
  <2>3. k + j < Len(ms) /\ k + (j + 1) = k + j + 1 /\ k + (j + 1) <= Len(ms)
    BY <1>1, <2>1, <2>2
  <2>4. starts[k] \in Nat /\ starts[k + (j + 1)] \in Nat
    <3>1. j + 1 \in Nat
      OBVIOUS
    <3> QED BY <2>3, <3>1, Places
  <2>5. starts[k + j + 1] <= starts[k] + L
    BY <2>2, <2>3, <2>4, <1>1
  <2> QED BY <2>1, <2>3, <2>5, Pass DEF Fits
<1>3. ASSUME NEW j \in Nat, fits(j), last(j)
      PROVE  Assemble(bytes, read(j)) = read(j)
  BY <1>3, Pass DEF Fits, NoneAfter
<1>4. fits(0) /\ read(0) = begin
  <2>1. starts[k] \in Nat /\ k + 0 = k
    <3>1. starts \in [0 .. Len(ms) -> Nat]
      BY DEF Framed
    <3> QED BY <1>1, <3>1
  <2>2. starts[k] - starts[k] = 0 /\ starts[k] <= starts[k] + L
    BY <1>1, <2>1
  <2>3. SubSeq(ms, k + 1, k + 0) = <<>>
    BY <1>1
  <2> QED BY <1>1, <2>1, <2>2, <2>3 DEF Fits, ReadTo
<1>5. fits(L) => last(L)
  <2> SUFFICES ASSUME fits(L), ~ last(L) PROVE FALSE
    OBVIOUS
  <2>1. k + (L + 1) <= Len(ms) /\ starts[k + (L + 1)] <= starts[k] + L
    BY <1>1, <1>2 DEF Fits
  <2>2. /\ starts[k] \in Nat /\ starts[k + (L + 1)] \in Nat
        /\ starts[k] + (L + 1) <= starts[k + (L + 1)]
    <3>1. L + 1 \in Nat
      BY <1>1
    <3> QED BY <2>1, <3>1, Places
  <2> QED BY <1>1, <2>1, <2>2
<1> HIDE DEF L, fits, last, read, begin
<1>6. begin \in I[0]
  BY <1>1, <1>4
<1>7. ASSUME NEW n \in 1 .. L, NEW x \in I[n - 1]
      PROVE  Assemble(bytes, x) \in I[n]
  <2>1. n - 1 \in 0 .. L /\ n \in 0 .. L /\ n \in Nat /\ (n - 1) + 1 = n
    BY <1>1
  <2>2. PICK j \in 0 .. n - 1 : fits(j) /\ (j = n - 1 \/ last(j)) /\ x = read(j)
    BY <2>1
  <2>3. j \in Nat /\ j \in 0 .. n
    BY <2>1
  <2>4. CASE last(j)
    BY <1>3, <2>1, <2>2, <2>3, <2>4
  <2>5. CASE ~ last(j)
    <3>1. fits(j + 1) /\ Assemble(bytes, x) = read(j + 1)
      BY <1>2, <2>2, <2>3, <2>5
    <3>2. j + 1 = n
      BY <2>1, <2>2, <2>5
    <3> QED BY <2>1, <3>1, <3>2
  <2> QED BY <2>4, <2>5
<1> HIDE DEF I
<1>8. \A n \in 1 .. L : \A x \in I[n - 1] :
        step[<<x, n>>] = Assemble(bytes, x)
  <2> SUFFICES ASSUME NEW n \in 1 .. L, NEW x \in I[n - 1]
               PROVE  step[<<x, n>>] = Assemble(bytes, x)
    OBVIOUS
  <2>1. n - 1 \in 0 .. L
    BY <1>1
  <2>2. <<x, n>> \in S \X (1 .. L)
    BY <2>1
  <2> HIDE DEF S
  <2> QED BY <2>2
<1> HIDE DEF step, S
<1>9. \A n \in 1 .. L : \A x \in I[n - 1] : step[<<x, n>>] \in I[n]
  BY <1>7, <1>8
<1>10. PICK f : Recurs(f, L, begin, step)
  BY <1>1, <1>6, <1>9, RecursionWithin
<1>11. \A n \in 0 .. L : f[n] \in I[n]
  BY <1>1, <1>6, <1>9, <1>10, RecursionStays
<1>12. Eq(f)
  <2>1. ASSUME NEW n \in 0 .. L, n # 0
        PROVE  step[<<f[n - 1], n>>] = Assemble(bytes, f[n - 1])
    <3>1. n \in 1 .. L /\ n - 1 \in 0 .. L
      BY <1>1, <2>1
    <3> QED BY <3>1, <1>8, <1>11
  <2> QED BY <1>10, <2>1 DEF Recurs
<1>13. Eq(after)
  <2> HIDE DEF Eq
  <2> QED BY <1>12
<1>14. Assembly(bytes) = after[L]
  BY DEF Assembly, begin, L
<1> HIDE DEF after
<1> DEFINE T == {n \in 0 .. L : after[n] \in I[n]}
<1>15. 0 \in T
  BY <1>1, <1>6, <1>13
<1>16. ASSUME NEW n \in 0 .. L - 1, n \in T PROVE n + 1 \in T
  <2>1. n + 1 \in 1 .. L /\ (n + 1) - 1 = n /\ n + 1 \in 0 .. L
    BY <1>1
  <2>2. after[n + 1] = Assemble(bytes, after[n])
    <3>1. \A i \in 0 .. L :
            after[i] = IF i = 0 THEN begin ELSE Assemble(bytes, after[i - 1])
      BY <1>13
    <3>2. after[n + 1] = Assemble(bytes, after[(n + 1) - 1])
      BY <2>1, <3>1
    <3> QED BY <2>1, <3>2
  <2>3. after[n] \in I[(n + 1) - 1]
    BY <1>16, <2>1
  <2> QED BY <1>7, <2>1, <2>2, <2>3
<1>17. after[L] \in I[L]
  <2>1. 0 .. L \subseteq T
    <3> HIDE DEF T
    <3> QED BY <1>1, <1>15, <1>16, IntervalInduction
  <2> QED BY <1>1, <2>1
<1>18. PICK j \in 0 .. L : fits(j) /\ (j = L \/ last(j)) /\ after[L] = read(j)
  BY <1>1, <1>17 DEF I
<1>19. j \in Nat /\ fits(j) /\ last(j) /\ Assembly(bytes) = read(j)
  BY <1>1, <1>5, <1>14, <1>18
<1> QED BY <1>19 DEF fits, last, read, L
-----------------------------------------------------------------------------
(* The first messages of ms have been delivered, all that lie within the   *)
(* first got bytes of the stream; rest are the bytes of the next one.      *)
DeliveredBy(starts, stream, ms, got, delivered, rest) ==
  LET k == Len(delivered)
  IN  /\ Framed(starts, stream, ms)
      /\ k <= Len(ms) /\ delivered = SubSeq(ms, 1, k)
      /\ IsSlice(stream, starts[k], rest) /\ starts[k] + Len(rest) = got
      /\ k = Len(ms) \/ got < starts[k + 1]

(* A frame is its header and then the message. *)
LEMMA FrameParts ==
  ASSUME NEW m \in Message
  PROVE  /\ Len(Frame(m)) = HEADER + Len(m)
         /\ \A i \in 1 .. HEADER : Frame(m)[i] = Header(Len(m))[i]
         /\ \A i \in 1 .. Len(m) : Frame(m)[HEADER + i] = m[i]
<1> DEFINE h == Header(Len(m))
<1>1. m \in Seq(Byte) /\ Len(m) \in Nat /\ HEADER \in Nat
  BY MessageAssumption, SizeAssumption
<1>2. h \in Seq(Int) /\ Len(h) = HEADER /\ m \in Seq(Int)
  <2>1. \A i \in 1 .. HEADER : (Len(m) \div (Base ^ (i - 1))) % Base \in Int
    <3> SUFFICES ASSUME NEW i \in 1 .. HEADER
                 PROVE  (Len(m) \div (Base ^ (i - 1))) % Base \in Int
      OBVIOUS
    <3>1. Base ^ (i - 1) \in Nat \ {0}
      BY PowerAssumption
    <3>2. Len(m) \div (Base ^ (i - 1)) \in Int
      BY <1>1, <3>1
    <3> QED BY <3>2, SizeAssumption
  <2>2. m \in Seq(Int)
    BY <1>1, SizeAssumption DEF Byte
  <2>3. h = [i \in 1 .. HEADER |-> (Len(m) \div (Base ^ (i - 1))) % Base]
    BY DEF Header
  <2>4. h \in [1 .. HEADER -> Int]
    BY <2>1, <2>3
  <2> HIDE DEF h
  <2> QED BY <1>1, <2>2, <2>4
<1>3. /\ Len(h \o m) = Len(h) + Len(m)
      /\ \A i \in 1 .. Len(h) + Len(m) :
           (h \o m)[i] = IF i <= Len(h) THEN h[i] ELSE m[i - Len(h)]
  BY <1>2, ConcatProperties
<1>4. Frame(m) = h \o m
  BY DEF Frame
<1> HIDE DEF h
<1>5. ASSUME NEW i \in 1 .. HEADER PROVE Frame(m)[i] = h[i]
  BY <1>1, <1>2, <1>3, <1>4
<1>6. ASSUME NEW i \in 1 .. Len(m) PROVE Frame(m)[HEADER + i] = m[i]
  <2> DEFINE x == HEADER + i
  <2>1. x \in 1 .. HEADER + Len(m) /\ ~ (x <= HEADER) /\ x - HEADER = i
    BY <1>1, SizeAssumption
  <2> HIDE DEF x
  <2>2. (h \o m)[x] = m[x - HEADER]
    BY <1>2, <1>3, <2>1
  <2> QED BY <1>4, <2>1, <2>2 DEF x
<1> QED BY <1>2, <1>3, <1>4, <1>5, <1>6 DEF h

(* The stream with one message more. *)
LEMMA FramedMore ==
  ASSUME NEW stream \in Seq(Byte), NEW ms \in Seq(Message), NEW starts,
         Framed(starts, stream, ms), NEW m \in Message
  PROVE  \E next :
           /\ Framed(next, stream \o Frame(m), Append(ms, m))
           /\ \A i \in 0 .. Len(ms) : next[i] = starts[i]
           /\ next[Len(ms) + 1] = Len(stream) + HEADER + Len(m)
<1> USE SizeAssumption
<1> DEFINE n == Len(ms)
           l == Len(stream)
           w == Len(m)
           new == stream \o Frame(m)
           more == Append(ms, m)
           next == [i \in 0 .. n + 1 |-> IF i <= n THEN starts[i]
                                         ELSE l + HEADER + w]
<1>1. /\ n \in Nat /\ l \in Nat /\ w \in Nat /\ m \in Seq(Byte)
      /\ Frame(m) \in Seq(Byte)
  BY FrameIsBytes, MessageAssumption
<1>2. /\ starts \in [0 .. n -> Nat] /\ starts[0] = 0 /\ starts[n] = l
      /\ \A j \in 1 .. n : FrameAt(starts, stream, ms[j], j)
      /\ \A i, j \in 0 .. n : i < j => starts[i] + (j - i) <= starts[j]
  BY DEF Framed
<1>3. /\ Len(Frame(m)) = HEADER + w
      /\ \A i \in 1 .. HEADER : Frame(m)[i] = Header(w)[i]
      /\ \A i \in 1 .. w : Frame(m)[HEADER + i] = m[i]
  BY FrameParts
<1>4. /\ Len(new) = l + (HEADER + w)
      /\ \A i \in 1 .. l : new[i] = stream[i]
      /\ \A i \in 1 .. HEADER + w : new[l + i] = Frame(m)[i]
  <2>1. /\ Len(new) = l + Len(Frame(m))
        /\ \A i \in 1 .. l + Len(Frame(m)) :
             new[i] = IF i <= l THEN stream[i] ELSE Frame(m)[i - l]
    BY <1>1, ConcatProperties
  <2> HIDE DEF new, l, w
  <2>2. ASSUME NEW i \in 1 .. l PROVE new[i] = stream[i]
    <3>1. i \in 1 .. l + Len(Frame(m)) /\ i <= l
      BY <1>1, <1>3
    <3> QED BY <2>1, <3>1
  <2>3. ASSUME NEW i \in 1 .. HEADER + w PROVE new[l + i] = Frame(m)[i]
    <3> DEFINE x == l + i
    <3>1. x \in 1 .. l + Len(Frame(m)) /\ ~ (x <= l) /\ x - l = i
      BY <1>1, <1>3
    <3> HIDE DEF x
    <3>2. new[x] = Frame(m)[x - l]
      BY <2>1, <3>1
    <3> QED BY <3>1, <3>2 DEF x
  <2> QED BY <1>3, <2>1, <2>2, <2>3
<1>5. /\ Len(more) = n + 1 /\ more[n + 1] = m
      /\ \A j \in 1 .. n : more[j] = ms[j]
  BY AppendProperties
<1> HIDE DEF n, l, w, new, more
<1>6. /\ next \in [0 .. n + 1 -> Nat] /\ next[n + 1] = l + HEADER + w
      /\ \A i \in 0 .. n : next[i] = starts[i]
  BY <1>1, <1>2
<1> HIDE DEF next
<1>7. next[0] = 0 /\ next[n + 1] = Len(new)
  BY <1>1, <1>2, <1>4, <1>6
<1>8. ASSUME NEW i \in 0 .. n + 1, NEW j \in 0 .. n + 1, i < j
      PROVE  next[i] + (j - i) <= next[j]
  <2>1. CASE j <= n
    <3>1. i \in 0 .. n /\ j \in 0 .. n
      BY <1>1, <1>8, <2>1
    <3> QED BY <1>2, <1>6, <1>8, <3>1
  <2>2. CASE j = n + 1
    <3>1. i \in 0 .. n /\ n \in 0 .. n /\ next[i] = starts[i]
          /\ starts[i] \in Nat /\ next[j] = l + HEADER + w
      BY <1>1, <1>2, <1>6, <1>8, <2>2
    <3>2. starts[i] + (n - i) <= l
      <4>1. CASE i = n
        BY <1>1, <1>2, <4>1
      <4>2. CASE i < n
        BY <1>2, <3>1, <4>2
      <4> QED BY <1>1, <3>1, <4>1, <4>2
    <3>3. HEADER \in Nat /\ HEADER >= 1
      OBVIOUS
    <3> QED BY <1>1, <2>2, <3>1, <3>2, <3>3
  <2> QED BY <1>1, <2>1, <2>2
<1>9. ASSUME NEW j \in 1 .. n + 1 PROVE FrameAt(next, new, more[j], j)
  <2>1. CASE j <= n
    <3>1. j \in 1 .. n /\ j \in 0 .. n /\ j - 1 \in 0 .. n
      BY <1>1, <2>1
    <3>2. FrameAt(starts, stream, ms[j], j) /\ ms[j] \in Seq(Byte)
      BY <1>2, <3>1, MessageAssumption DEF n
    <3> DEFINE b == starts[j - 1]
               v == Len(ms[j])
    <3>3. b \in Nat /\ v \in Nat /\ starts[j] = b + HEADER + v
      <4>1. b \in Nat
        BY <1>2, <3>1
      <4>2. v \in Nat
        BY <3>2
      <4>3. starts[j] = b + HEADER + v
        BY <3>2 DEF FrameAt
      <4> QED BY <4>1, <4>2, <4>3
    <3>4. starts[j] <= l
      <4>1. CASE j = n
        BY <1>2, <1>1, <4>1
      <4>2. CASE j < n
        <5>1. starts[j] + (n - j) <= starts[n]
          BY <1>1, <1>2, <3>1, <4>2
        <5>2. starts[j] \in Nat
          BY <3>1, <1>2
        <5> QED BY <1>1, <1>2, <4>2, <5>1, <5>2
      <4> QED BY <1>1, <2>1, <4>1, <4>2
    <3>5. /\ \A i \in 1 .. HEADER : stream[b + i] = Header(v)[i]
          /\ \A i \in 1 .. v : stream[b + HEADER + i] = ms[j][i]
      BY <3>2 DEF FrameAt
    <3>6. next[j] = starts[j] /\ next[j - 1] = b /\ more[j] = ms[j]
      BY <1>5, <1>6, <3>1
    <3> HIDE DEF b, v
    <3>7. /\ \A i \in 1 .. HEADER : b + i \in 1 .. l
          /\ \A i \in 1 .. v : b + HEADER + i \in 1 .. l
      BY <1>1, <3>3, <3>4
    <3>8. /\ \A i \in 1 .. HEADER : new[b + i] = Header(v)[i]
          /\ \A i \in 1 .. v : new[b + HEADER + i] = ms[j][i]
      BY <1>4, <3>5, <3>7
    <3> QED BY <3>3, <3>6, <3>8 DEF FrameAt, v
  <2>2. CASE j = n + 1
    <3>1. j - 1 = n /\ n \in 0 .. n
      BY <1>1, <2>2
    <3>2. next[j - 1] = l /\ next[j] = l + HEADER + w /\ more[j] = m
      BY <1>2, <1>5, <1>6, <2>2, <3>1
    <3>3. \A i \in 1 .. HEADER : new[l + i] = Header(w)[i]
      <4>1. \A i \in 1 .. HEADER : i \in 1 .. HEADER + w
        BY <1>1
      <4> QED BY <1>3, <1>4, <4>1
    <3>4. \A i \in 1 .. w : new[l + HEADER + i] = m[i]
      <4>1. \A i \in 1 .. w : /\ HEADER + i \in 1 .. HEADER + w
                              /\ l + HEADER + i = l + (HEADER + i)
        BY <1>1
      <4> QED BY <1>3, <1>4, <4>1
    <3> QED BY <3>2, <3>3, <3>4 DEF FrameAt, w
  <2> QED BY <1>1, <2>1, <2>2
<1>10. Framed(next, new, more)
  BY <1>5, <1>6, <1>7, <1>8, <1>9 DEF Framed
<1> QED BY <1>6, <1>10 DEF n, l, w, new, more

(* What has been delivered is still so when one message more is sent. *)
LEMMA DeliveredStill ==
  ASSUME NEW stream \in Seq(Byte), NEW ms \in Seq(Message), NEW starts,
         NEW got \in Nat, NEW delivered \in Seq(Message), NEW rest \in Seq(Byte),
         DeliveredBy(starts, stream, ms, got, delivered, rest),
         NEW m \in Message
  PROVE  \E next : DeliveredBy(next, stream \o Frame(m), Append(ms, m),
                               got, delivered, rest)
<1> DEFINE k == Len(delivered)
           new == stream \o Frame(m)
           more == Append(ms, m)
<1>1. /\ Framed(starts, stream, ms) /\ k <= Len(ms)
      /\ delivered = SubSeq(ms, 1, k)
      /\ IsSlice(stream, starts[k], rest) /\ starts[k] + Len(rest) = got
      /\ k = Len(ms) \/ got < starts[k + 1]
  BY DEF DeliveredBy
<1>2. PICK next : /\ Framed(next, new, more)
                  /\ \A i \in 0 .. Len(ms) : next[i] = starts[i]
                  /\ next[Len(ms) + 1] = Len(stream) + HEADER + Len(m)
  BY <1>1, FramedMore
<1>3. /\ k \in Nat /\ Len(ms) \in Nat /\ Len(stream) \in Nat
      /\ Len(rest) \in Nat /\ Len(m) \in Nat /\ Frame(m) \in Seq(Byte)
  BY MessageAssumption, FrameIsBytes
<1>4. k \in 0 .. Len(ms) /\ starts[k] \in Nat /\ next[k] = starts[k]
  <2>1. k \in 0 .. Len(ms)
    BY <1>1, <1>3
  <2> QED BY <1>1, <1>2, <2>1 DEF Framed
<1>5. Len(more) = Len(ms) + 1
  BY AppendProperties
<1>6. delivered = SubSeq(more, 1, k)
  <2>1. SubSeq(more, 1, k) = SubSeq(ms, 1, k)
    <3>1. \A i \in 1 .. k : more[i] = ms[i]
      <4>1. \A i \in 1 .. Len(ms) : more[i] = ms[i]
        BY AppendProperties
      <4>2. \A i \in 1 .. k : i \in 1 .. Len(ms)
        BY <1>1, <1>3
      <4> QED BY <4>1, <4>2
    <3> HIDE DEF k, more
    <3> QED BY <1>3, <3>1
  <2> QED BY <1>1, <2>1
<1>7. IsSlice(new, starts[k], rest)
  <2>1. /\ starts[k] + Len(rest) <= Len(stream)
        /\ \A i \in 1 .. Len(rest) : rest[i] = stream[starts[k] + i]
    BY <1>1 DEF IsSlice
  <2>2. /\ Len(new) = Len(stream) + Len(Frame(m))
        /\ \A i \in 1 .. Len(stream) : new[i] = stream[i]
    <3>1. /\ Len(new) = Len(stream) + Len(Frame(m))
          /\ \A i \in 1 .. Len(stream) + Len(Frame(m)) :
               new[i] = IF i <= Len(stream) THEN stream[i]
                        ELSE Frame(m)[i - Len(stream)]
      BY <1>3, ConcatProperties
    <3>2. Len(Frame(m)) \in Nat
      BY <1>3
    <3>3. ASSUME NEW i \in 1 .. Len(stream) PROVE new[i] = stream[i]
      <4>1. i \in 1 .. Len(stream) + Len(Frame(m)) /\ i <= Len(stream)
        BY <1>3, <3>2
      <4> HIDE DEF new
      <4> QED BY <3>1, <4>1
    <3> QED BY <3>1, <3>3
  <2>3. \A i \in 1 .. Len(rest) : starts[k] + i \in 1 .. Len(stream)
    <3> DEFINE a == starts[k]
               r == Len(rest)
               l == Len(stream)
    <3>1. a \in Nat /\ r \in Nat /\ l \in Nat /\ a + r <= l
      BY <1>3, <1>4, <2>1
    <3> HIDE DEF a, r, l
    <3>2. \A i \in 1 .. r : a + i \in 1 .. l
      BY <3>1
    <3> QED BY <3>2 DEF a, r, l
  <2>4. Len(Frame(m)) \in Nat
    BY <1>3
  <2> HIDE DEF new, k
  <2>5. starts[k] + Len(rest) <= Len(new)
    BY <1>3, <1>4, <2>1, <2>2, <2>4
  <2> QED BY <2>1, <2>2, <2>3, <2>5 DEF IsSlice
<1>8. k = Len(more) \/ got < next[k + 1]
  <2>1. CASE k = Len(ms)
    <3>1. got <= Len(stream)
      BY <1>1 DEF IsSlice
    <3>2. next[k + 1] = Len(stream) + HEADER + Len(m)
      BY <1>2, <2>1
    <3>3. HEADER \in Nat /\ HEADER >= 1
      BY SizeAssumption
    <3> HIDE DEF k, more
    <3> QED BY <1>3, <3>1, <3>2, <3>3
  <2>2. CASE k # Len(ms)
    <3>1. k + 1 \in 0 .. Len(ms)
      BY <1>1, <1>3, <2>2
    <3> QED BY <1>1, <1>2, <2>2, <3>1
  <2> QED BY <2>1, <2>2
<1>9. k <= Len(more)
  BY <1>1, <1>3, <1>5
<1> HIDE DEF new, more
<1>10. DeliveredBy(next, new, more, got, delivered, rest)
  BY <1>1, <1>2, <1>4, <1>6, <1>7, <1>8, <1>9 DEF DeliveredBy
<1> QED BY <1>10 DEF new, more

(* The bytes from a place on, without those before a later place. *)
LEMMA SliceRest ==
  ASSUME NEW stream \in Seq(Byte), NEW bytes \in Seq(Byte), NEW a \in Nat,
         IsSlice(stream, a, bytes), NEW c \in Nat, c <= Len(bytes)
  PROVE  /\ SubSeq(bytes, c + 1, Len(bytes)) \in Seq(Byte)
         /\ Len(SubSeq(bytes, c + 1, Len(bytes))) = Len(bytes) - c
         /\ IsSlice(stream, a + c, SubSeq(bytes, c + 1, Len(bytes)))
<1> DEFINE l == Len(bytes)
           s == Len(stream)
           t == SubSeq(bytes, c + 1, l)
<1>1. l \in Nat /\ s \in Nat /\ c <= l
  OBVIOUS
<1>2. a + l <= s /\ \A i \in 1 .. l : bytes[i] = stream[a + i]
  BY DEF IsSlice
<1>3. /\ t \in Seq(Byte) /\ Len(t) = l - c
      /\ \A i \in 1 .. l - c : t[i] = bytes[c + i]
  BY <1>1, Part
<1> HIDE DEF t, l, s
<1>4. ASSUME NEW i \in 1 .. l - c PROVE t[i] = stream[(a + c) + i]
  <2>1. c + i \in 1 .. l /\ a + (c + i) = (a + c) + i
    BY <1>1
  <2> QED BY <1>2, <1>3, <2>1
<1>5. (a + c) + (l - c) <= s
  BY <1>1, <1>2
<1> QED BY <1>3, <1>4, <1>5 DEF IsSlice, t, l, s

(* assemble() delivers every message that lies within the bytes received. *)
LEMMA DeliveredNow ==
  ASSUME NEW stream \in Seq(Byte), NEW ms \in Seq(Message), NEW starts,
         NEW got \in Nat, NEW delivered \in Seq(Message), NEW rest \in Seq(Byte),
         DeliveredBy(starts, stream, ms, got, delivered, rest),
         NEW arrived \in Seq(Byte), IsSlice(stream, got, arrived),
         NEW end \in Nat, Len(arrived) = end - got
  PROVE  /\ Assembled(rest \o arrived) \in Seq(Message)
         /\ Unassembled(rest \o arrived) \in Seq(Byte)
         /\ DeliveredBy(starts, stream, ms, end,
                        delivered \o Assembled(rest \o arrived),
                        Unassembled(rest \o arrived))
<1> DEFINE k == Len(delivered)
           bytes == rest \o arrived
           l == Len(bytes)
<1>1. /\ Framed(starts, stream, ms) /\ k <= Len(ms)
      /\ delivered = SubSeq(ms, 1, k)
      /\ IsSlice(stream, starts[k], rest) /\ starts[k] + Len(rest) = got
  BY DEF DeliveredBy
<1>2. /\ k \in Nat /\ Len(ms) \in Nat /\ Len(rest) \in Nat
      /\ Len(arrived) \in Nat /\ k \in 0 .. Len(ms) /\ starts[k] \in Nat
  <2>1. /\ k \in Nat /\ Len(ms) \in Nat /\ Len(rest) \in Nat
        /\ Len(arrived) \in Nat
    OBVIOUS
  <2>2. k \in 0 .. Len(ms)
    BY <1>1, <2>1
  <2>3. starts \in [0 .. Len(ms) -> Nat]
    BY <1>1 DEF Framed
  <2> QED BY <2>1, <2>2, <2>3
<1>3. /\ bytes \in Seq(Byte) /\ l = Len(rest) + Len(arrived)
      /\ IsSlice(stream, starts[k], bytes)
  <2> HIDE DEF k
  <2> QED BY <1>1, <1>2, SliceGrows
<1>4. l \in Nat /\ starts[k] + l = end
  <2> DEFINE a == starts[k]
             r == Len(rest)
             v == Len(arrived)
  <2>1. /\ a \in Nat /\ r \in Nat /\ v \in Nat /\ a + r = got
        /\ v = end - got /\ l = r + v
    BY <1>1, <1>2, <1>3
  <2> HIDE DEF a, r, v, l
  <2>2. l \in Nat /\ a + l = end
    BY <2>1
  <2> QED BY <2>2 DEF a
<1>5. PICK j \in Nat : /\ Fits(starts, ms, k, l, j)
                       /\ NoneAfter(starts, ms, k, l, j)
                       /\ Assembly(bytes) = ReadTo(starts, ms, k, j)
  <2>1. /\ bytes \in Seq(Byte) /\ k \in 0 .. Len(ms)
        /\ IsSlice(stream, starts[k], bytes) /\ Framed(starts, stream, ms)
    BY <1>1, <1>2, <1>3
  <2> HIDE DEF k, bytes
  <2> QED BY <2>1, AssemblyReads
<1> HIDE DEF bytes, l
<1>6. /\ k + j <= Len(ms) /\ k + j \in 0 .. Len(ms) /\ k + j \in Nat
      /\ starts[k + j] <= starts[k] + l
  BY <1>2, <1>5 DEF Fits
<1>7. starts[k + j] \in Nat /\ starts[k] + j <= starts[k + j]
  <2> HIDE DEF k
  <2> QED BY <1>1, <1>2, <1>6, Places
<1> DEFINE c == starts[k + j] - starts[k]
<1>8. Assembled(bytes) = SubSeq(ms, k + 1, k + j)
      /\ Unassembled(bytes) = SubSeq(bytes, c + 1, Len(bytes))
  <2>1. /\ Assembly(bytes).messages = SubSeq(ms, k + 1, k + j)
        /\ Assembly(bytes).consumed = c
    <3>1. Assembly(bytes) =
            [consumed |-> c, messages |-> SubSeq(ms, k + 1, k + j)]
      BY <1>5 DEF ReadTo
    <3> DEFINE x == Assembly(bytes)
               t == SubSeq(ms, k + 1, k + j)
    <3>2. x = [consumed |-> c, messages |-> t]
      BY <3>1
    <3> HIDE DEF c, t, x
    <3>3. x.messages = t /\ x.consumed = c
      BY <3>2
    <3> QED BY <3>3 DEF t, x
  <2> QED BY <2>1 DEF Assembled, Unassembled
<1>9. c \in Nat /\ c <= l /\ starts[k] + c = starts[k + j]
      /\ (starts[k] + c) + (l - c) = end
  <2> DEFINE a == starts[k]
             b == starts[k + j]
  <2>1. /\ a \in Nat /\ b \in Nat /\ l \in Nat /\ c = b - a /\ a + l = end
        /\ b <= a + l /\ a + j <= b
    BY <1>2, <1>4, <1>6, <1>7
  <2> HIDE DEF a, b, c, l
  <2>2. /\ c \in Nat /\ c <= l /\ a + c = b /\ (a + c) + (l - c) = end
    BY <2>1
  <2> QED BY <2>2 DEF a, b
<1> HIDE DEF c
<1>10. /\ Unassembled(bytes) \in Seq(Byte)
       /\ Len(Unassembled(bytes)) = l - c
       /\ IsSlice(stream, starts[k + j], Unassembled(bytes))
  <2>1. c <= Len(bytes)
    BY <1>9 DEF l
  <2>2. LET t == SubSeq(bytes, c + 1, Len(bytes))
        IN  /\ t \in Seq(Byte) /\ Len(t) = Len(bytes) - c
            /\ IsSlice(stream, starts[k] + c, t)
    <3>1. /\ bytes \in Seq(Byte) /\ starts[k] \in Nat /\ c \in Nat
          /\ IsSlice(stream, starts[k], bytes)
      BY <1>2, <1>3, <1>9
    <3> HIDE DEF k
    <3> QED BY <2>1, <3>1, SliceRest
  <2> QED BY <1>8, <1>9, <2>2 DEF l
<1>11. starts[k + j] + Len(Unassembled(bytes)) = end
  BY <1>9, <1>10
<1>12. Assembled(bytes) \in Seq(Message)
  <2>1. k <= k + j
    BY <1>2
  <2> HIDE DEF k
  <2> QED BY <1>2, <1>6, <1>8, <2>1, Part
<1>13. delivered \o Assembled(bytes) = SubSeq(ms, 1, k + j)
  <2>1. 1 \in 1 .. Len(ms) + 1 /\ k \in 1 - 1 .. Len(ms)
        /\ k + j \in k .. Len(ms)
    BY <1>2, <1>6
  <2> HIDE DEF k
  <2>2. SubSeq(ms, 1, k) \o SubSeq(ms, k + 1, k + j) = SubSeq(ms, 1, k + j)
    BY <2>1, ConcatAdjacentSubSeq
  <2> QED BY <1>1, <1>8, <2>2
<1>14. Len(delivered \o Assembled(bytes)) = k + j
  <2>1. \A i \in 1 .. k + j : ms[i] \in Message
    <3>1. \A i \in 1 .. k + j : i \in 1 .. Len(ms)
      BY <1>2, <1>6
    <3> QED BY <3>1
  <2> HIDE DEF k
  <2>2. Len(SubSeq(ms, 1, k + j)) = k + j
    <3> DEFINE n == k + j
    <3>1. 1 \in Int /\ n \in Int /\ n \in Nat
      BY <1>2, <1>6
    <3>2. \A i \in 1 .. n : ms[i] \in Message
      BY <2>1
    <3> HIDE DEF n
    <3>3. Len(SubSeq(ms, 1, n)) = IF 1 <= n THEN n - 1 + 1 ELSE 0
      BY <3>1, <3>2, SubSeqProperties
    <3>4. Len(SubSeq(ms, 1, n)) = n
      BY <3>1, <3>3
    <3> QED BY <3>4 DEF n
  <2> QED BY <1>13, <2>2
<1>15. k + j = Len(ms) \/ end < starts[(k + j) + 1]
  BY <1>4, <1>5 DEF NoneAfter
<1>16. DeliveredBy(starts, stream, ms, end,
                   delivered \o Assembled(bytes), Unassembled(bytes))
  <2> HIDE DEF k
  <2> QED BY <1>1, <1>6, <1>10, <1>11, <1>13, <1>14, <1>15 DEF DeliveredBy
<1> QED BY <1>10, <1>12, <1>16 DEF bytes

(* When all the bytes have come, so have all the messages. *)
LEMMA DeliveredAll ==
  ASSUME NEW stream \in Seq(Byte), NEW ms \in Seq(Message), NEW starts,
         NEW got \in Nat, NEW delivered \in Seq(Message), NEW rest \in Seq(Byte),
         DeliveredBy(starts, stream, ms, got, delivered, rest),
         got = Len(stream)
  PROVE  delivered = ms /\ rest = <<>>
<1> DEFINE k == Len(delivered)
<1>1. /\ Framed(starts, stream, ms) /\ k <= Len(ms)
      /\ delivered = SubSeq(ms, 1, k) /\ starts[k] + Len(rest) = got
      /\ k = Len(ms) \/ got < starts[k + 1]
  BY DEF DeliveredBy
<1>2. k \in Nat /\ Len(ms) \in Nat /\ Len(rest) \in Nat /\ Len(stream) \in Nat
  OBVIOUS
<1>3. k = Len(ms)
  <2> SUFFICES ASSUME k # Len(ms) PROVE FALSE
    OBVIOUS
  <2>1. k + 1 \in 0 .. Len(ms) /\ 0 \in Nat /\ (k + 1) + 0 = k + 1
        /\ (k + 1) + 0 <= Len(ms)
    BY <1>1, <1>2
  <2>2. starts[(k + 1) + 0] \in Nat /\ starts[(k + 1) + 0] <= Len(stream)
    <3> HIDE DEF k
    <3> QED BY <1>1, <2>1, Places
  <2> QED BY <1>1, <1>2, <2>1, <2>2
<1>4. delivered = ms
  BY <1>1, <1>3, SubSeqFull
<1>5. Len(rest) = 0
  <2>1. starts[k] = Len(stream)
    BY <1>1, <1>3 DEF Framed
  <2> QED BY <1>1, <1>2, <2>1
<1> QED BY <1>4, <1>5, EmptySeq
-----------------------------------------------------------------------------
(* What assemble() leaves in incoming is the front of the next message. *)
DeliveryType ==
  /\ posted \in [End -> Seq(Message)]
  /\ taken \in [End -> Seq(Message)]
  /\ messages \in [End -> Seq(Message)]
  /\ incoming \in [End -> Seq(Byte)]

Delivers(e, starts) ==
  DeliveredBy(starts, sent[Other(e)], posted[Other(e)], received[e],
              taken[e] \o messages[e], incoming[e])

FramingKept == \A e \in End : \E starts : Delivers(e, starts)

DInv == IInv /\ DeliveryType /\ FramingKept

(* The types that the lemmas about an end need. *)
LEMMA EndType ==
  ASSUME DInv, NEW e \in End
  PROVE  /\ sent[e] \in Seq(Byte) /\ posted[e] \in Seq(Message)
         /\ received[e] \in Nat /\ incoming[e] \in Seq(Byte)
         /\ taken[e] \in Seq(Message) /\ messages[e] \in Seq(Message)
         /\ taken[e] \o messages[e] \in Seq(Message)
<1>1. /\ sent \in [End -> Seq(Byte)] /\ received \in [End -> Nat]
      /\ DeliveryType
  BY DEF DInv, IInv, TypeOK
<1>2. taken[e] \in Seq(Message) /\ messages[e] \in Seq(Message)
  BY <1>1 DEF DeliveryType
<1>3. taken[e] \o messages[e] \in Seq(Message)
  BY <1>2
<1> QED BY <1>1, <1>2, <1>3 DEF DeliveryType

(* Nothing is sent and nothing is delivered. *)
LEMMA InitDelivery == Init => DInv
<1> SUFFICES ASSUME Init PROVE DInv
  OBVIOUS
<1>1. IInv
  BY InitInvariant
<1>2. DeliveryType
  BY EmptySeq DEF Init, DeliveryType
<1>3. ASSUME NEW e \in End PROVE \E starts : Delivers(e, starts)
  <2> DEFINE starts == [i \in 0 .. 0 |-> 0]
  <2>1. Other(e) \in End
    BY OtherEnd
  <2>2. /\ sent[Other(e)] = <<>> /\ posted[Other(e)] = <<>>
        /\ received[e] = 0 /\ incoming[e] = <<>>
        /\ taken[e] = <<>> /\ messages[e] = <<>>
    BY <2>1 DEF Init
  <2>3. /\ starts \in [0 .. Len(<<>>) -> Nat] /\ starts[0] = 0
        /\ starts[Len(<<>>)] = Len(<<>>)
    OBVIOUS
  <2> HIDE DEF starts
  <2>4. Framed(starts, <<>>, <<>>)
    BY <2>3 DEF Framed
  <2>5. IsSlice(<<>>, starts[0], <<>>)
    BY <2>3 DEF IsSlice
  <2>6. taken[e] \o messages[e] = <<>>
    BY <2>2
  <2>7. DeliveredBy(starts, <<>>, <<>>, 0, <<>>, <<>>)
    BY <2>3, <2>4, <2>5 DEF DeliveredBy
  <2>8. Delivers(e, starts)
    BY <2>2, <2>6, <2>7 DEF Delivers
  <2> QED BY <2>8
<1> QED BY <1>1, <1>2, <1>3 DEF DInv, FramingKept

(* A step that touches neither the streams nor what came out of them. *)
LEMMA DeliveryUntouched ==
  ASSUME DInv, IInv',
         UNCHANGED <<sent, posted, received, taken, messages, incoming>>
  PROVE  DInv'
<1>1. DeliveryType'
  BY DEF DInv, DeliveryType
<1>2. FramingKept'
  BY DEF DInv, FramingKept, Delivers
<1> QED BY <1>1, <1>2 DEF DInv

(* send() puts a message behind all the others. *)
LEMMA SendDelivery ==
  ASSUME DInv, NEW e \in End, NEW m \in Message, Send(e, m), IInv'
  PROVE  DInv'
<1>1. /\ sent' = [sent EXCEPT ![e] = @ \o Frame(m)]
      /\ posted' = [posted EXCEPT ![e] = Append(@, m)]
      /\ UNCHANGED <<received, taken, messages, incoming>>
  BY DEF Send
<1>2. sent \in [End -> Seq(Byte)] /\ DeliveryType /\ FramingKept
  BY DEF DInv, IInv, TypeOK
<1>3. DeliveryType'
  <2>1. Append(posted[e], m) \in Seq(Message)
    BY EndType
  <2>2. posted' \in [End -> Seq(Message)]
    BY <1>1, <1>2, <2>1 DEF DeliveryType
  <2> QED BY <1>1, <1>2, <2>2 DEF DeliveryType
<1>4. ASSUME NEW x \in End PROVE \E starts : Delivers(x, starts)'
  <2>1. PICK starts : Delivers(x, starts)
    BY <1>2 DEF FramingKept
  <2>2. CASE Other(x) = e
    <3>1. sent'[e] = sent[e] \o Frame(m) /\ posted'[e] = Append(posted[e], m)
      BY <1>1, <1>2 DEF DeliveryType
    <3>2. DeliveredBy(starts, sent[e], posted[e], received[x],
                      taken[x] \o messages[x], incoming[x])
      BY <2>1, <2>2 DEF Delivers
    <3>3. /\ sent[e] \in Seq(Byte) /\ posted[e] \in Seq(Message)
          /\ received[x] \in Nat /\ taken[x] \o messages[x] \in Seq(Message)
          /\ incoming[x] \in Seq(Byte)
      BY EndType
    <3>4. PICK next :
            DeliveredBy(next, sent[e] \o Frame(m), Append(posted[e], m),
                        received[x], taken[x] \o messages[x], incoming[x])
      BY <3>2, <3>3, DeliveredStill
    <3>5. Delivers(x, next)'
      BY <1>1, <2>2, <3>1, <3>4 DEF Delivers
    <3> QED BY <3>5
  <2>3. CASE Other(x) # e
    <3>1. Other(x) \in End
      BY OtherEnd
    <3>2. sent'[Other(x)] = sent[Other(x)] /\ posted'[Other(x)] = posted[Other(x)]
      BY <1>1, <1>2, <2>3, <3>1 DEF DeliveryType
    <3>3. Delivers(x, starts)'
      BY <1>1, <2>1, <3>2 DEF Delivers
    <3> QED BY <3>3
  <2> QED BY <2>2, <2>3
<1>5. FramingKept'
  BY <1>4 DEF FramingKept
<1> QED BY <1>3, <1>5 DEF DInv

(* take_messages() hands over what was assembled. *)
LEMMA TakeDelivery ==
  ASSUME DInv, NEW e \in End, TakeMessages(e), IInv'
  PROVE  DInv'
<1>1. /\ taken' = [taken EXCEPT ![e] = @ \o messages[e]]
      /\ messages' = [messages EXCEPT ![e] = <<>>]
      /\ UNCHANGED <<sent, posted, received, incoming>>
  BY DEF TakeMessages, receiverVars
<1>2. DeliveryType /\ FramingKept
  BY DEF DInv
<1>3. taken[e] \o messages[e] \in Seq(Message)
  BY EndType
<1>4. DeliveryType'
  <2>1. <<>> \in Seq(Message)
    BY EmptySeq
  <2> QED BY <1>1, <1>2, <1>3, <2>1 DEF DeliveryType
<1>5. ASSUME NEW x \in End PROVE \E starts : Delivers(x, starts)'
  <2>1. PICK starts : Delivers(x, starts)
    BY <1>2 DEF FramingKept
  <2>2. taken'[x] \o messages'[x] = taken[x] \o messages[x]
    <3>1. CASE x = e
      <4>1. taken'[x] = taken[e] \o messages[e] /\ messages'[x] = <<>>
        BY <1>1, <1>2, <3>1 DEF DeliveryType
      <4>2. (taken[e] \o messages[e]) \o <<>> = taken[e] \o messages[e]
        BY <1>3, ConcatEmptySeq
      <4> QED BY <3>1, <4>1, <4>2
    <3>2. CASE x # e
      BY <1>1, <1>2, <3>2 DEF DeliveryType
    <3> QED BY <3>1, <3>2
  <2>3. Delivers(x, starts)'
    BY <1>1, <2>1, <2>2 DEF Delivers
  <2> QED BY <2>3
<1>6. FramingKept'
  BY <1>5 DEF FramingKept
<1> QED BY <1>4, <1>6 DEF DInv

(* receive() of the next bytes assembles the messages they complete. *)
LEMMA ReceiveNextDelivery ==
  ASSUME DInv, NEW e \in End, NEW d \in network[Other(e)], ReceiveNext(e, d),
         IInv'
  PROVE  DInv'
<1> DEFINE peer == sent[Other(e)]
<1>1. UNCHANGED <<sent, posted, taken>>
  BY DEF ReceiveNext
<1>2. /\ DeliveryType /\ FramingKept /\ IInv
      /\ received \in [End -> Nat] /\ Other(e) \in End
  BY OtherEnd DEF DInv, IInv, TypeOK
<1>3. PICK end \in Nat, arrived \in Seq(Byte) :
        /\ received[e] < end /\ end <= transmitted[Other(e)]
        /\ end \notin DOMAIN reordered[e]
        /\ Len(arrived) = end - received[e]
        /\ IsSlice(peer, received[e], arrived)
        /\ received' = [received EXCEPT ![e] = end]
        /\ reordered' = [reordered EXCEPT
             ![e] = [o \in StillHeld(@, end) |-> @[o]]]
        /\ accepted' = [accepted EXCEPT ![e] = @ \o arrived]
        /\ incoming' = [incoming EXCEPT ![e] = Unassembled(@ \o arrived)]
        /\ messages' = [messages EXCEPT
             ![e] = @ \o Assembled(incoming[e] \o arrived)]
  <2>1. IInv
    BY <1>2
  <2> QED BY <2>1, ReceivedBytes
<1> DEFINE bytes == incoming[e] \o arrived
           done == Assembled(bytes)
           left == Unassembled(bytes)
<1>4. PICK starts : Delivers(e, starts)
  BY <1>2 DEF FramingKept
<1>5. /\ done \in Seq(Message) /\ left \in Seq(Byte)
      /\ DeliveredBy(starts, peer, posted[Other(e)], end,
                     (taken[e] \o messages[e]) \o done, left)
  <2>1. /\ peer \in Seq(Byte) /\ posted[Other(e)] \in Seq(Message)
        /\ received[e] \in Nat /\ incoming[e] \in Seq(Byte)
        /\ taken[e] \o messages[e] \in Seq(Message)
    BY <1>2, EndType
  <2>2. DeliveredBy(starts, peer, posted[Other(e)], received[e],
                    taken[e] \o messages[e], incoming[e])
    BY <1>4 DEF Delivers
  <2> HIDE DEF peer
  <2> QED BY <1>3, <2>1, <2>2, DeliveredNow
<1>6. (taken[e] \o messages[e]) \o done = taken[e] \o (messages[e] \o done)
      /\ messages[e] \o done \in Seq(Message)
  <2>1. taken[e] \in Seq(Message) /\ messages[e] \in Seq(Message)
    BY EndType
  <2> HIDE DEF done
  <2>2. (taken[e] \o messages[e]) \o done = taken[e] \o (messages[e] \o done)
    <3> DEFINE p == taken[e]
               q == messages[e]
    <3>1. p \in Seq(Message) /\ q \in Seq(Message) /\ done \in Seq(Message)
      BY <1>5, <2>1
    <3> HIDE DEF p, q
    <3>2. (p \o q) \o done = p \o (q \o done)
      BY <3>1, ConcatAssociative
    <3> QED BY <3>2 DEF p, q
  <2>3. messages[e] \o done \in Seq(Message)
    BY <1>5, <2>1, ConcatProperties
  <2> QED BY <2>2, <2>3
<1>7. /\ received'[e] = end /\ messages'[e] = messages[e] \o done
      /\ incoming'[e] = left
      /\ \A x \in End \ {e} : /\ received'[x] = received[x]
                              /\ messages'[x] = messages[x]
                              /\ incoming'[x] = incoming[x]
  BY <1>2, <1>3 DEF DeliveryType
<1>8. DeliveryType'
  <2>1. messages' \in [End -> Seq(Message)]
    <3> HIDE DEF done
    <3> QED BY <1>2, <1>3, <1>6 DEF DeliveryType, done
  <2>2. incoming' \in [End -> Seq(Byte)]
    <3> HIDE DEF left
    <3> QED BY <1>2, <1>3, <1>5 DEF DeliveryType, left
  <2> QED BY <1>1, <1>2, <2>1, <2>2 DEF DeliveryType
<1> HIDE DEF done, left
<1>9. ASSUME NEW x \in End PROVE \E s : Delivers(x, s)'
  <2>1. CASE x = e
    <3>1. Delivers(e, starts)'
      BY <1>1, <1>5, <1>6, <1>7 DEF Delivers
    <3> QED BY <2>1, <3>1
  <2>2. CASE x # e
    <3>1. PICK s : Delivers(x, s)
      BY <1>2 DEF FramingKept
    <3>2. Delivers(x, s)'
      BY <1>1, <1>7, <2>2, <3>1 DEF Delivers
    <3> QED BY <3>2
  <2> QED BY <2>1, <2>2
<1>10. FramingKept'
  BY <1>9 DEF FramingKept
<1> QED BY <1>8, <1>10 DEF DInv

(* No step loses the framing. *)
LEMMA NextDelivery == DInv /\ [Next]_vars => DInv'
<1> SUFFICES ASSUME DInv, [Next]_vars PROVE DInv'
  OBVIOUS
<1>1. IInv'
  BY NextInvariant DEF DInv
<1>2. ASSUME NEW e \in End, NEW m \in Message, Send(e, m)
      PROVE  DInv'
  BY <1>1, <1>2, SendDelivery
<1>3. ASSUME NEW e \in End, NEW d \in network[Other(e)], Receive(e, d)
      PROVE  DInv'
  <2>1. CASE ReceiveNext(e, d)
    BY <1>1, <2>1, ReceiveNextDelivery
  <2>2. CASE ReceiveNothing(e, d)
    BY <1>1, <2>2, DeliveryUntouched
    DEF ReceiveNothing, receiverVars, historyVars
  <2>3. CASE ReceiveEarly(e, d)
    BY <1>1, <2>3, DeliveryUntouched DEF ReceiveEarly, historyVars
  <2> QED BY <1>3, <2>1, <2>2, <2>3 DEF Receive
<1>4. ASSUME NEW e \in End, NEW retry \in BOOLEAN, NEW heartbeat \in BOOLEAN,
             Update(e, retry, heartbeat)
      PROVE  DInv'
  BY <1>1, <1>4, DeliveryUntouched DEF Update, receiverVars, historyVars
<1>5. ASSUME NEW e \in End, TakeMessages(e)
      PROVE  DInv'
  BY <1>1, <1>5, TakeDelivery
<1>6. CASE UNCHANGED vars
  BY <1>1, <1>6, DeliveryUntouched DEF vars
<1> QED BY <1>2, <1>3, <1>4, <1>5, <1>6 DEF Next

(* The framing is kept in every behaviour. *)
LEMMA Delivery == Spec => []DInv
BY InitDelivery, NextDelivery, PTL DEF Spec

(* What has been delivered is the first of what was posted. *)
LEMMA DeliveredFirst ==
  ASSUME DInv, NEW e \in End
  PROVE  LET delivered == taken[e] \o messages[e]
         IN  /\ delivered \in Seq(Message)
             /\ Len(delivered) <= Len(posted[Other(e)])
             /\ delivered = SubSeq(posted[Other(e)], 1, Len(delivered))
             /\ received[e] = Len(sent[Other(e)])
                  => delivered = posted[Other(e)] /\ incoming[e] = <<>>
<1>1. Other(e) \in End
  BY OtherEnd
<1>2. PICK starts : Delivers(e, starts)
  BY DEF DInv, FramingKept
<1> DEFINE delivered == taken[e] \o messages[e]
           ms == posted[Other(e)]
           stream == sent[Other(e)]
<1>3. DeliveredBy(starts, stream, ms, received[e], delivered, incoming[e])
  BY <1>2 DEF Delivers
<1>4. /\ stream \in Seq(Byte) /\ ms \in Seq(Message) /\ received[e] \in Nat
      /\ delivered \in Seq(Message) /\ incoming[e] \in Seq(Byte)
  BY <1>1, EndType
<1> HIDE DEF delivered, ms, stream
<1>5. Len(delivered) <= Len(ms) /\ delivered = SubSeq(ms, 1, Len(delivered))
  BY <1>3 DEF DeliveredBy
<1>6. received[e] = Len(stream) => delivered = ms /\ incoming[e] = <<>>
  BY <1>3, <1>4, DeliveredAll
<1> QED BY <1>4, <1>5, <1>6 DEF delivered, ms, stream

(* assemble() never loses the framing: whatever the socket does, messages  *)
(* come out whole, once, in the order of send(), and as soon as their last *)
(* byte is contiguous.                                                     *)
THEOREM MessagesComeWholeAndInOrder == Spec => []MessagesInOrder
<1>1. DInv => MessagesInOrder
  BY DeliveredFirst DEF MessagesInOrder
<1> QED BY <1>1, Delivery, PTL

(* Channel implements the two streams of MessageStream: send() posts, and  *)
(* take_messages() takes some of what was posted, oldest first.            *)
THEOREM ChannelImplementsStreams == Spec => Implements
<1>1. Init => Stream!Init
  BY DEF Init, Stream!Init
<1>2. ASSUME DInv, DInv', [Next]_vars
      PROVE  [Stream!Next]_(Stream!streamVars)
  <2>1. ASSUME NEW e \in End, NEW m \in Message, Send(e, m)
        PROVE  Stream!Next
    <3>1. Stream!Post(e, m)
      BY <2>1 DEF Send, Stream!Post
    <3> QED BY <3>1 DEF Stream!Next
  <2>2. ASSUME NEW e \in End, TakeMessages(e)
        PROVE  Stream!Next
    <3> DEFINE delivered == taken[e] \o messages[e]
               n == Len(delivered)
    <3>1. /\ taken' = [taken EXCEPT ![e] = delivered] /\ UNCHANGED posted
          /\ messages[e] # <<>>
      BY <2>2 DEF TakeMessages
    <3>2. /\ taken[e] \in Seq(Message) /\ messages[e] \in Seq(Message)
          /\ posted[Other(e)] \in Seq(Message)
      BY <1>2, OtherEnd, EndType
    <3>3. n <= Len(posted[Other(e)])
          /\ delivered = SubSeq(posted[Other(e)], 1, n)
      BY <1>2, DeliveredFirst
    <3>4. n \in (Len(taken[e]) + 1) .. Len(posted[Other(e)])
      <4>1. n = Len(taken[e]) + Len(messages[e])
        BY <3>2, ConcatProperties
      <4>2. /\ Len(taken[e]) \in Nat /\ Len(messages[e]) \in Nat \ {0}
            /\ Len(posted[Other(e)]) \in Nat
        BY <3>1, <3>2, EmptySeq
      <4> DEFINE a == Len(taken[e])
                 b == Len(messages[e])
                 l == Len(posted[Other(e)])
      <4>3. /\ a \in Nat /\ b \in Nat \ {0} /\ l \in Nat
            /\ n = a + b /\ n <= l
        BY <3>3, <4>1, <4>2
      <4> HIDE DEF n, a, b, l
      <4>4. n \in (a + 1) .. l
        BY <4>3
      <4> QED BY <4>4 DEF a, l
    <3>5. Stream!Take(e)
      <4>1. taken' = [taken EXCEPT ![e] = SubSeq(posted[Other(e)], 1, n)]
        BY <3>1, <3>3
      <4> HIDE DEF n
      <4> QED BY <3>1, <3>4, <4>1 DEF Stream!Take
    <3> QED BY <3>5 DEF Stream!Next
  <2>3. ASSUME UNCHANGED <<posted, taken>>
        PROVE  UNCHANGED Stream!streamVars
    BY <2>3 DEF Stream!streamVars
  <2>4. ASSUME NEW e \in End, NEW d \in network[Other(e)], Receive(e, d)
        PROVE  UNCHANGED <<posted, taken>>
    BY <2>4 DEF Receive, ReceiveNothing, ReceiveEarly, ReceiveNext, historyVars
  <2>5. ASSUME NEW e \in End, NEW retry \in BOOLEAN,
               NEW heartbeat \in BOOLEAN, Update(e, retry, heartbeat)
        PROVE  UNCHANGED <<posted, taken>>
    BY <2>5 DEF Update, historyVars
  <2>6. CASE UNCHANGED vars
    BY <2>3, <2>6 DEF vars
  <2>7. CASE Next
    BY <2>1, <2>2, <2>3, <2>4, <2>5, <2>7 DEF Next
  <2> QED BY <1>2, <2>6, <2>7
<1> QED BY <1>1, <1>2, Delivery, PTL DEF Spec, Implements, Stream!Spec
=============================================================================
