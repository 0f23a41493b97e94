---------------------------- MODULE BinaryFormat ----------------------------
(***************************************************************************)
(* lf::bin: the bytes that values are written to, and the readers, which   *)
(* take the input and how much of it has been read (the cursor).  A byte   *)
(* has ByteBits bits, of which a size varint spends one to say that it     *)
(* goes on; an integer of the size of size_t has WordBytes bytes.          *)
(***************************************************************************)
EXTENDS Integers, Sequences, SequencesExt, FiniteSetsExt, Iteration

CONSTANTS ByteBits,     \* 8 in the code
          WordBytes,    \* sizeof(size_t)
          MaxElements   \* read_limits::max_vector_elements

WordBits == WordBytes * ByteBits

(* The powers of two that numbers and their digits are counted by.         *)
Power == [n \in 0 .. WordBits + ByteBits |-> PowerOfTwo(n)]

ASSUME FormatAssumption == /\ ByteBits \in Nat /\ ByteBits > 1
                           /\ WordBytes \in Nat \ {0}
                           /\ MaxElements \in 0 .. Power[WordBits] - 1

Byte == Power[ByteBits]
PayloadBits == ByteBits - 1
Payload == Power[PayloadBits]

(* The i-th group of bits of a number, counted from the lowest.            *)
Digit(n, bits, i) == (n \div Power[bits * (i - 1)]) % Power[bits]

(* The number whose groups of bits these are.                              *)
Number(digits, bits) ==
  Iterated([x \in Nat \X DOMAIN digits |->
              x[1] + digits[x[2]] * Power[bits * (x[2] - 1)]],
           0, Len(digits))
-----------------------------------------------------------------------------
(* Writing. *)

(* The lowest byte comes first. *)
Word(n) == [i \in 1 .. WordBytes |-> Digit(n, ByteBits, i)]

Bool(flag) == <<IF flag THEN 1 ELSE 0>>

(* A varint may have as many bytes as the bits of a size_t need, and in    *)
(* the last of them only the bits that are left.                           *)
MaxSizeBytes == (WordBits + ByteBits - 2) \div PayloadBits

LastPayload == Power[((WordBits - 1) % PayloadBits) + 1] - 1

Size(n) ==
  LET count == Min({k \in 1 .. MaxSizeBytes : n < Power[PayloadBits * k]})
  IN  [i \in 1 .. count |->
         Digit(n, PayloadBits, i) + (IF i < count THEN Payload ELSE 0)]

(* Of elements that were written one by one. *)
Vector(elements) == Size(Len(elements)) \o FlattenSeq(elements)

Optional(has, bytes) == Bool(has) \o (IF has THEN bytes ELSE <<>>)
-----------------------------------------------------------------------------
(* Reading: a value and the cursor behind it, or an error.  Readers of     *)
(* elements take a reader of one, a function of the cursor.                *)

Read(value, cursor) == [ok |-> TRUE, value |-> value, cursor |-> cursor]

Refused == [ok |-> FALSE]

(* read_stream::bytes *)
ReadBytes(input, cursor, count) ==
  IF count > Len(input) - cursor THEN Refused
  ELSE Read(SubSeq(input, cursor + 1, cursor + count), cursor + count)

ReadWord(input, cursor) ==
  LET bytes == ReadBytes(input, cursor, WordBytes)
  IN  IF bytes.ok /\ Range(bytes.value) \subseteq 0 .. Byte - 1
      THEN Read(Number(bytes.value, ByteBits), bytes.cursor) ELSE Refused

(* Only 0 and 1 are canonical. *)
ReadBool(input, cursor) ==
  LET bytes == ReadBytes(input, cursor, 1)
  IN  IF bytes.ok /\ bytes.value[1] \in {0, 1}
      THEN Read(bytes.value[1] = 1, bytes.cursor) ELSE Refused

(* One of the values that the type has, a byte each. *)
ReadEnum(input, cursor, valid) ==
  LET bytes == ReadBytes(input, cursor, 1)
  IN  IF bytes.ok /\ bytes.value[1] \in valid
      THEN Read(bytes.value[1], bytes.cursor) ELSE Refused

(* Where the varint that begins behind the cursor may end.                 *)
SizeEnds(input, cursor) ==
  {n \in 1 .. MaxSizeBytes :
     /\ cursor + n <= Len(input)
     /\ input[cursor + n] \in 0 .. Payload - 1
     /\ \A i \in 1 .. n - 1 : input[cursor + i] \in Payload .. Byte - 1}

(* Faulty variant: the bytes are put together as if each carried ByteBits. *)
ReadSizeSpread(input, cursor) ==
  LET ends == SizeEnds(input, cursor)
  IN  IF ends = {} THEN Refused
      ELSE Read(Number([i \in 1 .. Min(ends) |-> input[cursor + i] % Payload],
                       ByteBits), cursor + Min(ends))

ReadSize(input, cursor) ==
  LET ends == SizeEnds(input, cursor)
      count == Min(ends)
      digits == [i \in 1 .. count |-> input[cursor + i] % Payload]
  IN  IF ends # {} /\ (count = MaxSizeBytes => digits[count] <= LastPayload)
      THEN Read(Number(digits, PayloadBits), cursor + count) ELSE Refused

(* One more of the values that come one after the other.                   *)
OneMore(sofar, readOne) ==
  LET one == readOne[sofar.cursor]
  IN  IF sofar.ok /\ one.ok
      THEN Read(Append(sofar.value, one.value), one.cursor) ELSE Refused

ReadEach(cursor, count, readOne) ==
  LET upTo[i \in 0 .. count] == IF i = 0 THEN Read(<<>>, cursor)
                                ELSE OneMore(upTo[i - 1], readOne)
  IN  upTo[count]

ReadVector(input, cursor, readOne) ==
  LET size == ReadSize(input, cursor)
  IN  IF size.ok /\ size.value <= MaxElements
      THEN ReadEach(size.cursor, size.value, readOne) ELSE Refused

(* An absent value reads as absent. *)
ReadOptional(input, cursor, readOne, absent) ==
  LET present == ReadBool(input, cursor)
  IN  CASE ~ present.ok -> Refused
        [] present.ok /\ present.value -> readOne[present.cursor]
        [] present.ok /\ ~ present.value -> Read(absent, present.cursor)

(* bin::read: nothing may be left over. *)
Whole(input, result) ==
  IF result.ok /\ result.cursor = Len(input) THEN result ELSE Refused
=============================================================================
