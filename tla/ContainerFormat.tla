--------------------------- MODULE ContainerFormat ---------------------------
(***************************************************************************)
(* The bytes of a component_container and of the entities of a Changes.    *)
(* A component is an enumeration here: its value is a byte of its own.     *)
(***************************************************************************)
EXTENDS ComponentContainer, BinaryFormat

CONSTANT Default  \* the value of a component T{}: that of the dummy

ASSUME ComponentAssumption == /\ IsFiniteSet(Component)
                              /\ Default \notin Value
                              /\ (Value \cup {Default}) \cap 0 .. Byte = {}

(* What is written counts no further than a size_t or a reader's limit.    *)
ASSUME LimitAssumption == MaxSlots < MaxElements

(* component_index: the types in the order of the template's arguments.    *)
Types == SetToSeq(Component)

ValueBytes(v) == <<v>>

ReadValue(input, cursor) == ReadEnum(input, cursor, Value \cup {Default})

(* Identifiers are counted from zero in the free list and among owners.    *)
IndexBytes(id) == Word(id - 1)

SlotBytes(slot) == FlattenSeq([j \in DOMAIN Types |-> Word(slot[Types[j]])])

StorageBytes(storage) ==
  LET values == [k \in DOMAIN storage |-> ValueBytes(storage[k].value)]
      owners == [k \in DOMAIN storage |-> IndexBytes(storage[k].owner)]
  IN  Vector(<<ValueBytes(Default)>> \o values)
        \o Vector(<<Word(0)>> \o owners)

ContainerBytes(c) ==
  Vector([i \in DOMAIN c.slots |-> SlotBytes(c.slots[i])])
    \o Vector([i \in DOMAIN c.free |-> IndexBytes(c.free[i])])
    \o FlattenSeq([j \in DOMAIN Types |-> StorageBytes(c.dense[Types[j]])])
-----------------------------------------------------------------------------
(* What was read for each type, by type. *)
ByType(read) ==
  [t \in Component |-> read[CHOOSE j \in DOMAIN Types : Types[j] = t]]

ReadIndex(input, cursor) ==
  LET word == ReadWord(input, cursor)
  IN  IF word.ok THEN Read(word.value + 1, word.cursor) ELSE Refused

ReadSlot(input, cursor) ==
  LET places == ReadEach(cursor, Len(Types),
                         [at \in Nat |-> ReadWord(input, at)])
  IN  IF places.ok THEN Read(ByType(places.value), places.cursor) ELSE Refused

(* Two vectors of one length, with the dummy, or it is damaged. *)
StorageOf(values, owners) ==
  IF /\ values.ok /\ owners.ok
     /\ values.value # <<>> /\ Len(values.value) = Len(owners.value)
  THEN Read([k \in 1 .. Len(values.value) - 1 |->
               [value |-> values.value[k + 1],
                owner |-> owners.value[k + 1]]], owners.cursor)
  ELSE Refused

ReadStorage(input, cursor) ==
  LET values == ReadVector(input, cursor,
                           [at \in Nat |-> ReadValue(input, at)])
      owners == ReadVector(input, values.cursor,
                           [at \in Nat |-> ReadIndex(input, at)])
  IN  StorageOf(values, owners)

PartsOf(slots, free, dense) ==
  IF slots.ok /\ free.ok /\ dense.ok
  THEN Read([slots |-> slots.value, free |-> free.value,
             dense |-> ByType(dense.value)], dense.cursor)
  ELSE Refused

ReadParts(input) ==
  LET slots == ReadVector(input, 0, [at \in Nat |-> ReadSlot(input, at)])
      free  == ReadVector(input, slots.cursor,
                          [at \in Nat |-> ReadIndex(input, at)])
      dense == ReadEach(free.cursor, Len(Types),
                        [at \in Nat |-> ReadStorage(input, at)])
  IN  PartsOf(slots, free, dense)

(* What is read must be all there is, and fit together. *)
Accepted(input, parts) ==
  IF parts.ok /\ ReadsBack(parts.value) THEN Whole(input, parts) ELSE Refused

ReadContainer(input) == Accepted(input, ReadParts(input))
-----------------------------------------------------------------------------
EntityBytes(e) ==
  LET has(j) == Types[j] \in DOMAIN e.components
  IN  Word(e.id) \o Bool(e.present)
        \o FlattenSeq([j \in DOMAIN Types |->
             Optional(has(j), IF has(j) THEN ValueBytes(e.components[Types[j]])
                              ELSE <<>>)])

ChangesBytes(changes) ==
  Vector([i \in DOMAIN changes |-> EntityBytes(changes[i])])

(* Default stands for no component here. *)
EntityOf(id, present, values) ==
  LET has == ByType(values.value)
  IN  IF id.ok /\ present.ok /\ values.ok
      THEN Read([id |-> id.value, present |-> present.value,
                 components |->
                   [t \in {u \in Component : has[u] # Default} |-> has[t]]],
                values.cursor)
      ELSE Refused

ReadEntity(input, cursor) ==
  LET id      == ReadWord(input, cursor)
      present == ReadBool(input, id.cursor)
      values  == ReadEach(present.cursor, Len(Types), [at \in Nat |->
                   ReadOptional(input, at,
                     [in \in Nat |-> ReadValue(input, in)], Default)])
  IN  EntityOf(id, present, values)

ReadChanges(input) ==
  Whole(input, ReadVector(input, 0, [at \in Nat |-> ReadEntity(input, at)]))
=============================================================================
