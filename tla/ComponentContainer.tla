------------------------- MODULE ComponentContainer -------------------------
(***************************************************************************)
(* lf::component_container: entities in slots, slots of destroyed entities *)
(* on a free list, and the components of each type packed in a vector,     *)
(* where the last one fills the gap that an erased one leaves.             *)
(*                                                                         *)
(* An identifier stands for its raw value, so that slot indices, which the *)
(* code counts from zero, are counted from one, as the elements of a       *)
(* sequence are, and 0 is the null identifier.  Index 0 of a dense vector  *)
(* is a dummy, "no component"; the sequences leave it out.                 *)
(***************************************************************************)
EXTENDS Integers, Sequences, SequencesExt

CONSTANTS Component,  \* component types
          Value,      \* values of components
          MaxSlots    \* bound: slots of a container

ASSUME SlotsAssumption == MaxSlots \in Nat

ID == 1 .. MaxSlots

Bundle == UNION {[T -> Value] : T \in SUBSET Component}
-----------------------------------------------------------------------------
(* A container c: slots[id][t] is the index of component t of id in        *)
(* dense[t], or 0.                                                         *)

Blank == [t \in Component |-> 0]

Empty == [slots |-> <<>>, free |-> <<>>, dense |-> [t \in Component |-> <<>>]]

Exists(c, id) == id \in 1 .. Len(c.slots) /\ id \notin ToSet(c.free)

Has(c, id, t) == id \in 1 .. Len(c.slots) /\ c.slots[id][t] # 0

Find(c, id, t) == c.dense[t][c.slots[id][t]].value

(* All that each(), find() and has() show of an entity. *)
Carried(c, id) == [t \in {u \in Component : Has(c, id, u)} |-> Find(c, id, t)]

Existing(c) == {id \in ID : Exists(c, id)}

NewID(c) == IF c.free = <<>> THEN Len(c.slots) + 1 ELSE Last(c.free)

Created(c) ==
  IF c.free = <<>>
  THEN [slots |-> Append(c.slots, Blank), free |-> c.free, dense |-> c.dense]
  ELSE [slots |-> [c.slots EXCEPT ![Last(c.free)] = Blank],
        free |-> Front(c.free), dense |-> c.dense]

(* add() of every component in the bundle; one that is there stays.        *)
Added(c, id, bundle) ==
  LET new == {t \in DOMAIN bundle : c.slots[id][t] = 0}
  IN  [slots |-> [c.slots EXCEPT ![id] = [t \in Component |->
         IF t \in new THEN Len(c.dense[t]) + 1 ELSE c.slots[id][t]]],
       free |-> c.free,
       dense |-> [t \in Component |->
         IF t \in new
         THEN Append(c.dense[t], [value |-> bundle[t], owner |-> id])
         ELSE c.dense[t]]]

(* Assignment through find() or each(), to the components that are there.  *)
Written(c, id, bundle) ==
  [slots |-> c.slots, free |-> c.free,
   dense |-> [t \in Component |->
     IF t \in DOMAIN bundle /\ c.slots[id][t] # 0
     THEN [c.dense[t] EXCEPT ![c.slots[id][t]].value = bundle[t]]
     ELSE c.dense[t]]]

(* Slots once the components gone of id are erased: the last component of  *)
(* a type, which fills the gap, is found where that one was.               *)
Relinked(c, id, gone) ==
  [i \in DOMAIN c.slots |-> [t \in Component |->
     CASE t \in gone /\ i = id -> 0
       [] t \in gone /\ i # id /\ i = Last(c.dense[t]).owner -> c.slots[id][t]
       [] OTHER -> c.slots[i][t]]]

(* Faulty variants: the slot of the component that fills the gap still     *)
(* points to its old place; its owner is moved, but not its value.         *)
ErasedSlotLost(c, id, T) ==
  LET gone == {t \in T : c.slots[id][t] # 0}
  IN  [slots |-> [c.slots EXCEPT ![id] = [t \in Component |->
         IF t \in gone THEN 0 ELSE @[t]]],
       free |-> c.free,
       dense |-> [t \in Component |->
         IF t \in gone
         THEN Front([c.dense[t] EXCEPT ![c.slots[id][t]] = Last(c.dense[t])])
         ELSE c.dense[t]]]

ErasedValueLost(c, id, T) ==
  LET gone == {t \in T : c.slots[id][t] # 0}
  IN  [slots |-> Relinked(c, id, gone), free |-> c.free,
       dense |-> [t \in Component |->
         IF t \in gone
         THEN Front([c.dense[t] EXCEPT ![c.slots[id][t]].owner =
                                         Last(c.dense[t]).owner])
         ELSE c.dense[t]]]

(* erase() of the component types in T: each has a storage of its own.     *)
Erased(c, id, T) ==
  LET gone == {t \in T : c.slots[id][t] # 0}
  IN  [slots |-> Relinked(c, id, gone), free |-> c.free,
       dense |-> [t \in Component |->
         IF t \in gone
         THEN Front([c.dense[t] EXCEPT ![c.slots[id][t]] = Last(c.dense[t])])
         ELSE c.dense[t]]]

(* destroy() and destroy_if_present() *)
Destroyed(c, id) ==
  IF Exists(c, id)
  THEN LET bare == Erased(c, id, Component)
       IN  [slots |-> [bare.slots EXCEPT ![id] = Blank],
            free |-> Append(bare.free, id), dense |-> bare.dense]
  ELSE c

(* Slots up to id, at least: those resize() brings about below it do not   *)
(* go to the free list.                                                    *)
Reaching(c, id) ==
  [i \in 1 .. (IF id > Len(c.slots) THEN id ELSE Len(c.slots)) |->
     IF i = id \/ i > Len(c.slots) THEN Blank ELSE c.slots[i]]

(* An identifier is on the free list once, at most (ReadsBack).            *)
Reclaimed(free, id) ==
  IF id \in ToSet(free)
  THEN RemoveAt(free, CHOOSE k \in DOMAIN free : free[k] = id)
  ELSE free

Ensured(c, id) ==
  IF Exists(c, id) THEN c
  ELSE [slots |-> Reaching(c, id), free |-> Reclaimed(c.free, id),
        dense |-> c.dense]

(* The container reads back from the bytes it was written to: process()    *)
(* rejects any other as damaged.                                           *)
ReadsBack(c) ==
  /\ \A i \in DOMAIN c.free : c.free[i] \in DOMAIN c.slots
  /\ \A i, j \in DOMAIN c.free : c.free[i] = c.free[j] => i = j
  /\ \A t \in Component :
       /\ \A k \in DOMAIN c.dense[t] :
            LET owner == c.dense[t][k].owner
            IN  /\ owner \in DOMAIN c.slots
                /\ owner \notin ToSet(c.free)
                /\ c.slots[owner][t] = k
       /\ \A id \in DOMAIN c.slots :
            c.slots[id][t] # 0 => /\ c.slots[id][t] \in DOMAIN c.dense[t]
                                  /\ c.dense[t][c.slots[id][t]].owner = id
-----------------------------------------------------------------------------
Container == [slots : Seq([Component -> Nat]),
              free  : Seq(ID),
              dense : [Component -> Seq([value : Value, owner : ID])]]

(* A container of at most MaxSlots slots. *)
ContainerOK(c) == c \in Container /\ Len(c.slots) <= MaxSlots
=============================================================================
