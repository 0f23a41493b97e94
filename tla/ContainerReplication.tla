------------------------ MODULE ContainerReplication ------------------------
(***************************************************************************)
(* Keeping a second container in step through component_container::Changes *)
(* values: the changes of the moment are recorded, merged into those that  *)
(* wait to be sent, and applied at the other end, where they arrive as the *)
(* bytes of ContainerFormat.  The source is the store of ContainerUse,     *)
(* with all its operations; owed is the obligation of the program that     *)
(* uses Changes, which has to record every entity it touches.              *)
(***************************************************************************)
EXTENDS ContainerUse, ContainerFormat

CONSTANTS
  MaxOps,     \* bound: operations on a source that has a replica
  MaxDamaged  \* bound: slots of a container whose bytes are altered

VARIABLES
  followed,  \* whether the source has a replica
  replica,   \* the one kept in step
  owed,      \* history: entities touched and not recorded since
  fresh,     \* Changes recorded and not merged yet
  outgoing,  \* Changes that the replica will receive next
  ops        \* operations on such a source so far

vars == <<store, followed, replica, owed, fresh, outgoing, ops>>

-----------------------------------------------------------------------------
(* Changes: a sequence of entity records with distinct identifiers. *)

Change == [id : ID, present : BOOLEAN, components : Bundle]

Recorded(changes, id) == \E i \in DOMAIN changes : changes[i].id = id

ChangeOf(changes, id) ==
  changes[CHOOSE i \in DOMAIN changes : changes[i].id = id]

(* The record replaces one of the same identifier, where that one is.      *)
Put(changes, entity) ==
  IF Recorded(changes, entity.id)
  THEN [i \in DOMAIN changes |->
          IF changes[i].id = entity.id THEN entity ELSE changes[i]]
  ELSE Append(changes, entity)

(* Changes::record.  What an older record of an entity that is gone says   *)
(* of its components stays in the code; nobody reads it.                   *)
Record(changes, c, id) ==
  Put(changes, [id |-> id, present |-> Exists(c, id),
                components |-> IF Exists(c, id) THEN Carried(c, id) ELSE <<>>])

(* Changes::record_all.  Its loop starts at index 1, the second slot.      *)
Visited(c) == {id \in Existing(c) : id > 1}

RecordAll(changes, c) ==
  Iterated([x \in Seq(Change) \X DOMAIN c.slots |->
              IF x[2] \in Visited(c) THEN Record(x[1], c, x[2]) ELSE x[1]],
           changes, Len(c.slots))

(* Changes::merge *)
Merge(changes, other) ==
  Iterated([x \in Seq(Change) \X DOMAIN other |-> Put(x[1], other[x[2]])],
           changes, Len(other))

(* Faulty variant: components that the entity has lost are left alone. *)
ChangedKeepingLost(c, entity) ==
  IF ~ entity.present THEN Destroyed(c, entity.id)
  ELSE LET has == Ensured(c, entity.id)
       IN  Added(Written(has, entity.id, entity.components),
                 entity.id, entity.components)

(* Changes::apply, of one entity. *)
Changed(c, entity) ==
  IF ~ entity.present THEN Destroyed(c, entity.id)
  ELSE LET has  == Ensured(c, entity.id)
           kept == Erased(has, entity.id,
                          Component \ DOMAIN entity.components)
       IN  Added(Written(kept, entity.id, entity.components),
                 entity.id, entity.components)

Applied(c, changes) ==
  Iterated([x \in Container \X DOMAIN changes |->
              Changed(x[1], changes[x[2]])], c, Len(changes))
-----------------------------------------------------------------------------
(* A source that is followed is changed so often.                          *)
Open == followed => ops < MaxOps

Touched(ids) ==
  /\ ops' = IF followed THEN ops + 1 ELSE ops
  /\ owed' = owed \cup ids
  /\ UNCHANGED <<followed, replica, fresh, outgoing>>

SourceCreate(bundle) == Open /\ Create(bundle) /\ Touched({NewID(store)})
SourceAdd(id, t, v) == Open /\ Add(id, t, v) /\ Touched({id})
SourceWrite(id, t, v) == Open /\ Write(id, t, v) /\ Touched({id})
SourceErase(id, t) == Open /\ Erase(id, t) /\ Touched({id})
SourceDestroy(id) == Open /\ Exists(store, id) /\ Destroy(id) /\ Touched({id})
SourceClear == Open /\ Clear /\ Touched(Existing(store))

(* A program that keeps a replica has identifiers from its own create().   *)
SourceEnsure(id) == ~ followed /\ Ensure(id) /\ Touched(ID)

RecordOne(id) ==
  /\ followed
  /\ id \in owed
  /\ fresh' = Record(fresh, store, id)
  /\ owed' = owed \ {id}
  /\ UNCHANGED <<store, followed, replica, outgoing, ops>>

RecordEverything ==
  /\ followed
  /\ fresh' = RecordAll(fresh, store)
  /\ owed' = owed \ Visited(store)
  /\ UNCHANGED <<store, followed, replica, outgoing, ops>>

MergeChanges ==
  /\ fresh # <<>>
  /\ outgoing' = Merge(outgoing, fresh)
  /\ fresh' = <<>>
  /\ UNCHANGED <<store, followed, replica, owed, ops>>

(* The program sends the changes as bytes and applies what is read. *)
ApplyChanges ==
  /\ outgoing # <<>>
  /\ LET read == ReadChanges(ChangesBytes(outgoing))
     IN  read.ok /\ replica' = Applied(replica, read.value)
  /\ outgoing' = <<>>
  /\ UNCHANGED <<store, followed, owed, fresh, ops>>

(* The replica is replaced by a new one, which is owed everything. *)
Rejoin ==
  /\ followed
  /\ replica' = Empty
  /\ owed' = Existing(store)
  /\ fresh' = <<>> /\ outgoing' = <<>>
  /\ UNCHANGED <<store, followed, ops>>

(* The replica is replaced by one that has read what the source wrote.     *)
JoinBySnapshot ==
  /\ followed
  /\ LET read == ReadContainer(ContainerBytes(store))
     IN  read.ok /\ replica' = read.value
  /\ owed' = {} /\ fresh' = <<>> /\ outgoing' = <<>>
  /\ UNCHANGED <<store, followed, ops>>
-----------------------------------------------------------------------------
Init == /\ StoreInit /\ followed \in BOOLEAN
        /\ replica = Empty
        /\ owed = {} /\ fresh = <<>> /\ outgoing = <<>>
        /\ ops = 0

Next ==
  \/ \E bundle \in Bundle : SourceCreate(bundle)
  \/ \E id \in ID :
       \/ SourceDestroy(id) \/ SourceEnsure(id) \/ RecordOne(id)
       \/ \E t \in Component :
            \/ SourceErase(id, t)
            \/ \E v \in Value : SourceAdd(id, t, v) \/ SourceWrite(id, t, v)
  \/ SourceClear \/ RecordEverything \/ MergeChanges \/ ApplyChanges
  \/ Rejoin \/ JoinBySnapshot

Spec == Init /\ [][Next]_vars
-----------------------------------------------------------------------------
(* What the replica will show of an entity once it has received the        *)
(* changes under way: the newest change has the last word.                 *)
Prospect(id) ==
  LET told(changes) == LET e == ChangeOf(changes, id)
                       IN  IF e.present THEN e.components ELSE <<>>
  IN  CASE Recorded(fresh, id) -> told(fresh)
        [] ~ Recorded(fresh, id) /\ Recorded(outgoing, id) -> told(outgoing)
        [] ~ Recorded(fresh, id) /\ ~ Recorded(outgoing, id) ->
             Carried(replica, id)

(* However changes are recorded, merged and applied, and slots reused in   *)
(* between, the replica will show of every entity just the components and  *)
(* values it has in the source, and misses none, unless the program owes a *)
(* record of it.  (The replica may have others: slots below a new          *)
(* identifier that ensure() brings about exist there, bare.)               *)
ReplicaFollows ==
  \A id \in ID \ owed :
    /\ Prospect(id) = Carried(store, id)
    /\ id \in Existing(store) =>
         \/ Recorded(fresh, id) \/ Recorded(outgoing, id)
         \/ Exists(replica, id)

(* The bytes with one of them changed, other than a component's value.     *)
Damaged(bytes) ==
  LET numbers == {p \in DOMAIN bytes : bytes[p] \in 0 .. Byte - 1}
  IN  {[bytes EXCEPT ![p] = b] : p \in numbers, b \in 0 .. Byte - 1}

(* What each() visits is what the entities that exist show, and create()   *)
(* will give away every free identifier once.                              *)
Coherent(c) ==
  LET alive == {id \in DOMAIN c.slots : Exists(c, id)}
  IN  /\ IsInjective(c.free) /\ ToSet(c.free) = DOMAIN c.slots \ alive
      /\ \A t \in Component :
           {<<id, c.slots[id][t]>> : id \in {i \in alive : c.slots[i][t] # 0}}
             = {<<c.dense[t][k].owner, k>> : k \in DOMAIN c.dense[t]}

(* What write() made of a container reads back as just that container, no  *)
(* shorter or longer input is taken for one.                               *)
ReadsExactly(c) ==
  LET bytes == ContainerBytes(c)
  IN  /\ ReadContainer(bytes) = Read(c, Len(bytes))
      /\ \A n \in 0 .. Len(bytes) - 1 : ~ ReadContainer(SubSeq(bytes, 1, n)).ok
      /\ \A b \in 0 .. Byte - 1 : ~ ReadContainer(Append(bytes, b)).ok

(* A container reads back from its bytes exactly, whatever was done to it  *)
(* before and also as the replica of another; cut short or continued they  *)
(* are refused; and where one byte differs, what reads without an error is *)
(* a container whose slots, owners and free list still fit together, so    *)
(* that a damaged save is noticed when it is read and not at some later    *)
(* create() or erase().                                                    *)
BytesReadBack ==
  /\ ReadsBack(replica)
  /\ ~ followed => ReadsExactly(store)
  /\ ~ followed /\ Len(store.slots) <= MaxDamaged =>
       \A bytes \in Damaged(ContainerBytes(store)) :
         LET read == ReadContainer(bytes)
         IN  read.ok => Coherent(read.value)

(* Whenever record_all() is called, every entity there is has been         *)
(* recorded afterwards, be it the only one.  The test "component container *)
(* resolves zero-based identifiers" has the first entity at ID{ 0 }        *)
(* (tests/core/component_container.cpp:27).                                *)
EveryEntityRecorded ==
  \A id \in Existing(store) : Recorded(RecordAll(fresh, store), id)
=============================================================================
