---------------------------- MODULE ContainerUse ----------------------------
(***************************************************************************)
(* One component_container and its users, who pass only identifiers of     *)
(* entities that exist to add(), erase() and find(): the code does not     *)
(* check them.                                                             *)
(***************************************************************************)
EXTENDS ComponentContainer

VARIABLE store

StoreInit == store = Empty

Create(bundle) ==
  /\ NewID(store) <= MaxSlots
  /\ store' = Added(Created(store), NewID(store), bundle)

Ensure(id) == store' = Ensured(store, id)

Add(id, t, v) ==
  /\ Exists(store, id)
  /\ store' = Added(store, id, [u \in {t} |-> v])

Write(id, t, v) ==
  /\ Exists(store, id) /\ Has(store, id, t)
  /\ store' = Written(store, id, [u \in {t} |-> v])

Erase(id, t) ==
  /\ Exists(store, id)
  /\ store' = Erased(store, id, {t})

Destroy(id) == store' = Destroyed(store, id)

Clear == store' = Empty

StoreNext ==
  \/ \E bundle \in Bundle : Create(bundle)
  \/ \E id \in ID :
       \/ Ensure(id) \/ Destroy(id)
       \/ \E t \in Component :
            Erase(id, t) \/ \E v \in Value : Add(id, t, v) \/ Write(id, t, v)
  \/ Clear

StoreSpec == StoreInit /\ [][StoreNext]_store
-----------------------------------------------------------------------------
StoreTypeOK == ContainerOK(store)

(* Whatever is created, destroyed, added and erased in whatever order, the *)
(* container stays one that process() reads back: free list, slots and     *)
(* dense storage point to each other.                                      *)
StoreReadsBack == ReadsBack(store)

(* The container implements a plain store of entities: a slot used again   *)
(* brings back no component of its former entity, and the component that   *)
(* fills a gap stays with its owner ("component container reuses slots     *)
(* without mixing component owners", tests/core/component_container.cpp).  *)
Entities(c) == [id \in Existing(c) |-> Carried(c, id)]

Abstract == INSTANCE EntityStore WITH entities <- Entities(store)

Implements == Abstract!Spec
=============================================================================
