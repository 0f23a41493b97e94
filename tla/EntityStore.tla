---------------------------- MODULE EntityStore ----------------------------
(***************************************************************************)
(* What lf::component_container promises its users: identifiers of living  *)
(* entities, each with at most one component of every type.  Slots, free   *)
(* list and dense storage do not appear here; ComponentContainer           *)
(* implements this module.                                                 *)
(***************************************************************************)
EXTENDS Naturals

CONSTANTS ID,         \* identifiers
          Component,  \* component types
          Value       \* values of components

VARIABLE entities     \* entities[id][t]: component t of the living entity id

Live == DOMAIN entities

(* What an entity may carry: a value for some of the component types. *)
Bundle == UNION {[T -> Value] : T \in SUBSET Component}

Init == entities = <<>>

With(E, bundle) ==
  entities' = [i \in Live \cup E |->
                 IF i \in E THEN bundle ELSE entities[i]]

Replace(id, bundle) == entities' = [entities EXCEPT ![id] = bundle]

Create(id, bundle) == id \notin Live /\ With({id}, bundle)

(* An identifier given by somebody else; lower ones may come to life, too. *)
Ensure(id) ==
  /\ id \notin Live
  /\ \E E \in SUBSET (ID \ Live) :
       /\ id \in E
       /\ \A i \in E : i <= id
       /\ With(E, <<>>)

Put(id, t, v) ==
  /\ id \in Live /\ t \notin DOMAIN entities[id]
  /\ Replace(id, [u \in DOMAIN entities[id] \cup {t} |->
                    IF u = t THEN v ELSE entities[id][u]])

Write(id, t, v) ==
  /\ id \in Live /\ t \in DOMAIN entities[id]
  /\ Replace(id, [entities[id] EXCEPT ![t] = v])

Drop(id, t) ==
  /\ id \in Live /\ t \in DOMAIN entities[id]
  /\ Replace(id, [u \in DOMAIN entities[id] \ {t} |-> entities[id][u]])

Destroy(id) ==
  /\ id \in Live
  /\ entities' = [i \in Live \ {id} |-> entities[i]]

Clear == entities' = <<>>

Next ==
  \/ \E id \in ID : \/ \E bundle \in Bundle : Create(id, bundle)
                    \/ Ensure(id) \/ Destroy(id)
                    \/ \E t \in Component :
                         \/ Drop(id, t)
                         \/ \E v \in Value : Put(id, t, v) \/ Write(id, t, v)
  \/ Clear

Spec == Init /\ [][Next]_entities
=============================================================================
