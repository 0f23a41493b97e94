-------------------------- MODULE ContainerProofs --------------------------
(***************************************************************************)
(* A component container stays sound for any number of slots, component    *)
(* types and values, and implements a plain store of entities.  What it    *)
(* and the changes recorded of it are written to reads back as it was, and *)
(* a replica that receives the changes follows its source.                 *)
(***************************************************************************)
EXTENDS ContainerReplication, Induction, SequenceTheorems

Dense == [value : Value, owner : ID]

(* ContainerOK and ReadsBack, of the three parts of a container. *)
Typed(s, f, d) == /\ s \in Seq([Component -> Nat]) /\ Len(s) <= MaxSlots
                  /\ f \in Seq(ID)
                  /\ d \in [Component -> Seq(Dense)]

FreeSound(s, f) ==
  /\ \A i \in 1 .. Len(f) : f[i] \in 1 .. Len(s)
  /\ \A i, j \in 1 .. Len(f) : f[i] = f[j] => i = j

(* The dense storage D of one component type. *)
OwnersSound(s, f, D, t) ==
  \A k \in 1 .. Len(D) : /\ D[k].owner \in 1 .. Len(s)
                         /\ D[k].owner \notin ToSet(f)
                         /\ s[D[k].owner][t] = k

PlacesSound(s, D, t) ==
  \A id \in 1 .. Len(s) :
    s[id][t] # 0 => s[id][t] \in 1 .. Len(D) /\ D[s[id][t]].owner = id

Linked(s, f, d) ==
  /\ FreeSound(s, f)
  /\ \A t \in Component : OwnersSound(s, f, d[t], t) /\ PlacesSound(s, d[t], t)

Sound(c) == ContainerOK(c) /\ ReadsBack(c)

(* Soundness of a container is soundness of its parts. *)
LEMMA SoundParts ==
  ASSUME NEW c
  PROVE  Sound(c) => /\ Typed(c.slots, c.free, c.dense)
                     /\ Linked(c.slots, c.free, c.dense)
<1> SUFFICES ASSUME Sound(c)
             PROVE  /\ Typed(c.slots, c.free, c.dense)
                    /\ Linked(c.slots, c.free, c.dense)
  OBVIOUS
<1>1. Typed(c.slots, c.free, c.dense)
  BY DEF Sound, ContainerOK, Container, Typed, Dense
<1>2. /\ DOMAIN c.slots = 1 .. Len(c.slots)
      /\ DOMAIN c.free = 1 .. Len(c.free)
      /\ \A t \in Component : DOMAIN c.dense[t] = 1 .. Len(c.dense[t])
  BY <1>1 DEF Typed
<1>3. FreeSound(c.slots, c.free)
  BY <1>2 DEF Sound, ReadsBack, FreeSound
<1>4. ASSUME NEW t \in Component
      PROVE  /\ OwnersSound(c.slots, c.free, c.dense[t], t)
             /\ PlacesSound(c.slots, c.dense[t], t)
  BY <1>2 DEF Sound, ReadsBack, OwnersSound, PlacesSound
<1> QED BY <1>1, <1>3, <1>4 DEF Linked

(* A container is sound when its three parts are typed and linked. *)
LEMMA PartsSound ==
  ASSUME NEW s, NEW f, NEW d, Typed(s, f, d), Linked(s, f, d)
  PROVE  Sound([slots |-> s, free |-> f, dense |-> d])
<1> DEFINE c == [slots |-> s, free |-> f, dense |-> d]
<1>1. c.slots = s /\ c.free = f /\ c.dense = d
  OBVIOUS
<1>2. ContainerOK(c)
  BY <1>1 DEF ContainerOK, Container, Typed, Dense
<1>3. /\ DOMAIN s = 1 .. Len(s)
      /\ DOMAIN f = 1 .. Len(f)
      /\ \A t \in Component : DOMAIN d[t] = 1 .. Len(d[t])
  BY DEF Typed
<1>4. ReadsBack(c)
  BY <1>1, <1>3 DEF ReadsBack, Linked, FreeSound, OwnersSound, PlacesSound
<1> QED BY <1>2, <1>4 DEF Sound
-----------------------------------------------------------------------------
(* A new container is sound. *)
LEMMA EmptySound == Sound(Empty)
<1>1. Typed(<<>>, <<>>, [t \in Component |-> <<>>])
  BY SlotsAssumption DEF Typed
<1>2. Linked(<<>>, <<>>, [t \in Component |-> <<>>])
  BY DEF Linked, FreeSound, OwnersSound, PlacesSound
<1> QED BY <1>1, <1>2, PartsSound DEF Empty

(* A blank slot has no component. *)
LEMMA BlankSlot == Blank \in [Component -> Nat] /\ \A t \in Component : Blank[t] = 0
BY DEF Blank

(* What pop_back() leaves and what back() returns. *)
LEMMA FrontAndLast ==
  ASSUME NEW S, NEW q \in Seq(S), q # <<>>
  PROVE  /\ Len(q) \in Nat \ {0}
         /\ Last(q) = q[Len(q)] /\ Last(q) \in S
         /\ Front(q) \in Seq(S) /\ Len(Front(q)) = Len(q) - 1
         /\ \A i \in 1 .. Len(q) - 1 : Front(q)[i] = q[i]
<1>1. Len(q) \in Nat /\ Len(q) # 0 BY EmptySeq
<1>2. q[Len(q)] \in S BY <1>1
<1>3. \A i \in 1 .. Len(q) - 1 : q[i] \in S BY <1>1
<1>4. SubSeq(q, 1, Len(q) - 1) = [i \in 1 .. Len(q) - 1 |-> q[i]]
  BY <1>1
<1> DEFINE g == [i \in 1 .. Len(q) - 1 |-> q[i]]
<1>5. Len(q) - 1 \in Nat BY <1>1
<1>6. g \in Seq(S) /\ Len(g) = Len(q) - 1 BY <1>3, <1>5, SeqDef, LenProperties
<1>7. Front(q) = g BY <1>4 DEF Front
<1>8. \A i \in 1 .. Len(q) - 1 : g[i] = q[i] OBVIOUS
<1> HIDE DEF g
<1> QED BY <1>1, <1>2, <1>6, <1>7, <1>8 DEF Last

(* A new slot, or the last of the free ones, which no component points to. *)
LEMMA CreatedSound ==
  ASSUME NEW c, Sound(c), NewID(c) <= MaxSlots
  PROVE  /\ Sound(Created(c))
         /\ NewID(c) \in ID
         /\ Exists(Created(c), NewID(c))
<1> DEFINE s == c.slots
           f == c.free
           d == c.dense
<1>1. Typed(s, f, d) /\ Linked(s, f, d) BY SoundParts
<1> HIDE DEF s, f, d
<1>2. CASE f = <<>>
  <2> DEFINE n == Len(s) + 1
             r == Append(s, Blank)
  <2>1. /\ r \in Seq([Component -> Nat]) /\ Len(r) = n /\ r[n] = Blank
        /\ \A i \in 1 .. Len(s) : r[i] = s[i]
    BY <1>1, BlankSlot DEF Typed
  <2>2. NewID(c) = n BY <1>2 DEF NewID, s, f
  <2>3. Created(c) = [slots |-> r, free |-> f, dense |-> d]
    BY <1>2 DEF Created, s, f, d
  <2>4. n \in ID BY <2>2, <1>1, SlotsAssumption DEF ID, Typed
  <2>5. Typed(r, f, d) BY <1>1, <2>1, <2>2 DEF Typed
  <2>6. FreeSound(r, f) BY <1>2 DEF FreeSound
  <2>7. ASSUME NEW t \in Component
        PROVE  OwnersSound(r, f, d[t], t) /\ PlacesSound(r, d[t], t)
    <3>1. OwnersSound(s, f, d[t], t) /\ PlacesSound(s, d[t], t)
      BY <1>1 DEF Linked
    <3> HIDE DEF r
    <3>2. Len(s) \in Nat BY <1>1 DEF Typed
    <3>3. OwnersSound(r, f, d[t], t)
      BY <3>1, <3>2, <2>1 DEF OwnersSound
    <3>4. PlacesSound(r, d[t], t)
      <4> SUFFICES ASSUME NEW i \in 1 .. Len(r), r[i][t] # 0
                   PROVE  r[i][t] \in 1 .. Len(d[t]) /\ d[t][r[i][t]].owner = i
        BY DEF PlacesSound
      <4>1. i # n BY <2>1, BlankSlot
      <4>2. i \in 1 .. Len(s) BY <4>1, <2>1, <3>2
      <4> QED BY <4>2, <3>1, <2>1 DEF PlacesSound
    <3> QED BY <3>3, <3>4
  <2>8. Exists(Created(c), n)
    <3>1. n \in 1 .. Len(r) BY <2>1, <1>1 DEF Typed
    <3>2. n \notin ToSet(f) BY <1>2 DEF ToSet
    <3> QED BY <3>1, <3>2, <2>3 DEF Exists
  <2> QED BY <2>2, <2>3, <2>4, <2>5, <2>6, <2>7, <2>8, PartsSound DEF Linked
<1>3. CASE f # <<>>
  <2> DEFINE n == Last(f)
             r == [s EXCEPT ![n] = Blank]
             g == Front(f)
  <2>1. /\ Len(f) \in Nat \ {0} /\ n = f[Len(f)] /\ n \in ID
        /\ g \in Seq(ID) /\ Len(g) = Len(f) - 1
        /\ \A i \in 1 .. Len(g) : g[i] = f[i]
    BY <1>1, <1>3, FrontAndLast DEF Typed
  <2> HIDE DEF n, g
  <2>2. n \in 1 .. Len(s) /\ n \in ToSet(f) /\ n \notin ToSet(g)
    <3>1. FreeSound(s, f) BY <1>1 DEF Linked
    <3>2. DOMAIN f = 1 .. Len(f) /\ DOMAIN g = 1 .. Len(g)
      BY <1>1, <2>1 DEF Typed
    <3> QED BY <2>1, <3>1, <3>2 DEF FreeSound, ToSet
  <2>3. /\ r \in Seq([Component -> Nat]) /\ Len(r) = Len(s) /\ r[n] = Blank
        /\ \A i \in 1 .. Len(s) : i # n => r[i] = s[i]
    BY <1>1, <2>2, BlankSlot DEF Typed
  <2>4. NewID(c) = n BY <1>3 DEF NewID, f, n
  <2>5. Created(c) = [slots |-> r, free |-> g, dense |-> d]
    BY <1>3 DEF Created, s, f, d, n, g
  <2> HIDE DEF r
  <2>6. Typed(r, g, d) BY <1>1, <2>1, <2>3 DEF Typed
  <2>7. FreeSound(r, g)
    <3>1. FreeSound(s, f) BY <1>1 DEF Linked
    <3>2. \A i \in 1 .. Len(g) : i \in 1 .. Len(f) BY <2>1
    <3>3. \A i \in 1 .. Len(g) : g[i] = f[i] /\ f[i] \in 1 .. Len(r)
      BY <2>1, <2>3, <3>1, <3>2 DEF FreeSound
    <3> QED BY <3>1, <3>2, <3>3 DEF FreeSound
  <2>8. ToSet(g) \subseteq ToSet(f)
    <3>1. DOMAIN f = 1 .. Len(f) /\ DOMAIN g = 1 .. Len(g)
      BY <1>1, <2>1 DEF Typed
    <3>2. \A i \in 1 .. Len(g) : i \in 1 .. Len(f) BY <2>1
    <3> QED BY <2>1, <3>1, <3>2 DEF ToSet
  <2>9. ASSUME NEW t \in Component
        PROVE  OwnersSound(r, g, d[t], t) /\ PlacesSound(r, d[t], t)
    <3>1. OwnersSound(s, f, d[t], t) /\ PlacesSound(s, d[t], t)
      BY <1>1 DEF Linked
    <3>2. OwnersSound(r, g, d[t], t)
      <4> SUFFICES ASSUME NEW k \in 1 .. Len(d[t])
                   PROVE  /\ d[t][k].owner \in 1 .. Len(r)
                          /\ d[t][k].owner \notin ToSet(g)
                          /\ r[d[t][k].owner][t] = k
        BY DEF OwnersSound
      <4>1. /\ d[t][k].owner \in 1 .. Len(s)
            /\ d[t][k].owner \notin ToSet(f)
            /\ s[d[t][k].owner][t] = k
        BY <3>1 DEF OwnersSound
      <4> QED BY <4>1, <2>2, <2>3, <2>8
    <3>3. PlacesSound(r, d[t], t)
      BY <3>1, <2>2, <2>3, BlankSlot DEF PlacesSound
    <3> QED BY <3>2, <3>3
  <2>10. Exists(Created(c), n)
    BY <2>2, <2>3, <2>5 DEF Exists
  <2> QED BY <2>1, <2>4, <2>5, <2>6, <2>7, <2>9, <2>10, PartsSound DEF Linked
<1> QED BY <1>2, <1>3
-----------------------------------------------------------------------------
(* The storage of one component type after Append: the new place is its    *)
(* owner's.                                                                *)
LEMMA AppendedPlace ==
  ASSUME NEW D \in Seq(Dense), NEW s, NEW r, NEW f, NEW t, NEW e \in Dense,
         OwnersSound(s, f, D, t), PlacesSound(s, D, t),
         Len(s) \in Nat, Len(r) = Len(s),
         e.owner \in 1 .. Len(s), e.owner \notin ToSet(f), s[e.owner][t] = 0,
         r[e.owner][t] = Len(D) + 1,
         \A i \in 1 .. Len(s) : i # e.owner => r[i][t] = s[i][t]
  PROVE  OwnersSound(r, f, Append(D, e), t) /\ PlacesSound(r, Append(D, e), t)
<1> DEFINE E == Append(D, e)
           n == Len(D)
<1>1. /\ n \in Nat /\ Len(E) = n + 1 /\ E[n + 1] = e
      /\ \A k \in 1 .. n : E[k] = D[k]
  OBVIOUS
<1> HIDE DEF E, n
<1>2. OwnersSound(r, f, E, t)
  <2> SUFFICES ASSUME NEW k \in 1 .. Len(E)
               PROVE  /\ E[k].owner \in 1 .. Len(r)
                      /\ E[k].owner \notin ToSet(f)
                      /\ r[E[k].owner][t] = k
    BY DEF OwnersSound
  <2>1. CASE k = n + 1 BY <2>1, <1>1 DEF n
  <2>2. CASE k # n + 1
    <3>1. k \in 1 .. Len(D) /\ E[k] = D[k] BY <2>2, <1>1 DEF n
    <3>2. /\ D[k].owner \in 1 .. Len(s) /\ D[k].owner \notin ToSet(f)
          /\ s[D[k].owner][t] = k
      BY <3>1 DEF OwnersSound
    <3>3. D[k].owner # e.owner BY <3>1, <3>2
    <3> QED BY <3>1, <3>2, <3>3
  <2> QED BY <2>1, <2>2
<1>3. PlacesSound(r, E, t)
  <2> SUFFICES ASSUME NEW i \in 1 .. Len(r), r[i][t] # 0
               PROVE  r[i][t] \in 1 .. Len(E) /\ E[r[i][t]].owner = i
    BY DEF PlacesSound
  <2>1. CASE i = e.owner BY <2>1, <1>1 DEF n
  <2>2. CASE i # e.owner
    <3>1. r[i][t] = s[i][t] BY <2>2
    <3>2. s[i][t] \in 1 .. Len(D) /\ D[s[i][t]].owner = i
      BY <3>1 DEF PlacesSound
    <3> QED BY <3>1, <3>2, <1>1 DEF n
  <2> QED BY <2>1, <2>2
<1> QED BY <1>2, <1>3 DEF E

(* The storage of one component type after its place k is filled by the    *)
(* last one.                                                               *)
LEMMA FilledPlace ==
  ASSUME NEW D \in Seq(Dense), NEW E, NEW s, NEW r, NEW f, NEW t, NEW id,
         NEW k,
         OwnersSound(s, f, D, t), PlacesSound(s, D, t),
         Len(s) \in Nat, Len(r) = Len(s),
         id \in 1 .. Len(s), k = s[id][t], k # 0,
         E = Front([D EXCEPT ![k] = Last(D)]),
         r[id][t] = 0,
         \A i \in 1 .. Len(s) : i # id =>
           r[i][t] = IF i = Last(D).owner THEN k ELSE s[i][t]
  PROVE  /\ E \in Seq(Dense)
         /\ OwnersSound(r, f, E, t) /\ PlacesSound(r, E, t)
<1> DEFINE n == Len(D)
           F == [D EXCEPT ![k] = Last(D)]
           m == D[n].owner
<1>1. k \in 1 .. n /\ D[k].owner = id BY DEF PlacesSound
<1>2. D # <<>> BY <1>1
<1>3. n \in Nat \ {0} /\ Last(D) = D[n] /\ Last(D) \in Dense
  BY <1>2, FrontAndLast
<1>4. /\ F \in Seq(Dense) /\ Len(F) = n /\ F # <<>>
      /\ \A j \in 1 .. n : F[j] = IF j = k THEN D[n] ELSE D[j]
  BY <1>1, <1>3
<1>0. E = Front(F) OBVIOUS
<1> HIDE DEF F, n
<1>5. /\ E \in Seq(Dense) /\ Len(E) = n - 1
      /\ \A j \in 1 .. n - 1 : E[j] = F[j]
  <2>1. /\ Front(F) \in Seq(Dense) /\ Len(Front(F)) = Len(F) - 1
        /\ \A j \in 1 .. Len(F) - 1 : Front(F)[j] = F[j]
    <3>1. F \in Seq(Dense) /\ F # <<>> BY <1>4
    <3> QED BY <3>1, FrontAndLast
  <2> QED BY <2>1, <1>0, <1>4
<1>6. \A j \in 1 .. n - 1 : E[j] = IF j = k THEN D[n] ELSE D[j]
  <2>1. \A j \in 1 .. n - 1 : j \in 1 .. n BY <1>3
  <2> QED BY <1>4, <1>5, <2>1
<1>7. m \in 1 .. Len(s) /\ m \notin ToSet(f) /\ s[m][t] = n
  BY <1>3 DEF OwnersSound, n
<1> HIDE DEF m
<1>8. \A i \in 1 .. Len(s) : i # id => r[i][t] = IF i = m THEN k ELSE s[i][t]
  BY <1>3 DEF m
<1>9. OwnersSound(r, f, E, t)
  <2> SUFFICES ASSUME NEW j \in 1 .. Len(E)
               PROVE  /\ E[j].owner \in 1 .. Len(r)
                      /\ E[j].owner \notin ToSet(f)
                      /\ r[E[j].owner][t] = j
    BY DEF OwnersSound
  <2>0. j \in 1 .. n - 1 BY <1>5
  <2>1. CASE j = k
    <3>1. E[j].owner = m BY <1>6, <2>0, <2>1 DEF m
    <3>2. m # id BY <1>7, <2>0, <2>1, <1>3
    <3> QED BY <3>1, <3>2, <1>7, <1>8, <2>1
  <2>2. CASE j # k
    <3>0. j \in 1 .. n BY <2>0, <1>3
    <3>1. E[j] = D[j] /\ j \in 1 .. n BY <1>6, <2>0, <2>2, <3>0
    <3>2. /\ D[j].owner \in 1 .. Len(s) /\ D[j].owner \notin ToSet(f)
          /\ s[D[j].owner][t] = j
      BY <3>1 DEF OwnersSound, n
    <3>3. D[j].owner # id BY <3>2, <2>2
    <3>4. D[j].owner # m BY <3>2, <1>7, <2>0, <1>3
    <3> QED BY <3>1, <3>2, <3>3, <3>4, <1>8
  <2> QED BY <2>1, <2>2
<1>10. PlacesSound(r, E, t)
  <2> SUFFICES ASSUME NEW i \in 1 .. Len(r), r[i][t] # 0
               PROVE  r[i][t] \in 1 .. Len(E) /\ E[r[i][t]].owner = i
    BY DEF PlacesSound
  <2>0. i # id OBVIOUS
  <2>1. CASE i = m
    <3>1. r[i][t] = k BY <1>8, <2>0, <2>1
    <3>2. k # n BY <1>1, <2>0, <2>1 DEF m
    <3>3. k \in 1 .. n - 1 BY <1>1, <1>3, <3>2
    <3>4. E[k] = D[n] BY <3>3, <1>6
    <3> QED BY <3>1, <3>3, <3>4, <1>5, <2>1 DEF m
  <2>2. CASE i # m
    <3>1. r[i][t] = s[i][t] BY <1>8, <2>0, <2>2
    <3> DEFINE j == s[i][t]
    <3>2. j \in 1 .. n /\ D[j].owner = i BY <3>1 DEF PlacesSound, n
    <3>3. j # n BY <3>2, <2>2 DEF m
    <3>4. j # k BY <3>2, <2>0, <1>1
    <3> HIDE DEF j
    <3>5. j \in 1 .. n - 1 BY <3>2, <3>3, <1>3
    <3>6. E[j] = D[j] BY <3>5, <3>4, <1>6
    <3> QED BY <3>1, <3>2, <3>5, <3>6, <1>5 DEF j
  <2> QED BY <2>1, <2>2
<1> QED BY <1>5, <1>9, <1>10
-----------------------------------------------------------------------------
(* An entity that exists has a slot, which is not on the free list. *)
LEMMA ExistingSlot ==
  ASSUME NEW c, Sound(c), NEW id, Exists(c, id)
  PROVE  id \in ID /\ id \in 1 .. Len(c.slots) /\ id \notin ToSet(c.free)
<1>1. Len(c.slots) \in Nat /\ Len(c.slots) <= MaxSlots
  BY SoundParts DEF Typed
<1> QED BY <1>1, SlotsAssumption DEF Exists, ID

(* A bundle has values for some of the component types. *)
LEMMA BundleType ==
  ASSUME NEW bundle \in Bundle
  PROVE  /\ DOMAIN bundle \subseteq Component
         /\ \A t \in DOMAIN bundle : bundle[t] \in Value
BY DEF Bundle

(* A single component is a bundle. *)
LEMMA OneComponent ==
  ASSUME NEW t \in Component, NEW v \in Value
  PROVE  [u \in {t} |-> v] \in Bundle
<1>1. {t} \in SUBSET Component OBVIOUS
<1>2. [u \in {t} |-> v] \in [{t} -> Value] OBVIOUS
<1> QED BY <1>1, <1>2 DEF Bundle

(* add() keeps a container sound. *)
LEMMA AddedSound ==
  ASSUME NEW c, Sound(c), NEW id, Exists(c, id), NEW bundle \in Bundle
  PROVE  Sound(Added(c, id, bundle))
<1> DEFINE s == c.slots
           f == c.free
           d == c.dense
           new == {t \in DOMAIN bundle : s[id][t] = 0}
           row == [t \in Component |->
                     IF t \in new THEN Len(d[t]) + 1 ELSE s[id][t]]
           r == [s EXCEPT ![id] = row]
           entry(t) == [value |-> bundle[t], owner |-> id]
           e == [t \in Component |->
                   IF t \in new THEN Append(d[t], entry(t)) ELSE d[t]]
<1>1. Typed(s, f, d) /\ Linked(s, f, d) BY SoundParts
<1>2. id \in ID /\ id \in 1 .. Len(s) /\ id \notin ToSet(f) BY ExistingSlot
<1>3. Added(c, id, bundle) = [slots |-> r, free |-> f, dense |-> e]
  BY DEF Added
<1> HIDE DEF s, f, d
<1>4. \A t \in Component : Len(d[t]) \in Nat BY <1>1 DEF Typed
<1>5. row \in [Component -> Nat]
  <2>1. s[id] \in [Component -> Nat] BY <1>1, <1>2 DEF Typed
  <2> QED BY <1>4, <2>1
<1>6. /\ r \in Seq([Component -> Nat]) /\ Len(r) = Len(s) /\ Len(s) \in Nat
      /\ r[id] = row /\ \A i \in 1 .. Len(s) : i # id => r[i] = s[i]
  <2> HIDE DEF row
  <2> QED BY <1>1, <1>2, <1>5 DEF Typed
<1>7. \A t \in new : entry(t) \in Dense /\ t \in Component
  BY <1>2, BundleType DEF Dense
<1>8. e \in [Component -> Seq(Dense)]
  BY <1>1, <1>7 DEF Typed
<1>9. Typed(r, f, e) BY <1>1, <1>6, <1>8 DEF Typed
<1>10. FreeSound(r, f) BY <1>1, <1>6 DEF FreeSound, Linked
<1>11. ASSUME NEW t \in Component
       PROVE  OwnersSound(r, f, e[t], t) /\ PlacesSound(r, e[t], t)
  <2>1. /\ OwnersSound(s, f, d[t], t) /\ PlacesSound(s, d[t], t)
        /\ d[t] \in Seq(Dense)
    BY <1>1 DEF Linked, Typed
  <2>2. CASE t \in new
    <3>1. e[t] = Append(d[t], entry(t)) BY <2>2
    <3>2. r[id][t] = Len(d[t]) + 1 BY <1>6, <2>2
    <3>3. entry(t) \in Dense /\ entry(t).owner = id BY <2>2, <1>7
    <3>4. s[id][t] = 0 BY <2>2
    <3> HIDE DEF r, e, entry, new, row
    <3> QED BY <2>1, <3>1, <3>2, <3>3, <3>4, <1>2, <1>6, AppendedPlace
  <2>3. CASE t \notin new
    <3>1. e[t] = d[t] BY <2>3
    <3>2. \A i \in 1 .. Len(s) : r[i][t] = s[i][t] BY <1>6, <2>3
    <3>3. Len(r) = Len(s) BY <1>6
    <3> HIDE DEF r, e
    <3>4. OwnersSound(r, f, e[t], t)
      BY <2>1, <3>1, <3>2, <3>3 DEF OwnersSound
    <3> QED BY <2>1, <3>1, <3>2, <3>3, <3>4 DEF PlacesSound
  <2> QED BY <2>2, <2>3
<1> HIDE DEF r, e
<1> QED BY <1>3, <1>9, <1>10, <1>11, PartsSound DEF Linked

(* Writing a component keeps a container sound. *)
LEMMA WrittenSound ==
  ASSUME NEW c, Sound(c), NEW id, Exists(c, id), NEW bundle \in Bundle
  PROVE  Sound(Written(c, id, bundle))
<1> DEFINE s == c.slots
           f == c.free
           d == c.dense
           hit(t) == t \in DOMAIN bundle /\ s[id][t] # 0
           e == [t \in Component |->
                   IF hit(t) THEN [d[t] EXCEPT ![s[id][t]].value = bundle[t]]
                             ELSE d[t]]
<1>1. Typed(s, f, d) /\ Linked(s, f, d) BY SoundParts
<1>2. id \in ID /\ id \in 1 .. Len(s) BY ExistingSlot
<1>3. Written(c, id, bundle) = [slots |-> s, free |-> f, dense |-> e]
  BY DEF Written
<1> HIDE DEF s, f, d
<1>4. ASSUME NEW t \in Component
      PROVE  /\ e[t] \in Seq(Dense) /\ Len(e[t]) = Len(d[t])
             /\ \A k \in 1 .. Len(d[t]) : e[t][k].owner = d[t][k].owner
  <2>1. d[t] \in Seq(Dense) BY <1>1 DEF Typed
  <2>2. CASE hit(t)
    <3> DEFINE D == d[t]
               p == s[id][t]
               w == [D[p] EXCEPT !.value = bundle[t]]
    <3>1. p \in 1 .. Len(D) BY <2>2, <1>1, <1>2 DEF Linked, PlacesSound
    <3>2. D[p] \in Dense BY <3>1, <2>1
    <3>3. bundle[t] \in Value BY <2>2, BundleType
    <3>4. w \in Dense /\ w.owner = D[p].owner BY <3>2, <3>3 DEF Dense
    <3>5. e[t] = [D EXCEPT ![p] = w] BY <2>2
    <3> HIDE DEF w, D, p, e
    <3> QED BY <2>1, <3>1, <3>4, <3>5 DEF D
  <2>3. CASE ~ hit(t) BY <2>1, <2>3
  <2> QED BY <2>2, <2>3
<1>5. Typed(s, f, e) BY <1>1, <1>4 DEF Typed
<1>6. FreeSound(s, f) BY <1>1 DEF Linked
<1>7. ASSUME NEW t \in Component
      PROVE  OwnersSound(s, f, e[t], t) /\ PlacesSound(s, e[t], t)
  <2>1. OwnersSound(s, f, d[t], t) /\ PlacesSound(s, d[t], t)
    BY <1>1 DEF Linked
  <2>2. /\ Len(e[t]) = Len(d[t])
        /\ \A k \in 1 .. Len(d[t]) : e[t][k].owner = d[t][k].owner
    BY <1>4
  <2> HIDE DEF e
  <2>3. OwnersSound(s, f, e[t], t) BY <2>1, <2>2 DEF OwnersSound
  <2> QED BY <2>1, <2>2, <2>3 DEF PlacesSound
<1> HIDE DEF e
<1> QED BY <1>3, <1>5, <1>6, <1>7, PartsSound DEF Linked

(* erase() keeps the container sound and leaves nothing of the types       *)
(* erased at the entity.                                                   *)
LEMMA ErasedSound ==
  ASSUME NEW c, Sound(c), NEW id, Exists(c, id), NEW T \in SUBSET Component
  PROVE  /\ Sound(Erased(c, id, T))
         /\ Erased(c, id, T).free = c.free
         /\ Len(Erased(c, id, T).slots) = Len(c.slots)
         /\ \A t \in T : Erased(c, id, T).slots[id][t] = 0
<1> DEFINE s == c.slots
           f == c.free
           d == c.dense
           gone == {t \in T : s[id][t] # 0}
           r == Relinked(c, id, gone)
           filled(t) == [d[t] EXCEPT ![s[id][t]] = Last(d[t])]
           e == [t \in Component |->
                   IF t \in gone THEN Front(filled(t)) ELSE d[t]]
<1>1. Typed(s, f, d) /\ Linked(s, f, d) BY SoundParts
<1>2. id \in ID /\ id \in 1 .. Len(s) /\ id \notin ToSet(f) BY ExistingSlot
<1>3. Erased(c, id, T) = [slots |-> r, free |-> f, dense |-> e]
  BY DEF Erased
<1>4. r = [i \in 1 .. Len(s) |-> [t \in Component |->
             IF t \in gone /\ i = id THEN 0
             ELSE IF t \in gone /\ i = Last(d[t]).owner THEN s[id][t]
             ELSE s[i][t]]]
  <2>1. DOMAIN s = 1 .. Len(s) BY <1>1 DEF Typed
  <2> QED BY <2>1 DEF Relinked
<1> HIDE DEF s, f, d, r
<1>5. \A i \in 1 .. Len(s), t \in Component : s[i][t] \in Nat
  BY <1>1 DEF Typed
<1>6. /\ r \in Seq([Component -> Nat]) /\ Len(r) = Len(s) /\ Len(s) \in Nat
  <2>1. Len(s) \in Nat BY <1>1 DEF Typed
  <2>2. r \in [1 .. Len(s) -> [Component -> Nat]] BY <1>2, <1>4, <1>5
  <2> QED BY <2>1, <2>2, SeqDef, LenProperties
<1>7. \A i \in 1 .. Len(s), t \in Component :
        r[i][t] = IF t \in gone /\ i = id THEN 0
                  ELSE IF t \in gone /\ i = Last(d[t]).owner THEN s[id][t]
                  ELSE s[i][t]
  BY <1>4
<1>8. ASSUME NEW t \in Component
      PROVE  /\ e[t] \in Seq(Dense)
             /\ OwnersSound(r, f, e[t], t) /\ PlacesSound(r, e[t], t)
  <2>1. /\ OwnersSound(s, f, d[t], t) /\ PlacesSound(s, d[t], t)
        /\ d[t] \in Seq(Dense)
    BY <1>1 DEF Linked, Typed
  <2>2. CASE t \in gone
    <3>1. e[t] = Front([d[t] EXCEPT ![s[id][t]] = Last(d[t])]) BY <2>2
    <3>2. s[id][t] # 0 BY <2>2
    <3>3. r[id][t] = 0 BY <2>2, <1>2, <1>7
    <3>4. \A i \in 1 .. Len(s) : i # id =>
            r[i][t] = IF i = Last(d[t]).owner THEN s[id][t] ELSE s[i][t]
      BY <2>2, <1>7
    <3> HIDE DEF e, gone
    <3> QED BY <2>1, <3>1, <3>2, <3>3, <3>4, <1>2, <1>6, FilledPlace
  <2>3. CASE t \notin gone
    <3>1. e[t] = d[t] BY <2>3
    <3>2. \A i \in 1 .. Len(s) : r[i][t] = s[i][t] BY <1>7, <2>3
    <3> HIDE DEF e, gone
    <3> QED BY <2>1, <3>1, <3>2, <1>6 DEF OwnersSound, PlacesSound
  <2> QED BY <2>2, <2>3
<1>9. \A t \in T : r[id][t] = 0
  BY <1>2, <1>7
<1> HIDE DEF e, gone
<1>10. Typed(r, f, e)
  <2>1. e \in [Component -> Seq(Dense)] BY <1>8 DEF e
  <2> QED BY <1>1, <1>6, <2>1 DEF Typed
<1>11. FreeSound(r, f) BY <1>1, <1>6 DEF FreeSound, Linked
<1>12. Linked(r, f, e) BY <1>8, <1>11 DEF Linked
<1> QED BY <1>3, <1>6, <1>9, <1>10, <1>12, PartsSound DEF s, f

(* destroy() keeps a container sound. *)
LEMMA DestroyedSound ==
  ASSUME NEW c, Sound(c), NEW id
  PROVE  Sound(Destroyed(c, id))
<1>1. CASE ~ Exists(c, id) BY <1>1 DEF Destroyed
<1>2. CASE Exists(c, id)
  <2> DEFINE b == Erased(c, id, Component)
             s == b.slots
             f == b.free
             d == b.dense
             r == [s EXCEPT ![id] = Blank]
             g == Append(f, id)
  <2>1. /\ Sound(b) /\ f = c.free /\ Len(s) = Len(c.slots)
        /\ \A t \in Component : s[id][t] = 0
    BY <1>2, ErasedSound
  <2>2. Destroyed(c, id) = [slots |-> r, free |-> g, dense |-> d]
    BY <1>2 DEF Destroyed
  <2>3. id \in ID /\ id \in 1 .. Len(s) /\ id \notin ToSet(f)
    BY <1>2, <2>1, ExistingSlot
  <2> HIDE DEF b
  <2>4. Typed(s, f, d) /\ Linked(s, f, d) BY <2>1, SoundParts
  <2> HIDE DEF s, f, d
  <2>5. /\ r \in Seq([Component -> Nat]) /\ Len(r) = Len(s) /\ Len(s) \in Nat
        /\ r[id] = Blank /\ \A i \in 1 .. Len(s) : i # id => r[i] = s[i]
    BY <2>3, <2>4, BlankSlot DEF Typed
  <2>6. \A i \in 1 .. Len(s), t \in Component : r[i][t] = s[i][t]
    BY <2>1, <2>5, BlankSlot
  <2>7. /\ g \in Seq(ID) /\ Len(g) = Len(f) + 1 /\ Len(f) \in Nat
        /\ g[Len(f) + 1] = id /\ \A i \in 1 .. Len(f) : g[i] = f[i]
    BY <2>3, <2>4 DEF Typed
  <2> HIDE DEF r, g
  <2>8. DOMAIN f = 1 .. Len(f) /\ DOMAIN g = 1 .. Len(f) + 1
    BY <2>4, <2>7 DEF Typed
  <2>9. ToSet(g) = ToSet(f) \cup {id} BY <2>7, <2>8 DEF ToSet
  <2>10. Typed(r, g, d) BY <2>4, <2>5, <2>7 DEF Typed
  <2>11. FreeSound(r, g)
    <3>1. FreeSound(s, f) BY <2>4 DEF Linked
    <3>2. \A i \in 1 .. Len(f) : f[i] # id BY <2>3, <2>8 DEF ToSet
    <3>3. \A i \in 1 .. Len(g) : i \in 1 .. Len(f) \/ i = Len(f) + 1
      BY <2>7
    <3>4. \A i \in 1 .. Len(g) : g[i] \in 1 .. Len(r)
      BY <3>1, <3>3, <2>3, <2>5, <2>7 DEF FreeSound
    <3>5. ASSUME NEW i \in 1 .. Len(g), NEW j \in 1 .. Len(g), g[i] = g[j]
          PROVE  i = j
      <4>1. CASE i \in 1 .. Len(f) /\ j \in 1 .. Len(f)
        BY <4>1, <3>1, <3>5, <2>7 DEF FreeSound
      <4>2. CASE i = Len(f) + 1 /\ j \in 1 .. Len(f)
        BY <4>2, <3>2, <3>5, <2>7
      <4>3. CASE i \in 1 .. Len(f) /\ j = Len(f) + 1
        BY <4>3, <3>2, <3>5, <2>7
      <4> QED BY <4>1, <4>2, <4>3, <3>3
    <3> QED BY <3>4, <3>5 DEF FreeSound
  <2>12. ASSUME NEW t \in Component
         PROVE  OwnersSound(r, g, d[t], t) /\ PlacesSound(r, d[t], t)
    <3>1. OwnersSound(s, f, d[t], t) /\ PlacesSound(s, d[t], t)
      BY <2>4 DEF Linked
    <3>2. \A k \in 1 .. Len(d[t]) : d[t][k].owner # id
      BY <3>1, <2>1 DEF OwnersSound
    <3>3. OwnersSound(r, g, d[t], t)
      BY <3>1, <3>2, <2>5, <2>6, <2>9 DEF OwnersSound
    <3>4. PlacesSound(r, d[t], t) BY <3>1, <2>5, <2>6 DEF PlacesSound
    <3> QED BY <3>3, <3>4
  <2> QED BY <2>2, <2>10, <2>11, <2>12, PartsSound DEF Linked
<1> QED BY <1>1, <1>2

(* Taking an identifier out of the free list. *)
LEMMA ReclaimedFree ==
  ASSUME NEW f \in Seq(ID), NEW id \in ID, NEW s, FreeSound(s, f)
  PROVE  /\ Reclaimed(f, id) \in Seq(ID)
         /\ FreeSound(s, Reclaimed(f, id))
         /\ ToSet(Reclaimed(f, id)) = ToSet(f) \ {id}
<1>0. Len(f) \in Nat /\ DOMAIN f = 1 .. Len(f) OBVIOUS
<1>1. CASE id \notin ToSet(f) BY <1>1 DEF Reclaimed
<1>2. CASE id \in ToSet(f)
  <2> DEFINE k == CHOOSE i \in DOMAIN f : f[i] = id
             g == RemoveAt(f, k)
             h == [i \in 1 .. Len(f) - 1 |-> IF i < k THEN f[i] ELSE f[i + 1]]
  <2>1. k \in 1 .. Len(f) /\ f[k] = id BY <1>2, <1>0 DEF ToSet
  <2>2. Reclaimed(f, id) = g BY <1>2 DEF Reclaimed
  <2> HIDE DEF k
  <2>3. g = h
    <3> DEFINE a == SubSeq(f, 1, k - 1)
               z == SubSeq(f, k + 1, Len(f))
    <3>1. /\ a \in Seq(ID) /\ Len(a) = k - 1
          /\ \A i \in 1 .. k - 1 : a[i] = f[i]
      BY <2>1
    <3>2. /\ z \in Seq(ID) /\ Len(z) = Len(f) - k
          /\ \A i \in 1 .. Len(f) - k : z[i] = f[k + i]
      BY <2>1
    <3> HIDE DEF a, z
    <3> DEFINE q == a \o z
    <3>3. /\ q \in Seq(ID) /\ Len(q) = Len(f) - 1
          /\ \A i \in 1 .. Len(a) : q[i] = a[i]
          /\ \A i \in 1 .. Len(z) : q[Len(a) + i] = z[i]
      <4>1. /\ q \in Seq(ID) /\ Len(q) = Len(a) + Len(z)
            /\ \A i \in 1 .. Len(a) + Len(z) :
                 q[i] = IF i <= Len(a) THEN a[i] ELSE z[i - Len(a)]
        BY <3>1, <3>2, ConcatProperties
      <4>2. Len(a) \in Nat /\ Len(z) \in Nat /\ Len(a) + Len(z) = Len(f) - 1
        BY <3>1, <3>2, <2>1, <1>0
      <4> HIDE DEF q
      <4>3. \A i \in 1 .. Len(a) : q[i] = a[i] BY <4>1, <4>2
      <4>4. ASSUME NEW i \in 1 .. Len(z)
            PROVE  q[Len(a) + i] = z[i]
        <5>1. /\ Len(a) + i \in 1 .. Len(a) + Len(z) /\ ~ (Len(a) + i <= Len(a))
              /\ (Len(a) + i) - Len(a) = i
          BY <4>2
        <5> QED BY <4>1, <5>1
      <4> QED BY <4>1, <4>2, <4>3, <4>4
    <3> HIDE DEF q
    <3>4. ASSUME NEW i \in 1 .. Len(f) - 1
          PROVE  q[i] = IF i < k THEN f[i] ELSE f[i + 1]
      <4>1. CASE i < k
        <5>1. i \in 1 .. k - 1 BY <4>1, <2>1, <1>0
        <5> QED BY <4>1, <5>1, <3>1, <3>3
      <4>2. CASE ~ (i < k)
        <5> DEFINE x == i - (k - 1)
        <5>1. x \in 1 .. Len(f) - k /\ (k - 1) + x = i /\ k + x = i + 1
          BY <4>2, <2>1, <1>0
        <5> HIDE DEF x
        <5>2. q[(k - 1) + x] = f[k + x] BY <5>1, <3>1, <3>2, <3>3
        <5> QED BY <4>2, <5>1, <5>2
      <4> QED BY <4>1, <4>2
    <3>5. q = h
      <4>1. q = [i \in 1 .. Len(q) |-> q[i]] BY <3>3
      <4> QED BY <4>1, <3>3, <3>4
    <3> QED BY <3>5 DEF RemoveAt, a, z, q
  <2>4. /\ Len(f) - 1 \in Nat /\ h \in Seq(ID) /\ Len(h) = Len(f) - 1
    <3>1. Len(f) - 1 \in Nat BY <2>1, <1>0
    <3>2. h \in [1 .. Len(f) - 1 -> ID] BY <2>1, <1>0
    <3> QED BY <3>1, <3>2, SeqDef, LenProperties
  <2>5. \A i \in 1 .. Len(f) - 1 : h[i] = IF i < k THEN f[i] ELSE f[i + 1]
    OBVIOUS
  <2> HIDE DEF g, h
  <2>6. FreeSound(s, h)
    <3>1. \A i \in 1 .. Len(f) - 1 : i \in 1 .. Len(f) /\ i + 1 \in 1 .. Len(f)
      BY <1>0
    <3>2. \A i \in 1 .. Len(h) : h[i] \in 1 .. Len(s)
      BY <2>4, <2>5, <3>1 DEF FreeSound
    <3>3. ASSUME NEW i \in 1 .. Len(h), NEW j \in 1 .. Len(h), h[i] = h[j]
          PROVE  i = j
      <4> DEFINE at(x) == IF x < k THEN x ELSE x + 1
      <4>1. /\ at(i) \in 1 .. Len(f) /\ at(j) \in 1 .. Len(f)
            /\ h[i] = f[at(i)] /\ h[j] = f[at(j)]
        BY <2>1, <2>4, <2>5, <3>1
      <4>2. at(i) = at(j) BY <4>1, <3>3 DEF FreeSound
      <4> QED BY <4>2, <2>1, <2>4
    <3> QED BY <3>2, <3>3 DEF FreeSound
  <2>7. DOMAIN h = 1 .. Len(f) - 1 BY <2>4
  <2>8. ToSet(h) \subseteq ToSet(f) \ {id}
    <3> SUFFICES ASSUME NEW i \in 1 .. Len(f) - 1
                 PROVE  h[i] \in ToSet(f) /\ h[i] # id
      BY <2>7 DEF ToSet
    <3>1. i \in 1 .. Len(f) /\ i + 1 \in 1 .. Len(f) BY <1>0
    <3>2. h[i] \in ToSet(f) BY <3>1, <2>5, <1>0 DEF ToSet
    <3>3. i # k => f[i] # id BY <2>1, <3>1 DEF FreeSound
    <3>4. i + 1 # k => f[i + 1] # id BY <2>1, <3>1 DEF FreeSound
    <3> QED BY <3>2, <3>3, <3>4, <2>5, <2>1
  <2>9. ToSet(f) \ {id} \subseteq ToSet(h)
    <3> SUFFICES ASSUME NEW i \in 1 .. Len(f), f[i] # id
                 PROVE  f[i] \in ToSet(h)
      BY <1>0 DEF ToSet
    <3>1. i # k BY <2>1
    <3>2. CASE i < k
      <4>1. i \in 1 .. Len(f) - 1 BY <3>2, <2>1, <1>0
      <4> QED BY <4>1, <3>2, <2>5, <2>7 DEF ToSet
    <3>3. CASE i > k
      <4>1. i - 1 \in 1 .. Len(f) - 1 /\ ~ (i - 1 < k) /\ (i - 1) + 1 = i
        BY <3>3, <2>1, <1>0
      <4>2. h[i - 1] = f[i] BY <4>1, <2>5
      <4> QED BY <4>1, <4>2, <2>7 DEF ToSet
    <3> QED BY <3>1, <3>2, <3>3, <2>1
  <2> QED BY <2>2, <2>3, <2>4, <2>6, <2>8, <2>9
<1> QED BY <1>1, <1>2

(* ensure() keeps a container sound. *)
LEMMA EnsuredSound ==
  ASSUME NEW c, Sound(c), NEW id \in ID
  PROVE  Sound(Ensured(c, id)) /\ Exists(Ensured(c, id), id)
<1>1. CASE Exists(c, id) BY <1>1 DEF Ensured
<1>2. CASE ~ Exists(c, id)
  <2> DEFINE s == c.slots
             f == c.free
             d == c.dense
             r == Reaching(c, id)
             g == Reclaimed(f, id)
             n == IF id > Len(s) THEN id ELSE Len(s)
  <2>1. Typed(s, f, d) /\ Linked(s, f, d) BY SoundParts
  <2>2. Ensured(c, id) = [slots |-> r, free |-> g, dense |-> d]
    BY <1>2 DEF Ensured
  <2>3. r = [i \in 1 .. n |-> IF i = id \/ i > Len(s) THEN Blank ELSE s[i]]
    BY DEF Reaching
  <2>4. id \notin 1 .. Len(s) \/ id \in ToSet(f) BY <1>2 DEF Exists
  <2> HIDE DEF s, f, d, r, g
  <2>5. /\ Len(s) \in Nat /\ n \in Nat /\ n <= MaxSlots /\ id \in 1 .. n
        /\ Len(s) <= n
    BY <2>1, SlotsAssumption DEF Typed, ID
  <2>6. /\ r \in Seq([Component -> Nat]) /\ Len(r) = n
        /\ r[id] = Blank
        /\ \A i \in 1 .. n : r[i] = IF i = id \/ i > Len(s) THEN Blank ELSE s[i]
    <3> HIDE DEF n
    <3>1. \A i \in 1 .. n : i > Len(s) \/ i \in 1 .. Len(s) BY <2>5
    <3>2. r \in [1 .. n -> [Component -> Nat]]
      BY <2>1, <2>3, <3>1, BlankSlot DEF Typed
    <3>3. r \in Seq([Component -> Nat]) /\ Len(r) = n
      BY <2>5, <3>2, SeqDef, LenProperties
    <3> QED BY <2>3, <2>5, <3>3
  <2>7. FreeSound(s, f) /\ f \in Seq(ID) BY <2>1 DEF Linked, Typed
  <2>8. g \in Seq(ID) /\ FreeSound(s, g) /\ ToSet(g) = ToSet(f) \ {id}
    BY <2>7, ReclaimedFree DEF g
  <2> HIDE DEF n
  <2>9. Typed(r, g, d) BY <2>1, <2>5, <2>6, <2>8 DEF Typed
  <2>10. FreeSound(r, g) BY <2>5, <2>6, <2>8 DEF FreeSound
  <2>11. ASSUME NEW t \in Component
         PROVE  OwnersSound(r, g, d[t], t) /\ PlacesSound(r, d[t], t)
    <3>1. OwnersSound(s, f, d[t], t) /\ PlacesSound(s, d[t], t)
      BY <2>1 DEF Linked
    <3>2. OwnersSound(r, g, d[t], t)
      <4> SUFFICES ASSUME NEW k \in 1 .. Len(d[t])
                   PROVE  /\ d[t][k].owner \in 1 .. Len(r)
                          /\ d[t][k].owner \notin ToSet(g)
                          /\ r[d[t][k].owner][t] = k
        BY DEF OwnersSound
      <4> DEFINE o == d[t][k].owner
      <4>1. o \in 1 .. Len(s) /\ o \notin ToSet(f) /\ s[o][t] = k
        BY <3>1 DEF OwnersSound
      <4>2. o # id BY <4>1, <2>4
      <4>3. o \in 1 .. n /\ ~ (o > Len(s)) BY <4>1, <2>5
      <4> HIDE DEF o
      <4> QED BY <4>1, <4>2, <4>3, <2>6, <2>8 DEF o
    <3>3. PlacesSound(r, d[t], t)
      <4> SUFFICES ASSUME NEW i \in 1 .. Len(r), r[i][t] # 0
                   PROVE  r[i][t] \in 1 .. Len(d[t]) /\ d[t][r[i][t]].owner = i
        BY DEF PlacesSound
      <4>1. i \in 1 .. n BY <2>6
      <4>2. r[i] # Blank BY BlankSlot
      <4>3. r[i] = s[i] /\ ~ (i > Len(s)) BY <4>1, <4>2, <2>6
      <4>4. i \in 1 .. Len(s) BY <4>1, <4>3, <2>5
      <4> QED BY <4>3, <4>4, <3>1 DEF PlacesSound
    <3> QED BY <3>2, <3>3
  <2>12. id \in 1 .. Len(r) /\ id \notin ToSet(g) BY <2>5, <2>6, <2>8
  <2>13. Sound(Ensured(c, id)) BY <2>2, <2>9, <2>10, <2>11, PartsSound DEF Linked
  <2>14. Exists(Ensured(c, id), id) BY <2>2, <2>12 DEF Exists
  <2> QED BY <2>13, <2>14
<1> QED BY <1>1, <1>2
-----------------------------------------------------------------------------
(* Soundness is inductive: no operation relies on more.                    *)
IInv == Sound(store)

(* Soundness is inductive. *)
LEMMA NextKeepsSound == IInv /\ [StoreNext]_store => IInv'
<1> SUFFICES ASSUME Sound(store), [StoreNext]_store
             PROVE  Sound(store')
  BY DEF IInv
<1>1. ASSUME NEW bundle \in Bundle, Create(bundle)
      PROVE  Sound(store')
  <2>1. NewID(store) <= MaxSlots BY <1>1 DEF Create
  <2>2. Sound(Created(store)) /\ Exists(Created(store), NewID(store))
    BY <2>1, CreatedSound
  <2> QED BY <1>1, <2>2, AddedSound DEF Create
<1>2. ASSUME NEW id \in ID, Ensure(id)
      PROVE  Sound(store')
  BY <1>2, EnsuredSound DEF Ensure
<1>3. ASSUME NEW id \in ID, Destroy(id)
      PROVE  Sound(store')
  BY <1>3, DestroyedSound DEF Destroy
<1>4. ASSUME NEW id \in ID, NEW t \in Component, Erase(id, t)
      PROVE  Sound(store')
  <2>1. {t} \in SUBSET Component OBVIOUS
  <2> QED BY <1>4, <2>1, ErasedSound DEF Erase
<1>5. ASSUME NEW id \in ID, NEW t \in Component, NEW v \in Value, Add(id, t, v)
      PROVE  Sound(store')
  BY <1>5, OneComponent, AddedSound DEF Add
<1>6. ASSUME NEW id \in ID, NEW t \in Component, NEW v \in Value, Write(id, t, v)
      PROVE  Sound(store')
  BY <1>6, OneComponent, WrittenSound DEF Write
<1>7. CASE Clear BY <1>7, EmptySound DEF Clear
<1>8. CASE UNCHANGED store BY <1>8
<1> QED BY <1>1, <1>2, <1>3, <1>4, <1>5, <1>6, <1>7, <1>8 DEF StoreNext

(* The container is sound in every behaviour. *)
LEMMA AlwaysSound == StoreSpec => []IInv
<1>1. StoreInit => IInv BY EmptySound DEF StoreInit, IInv
<1> QED BY <1>1, NextKeepsSound, PTL DEF StoreSpec

(* The container's vectors have the types that the code declares, and it   *)
(* grows only with the identifiers it gives or is given.                   *)
THEOREM TypeCorrect == StoreSpec => []StoreTypeOK
<1>1. IInv => StoreTypeOK BY DEF IInv, Sound, StoreTypeOK
<1> QED BY <1>1, AlwaysSound, PTL

(* What process() writes, process() accepts: after any sequence of         *)
(* create(), ensure(), add(), erase(), destroy() and clear(), every place  *)
(* in a dense vector and the slot of its owner point to each other, and no *)
(* free slot owns anything or is free twice.                               *)
THEOREM ContainerStaysSound == StoreSpec => []StoreReadsBack
<1>1. IInv => StoreReadsBack BY DEF IInv, Sound, StoreReadsBack
<1> QED BY <1>1, AlwaysSound, PTL

-----------------------------------------------------------------------------
(***************************************************************************)
(* A component container implements a plain store of entities, for any     *)
(* number of slots, component types and values: whatever moves in slots    *)
(* and dense storage, each operation changes only the entity it is about.  *)
(***************************************************************************)

(* What slots and dense storage show of an entity is all that is carried.  *)
LEMMA SameCarried ==
  ASSUME NEW a, NEW b, NEW i,
         \A t \in Component : /\ Has(a, i, t) <=> Has(b, i, t)
                              /\ Has(a, i, t) => Find(a, i, t) = Find(b, i, t)
  PROVE  Carried(a, i) = Carried(b, i)
<1> DEFINE A == {t \in Component : Has(a, i, t)}
           B == {t \in Component : Has(b, i, t)}
<1>1. A = B OBVIOUS
<1>2. \A t \in A : Find(a, i, t) = Find(b, i, t) OBVIOUS
<1>3. Carried(a, i) = [t \in A |-> Find(a, i, t)] BY DEF Carried
<1>4. Carried(b, i) = [t \in B |-> Find(b, i, t)] BY DEF Carried
<1> HIDE DEF A, B
<1> QED BY <1>1, <1>2, <1>3, <1>4

(* An entity with blank slots carries nothing. *)
LEMMA CarriesNothing ==
  ASSUME NEW c, NEW i, \A t \in Component : ~ Has(c, i, t)
  PROVE  Carried(c, i) = <<>>
<1>1. {t \in Component : Has(c, i, t)} = {} OBVIOUS
<1> QED BY <1>1 DEF Carried

(* The entities that exist have the slots that are not on the free list. *)
LEMMA ExistingSlots ==
  ASSUME NEW c, Sound(c)
  PROVE  Existing(c) = {i \in 1 .. Len(c.slots) : i \notin ToSet(c.free)}
BY ExistingSlot DEF Existing, Exists

(* The slot of an entity that has a component points to it. *)
LEMMA ComponentPlace ==
  ASSUME NEW c, Sound(c), NEW i, NEW t \in Component, Has(c, i, t)
  PROVE  /\ i \in 1 .. Len(c.slots)
         /\ c.slots[i][t] \in 1 .. Len(c.dense[t])
         /\ c.dense[t][c.slots[i][t]].owner = i
BY SoundParts DEF Has, Linked, PlacesSound
-----------------------------------------------------------------------------
(* create() brings a bare entity to life in a slot that nobody used, and   *)
(* leaves the others alone.                                                *)
LEMMA CreatedEntities ==
  ASSUME NEW c, Sound(c), NewID(c) <= MaxSlots
  PROVE  /\ NewID(c) \notin Existing(c)
         /\ Existing(Created(c)) = Existing(c) \cup {NewID(c)}
         /\ Carried(Created(c), NewID(c)) = <<>>
         /\ \A i \in Existing(c) : Carried(Created(c), i) = Carried(c, i)
<1> DEFINE s == c.slots
           f == c.free
           n == NewID(c)
           r == Created(c).slots
           g == Created(c).free
<1>1. Typed(s, f, c.dense) /\ Linked(s, f, c.dense) BY SoundParts
<1>2. Sound(Created(c)) BY CreatedSound
<1>3. Created(c).dense = c.dense BY DEF Created
<1>4. /\ n \in 1 .. Len(r) /\ (n \in 1 .. Len(s) => n \in ToSet(f))
      /\ Len(s) \in Nat
      /\ r[n] = Blank /\ \A i \in 1 .. Len(s) : i # n => r[i] = s[i]
      /\ \A i : i \in 1 .. Len(r) <=> i \in 1 .. Len(s) \/ i = n
      /\ \A i \in 1 .. Len(s) : i # n => (i \in ToSet(g) <=> i \in ToSet(f))
      /\ n \notin ToSet(g)
  <2>1. CASE f = <<>>
    <3>1. n = Len(s) + 1 /\ r = Append(s, Blank) /\ g = f
      BY <2>1 DEF NewID, Created
    <3>2. ToSet(f) = {} BY <2>1 DEF ToSet
    <3> HIDE DEF n, r, g, s, f
    <3>3. s \in Seq([Component -> Nat]) BY <1>1 DEF Typed
    <3> QED BY <3>1, <3>2, <3>3, BlankSlot
  <2>2. CASE f # <<>>
    <3>1. n = Last(f) /\ r = [s EXCEPT ![n] = Blank] /\ g = Front(f)
      BY <2>2 DEF NewID, Created
    <3> HIDE DEF n, r, g, s, f
    <3>2. /\ s \in Seq([Component -> Nat]) /\ f \in Seq(ID) /\ FreeSound(s, f)
      BY <1>1 DEF Typed, Linked
    <3>3. /\ Len(f) \in Nat \ {0} /\ n = f[Len(f)]
          /\ g \in Seq(ID) /\ Len(g) = Len(f) - 1
          /\ \A i \in 1 .. Len(g) : g[i] = f[i]
      BY <2>2, <3>1, <3>2, FrontAndLast
    <3>4. DOMAIN f = 1 .. Len(f) /\ DOMAIN g = 1 .. Len(g)
      BY <3>2, <3>3
    <3>5. n \in 1 .. Len(s) /\ n \in ToSet(f) /\ n \notin ToSet(g)
      <4>1. Len(f) \in 1 .. Len(f) BY <3>3
      <4>2. \A k \in 1 .. Len(g) : k \in 1 .. Len(f) /\ k # Len(f) BY <3>3
      <4>3. n \in 1 .. Len(s) BY <3>2, <3>3, <4>1 DEF FreeSound
      <4>4. \A k \in 1 .. Len(g) : g[k] # n
        BY <3>2, <3>3, <4>1, <4>2 DEF FreeSound
      <4> QED BY <3>3, <3>4, <4>1, <4>3, <4>4 DEF ToSet
    <3>6. ASSUME NEW i, i # n
          PROVE  i \in ToSet(g) <=> i \in ToSet(f)
      <4>1. \A k \in 1 .. Len(f) : f[k] = i => k \in 1 .. Len(g)
        BY <3>3, <3>6
      <4>2. \A k \in 1 .. Len(g) : k \in 1 .. Len(f) BY <3>3
      <4> QED BY <3>3, <3>4, <4>1, <4>2 DEF ToSet
    <3>7. Len(r) = Len(s) /\ Len(s) \in Nat BY <3>1, <3>2
    <3> QED BY <3>1, <3>2, <3>5, <3>6, <3>7
  <2> QED BY <2>1, <2>2
<1> HIDE DEF n
<1>5. n \notin Existing(c) BY <1>4, ExistingSlots
<1>6. Existing(Created(c)) = Existing(c) \cup {n}
  BY <1>2, <1>4, ExistingSlots
<1>7. Carried(Created(c), n) = <<>>
  BY <1>4, BlankSlot, CarriesNothing DEF Has
<1>8. ASSUME NEW i \in Existing(c)
      PROVE  Carried(Created(c), i) = Carried(c, i)
  <2>1. i \in 1 .. Len(s) /\ i # n BY <1>5, ExistingSlots
  <2>2. i \in 1 .. Len(r) /\ r[i] = s[i] BY <1>4, <2>1
  <2> QED BY <1>3, <2>1, <2>2, SameCarried DEF Has, Find
<1> QED BY <1>5, <1>6, <1>7, <1>8 DEF n

(* What an entity carries, that carried before, once a bundle is added,    *)
(* written, or components of the types T are erased.                       *)
Joined(before, bundle) ==
  [t \in DOMAIN before \cup DOMAIN bundle |->
     IF t \in DOMAIN before THEN before[t] ELSE bundle[t]]

Overwritten(before, bundle) ==
  [t \in DOMAIN before |-> IF t \in DOMAIN bundle THEN bundle[t] ELSE before[t]]

Without(before, T) == [t \in DOMAIN before \ T |-> before[t]]

(* add() gives the entity the components that it lacks; no other entity    *)
(* changes.                                                                *)
LEMMA AddedEntities ==
  ASSUME NEW c, Sound(c), NEW id, Exists(c, id), NEW bundle \in Bundle
  PROVE  /\ Existing(Added(c, id, bundle)) = Existing(c)
         /\ \A i \in Existing(c) : i # id =>
              Carried(Added(c, id, bundle), i) = Carried(c, i)
         /\ Carried(Added(c, id, bundle), id) = Joined(Carried(c, id), bundle)
<1> DEFINE s == c.slots
           d == c.dense
           a == Added(c, id, bundle)
           r == a.slots
           e == a.dense
           had == DOMAIN Carried(c, id)
           lacks(t) == t \in DOMAIN bundle /\ s[id][t] = 0
           new == {t \in DOMAIN bundle : s[id][t] = 0}
<1>1. Typed(s, c.free, d) /\ Linked(s, c.free, d) BY SoundParts
<1>2. Sound(a) BY AddedSound
<1>3. id \in 1 .. Len(s) /\ id \notin ToSet(c.free) BY ExistingSlot
<1>4. had = {t \in Component : s[id][t] # 0} BY <1>3 DEF Carried, Has
<1>5. /\ a.free = c.free
      /\ r = [s EXCEPT ![id] = [t \in Component |->
               IF t \in new THEN Len(d[t]) + 1 ELSE s[id][t]]]
      /\ \A t \in Component :
           e[t] = IF t \in new
                  THEN Append(d[t], [value |-> bundle[t], owner |-> id])
                  ELSE d[t]
  BY DEF Added
<1> HIDE DEF s, d, a, r, e, had
<1>6. \A t \in Component : t \in new <=> lacks(t) OBVIOUS
<1> HIDE DEF new
<1>7. /\ Len(r) = Len(s) /\ Len(s) \in Nat
      /\ \A i \in 1 .. Len(s), t \in Component :
           r[i][t] = IF i = id /\ lacks(t) THEN Len(d[t]) + 1 ELSE s[i][t]
  BY <1>1, <1>3, <1>5, <1>6 DEF Typed
<1>8. Existing(a) = Existing(c)
  BY <1>2, <1>5, <1>7, ExistingSlots DEF r, s
<1>9. \A t \in Component : /\ Len(d[t]) \in Nat
                           /\ \A k \in 1 .. Len(d[t]) : e[t][k] = d[t][k]
                           /\ lacks(t) => e[t][Len(d[t]) + 1].value = bundle[t]
  <2> SUFFICES ASSUME NEW t \in Component
               PROVE  /\ Len(d[t]) \in Nat
                      /\ \A k \in 1 .. Len(d[t]) : e[t][k] = d[t][k]
                      /\ lacks(t) => e[t][Len(d[t]) + 1].value = bundle[t]
    OBVIOUS
  <2>1. d[t] \in Seq(Dense) BY <1>1 DEF Typed
  <2>2. CASE lacks(t)
    <3> DEFINE x == [value |-> bundle[t], owner |-> id]
               D == d[t]
    <3>1. e[t] = Append(D, x) BY <1>5, <1>6, <2>2
    <3>2. x.value = bundle[t] OBVIOUS
    <3>3. x \in Dense BY <1>3, <2>2, BundleType, ExistingSlot DEF lacks, Dense
    <3> HIDE DEF x, D
    <3>4. D \in Seq(Dense) BY <2>1 DEF D
    <3>5. /\ Len(D) \in Nat /\ Append(D, x)[Len(D) + 1] = x
          /\ \A k \in 1 .. Len(D) : Append(D, x)[k] = D[k]
      BY <3>3, <3>4
    <3> QED BY <3>1, <3>2, <3>5 DEF D
  <2>3. CASE ~ lacks(t)
    <3>1. e[t] = d[t] BY <1>5, <1>6, <2>3
    <3> QED BY <2>1, <2>3, <3>1
  <2> QED BY <2>2, <2>3
<1>10. \A i \in 1 .. Len(s), t \in Component :
         s[i][t] # 0 => s[i][t] \in 1 .. Len(d[t])
  BY <1>1 DEF Linked, PlacesSound
<1> HIDE DEF lacks
<1>11. ASSUME NEW i \in Existing(c), i # id
       PROVE  Carried(a, i) = Carried(c, i)
  <2>1. i \in 1 .. Len(s) BY ExistingSlots DEF s
  <2>2. \A t \in Component : r[i][t] = s[i][t] BY <1>7, <1>11, <2>1
  <2>3. \A t \in Component : Has(a, i, t) <=> Has(c, i, t)
    BY <1>7, <2>1, <2>2 DEF Has, r, s
  <2>4. ASSUME NEW t \in Component, Has(c, i, t)
        PROVE  Find(a, i, t) = Find(c, i, t)
    <3>1. s[i][t] \in 1 .. Len(d[t]) BY <1>10, <2>1, <2>4 DEF Has, s
    <3>2. e[t][r[i][t]] = d[t][s[i][t]] BY <1>9, <2>2, <3>1
    <3> QED BY <3>2 DEF Find, r, s, d, e
  <2> QED BY <2>3, <2>4, SameCarried
<1>12. Carried(a, id) = [t \in had \cup DOMAIN bundle |->
                          IF t \in had THEN Carried(c, id)[t] ELSE bundle[t]]
  <2>1. DOMAIN bundle \subseteq Component BY BundleType
  <2>2. \A t \in Component : Has(a, id, t) <=> r[id][t] # 0
    BY <1>3, <1>7 DEF Has, r
  <2>3. {t \in Component : Has(a, id, t)} = had \cup DOMAIN bundle
    BY <1>3, <1>4, <1>7, <1>9, <2>1, <2>2 DEF lacks
  <2>4. ASSUME NEW t \in had
        PROVE  Find(a, id, t) = Carried(c, id)[t]
    <3>1. t \in Component /\ r[id][t] = s[id][t] /\ s[id][t] \in 1 .. Len(d[t])
      BY <1>3, <1>4, <1>7, <1>10 DEF lacks
    <3>2. Carried(c, id)[t] = Find(c, id, t) BY DEF Carried, had
    <3> QED BY <1>9, <3>1, <3>2 DEF Find, r, s, d, e
  <2>5. ASSUME NEW t \in DOMAIN bundle, t \notin had
        PROVE  Find(a, id, t) = bundle[t]
    <3>1. t \in Component /\ lacks(t) BY <1>4, <2>1, <2>5 DEF lacks
    <3> QED BY <1>3, <1>7, <1>9, <3>1 DEF Find, r, e
  <2>6. Carried(a, id) = [t \in had \cup DOMAIN bundle |-> Find(a, id, t)]
    BY <2>3 DEF Carried
  <2> QED BY <2>4, <2>5, <2>6
<1> QED BY <1>8, <1>11, <1>12 DEF a, had, Joined

(* Assignment changes the values of the components that are there, in that *)
(* entity alone.                                                           *)
LEMMA WrittenEntities ==
  ASSUME NEW c, Sound(c), NEW id, Exists(c, id), NEW bundle \in Bundle
  PROVE  /\ Existing(Written(c, id, bundle)) = Existing(c)
         /\ \A i \in Existing(c) : i # id =>
              Carried(Written(c, id, bundle), i) = Carried(c, i)
         /\ Carried(Written(c, id, bundle), id) =
              Overwritten(Carried(c, id), bundle)
<1> DEFINE s == c.slots
           d == c.dense
           w == Written(c, id, bundle)
           e == w.dense
           had == DOMAIN Carried(c, id)
<1>1. Typed(s, c.free, d) /\ Linked(s, c.free, d) BY SoundParts
<1>2. id \in 1 .. Len(s) BY ExistingSlot
<1>3. had = {t \in Component : s[id][t] # 0} BY <1>2 DEF Carried, Has
<1>4. /\ w.free = c.free /\ w.slots = s
      /\ \A t \in Component :
           e[t] = IF t \in DOMAIN bundle /\ s[id][t] # 0
                  THEN [d[t] EXCEPT ![s[id][t]].value = bundle[t]]
                  ELSE d[t]
  BY DEF Written
<1>5. Existing(w) = Existing(c) BY <1>4 DEF Existing, Exists
<1> HIDE DEF s, d, w, e, had
<1>6. \A i, t : Has(w, i, t) <=> Has(c, i, t) BY <1>4 DEF Has, s
<1>7. ASSUME NEW i \in 1 .. Len(s), NEW t \in Component, s[i][t] # 0
      PROVE  e[t][s[i][t]].value = IF i = id /\ t \in DOMAIN bundle
                                   THEN bundle[t] ELSE d[t][s[i][t]].value
  <2>1. d[t] \in Seq(Dense) BY <1>1 DEF Typed
  <2>2. PlacesSound(s, d[t], t) BY <1>1 DEF Linked
  <2>3. s[i][t] \in 1 .. Len(d[t]) /\ d[t][s[i][t]].owner = i
    BY <1>7, <2>2 DEF PlacesSound
  <2>4. CASE t \in DOMAIN bundle /\ s[id][t] # 0
    <3> DEFINE D == d[t]
               p == s[id][t]
               k == s[i][t]
    <3>1. p \in 1 .. Len(D) /\ D[p].owner = id
      BY <1>2, <2>2, <2>4 DEF PlacesSound
    <3>2. k = p <=> i = id BY <2>3, <3>1
    <3>3. D[p] \in Dense BY <2>1, <3>1
    <3>4. [D[p] EXCEPT !.value = bundle[t]].value = bundle[t]
      BY <3>3 DEF Dense
    <3>5. e[t] = [D EXCEPT ![p] = [D[p] EXCEPT !.value = bundle[t]]]
      BY <1>4, <2>4
    <3>6. k \in 1 .. Len(D) BY <2>3
    <3> HIDE DEF D, p, k
    <3>7. e[t][k] = IF k = p THEN [D[p] EXCEPT !.value = bundle[t]] ELSE D[k]
      BY <2>1, <3>5, <3>6 DEF D
    <3>8. e[t][k].value = IF i = id THEN bundle[t] ELSE D[k].value
      BY <3>2, <3>4, <3>7
    <3> QED BY <2>4, <3>8 DEF D, k
  <2>5. CASE ~ (t \in DOMAIN bundle /\ s[id][t] # 0) BY <1>4, <1>7, <2>5
  <2> QED BY <2>4, <2>5
<1>8. ASSUME NEW i \in Existing(c), i # id
      PROVE  Carried(w, i) = Carried(c, i)
  <2>1. i \in 1 .. Len(s) BY ExistingSlots DEF s
  <2>2. \A t \in Component : Has(c, i, t) => Find(w, i, t) = Find(c, i, t)
    BY <1>4, <1>7, <1>8, <2>1 DEF Has, Find, s, d, e
  <2> QED BY <1>6, <2>2, SameCarried
<1>9. Carried(w, id) = [t \in had |-> IF t \in DOMAIN bundle THEN bundle[t]
                                      ELSE Carried(c, id)[t]]
  <2>1. {t \in Component : Has(w, id, t)} = had BY <1>6 DEF Carried, had
  <2>2. \A t \in had : Carried(c, id)[t] = Find(c, id, t) BY DEF Carried, had
  <2>3. \A t \in had : Find(w, id, t) = IF t \in DOMAIN bundle THEN bundle[t]
                                        ELSE Find(c, id, t)
    BY <1>2, <1>3, <1>4, <1>7 DEF Find, s, d, e
  <2>4. Carried(w, id) = [t \in had |-> Find(w, id, t)] BY <2>1 DEF Carried
  <2> QED BY <2>2, <2>3, <2>4
<1> QED BY <1>5, <1>8, <1>9 DEF w, had, Overwritten
-----------------------------------------------------------------------------
(* Slots s with dense storage D, and slots r with storage E, show the same *)
(* of component t of entity i.                                             *)
ShowsSame(s, D, r, E, t, i) ==
  /\ r[i][t] # 0 <=> s[i][t] # 0
  /\ s[i][t] # 0 => E[r[i][t]].value = D[s[i][t]].value

(* Filling the gap at place k of entity id, the last component moves: its  *)
(* owner finds the same value at its new place, and every other entity     *)
(* finds its own where it was.                                             *)
LEMMA FilledValue ==
  ASSUME NEW D \in Seq(Dense), NEW E, NEW s, NEW r, NEW f, NEW t, NEW id,
         NEW k,
         OwnersSound(s, f, D, t), PlacesSound(s, D, t),
         id \in 1 .. Len(s), k = s[id][t], k # 0,
         E = Front([D EXCEPT ![k] = Last(D)]),
         NEW i \in 1 .. Len(s), i # id,
         r[i][t] = IF i = Last(D).owner THEN k ELSE s[i][t]
  PROVE  ShowsSame(s, D, r, E, t, i)
<1> DEFINE n == Len(D)
           m == D[n].owner
           F == [D EXCEPT ![k] = Last(D)]
           p == r[i][t]
<1>1. k \in 1 .. n /\ D[k].owner = id BY DEF PlacesSound
<1>2. D # <<>> BY <1>1
<1>3. n \in Nat \ {0} /\ Last(D) = D[n] /\ Last(D) \in Dense
  BY <1>2, FrontAndLast
<1>4. /\ F \in Seq(Dense) /\ Len(F) = n /\ F # <<>>
      /\ \A j \in 1 .. n : F[j] = IF j = k THEN D[n] ELSE D[j]
  BY <1>1, <1>3
<1>0. E = Front(F) OBVIOUS
<1> HIDE DEF F, n
<1>5. \A j \in 1 .. n - 1 : E[j] = IF j = k THEN D[n] ELSE D[j]
  <2>1. /\ Front(F) \in Seq(Dense) /\ Len(Front(F)) = Len(F) - 1
        /\ \A j \in 1 .. Len(F) - 1 : Front(F)[j] = F[j]
    BY <1>4, FrontAndLast
  <2>2. \A j \in 1 .. n - 1 : j \in 1 .. n BY <1>3
  <2> QED BY <1>0, <1>4, <2>1, <2>2
<1>6. s[m][t] = n BY <1>3 DEF OwnersSound, n
<1>7. p = IF i = m THEN k ELSE s[i][t] BY <1>3
<1> HIDE DEF m
<1>8. CASE i = m
  <2>1. p = k /\ s[i][t] = n BY <1>6, <1>7, <1>8
  <2>2. k # n BY <1>1, <1>8 DEF m
  <2>3. k \in 1 .. n - 1 BY <1>1, <1>3, <2>2
  <2>4. E[k] = D[n] BY <1>5, <2>3
  <2> QED BY <1>3, <2>1, <2>4 DEF ShowsSame
<1>9. CASE i # m
  <2>1. p = s[i][t] BY <1>7, <1>9
  <2>2. ASSUME p # 0
        PROVE  E[p] = D[p]
    <3>1. p \in 1 .. n /\ D[p].owner = i BY <2>1, <2>2 DEF PlacesSound, n
    <3>2. p # n BY <1>9, <3>1 DEF m
    <3>3. p # k BY <1>1, <3>1
    <3>4. p \in 1 .. n - 1 BY <1>3, <3>1, <3>2
    <3> QED BY <1>5, <3>3, <3>4
  <2> QED BY <2>1, <2>2 DEF ShowsSame
<1> QED BY <1>8, <1>9

(* erase() takes components of the types T from the entity and, whatever   *)
(* moves in dense storage, none from any other ("component container       *)
(* reuses slots without mixing component owners",                          *)
(* tests/core/component_container.cpp).                                    *)
LEMMA ErasedEntities ==
  ASSUME NEW c, Sound(c), NEW id, Exists(c, id), NEW T \in SUBSET Component
  PROVE  /\ Existing(Erased(c, id, T)) = Existing(c)
         /\ \A i \in Existing(c) : i # id =>
              Carried(Erased(c, id, T), i) = Carried(c, i)
         /\ Carried(Erased(c, id, T), id) = Without(Carried(c, id), T)
<1> DEFINE s == c.slots
           d == c.dense
           a == Erased(c, id, T)
           r == a.slots
           e == a.dense
           had == DOMAIN Carried(c, id)
           gone(t) == t \in T /\ s[id][t] # 0
           lost == {t \in T : s[id][t] # 0}
<1>1. Typed(s, c.free, d) /\ Linked(s, c.free, d) BY SoundParts
<1>2. Sound(a) /\ a.free = c.free /\ Len(r) = Len(s) BY ErasedSound
<1>3. id \in 1 .. Len(s) BY ExistingSlot
<1>4. had = {t \in Component : s[id][t] # 0} BY <1>3 DEF Carried, Has
<1>5. /\ r = Relinked(c, id, lost)
      /\ \A t \in Component :
           e[t] = IF t \in lost
                  THEN Front([d[t] EXCEPT ![s[id][t]] = Last(d[t])])
                  ELSE d[t]
  BY DEF Erased
<1>6. \A i \in 1 .. Len(s), t \in Component :
        r[i][t] = IF t \in lost /\ i = id THEN 0
                  ELSE IF t \in lost /\ i = Last(d[t]).owner THEN s[id][t]
                  ELSE s[i][t]
  <2>1. DOMAIN s = 1 .. Len(s) BY <1>1 DEF Typed
  <2> HIDE DEF lost, r, a
  <2> QED BY <1>5, <2>1 DEF Relinked
<1>7. \A t : t \in lost <=> gone(t) OBVIOUS
<1>8. Existing(a) = Existing(c) BY <1>2, ExistingSlots
<1> HIDE DEF s, d, a, r, e, had, lost
<1>9. ASSUME NEW i \in Existing(c), i # id
      PROVE  Carried(a, i) = Carried(c, i)
  <2>1. i \in 1 .. Len(s) /\ i \in 1 .. Len(r)
    BY <1>2, ExistingSlots DEF s
  <2>2. ASSUME NEW t \in Component
        PROVE  ShowsSame(s, d[t], r, e[t], t, i)
    <3>1. CASE gone(t)
      <4>1. r[i][t] = IF i = Last(d[t]).owner THEN s[id][t] ELSE s[i][t]
        BY <1>6, <1>7, <1>9, <2>1, <3>1
      <4>2. e[t] = Front([d[t] EXCEPT ![s[id][t]] = Last(d[t])])
        BY <1>5, <1>7, <3>1
      <4>3. /\ d[t] \in Seq(Dense)
            /\ OwnersSound(s, c.free, d[t], t) /\ PlacesSound(s, d[t], t)
        BY <1>1 DEF Typed, Linked
      <4>4. s[id][t] # 0 BY <3>1
      <4> HIDE DEF gone
      <4> QED BY <1>3, <1>9, <2>1, <4>1, <4>2, <4>3, <4>4, FilledValue
    <3>2. CASE ~ gone(t)
      <4>1. r[i][t] = s[i][t] /\ e[t] = d[t] BY <1>5, <1>6, <1>7, <2>1, <3>2
      <4> QED BY <4>1 DEF ShowsSame
    <3> QED BY <3>1, <3>2
  <2>3. \A t \in Component : /\ Has(a, i, t) <=> r[i][t] # 0
                             /\ Has(c, i, t) <=> s[i][t] # 0
                             /\ Find(a, i, t) = e[t][r[i][t]].value
                             /\ Find(c, i, t) = d[t][s[i][t]].value
    BY <2>1 DEF Has, Find, r, s, d, e
  <2> QED BY <2>2, <2>3, SameCarried DEF ShowsSame
<1>10. Carried(a, id) = [t \in had \ T |-> Carried(c, id)[t]]
  <2>1. id \in 1 .. Len(r) BY <1>2, <1>3
  <2>2. \A t \in Component : r[id][t] = IF gone(t) THEN 0 ELSE s[id][t]
    BY <1>3, <1>6, <1>7
  <2>3. \A t \in Component : Has(a, id, t) <=> r[id][t] # 0
    BY <2>1 DEF Has, r
  <2>4. {t \in Component : Has(a, id, t)} = had \ T
    BY <1>4, <2>2, <2>3
  <2>5. ASSUME NEW t \in had \ T
        PROVE  Find(a, id, t) = Carried(c, id)[t]
    <3>1. t \in Component /\ r[id][t] = s[id][t] /\ e[t] = d[t]
      BY <1>4, <1>5, <1>7, <2>2
    <3>2. Carried(c, id)[t] = Find(c, id, t) BY DEF Carried, had
    <3> QED BY <3>1, <3>2 DEF Find, r, s, d, e
  <2>6. Carried(a, id) = [t \in had \ T |-> Find(a, id, t)]
    BY <2>4 DEF Carried
  <2> QED BY <2>5, <2>6
<1> QED BY <1>8, <1>9, <1>10 DEF a, had, Without

(* destroy() takes the entity, and leaves the others alone. *)
LEMMA DestroyedEntities ==
  ASSUME NEW c, Sound(c), NEW id, Exists(c, id)
  PROVE  LET a == Destroyed(c, id)
         IN  /\ Existing(a) = Existing(c) \ {id}
             /\ \A i \in Existing(c) : i # id => Carried(a, i) = Carried(c, i)
<1> DEFINE b == Erased(c, id, Component)
           a == Destroyed(c, id)
<1>1. /\ Sound(b) /\ b.free = c.free /\ Len(b.slots) = Len(c.slots)
      /\ Existing(b) = Existing(c)
      /\ \A i \in Existing(c) : i # id => Carried(b, i) = Carried(c, i)
  <2>1. Component \in SUBSET Component OBVIOUS
  <2> QED BY <2>1, ErasedSound, ErasedEntities
<1>2. /\ a.slots = [b.slots EXCEPT ![id] = Blank]
      /\ a.free = Append(b.free, id) /\ a.dense = b.dense
  BY DEF Destroyed
<1>3. id \in ID /\ id \in 1 .. Len(b.slots) BY <1>1, ExistingSlot
<1>4. Sound(a) BY DestroyedSound
<1> HIDE DEF a, b
<1>5. /\ b.slots \in Seq([Component -> Nat]) /\ b.free \in Seq(ID)
  BY <1>1, SoundParts DEF Typed
<1>6. ToSet(a.free) = ToSet(b.free) \cup {id}
  <2> DEFINE f == b.free
             g == a.free
  <2>1. g = Append(f, id) /\ f \in Seq(ID) BY <1>2, <1>5
  <2> HIDE DEF f, g
  <2>2. /\ Len(f) \in Nat /\ DOMAIN f = 1 .. Len(f)
        /\ DOMAIN g = 1 .. Len(f) + 1 /\ g[Len(f) + 1] = id
        /\ \A i \in 1 .. Len(f) : g[i] = f[i]
    BY <1>3, <2>1
  <2>3. ToSet(g) = ToSet(f) \cup {id} BY <2>2 DEF ToSet
  <2> QED BY <2>3 DEF f, g
<1>7. /\ Len(a.slots) = Len(b.slots)
      /\ \A i \in 1 .. Len(b.slots) : i # id => a.slots[i] = b.slots[i]
  BY <1>2, <1>3, <1>5
<1>8. Existing(a) = Existing(c) \ {id}
  BY <1>1, <1>4, <1>6, <1>7, ExistingSlots
<1>9. ASSUME NEW i \in Existing(c), i # id
      PROVE  Carried(a, i) = Carried(c, i)
  <2>1. i \in 1 .. Len(b.slots) BY <1>1, ExistingSlots
  <2>2. Carried(a, i) = Carried(b, i)
    BY <1>2, <1>7, <1>9, <2>1, SameCarried DEF Has, Find
  <2> QED BY <1>1, <1>9, <2>2
<1> QED BY <1>8, <1>9 DEF a

(* ensure() brings the identifier to life and, with it, at most lower ones *)
(* that had no slot; all of them are bare, and the others stay as they     *)
(* are.                                                                    *)
LEMMA EnsuredEntities ==
  ASSUME NEW c, Sound(c), NEW id \in ID, ~ Exists(c, id)
  PROVE  LET a == Ensured(c, id)
         IN  /\ id \in Existing(a)
             /\ Existing(c) \subseteq Existing(a)
             /\ \A i \in Existing(a) : i \notin Existing(c) =>
                  i <= id /\ Carried(a, i) = <<>>
             /\ \A i \in Existing(c) : Carried(a, i) = Carried(c, i)
<1> DEFINE s == c.slots
           f == c.free
           a == Ensured(c, id)
           r == a.slots
           g == a.free
           n == IF id > Len(s) THEN id ELSE Len(s)
<1>1. Typed(s, f, c.dense) /\ FreeSound(s, f) BY SoundParts DEF Linked
<1>2. Sound(a) /\ Exists(a, id) BY EnsuredSound
<1>3. /\ r = Reaching(c, id) /\ g = Reclaimed(f, id) /\ a.dense = c.dense
  BY DEF Ensured
<1>4. id \notin 1 .. Len(s) \/ id \in ToSet(f) BY DEF Exists
<1> HIDE DEF a, s, f, r, g
<1>5. f \in Seq(ID) /\ Len(s) \in Nat BY <1>1 DEF Typed
<1>6. ToSet(g) = ToSet(f) \ {id} BY <1>1, <1>3, <1>5, ReclaimedFree
<1>7. r = [i \in 1 .. n |-> IF i = id \/ i > Len(s) THEN Blank ELSE s[i]]
  BY <1>3 DEF Reaching, s
<1>8. n \in Nat /\ Len(s) <= n /\ id <= n /\ (n = id \/ n = Len(s))
  BY <1>5 DEF ID
<1> HIDE DEF n
<1>9. /\ Len(r) = n
      /\ \A i \in 1 .. n : r[i] = IF i = id \/ i > Len(s) THEN Blank ELSE s[i]
  <2>1. r \in [1 .. n -> {r[i] : i \in 1 .. n}] BY <1>7
  <2> QED BY <1>7, <1>8, <2>1, SeqDef, LenProperties
<1>10. \A i \in Existing(c) : /\ i \in 1 .. Len(s) /\ i \in 1 .. n
                              /\ i # id /\ i \notin ToSet(f)
                              /\ r[i] = s[i]
  BY <1>4, <1>5, <1>8, <1>9, ExistingSlots DEF s, f
<1>11. \A i : i \in Existing(a) <=> i \in 1 .. n /\ i \notin ToSet(g)
  BY <1>2, <1>9, ExistingSlots DEF r, g
<1>12. id \in Existing(a) BY <1>2 DEF Existing
<1>13. Existing(c) \subseteq Existing(a) BY <1>6, <1>10, <1>11
<1>14. ASSUME NEW i \in Existing(a), i \notin Existing(c)
       PROVE  i <= id /\ Carried(a, i) = <<>>
  <2>1. i \in 1 .. n /\ (i = id \/ i \notin ToSet(f)) BY <1>6, <1>11
  <2>2. i = id \/ i \notin 1 .. Len(s)
    BY <1>14, <2>1, ExistingSlots DEF s, f
  <2>3. i = id \/ i > Len(s) BY <1>5, <2>1, <2>2
  <2>4. i <= id BY <1>5, <1>8, <2>1, <2>3 DEF ID
  <2>5. r[i] = Blank BY <1>9, <2>1, <2>3
  <2>6. \A t \in Component : ~ Has(a, i, t) BY <2>5, BlankSlot DEF Has, r
  <2> QED BY <2>4, <2>6, CarriesNothing
<1>15. ASSUME NEW i \in Existing(c)
       PROVE  Carried(a, i) = Carried(c, i)
  <2>1. i \in 1 .. Len(s) /\ i \in 1 .. Len(r) /\ r[i] = s[i]
    BY <1>9, <1>10
  <2> QED BY <1>3, <2>1, SameCarried DEF Has, Find, r, s
<1> QED BY <1>12, <1>13, <1>14, <1>15 DEF a
-----------------------------------------------------------------------------
(* The abstract store is a function of the entities that exist. *)
LEMMA EntityView ==
  ASSUME NEW c
  PROVE  /\ DOMAIN Entities(c) = Existing(c)
         /\ \A i \in Existing(c) : Entities(c)[i] = Carried(c, i)
BY DEF Entities

(* The entities after an operation that is about one of them: the rest are *)
(* what they were.                                                         *)
LEMMA OneChanged ==
  ASSUME NEW a, NEW c, NEW id \in Existing(c), NEW carried,
         Existing(a) = Existing(c), Carried(a, id) = carried,
         \A i \in Existing(c) : i # id => Carried(a, i) = Carried(c, i)
  PROVE  Entities(a) = [Entities(c) EXCEPT ![id] = carried]
<1>1. Entities(a) = [i \in Existing(c) |-> Carried(a, i)] BY DEF Entities
<1>2. [Entities(c) EXCEPT ![id] = carried] =
        [i \in Existing(c) |-> IF i = id THEN carried ELSE Carried(c, i)]
  BY DEF Entities
<1> QED BY <1>1, <1>2

(* create() with its components. *)
LEMMA CreateRefines ==
  ASSUME IInv, NEW bundle \in Bundle, Create(bundle)
  PROVE  Abstract!Create(NewID(store), bundle)
<1> DEFINE n == NewID(store)
           b == Created(store)
<1>1. Sound(store) /\ n <= MaxSlots /\ store' = Added(b, n, bundle)
  BY DEF IInv, Create
<1>2. Sound(b) /\ Exists(b, n) BY <1>1, CreatedSound
<1>3. /\ n \notin Existing(store)
      /\ Existing(b) = Existing(store) \cup {n}
      /\ Carried(b, n) = <<>>
      /\ \A i \in Existing(store) : Carried(b, i) = Carried(store, i)
  BY <1>1, CreatedEntities
<1> HIDE DEF n, b
<1>4. /\ Existing(store') = Existing(b)
      /\ \A i \in Existing(b) : i # n => Carried(store', i) = Carried(b, i)
      /\ Carried(store', n) = bundle
  <2>1. /\ Existing(store') = Existing(b)
        /\ \A i \in Existing(b) : i # n => Carried(store', i) = Carried(b, i)
        /\ Carried(store', n) = Joined(Carried(b, n), bundle)
    BY <1>1, <1>2, AddedEntities
  <2>2. DOMAIN Carried(b, n) = {} BY <1>3
  <2>3. Joined(Carried(b, n), bundle) = [t \in DOMAIN bundle |-> bundle[t]]
    BY <2>2 DEF Joined
  <2>4. bundle = [t \in DOMAIN bundle |-> bundle[t]] BY DEF Bundle
  <2> QED BY <2>1, <2>3, <2>4
<1>5. Entities(store') = [i \in Existing(store) \cup {n} |->
        IF i \in {n} THEN bundle ELSE Entities(store)[i]]
  BY <1>3, <1>4 DEF Entities
<1>6. DOMAIN Entities(store) = Existing(store) BY EntityView
<1> QED BY <1>3, <1>5, <1>6 DEF Abstract!Create, Abstract!With, Abstract!Live, n

(* ensure() of an identifier that does not exist. *)
LEMMA EnsureRefines ==
  ASSUME IInv, NEW id \in ID, Ensure(id), ~ Exists(store, id)
  PROVE  Abstract!Ensure(id)
<1> DEFINE E == Existing(store') \ Existing(store)
<1>1. Sound(store) /\ store' = Ensured(store, id) BY DEF IInv, Ensure
<1>2. /\ id \in Existing(store')
      /\ Existing(store) \subseteq Existing(store')
      /\ \A i \in Existing(store') : i \notin Existing(store) =>
           i <= id /\ Carried(store', i) = <<>>
      /\ \A i \in Existing(store) : Carried(store', i) = Carried(store, i)
  BY <1>1, EnsuredEntities
<1>3. id \notin Existing(store) BY DEF Existing
<1>4. Entities(store') = [i \in Existing(store) \cup E |->
        IF i \in E THEN <<>> ELSE Entities(store)[i]]
  BY <1>2 DEF Entities
<1>5. /\ E \in SUBSET (ID \ Existing(store)) /\ id \in E
      /\ \A i \in E : i <= id
  BY <1>2, <1>3 DEF Existing
<1>6. DOMAIN Entities(store) = Existing(store) BY EntityView
<1> HIDE DEF E
<1> QED BY <1>3, <1>4, <1>5, <1>6
        DEF Abstract!Ensure, Abstract!With, Abstract!Live

(* destroy() of an entity that exists. *)
LEMMA DestroyRefines ==
  ASSUME IInv, NEW id \in ID, Destroy(id), Exists(store, id)
  PROVE  Abstract!Destroy(id)
<1>1. Sound(store) /\ store' = Destroyed(store, id) BY DEF IInv, Destroy
<1>2. /\ Existing(store') = Existing(store) \ {id}
      /\ \A i \in Existing(store) : i # id =>
           Carried(store', i) = Carried(store, i)
  BY <1>1, DestroyedEntities
<1>3. Entities(store') = [i \in Existing(store) \ {id} |-> Entities(store)[i]]
  BY <1>2 DEF Entities
<1>4. id \in Existing(store) /\ DOMAIN Entities(store) = Existing(store)
  BY EntityView DEF Existing
<1> QED BY <1>3, <1>4 DEF Abstract!Destroy, Abstract!Live

(* erase(), which does nothing when the component is not there. *)
LEMMA EraseRefines ==
  ASSUME IInv, NEW id \in ID, NEW t \in Component, Erase(id, t)
  PROVE  Abstract!Drop(id, t) \/ Entities(store') = Entities(store)
<1> DEFINE had == DOMAIN Carried(store, id)
           left == Without(Carried(store, id), {t})
<1>1. /\ Sound(store) /\ Exists(store, id) /\ store' = Erased(store, id, {t})
      /\ {t} \in SUBSET Component
  BY DEF IInv, Erase
<1>2. /\ Existing(store') = Existing(store)
      /\ \A i \in Existing(store) : i # id =>
           Carried(store', i) = Carried(store, i)
      /\ Carried(store', id) = left
  BY <1>1, ErasedEntities
<1>3. id \in Existing(store) BY <1>1 DEF Existing
<1>4. DOMAIN Entities(store) = Existing(store)
      /\ Entities(store)[id] = Carried(store, id)
  BY <1>3, EntityView
<1> HIDE DEF left
<1>5. Entities(store') = [Entities(store) EXCEPT ![id] = left]
  BY <1>2, <1>3, OneChanged
<1>6. CASE t \in had
  BY <1>3, <1>4, <1>5, <1>6
  DEF Abstract!Drop, Abstract!Replace, Abstract!Live, left, Without
<1>7. CASE t \notin had
  <2>1. had \ {t} = had BY <1>7
  <2>2. Carried(store, id) = [u \in had |-> Carried(store, id)[u]]
    BY DEF Carried
  <2>3. left = Carried(store, id) BY <2>1, <2>2 DEF left, Without
  <2> QED BY <1>2, <2>3 DEF Entities
<1> QED BY <1>6, <1>7

(* add(), which leaves a component that is there as it is. *)
LEMMA AddRefines ==
  ASSUME IInv, NEW id \in ID, NEW t \in Component, NEW v \in Value,
         Add(id, t, v)
  PROVE  Abstract!Put(id, t, v) \/ Entities(store') = Entities(store)
<1> DEFINE bundle == [u \in {t} |-> v]
           had == DOMAIN Carried(store, id)
           more == Joined(Carried(store, id), bundle)
<1>1. /\ Sound(store) /\ Exists(store, id) /\ bundle \in Bundle
      /\ store' = Added(store, id, bundle) /\ DOMAIN bundle = {t}
  BY OneComponent DEF IInv, Add
<1> HIDE DEF bundle
<1>2. /\ Existing(store') = Existing(store)
      /\ \A i \in Existing(store) : i # id =>
           Carried(store', i) = Carried(store, i)
      /\ Carried(store', id) = more
  BY <1>1, AddedEntities
<1>3. id \in Existing(store) BY <1>1 DEF Existing
<1>4. DOMAIN Entities(store) = Existing(store)
      /\ Entities(store)[id] = Carried(store, id)
  BY <1>3, EntityView
<1> HIDE DEF more
<1>5. Entities(store') = [Entities(store) EXCEPT ![id] = more]
  BY <1>2, <1>3, OneChanged
<1>6. CASE t \notin had
  <2>1. more = [u \in had \cup {t} |->
                   IF u = t THEN v ELSE Carried(store, id)[u]]
    BY <1>1, <1>6 DEF more, bundle, Joined
  <2> QED BY <1>3, <1>4, <1>5, <1>6, <2>1
          DEF Abstract!Put, Abstract!Replace, Abstract!Live
<1>7. CASE t \in had
  <2>1. had \cup {t} = had BY <1>7
  <2>2. Carried(store, id) = [u \in had |-> Carried(store, id)[u]]
    BY DEF Carried
  <2>3. more = Carried(store, id) BY <1>1, <2>1, <2>2 DEF more, Joined
  <2> QED BY <1>2, <2>3 DEF Entities
<1> QED BY <1>6, <1>7

(* Assignment through find() or each(). *)
LEMMA WriteRefines ==
  ASSUME IInv, NEW id \in ID, NEW t \in Component, NEW v \in Value,
         Write(id, t, v)
  PROVE  Abstract!Write(id, t, v)
<1> DEFINE bundle == [u \in {t} |-> v]
           had == DOMAIN Carried(store, id)
           new == Overwritten(Carried(store, id), bundle)
<1>1. /\ Sound(store) /\ Exists(store, id) /\ bundle \in Bundle
      /\ store' = Written(store, id, bundle) /\ DOMAIN bundle = {t}
      /\ t \in had
  BY OneComponent DEF IInv, Write, Carried
<1> HIDE DEF bundle
<1>2. /\ Existing(store') = Existing(store)
      /\ \A i \in Existing(store) : i # id =>
           Carried(store', i) = Carried(store, i)
      /\ Carried(store', id) = new
  BY <1>1, WrittenEntities
<1>3. id \in Existing(store) BY <1>1 DEF Existing
<1>4. DOMAIN Entities(store) = Existing(store)
      /\ Entities(store)[id] = Carried(store, id)
  BY <1>3, EntityView
<1>5. new = [Carried(store, id) EXCEPT ![t] = v]
  <2>1. Carried(store, id) = [u \in had |-> Carried(store, id)[u]]
    BY DEF Carried
  <2> DEFINE old == Carried(store, id)
  <2>2. bundle[t] = v BY DEF bundle
  <2> HIDE DEF old
  <2> QED BY <1>1, <2>1, <2>2 DEF old, Overwritten
<1> HIDE DEF new
<1>6. Entities(store') = [Entities(store) EXCEPT ![id] = new]
  BY <1>2, <1>3, OneChanged
<1> QED BY <1>1, <1>3, <1>4, <1>5, <1>6
        DEF Abstract!Write, Abstract!Replace, Abstract!Live

(* clear(), and a container that is new. *)
LEMMA EmptyRefines == Entities(Empty) = <<>>
<1>1. Existing(Empty) = {} BY DEF Existing, Exists, Empty
<1> QED BY <1>1 DEF Entities

(* The container implements a plain store of entities: after any sequence  *)
(* of create(), ensure(), add(), erase(), destroy() and clear(), what      *)
(* each() and find() show is what was put there, entity by entity, wherever *)
(* slots were used again and components were moved.                        *)
THEOREM ContainerImplementsStore == StoreSpec => Implements
<1>1. StoreInit => Abstract!Init
  BY EmptyRefines DEF StoreInit, Abstract!Init
<1>2. IInv /\ [StoreNext]_store => [Abstract!Next]_(Entities(store))
  <2> SUFFICES ASSUME IInv, [StoreNext]_store
               PROVE  Abstract!Next \/ Entities(store') = Entities(store)
    OBVIOUS
  <2>1. ASSUME NEW bundle \in Bundle, Create(bundle)
        PROVE  Abstract!Next
    <3>1. NewID(store) \in ID BY <2>1, CreatedSound DEF IInv, Create
    <3>2. bundle \in Abstract!Bundle BY DEF Bundle, Abstract!Bundle
    <3> QED BY <2>1, <3>1, <3>2, CreateRefines DEF Abstract!Next
  <2>2. ASSUME NEW id \in ID, Ensure(id)
        PROVE  Abstract!Next \/ Entities(store') = Entities(store)
    <3>1. CASE Exists(store, id) BY <2>2, <3>1 DEF Ensure, Ensured
    <3>2. CASE ~ Exists(store, id)
      BY <2>2, <3>2, EnsureRefines DEF Abstract!Next
    <3> QED BY <3>1, <3>2
  <2>3. ASSUME NEW id \in ID, Destroy(id)
        PROVE  Abstract!Next \/ Entities(store') = Entities(store)
    <3>1. CASE ~ Exists(store, id) BY <2>3, <3>1 DEF Destroy, Destroyed
    <3>2. CASE Exists(store, id)
      BY <2>3, <3>2, DestroyRefines DEF Abstract!Next
    <3> QED BY <3>1, <3>2
  <2>4. ASSUME NEW id \in ID, NEW t \in Component, Erase(id, t)
        PROVE  Abstract!Next \/ Entities(store') = Entities(store)
    BY <2>4, EraseRefines DEF Abstract!Next
  <2>5. ASSUME NEW id \in ID, NEW t \in Component, NEW v \in Value,
               Add(id, t, v)
        PROVE  Abstract!Next \/ Entities(store') = Entities(store)
    BY <2>5, AddRefines DEF Abstract!Next
  <2>6. ASSUME NEW id \in ID, NEW t \in Component, NEW v \in Value,
               Write(id, t, v)
        PROVE  Abstract!Next
    BY <2>6, WriteRefines DEF Abstract!Next
  <2>7. CASE Clear
    BY <2>7, EmptyRefines DEF Clear, Abstract!Next, Abstract!Clear
  <2>8. CASE UNCHANGED store BY <2>8
  <2> QED BY <2>1, <2>2, <2>3, <2>4, <2>5, <2>6, <2>7, <2>8 DEF StoreNext
<1> QED BY <1>1, <1>2, AlwaysSound, PTL
        DEF StoreSpec, Implements, Abstract!Spec

-----------------------------------------------------------------------------
(***************************************************************************)
(* A replica follows its source, for any number of entities, components    *)
(* and operations.                                                         *)
(***************************************************************************)

(* An entity that does not exist shows nothing.                            *)
LEMMA AbsentCarriesNothing ==
  ASSUME NEW c, Sound(c), NEW i \in ID \ Existing(c)
  PROVE  Carried(c, i) = <<>>
<1>1. ASSUME NEW t \in Component, Has(c, i, t) PROVE FALSE
  <2>1. /\ i \in 1 .. Len(c.slots)
        /\ c.slots[i][t] \in 1 .. Len(c.dense[t])
        /\ c.dense[t][c.slots[i][t]].owner = i
    BY <1>1, ComponentPlace
  <2>2. i \notin ToSet(c.free)
    BY <2>1, SoundParts DEF Linked, OwnersSound
  <2> QED  BY <2>1, <2>2, ExistingSlots
<1> QED  BY <1>1, CarriesNothing

(* What an entity shows is a bundle.                                       *)
LEMMA CarriedIsBundle ==
  ASSUME NEW c, Sound(c), NEW i
  PROVE  Carried(c, i) \in Bundle
<1> DEFINE T == {t \in Component : Has(c, i, t)}
<1>1. ASSUME NEW t \in T PROVE Find(c, i, t) \in Value
  <2>1. c.slots[i][t] \in 1 .. Len(c.dense[t])
    BY ComponentPlace
  <2>2. c.dense[t] \in Seq(Dense)
    BY SoundParts DEF Typed
  <2>3. c.dense[t][c.slots[i][t]] \in Dense
    BY <2>1, <2>2
  <2> QED  BY <2>3 DEF Find, Dense
<1>2. Carried(c, i) = [t \in T |-> Find(c, i, t)]
  BY DEF Carried
<1>3. T \in SUBSET Component
  OBVIOUS
<1> HIDE DEF T
<1>4. Carried(c, i) \in [T -> Value]
  BY <1>1, <1>2
<1> QED  BY <1>3, <1>4 DEF Bundle

(* Applying what was recorded of an entity makes it show just that, and    *)
(* changes no other; entities that exist go on doing so.                   *)
LEMMA ChangedFollows ==
  ASSUME NEW c, Sound(c), NEW e \in Change
  PROVE  LET a == Changed(c, e)
         IN  /\ Sound(a)
             /\ Carried(a, e.id) = IF e.present THEN e.components ELSE <<>>
             /\ e.present => e.id \in Existing(a)
             /\ \A i \in ID \ {e.id} : /\ Carried(a, i) = Carried(c, i)
                                       /\ i \in Existing(c) => i \in Existing(a)
<1> DEFINE a == Changed(c, e)
           id == e.id
<1>1. id \in ID /\ e.present \in BOOLEAN /\ e.components \in Bundle
  BY DEF Change
<1>2. CASE ~ e.present
  <2>1. a = Destroyed(c, id)
    BY <1>2 DEF Changed
  <2>2. CASE Exists(c, id)
    <3>1. /\ Existing(a) = Existing(c) \ {id}
          /\ \A i \in Existing(c) : i # id => Carried(a, i) = Carried(c, i)
      BY <2>1, <2>2, DestroyedEntities
    <3>2. Sound(a)
      BY <2>1, DestroyedSound
    <3> HIDE DEF a, id
    <3>3. ASSUME NEW i \in ID \ Existing(c)
          PROVE  Carried(a, i) = <<>> /\ Carried(c, i) = <<>>
      BY <3>1, <3>2, AbsentCarriesNothing
    <3>4. Carried(a, id) = <<>>
      BY <1>1, <3>1, <3>2, AbsentCarriesNothing
    <3> QED  BY <1>2, <3>1, <3>2, <3>3, <3>4 DEF id, a
  <2>3. CASE ~ Exists(c, id)
    <3>1. a = c
      BY <2>1, <2>3 DEF Destroyed
    <3>2. id \in ID \ Existing(c)
      BY <1>1, <2>3 DEF Existing
    <3>3. Carried(c, id) = <<>>
      BY <3>2, AbsentCarriesNothing
    <3> HIDE DEF a
    <3> QED  BY <1>2, <3>1, <3>3 DEF a
  <2> QED  BY <2>2, <2>3
<1>3. CASE e.present
  <2> DEFINE T == Component \ DOMAIN e.components
             has == Ensured(c, id)
             kept == Erased(has, id, T)
             written == Written(kept, id, e.components)
  <2>1. a = Added(written, id, e.components)
    BY <1>3 DEF Changed
  <2>2. Sound(has) /\ Exists(has, id)
    BY <1>1, EnsuredSound
  <2>3. /\ id \in Existing(has) /\ Existing(c) \subseteq Existing(has)
        /\ \A i \in Existing(has) : i \notin Existing(c) => Carried(has, i) = <<>>
        /\ \A i \in Existing(c) : Carried(has, i) = Carried(c, i)
    <3>1. CASE Exists(c, id)
      BY <1>1, <3>1 DEF Ensured, Existing
    <3>2. CASE ~ Exists(c, id)
      BY <1>1, <3>2, EnsuredEntities
    <3> QED  BY <3>1, <3>2
  <2> HIDE DEF has
  <2>4. /\ Sound(kept) /\ Existing(kept) = Existing(has)
        /\ \A i \in Existing(has) : i # id => Carried(kept, i) = Carried(has, i)
        /\ Carried(kept, id) = Without(Carried(has, id), T)
    BY <2>2, ErasedSound, ErasedEntities
  <2>5. Exists(kept, id)
    BY <2>3, <2>4 DEF Existing
  <2> HIDE DEF kept
  <2>6. /\ Sound(written) /\ Existing(written) = Existing(kept)
        /\ \A i \in Existing(kept) : i # id =>
             Carried(written, i) = Carried(kept, i)
        /\ Carried(written, id) = Overwritten(Carried(kept, id), e.components)
    BY <1>1, <2>4, <2>5, WrittenSound, WrittenEntities
  <2>7. Exists(written, id)
    BY <2>3, <2>4, <2>6 DEF Existing
  <2> HIDE DEF written
  <2>8. /\ Sound(a) /\ Existing(a) = Existing(written)
        /\ \A i \in Existing(written) : i # id =>
             Carried(a, i) = Carried(written, i)
        /\ Carried(a, id) = Joined(Carried(written, id), e.components)
    BY <1>1, <2>1, <2>6, <2>7, AddedSound, AddedEntities
  <2>9. Carried(a, id) = e.components
    <3> DEFINE v == e.components
               w == Carried(has, id)
    <3>1. PICK S \in SUBSET Component : v \in [S -> Value]
      BY <1>1 DEF Bundle
    <3>2. PICK R \in SUBSET Component : w \in [R -> Value]
      BY <2>2, CarriedIsBundle DEF Bundle
    <3>3. Carried(a, id) = Joined(Overwritten(Without(w, T), v), v)
      BY <2>4, <2>6, <2>8
    <3> HIDE DEF v, w
    <3>4. T = Component \ S
      BY <3>1 DEF v
    <3> HIDE DEF T
    <3>5. Without(w, T) = [t \in R \cap S |-> w[t]]
      BY <3>1, <3>2, <3>4 DEF Without
    <3>6. Overwritten(Without(w, T), v) = [t \in R \cap S |-> v[t]]
      BY <3>1, <3>5 DEF Overwritten
    <3>7. Joined(Overwritten(Without(w, T), v), v) = [t \in S |-> v[t]]
      BY <3>1, <3>6 DEF Joined
    <3>8. v = [t \in S |-> v[t]]
      BY <3>1
    <3> QED  BY <3>3, <3>7, <3>8 DEF v
  <2> HIDE DEF a, id
  <2>10. ASSUME NEW i \in ID \ {id}
         PROVE  /\ Carried(a, i) = Carried(c, i)
                /\ i \in Existing(c) => i \in Existing(a)
    <3>1. CASE i \in Existing(c)
      BY <2>3, <2>4, <2>6, <2>8, <2>10, <3>1
    <3>2. CASE i \in Existing(has) \ Existing(c)
      <4>1. Carried(c, i) = <<>>
        BY <3>2, AbsentCarriesNothing
      <4> QED  BY <2>3, <2>4, <2>6, <2>8, <2>10, <3>2, <4>1
    <3>3. CASE i \notin Existing(has)
      <4>1. i \in ID \ Existing(c) /\ i \in ID \ Existing(a)
        BY <2>3, <2>4, <2>6, <2>8, <3>3
      <4> QED  BY <2>8, <4>1, AbsentCarriesNothing
    <3> QED  BY <3>1, <3>2, <3>3
  <2> QED  BY <1>3, <2>3, <2>4, <2>6, <2>8, <2>9, <2>10 DEF a, id
<1> QED  BY <1>1, <1>2, <1>3

(* Changes of which each is of another entity.                             *)
Distinct(changes) ==
  /\ changes \in Seq(Change)
  /\ \A i, j \in DOMAIN changes : changes[i].id = changes[j].id => i = j

(* What is recorded of an entity is found by its identifier. *)
LEMMA ChangeFound ==
  ASSUME NEW s, Distinct(s)
  PROVE  /\ \A i \in DOMAIN s : s[i] \in Change /\ ChangeOf(s, s[i].id) = s[i]
         /\ \A id : Recorded(s, id) =>
              /\ ChangeOf(s, id) \in Change /\ ChangeOf(s, id).id = id
              /\ \E i \in DOMAIN s : s[i] = ChangeOf(s, id)
<1>1. ASSUME NEW i \in DOMAIN s
      PROVE  s[i] \in Change /\ ChangeOf(s, s[i].id) = s[i]
  <2>1. s[i] \in Change
    BY DEF Distinct
  <2>2. (CHOOSE j \in DOMAIN s : s[j].id = s[i].id) = i
    BY DEF Distinct
  <2> QED  BY <2>1, <2>2 DEF ChangeOf
<1>2. ASSUME NEW id, Recorded(s, id)
      PROVE  \E i \in DOMAIN s : s[i].id = id
  BY <1>2 DEF Recorded
<1> QED  BY <1>1, <1>2

(* Putting a change among others replaces that of the same entity only.    *)
LEMMA PutChange ==
  ASSUME NEW s, Distinct(s), NEW e \in Change
  PROVE  LET p == Put(s, e)
         IN  /\ Distinct(p) /\ Recorded(p, e.id) /\ ChangeOf(p, e.id) = e
             /\ \A id : id # e.id =>
                  /\ Recorded(p, id) <=> Recorded(s, id)
                  /\ Recorded(s, id) => ChangeOf(p, id) = ChangeOf(s, id)
<1> DEFINE p == Put(s, e)
           n == Len(s)
<1>1. s \in Seq(Change) /\ n \in Nat /\ DOMAIN s = 1 .. n
  BY DEF Distinct
<1>2. CASE Recorded(s, e.id)
  <2>1. PICK k \in 1 .. n : s[k].id = e.id
    BY <1>1, <1>2 DEF Recorded
  <2>2. p = [i \in 1 .. n |-> IF s[i].id = e.id THEN e ELSE s[i]]
    BY <1>1, <1>2 DEF Put
  <2> HIDE DEF p
  <2>3. \A i \in 1 .. n : p[i] = (IF i = k THEN e ELSE s[i]) /\ p[i].id = s[i].id
    BY <1>1, <2>1, <2>2 DEF Distinct
  <2>4. p \in Seq(Change) /\ DOMAIN p = 1 .. n
    BY <1>1, <2>2
  <2>5. Distinct(p)
    BY <1>1, <2>3, <2>4 DEF Distinct
  <2>6. \A id : Recorded(p, id) <=> Recorded(s, id)
    BY <1>1, <2>3, <2>4 DEF Recorded
  <2>7. ChangeOf(p, e.id) = e
    BY <2>1, <2>3, <2>4, <2>5, ChangeFound
  <2>8. ASSUME NEW id, id # e.id, Recorded(s, id)
        PROVE  ChangeOf(p, id) = ChangeOf(s, id)
    <3>1. PICK i \in 1 .. n : s[i].id = id
      BY <1>1, <2>8 DEF Recorded
    <3>2. ChangeOf(s, s[i].id) = s[i] /\ ChangeOf(p, p[i].id) = p[i]
      BY <1>1, <2>4, <2>5, ChangeFound
    <3> QED  BY <2>1, <2>3, <2>8, <3>1, <3>2
  <2> QED  BY <1>2, <2>5, <2>6, <2>7, <2>8 DEF p
<1>3. CASE ~ Recorded(s, e.id)
  <2>1. p = Append(s, e)
    BY <1>3 DEF Put
  <2> HIDE DEF p
  <2>2. /\ p \in Seq(Change) /\ DOMAIN p = 1 .. n + 1
        /\ p[n + 1] = e /\ \A i \in 1 .. n : p[i] = s[i]
    BY <1>1, <2>1
  <2>3. \A i \in 1 .. n : s[i].id # e.id
    BY <1>1, <1>3 DEF Recorded
  <2>4. Distinct(p)
    BY <1>1, <2>2, <2>3 DEF Distinct
  <2>5. Recorded(p, e.id) /\ ChangeOf(p, e.id) = e
    <3>1. n + 1 \in 1 .. n + 1
      BY <1>1
    <3>2. Recorded(p, e.id)
      BY <2>2, <3>1 DEF Recorded
    <3>3. ChangeOf(p, p[n + 1].id) = p[n + 1]
      BY <2>2, <2>4, <3>1, ChangeFound
    <3> QED  BY <2>2, <3>2, <3>3
  <2>6. ASSUME NEW id, id # e.id
        PROVE  Recorded(p, id) <=> Recorded(s, id)
    BY <1>1, <2>2, <2>6 DEF Recorded
  <2>7. ASSUME NEW id, id # e.id, Recorded(s, id)
        PROVE  ChangeOf(p, id) = ChangeOf(s, id)
    <3>1. PICK i \in 1 .. n : s[i].id = id
      BY <1>1, <2>7 DEF Recorded
    <3>2. i \in 1 .. n + 1 /\ p[i] = s[i]
      BY <1>1, <2>2
    <3>3. ChangeOf(s, s[i].id) = s[i] /\ ChangeOf(p, p[i].id) = p[i]
      BY <1>1, <2>2, <2>4, <3>2, ChangeFound
    <3> QED  BY <3>1, <3>2, <3>3
  <2> QED  BY <2>4, <2>5, <2>6, <2>7 DEF p
<1> QED  BY <1>2, <1>3

(* What is recorded of an entity is whether it exists, and what it shows.  *)
LEMMA RecordedEntity ==
  ASSUME NEW c, Sound(c), NEW id \in ID, NEW s, Distinct(s)
  PROVE  LET r == Record(s, c, id)
         IN  /\ Distinct(r) /\ Recorded(r, id)
             /\ ChangeOf(r, id).present <=> id \in Existing(c)
             /\ ChangeOf(r, id).components = Carried(c, id)
             /\ \A i : i # id =>
                  /\ Recorded(r, i) <=> Recorded(s, i)
                  /\ Recorded(s, i) => ChangeOf(r, i) = ChangeOf(s, i)
<1> DEFINE e == [id |-> id, present |-> Exists(c, id),
                 components |-> IF Exists(c, id) THEN Carried(c, id) ELSE <<>>]
<1>1. Exists(c, id) <=> id \in Existing(c)
  BY DEF Existing
<1>2. e.components = Carried(c, id)
  BY <1>1, AbsentCarriesNothing
<1>3. Carried(c, id) \in Bundle /\ Exists(c, id) \in BOOLEAN
  BY CarriedIsBundle DEF Exists
<1>4. e \in Change /\ e.id = id /\ (e.present <=> id \in Existing(c))
  <2>1. e = [id |-> id, present |-> Exists(c, id), components |-> Carried(c, id)]
    BY <1>2
  <2> QED  BY <1>1, <1>3, <2>1 DEF Change
<1>5. Record(s, c, id) = Put(s, e)
  BY DEF Record
<1> HIDE DEF e
<1> QED  BY <1>2, <1>4, <1>5, PutChange

(* Changes that say of every entity what the first n of the others say of  *)
(* it, and where these say nothing, what was said before.                  *)
MergedUpTo(merged, changes, other, n) ==
  /\ Distinct(merged)
  /\ \A id \in ID :
       /\ Recorded(merged, id)
            <=> Recorded(changes, id) \/ \E j \in 1 .. n : other[j].id = id
       /\ \A j \in 1 .. n : other[j].id = id => ChangeOf(merged, id) = other[j]
       /\ Recorded(changes, id) /\ (\A j \in 1 .. n : other[j].id # id) =>
            ChangeOf(merged, id) = ChangeOf(changes, id)

(* Merging changes into others gives them the last word.                   *)
LEMMA MergeFollows ==
  ASSUME NEW s, Distinct(s), NEW o, Distinct(o)
  PROVE  LET m == Merge(s, o)
         IN  /\ Distinct(m)
             /\ \A id \in ID :
                  /\ Recorded(m, id) <=> Recorded(s, id) \/ Recorded(o, id)
                  /\ Recorded(o, id) => ChangeOf(m, id) = ChangeOf(o, id)
                  /\ Recorded(s, id) /\ ~ Recorded(o, id) =>
                       ChangeOf(m, id) = ChangeOf(s, id)
<1> DEFINE k == Len(o)
           step == [x \in Seq(Change) \X DOMAIN o |-> Put(x[1], o[x[2]])]
           I == [n \in 0 .. k |-> {x \in Seq(Change) : MergedUpTo(x, s, o, n)}]
           m == Merge(s, o)
<1>1. /\ s \in Seq(Change) /\ o \in Seq(Change)
      /\ k \in Nat /\ DOMAIN o = 1 .. k
      /\ \A i, j \in 1 .. k : o[i].id = o[j].id => i = j
      /\ \A i \in 1 .. k : o[i] \in Change
  BY DEF Distinct
<1>2. s \in I[0]
  <2>1. MergedUpTo(s, s, o, 0)
    BY DEF MergedUpTo
  <2>2. 0 \in 0 .. k
    BY <1>1
  <2> QED  BY <1>1, <2>1, <2>2
<1>3. ASSUME NEW n \in 1 .. k, NEW x \in I[n - 1]
      PROVE  step[<<x, n>>] \in I[n]
  <2>1. n \in 0 .. k /\ n - 1 \in 0 .. k
    BY <1>1
  <2>2. x \in Seq(Change) /\ MergedUpTo(x, s, o, n - 1)
    BY <2>1
  <2> DEFINE p == Put(x, o[n])
  <2>3. step[<<x, n>>] = p
    BY <1>1, <2>2
  <2>4. /\ Distinct(p) /\ Recorded(p, o[n].id) /\ ChangeOf(p, o[n].id) = o[n]
        /\ \A id : id # o[n].id =>
             /\ Recorded(p, id) <=> Recorded(x, id)
             /\ Recorded(x, id) => ChangeOf(p, id) = ChangeOf(x, id)
    <3>1. Distinct(x) /\ o[n] \in Change
      BY <1>1, <2>2 DEF MergedUpTo
    <3> QED  BY <3>1, PutChange
  <2> HIDE DEF step, I, p, k
  <2>5. \A j : j \in 1 .. n <=> j \in 1 .. n - 1 \/ j = n
    BY <1>1, <2>1
  <2>6. ASSUME NEW id \in ID
        PROVE  /\ Recorded(p, id)
                    <=> Recorded(s, id) \/ \E j \in 1 .. n : o[j].id = id
               /\ \A j \in 1 .. n : o[j].id = id => ChangeOf(p, id) = o[j]
               /\ Recorded(s, id) /\ (\A j \in 1 .. n : o[j].id # id) =>
                    ChangeOf(p, id) = ChangeOf(s, id)
    <3>0. /\ Recorded(x, id)
               <=> Recorded(s, id) \/ \E j \in 1 .. n - 1 : o[j].id = id
          /\ \A j \in 1 .. n - 1 : o[j].id = id => ChangeOf(x, id) = o[j]
          /\ Recorded(s, id) /\ (\A j \in 1 .. n - 1 : o[j].id # id) =>
               ChangeOf(x, id) = ChangeOf(s, id)
      BY <2>2 DEF MergedUpTo
    <3>1. CASE id = o[n].id
      <4>1. n \in 1 .. n
        BY <2>5
      <4>2. \A j \in 1 .. n : o[j].id = id => j = n
        BY <1>1, <2>1, <2>5, <3>1
      <4> QED  BY <2>4, <3>1, <4>1, <4>2
    <3>2. CASE id # o[n].id
      BY <2>4, <2>5, <3>0, <3>2
    <3> QED  BY <3>1, <3>2
  <2>7. MergedUpTo(p, s, o, n)
    BY <2>4, <2>6 DEF MergedUpTo
  <2>8. p \in Seq(Change)
    BY <2>4 DEF Distinct
  <2> QED  BY <2>1, <2>3, <2>7, <2>8 DEF I
<1>4. m = Iterated(step, s, k)
  BY DEF Merge
<1>5. m \in I[k]
  <2>1. k \in 0 .. k
    BY <1>1
  <2> HIDE DEF m, step, I, k
  <2> QED  BY <1>1, <1>2, <1>3, <1>4, <2>1, IteratedSteps
<1>6. MergedUpTo(m, s, o, k)
  <2>1. k \in 0 .. k
    BY <1>1
  <2> HIDE DEF m
  <2> QED  BY <1>5, <2>1
<1> HIDE DEF m, step, I
<1>7. ASSUME NEW id \in ID
      PROVE  /\ Recorded(o, id) <=> \E j \in 1 .. k : o[j].id = id
             /\ \A j \in 1 .. k : o[j].id = id => ChangeOf(o, id) = o[j]
  BY <1>1, ChangeFound DEF Recorded
<1> QED  BY <1>6, <1>7 DEF MergedUpTo, m

(* Changes that tell of the entities in a set what a container shows.      *)
RecordedOf(recorded, changes, c, ids) ==
  /\ Distinct(recorded)
  /\ \A id \in ID :
       IF id \in ids
       THEN /\ Recorded(recorded, id)
            /\ ChangeOf(recorded, id).present <=> id \in Existing(c)
            /\ ChangeOf(recorded, id).components = Carried(c, id)
       ELSE /\ Recorded(recorded, id) <=> Recorded(changes, id)
            /\ Recorded(changes, id) =>
                 ChangeOf(recorded, id) = ChangeOf(changes, id)

(* record_all() tells of the entities it visits, and of no other.          *)
LEMMA RecordAllFollows ==
  ASSUME NEW c, Sound(c), NEW s, Distinct(s)
  PROVE  RecordedOf(RecordAll(s, c), s, c, Visited(c))
<1> DEFINE k == Len(c.slots)
           V == Visited(c)
           step == [x \in Seq(Change) \X DOMAIN c.slots |->
                      IF x[2] \in V THEN Record(x[1], c, x[2]) ELSE x[1]]
           I == [n \in 0 .. k |-> {x \in Seq(Change) :
                                     RecordedOf(x, s, c, V \cap 1 .. n)}]
           r == RecordAll(s, c)
<1>1. /\ s \in Seq(Change) /\ k \in Nat /\ DOMAIN c.slots = 1 .. k
      /\ V \subseteq ID /\ V \subseteq 1 .. k
  <2>1. c.slots \in Seq([Component -> Nat])
    BY SoundParts DEF Typed
  <2> QED  BY <2>1, ExistingSlots DEF Distinct, Visited, Existing
<1>2. s \in I[0]
  <2>1. RecordedOf(s, s, c, V \cap 1 .. 0)
    BY DEF RecordedOf
  <2>2. 0 \in 0 .. k
    BY <1>1
  <2> QED  BY <1>1, <2>1, <2>2
<1>3. ASSUME NEW n \in 1 .. k, NEW x \in I[n - 1]
      PROVE  step[<<x, n>>] \in I[n]
  <2>1. n \in 0 .. k /\ n - 1 \in 0 .. k
    BY <1>1
  <2>2. x \in Seq(Change) /\ RecordedOf(x, s, c, V \cap 1 .. n - 1)
    BY <2>1
  <2>3. step[<<x, n>>] = IF n \in V THEN Record(x, c, n) ELSE x
    BY <1>1, <2>2
  <2>4. CASE n \notin V
    <3>1. V \cap 1 .. n - 1 = V \cap 1 .. n
      BY <1>1, <2>1, <2>4
    <3> HIDE DEF V
    <3> QED  BY <2>1, <2>2, <2>3, <2>4, <3>1
  <2>5. CASE n \in V
    <3> DEFINE p == Record(x, c, n)
    <3>1. n \in ID
      BY <1>1, <2>5
    <3>2. Distinct(x)
      BY <2>2 DEF RecordedOf
    <3>3. /\ Distinct(p) /\ Recorded(p, n)
          /\ ChangeOf(p, n).present <=> n \in Existing(c)
          /\ ChangeOf(p, n).components = Carried(c, n)
          /\ \A i : i # n =>
               /\ Recorded(p, i) <=> Recorded(x, i)
               /\ Recorded(x, i) => ChangeOf(p, i) = ChangeOf(x, i)
      BY <3>1, <3>2, RecordedEntity
    <3>4. \A i : i \in V \cap 1 .. n <=> i \in V \cap 1 .. n - 1 \/ i = n
      BY <1>1, <2>1, <2>5
    <3> HIDE DEF p, V
    <3>5. ASSUME NEW i \in ID
          PROVE  IF i \in V \cap 1 .. n
                 THEN /\ Recorded(p, i)
                      /\ ChangeOf(p, i).present <=> i \in Existing(c)
                      /\ ChangeOf(p, i).components = Carried(c, i)
                 ELSE /\ Recorded(p, i) <=> Recorded(s, i)
                      /\ Recorded(s, i) => ChangeOf(p, i) = ChangeOf(s, i)
      <4>1. CASE i = n
        BY <3>3, <3>4, <4>1
      <4>2. CASE i # n
        BY <2>2, <3>3, <3>4, <4>2 DEF RecordedOf
      <4> QED  BY <4>1, <4>2
    <3>6. RecordedOf(p, s, c, V \cap 1 .. n)
      BY <3>3, <3>5 DEF RecordedOf
    <3>7. p \in Seq(Change)
      BY <3>3 DEF Distinct
    <3> HIDE DEF step
    <3>8. step[<<x, n>>] = p
      BY <2>3, <2>5 DEF p
    <3> QED  BY <2>1, <3>6, <3>7, <3>8
  <2> QED  BY <2>4, <2>5
<1>4. r = Iterated(step, s, k)
  BY DEF RecordAll
<1>5. k \in 0 .. k
  BY <1>1
<1>6. r \in I[k]
  <2> HIDE DEF r, step, I, k
  <2> QED  BY <1>1, <1>2, <1>3, <1>4, <1>5, IteratedSteps
<1>7. V \cap 1 .. k = V
  BY <1>1
<1> HIDE DEF r, V
<1> QED  BY <1>5, <1>6, <1>7 DEF r, V

(* A container that shows of every entity in a set what changes tell of    *)
(* it, and of every other what it showed before.                           *)
AppliedOf(applied, c, changes, ids) ==
  /\ Sound(applied)
  /\ \A id \in ID :
       IF id \in ids /\ Recorded(changes, id)
       THEN LET e == ChangeOf(changes, id)
            IN  /\ Carried(applied, id) = IF e.present THEN e.components
                                          ELSE <<>>
                /\ e.present => id \in Existing(applied)
       ELSE /\ Carried(applied, id) = Carried(c, id)
            /\ id \in Existing(c) => id \in Existing(applied)

(* Applying changes brings about what they tell, and nothing else.         *)
LEMMA AppliedFollows ==
  ASSUME NEW c, Sound(c), NEW s, Distinct(s)
  PROVE  AppliedOf(Applied(c, s), c, s, ID)
<1> DEFINE k == Len(s)
           told(n) == {s[j].id : j \in 1 .. n}
           step == [x \in Container \X DOMAIN s |-> Changed(x[1], s[x[2]])]
           I == [n \in 0 .. k |-> {x \in Container : AppliedOf(x, c, s, told(n))}]
           a == Applied(c, s)
<1>1. /\ s \in Seq(Change) /\ k \in Nat /\ DOMAIN s = 1 .. k
      /\ \A i, j \in 1 .. k : s[i].id = s[j].id => i = j
      /\ \A i \in 1 .. k : s[i] \in Change /\ s[i].id \in ID
  <2>1. \A e \in Change : e.id \in ID
    BY DEF Change
  <2> QED  BY <2>1 DEF Distinct
<1>2. \A x : Sound(x) => x \in Container
  BY DEF Sound, ContainerOK
<1>3. c \in I[0]
  <2>1. AppliedOf(c, c, s, told(0))
    <3>1. told(0) = {}
      OBVIOUS
    <3> HIDE DEF told
    <3> QED  BY <3>1 DEF AppliedOf
  <2>2. 0 \in 0 .. k
    BY <1>1
  <2> HIDE DEF told
  <2>3. c \in Container
    BY <1>2
  <2> QED  BY <2>1, <2>2, <2>3
<1>4. ASSUME NEW n \in 1 .. k, NEW x \in I[n - 1]
      PROVE  step[<<x, n>>] \in I[n]
  <2>1. n \in 0 .. k /\ n - 1 \in 0 .. k
    BY <1>1
  <2>2. x \in Container /\ AppliedOf(x, c, s, told(n - 1))
    BY <2>1
  <2> DEFINE e == s[n]
             y == Changed(x, e)
  <2>3. step[<<x, n>>] = y
    BY <1>1, <2>2
  <2>4. Sound(x) /\ e \in Change /\ e.id \in ID
    BY <1>1, <2>2 DEF AppliedOf
  <2>5. \A i : i \in told(n) <=> i \in told(n - 1) \/ i = e.id
    BY <1>1, <2>1
  <2>6. Recorded(s, e.id) /\ ChangeOf(s, e.id) = e
    BY <1>1, ChangeFound DEF Recorded
  <2> HIDE DEF told, e
  <2>7. /\ Sound(y)
        /\ Carried(y, e.id) = IF e.present THEN e.components ELSE <<>>
        /\ e.present => e.id \in Existing(y)
        /\ \A i \in ID \ {e.id} : /\ Carried(y, i) = Carried(x, i)
                                  /\ i \in Existing(x) => i \in Existing(y)
    BY <2>4, ChangedFollows
  <2> HIDE DEF y, step
  <2>8. AppliedOf(y, c, s, told(n))
    <3>1. ASSUME NEW i \in ID
          PROVE  IF i \in told(n) /\ Recorded(s, i)
                 THEN LET d == ChangeOf(s, i)
                      IN  /\ Carried(y, i) = IF d.present THEN d.components
                                             ELSE <<>>
                          /\ d.present => i \in Existing(y)
                 ELSE /\ Carried(y, i) = Carried(c, i)
                      /\ i \in Existing(c) => i \in Existing(y)
      <4>1. CASE i = e.id
        BY <2>5, <2>6, <2>7, <4>1
      <4>2. CASE i # e.id
        BY <2>2, <2>5, <2>7, <4>2 DEF AppliedOf
      <4> QED  BY <4>1, <4>2
    <3> QED  BY <2>7, <3>1 DEF AppliedOf
  <2> QED  BY <1>2, <2>1, <2>3, <2>7, <2>8
<1>5. a = Iterated(step, c, k)
  BY DEF Applied
<1>6. k \in 0 .. k
  BY <1>1
<1>7. a \in I[k]
  <2> HIDE DEF a, step, I, k
  <2> QED  BY <1>1, <1>3, <1>4, <1>5, <1>6, IteratedSteps
<1>8. \A id : Recorded(s, id) => id \in told(k)
  BY <1>1 DEF Recorded
<1> HIDE DEF a, told, step
<1>9. AppliedOf(a, c, s, told(k))
  BY <1>6, <1>7
<1> QED  BY <1>8, <1>9 DEF AppliedOf, a

-----------------------------------------------------------------------------
(***************************************************************************)
(* Numbers and their groups of bits.                                       *)
(***************************************************************************)

(* Division with a remainder, and that there is one such pair only.        *)
LEMMA Division ==
  ASSUME NEW n \in Nat, NEW m \in Nat \ {0}
  PROVE  /\ n \div m \in Nat /\ n % m \in Nat /\ n % m < m
         /\ n = m * (n \div m) + (n % m)
<1>1. n \div m \in Int /\ n % m \in Int
  OBVIOUS
<1>2. n = m * (n \div m) + (n % m)
  OBVIOUS
<1>3. 0 <= n % m /\ n % m < m
  OBVIOUS
<1>4. n \div m >= 0
  OBVIOUS
<1> QED BY <1>1, <1>2, <1>3, <1>4

(* A quotient and a smaller remainder are what division returns.           *)
LEMMA DivisionUnique ==
  ASSUME NEW n \in Nat, NEW m \in Nat \ {0}, NEW d \in Nat, NEW r \in Nat,
         r < m, n = m * d + r
  PROVE  n \div m = d /\ n % m = r
<1> DEFINE e == n \div m
           s == n % m
<1>1. e \in Nat /\ s \in Nat /\ s < m /\ n = m * e + s
  BY Division
<1> HIDE DEF e, s
<1>2. ASSUME e < d PROVE FALSE
  <2>1. e + 1 <= d /\ m * (e + 1) <= m * d
    BY <1>1, <1>2
  <2> QED BY <1>1, <2>1
<1>3. ASSUME d < e PROVE FALSE
  <2>1. d + 1 <= e /\ m * (d + 1) <= m * e
    BY <1>1, <1>3
  <2> QED BY <1>1, <2>1
<1>4. e = d
  BY <1>1, <1>2, <1>3
<1> QED BY <1>1, <1>4 DEF e, s

(* A number taken apart into its lower digits and the next one. *)
LEMMA NextDigit ==
  ASSUME NEW n \in Nat, NEW p \in Nat \ {0}, NEW q \in Nat \ {0}
  PROVE  n % (p * q) = (n % p) + (((n \div p) % q) * p)
<1> DEFINE d == n \div p
           r == n % p
           e == d \div q
           s == d % q
<1>1. /\ d \in Nat /\ r \in Nat /\ r < p /\ n = p * d + r
      /\ n % p = r /\ (n \div p) % q = s
  BY Division
<1> HIDE DEF d, r
<1>2. e \in Nat /\ s \in Nat /\ s < q /\ d = q * e + s
  BY <1>1, Division
<1> HIDE DEF e, s
<1>3. n = (p * q) * e + ((s * p) + r)
  BY <1>1, <1>2
<1>4. (s * p) + r < p * q
  <2>1. s + 1 <= q
    BY <1>2
  <2>2. (s + 1) * p <= q * p
    BY <1>2, <2>1
  <2>3. (s + 1) * p = (s * p) + p
    BY <1>2
  <2> QED  BY <1>1, <1>2, <2>2, <2>3
<1>5. p * q \in Nat \ {0} /\ (s * p) + r \in Nat
  BY <1>1, <1>2
<1>6. n % (p * q) = (s * p) + r
  <2> DEFINE m == p * q
             t == (s * p) + r
  <2>1. m \in Nat \ {0} /\ t \in Nat /\ t < m /\ n = m * e + t
    BY <1>3, <1>4, <1>5
  <2> HIDE DEF m, t
  <2>2. n % m = t
    BY <1>2, <2>1, DivisionUnique
  <2> QED  BY <2>2 DEF m, t
<1>7. r + (s * p) = (s * p) + r
  BY <1>1, <1>2
<1> QED  BY <1>1, <1>6, <1>7, Zenon

-----------------------------------------------------------------------------
(* The powers of two up to the widest that the format uses. *)
Widest == WordBits + ByteBits

(* What the constants of the format say of the widths counted in bits.     *)
LEMMA Widths ==
  /\ ByteBits \in Nat /\ ByteBits > 1 /\ PayloadBits \in Nat \ {0}
  /\ WordBytes \in Nat \ {0} /\ WordBits \in Nat \ {0}
  /\ Widest \in Nat /\ WordBits + PayloadBits < Widest
  /\ ByteBits * WordBytes = WordBits
<1>1. ByteBits \in Nat /\ ByteBits > 1 /\ WordBytes \in Nat \ {0}
  BY FormatAssumption
<1>2. WordBytes * ByteBits \in Nat \ {0} /\ ByteBits * WordBytes = WordBytes * ByteBits
  BY <1>1
<1> QED  BY <1>1, <1>2 DEF WordBits, PayloadBits, Widest

(* The powers of two, one by one. *)
LEMMA PowerValues ==
  /\ Power[0] = 1
  /\ \A n \in 0 .. Widest : Power[n] \in Nat \ {0}
  /\ \A n \in Nat : n + 1 <= Widest => Power[n + 1] = 2 * Power[n]
<1>1. Widest \in Nat
  BY Widths
<1>2. \A n \in 0 .. Widest : Power[n] = PowerOfTwo(n)
  BY DEF Power, Widest
<1>3. \A n \in 0 .. Widest : Power[n] \in Nat \ {0}
  BY <1>1, <1>2, Powers
<1>4. Power[0] = 1
  <2>1. 0 \in 0 .. Widest
    BY <1>1
  <2> QED  BY <1>2, <2>1, Powers
<1>5. ASSUME NEW n \in Nat, n + 1 <= Widest
      PROVE  Power[n + 1] = 2 * Power[n]
  <2>1. n \in 0 .. Widest /\ n + 1 \in 0 .. Widest
    BY <1>1, <1>5
  <2>2. PowerOfTwo(n + 1) = 2 * PowerOfTwo(n)
    BY Powers
  <2> QED  BY <1>2, <2>1, <2>2
<1> QED  BY <1>3, <1>4, <1>5

(* Widths that are added multiply the powers. *)
LEMMA PowerSum ==
  ASSUME NEW a \in Nat, NEW b \in Nat, a + b <= Widest
  PROVE  Power[a + b] = Power[a] * Power[b]
<1> DEFINE T == {k \in 0 .. b : Power[a + k] = Power[a] * Power[k]}
<1>0. Widest \in Nat /\ Power[a] \in Nat
  BY Widths, PowerValues
<1>1. 0 \in T
  BY <1>0, PowerValues
<1>2. ASSUME NEW k \in 0 .. b - 1, k \in T PROVE k + 1 \in T
  <2>1. k \in Nat /\ k + 1 <= Widest /\ a + k \in Nat /\ (a + k) + 1 <= Widest
        /\ k + 1 \in 0 .. b
    BY <1>0
  <2>2. Power[k + 1] = 2 * Power[k] /\ Power[(a + k) + 1] = 2 * Power[a + k]
    BY <2>1, PowerValues
  <2>3. Power[k] \in Nat
    BY <2>1, PowerValues, <1>0
  <2>4. Power[a + k] = Power[a] * Power[k]
    BY <1>2
  <2>5. 2 * (Power[a] * Power[k]) = Power[a] * (2 * Power[k])
    BY <1>0, <2>3
  <2>6. a + (k + 1) = (a + k) + 1
    BY <2>1
  <2> QED  BY <2>1, <2>2, <2>4, <2>5, <2>6
<1>3. 0 .. b \subseteq T
  <2> HIDE DEF T
  <2> QED  BY <1>1, <1>2, IntervalInduction
<1>4. b \in 0 .. b
  OBVIOUS
<1> QED  BY <1>3, <1>4

(* A wider group of bits counts further, twice as far at least. *)
LEMMA PowerOrder ==
  ASSUME NEW a \in Nat, NEW b \in Nat, a <= b, b <= Widest
  PROVE  Power[a] <= Power[b] /\ (a < b => 2 * Power[a] <= Power[b])
<1>1. Widest \in Nat /\ b - a \in Nat /\ a + (b - a) = b
  BY Widths
<1>2. Power[b] = Power[a] * Power[b - a]
  BY <1>1, PowerSum
<1>3. Power[a] \in Nat \ {0} /\ Power[b - a] \in Nat \ {0}
  BY <1>1, PowerValues
<1>4. Power[a] * 1 <= Power[a] * Power[b - a]
  BY <1>3
<1>5. ASSUME a < b PROVE 2 * Power[a] <= Power[b]
  <2>1. (b - a) - 1 \in Nat /\ ((b - a) - 1) + 1 = b - a /\ b - a <= Widest
    BY <1>1, <1>5
  <2> DEFINE h == (b - a) - 1
  <2>2. Power[h + 1] = 2 * Power[h]
    BY <2>1, PowerValues
  <2>3. Power[h] \in Nat \ {0}
    BY <1>1, <2>1, PowerValues
  <2> HIDE DEF h
  <2>4. h + 1 = b - a
    BY <2>1 DEF h
  <2>5. Power[b - a] >= 2
    BY <2>2, <2>3, <2>4
  <2>6. Power[a] * 2 <= Power[a] * Power[b - a]
    BY <1>3, <2>5
  <2> QED  BY <1>2, <1>3, <2>6
<1> QED  BY <1>2, <1>3, <1>4, <1>5

(* A byte of a varint has twice as many values as it carries. *)
LEMMA ByteValues ==
  /\ Byte \in Nat /\ Payload \in Nat /\ Payload >= 2 /\ Byte = 2 * Payload
<1>1. /\ PayloadBits \in Nat /\ PayloadBits + 1 = ByteBits /\ ByteBits <= Widest
      /\ PayloadBits >= 1
  BY Widths DEF PayloadBits, Widest
<1>2. Power[PayloadBits + 1] = 2 * Power[PayloadBits]
  BY <1>1, PowerValues
<1>3. Power[PayloadBits] \in Nat
  BY <1>1, Widths, PowerValues
<1> DEFINE zero == 0
<1>4. 2 * Power[zero] <= Power[PayloadBits]
  <2>1. zero \in Nat /\ zero <= PayloadBits /\ zero < PayloadBits
        /\ PayloadBits <= Widest
    BY <1>1, Widths
  <2> HIDE DEF zero
  <2> QED  BY <1>1, <2>1, PowerOrder
<1>5. Power[zero] = 1
  BY PowerValues
<1> QED  BY <1>1, <1>2, <1>3, <1>4, <1>5 DEF Byte, Payload

(* A group of bits begins where the one before it ends. *)
LEMMA DigitPlaces ==
  ASSUME NEW b \in Nat \ {0}, NEW k \in Nat, b * k <= Widest,
         NEW i \in 1 .. k
  PROVE  /\ b * (i - 1) \in Nat /\ b * i \in Nat /\ b * i <= b * k
         /\ b * (i - 1) + b = b * i
         /\ b <= Widest /\ b * (i - 1) <= Widest
         /\ Power[b] \in Nat \ {0} /\ Power[b * (i - 1)] \in Nat \ {0}
         /\ Power[b * i] = Power[b * (i - 1)] * Power[b]
<1>1. b * (i - 1) \in Nat /\ b * i \in Nat /\ b * (i - 1) + b = b * i
  BY Widths
<1>2. b * i <= b * k
  BY Widths
<1>3. Widest \in Nat /\ b * k \in Nat /\ b \in Nat
  BY Widths
<1> DEFINE low == b * (i - 1)
           high == b * i
           all == b * k
<1> HIDE DEF low, high, all
<1>4. /\ low \in Nat /\ high \in Nat /\ all \in Nat /\ all <= Widest
      /\ high <= all /\ low + b = high
  BY <1>1, <1>2, <1>3 DEF low, high, all
<1>5. low <= Widest /\ b <= Widest /\ low + b <= Widest
  BY <1>3, <1>4
<1>6. Power[b] \in Nat \ {0} /\ Power[low] \in Nat \ {0}
  BY <1>3, <1>4, <1>5, PowerValues
<1>7. Power[low + b] = Power[low] * Power[b]
  BY <1>3, <1>4, <1>5, PowerSum
<1>8. Power[high] = Power[low] * Power[b]
  BY <1>4, <1>7
<1> QED  BY <1>1, <1>2, <1>5, <1>6, <1>8 DEF low, high

(* A group of bits is smaller than its width can count. *)
LEMMA DigitRange ==
  ASSUME NEW b \in Nat \ {0}, NEW k \in Nat, b * k <= Widest,
         NEW i \in 1 .. k, NEW n \in Nat
  PROVE  Digit(n, b, i) \in 0 .. Power[b] - 1
<1> DEFINE p == Power[b * (i - 1)]
           q == Power[b]
           d == n \div p
<1>1. p \in Nat \ {0} /\ q \in Nat \ {0}
  BY DigitPlaces
<1> HIDE DEF p, q
<1>2. d \in Nat
  BY <1>1, Division
<1> HIDE DEF d
<1>3. d % q \in Nat /\ d % q < q
  BY <1>1, <1>2, Division
<1>4. d % q \in 0 .. q - 1
  BY <1>1, <1>3
<1> QED  BY <1>4 DEF Digit, d, p, q

(* The groups of bits of a number, put together, are the number as far as  *)
(* they reach.                                                             *)
LEMMA NumberOfDigits ==
  ASSUME NEW b \in Nat \ {0}, NEW k \in Nat, b * k <= Widest,
         NEW digits \in [1 .. k -> Nat]
  PROVE  /\ Number(digits, b) \in Nat
         /\ \A n \in Nat : (\A i \in 1 .. k : digits[i] = Digit(n, b, i)) =>
              Number(digits, b) = n % Power[b * k]
<1> DEFINE step == [x \in Nat \X DOMAIN digits |->
                      x[1] + digits[x[2]] * Power[b * (x[2] - 1)]]
           zero == 0
<1>1. Len(digits) = k /\ DOMAIN digits = 1 .. k
  OBVIOUS
<1>2. Number(digits, b) = Iterated(step, zero, k)
  BY <1>1 DEF Number
<1>3. ASSUME NEW i \in 1 .. k, NEW m \in Nat
      PROVE  step[<<m, i>>] = m + (digits[i] * Power[b * (i - 1)])
  BY <1>1
<1>4. k \in 0 .. k /\ zero = 0
  OBVIOUS
<1> HIDE DEF step, zero
<1>5. Number(digits, b) \in Nat
  <2> DEFINE I == [n \in 0 .. k |-> Nat]
  <2>1. zero \in I[0]
    BY <1>4
  <2>2. ASSUME NEW n \in 1 .. k, NEW x \in I[n - 1]
        PROVE  step[<<x, n>>] \in I[n]
    <3>1. n \in 0 .. k /\ n - 1 \in 0 .. k
      OBVIOUS
    <3>2. x \in Nat
      BY <3>1
    <3>3. digits[n] \in Nat /\ Power[b * (n - 1)] \in Nat
      BY DigitPlaces
    <3>4. digits[n] * Power[b * (n - 1)] \in Nat
      BY <3>3
    <3>5. step[<<x, n>>] \in Nat
      BY <1>3, <3>2, <3>4
    <3> QED  BY <3>1, <3>5
  <2>3. Iterated(step, zero, k) \in I[k]
    <3> HIDE DEF I
    <3> QED  BY <1>4, <2>1, <2>2, IteratedSteps
  <2> QED  BY <1>2, <1>4, <2>3
<1>6. ASSUME NEW n \in Nat, \A i \in 1 .. k : digits[i] = Digit(n, b, i)
      PROVE  Number(digits, b) = n % Power[b * k]
  <2> DEFINE I == [i \in 0 .. k |-> {n % Power[b * i]}]
  <2>1. zero \in I[0]
    <3>1. b * 0 = 0
      OBVIOUS
    <3>2. Power[b * 0] = 1
      BY <3>1, PowerValues
    <3>3. n % 1 = 0
      OBVIOUS
    <3>4. 0 \in 0 .. k
      OBVIOUS
    <3> QED  BY <1>4, <3>2, <3>3, <3>4
  <2>2. ASSUME NEW i \in 1 .. k, NEW x \in I[i - 1]
        PROVE  step[<<x, i>>] \in I[i]
    <3> DEFINE p == Power[b * (i - 1)]
               q == Power[b]
               d == (n \div p) % q
               r == n % p
    <3>1. i \in 0 .. k /\ i - 1 \in 0 .. k
      OBVIOUS
    <3>2. x = r
      BY <3>1
    <3>3. p \in Nat \ {0} /\ q \in Nat \ {0} /\ Power[b * i] = p * q
      BY DigitPlaces
    <3>4. digits[i] = d
      BY <1>6 DEF Digit
    <3>5. r \in Nat
      <4> HIDE DEF p
      <4> QED  BY <3>3, Division
    <3>6. step[<<x, i>>] = r + (d * p)
      <4> HIDE DEF p, q, r, d
      <4>1. step[<<x, i>>] = x + (digits[i] * p)
        BY <1>3, <3>2, <3>5 DEF p
      <4> QED  BY <3>2, <3>4, <4>1
    <3>7. n % (p * q) = r + (d * p)
      <4> HIDE DEF p, q
      <4> QED  BY <3>3, NextDigit
    <3>8. I[i] = {n % Power[b * i]}
      BY <3>1
    <3> HIDE DEF I, p, q, d, r
    <3> QED  BY <3>3, <3>6, <3>7, <3>8
  <2>3. Iterated(step, zero, k) \in I[k]
    <3> HIDE DEF I
    <3> QED  BY <1>4, <2>1, <2>2, IteratedSteps
  <2> QED  BY <1>2, <1>4, <2>3
<1> QED  BY <1>5, <1>6

-----------------------------------------------------------------------------
(***************************************************************************)
(* Readers: what they return, and what they need of the input.             *)
(***************************************************************************)

(* Bytes, and the values that stand for the byte of a component. *)
Symbol == (0 .. Byte - 1) \cup Value \cup {Default}
Stream == Seq(Symbol)

(* What a reader of members of S returns. *)
Readings(S) == {Refused} \cup {Read(v, n) : v \in S, n \in Nat}

(* Bytes that stand in the input behind the cursor. *)
At(input, cursor, bytes) ==
  /\ cursor \in Nat /\ cursor + Len(bytes) <= Len(input)
  /\ \A i \in 1 .. Len(bytes) : input[cursor + i] = bytes[i]

(* An input that goes on where another ends. *)
Continues(longer, input) ==
  /\ longer \in Stream /\ Len(input) <= Len(longer)
  /\ \A i \in 1 .. Len(input) : longer[i] = input[i]

(* What one reader accepts, the other reads in the same way. *)
Agrees(one, other) == one.ok => other = one

(* What a reader returns says whether it is a value or an error.           *)
LEMMA ReadingParts ==
  /\ ~ Refused.ok
  /\ \A v, n : Read(v, n).ok /\ Read(v, n).value = v /\ Read(v, n).cursor = n
BY DEF Refused, Read

(* A reading is an error, or a value and a cursor. *)
LEMMA ReadingCases ==
  ASSUME NEW S, NEW r \in Readings(S)
  PROVE  /\ r.ok \in BOOLEAN
         /\ ~ r.ok => r = Refused
         /\ r.ok => r.value \in S /\ r.cursor \in Nat /\ r = Read(r.value, r.cursor)
<1>1. CASE r = Refused
  BY <1>1 DEF Refused
<1>2. CASE \E v \in S, n \in Nat : r = Read(v, n)
  <2>1. PICK v \in S, n \in Nat : r = Read(v, n)
    BY <1>2
  <2>2. r.ok = TRUE /\ r.value = v /\ r.cursor = n
    BY <2>1 DEF Read
  <2> QED  BY <2>1, <2>2
<1> QED  BY <1>1, <1>2 DEF Readings

(* read_stream::bytes returns what stands behind the cursor, or fails.     *)
LEMMA BytesRead ==
  ASSUME NEW input \in Stream, NEW cursor \in Nat, NEW count \in Nat
  PROVE  LET some == [i \in 1 .. count |-> input[cursor + i]]
         IN  /\ cursor + count <= Len(input) =>
                  /\ ReadBytes(input, cursor, count) = Read(some, cursor + count)
                  /\ some \in Stream
             /\ ~ (cursor + count <= Len(input)) =>
                  ReadBytes(input, cursor, count) = Refused
<1>0. Len(input) \in Nat
  BY DEF Stream
<1>1. CASE cursor + count <= Len(input)
  <2> DEFINE a == cursor + 1
             z == cursor + count
             s == SubSeq(input, a, z)
             some == [i \in 1 .. count |-> input[cursor + i]]
  <2>1. a \in 1 .. Len(input) + 1 /\ z \in a - 1 .. Len(input)
        /\ (z - a) + 1 = count
    BY <1>0, <1>1
  <2>2. /\ s \in Seq(Symbol) /\ Len(s) = (z - a) + 1
        /\ \A i \in 1 .. (z - a) + 1 : s[i] = input[(a + i) - 1]
    <3> HIDE DEF a, z
    <3> QED  BY <2>1, SubSeqProperties DEF Stream
  <2>3. \A i \in 1 .. count : (a + i) - 1 = cursor + i
    OBVIOUS
  <2>4. s = some
    <3>1. s = [i \in 1 .. count |-> s[i]]
      <4> HIDE DEF s
      <4> QED  BY <2>1, <2>2
    <3>2. \A i \in 1 .. count : s[i] = input[cursor + i]
      <4> HIDE DEF s, a, z
      <4> QED  BY <2>1, <2>2, <2>3
    <3> HIDE DEF s
    <3> QED  BY <3>1, <3>2
  <2>5. ReadBytes(input, cursor, count) = Read(s, cursor + count)
    <3>1. ~ (count > Len(input) - cursor)
      BY <1>0, <1>1
    <3> QED  BY <3>1 DEF ReadBytes
  <2> QED  BY <1>1, <2>2, <2>4, <2>5 DEF Stream
<1>2. CASE ~ (cursor + count <= Len(input))
  <2>1. count > Len(input) - cursor
    BY <1>0, <1>2
  <2> QED  BY <1>2, <2>1 DEF ReadBytes
<1> QED  BY <1>1, <1>2

(* A byte. *)
LEMMA ByteRead ==
  ASSUME NEW input \in Stream, NEW cursor \in Nat
  PROVE  LET read == ReadBytes(input, cursor, 1)
         IN  /\ cursor + 1 <= Len(input) =>
                  /\ read.ok /\ read.value[1] = input[cursor + 1]
                  /\ read.cursor = cursor + 1
             /\ ~ (cursor + 1 <= Len(input)) => ~ read.ok
<1> DEFINE one == 1
<1>1. one \in Nat
  OBVIOUS
<1> HIDE DEF one
<1> DEFINE some == [i \in 1 .. one |-> input[cursor + i]]
           read == ReadBytes(input, cursor, one)
<1>2. /\ cursor + one <= Len(input) => read = Read(some, cursor + one)
      /\ ~ (cursor + one <= Len(input)) => read = Refused
  BY <1>1, BytesRead
<1>3. some[one] = input[cursor + one]
  BY <1>1 DEF one
<1> HIDE DEF some, read
<1>4. /\ cursor + one <= Len(input) =>
           /\ read.ok /\ read.value[one] = input[cursor + one]
           /\ read.cursor = cursor + one
      /\ ~ (cursor + one <= Len(input)) => ~ read.ok
  BY <1>2, <1>3, ReadingParts
<1> QED  BY <1>4 DEF one, read

(* An integer of fixed width. *)
LEMMA WordRead ==
  ASSUME NEW input \in Stream, NEW cursor \in Nat
  PROVE  /\ ReadWord(input, cursor) \in Readings(Nat)
         /\ \A longer : Continues(longer, input) =>
              Agrees(ReadWord(input, cursor), ReadWord(longer, cursor))
         /\ \A n \in 0 .. Power[WordBits] - 1 :
              At(input, cursor, Word(n)) =>
                ReadWord(input, cursor) = Read(n, cursor + WordBytes)
<1> DEFINE some(from) == [i \in 1 .. WordBytes |-> from[cursor + i]]
           end == cursor + WordBytes
           fits(from) == /\ end <= Len(from)
                         /\ \A i \in 1 .. WordBytes : from[cursor + i] \in 0 .. Byte - 1
<1>0. /\ WordBytes \in Nat \ {0} /\ ByteBits \in Nat \ {0}
      /\ ByteBits * WordBytes <= Widest /\ end \in Nat
      /\ ByteBits * WordBytes = WordBits
      /\ WordBits \in Nat /\ WordBits <= Widest
  BY Widths
<1>1. ASSUME NEW from \in Stream
      PROVE  ReadWord(from, cursor) =
               IF fits(from) THEN Read(Number(some(from), ByteBits), end)
               ELSE Refused
  <2> DEFINE bytes == ReadBytes(from, cursor, WordBytes)
  <2>1. /\ end <= Len(from) => bytes = Read(some(from), end)
        /\ ~ (end <= Len(from)) => bytes = Refused
    BY <1>0, BytesRead
  <2>2. ReadWord(from, cursor) =
          IF bytes.ok /\ Range(bytes.value) \subseteq 0 .. Byte - 1
          THEN Read(Number(bytes.value, ByteBits), bytes.cursor) ELSE Refused
    BY DEF ReadWord
  <2>3. Range(some(from)) \subseteq 0 .. Byte - 1
          <=> \A i \in 1 .. WordBytes : from[cursor + i] \in 0 .. Byte - 1
    BY DEF Range
  <2> HIDE DEF bytes, some
  <2>4. CASE ~ (end <= Len(from))
    BY <2>1, <2>2, <2>4, ReadingParts
  <2>5. CASE end <= Len(from)
    <3>1. bytes.ok /\ bytes.value = some(from) /\ bytes.cursor = end
      BY <2>1, <2>5, ReadingParts
    <3> HIDE DEF end
    <3> QED  BY <2>2, <2>3, <2>5, <3>1
  <2> QED  BY <2>4, <2>5
<1>2. ASSUME NEW from \in Stream, fits(from)
      PROVE  /\ some(from) \in [1 .. WordBytes -> Nat]
             /\ Number(some(from), ByteBits) \in Nat
  <2>1. some(from) \in [1 .. WordBytes -> Nat]
    BY <1>2
  <2> HIDE DEF some
  <2> QED  BY <1>0, <2>1, NumberOfDigits
<1>3. ReadWord(input, cursor) \in Readings(Nat)
  <2> HIDE DEF fits, some, end
  <2> QED  BY <1>0, <1>1, <1>2 DEF Readings
<1>4. ASSUME NEW longer, Continues(longer, input)
      PROVE  Agrees(ReadWord(input, cursor), ReadWord(longer, cursor))
  <2>1. longer \in Stream /\ Len(input) \in Nat /\ Len(longer) \in Nat
    BY <1>4 DEF Continues, Stream
  <2>2. CASE fits(input)
    <3>1. \A i \in 1 .. WordBytes : longer[cursor + i] = input[cursor + i]
      <4> SUFFICES ASSUME NEW i \in 1 .. WordBytes
                   PROVE  longer[cursor + i] = input[cursor + i]
        OBVIOUS
      <4>1. cursor + i \in 1 .. Len(input)
        BY <1>0, <2>1, <2>2
      <4> QED  BY <1>4, <4>1 DEF Continues
    <3>2. some(longer) = some(input) /\ fits(longer)
      <4>1. some(longer) = some(input)
        BY <3>1
      <4>2. end <= Len(longer)
        BY <1>0, <1>4, <2>1, <2>2 DEF Continues
      <4> QED  BY <2>2, <3>1, <4>1, <4>2
    <3> HIDE DEF some, fits, end
    <3>3. ReadWord(longer, cursor) = ReadWord(input, cursor)
      BY <1>1, <2>1, <2>2, <3>2
    <3> QED  BY <3>3 DEF Agrees
  <2>3. CASE ~ fits(input)
    <3> HIDE DEF some, fits, end
    <3>1. ReadWord(input, cursor) = Refused
      BY <1>1, <2>3
    <3> QED  BY <3>1, ReadingParts DEF Agrees
  <2> QED  BY <2>2, <2>3
<1>5. ASSUME NEW n \in 0 .. Power[WordBits] - 1, At(input, cursor, Word(n))
      PROVE  ReadWord(input, cursor) = Read(n, end)
  <2>1. Power[WordBits] \in Nat \ {0} /\ n \in Nat
    BY <1>0, PowerValues, Widths
  <2>2. \A i \in 1 .. WordBytes : Digit(n, ByteBits, i) \in 0 .. Byte - 1
    BY <1>0, <2>1, DigitRange DEF Byte
  <2>3. /\ Len(Word(n)) = WordBytes
        /\ \A i \in 1 .. WordBytes : Word(n)[i] = Digit(n, ByteBits, i)
    BY <1>0 DEF Word
  <2>4. /\ end <= Len(input)
        /\ \A i \in 1 .. WordBytes : input[cursor + i] = Digit(n, ByteBits, i)
    BY <1>5, <2>3 DEF At
  <2>5. fits(input)
    BY <2>2, <2>4
  <2>6. \A i \in 1 .. WordBytes : some(input)[i] = Digit(n, ByteBits, i)
    BY <2>4
  <2>7. some(input) \in [1 .. WordBytes -> Nat]
    BY <1>2, <2>5
  <2> HIDE DEF some, fits, end
  <2>8. Number(some(input), ByteBits) = n % Power[ByteBits * WordBytes]
    <3> DEFINE digits == some(input)
    <3>1. /\ digits \in [1 .. WordBytes -> Nat] /\ WordBytes \in Nat
          /\ \A i \in 1 .. WordBytes : digits[i] = Digit(n, ByteBits, i)
      BY <1>0, <2>6, <2>7
    <3> HIDE DEF digits
    <3>2. \A m \in Nat :
            (\A i \in 1 .. WordBytes : digits[i] = Digit(m, ByteBits, i)) =>
               Number(digits, ByteBits) = m % Power[ByteBits * WordBytes]
      BY <1>0, <3>1, NumberOfDigits
    <3>3. n \in Nat
      BY <2>1
    <3>4. Number(digits, ByteBits) = n % Power[ByteBits * WordBytes]
      BY <3>1, <3>2, <3>3
    <3> QED  BY <3>4 DEF digits
  <2>9. n % Power[WordBits] = n
    <3> DEFINE p == Power[WordBits]
               none == 0
    <3>1. none \in Nat /\ p \in Nat \ {0} /\ n < p /\ n = (p * none) + n
      BY <2>1
    <3> HIDE DEF p, none
    <3>2. n % p = n
      BY <2>1, <3>1, DivisionUnique
    <3> QED  BY <3>2 DEF p
  <2> QED  BY <1>0, <1>1, <2>5, <2>8, <2>9
<1> QED  BY <1>3, <1>4, <1>5

(* An enumeration of one byte. *)
LEMMA EnumRead ==
  ASSUME NEW input \in Stream, NEW cursor \in Nat, NEW valid
  PROVE  /\ ReadEnum(input, cursor, valid) \in Readings(valid)
         /\ \A longer : Continues(longer, input) =>
              Agrees(ReadEnum(input, cursor, valid), ReadEnum(longer, cursor, valid))
         /\ \A v \in valid : At(input, cursor, <<v>>) =>
              ReadEnum(input, cursor, valid) = Read(v, cursor + 1)
<1>1. ASSUME NEW from \in Stream
      PROVE  ReadEnum(from, cursor, valid) =
               IF cursor + 1 <= Len(from) /\ from[cursor + 1] \in valid
               THEN Read(from[cursor + 1], cursor + 1) ELSE Refused
  BY ByteRead DEF ReadEnum
<1>2. ReadEnum(input, cursor, valid) \in Readings(valid)
  BY <1>1 DEF Readings
<1>3. ASSUME NEW longer, Continues(longer, input)
      PROVE  Agrees(ReadEnum(input, cursor, valid), ReadEnum(longer, cursor, valid))
  <2>1. longer \in Stream /\ Len(input) \in Nat /\ Len(longer) \in Nat
    BY <1>3 DEF Continues, Stream
  <2>2. CASE cursor + 1 <= Len(input)
    <3>1. longer[cursor + 1] = input[cursor + 1] /\ cursor + 1 <= Len(longer)
      BY <1>3, <2>1, <2>2 DEF Continues
    <3> QED  BY <1>1, <2>1, <2>2, <3>1 DEF Agrees
  <2>3. CASE ~ (cursor + 1 <= Len(input))
    BY <1>1, <2>3, ReadingParts DEF Agrees
  <2> QED  BY <2>2, <2>3
<1>4. ASSUME NEW v \in valid, At(input, cursor, <<v>>)
      PROVE  ReadEnum(input, cursor, valid) = Read(v, cursor + 1)
  <2>1. cursor + 1 <= Len(input) /\ input[cursor + 1] = v
    BY <1>4 DEF At
  <2> QED  BY <1>1, <2>1
<1> QED  BY <1>2, <1>3, <1>4

(* A truth value. *)
LEMMA BoolRead ==
  ASSUME NEW input \in Stream, NEW cursor \in Nat, NEW flag \in BOOLEAN,
         At(input, cursor, Bool(flag))
  PROVE  ReadBool(input, cursor) = Read(flag, cursor + 1)
<1>1. /\ cursor + 1 <= Len(input)
      /\ input[cursor + 1] = IF flag THEN 1 ELSE 0
  BY DEF At, Bool
<1> DEFINE read == ReadBytes(input, cursor, 1)
<1>2. /\ read.ok /\ read.value[1] = (IF flag THEN 1 ELSE 0)
      /\ read.cursor = cursor + 1
  BY <1>1, ByteRead
<1>3. ReadBool(input, cursor) =
        IF read.ok /\ read.value[1] \in {0, 1}
        THEN Read(read.value[1] = 1, read.cursor) ELSE Refused
  BY DEF ReadBool
<1> HIDE DEF read
<1>4. CASE flag = TRUE
  <2>1. ReadBool(input, cursor) = Read(TRUE, cursor + 1)
    BY <1>2, <1>3, <1>4
  <2> QED  BY <1>4, <2>1
<1>5. CASE flag = FALSE
  <2>0. (read.value[1] = 1) = FALSE /\ read.value[1] \in {0, 1}
    BY <1>2, <1>5
  <2>1. ReadBool(input, cursor) = Read(FALSE, cursor + 1)
    BY <1>2, <1>3, <2>0
  <2> QED  BY <1>5, <2>1
<1> QED  BY <1>4, <1>5

(* What is counted is written without loss. *)
LEMMA Countable ==
  /\ MaxElements \in Nat /\ MaxSlots < MaxElements
  /\ 0 .. MaxElements \subseteq 0 .. Power[WordBits] - 1
  /\ \A id \in ID : id - 1 \in 0 .. Power[WordBits] - 1
<1>1. WordBits \in 0 .. Widest
  BY Widths
<1>2. Power[WordBits] \in Nat \ {0}
  BY <1>1, PowerValues
<1>3. MaxElements \in 0 .. Power[WordBits] - 1
  BY FormatAssumption
<1> QED  BY <1>2, <1>3, LimitAssumption, SlotsAssumption DEF ID

(* An identifier. *)
LEMMA IndexRead ==
  ASSUME NEW input \in Stream, NEW cursor \in Nat
  PROVE  /\ ReadIndex(input, cursor) \in Readings(Nat)
         /\ \A longer : Continues(longer, input) =>
              Agrees(ReadIndex(input, cursor), ReadIndex(longer, cursor))
         /\ \A id \in ID : At(input, cursor, IndexBytes(id)) =>
              ReadIndex(input, cursor) = Read(id, cursor + WordBytes)
<1> DEFINE word(from) == ReadWord(from, cursor)
<1>1. \A from : ReadIndex(from, cursor) =
                  IF word(from).ok
                  THEN Read(word(from).value + 1, word(from).cursor) ELSE Refused
  BY DEF ReadIndex
<1>2. word(input) \in Readings(Nat)
  BY WordRead
<1>3. ReadIndex(input, cursor) \in Readings(Nat)
  <2> HIDE DEF word
  <2>1. CASE ~ word(input).ok
    BY <1>1, <2>1 DEF Readings
  <2>2. CASE word(input).ok
    <3>1. word(input).value + 1 \in Nat /\ word(input).cursor \in Nat
      BY <1>2, <2>2, ReadingCases
    <3> QED  BY <1>1, <2>2, <3>1 DEF Readings
  <2> QED  BY <2>1, <2>2
<1>4. ASSUME NEW longer, Continues(longer, input)
      PROVE  Agrees(ReadIndex(input, cursor), ReadIndex(longer, cursor))
  <2>1. Agrees(word(input), word(longer))
    BY <1>4, WordRead
  <2> HIDE DEF word
  <2>2. CASE ~ word(input).ok
    BY <1>1, <2>2, ReadingParts DEF Agrees
  <2>3. CASE word(input).ok
    BY <1>1, <2>1, <2>3 DEF Agrees
  <2> QED  BY <2>2, <2>3
<1>5. ASSUME NEW id \in ID, At(input, cursor, IndexBytes(id))
      PROVE  ReadIndex(input, cursor) = Read(id, cursor + WordBytes)
  <2> DEFINE n == id - 1
  <2>1. n \in 0 .. Power[WordBits] - 1 /\ n + 1 = id
    BY Countable DEF ID
  <2>2. At(input, cursor, Word(n))
    BY <1>5 DEF IndexBytes
  <2> HIDE DEF n
  <2>3. word(input) = Read(n, cursor + WordBytes)
    BY <2>1, <2>2, WordRead
  <2> HIDE DEF word
  <2> QED  BY <1>1, <2>1, <2>3, ReadingParts
<1> QED  BY <1>3, <1>4, <1>5

(* The bytes that a size may take, and the bits left for the last of them. *)
LEMMA SizeBytes ==
  LET last == ((WordBits - 1) % PayloadBits) + 1
  IN  /\ MaxSizeBytes \in Nat \ {0} /\ last \in 1 .. PayloadBits
      /\ PayloadBits * (MaxSizeBytes - 1) + last = WordBits
      /\ PayloadBits * MaxSizeBytes \in WordBits .. Widest
<1> DEFINE w == WordBits - 1
           p == PayloadBits
           d == w \div p
           r == w % p
           m == MaxSizeBytes
<1>1. w \in Nat /\ p \in Nat \ {0} /\ w + 1 = WordBits
      /\ WordBits + (ByteBits - 2) = w + p /\ w + 1 + p < Widest /\ Widest \in Nat
  BY Widths DEF PayloadBits
<1> HIDE DEF w, p
<1>2. d \in Nat /\ r \in Nat /\ r < p /\ w = (p * d) + r
  BY <1>1, Division
<1>3. m = (w + p) \div p
  <2>1. m = (WordBits + (ByteBits - 2)) \div p
    BY DEF MaxSizeBytes, p
  <2> HIDE DEF m
  <2> QED  BY <1>1, <2>1, Zenon
<1> HIDE DEF d, r, m
<1>4. m = d + 1
  <2> DEFINE e == d + 1
             n == w + p
  <2>1. n \in Nat /\ e \in Nat /\ n = (p * e) + r
    BY <1>1, <1>2
  <2> HIDE DEF e, n
  <2>2. n \div p = e
    BY <1>1, <1>2, <2>1, DivisionUnique
  <2> QED  BY <1>3, <2>2 DEF e, n
<1>5. m \in Nat \ {0} /\ m - 1 = d /\ r + 1 \in 1 .. p
  BY <1>1, <1>2, <1>4
<1>6. p * m = (p * d) + p
  BY <1>1, <1>2, <1>4
<1>7. (p * d) + (r + 1) = WordBits /\ p * m >= WordBits /\ p * m <= Widest
      /\ p * m \in Int /\ WordBits \in Int
  BY <1>1, <1>2, <1>6
<1>8. (WordBits - 1) % PayloadBits = r
  BY DEF r, w, p
<1>9. p * m \in WordBits .. Widest
  BY <1>1, <1>7
<1>10. (p * (m - 1)) + (r + 1) = WordBits
  BY <1>5, <1>7
<1> QED  BY <1>5, <1>8, <1>9, <1>10 DEF m, p

(* Min of a set of numbers is its least element. *)
LEMMA Least ==
  ASSUME NEW S \in SUBSET Nat, S # {}
  PROVE  Min(S) \in S /\ \A n \in S : Min(S) <= n
BY LeastNumber DEF Min

(* How many bytes a size takes. *)
SizeCount(n) == Min({k \in 1 .. MaxSizeBytes : n < Power[PayloadBits * k]})

(* Every number of the width of a size_t has a last group of bits, and it  *)
(* fits in what the last byte may hold.                                    *)
LEMMA SizeDigits ==
  ASSUME NEW n \in 0 .. Power[WordBits] - 1
  PROVE  LET count == SizeCount(n)
             digits == [i \in 1 .. count |-> Digit(n, PayloadBits, i)]
         IN  /\ count \in 1 .. MaxSizeBytes
             /\ \A i \in 1 .. count : Digit(n, PayloadBits, i) \in 0 .. Payload - 1
             /\ Number(digits, PayloadBits) = n
             /\ count = MaxSizeBytes =>
                  Digit(n, PayloadBits, count) <= LastPayload
<1> DEFINE S == {k \in 1 .. MaxSizeBytes : n < Power[PayloadBits * k]}
           count == SizeCount(n)
           m == MaxSizeBytes
           last == ((WordBits - 1) % PayloadBits) + 1
           low == PayloadBits * (m - 1)
<1>0. /\ PayloadBits \in Nat \ {0} /\ WordBits \in Nat /\ WordBits <= Widest
      /\ Power[WordBits] \in Nat \ {0} /\ Widest \in Nat /\ n \in Nat
  <2>1. /\ PayloadBits \in Nat \ {0} /\ WordBits \in Nat /\ WordBits <= Widest
        /\ Widest \in Nat
    BY Widths
  <2>2. Power[WordBits] \in Nat \ {0}
    BY <2>1, PowerValues
  <2> QED  BY <2>1, <2>2
<1>1. /\ m \in Nat \ {0} /\ last \in 1 .. PayloadBits
      /\ low + last = WordBits /\ low \in Nat
      /\ PayloadBits * m \in WordBits .. Widest
  <2>1. low \in Nat
    BY <1>0, SizeBytes
  <2> QED  BY <2>1, SizeBytes
<1> HIDE DEF last
<1>2. m \in S
  <2>1. Power[WordBits] <= Power[PayloadBits * m]
    <3> DEFINE all == PayloadBits * m
    <3>1. all \in Nat /\ WordBits <= all /\ all <= Widest
      BY <1>0, <1>1
    <3> HIDE DEF all
    <3>2. Power[WordBits] <= Power[all]
      BY <1>0, <3>1, PowerOrder
    <3> QED  BY <3>2 DEF all
  <2>2. PayloadBits * m \in 0 .. Widest
    BY <1>0, <1>1
  <2>3. Power[PayloadBits * m] \in Nat
    BY <2>2, PowerValues
  <2> QED  BY <1>0, <1>1, <2>1, <2>3
<1>3. count \in S
  <2>1. S \in SUBSET Nat
    OBVIOUS
  <2>2. count = Min(S)
    BY DEF SizeCount
  <2> HIDE DEF S, count
  <2> QED  BY <1>2, <2>1, <2>2, Least
<1>4. count \in 1 .. m /\ n < Power[PayloadBits * count]
  BY <1>3
<1> HIDE DEF count, S
<1>5. PayloadBits * count <= Widest /\ count \in Nat
  BY <1>0, <1>1, <1>4
<1>6. \A i \in 1 .. count : Digit(n, PayloadBits, i) \in 0 .. Payload - 1
  BY <1>0, <1>5, DigitRange DEF Payload
<1>7. Number([i \in 1 .. count |-> Digit(n, PayloadBits, i)], PayloadBits) = n
  <2> DEFINE digits == [i \in 1 .. count |-> Digit(n, PayloadBits, i)]
  <2>1. digits \in [1 .. count -> Nat]
        /\ \A i \in 1 .. count : digits[i] = Digit(n, PayloadBits, i)
    BY <1>6
  <2> HIDE DEF digits
  <2>2. \A x \in Nat :
          (\A i \in 1 .. count : digits[i] = Digit(x, PayloadBits, i)) =>
            Number(digits, PayloadBits) = x % Power[PayloadBits * count]
    BY <1>0, <1>5, <2>1, NumberOfDigits
  <2>3. Number(digits, PayloadBits) = n % Power[PayloadBits * count]
    BY <1>0, <2>1, <2>2
  <2>4. n % Power[PayloadBits * count] = n
    <3> DEFINE p == Power[PayloadBits * count]
               none == 0
    <3>1. PayloadBits * count \in 0 .. Widest
      BY <1>0, <1>5
    <3>2. p \in Nat \ {0} /\ n < p /\ none \in Nat /\ n = (p * none) + n
      BY <1>0, <1>4, <3>1, PowerValues
    <3> HIDE DEF p, none
    <3>3. n % p = n
      BY <1>0, <3>2, DivisionUnique
    <3> QED  BY <3>3 DEF p
  <2> QED  BY <2>3, <2>4 DEF digits
<1>8. Digit(n, PayloadBits, m) <= LastPayload
  <2> DEFINE p == Power[low]
             q == Power[last]
             d == n \div p
  <2> HIDE DEF low
  <2>1. low \in Nat /\ last \in Nat /\ low + last <= Widest /\ low <= Widest
        /\ last <= Widest
    BY <1>0, <1>1
  <2>2. Power[low + last] = Power[low] * Power[last]
    BY <2>1, PowerSum
  <2>3. p \in Nat \ {0} /\ q \in Nat \ {0} /\ Power[WordBits] = p * q
    BY <1>0, <1>1, <2>1, <2>2, PowerValues
  <2>4. Payload \in Nat \ {0}
    BY ByteValues
  <2> HIDE DEF p, q
  <2>5. d \in Nat /\ n % p \in Nat /\ n = (p * d) + (n % p)
    BY <1>0, <2>3, Division
  <2> HIDE DEF d
  <2>6. n < p * q /\ p * d <= n
    <3> DEFINE r == n % p
    <3>1. r \in Nat /\ n = (p * d) + r
      BY <2>5
    <3> HIDE DEF r
    <3>2. p * d \in Nat
      BY <2>3, <2>5
    <3> QED  BY <1>0, <2>3, <3>1, <3>2
  <2>7. d < q
    <3>1. ASSUME q <= d PROVE FALSE
      <4>1. p * q <= p * d
        BY <2>3, <2>5, <3>1
      <4>2. p * q \in Nat /\ p * d \in Nat
        BY <2>3, <2>5
      <4> QED  BY <1>0, <2>6, <4>1, <4>2
    <3> QED  BY <2>3, <2>5, <3>1
  <2>8. d % Payload <= d /\ d % Payload \in Nat
    <3> DEFINE r == d % Payload
               e == d \div Payload
    <3>1. e \in Nat /\ r \in Nat /\ d = (Payload * e) + r
      BY <2>4, <2>5, Division
    <3> HIDE DEF r, e
    <3>2. Payload * e \in Nat
      BY <2>4, <3>1
    <3>3. r <= d /\ r \in Nat
      BY <2>5, <3>1, <3>2
    <3> QED  BY <3>3 DEF r
  <2>9. Digit(n, PayloadBits, m) = d % Payload
    BY DEF Digit, d, p, low, Payload
  <2>10. LastPayload = q - 1
    BY DEF LastPayload, q, last
  <2> DEFINE x == d % Payload
  <2>11. x \in Nat /\ x <= d
    BY <2>8
  <2> HIDE DEF x
  <2>12. x <= q - 1
    BY <2>3, <2>5, <2>7, <2>11
  <2> QED  BY <2>9, <2>10, <2>12 DEF x
<1> QED  BY <1>4, <1>6, <1>7, <1>8 DEF count

(* Where a varint ends is one place at most. *)
LEMMA OneEnd ==
  ASSUME NEW input \in Stream, NEW cursor \in Nat,
         NEW e \in SizeEnds(input, cursor)
  PROVE  /\ e \in 1 .. MaxSizeBytes /\ cursor + e <= Len(input)
         /\ SizeEnds(input, cursor) = {e} /\ Min({e}) = e
         /\ \A i \in 1 .. e : input[cursor + i] \in 0 .. Byte - 1
<1>0. MaxSizeBytes \in Nat /\ Payload \in Nat /\ Byte \in Nat /\ Payload <= Byte
  BY SizeBytes, ByteValues
<1>1. ASSUME NEW x, NEW y, x \in SizeEnds(input, cursor),
             y \in SizeEnds(input, cursor), x < y
      PROVE  FALSE
  <2>1. x \in 1 .. y - 1
    BY <1>0, <1>1 DEF SizeEnds
  <2>2. input[cursor + x] \in 0 .. Payload - 1
        /\ input[cursor + x] \in Payload .. Byte - 1
    BY <1>1, <2>1 DEF SizeEnds
  <2> QED  BY <1>0, <2>2
<1>2. SizeEnds(input, cursor) \subseteq Nat
  BY <1>0 DEF SizeEnds
<1>3. SizeEnds(input, cursor) = {e}
  BY <1>1, <1>2
<1>4. e \in 1 .. MaxSizeBytes /\ cursor + e <= Len(input)
  BY DEF SizeEnds
<1>5. Min({e}) = e
  <2>1. {e} \in SUBSET Nat /\ {e} # {}
    BY <1>2
  <2>2. Min({e}) \in {e}
    BY <2>1, Least
  <2> QED  BY <2>2
<1>6. ASSUME NEW i \in 1 .. e
      PROVE  input[cursor + i] \in 0 .. Byte - 1
  <2>1. e \in Nat
    BY <1>2
  <2>2. CASE i = e
    BY <1>0, <2>2 DEF SizeEnds
  <2>3. CASE i # e
    <3>1. i \in 1 .. e - 1
      BY <2>1, <2>3
    <3>2. input[cursor + i] \in Payload .. Byte - 1
      BY <3>1 DEF SizeEnds
    <3> QED  BY <1>0, <3>2
  <2> QED  BY <2>2, <2>3
<1> QED  BY <1>3, <1>4, <1>5, <1>6

(* A size. *)
LEMMA SizeRead ==
  ASSUME NEW input \in Stream, NEW cursor \in Nat
  PROVE  /\ ReadSize(input, cursor) \in Readings(Nat)
         /\ \A longer : Continues(longer, input) =>
              Agrees(ReadSize(input, cursor), ReadSize(longer, cursor))
         /\ \A n \in 0 .. Power[WordBits] - 1 :
              At(input, cursor, Size(n)) =>
                ReadSize(input, cursor) = Read(n, cursor + Len(Size(n)))
<1> DEFINE digits(from, e) == [i \in 1 .. e |-> from[cursor + i] % Payload]
           fits(from, e) == e = MaxSizeBytes =>
                              from[cursor + e] % Payload <= LastPayload
           taken(from, e) == Number(digits(from, e), PayloadBits)
<1>0. /\ MaxSizeBytes \in Nat \ {0} /\ Payload \in Nat \ {0} /\ Byte \in Nat
      /\ Byte = 2 * Payload /\ PayloadBits \in Nat \ {0} /\ Len(input) \in Nat
      /\ WordBits \in Nat /\ Widest \in Nat
      /\ PayloadBits * MaxSizeBytes <= Widest
  <2>1. Len(input) \in Nat
    BY DEF Stream
  <2>2. PayloadBits * MaxSizeBytes \in WordBits .. Widest
    BY SizeBytes
  <2> QED  BY <2>1, <2>2, Widths, SizeBytes, ByteValues
<1>1. ASSUME NEW from \in Stream, NEW e \in SizeEnds(from, cursor)
      PROVE  ReadSize(from, cursor) =
               IF fits(from, e) THEN Read(taken(from, e), cursor + e)
               ELSE Refused
  <2>1. SizeEnds(from, cursor) = {e} /\ Min({e}) = e /\ e \in 1 .. MaxSizeBytes
    BY OneEnd
  <2>2. digits(from, e)[e] = from[cursor + e] % Payload
    BY <1>0, <2>1
  <2>3. ReadSize(from, cursor) =
          IF {e} # {} /\ (e = MaxSizeBytes => digits(from, e)[e] <= LastPayload)
          THEN Read(Number(digits(from, e), PayloadBits), cursor + e)
          ELSE Refused
    BY <2>1, Zenon DEF ReadSize
  <2> HIDE DEF digits
  <2> QED  BY <2>2, <2>3
<1>2. ASSUME NEW from, SizeEnds(from, cursor) = {}
      PROVE  ReadSize(from, cursor) = Refused
  BY <1>2 DEF ReadSize
<1>3. ASSUME NEW e \in SizeEnds(input, cursor)
      PROVE  taken(input, e) \in Nat /\ cursor + e \in Nat
  <2>1. /\ e \in 1 .. MaxSizeBytes
        /\ \A i \in 1 .. e : input[cursor + i] \in 0 .. Byte - 1
    BY OneEnd
  <2>2. ASSUME NEW x \in 0 .. Byte - 1 PROVE x % Payload \in Nat
    <3>1. x \in Nat
      BY <1>0
    <3> QED  BY <1>0, <3>1, Division
  <2>3. digits(input, e) \in [1 .. e -> Nat]
    BY <2>1, <2>2
  <2>4. e \in Nat /\ PayloadBits * e <= Widest
    BY <1>0, <2>1
  <2> HIDE DEF digits
  <2>5. Number(digits(input, e), PayloadBits) \in Nat
    BY <1>0, <2>3, <2>4, NumberOfDigits
  <2> QED  BY <2>4, <2>5
<1> HIDE DEF taken, fits
<1>4. ReadSize(input, cursor) \in Readings(Nat)
  <2>1. CASE SizeEnds(input, cursor) = {}
    BY <1>2, <2>1 DEF Readings
  <2>2. ASSUME NEW e \in SizeEnds(input, cursor)
        PROVE  ReadSize(input, cursor) \in Readings(Nat)
    BY <1>1, <1>3 DEF Readings
  <2> QED  BY <2>1, <2>2
<1>5. ASSUME NEW longer, Continues(longer, input)
      PROVE  Agrees(ReadSize(input, cursor), ReadSize(longer, cursor))
  <2>1. longer \in Stream /\ Len(longer) \in Nat /\ Len(input) <= Len(longer)
    BY <1>5 DEF Continues, Stream
  <2>2. CASE SizeEnds(input, cursor) = {}
    BY <1>2, <2>2, ReadingParts DEF Agrees
  <2>3. ASSUME NEW e \in SizeEnds(input, cursor)
        PROVE  ReadSize(longer, cursor) = ReadSize(input, cursor)
    <3>1. e \in 1 .. MaxSizeBytes /\ cursor + e <= Len(input)
      BY OneEnd
    <3>2. \A i \in 1 .. e : longer[cursor + i] = input[cursor + i]
      <4> SUFFICES ASSUME NEW i \in 1 .. e
                   PROVE  longer[cursor + i] = input[cursor + i]
        OBVIOUS
      <4>1. cursor + i \in 1 .. Len(input)
        BY <1>0, <3>1
      <4> QED  BY <1>5, <4>1 DEF Continues
    <3>3. e \in 1 .. e /\ \A i \in 1 .. e - 1 : i \in 1 .. e
      BY <3>1
    <3>4. cursor + e <= Len(longer)
      BY <1>0, <2>1, <3>1
    <3>5. /\ input[cursor + e] \in 0 .. Payload - 1
          /\ \A i \in 1 .. e - 1 : input[cursor + i] \in Payload .. Byte - 1
      BY DEF SizeEnds
    <3>6. e \in SizeEnds(longer, cursor)
      BY <3>1, <3>2, <3>3, <3>4, <3>5 DEF SizeEnds
    <3>7. digits(longer, e) = digits(input, e)
      BY <3>2
    <3>8. taken(longer, e) = taken(input, e) /\ (fits(longer, e) <=> fits(input, e))
      BY <3>2, <3>3, <3>7 DEF taken, fits
    <3> QED  BY <1>1, <2>1, <3>6, <3>8
  <2> QED  BY <2>2, <2>3 DEF Agrees
<1>6. ASSUME NEW n \in 0 .. Power[WordBits] - 1, At(input, cursor, Size(n))
      PROVE  ReadSize(input, cursor) = Read(n, cursor + Len(Size(n)))
  <2> DEFINE e == SizeCount(n)
             d == [i \in 1 .. e |-> Digit(n, PayloadBits, i)]
  <2>1. /\ e \in 1 .. MaxSizeBytes
        /\ \A i \in 1 .. e : d[i] \in 0 .. Payload - 1
        /\ Number(d, PayloadBits) = n
        /\ e = MaxSizeBytes => d[e] <= LastPayload
    BY SizeDigits
  <2>2. Size(n) = [i \in 1 .. e |-> d[i] + (IF i < e THEN Payload ELSE 0)]
    BY DEF Size, SizeCount
  <2>3. d = [i \in 1 .. e |-> d[i]]
    OBVIOUS
  <2> HIDE DEF e, d
  <2>4. Len(Size(n)) = e /\ e \in Nat
    BY <1>0, <2>1, <2>2
  <2>5. /\ cursor + e <= Len(input)
        /\ \A i \in 1 .. e :
             input[cursor + i] = d[i] + (IF i < e THEN Payload ELSE 0)
    BY <1>6, <2>2, <2>4 DEF At
  <2>6. ASSUME NEW i \in 1 .. e
        PROVE  /\ input[cursor + i] % Payload = d[i]
               /\ i < e => input[cursor + i] \in Payload .. Byte - 1
               /\ i = e => input[cursor + i] \in 0 .. Payload - 1
    <3>1. CASE i < e
      <4> DEFINE x == input[cursor + i]
                 one == 1
                 r == d[i]
      <4>1. x = r + Payload /\ r \in 0 .. Payload - 1
        BY <2>1, <2>5, <3>1
      <4>2. i # e
        BY <2>4, <3>1
      <4>3. one \in Nat /\ one = 1
        OBVIOUS
      <4> HIDE DEF x, r, one
      <4>4. x \in Nat /\ r \in Nat /\ r < Payload /\ x = (Payload * one) + r
            /\ x \in Payload .. Byte - 1
        BY <1>0, <4>1, <4>3
      <4>5. x % Payload = r
        BY <1>0, <4>3, <4>4, DivisionUnique
      <4> QED  BY <4>2, <4>4, <4>5 DEF x, r
    <3>2. CASE ~ (i < e)
      <4> DEFINE x == input[cursor + i]
                 none == 0
                 r == d[i]
      <4>1. x = r + 0 /\ r \in 0 .. Payload - 1
        BY <2>1, <2>5, <3>2
      <4>3. none \in Nat /\ none = 0
        OBVIOUS
      <4> HIDE DEF x, r, none
      <4>4. x \in Nat /\ r \in Nat /\ r < Payload /\ x = (Payload * none) + r
            /\ x \in 0 .. Payload - 1
        BY <1>0, <4>1, <4>3
      <4>5. x % Payload = r
        BY <1>0, <4>3, <4>4, DivisionUnique
      <4> QED  BY <3>2, <4>4, <4>5 DEF x, r
    <3> QED  BY <3>1, <3>2
  <2>7. e \in SizeEnds(input, cursor)
    <3>1. \A i \in 1 .. e - 1 : i \in 1 .. e /\ i < e
      BY <2>4
    <3>2. e \in 1 .. e
      BY <2>1
    <3> QED  BY <2>1, <2>5, <2>6, <3>1, <3>2 DEF SizeEnds
  <2>8. digits(input, e) = d
    BY <2>3, <2>6
  <2>9. fits(input, e)
    <3>1. e \in 1 .. e
      BY <2>1
    <3>2. input[cursor + e] % Payload = d[e]
      BY <2>6, <3>1
    <3> QED  BY <2>1, <3>2 DEF fits
  <2>10. taken(input, e) = n
    BY <2>1, <2>8 DEF taken
  <2> QED  BY <1>1, <2>4, <2>7, <2>9, <2>10
<1> QED  BY <1>4, <1>5, <1>6

-----------------------------------------------------------------------------
(***************************************************************************)
(* Bytes put together.                                                     *)
(***************************************************************************)

(* Where the bytes of two runs are when one is put behind the other.       *)
LEMMA Joining ==
  ASSUME NEW a \in Stream, NEW b \in Stream
  PROVE  /\ Len(a) \in Nat /\ Len(b) \in Nat
         /\ a \o b \in Stream /\ Len(a \o b) = Len(a) + Len(b)
         /\ \A i \in 1 .. Len(a) : (a \o b)[i] = a[i]
         /\ \A i \in 1 .. Len(b) : (a \o b)[Len(a) + i] = b[i]
<1>1. Len(a) \in Nat /\ Len(b) \in Nat
  BY DEF Stream
<1>2. /\ a \o b \in Stream /\ Len(a \o b) = Len(a) + Len(b)
      /\ \A i \in 1 .. Len(a) + Len(b) :
           (a \o b)[i] = IF i <= Len(a) THEN a[i] ELSE b[i - Len(a)]
  BY ConcatProperties DEF Stream
<1> DEFINE c == a \o b
<1> HIDE DEF c
<1>3. \A i \in 1 .. Len(a) : c[i] = a[i]
  BY <1>1, <1>2 DEF c
<1>4. ASSUME NEW i \in 1 .. Len(b) PROVE c[Len(a) + i] = b[i]
  <2>1. /\ Len(a) + i \in 1 .. Len(a) + Len(b) /\ ~ (Len(a) + i <= Len(a))
        /\ (Len(a) + i) - Len(a) = i
    BY <1>1
  <2> QED  BY <1>2, <2>1 DEF c
<1> QED  BY <1>1, <1>2, <1>3, <1>4 DEF c

(* Two runs of bytes, one behind the other. *)
LEMMA AtBoth ==
  ASSUME NEW input \in Stream, NEW cursor \in Nat,
         NEW a \in Stream, NEW b \in Stream, At(input, cursor, a \o b)
  PROVE  At(input, cursor, a) /\ At(input, cursor + Len(a), b)
<1> DEFINE c == a \o b
<1>1. /\ Len(a) \in Nat /\ Len(b) \in Nat /\ Len(c) = Len(a) + Len(b)
      /\ \A i \in 1 .. Len(a) : c[i] = a[i]
      /\ \A i \in 1 .. Len(b) : c[Len(a) + i] = b[i]
  BY Joining
<1>2. /\ cursor + Len(c) <= Len(input)
      /\ \A i \in 1 .. Len(c) : input[cursor + i] = c[i]
  BY DEF At
<1>3. Len(input) \in Nat
  BY DEF Stream
<1> HIDE DEF c
<1>4. At(input, cursor, a)
  BY <1>1, <1>2, <1>3 DEF At
<1>5. At(input, cursor + Len(a), b)
  <2>1. ASSUME NEW i \in 1 .. Len(b)
        PROVE  input[(cursor + Len(a)) + i] = b[i]
    <3>1. Len(a) + i \in 1 .. Len(c) /\ (cursor + Len(a)) + i = cursor + (Len(a) + i)
      BY <1>1
    <3> QED  BY <1>1, <1>2, <3>1
  <2>2. cursor + Len(a) \in Nat /\ (cursor + Len(a)) + Len(b) <= Len(input)
    BY <1>1, <1>2, <1>3
  <2> QED  BY <2>1, <2>2 DEF At
<1> QED  BY <1>4, <1>5

(* Where each of the pieces ends, the first of which begins at a cursor.   *)
Places(place, cursor, pieces) ==
  /\ place \in [0 .. Len(pieces) -> Nat] /\ place[0] = cursor
  /\ \A i \in 1 .. Len(pieces) : place[i] = place[i - 1] + Len(pieces[i])

(* Pieces put together. *)
LEMMA FlatParts ==
  ASSUME NEW pieces \in Seq(Stream)
  PROVE  LET flat == FlattenSeq(pieces)
             n == Len(pieces)
         IN  /\ flat \in Stream
             /\ \E place : /\ Places(place, 0, pieces) /\ place[n] = Len(flat)
                           /\ \A i \in 1 .. n :
                                /\ place[i] <= Len(flat)
                                /\ \A j \in 1 .. Len(pieces[i]) :
                                     flat[place[i - 1] + j] = pieces[i][j]
<1> DEFINE flat == FlattenSeq(pieces)
           n == Len(pieces)
<1>0. n \in Nat /\ \A i \in 1 .. n : pieces[i] \in Stream /\ Len(pieces[i]) \in Nat
  <2>1. \A s \in Stream : Len(s) \in Nat
    BY DEF Stream
  <2> QED  BY <2>1
<1> HIDE DEF n
<1>1. CASE n = 0
  <2>1. flat = pieces /\ pieces = <<>>
    BY <1>1, EmptySeq DEF FlattenSeq, n
  <2> DEFINE place == [k \in 0 .. 0 |-> 0]
  <2>2. Places(place, 0, pieces) /\ place[n] = Len(flat)
    BY <1>1, <2>1 DEF Places, n
  <2>3. flat \in Stream
    BY <2>1 DEF Stream
  <2>4. \A i \in 1 .. n : FALSE
    BY <1>1
  <2> QED  BY <2>2, <2>3, <2>4 DEF n
<1>2. CASE n # 0
  <2>0. n \in Nat \ {0} /\ n - 1 \in Nat /\ 1 \in 1 .. n
    BY <1>0, <1>2
  <2> DEFINE next == [k \in 1 .. n - 1 |-> pieces[k + 1]]
             step == [x \in Stream \X (1 .. n - 1) |-> x[1] \o next[x[2]]]
             I == [k \in 0 .. n - 1 |-> Stream]
             top == n - 1
             first == pieces[1]
  <2>1. first \in I[0] /\ top \in Nat
    BY <1>0, <2>0
  <2>1a. \A k \in 1 .. n - 1 : next[k] = pieces[k + 1]
    OBVIOUS
  <2> HIDE DEF next
  <2>2. \A k \in 1 .. top : \A x \in I[k - 1] : step[<<x, k>>] \in I[k]
    <3> SUFFICES ASSUME NEW k \in 1 .. top, NEW x \in I[k - 1]
                 PROVE  step[<<x, k>>] \in I[k]
      OBVIOUS
    <3>1. k - 1 \in 0 .. n - 1 /\ k \in 0 .. n - 1 /\ k + 1 \in 1 .. n
      BY <2>0
    <3>2. x \in Stream /\ pieces[k + 1] \in Stream
      BY <1>0, <3>1
    <3>3. step[<<x, k>>] = x \o pieces[k + 1]
      <4>1. <<x, k>> \in Stream \X (1 .. n - 1) /\ k \in 1 .. n - 1
        BY <3>2
      <4>2. step[<<x, k>>] = x \o next[k]
        BY <4>1
      <4> HIDE DEF step
      <4> QED  BY <2>1a, <4>1, <4>2
    <3>4. x \o pieces[k + 1] \in Stream
      BY <3>2, Joining
    <3>5. I[k] = Stream
      BY <3>1
    <3> HIDE DEF step, I
    <3> QED  BY <3>3, <3>4, <3>5
  <2>3. PICK h : Recurs(h, top, first, step)
    <3> HIDE DEF step, I, top, first
    <3> QED  BY <2>1, <2>2, RecursionWithin
  <2>4. \A k \in 0 .. top : h[k] \in I[k]
    <3> HIDE DEF step, I, top, first
    <3> QED  BY <2>1, <2>2, <2>3, RecursionStays
  <2>5. \A k \in 0 .. top : h[k] = IF k = 0 THEN first ELSE step[<<h[k - 1], k>>]
    <3> HIDE DEF step, first, top
    <3> QED  BY <2>3 DEF Recurs
  <2> DEFINE f == [i \in 1 .. n |-> h[i - 1]]
             g == CHOOSE flatten : flatten = [i \in 1 .. n |->
                    IF i = 1 THEN pieces[i] ELSE flatten[i - 1] \o pieces[i]]
  <2> HIDE DEF step, I, top, first
  <2>6. f = [i \in 1 .. n |-> IF i = 1 THEN pieces[i] ELSE f[i - 1] \o pieces[i]]
    <3>0. \A i \in 1 .. n : f[i] = h[i - 1]
      OBVIOUS
    <3>1. ASSUME NEW i \in 1 .. n
          PROVE  h[i - 1] = IF i = 1 THEN pieces[i] ELSE f[i - 1] \o pieces[i]
      <4> HIDE DEF f
      <4>1. i - 1 \in 0 .. top
        BY <2>0 DEF top
      <4>2. CASE i = 1
        <5>1. i - 1 = 0
          BY <4>2
        <5>2. h[0] = first
          BY <2>5, <4>1, <5>1
        <5> QED  BY <4>2, <5>1, <5>2 DEF first
      <4>3. CASE i # 1
        <5> DEFINE k == i - 1
        <5>1. k # 0 /\ k \in 1 .. n - 1 /\ k + 1 = i /\ k \in 1 .. n
              /\ k - 1 \in 0 .. top /\ k - 1 \in 0 .. n - 1 /\ k \in 0 .. top
          BY <2>0, <4>3 DEF top
        <5> HIDE DEF k
        <5>2. h[k] = step[<<h[k - 1], k>>]
          BY <2>5, <5>1
        <5>3. h[k - 1] \in Stream /\ f[k] = h[k - 1]
          BY <2>4, <3>0, <5>1 DEF I
        <5>4. step[<<h[k - 1], k>>] = h[k - 1] \o pieces[k + 1]
          <6>1. <<h[k - 1], k>> \in Stream \X (1 .. n - 1)
            BY <5>1, <5>3
          <6>2. step[<<h[k - 1], k>>] = h[k - 1] \o next[k]
            BY <6>1 DEF step
          <6> QED  BY <2>1a, <5>1, <6>2
        <5>5. h[k] = f[k] \o pieces[i]
          BY <5>1, <5>2, <5>3, <5>4
        <5> QED  BY <4>3, <5>5 DEF k
      <4> QED  BY <4>2, <4>3
    <3> QED  BY <3>1
  <2>7. g = [i \in 1 .. n |-> IF i = 1 THEN pieces[i] ELSE g[i - 1] \o pieces[i]]
    <3> HIDE DEF f
    <3> QED  BY <2>6
  <2>8. flat = g[n]
    BY <1>2 DEF FlattenSeq, n
  <2> HIDE DEF g, f, step, I, top, first, flat
  <2>9. /\ g[1] = pieces[1]
        /\ \A i \in 1 .. n - 1 : g[i + 1] = g[i] \o pieces[i + 1]
    <3>1. g[1] = pieces[1]
      BY <2>0, <2>7
    <3>2. ASSUME NEW i \in 1 .. n - 1
          PROVE  g[i + 1] = g[i] \o pieces[i + 1]
      <4>1. i + 1 \in 1 .. n /\ i + 1 # 1 /\ (i + 1) - 1 = i
        BY <2>0
      <4>2. g[i + 1] = IF i + 1 = 1 THEN pieces[i + 1]
                       ELSE g[(i + 1) - 1] \o pieces[i + 1]
        BY <2>7, <4>1
      <4> QED  BY <4>1, <4>2
    <3> QED  BY <3>1, <3>2
  <2>10. \A i \in 1 .. n : g[i] \in Stream
    <3> DEFINE T == {m \in 0 .. n : m # 0 => g[m] \in Stream}
    <3>1. 0 \in T
      BY <2>0
    <3>2. ASSUME NEW m \in 0 .. n - 1, m \in T PROVE m + 1 \in T
      <4>1. m + 1 \in 0 .. n /\ m + 1 \in 1 .. n
        BY <2>0
      <4>2. CASE m = 0
        <5>1. m + 1 = 1
          BY <4>2
        <5> QED  BY <1>0, <2>0, <2>9, <4>1, <5>1
      <4>3. CASE m # 0
        <5>1. m \in 1 .. n - 1 /\ g[m] \in Stream
          BY <2>0, <3>2, <4>3
        <5> QED  BY <1>0, <2>9, <4>1, <5>1, Joining
      <4> QED  BY <4>2, <4>3
    <3>3. 0 .. n \subseteq T
      <4> HIDE DEF T
      <4> QED  BY <1>0, <3>1, <3>2, IntervalInduction
    <3> QED  BY <2>0, <3>3
  <2> DEFINE place == [i \in 0 .. n |-> IF i = 0 THEN 0 ELSE Len(g[i])]
  <2>11. /\ place[0] = 0 /\ \A i \in 1 .. n : place[i] = Len(g[i])
         /\ place \in [0 .. n -> Nat]
    <3>1. 0 \in 0 .. n /\ \A i \in 1 .. n : i \in 0 .. n /\ i # 0
      BY <2>0
    <3>2. \A i \in 1 .. n : Len(g[i]) \in Nat
      BY <2>10 DEF Stream
    <3> QED  BY <3>1, <3>2
  <2> HIDE DEF place
  <2>12. ASSUME NEW i \in 1 .. n
         PROVE  place[i] = place[i - 1] + Len(pieces[i])
    <3>1. CASE i = 1
      <4>1. i - 1 = 0
        BY <3>1
      <4>2. place[i] = Len(pieces[i])
        BY <2>9, <2>11, <3>1
      <4> QED  BY <1>0, <2>11, <4>1, <4>2
    <3>2. CASE i # 1
      <4> DEFINE k == i - 1
      <4>1. k \in 1 .. n - 1 /\ k \in 1 .. n /\ k + 1 = i
        BY <2>0, <3>2
      <4> HIDE DEF k
      <4>2. g[i] = g[k] \o pieces[i] /\ g[k] \in Stream /\ pieces[i] \in Stream
        BY <1>0, <2>9, <2>10, <4>1
      <4>3. Len(g[i]) = Len(g[k]) + Len(pieces[i])
        BY <4>2, Joining
      <4> QED  BY <2>11, <4>1, <4>3 DEF k
    <3> QED  BY <3>1, <3>2
  <2> DEFINE good(m) == \A i \in 1 .. m :
                          /\ place[i] <= Len(g[m])
                          /\ \A j \in 1 .. Len(pieces[i]) :
                               g[m][place[i - 1] + j] = pieces[i][j]
             T == {m \in 0 .. n : m # 0 => good(m)}
  <2>13. 0 \in T
    BY <2>0
  <2>14. ASSUME NEW m \in 0 .. n - 1, m \in T PROVE m + 1 \in T
    <3> DEFINE z == m + 1
    <3>1. z \in 0 .. n /\ z \in 1 .. n /\ z - 1 = m /\ m \in Nat
          /\ \A i \in 1 .. z : i \in 1 .. m \/ i = z
      BY <2>0
    <3>2. good(z)
      <4> SUFFICES ASSUME NEW i \in 1 .. z
                   PROVE  /\ place[i] <= Len(g[z])
                          /\ \A j \in 1 .. Len(pieces[i]) :
                               g[z][place[i - 1] + j] = pieces[i][j]
        OBVIOUS
      <4>1. CASE m = 0
        <5>1. i = z /\ z = 1
          BY <3>1, <4>1
        <5>2. g[z] = pieces[z] /\ place[i - 1] = 0 /\ place[z] = Len(g[z])
          BY <2>9, <2>11, <3>1, <5>1
        <5>3. Len(pieces[z]) \in Nat
          BY <1>0, <3>1
        <5> HIDE DEF z
        <5> QED  BY <5>1, <5>2, <5>3
      <4>2. CASE m # 0
        <5> DEFINE a == g[m]
                   b == pieces[z]
        <5>1. m \in 1 .. n - 1 /\ m \in 1 .. n /\ good(m)
          <6>1. good(m)
            <7> HIDE DEF good
            <7> QED  BY <2>14, <4>2
          <6>2. m \in 1 .. n - 1 /\ m \in 1 .. n
            BY <2>0, <4>2
          <6> HIDE DEF good
          <6> QED  BY <6>1, <6>2
        <5>2. a \in Stream /\ b \in Stream /\ g[z] = a \o b
              /\ place[m] = Len(a) /\ place[z] = Len(g[z])
          BY <1>0, <2>9, <2>10, <2>11, <3>1, <5>1
        <5> HIDE DEF z, a, b
        <5>3. /\ Len(a) \in Nat /\ Len(b) \in Nat /\ Len(g[z]) = Len(a) + Len(b)
              /\ \A j \in 1 .. Len(a) : g[z][j] = a[j]
              /\ \A j \in 1 .. Len(b) : g[z][Len(a) + j] = b[j]
          BY <5>2, Joining
        <5>4. CASE i = z
          <6>1. place[i - 1] = Len(a) /\ pieces[i] = b
            BY <3>1, <5>2, <5>4 DEF b, z
          <6>2. place[i] = Len(g[z])
            BY <5>2, <5>4
          <6>3. Len(g[z]) \in Nat
            BY <5>3
          <6> QED  BY <5>3, <6>1, <6>2, <6>3
        <5>5. CASE i \in 1 .. m
          <6>1. /\ place[i] <= Len(a)
                /\ \A j \in 1 .. Len(pieces[i]) : a[place[i - 1] + j] = pieces[i][j]
            BY <5>1, <5>5 DEF a
          <6>2. i \in 1 .. n /\ i - 1 \in 0 .. n
            BY <2>0, <5>1, <5>5
          <6>3. /\ place[i] = place[i - 1] + Len(pieces[i]) /\ place[i - 1] \in Nat
                /\ place[i] \in Nat /\ Len(pieces[i]) \in Nat
            BY <1>0, <2>11, <2>12, <6>2
          <6>4. ASSUME NEW j \in 1 .. Len(pieces[i])
                PROVE  place[i - 1] + j \in 1 .. Len(a)
            <7> DEFINE x == place[i - 1]
                       y == place[i]
                       l == Len(pieces[i])
            <7>1. x \in Nat /\ y = x + l /\ l \in Nat /\ y <= Len(a) /\ j \in 1 .. l
                  /\ Len(a) \in Nat
              BY <5>3, <6>1, <6>3
            <7> HIDE DEF x, y, l
            <7>2. x + j \in 1 .. Len(a)
              BY <7>1
            <7> QED  BY <7>2 DEF x
          <6>5. place[i] <= Len(g[z])
            BY <5>3, <6>1, <6>3
          <6> QED  BY <5>3, <6>1, <6>4, <6>5
        <5> QED  BY <3>1, <5>4, <5>5
      <4> QED  BY <4>1, <4>2
    <3> HIDE DEF good
    <3> QED  BY <3>1, <3>2
  <2>15. 0 .. n \subseteq T
    <3> HIDE DEF T
    <3> QED  BY <1>0, <2>13, <2>14, IntervalInduction
  <2>16. good(n) /\ n \in 1 .. n
    <3>1. n \in T
      BY <2>0, <2>15
    <3> HIDE DEF good
    <3> QED  BY <2>0, <3>1
  <2>17. Places(place, 0, pieces) /\ place[n] = Len(flat) /\ flat \in Stream
    <3>1. Places(place, 0, pieces)
      BY <2>11, <2>12 DEF Places, n
    <3> QED  BY <2>8, <2>10, <2>11, <2>16, <3>1
  <2> QED  BY <2>8, <2>16, <2>17 DEF n, flat
<1> QED  BY <1>1, <1>2

(* Pieces put together stand behind a cursor one after the other.          *)
LEMMA AtPieces ==
  ASSUME NEW input \in Stream, NEW cursor \in Nat, NEW pieces \in Seq(Stream),
         At(input, cursor, FlattenSeq(pieces))
  PROVE  \E place : /\ Places(place, cursor, pieces)
                    /\ place[Len(pieces)] = cursor + Len(FlattenSeq(pieces))
                    /\ \A i \in 1 .. Len(pieces) :
                         At(input, place[i - 1], pieces[i])
<1> DEFINE flat == FlattenSeq(pieces)
           n == Len(pieces)
<1>0. /\ n \in Nat /\ Len(input) \in Nat
      /\ \A i \in 1 .. n : pieces[i] \in Stream /\ Len(pieces[i]) \in Nat
  <2>1. \A s \in Stream : Len(s) \in Nat
    BY DEF Stream
  <2> QED  BY <2>1 DEF Stream
<1> HIDE DEF n
<1>1. flat \in Stream
  BY FlatParts
<1>2. PICK at : /\ Places(at, 0, pieces) /\ at[n] = Len(flat)
                /\ \A i \in 1 .. n :
                     /\ at[i] <= Len(flat)
                     /\ \A j \in 1 .. Len(pieces[i]) :
                          flat[at[i - 1] + j] = pieces[i][j]
  BY FlatParts DEF n
<1>3. /\ cursor + Len(flat) <= Len(input)
      /\ \A i \in 1 .. Len(flat) : input[cursor + i] = flat[i]
      /\ Len(flat) \in Nat
  BY <1>1 DEF At, Stream
<1> HIDE DEF flat
<1> DEFINE place == [i \in 0 .. n |-> cursor + at[i]]
<1>4. /\ at \in [0 .. n -> Nat] /\ at[0] = 0
      /\ \A i \in 1 .. n : at[i] = at[i - 1] + Len(pieces[i])
  BY <1>2 DEF Places, n
<1>5. \A i \in 0 .. n : place[i] = cursor + at[i] /\ place[i] \in Nat
  BY <1>4
<1>6. place \in [0 .. n -> Nat]
  BY <1>4
<1> HIDE DEF place
<1>7. Places(place, cursor, pieces)
  <2>1. place[0] = cursor
    BY <1>0, <1>4, <1>5
  <2>2. ASSUME NEW i \in 1 .. n
        PROVE  place[i] = place[i - 1] + Len(pieces[i])
    <3>1. i \in 0 .. n /\ i - 1 \in 0 .. n
      BY <1>0
    <3>2. at[i - 1] \in Nat /\ Len(pieces[i]) \in Nat
      BY <1>0, <1>4, <3>1
    <3> QED  BY <1>4, <1>5, <3>1, <3>2
  <2> QED  BY <1>6, <2>1, <2>2 DEF Places, n
<1>8. ASSUME NEW i \in 1 .. n
      PROVE  At(input, place[i - 1], pieces[i])
  <2>1. i \in 0 .. n /\ i - 1 \in 0 .. n
    BY <1>0
  <2>2. /\ at[i - 1] \in Nat /\ at[i] \in Nat /\ Len(pieces[i]) \in Nat
        /\ at[i] = at[i - 1] + Len(pieces[i]) /\ at[i] <= Len(flat)
        /\ place[i - 1] = cursor + at[i - 1] /\ place[i - 1] \in Nat
    BY <1>0, <1>2, <1>4, <1>5, <2>1
  <2> DEFINE x == place[i - 1]
             y == at[i - 1]
             l == Len(pieces[i])
  <2>2a. /\ y \in Nat /\ l \in Nat /\ x = cursor + y /\ y + l <= Len(flat)
         /\ Len(flat) \in Nat /\ Len(input) \in Nat
         /\ cursor + Len(flat) <= Len(input)
    BY <1>0, <1>3, <2>2
  <2>3. place[i - 1] + Len(pieces[i]) <= Len(input)
    <3> HIDE DEF x, y, l
    <3>1. x + l <= Len(input)
      BY <2>2a
    <3> QED  BY <3>1 DEF x, l
  <2>4. ASSUME NEW j \in 1 .. Len(pieces[i])
        PROVE  input[place[i - 1] + j] = pieces[i][j]
    <3>1. at[i - 1] + j \in 1 .. Len(flat)
          /\ place[i - 1] + j = cursor + (at[i - 1] + j)
      <4>1. j \in 1 .. l
        OBVIOUS
      <4> HIDE DEF x, y, l
      <4>2. y + j \in 1 .. Len(flat) /\ x + j = cursor + (y + j)
        BY <2>2a, <4>1
      <4> QED  BY <4>2 DEF x, y
    <3> QED  BY <1>2, <1>3, <3>1
  <2> QED  BY <2>2, <2>3, <2>4 DEF At
<1>9. place[n] = cursor + Len(flat)
  <2> HIDE DEF n
  <2>1. n \in 0 .. n
    BY <1>0
  <2>2. at[n] = Len(flat)
    BY <1>2
  <2> QED  BY <1>5, <2>1, <2>2
<1> QED  BY <1>7, <1>8, <1>9 DEF flat, n

-----------------------------------------------------------------------------
(***************************************************************************)
(* Values that are read one after the other.                               *)
(***************************************************************************)

(* A reader of members of S, by the cursor. *)
Readers(S) == [Nat -> Readings(S)]

(* Readings are made with Read and Refused. *)
LEMMA ReadingMade ==
  ASSUME NEW S
  PROVE  /\ Refused \in Readings(S)
         /\ \A v \in S, n \in Nat : Read(v, n) \in Readings(S)
BY DEF Readings

(* The values read so far, with one more. *)
LEMMA OneMoreRead ==
  ASSUME NEW S, NEW r \in Readers(S), NEW x \in Readings(Seq(S))
  PROVE  /\ OneMore(x, r) \in Readings(Seq(S))
         /\ OneMore(x, r).ok =>
              /\ x.ok /\ r[x.cursor].ok
              /\ OneMore(x, r) = Read(Append(x.value, r[x.cursor].value),
                                      r[x.cursor].cursor)
         /\ x.ok /\ r[x.cursor].ok => OneMore(x, r).ok
<1> DEFINE one == r[x.cursor]
<1>1. OneMore(x, r) = IF x.ok /\ one.ok
                      THEN Read(Append(x.value, one.value), one.cursor)
                      ELSE Refused
  BY DEF OneMore
<1>2. x.ok /\ one.ok => /\ Append(x.value, one.value) \in Seq(S)
                        /\ one.cursor \in Nat
  <2> SUFFICES ASSUME x.ok, one.ok
               PROVE  Append(x.value, one.value) \in Seq(S) /\ one.cursor \in Nat
    OBVIOUS
  <2>1. x.value \in Seq(S) /\ x.cursor \in Nat
    BY ReadingCases
  <2>2. one \in Readings(S)
    BY <2>1 DEF Readers
  <2> HIDE DEF one
  <2>3. one.value \in S /\ one.cursor \in Nat
    BY <2>2, ReadingCases
  <2> QED  BY <2>1, <2>3
<1> HIDE DEF one
<1>3. OneMore(x, r) \in Readings(Seq(S))
  BY <1>1, <1>2, ReadingMade
<1>4. /\ OneMore(x, r).ok =>
           /\ x.ok /\ one.ok
           /\ OneMore(x, r) = Read(Append(x.value, one.value), one.cursor)
      /\ x.ok /\ one.ok => OneMore(x, r).ok
  BY <1>1, ReadingParts
<1> QED  BY <1>3, <1>4 DEF one

(* What has been read after each of so many values.                        *)
ReadsOn(u, S, r, cursor, count) ==
  /\ u \in [0 .. count -> Readings(Seq(S))]
  /\ u[0] = Read(<<>>, cursor)
  /\ \A i \in 1 .. count : u[i] = OneMore(u[i - 1], r)
  /\ ReadEach(cursor, count, r) = u[count]

(* Values read one after the other, one by one. *)
LEMMA EachUnfolds ==
  ASSUME NEW S, NEW r \in Readers(S),
         NEW cursor \in Nat, NEW count \in Nat
  PROVE  \E u : ReadsOn(u, S, r, cursor, count)
<1> DEFINE base == Read(<<>>, cursor)
           step == [x \in Readings(Seq(S)) \X Nat |-> OneMore(x[1], r)]
<1>1. base \in Readings(Seq(S))
  <2>1. <<>> \in Seq(S)
    OBVIOUS
  <2> QED  BY <2>1, ReadingMade
<1>2. step \in [Readings(Seq(S)) \X Nat -> Readings(Seq(S))]
  BY OneMoreRead
<1>3. \A x \in Readings(Seq(S)), n \in Nat : step[<<x, n>>] = OneMore(x, r)
  OBVIOUS
<1> HIDE DEF step, base
<1>4. PICK f \in [0 .. count -> Readings(Seq(S))] : Recurs(f, count, base, step)
  BY <1>1, <1>2, RecursiveFunctionExists
<1>5. ASSUME NEW n \in 0 .. count
      PROVE  f[n] = IF n = 0 THEN base ELSE OneMore(f[n - 1], r)
  <2>1. f[n] = IF n = 0 THEN base ELSE step[<<f[n - 1], n>>]
    BY <1>4 DEF Recurs
  <2>2. n # 0 => f[n - 1] \in Readings(Seq(S)) /\ n \in Nat
    <3>1. n # 0 => n - 1 \in 0 .. count
      OBVIOUS
    <3> QED  BY <1>4, <3>1
  <2> QED  BY <1>3, <2>1, <2>2
<1> DEFINE g == CHOOSE upTo : upTo = [i \in 0 .. count |->
                  IF i = 0 THEN base ELSE OneMore(upTo[i - 1], r)]
<1>6. f = [i \in 0 .. count |-> IF i = 0 THEN base ELSE OneMore(f[i - 1], r)]
  BY <1>4, <1>5
<1>7. g = [i \in 0 .. count |-> IF i = 0 THEN base ELSE OneMore(g[i - 1], r)]
  BY <1>6
<1>8. ReadEach(cursor, count, r) = g[count]
  BY DEF ReadEach, base
<1> HIDE DEF g
<1>9. ASSUME NEW n \in 0 .. count
      PROVE  g[n] = IF n = 0 THEN base ELSE OneMore(g[n - 1], r)
  BY <1>7
<1> DEFINE T == {n \in 0 .. count : g[n] = f[n]}
<1>10. 0 \in T
  <2>1. 0 \in 0 .. count
    OBVIOUS
  <2> QED  BY <1>5, <1>9, <2>1
<1>11. ASSUME NEW n \in 0 .. count - 1, n \in T PROVE n + 1 \in T
  <2>1. n + 1 \in 0 .. count /\ n + 1 # 0 /\ (n + 1) - 1 = n
    OBVIOUS
  <2>2. g[n + 1] = OneMore(g[n], r) /\ f[n + 1] = OneMore(f[n], r)
    BY <1>5, <1>9, <2>1
  <2> QED  BY <1>11, <2>1, <2>2
<1>12. 0 .. count \subseteq T
  <2> HIDE DEF T
  <2> QED  BY <1>10, <1>11, IntervalInduction
<1>13. ReadEach(cursor, count, r) = f[count]
  <2>1. count \in 0 .. count
    OBVIOUS
  <2> QED  BY <1>8, <1>12, <2>1
<1>14. f[0] = base /\ \A i \in 1 .. count : f[i] = OneMore(f[i - 1], r)
  <2>1. 0 \in 0 .. count /\ \A i \in 1 .. count : i \in 0 .. count /\ i # 0
    OBVIOUS
  <2> QED  BY <1>5, <2>1
<1>15. ReadsOn(f, S, r, cursor, count)
  BY <1>4, <1>13, <1>14 DEF base, ReadsOn
<1> QED  BY <1>15

(* So many values, or an error. *)
LEMMA EachTyped ==
  ASSUME NEW S, NEW r \in Readers(S),
         NEW cursor \in Nat, NEW count \in Nat
  PROVE  LET read == ReadEach(cursor, count, r)
         IN  /\ read \in Readings(Seq(S))
             /\ read.ok => Len(read.value) = count
<1>0. PICK u : ReadsOn(u, S, r, cursor, count)
  BY EachUnfolds
<1>1. /\ u \in [0 .. count -> Readings(Seq(S))] /\ u[0] = Read(<<>>, cursor)
      /\ \A i \in 1 .. count : u[i] = OneMore(u[i - 1], r)
      /\ ReadEach(cursor, count, r) = u[count]
  BY <1>0 DEF ReadsOn
<1> DEFINE T == {n \in 0 .. count : u[n].ok => Len(u[n].value) = n}
<1>2. 0 \in T
  <2>1. u[0].value = <<>>
    BY <1>1, ReadingParts
  <2>2. Len(<<>>) = 0
    OBVIOUS
  <2> QED  BY <2>1, <2>2
<1>3. ASSUME NEW n \in 0 .. count - 1, n \in T PROVE n + 1 \in T
  <2> DEFINE x == u[n]
             y == u[n + 1]
  <2>1. n + 1 \in 1 .. count /\ n + 1 \in 0 .. count /\ (n + 1) - 1 = n
        /\ n \in 0 .. count /\ n \in Nat
    OBVIOUS
  <2>2. y = OneMore(x, r) /\ x \in Readings(Seq(S)) /\ (x.ok => Len(x.value) = n)
    BY <1>1, <1>3, <2>1
  <2> HIDE DEF x, y
  <2>3. y.ok => Len(y.value) = n + 1
    <3> SUFFICES ASSUME y.ok PROVE Len(y.value) = n + 1
      OBVIOUS
    <3> DEFINE v == r[x.cursor].value
    <3>1. x.ok /\ y = Read(Append(x.value, v), r[x.cursor].cursor)
      BY <2>2, OneMoreRead
    <3>2. x.value \in Seq(S) /\ Len(x.value) = n
      BY <2>2, <3>1, ReadingCases
    <3>3. y.value = Append(x.value, v)
      BY <3>1, ReadingParts
    <3> HIDE DEF v
    <3> QED  BY <3>2, <3>3
  <2> QED  BY <2>1, <2>3 DEF y
<1>4. 0 .. count \subseteq T
  <2> HIDE DEF T
  <2> QED  BY <1>2, <1>3, IntervalInduction
<1>5. count \in 0 .. count
  OBVIOUS
<1> QED  BY <1>1, <1>4, <1>5

(* Readers that agree on one value agree on several. *)
LEMMA EachAgrees ==
  ASSUME NEW S, NEW r \in Readers(S), NEW q \in Readers(S),
         \A n \in Nat : Agrees(r[n], q[n]),
         NEW cursor \in Nat, NEW count \in Nat
  PROVE  Agrees(ReadEach(cursor, count, r), ReadEach(cursor, count, q))
<1>0. PICK u : ReadsOn(u, S, r, cursor, count)
  BY EachUnfolds
<1>1. /\ u \in [0 .. count -> Readings(Seq(S))] /\ u[0] = Read(<<>>, cursor)
      /\ \A i \in 1 .. count : u[i] = OneMore(u[i - 1], r)
      /\ ReadEach(cursor, count, r) = u[count]
  BY <1>0 DEF ReadsOn
<1>w. PICK w : ReadsOn(w, S, q, cursor, count)
  BY EachUnfolds
<1>2. /\ w \in [0 .. count -> Readings(Seq(S))] /\ w[0] = Read(<<>>, cursor)
      /\ \A i \in 1 .. count : w[i] = OneMore(w[i - 1], q)
      /\ ReadEach(cursor, count, q) = w[count]
  BY <1>w DEF ReadsOn
<1> DEFINE T == {n \in 0 .. count : Agrees(u[n], w[n])}
<1>3. 0 \in T
  BY <1>1, <1>2 DEF Agrees
<1>4. ASSUME NEW n \in 0 .. count - 1, n \in T PROVE n + 1 \in T
  <2> DEFINE x == u[n]
             y == w[n]
  <2>1. n + 1 \in 1 .. count /\ n + 1 \in 0 .. count /\ (n + 1) - 1 = n
        /\ n \in 0 .. count
    OBVIOUS
  <2>2. u[n + 1] = OneMore(x, r) /\ w[n + 1] = OneMore(y, q) /\ Agrees(x, y)
        /\ x \in Readings(Seq(S))
    BY <1>1, <1>2, <1>4, <2>1
  <2> HIDE DEF x, y
  <2>3. Agrees(OneMore(x, r), OneMore(y, q))
    <3> SUFFICES ASSUME OneMore(x, r).ok PROVE OneMore(y, q) = OneMore(x, r)
      BY DEF Agrees
    <3>1. x.ok /\ r[x.cursor].ok /\ y = x
      BY <2>2, OneMoreRead DEF Agrees
    <3>2. x.cursor \in Nat
      BY <2>2, <3>1, ReadingCases
    <3>3. q[x.cursor] = r[x.cursor]
      BY <3>1, <3>2 DEF Agrees
    <3> QED  BY <3>1, <3>3 DEF OneMore
  <2> QED  BY <2>1, <2>2, <2>3
<1>5. 0 .. count \subseteq T
  <2> HIDE DEF T
  <2> QED  BY <1>3, <1>4, IntervalInduction
<1>6. count \in 0 .. count
  OBVIOUS
<1> QED  BY <1>1, <1>2, <1>5, <1>6

(* Values that are read one by one are read together. *)
LEMMA EachRead ==
  ASSUME NEW S, NEW r \in Readers(S), NEW cursor \in Nat,
         NEW values \in Seq(S), NEW place \in [0 .. Len(values) -> Nat],
         place[0] = cursor,
         \A i \in 1 .. Len(values) : r[place[i - 1]] = Read(values[i], place[i])
  PROVE  ReadEach(cursor, Len(values), r) = Read(values, place[Len(values)])
<1> DEFINE count == Len(values)
           upto(n) == [i \in 1 .. n |-> values[i]]
<1>0. count \in Nat /\ \A i \in 1 .. count : values[i] \in S
  OBVIOUS
<1>u. PICK u : ReadsOn(u, S, r, cursor, count)
  <2> HIDE DEF count
  <2> QED  BY <1>0, EachUnfolds
<1>1. /\ u \in [0 .. count -> Readings(Seq(S))] /\ u[0] = Read(<<>>, cursor)
      /\ \A i \in 1 .. count : u[i] = OneMore(u[i - 1], r)
      /\ ReadEach(cursor, count, r) = u[count]
  BY <1>u DEF ReadsOn
<1> DEFINE T == {n \in 0 .. count : u[n] = Read(upto(n), place[n])}
<1>2. 0 \in T
  <2>1. upto(0) = <<>> /\ 0 \in 0 .. count
    BY <1>0
  <2> HIDE DEF upto, count
  <2> QED  BY <1>1, <2>1
<1>3. ASSUME NEW n \in 0 .. count - 1, n \in T PROVE n + 1 \in T
  <2> DEFINE z == n + 1
             x == Read(upto(n), place[n])
  <2>1. z \in 1 .. count /\ z \in 0 .. count /\ z - 1 = n /\ n \in 0 .. count
        /\ n \in Nat
    BY <1>0
  <2>2. u[z] = OneMore(x, r)
    <3> HIDE DEF x, z, upto, count
    <3>1. u[n] = x
      BY <1>3 DEF x
    <3> QED  BY <1>1, <2>1, <3>1
  <2>3. r[place[n]] = Read(values[z], place[z])
    <3> HIDE DEF z
    <3> QED  BY <2>1
  <2>4. x.ok /\ x.cursor = place[n] /\ x.value = upto(n)
    BY ReadingParts
  <2> HIDE DEF x
  <2>5. OneMore(x, r) = Read(Append(upto(n), values[z]), place[z])
    <3> HIDE DEF upto, z
    <3> QED  BY <2>3, <2>4, ReadingParts DEF OneMore
  <2>6. Append(upto(n), values[z]) = upto(z)
    <3>1. upto(n) \in Seq(S) /\ Len(upto(n)) = n /\ values[z] \in S
      BY <1>0, <2>1
    <3>2. \A i \in 1 .. z : Append(upto(n), values[z])[i] = values[i]
      BY <2>1, <3>1
    <3>3. Append(upto(n), values[z]) \in Seq(S)
          /\ Len(Append(upto(n), values[z])) = z
      BY <3>1
    <3> DEFINE a == Append(upto(n), values[z])
    <3> HIDE DEF a, z, upto
    <3>4. a = [i \in 1 .. z |-> a[i]]
      BY <3>3 DEF a
    <3> QED  BY <3>2, <3>4 DEF a, upto
  <2> HIDE DEF upto, z
  <2>7. u[z] = Read(upto(z), place[z])
    BY <2>2, <2>5, <2>6
  <2> QED  BY <2>1, <2>7 DEF z
<1>4. 0 .. count \subseteq T
  <2> HIDE DEF T, count
  <2> QED  BY <1>0, <1>2, <1>3, IntervalInduction
<1>5. u[count] = Read(upto(count), place[count])
  <2>1. count \in 0 .. count
    BY <1>0
  <2> HIDE DEF upto, count
  <2> QED  BY <1>4, <2>1
<1>6. upto(count) = values
  OBVIOUS
<1> QED  BY <1>1, <1>5, <1>6

(* What is written are bytes. *)
LEMMA BytesWritten ==
  /\ \A n \in 0 .. Power[WordBits] - 1 : Word(n) \in Stream /\ Size(n) \in Stream
  /\ \A flag \in BOOLEAN : Bool(flag) \in Stream
  /\ \A v \in Value \cup {Default} : ValueBytes(v) \in Stream
  /\ \A id \in ID : IndexBytes(id) \in Stream
<1>0. /\ Byte \in Nat /\ Payload \in Nat /\ Payload >= 2 /\ Byte = 2 * Payload
      /\ 0 .. Byte - 1 \subseteq Symbol
  BY ByteValues DEF Symbol
<1>1. ASSUME NEW n \in 0 .. Power[WordBits] - 1
      PROVE  Word(n) \in Stream
  <2>1. n \in Nat /\ WordBytes \in Nat /\ ByteBits \in Nat \ {0}
        /\ ByteBits * WordBytes <= Widest
    <3>1. /\ ByteBits * WordBytes = WordBits /\ WordBits \in Nat
          /\ WordBits <= Widest /\ Widest \in Nat /\ WordBytes \in Nat
          /\ ByteBits \in Nat \ {0}
      BY Widths
    <3>2. Power[WordBits] \in Nat
      BY <3>1, PowerValues
    <3> QED  BY <3>1, <3>2
  <2>2. \A i \in 1 .. WordBytes : Digit(n, ByteBits, i) \in 0 .. Byte - 1
    BY <2>1, DigitRange DEF Byte
  <2>3. \A i \in 1 .. WordBytes : Digit(n, ByteBits, i) \in Symbol
    BY <1>0, <2>2
  <2> QED  BY <2>1, <2>3 DEF Word, Stream
<1>2. ASSUME NEW n \in 0 .. Power[WordBits] - 1
      PROVE  Size(n) \in Stream
  <2> DEFINE e == SizeCount(n)
  <2>1. /\ e \in 1 .. MaxSizeBytes
        /\ \A i \in 1 .. e : Digit(n, PayloadBits, i) \in 0 .. Payload - 1
    BY SizeDigits
  <2>2. Size(n) = [i \in 1 .. e |-> Digit(n, PayloadBits, i)
                                      + (IF i < e THEN Payload ELSE 0)]
    BY DEF Size, SizeCount
  <2> HIDE DEF e
  <2>3. e \in Nat
    BY <2>1
  <2>4. \A i \in 1 .. e : Digit(n, PayloadBits, i)
                            + (IF i < e THEN Payload ELSE 0) \in 0 .. Byte - 1
    BY <1>0, <2>1
  <2>5. \A i \in 1 .. e : Digit(n, PayloadBits, i)
                            + (IF i < e THEN Payload ELSE 0) \in Symbol
    BY <1>0, <2>4
  <2> QED  BY <2>2, <2>3, <2>5 DEF Stream
<1>3. ASSUME NEW flag \in BOOLEAN PROVE Bool(flag) \in Stream
  <2>1. (IF flag THEN 1 ELSE 0) \in Symbol
    BY <1>0
  <2> QED  BY <2>1 DEF Bool, Stream
<1>4. ASSUME NEW v \in Value \cup {Default} PROVE ValueBytes(v) \in Stream
  BY DEF ValueBytes, Stream, Symbol
<1>5. ASSUME NEW id \in ID PROVE IndexBytes(id) \in Stream
  <2>1. id - 1 \in 0 .. Power[WordBits] - 1
    BY Countable
  <2> QED  BY <1>1, <2>1 DEF IndexBytes
<1> QED  BY <1>1, <1>2, <1>3, <1>4, <1>5

(* A reader returns the values that pieces of the input were written for.  *)
Decodes(r, input, pieces, values) ==
  /\ Len(pieces) = Len(values)
  /\ \A i \in 1 .. Len(values) : \A at \in Nat :
       At(input, at, pieces[i]) => r[at] = Read(values[i], at + Len(pieces[i]))

(* Elements whose pieces stand behind a cursor are read together.          *)
LEMMA EachPiece ==
  ASSUME NEW input \in Stream, NEW cursor \in Nat, NEW pieces \in Seq(Stream),
         NEW S, NEW values \in Seq(S), NEW r \in Readers(S),
         At(input, cursor, FlattenSeq(pieces)),
         Decodes(r, input, pieces, values)
  PROVE  ReadEach(cursor, Len(values), r)
           = Read(values, cursor + Len(FlattenSeq(pieces)))
<1> DEFINE n == Len(values)
<1>1. PICK place : /\ Places(place, cursor, pieces)
                   /\ place[Len(pieces)] = cursor + Len(FlattenSeq(pieces))
                   /\ \A i \in 1 .. Len(pieces) :
                        At(input, place[i - 1], pieces[i])
  BY AtPieces
<1>2. n \in Nat /\ Len(pieces) = n
  BY DEF Decodes
<1>3. /\ place \in [0 .. n -> Nat] /\ place[0] = cursor
      /\ \A i \in 1 .. n : place[i] = place[i - 1] + Len(pieces[i])
  BY <1>1, <1>2 DEF Places
<1> HIDE DEF n
<1>4. ASSUME NEW i \in 1 .. n
      PROVE  r[place[i - 1]] = Read(values[i], place[i])
  <2>1. i - 1 \in 0 .. n
    BY <1>2
  <2>2. place[i - 1] \in Nat
    BY <1>3, <2>1
  <2>3. At(input, place[i - 1], pieces[i])
    BY <1>1, <1>2
  <2> QED  BY <1>2, <1>3, <2>2, <2>3 DEF Decodes, n
<1>5. ReadEach(cursor, Len(values), r) = Read(values, place[Len(values)])
  BY <1>3, <1>4, EachRead DEF n
<1> QED  BY <1>1, <1>2, <1>5 DEF n

(* A vector. *)
LEMMA VectorTyped ==
  ASSUME NEW input \in Stream, NEW cursor \in Nat, NEW S, NEW r \in Readers(S)
  PROVE  ReadVector(input, cursor, r) \in Readings(Seq(S))
<1> DEFINE size == ReadSize(input, cursor)
<1>1. size \in Readings(Nat)
  BY SizeRead
<1>2. ReadVector(input, cursor, r) =
        IF size.ok /\ size.value <= MaxElements
        THEN ReadEach(size.cursor, size.value, r) ELSE Refused
  BY DEF ReadVector
<1> HIDE DEF size
<1>3. CASE size.ok /\ size.value <= MaxElements
  <2>1. size.cursor \in Nat /\ size.value \in Nat
    BY <1>1, <1>3, ReadingCases
  <2>2. ReadEach(size.cursor, size.value, r) \in Readings(Seq(S))
    BY <2>1, EachTyped
  <2> QED  BY <1>2, <1>3, <2>2
<1>4. CASE ~ (size.ok /\ size.value <= MaxElements)
  BY <1>2, <1>4, ReadingMade
<1> QED  BY <1>3, <1>4

(* A vector that was accepted is read in the same way where more follows.  *)
LEMMA VectorAgrees ==
  ASSUME NEW input \in Stream, NEW cursor \in Nat, NEW S,
         NEW r \in Readers(S), NEW q \in Readers(S),
         \A n \in Nat : Agrees(r[n], q[n]),
         NEW longer, Continues(longer, input)
  PROVE  Agrees(ReadVector(input, cursor, r), ReadVector(longer, cursor, q))
<1> DEFINE size == ReadSize(input, cursor)
           other == ReadSize(longer, cursor)
<1>1. size \in Readings(Nat) /\ Agrees(size, other)
  BY SizeRead
<1>2. /\ ReadVector(input, cursor, r) =
           IF size.ok /\ size.value <= MaxElements
           THEN ReadEach(size.cursor, size.value, r) ELSE Refused
      /\ ReadVector(longer, cursor, q) =
           IF other.ok /\ other.value <= MaxElements
           THEN ReadEach(other.cursor, other.value, q) ELSE Refused
  BY DEF ReadVector
<1> HIDE DEF size, other
<1>3. CASE size.ok /\ size.value <= MaxElements
  <2>1. size.cursor \in Nat /\ size.value \in Nat /\ other = size
    BY <1>1, <1>3, ReadingCases DEF Agrees
  <2>2. Agrees(ReadEach(size.cursor, size.value, r),
               ReadEach(size.cursor, size.value, q))
    BY <2>1, EachAgrees
  <2> QED  BY <1>2, <1>3, <2>1, <2>2
<1>4. CASE ~ (size.ok /\ size.value <= MaxElements)
  BY <1>2, <1>4, ReadingParts DEF Agrees
<1> QED  BY <1>3, <1>4

(* A vector that was written is read as what it was written for.           *)
LEMMA VectorRead ==
  ASSUME NEW input \in Stream, NEW cursor \in Nat, NEW pieces \in Seq(Stream),
         NEW S, NEW values \in Seq(S), NEW r \in Readers(S),
         Len(values) <= MaxElements, At(input, cursor, Vector(pieces)),
         Decodes(r, input, pieces, values)
  PROVE  /\ ReadVector(input, cursor, r)
              = Read(values, cursor + Len(Vector(pieces)))
         /\ Vector(pieces) \in Stream
<1> DEFINE n == Len(values)
           head == Size(n)
           flat == FlattenSeq(pieces)
           start == cursor + Len(head)
<1>1. n \in Nat /\ Len(pieces) = n /\ n \in 0 .. Power[WordBits] - 1
  <2>1. n \in Nat /\ Len(pieces) = n
    BY DEF Decodes
  <2>2. n \in 0 .. MaxElements
    BY <2>1, Countable
  <2> QED  BY <2>1, <2>2, Countable
<1>2. Vector(pieces) = head \o flat
  BY <1>1 DEF Vector
<1>3. head \in Stream /\ flat \in Stream
  BY <1>1, BytesWritten, FlatParts
<1> HIDE DEF n, flat
<1>4. Len(head) \in Nat /\ Len(flat) \in Nat /\ head \o flat \in Stream
      /\ Len(head \o flat) = Len(head) + Len(flat)
  BY <1>3, Joining
<1>5. At(input, cursor, head) /\ At(input, cursor + Len(head), flat)
  BY <1>2, <1>3, AtBoth
<1>6. ReadSize(input, cursor) = Read(n, start)
  BY <1>1, <1>5, SizeRead
<1>7. start \in Nat /\ At(input, start, flat)
  BY <1>4, <1>5
<1> HIDE DEF start
<1>8. ReadEach(start, n, r) = Read(values, start + Len(flat))
  BY <1>7, EachPiece DEF n, flat
<1>9. ReadVector(input, cursor, r) = ReadEach(start, n, r)
  <2>1. n <= MaxElements
    BY DEF n
  <2> QED  BY <1>6, <2>1, ReadingParts DEF ReadVector
<1>10. start + Len(flat) = cursor + Len(Vector(pieces))
  BY <1>2, <1>4 DEF start
<1> QED  BY <1>2, <1>4, <1>8, <1>9, <1>10

-----------------------------------------------------------------------------
(***************************************************************************)
(* The bytes of a container.                                               *)
(***************************************************************************)

(* The component types in the order of the container's template.           *)
LEMMA TypesInOrder ==
  /\ Types \in Seq(Component) /\ Len(Types) \in Nat
  /\ DOMAIN Types = 1 .. Len(Types)
  /\ \A j \in 1 .. Len(Types) : Types[j] \in Component
  /\ \A t \in Component : \E j \in 1 .. Len(Types) : Types[j] = t
  /\ \A i, j \in 1 .. Len(Types) : Types[i] = Types[j] => i = j
<1>1. /\ Types \in Seq(Component) /\ IsInjective(Types)
      /\ Range(Types) = Component
  BY SetAsSequence, ComponentAssumption DEF Types
<1> HIDE DEF Types
<1>2. Len(Types) \in Nat /\ DOMAIN Types = 1 .. Len(Types)
      /\ \A j \in 1 .. Len(Types) : Types[j] \in Component
  BY <1>1
<1>3. \A t \in Component : \E j \in 1 .. Len(Types) : Types[j] = t
  BY <1>1, <1>2 DEF Range
<1>4. \A i, j \in 1 .. Len(Types) : Types[i] = Types[j] => i = j
  BY <1>1, <1>2 DEF IsInjective
<1> QED  BY <1>1, <1>2, <1>3, <1>4

(* What is read in that order is found by type. *)
LEMMA ReadByType ==
  ASSUME NEW S, NEW read \in Seq(S), Len(read) = Len(Types)
  PROVE  /\ ByType(read) \in [Component -> S]
         /\ \A f : /\ f = [t \in Component |-> f[t]]
                   /\ \A j \in 1 .. Len(Types) : read[j] = f[Types[j]]
                   => ByType(read) = f
<1> DEFINE n == Len(Types)
           place(t) == CHOOSE j \in DOMAIN Types : Types[j] = t
<1>1. n \in Nat /\ \A j \in 1 .. n : read[j] \in S
  BY TypesInOrder
<1>2. ASSUME NEW t \in Component
      PROVE  place(t) \in 1 .. n /\ Types[place(t)] = t
  BY TypesInOrder
<1>3. ByType(read) = [t \in Component |-> read[place(t)]]
  BY DEF ByType
<1> HIDE DEF place, n
<1>4. ByType(read) \in [Component -> S]
  BY <1>1, <1>2, <1>3
<1>5. ASSUME NEW f, f = [t \in Component |-> f[t]],
             \A j \in 1 .. n : read[j] = f[Types[j]]
      PROVE  ByType(read) = f
  <2>1. \A t \in Component : read[place(t)] = f[t]
    BY <1>2, <1>5
  <2>2. ByType(read) = [t \in Component |-> f[t]]
    BY <1>3, <2>1
  <2> QED  BY <1>5, <2>2
<1> QED  BY <1>4, <1>5 DEF n

(* Readers of one integer of fixed width, of an identifier, of a value.    *)
LEMMA ReadersOfOne ==
  ASSUME NEW input \in Stream
  PROVE  /\ [at \in Nat |-> ReadWord(input, at)] \in Readers(Nat)
         /\ [at \in Nat |-> ReadIndex(input, at)] \in Readers(Nat)
         /\ [at \in Nat |-> ReadValue(input, at)]
              \in Readers(Value \cup {Default})
         /\ \A longer : Continues(longer, input) => \A n \in Nat :
              /\ Agrees(ReadWord(input, n), ReadWord(longer, n))
              /\ Agrees(ReadIndex(input, n), ReadIndex(longer, n))
              /\ Agrees(ReadValue(input, n), ReadValue(longer, n))
<1>1. \A n \in Nat : /\ ReadWord(input, n) \in Readings(Nat)
                     /\ ReadIndex(input, n) \in Readings(Nat)
                     /\ ReadValue(input, n) \in Readings(Value \cup {Default})
  BY WordRead, IndexRead, EnumRead DEF ReadValue
<1>2. ASSUME NEW longer, Continues(longer, input), NEW n \in Nat
      PROVE  /\ Agrees(ReadWord(input, n), ReadWord(longer, n))
             /\ Agrees(ReadIndex(input, n), ReadIndex(longer, n))
             /\ Agrees(ReadValue(input, n), ReadValue(longer, n))
  BY <1>2, WordRead, IndexRead, EnumRead DEF ReadValue
<1> QED  BY <1>1, <1>2 DEF Readers

(* The slot of an entity. *)
LEMMA SlotRead ==
  ASSUME NEW input \in Stream, NEW cursor \in Nat
  PROVE  /\ ReadSlot(input, cursor) \in Readings([Component -> Nat])
         /\ \A longer : Continues(longer, input) =>
              Agrees(ReadSlot(input, cursor), ReadSlot(longer, cursor))
<1> DEFINE n == Len(Types)
           words(s) == [at \in Nat |-> ReadWord(s, at)]
           places(s) == ReadEach(cursor, n, words(s))
<1>1. n \in Nat
  BY TypesInOrder
<1>2. \A s : ReadSlot(s, cursor) =
        IF places(s).ok THEN Read(ByType(places(s).value), places(s).cursor)
        ELSE Refused
  BY DEF ReadSlot
<1>3. words(input) \in Readers(Nat)
  BY ReadersOfOne
<1> HIDE DEF n, words
<1>4. /\ places(input) \in Readings(Seq(Nat))
      /\ places(input).ok => Len(places(input).value) = n
  BY <1>1, <1>3, EachTyped
<1>5. ASSUME NEW longer, Continues(longer, input)
      PROVE  Agrees(places(input), places(longer))
  <2>1. longer \in Stream
    BY <1>5 DEF Continues
  <2>2. words(longer) \in Readers(Nat)
    BY <2>1, ReadersOfOne DEF words
  <2>3. \A i \in Nat : Agrees(words(input)[i], words(longer)[i])
    BY <1>5, ReadersOfOne DEF words
  <2> QED  BY <1>1, <1>3, <2>2, <2>3, EachAgrees
<1> HIDE DEF places
<1>6. ReadSlot(input, cursor) \in Readings([Component -> Nat])
  <2>1. CASE places(input).ok
    <3>1. /\ places(input).value \in Seq(Nat)
          /\ Len(places(input).value) = Len(Types)
          /\ places(input).cursor \in Nat
      BY <1>4, <2>1, ReadingCases DEF n
    <3>2. ByType(places(input).value) \in [Component -> Nat]
      BY <3>1, ReadByType
    <3> QED  BY <1>2, <2>1, <3>1, <3>2, ReadingMade
  <2>2. CASE ~ places(input).ok
    BY <1>2, <2>2, ReadingMade
  <2> QED  BY <2>1, <2>2
<1>7. ASSUME NEW longer, Continues(longer, input)
      PROVE  Agrees(ReadSlot(input, cursor), ReadSlot(longer, cursor))
  <2>1. CASE places(input).ok
    <3>1. places(longer) = places(input)
      BY <1>5, <1>7, <2>1 DEF Agrees
    <3> QED  BY <1>2, <3>1 DEF Agrees
  <2>2. CASE ~ places(input).ok
    BY <1>2, <2>2, ReadingParts DEF Agrees
  <2> QED  BY <2>1, <2>2
<1> QED  BY <1>6, <1>7

(* A slot that was written is read as that slot. *)
LEMMA SlotWritten ==
  ASSUME NEW slot \in [Component -> 0 .. MaxElements]
  PROVE  /\ SlotBytes(slot) \in Stream
         /\ \A input \in Stream, cursor \in Nat :
              At(input, cursor, SlotBytes(slot)) =>
                ReadSlot(input, cursor)
                  = Read(slot, cursor + Len(SlotBytes(slot)))
<1> DEFINE n == Len(Types)
           pieces == [j \in DOMAIN Types |-> Word(slot[Types[j]])]
           values == [j \in 1 .. n |-> slot[Types[j]]]
<1>0. n \in Nat /\ DOMAIN Types = 1 .. n /\ SlotBytes(slot) = FlattenSeq(pieces)
      /\ \A j \in 1 .. n : slot[Types[j]] \in 0 .. Power[WordBits] - 1
                           /\ slot[Types[j]] \in Nat
  <2>1. \A j \in 1 .. n : slot[Types[j]] \in 0 .. MaxElements
    BY TypesInOrder
  <2> QED  BY <2>1, TypesInOrder, Countable DEF SlotBytes
<1>1. pieces \in Seq(Stream) /\ Len(pieces) = n /\ values \in Seq(Nat)
      /\ Len(values) = n
  <2>1. \A j \in 1 .. n : Word(slot[Types[j]]) \in Stream
    BY <1>0, BytesWritten
  <2> HIDE DEF n
  <2> QED  BY <1>0, <2>1
<1>2. SlotBytes(slot) \in Stream
  BY <1>0, <1>1, FlatParts
<1>3. ASSUME NEW input \in Stream, NEW cursor \in Nat,
             At(input, cursor, SlotBytes(slot))
      PROVE  ReadSlot(input, cursor) = Read(slot, cursor + Len(SlotBytes(slot)))
  <2> DEFINE words == [at \in Nat |-> ReadWord(input, at)]
  <2>1. Decodes(words, input, pieces, values)
    <3>1. ASSUME NEW i \in 1 .. n, NEW at \in Nat, At(input, at, pieces[i])
          PROVE  words[at] = Read(values[i], at + Len(pieces[i]))
      <4> DEFINE w == slot[Types[i]]
      <4>1. pieces[i] = Word(w) /\ values[i] = w /\ w \in 0 .. Power[WordBits] - 1
        BY <1>0
      <4> HIDE DEF w
      <4>2. ReadWord(input, at) = Read(w, at + WordBytes)
        <5>1. At(input, at, Word(w))
          BY <3>1, <4>1
        <5> QED  BY <4>1, <5>1, WordRead
      <4>3. Len(Word(w)) = WordBytes
        <5>1. WordBytes \in Nat
          BY Widths
        <5> QED  BY <5>1 DEF Word
      <4> QED  BY <4>1, <4>2, <4>3
    <3> QED  BY <1>1, <3>1 DEF Decodes
  <2>2. words \in Readers(Nat)
    BY ReadersOfOne
  <2> DEFINE end == cursor + Len(SlotBytes(slot))
  <2>3. ReadEach(cursor, n, words) = Read(values, end)
    <3> HIDE DEF pieces, values, words, n
    <3> QED  BY <1>0, <1>1, <1>3, <2>1, <2>2, EachPiece
  <2>4. ByType(values) = slot
    <3>1. slot = [t \in Component |-> slot[t]]
          /\ \A j \in 1 .. n : values[j] = slot[Types[j]]
      OBVIOUS
    <3> HIDE DEF values
    <3> QED  BY <1>1, <3>1, ReadByType
  <2> HIDE DEF values
  <2> QED  BY <2>3, <2>4, ReadingParts DEF ReadSlot
<1> QED  BY <1>2, <1>3

(* An element of a storage as it may be read. *)
Element == [value : Value \cup {Default}, owner : Nat]

(* What two vectors of one length make together. *)
Paired(values, owners) ==
  [k \in 1 .. Len(values.value) - 1 |->
     [value |-> values.value[k + 1], owner |-> owners.value[k + 1]]]

Whence(values, owners) ==
  /\ values.ok /\ owners.ok
  /\ values.value # <<>> /\ Len(values.value) = Len(owners.value)

(* The storage of a component type. *)
LEMMA StorageRead ==
  ASSUME NEW input \in Stream, NEW cursor \in Nat
  PROVE  /\ ReadStorage(input, cursor) \in Readings(Seq(Element))
         /\ \A longer : Continues(longer, input) =>
              Agrees(ReadStorage(input, cursor), ReadStorage(longer, cursor))
<1> DEFINE R(s) == [at \in Nat |-> ReadValue(s, at)]
           Q(s) == [at \in Nat |-> ReadIndex(s, at)]
           values(s) == ReadVector(s, cursor, R(s))
           owners(s) == ReadVector(s, values(s).cursor, Q(s))
<1>1. \A s : ReadStorage(s, cursor) =
        IF Whence(values(s), owners(s))
        THEN Read(Paired(values(s), owners(s)), owners(s).cursor) ELSE Refused
  BY DEF ReadStorage, StorageOf, Whence, Paired
<1>2. R(input) \in Readers(Value \cup {Default}) /\ Q(input) \in Readers(Nat)
  BY ReadersOfOne
<1>3. ASSUME NEW longer, Continues(longer, input)
      PROVE  /\ longer \in Stream
             /\ R(longer) \in Readers(Value \cup {Default})
             /\ Q(longer) \in Readers(Nat)
             /\ \A n \in Nat : /\ Agrees(R(input)[n], R(longer)[n])
                               /\ Agrees(Q(input)[n], Q(longer)[n])
  <2>1. longer \in Stream
    BY <1>3 DEF Continues
  <2> QED  BY <1>3, <2>1, ReadersOfOne
<1> HIDE DEF R, Q
<1>4. values(input) \in Readings(Seq(Value \cup {Default}))
  BY <1>2, VectorTyped
<1>5. ASSUME NEW longer, Continues(longer, input)
      PROVE  Agrees(values(input), values(longer))
  BY <1>2, <1>3, <1>5, VectorAgrees
<1>6. ASSUME values(input).ok
      PROVE  /\ values(input).value \in Seq(Value \cup {Default})
             /\ owners(input) \in Readings(Seq(Nat))
             /\ \A longer : Continues(longer, input) =>
                  Agrees(ReadVector(input, values(input).cursor, Q(input)),
                         ReadVector(longer, values(input).cursor, Q(longer)))
  <2>1. values(input).cursor \in Nat
        /\ values(input).value \in Seq(Value \cup {Default})
    BY <1>4, <1>6, ReadingCases
  <2> DEFINE at == values(input).cursor
  <2> HIDE DEF at
  <2>2. at \in Nat
    BY <2>1 DEF at
  <2>3. ReadVector(input, at, Q(input)) \in Readings(Seq(Nat))
    BY <1>2, <2>2, VectorTyped
  <2>4. \A longer : Continues(longer, input) =>
          Agrees(ReadVector(input, at, Q(input)), ReadVector(longer, at, Q(longer)))
    BY <1>2, <1>3, <2>2, VectorAgrees
  <2> QED  BY <2>1, <2>3, <2>4 DEF at
<1> HIDE DEF values
<1>7. ASSUME NEW longer, Continues(longer, input),
             Whence(values(input), owners(input))
      PROVE  values(longer) = values(input) /\ owners(longer) = owners(input)
  <2>1. values(longer) = values(input)
    BY <1>5, <1>7 DEF Agrees, Whence
  <2> QED  BY <1>6, <1>7, <2>1 DEF Agrees, Whence
<1>8. ReadStorage(input, cursor) \in Readings(Seq(Element))
  <2>1. CASE Whence(values(input), owners(input))
    <3> DEFINE v == values(input)
               o == owners(input)
               n == Len(v.value) - 1
               s == Paired(v, o)
    <3>1. /\ v.value \in Seq(Value \cup {Default}) /\ v.value # <<>>
          /\ o \in Readings(Seq(Nat)) /\ o.ok /\ Len(o.value) = Len(v.value)
      BY <1>6, <2>1 DEF Whence
    <3>2. o.value \in Seq(Nat) /\ o.cursor \in Nat
      BY <3>1, ReadingCases
    <3> HIDE DEF v, o
    <3>3. n \in Nat /\ \A k \in 1 .. n : /\ v.value[k + 1] \in Value \cup {Default}
                                         /\ o.value[k + 1] \in Nat
      BY <3>1, <3>2
    <3>4. s = [k \in 1 .. n |-> [value |-> v.value[k + 1], owner |-> o.value[k + 1]]]
      BY DEF Paired
    <3> HIDE DEF n, s
    <3>5. s \in Seq(Element)
      BY <3>3, <3>4 DEF Element
    <3>6. Read(s, o.cursor) \in Readings(Seq(Element))
      BY <3>2, <3>5, ReadingMade
    <3> QED  BY <1>1, <2>1, <3>6 DEF s, v, o
  <2>2. CASE ~ Whence(values(input), owners(input))
    BY <1>1, <2>2, ReadingMade
  <2> QED  BY <2>1, <2>2
<1>9. ASSUME NEW longer, Continues(longer, input)
      PROVE  Agrees(ReadStorage(input, cursor), ReadStorage(longer, cursor))
  <2>1. CASE Whence(values(input), owners(input))
    <3>1. values(longer) = values(input) /\ owners(longer) = owners(input)
      BY <1>7, <1>9, <2>1
    <3> HIDE DEF owners
    <3> QED  BY <1>1, <3>1 DEF Agrees
  <2>2. CASE ~ Whence(values(input), owners(input))
    BY <1>1, <2>2, ReadingParts DEF Agrees
  <2> QED  BY <2>1, <2>2
<1> QED  BY <1>8, <1>9

(* A storage that was written is read as that storage. *)
LEMMA StorageWritten ==
  ASSUME NEW storage \in Seq(Dense), Len(storage) <= MaxSlots
  PROVE  /\ StorageBytes(storage) \in Stream
         /\ \A input \in Stream, cursor \in Nat :
              At(input, cursor, StorageBytes(storage)) =>
                ReadStorage(input, cursor)
                  = Read(storage, cursor + Len(StorageBytes(storage)))
<1> DEFINE n == Len(storage)
           values == [k \in DOMAIN storage |-> ValueBytes(storage[k].value)]
           owners == [k \in DOMAIN storage |-> IndexBytes(storage[k].owner)]
           P == <<ValueBytes(Default)>> \o values
           Q == <<Word(0)>> \o owners
           V == <<Default>> \o [k \in 1 .. n |-> storage[k].value]
           O == <<1>> \o [k \in 1 .. n |-> storage[k].owner]
           a == Vector(P)
           b == Vector(Q)
<1>1. /\ n \in Nat /\ DOMAIN storage = 1 .. n /\ n + 1 <= MaxElements
      /\ \A k \in 1 .. n : storage[k].value \in Value /\ storage[k].owner \in ID
  <2>1. n \in Nat /\ DOMAIN storage = 1 .. n
        /\ \A k \in 1 .. n : storage[k] \in Dense
    OBVIOUS
  <2>2. n + 1 <= MaxElements
    BY <2>1, Countable, SlotsAssumption
  <2> QED  BY <2>1, <2>2 DEF Dense
<1>2. StorageBytes(storage) = a \o b
  BY DEF StorageBytes
<1>3. /\ values \in Seq(Stream) /\ owners \in Seq(Stream)
      /\ Len(values) = n /\ Len(owners) = n
      /\ ValueBytes(Default) \in Stream /\ Word(0) \in Stream
      /\ \A k \in 1 .. n : /\ values[k] = ValueBytes(storage[k].value)
                           /\ owners[k] = IndexBytes(storage[k].owner)
  <2>1. \A k \in 1 .. n : /\ ValueBytes(storage[k].value) \in Stream
                          /\ IndexBytes(storage[k].owner) \in Stream
    BY <1>1, BytesWritten
  <2>2. ValueBytes(Default) \in Stream /\ Word(0) \in Stream
    <3>1. 0 \in 0 .. Power[WordBits] - 1
      BY Countable
    <3> QED  BY <3>1, BytesWritten
  <2> HIDE DEF n
  <2> QED  BY <1>1, <2>1, <2>2
<1> HIDE DEF values, owners, n
<1>4. /\ P \in Seq(Stream) /\ Len(P) = n + 1 /\ P[1] = ValueBytes(Default)
      /\ Q \in Seq(Stream) /\ Len(Q) = n + 1 /\ Q[1] = Word(0)
      /\ \A k \in 1 .. n : /\ P[k + 1] = ValueBytes(storage[k].value)
                           /\ Q[k + 1] = IndexBytes(storage[k].owner)
  BY <1>1, <1>3
<1>5. /\ V \in Seq(Value \cup {Default}) /\ Len(V) = n + 1 /\ V[1] = Default
      /\ O \in Seq(Nat) /\ Len(O) = n + 1 /\ O[1] = 1
      /\ \A k \in 1 .. n : /\ V[k + 1] = storage[k].value
                           /\ O[k + 1] = storage[k].owner
  <2> DEFINE vs == [k \in 1 .. n |-> storage[k].value]
             os == [k \in 1 .. n |-> storage[k].owner]
  <2>1. /\ vs \in Seq(Value) /\ os \in Seq(ID) /\ Len(vs) = n /\ Len(os) = n
        /\ \A k \in 1 .. n : vs[k] = storage[k].value /\ os[k] = storage[k].owner
    BY <1>1
  <2> HIDE DEF vs, os
  <2>2. vs \in Seq(Value \cup {Default}) /\ os \in Seq(Nat)
    BY <1>1, <2>1 DEF ID
  <2>3. V = <<Default>> \o vs /\ O = <<1>> \o os
    BY DEF vs, os
  <2> HIDE DEF V, O
  <2> QED  BY <1>1, <2>1, <2>2, <2>3
<1> HIDE DEF P, Q, V, O
<1>6. ASSUME NEW input \in Stream
      PROVE  Decodes([at \in Nat |-> ReadValue(input, at)], input, P, V)
  <2> DEFINE r == [at \in Nat |-> ReadValue(input, at)]
  <2>1. ASSUME NEW i \in 1 .. n + 1, NEW at \in Nat, At(input, at, P[i])
        PROVE  r[at] = Read(V[i], at + Len(P[i]))
    <3>1. P[i] = <<V[i]>> /\ V[i] \in Value \cup {Default}
      <4>1. CASE i = 1
        BY <1>4, <1>5, <4>1 DEF ValueBytes
      <4>2. CASE i # 1
        <5> DEFINE k == i - 1
        <5>1. k \in 1 .. n /\ k + 1 = i
          BY <1>1, <4>2
        <5> HIDE DEF k
        <5> QED  BY <1>1, <1>4, <1>5, <5>1 DEF ValueBytes
      <4> QED  BY <4>1, <4>2
    <3>2. Len(P[i]) = 1
      BY <3>1
    <3> DEFINE w == V[i]
               valid == Value \cup {Default}
    <3>3. w \in valid /\ At(input, at, <<w>>)
      BY <2>1, <3>1
    <3> HIDE DEF w, valid
    <3>4. ReadEnum(input, at, valid) = Read(w, at + 1)
      BY <3>3, EnumRead
    <3> QED  BY <3>2, <3>4 DEF ReadValue, w, valid
  <2> HIDE DEF r
  <2> QED  BY <1>4, <1>5, <2>1 DEF Decodes, r
<1>7. ASSUME NEW input \in Stream
      PROVE  Decodes([at \in Nat |-> ReadIndex(input, at)], input, Q, O)
  <2> DEFINE r == [at \in Nat |-> ReadIndex(input, at)]
  <2>0. /\ 1 \in ID \/ n = 0
        /\ IndexBytes(1) = Word(0)
        /\ \A id \in ID : Len(IndexBytes(id)) = WordBytes
        /\ Len(Word(0)) = WordBytes
    <3>1. n # 0 => 1 \in ID
      <4>1. n # 0 => 1 \in 1 .. n
        BY <1>1
      <4>2. \A id \in ID : 1 \in ID
        BY SlotsAssumption DEF ID
      <4> QED  BY <1>1, <4>1, <4>2
    <3>2. \A m : Len(Word(m)) = WordBytes
      <4>1. WordBytes \in Nat
        BY Widths
      <4> QED  BY <4>1 DEF Word
    <3> QED  BY <3>1, <3>2 DEF IndexBytes
  <2>1. ASSUME NEW i \in 1 .. n + 1, NEW at \in Nat, At(input, at, Q[i])
        PROVE  r[at] = Read(O[i], at + Len(Q[i]))
    <3>1. CASE i = 1
      <4> DEFINE zero == 0
      <4>1. zero \in 0 .. Power[WordBits] - 1 /\ zero + 1 = 1
        BY Countable
      <4>2. Q[i] = Word(zero) /\ O[i] = 1 /\ Len(Q[i]) = WordBytes
        BY <1>4, <1>5, <2>0, <3>1
      <4> HIDE DEF zero
      <4>3. ReadWord(input, at) = Read(zero, at + WordBytes)
        BY <2>1, <4>1, <4>2, WordRead
      <4>4. ReadIndex(input, at) = Read(zero + 1, at + WordBytes)
        BY <4>3, ReadingParts DEF ReadIndex
      <4> QED  BY <4>1, <4>2, <4>4
    <3>2. CASE i # 1
      <4> DEFINE k == i - 1
      <4>1. k \in 1 .. n /\ k + 1 = i
        BY <1>1, <3>2
      <4> HIDE DEF k
      <4>2. /\ Q[i] = IndexBytes(storage[k].owner) /\ O[i] = storage[k].owner
            /\ storage[k].owner \in ID
        BY <1>1, <1>4, <1>5, <4>1
      <4>3. ReadIndex(input, at) = Read(O[i], at + WordBytes)
        BY <2>1, <4>2, IndexRead
      <4> QED  BY <2>0, <4>2, <4>3
    <3> QED  BY <3>1, <3>2
  <2> HIDE DEF r
  <2> QED  BY <1>4, <1>5, <2>1 DEF Decodes, r
<1>8. a \in Stream /\ b \in Stream
  <2> DEFINE p == FlattenSeq(P)
             q == FlattenSeq(Q)
  <2>1. p \in Stream /\ q \in Stream
    BY <1>4, FlatParts
  <2>2. n + 1 \in 0 .. Power[WordBits] - 1
    BY <1>1, Countable
  <2>3. Size(n + 1) \in Stream
    BY <2>2, BytesWritten
  <2> HIDE DEF p, q
  <2>4. a = Size(n + 1) \o p /\ b = Size(n + 1) \o q
    BY <1>4 DEF Vector, p, q
  <2> QED  BY <2>1, <2>3, <2>4, Joining
<1>9. ASSUME NEW input \in Stream, NEW cursor \in Nat,
             At(input, cursor, StorageBytes(storage))
      PROVE  ReadStorage(input, cursor)
               = Read(storage, cursor + Len(StorageBytes(storage)))
  <2> DEFINE r == [at \in Nat |-> ReadValue(input, at)]
             q == [at \in Nat |-> ReadIndex(input, at)]
             mid == cursor + Len(a)
             end == mid + Len(b)
             v == ReadVector(input, cursor, r)
             o == ReadVector(input, v.cursor, q)
  <2>1. /\ r \in Readers(Value \cup {Default}) /\ q \in Readers(Nat)
        /\ Decodes(r, input, P, V) /\ Decodes(q, input, Q, O)
    BY <1>6, <1>7, ReadersOfOne
  <2>2. /\ At(input, cursor, a) /\ At(input, mid, b) /\ mid \in Nat
        /\ end = cursor + Len(StorageBytes(storage))
    <3> HIDE DEF a, b
    <3>1. Len(a) \in Nat /\ Len(b) \in Nat /\ Len(a \o b) = Len(a) + Len(b)
      BY <1>8, Joining
    <3>2. At(input, cursor, a) /\ At(input, cursor + Len(a), b)
      BY <1>2, <1>8, <1>9, AtBoth
    <3> QED  BY <1>2, <3>1, <3>2
  <2>3. Len(V) <= MaxElements /\ Len(O) <= MaxElements
    BY <1>1, <1>5
  <2> HIDE DEF r, q
  <2>4. v = Read(V, mid)
    BY <1>4, <1>5, <2>1, <2>2, <2>3, VectorRead
  <2> HIDE DEF mid
  <2>5. v.ok /\ v.value = V /\ v.cursor = mid
    BY <2>4, ReadingParts
  <2>6. ReadVector(input, mid, q) = Read(O, end)
    BY <1>4, <1>5, <2>1, <2>2, <2>3, VectorRead
  <2> HIDE DEF v, end
  <2>7. o = Read(O, end) /\ o.ok /\ o.value = O /\ o.cursor = end
    BY <2>5, <2>6, ReadingParts
  <2> HIDE DEF o
  <2>8. Whence(v, o)
    BY <1>1, <1>5, <2>5, <2>7 DEF Whence
  <2>9. Paired(v, o) = storage
    <3>1. Paired(v, o) = [k \in 1 .. Len(V) - 1 |->
                            [value |-> V[k + 1], owner |-> O[k + 1]]]
      BY <2>5, <2>7 DEF Paired
    <3>2. Len(V) - 1 = n
      BY <1>1, <1>5
    <3>3. \A k \in 1 .. n : storage[k] = [value |-> storage[k].value,
                                          owner |-> storage[k].owner]
      <4>1. \A k \in 1 .. n : storage[k] \in Dense
        BY DEF n
      <4> QED  BY <4>1 DEF Dense
    <3>4. storage = [k \in 1 .. n |-> storage[k]]
      BY DEF n
    <3>5. \A k \in 1 .. n : [value |-> V[k + 1], owner |-> O[k + 1]] = storage[k]
      BY <1>5, <3>3
    <3> QED  BY <3>1, <3>2, <3>4, <3>5
  <2>10. ReadStorage(input, cursor) = Read(Paired(v, o), o.cursor)
    BY <2>8 DEF ReadStorage, StorageOf, Whence, Paired, v, o, r, q
  <2> QED  BY <2>2, <2>7, <2>9, <2>10
<1> QED  BY <1>2, <1>8, <1>9, Joining

(* A sequence of distinct numbers is no longer than their range.           *)
LEMMA DistinctFit ==
  ASSUME NEW m \in Nat, NEW f, NEW n \in Nat, f \in [1 .. n -> 1 .. m],
         \A i, j \in 1 .. n : f[i] = f[j] => i = j
  PROVE  n <= m
<1>1. f \in Injection(1 .. n, 1 .. m)
  BY DEF Injection, IsInjective
<1>2. IsFiniteSet(1 .. n) /\ Cardinality(1 .. n) = n
      /\ IsFiniteSet(1 .. m) /\ Cardinality(1 .. m) = m
  BY FS_Interval
<1>3. Cardinality(1 .. n) <= Cardinality(1 .. m)
  <2> DEFINE S == 1 .. n
             T == 1 .. m
  <2>1. f \in Injection(S, T) /\ IsFiniteSet(T)
    BY <1>1, <1>2
  <2> HIDE DEF S, T
  <2>2. Cardinality(S) <= Cardinality(T)
    BY <2>1, FS_Injection
  <2> QED  BY <2>2 DEF S, T
<1> QED  BY <1>2, <1>3

(* A sound container has few slots, free identifiers and components.       *)
LEMMA SoundSizes ==
  ASSUME NEW c, Sound(c)
  PROVE  /\ c = [slots |-> c.slots, free |-> c.free, dense |-> c.dense]
         /\ c.slots \in Seq([Component -> 0 .. MaxElements])
         /\ Len(c.slots) <= MaxElements
         /\ c.free \in Seq(ID) /\ Len(c.free) <= MaxElements
         /\ c.dense \in [Component -> Seq(Dense)]
         /\ \A t \in Component : Len(c.dense[t]) <= MaxSlots
<1>1. Typed(c.slots, c.free, c.dense) /\ Linked(c.slots, c.free, c.dense)
      /\ c \in Container
  BY SoundParts DEF Sound, ContainerOK
<1> DEFINE s == c.slots
           f == c.free
           d == c.dense
<1> HIDE DEF s, f, d
<1>2. /\ s \in Seq([Component -> Nat]) /\ Len(s) <= MaxSlots /\ f \in Seq(ID)
      /\ d \in [Component -> Seq(Dense)]
      /\ FreeSound(s, f)
      /\ \A t \in Component : OwnersSound(s, f, d[t], t) /\ PlacesSound(s, d[t], t)
  BY <1>1 DEF Typed, Linked, s, f, d
<1>3. MaxSlots \in Nat /\ MaxElements \in Nat /\ MaxSlots < MaxElements
  BY Countable, SlotsAssumption
<1>4. Len(f) <= MaxSlots
  <2> DEFINE n == Len(f)
  <2>0. n \in Nat /\ f \in [1 .. n -> ID]
    BY <1>2
  <2>1. f \in [1 .. n -> 1 .. MaxSlots]
    BY <2>0 DEF ID
  <2>2. \A i, j \in 1 .. n : f[i] = f[j] => i = j
    BY <1>2 DEF FreeSound
  <2> HIDE DEF n
  <2>3. n <= MaxSlots
    BY <1>3, <2>0, <2>1, <2>2, DistinctFit
  <2> QED  BY <2>3 DEF n
<1>5. ASSUME NEW t \in Component PROVE Len(d[t]) <= MaxSlots
  <2> DEFINE D == d[t]
             n == Len(D)
             g == [k \in 1 .. n |-> D[k].owner]
  <2>1. D \in Seq(Dense) /\ OwnersSound(s, f, D, t)
    BY <1>2
  <2> HIDE DEF D
  <2>2. n \in Nat /\ \A k \in 1 .. n : D[k].owner \in 1 .. MaxSlots
    <3>1. n \in Nat /\ \A k \in 1 .. n : D[k] \in Dense
      BY <2>1
    <3> QED  BY <3>1 DEF Dense, ID
  <2>3. \A k \in 1 .. n : s[D[k].owner][t] = k
    BY <2>1 DEF OwnersSound
  <2> HIDE DEF n
  <2>4. g \in [1 .. n -> 1 .. MaxSlots] /\ \A i, j \in 1 .. n : g[i] = g[j] => i = j
    BY <2>2, <2>3
  <2> HIDE DEF g
  <2>5. n <= MaxSlots
    BY <1>3, <2>2, <2>4, DistinctFit
  <2> QED  BY <2>5 DEF n, D
<1>6. s \in Seq([Component -> 0 .. MaxElements])
  <2>0. Len(s) \in Nat /\ s = [i \in 1 .. Len(s) |-> s[i]]
    BY <1>2
  <2>1. ASSUME NEW i \in 1 .. Len(s)
        PROVE  s[i] \in [Component -> 0 .. MaxElements]
    <3>1. s[i] \in [Component -> Nat]
      BY <1>2
    <3>2. ASSUME NEW t \in Component PROVE s[i][t] \in 0 .. MaxElements
      <4>1. s[i][t] \in Nat /\ d[t] \in Seq(Dense) /\ Len(d[t]) \in Nat
        BY <1>2, <3>1
      <4>2. s[i][t] # 0 => s[i][t] <= Len(d[t])
        BY <1>2, <4>1 DEF PlacesSound
      <4> QED  BY <1>3, <1>5, <4>1, <4>2
    <3> DEFINE slot == s[i]
    <3>3. slot \in [Component -> Nat]
          /\ \A t \in Component : slot[t] \in 0 .. MaxElements
      BY <3>1, <3>2
    <3> HIDE DEF slot
    <3>4. slot \in [Component -> 0 .. MaxElements]
      BY <3>3
    <3> QED  BY <3>4 DEF slot
  <2> DEFINE n == Len(s)
  <2> HIDE DEF n
  <2>2. n \in Nat /\ s = [i \in 1 .. n |-> s[i]]
        /\ \A i \in 1 .. n : s[i] \in [Component -> 0 .. MaxElements]
    BY <2>0, <2>1 DEF n
  <2> QED  BY <2>2
<1>7. c = [slots |-> s, free |-> f, dense |-> d]
  BY <1>1 DEF Container, s, f, d
<1>8. Len(s) \in Nat /\ Len(f) \in Nat
  BY <1>2
<1> QED  BY <1>2, <1>3, <1>4, <1>5, <1>6, <1>7, <1>8 DEF s, f, d

(* The storages of all component types. *)
ReadStorages(input, cursor) ==
  ReadEach(cursor, Len(Types), [at \in Nat |-> ReadStorage(input, at)])

StoragesBytes(dense) ==
  FlattenSeq([j \in DOMAIN Types |-> StorageBytes(dense[Types[j]])])

(* They are read as a storage for each type, or not at all. *)
LEMMA StoragesRead ==
  ASSUME NEW input \in Stream, NEW cursor \in Nat
  PROVE  /\ ReadStorages(input, cursor) \in Readings(Seq(Seq(Element)))
         /\ ReadStorages(input, cursor).ok =>
              ByType(ReadStorages(input, cursor).value)
                \in [Component -> Seq(Element)]
         /\ \A longer : Continues(longer, input) =>
              Agrees(ReadStorages(input, cursor), ReadStorages(longer, cursor))
<1> DEFINE n == Len(Types)
           r(s) == [at \in Nat |-> ReadStorage(s, at)]
           S == Seq(Element)
<1>1. n \in Nat
  BY TypesInOrder
<1>2. ASSUME NEW s \in Stream PROVE r(s) \in Readers(S)
  BY StorageRead DEF Readers
<1>3. ASSUME NEW longer, Continues(longer, input)
      PROVE  longer \in Stream /\ \A i \in Nat : Agrees(r(input)[i], r(longer)[i])
  BY <1>3, StorageRead DEF Continues
<1>4. \A s : ReadStorages(s, cursor) = ReadEach(cursor, n, r(s))
  BY DEF ReadStorages
<1> HIDE DEF n, r, S
<1> DEFINE x == ReadStorages(input, cursor)
<1>5. x \in Readings(Seq(S)) /\ (x.ok => Len(x.value) = n)
  BY <1>1, <1>2, <1>4, EachTyped
<1>6. ASSUME NEW longer, Continues(longer, input)
      PROVE  Agrees(x, ReadStorages(longer, cursor))
  BY <1>1, <1>2, <1>3, <1>4, <1>6, EachAgrees
<1> HIDE DEF x
<1>7. x.ok => ByType(x.value) \in [Component -> S]
  BY <1>5, ReadingCases, ReadByType DEF n
<1> QED  BY <1>5, <1>6, <1>7 DEF x, S

(* Storages that were written are read as those storages. *)
LEMMA StoragesWritten ==
  ASSUME NEW dense \in [Component -> Seq(Dense)],
         \A t \in Component : Len(dense[t]) <= MaxSlots
  PROVE  /\ StoragesBytes(dense) \in Stream
         /\ \A input \in Stream, cursor \in Nat :
              At(input, cursor, StoragesBytes(dense)) =>
                \E value : /\ ByType(value) = dense
                           /\ ReadStorages(input, cursor)
                                = Read(value, cursor + Len(StoragesBytes(dense)))
<1> DEFINE n == Len(Types)
           pieces == [j \in DOMAIN Types |-> StorageBytes(dense[Types[j]])]
           values == [j \in 1 .. n |-> dense[Types[j]]]
<1>0. n \in Nat /\ DOMAIN Types = 1 .. n /\ StoragesBytes(dense) = FlattenSeq(pieces)
      /\ \A j \in 1 .. n : Types[j] \in Component
  BY TypesInOrder DEF StoragesBytes
<1>1. \A j \in 1 .. n : /\ dense[Types[j]] \in Seq(Dense)
                        /\ Len(dense[Types[j]]) <= MaxSlots
  BY <1>0
<1>2. Seq(Dense) \subseteq Seq(Element)
  <2>1. Dense \subseteq Element
    BY DEF Dense, Element, ID
  <2> QED  BY <2>1
<1>3. pieces \in Seq(Stream) /\ Len(pieces) = n /\ values \in Seq(Seq(Element))
      /\ Len(values) = n
  <2>1. \A j \in 1 .. n : StorageBytes(dense[Types[j]]) \in Stream
                          /\ dense[Types[j]] \in Seq(Element)
    BY <1>1, <1>2, StorageWritten
  <2> HIDE DEF n
  <2> QED  BY <1>0, <2>1
<1>4. StoragesBytes(dense) \in Stream
  BY <1>0, <1>3, FlatParts
<1>5. ASSUME NEW input \in Stream, NEW cursor \in Nat,
             At(input, cursor, StoragesBytes(dense))
      PROVE  \E value : /\ ByType(value) = dense
                        /\ ReadStorages(input, cursor)
                             = Read(value, cursor + Len(StoragesBytes(dense)))
  <2> DEFINE r == [at \in Nat |-> ReadStorage(input, at)]
             end == cursor + Len(StoragesBytes(dense))
  <2>1. Decodes(r, input, pieces, values)
    <3>1. ASSUME NEW i \in 1 .. n, NEW at \in Nat, At(input, at, pieces[i])
          PROVE  r[at] = Read(values[i], at + Len(pieces[i]))
      <4> DEFINE w == dense[Types[i]]
      <4>1. pieces[i] = StorageBytes(w) /\ values[i] = w
            /\ w \in Seq(Dense) /\ Len(w) <= MaxSlots
        BY <1>0, <1>1
      <4> HIDE DEF w
      <4>2. ReadStorage(input, at) = Read(w, at + Len(StorageBytes(w)))
        BY <3>1, <4>1, StorageWritten
      <4> QED  BY <4>1, <4>2
    <3> QED  BY <1>3, <3>1 DEF Decodes
  <2>2. r \in Readers(Seq(Element))
    BY StorageRead DEF Readers
  <2>3. ReadEach(cursor, n, r) = Read(values, end)
    <3> HIDE DEF pieces, values, r, n
    <3> DEFINE S == Seq(Element)
    <3>1. r \in Readers(S) /\ values \in Seq(S)
      BY <1>3, <2>2
    <3> HIDE DEF S
    <3> QED  BY <1>0, <1>3, <1>5, <2>1, <3>1, EachPiece
  <2>4. ByType(values) = dense
    <3>1. dense = [t \in Component |-> dense[t]]
          /\ \A j \in 1 .. n : values[j] = dense[Types[j]]
      OBVIOUS
    <3> HIDE DEF values
    <3> QED  BY <1>3, <3>1, ReadByType
  <2> HIDE DEF values, end
  <2>5. ReadStorages(input, cursor) = Read(values, end)
    BY <2>3 DEF ReadStorages
  <2> QED  BY <2>4, <2>5 DEF end
<1> QED  BY <1>4, <1>5

(* The three parts of a container as they may be read. *)
Parts == [slots : Seq([Component -> Nat]), free : Seq(Nat),
          dense : [Component -> Seq(Element)]]

ReadSlots(input) ==
  ReadVector(input, 0, [at \in Nat |-> ReadSlot(input, at)])

ReadFree(input, cursor) ==
  ReadVector(input, cursor, [at \in Nat |-> ReadIndex(input, at)])

(* The parts one after the other. *)
LEMMA PartsInTurn ==
  ASSUME NEW input
  PROVE  LET slots == ReadSlots(input)
             free == ReadFree(input, slots.cursor)
             dense == ReadStorages(input, free.cursor)
         IN  ReadParts(input) =
               IF slots.ok /\ free.ok /\ dense.ok
               THEN Read([slots |-> slots.value, free |-> free.value,
                          dense |-> ByType(dense.value)], dense.cursor)
               ELSE Refused
BY DEF ReadParts, PartsOf, ReadSlots, ReadFree, ReadStorages

(* The slots are read as slots, and in the same way where more follows.    *)
LEMMA SlotsRead ==
  ASSUME NEW input \in Stream
  PROVE  /\ ReadSlots(input) \in Readings(Seq([Component -> Nat]))
         /\ \A longer : Continues(longer, input) =>
              Agrees(ReadSlots(input), ReadSlots(longer))
<1> DEFINE r(s) == [at \in Nat |-> ReadSlot(s, at)]
           S == [Component -> Nat]
           none == 0
<1>1. ASSUME NEW s \in Stream PROVE r(s) \in Readers(S)
  BY SlotRead DEF Readers
<1>2. ASSUME NEW longer, Continues(longer, input)
      PROVE  longer \in Stream /\ \A i \in Nat : Agrees(r(input)[i], r(longer)[i])
  BY <1>2, SlotRead DEF Continues
<1>3. none \in Nat /\ \A s : ReadSlots(s) = ReadVector(s, none, r(s))
  BY DEF ReadSlots
<1> HIDE DEF r, S, none
<1>4. ReadSlots(input) \in Readings(Seq(S))
  BY <1>1, <1>3, VectorTyped
<1>5. ASSUME NEW longer, Continues(longer, input)
      PROVE  Agrees(ReadSlots(input), ReadSlots(longer))
  BY <1>1, <1>2, <1>3, <1>5, VectorAgrees
<1> QED  BY <1>4, <1>5 DEF S

(* So is the free list. *)
LEMMA FreeRead ==
  ASSUME NEW input \in Stream, NEW cursor \in Nat
  PROVE  /\ ReadFree(input, cursor) \in Readings(Seq(Nat))
         /\ \A longer : Continues(longer, input) =>
              Agrees(ReadFree(input, cursor), ReadFree(longer, cursor))
<1> DEFINE r(s) == [at \in Nat |-> ReadIndex(s, at)]
<1>1. ASSUME NEW s \in Stream PROVE r(s) \in Readers(Nat)
  BY ReadersOfOne
<1>2. ASSUME NEW longer, Continues(longer, input)
      PROVE  longer \in Stream /\ \A i \in Nat : Agrees(r(input)[i], r(longer)[i])
  BY <1>2, ReadersOfOne DEF Continues
<1>3. \A s : ReadFree(s, cursor) = ReadVector(s, cursor, r(s))
  BY DEF ReadFree
<1> HIDE DEF r
<1>4. ReadFree(input, cursor) \in Readings(Seq(Nat))
  BY <1>1, <1>3, VectorTyped
<1>5. ASSUME NEW longer, Continues(longer, input)
      PROVE  Agrees(ReadFree(input, cursor), ReadFree(longer, cursor))
  BY <1>1, <1>2, <1>3, <1>5, VectorAgrees
<1> QED  BY <1>4, <1>5

(* What is accepted is read in the same way where more bytes follow.       *)
LEMMA PartsRead ==
  ASSUME NEW input \in Stream
  PROVE  /\ ReadParts(input) \in Readings(Parts)
         /\ \A longer : Continues(longer, input) =>
              Agrees(ReadParts(input), ReadParts(longer))
<1> DEFINE slots(s) == ReadSlots(s)
           free(s) == ReadFree(s, slots(s).cursor)
           dense(s) == ReadStorages(s, free(s).cursor)
           all(s) == slots(s).ok /\ free(s).ok /\ dense(s).ok
           value(s) == [slots |-> slots(s).value, free |-> free(s).value,
                        dense |-> ByType(dense(s).value)]
<1>1. \A s : ReadParts(s) = IF all(s) THEN Read(value(s), dense(s).cursor)
                            ELSE Refused
  BY PartsInTurn
<1>2. CASE ~ all(input)
  <2>1. ReadParts(input) = Refused
    BY <1>1, <1>2
  <2> QED  BY <2>1, ReadingMade, ReadingParts DEF Agrees
<1>3. CASE all(input)
  <2> DEFINE a == slots(input)
             b == free(input)
             d == dense(input)
             at == a.cursor
             behind == b.cursor
  <2>1. /\ a.value \in Seq([Component -> Nat]) /\ at \in Nat
        /\ \A longer : Continues(longer, input) => slots(longer) = a
    BY <1>3, SlotsRead, ReadingCases DEF Agrees
  <2>2. /\ b.value \in Seq(Nat) /\ behind \in Nat
        /\ \A longer : Continues(longer, input) => ReadFree(longer, at) = b
    <3> HIDE DEF at
    <3>1. b = ReadFree(input, at)
      BY DEF at
    <3> HIDE DEF b
    <3> QED  BY <1>3, <2>1, <3>1, FreeRead, ReadingCases DEF Agrees, b
  <2>3. /\ ByType(d.value) \in [Component -> Seq(Element)] /\ d.cursor \in Nat
        /\ \A longer : Continues(longer, input) =>
             ReadStorages(longer, behind) = d
    <3> HIDE DEF behind
    <3>1. d = ReadStorages(input, behind)
      BY DEF behind
    <3> HIDE DEF d
    <3> QED  BY <1>3, <2>2, <3>1, StoragesRead, ReadingCases DEF Agrees, d
  <2>4. ReadParts(input) \in Readings(Parts)
    <3>1. value(input) \in Parts
      BY <2>1, <2>2, <2>3 DEF Parts
    <3> HIDE DEF value
    <3>2. Read(value(input), d.cursor) \in Readings(Parts)
      BY <2>3, <3>1, ReadingMade
    <3> QED  BY <1>1, <1>3, <3>2
  <2>5. ASSUME NEW longer, Continues(longer, input)
        PROVE  Agrees(ReadParts(input), ReadParts(longer))
    <3>1. slots(longer) = a
      BY <2>1, <2>5
    <3>2. free(longer) = b
      BY <2>2, <2>5, <3>1
    <3>3. dense(longer) = d
      BY <2>3, <2>5, <3>2
    <3>4. ReadParts(longer) = ReadParts(input)
      <4>1. value(longer) = value(input) /\ (all(longer) <=> all(input))
            /\ dense(longer).cursor = dense(input).cursor
        BY <3>1, <3>2, <3>3
      <4> HIDE DEF value, all, dense
      <4> QED  BY <1>1, <4>1
    <3> QED  BY <3>4 DEF Agrees
  <2> QED  BY <2>4, <2>5
<1> QED  BY <1>2, <1>3

(* A sound container is found where its bytes stand. *)
LEMMA PartsWritten ==
  ASSUME NEW c, Sound(c)
  PROVE  /\ ContainerBytes(c) \in Stream
         /\ \A input \in Stream : At(input, 0, ContainerBytes(c)) =>
              ReadParts(input) = Read(c, Len(ContainerBytes(c)))
<1> DEFINE none == 0
           SB == [i \in DOMAIN c.slots |-> SlotBytes(c.slots[i])]
           FB == [i \in DOMAIN c.free |-> IndexBytes(c.free[i])]
           a == Vector(SB)
           b == Vector(FB)
           d == StoragesBytes(c.dense)
<1>1. ContainerBytes(c) = (a \o b) \o d
  BY DEF ContainerBytes, StoragesBytes
<1>2. /\ c = [slots |-> c.slots, free |-> c.free, dense |-> c.dense]
      /\ c.slots \in Seq([Component -> 0 .. MaxElements])
      /\ Len(c.slots) <= MaxElements
      /\ c.free \in Seq(ID) /\ Len(c.free) <= MaxElements
      /\ c.dense \in [Component -> Seq(Dense)]
      /\ \A t \in Component : Len(c.dense[t]) <= MaxSlots
  BY SoundSizes
<1>3. /\ SB \in Seq(Stream) /\ Len(SB) = Len(c.slots)
      /\ \A i \in 1 .. Len(c.slots) : /\ SB[i] = SlotBytes(c.slots[i])
                                      /\ c.slots[i] \in [Component -> 0 .. MaxElements]
  <2> DEFINE s == c.slots
             n == Len(s)
  <2>1. n \in Nat /\ DOMAIN s = 1 .. n
        /\ \A i \in 1 .. n : s[i] \in [Component -> 0 .. MaxElements]
    BY <1>2
  <2>2. \A i \in 1 .. n : SlotBytes(s[i]) \in Stream
    BY <2>1, SlotWritten
  <2> HIDE DEF n
  <2> QED  BY <2>1, <2>2 DEF n
<1>4. /\ FB \in Seq(Stream) /\ Len(FB) = Len(c.free)
      /\ \A i \in 1 .. Len(c.free) : /\ FB[i] = IndexBytes(c.free[i])
                                     /\ c.free[i] \in ID
  <2> DEFINE s == c.free
             n == Len(s)
  <2>1. n \in Nat /\ DOMAIN s = 1 .. n /\ \A i \in 1 .. n : s[i] \in ID
    BY <1>2
  <2>2. \A i \in 1 .. n : IndexBytes(s[i]) \in Stream
    BY <2>1, BytesWritten
  <2> HIDE DEF n
  <2> QED  BY <2>1, <2>2 DEF n
<1> HIDE DEF SB, FB
<1>5. a \in Stream /\ b \in Stream /\ d \in Stream
  <2>1. ASSUME NEW pieces \in Seq(Stream), Len(pieces) <= MaxElements
        PROVE  Vector(pieces) \in Stream
    <3> DEFINE flat == FlattenSeq(pieces)
               head == Size(Len(pieces))
    <3>1. flat \in Stream
      BY FlatParts
    <3>2. Len(pieces) \in 0 .. Power[WordBits] - 1
      <4>1. Len(pieces) \in Nat
        OBVIOUS
      <4> QED  BY <2>1, <4>1, Countable
    <3>3. head \in Stream
      BY <3>2, BytesWritten
    <3>4. Vector(pieces) = head \o flat
      BY DEF Vector
    <3> HIDE DEF flat, head
    <3> QED  BY <3>1, <3>3, <3>4, Joining
  <2> QED  BY <1>2, <1>3, <1>4, <2>1, StoragesWritten
<1> HIDE DEF a, b, d
<1>6. /\ Len(a) \in Nat /\ Len(b) \in Nat /\ Len(d) \in Nat
      /\ a \o b \in Stream /\ Len(a \o b) = Len(a) + Len(b)
      /\ (a \o b) \o d \in Stream
      /\ Len((a \o b) \o d) = Len(a) + Len(b) + Len(d)
  <2>1. /\ Len(a) \in Nat /\ Len(b) \in Nat /\ a \o b \in Stream
        /\ Len(a \o b) = Len(a) + Len(b)
    BY <1>5, Joining
  <2> DEFINE ab == a \o b
  <2> HIDE DEF ab
  <2>2. ab \in Stream /\ Len(ab) = Len(a) + Len(b)
    BY <2>1 DEF ab
  <2>3. Len(d) \in Nat /\ ab \o d \in Stream /\ Len(ab \o d) = Len(ab) + Len(d)
    BY <1>5, <2>2, Joining
  <2> QED  BY <2>1, <2>2, <2>3 DEF ab
<1>7. ASSUME NEW input \in Stream, At(input, none, ContainerBytes(c))
      PROVE  ReadParts(input) = Read(c, Len(ContainerBytes(c)))
  <2> DEFINE first == none + Len(a)
             second == none + Len(a \o b)
             r == [at \in Nat |-> ReadSlot(input, at)]
             q == [at \in Nat |-> ReadIndex(input, at)]
  <2>1. /\ At(input, none, a) /\ At(input, first, b) /\ At(input, second, d)
        /\ first \in Nat /\ second \in Nat /\ none \in Nat
        /\ second = first + Len(b)
        /\ second + Len(d) = Len(ContainerBytes(c))
    <3>1. none \in Nat /\ first \in Nat /\ second \in Nat
          /\ second = first + Len(b)
          /\ second + Len(d) = Len(ContainerBytes(c))
      BY <1>1, <1>6
    <3> DEFINE ab == a \o b
    <3>2. At(input, none, ab \o d) /\ ab \in Stream
      BY <1>1, <1>6, <1>7
    <3> HIDE DEF ab, none
    <3>3. At(input, none, ab) /\ At(input, none + Len(ab), d)
      BY <1>5, <3>1, <3>2, AtBoth
    <3>4. At(input, none, a) /\ At(input, none + Len(a), b)
      BY <1>5, <3>1, <3>3, AtBoth DEF ab
    <3> QED  BY <3>1, <3>3, <3>4 DEF ab
  <2> HIDE DEF first, second
  <2>2. ReadSlots(input) = Read(c.slots, first)
    <3> DEFINE S == [Component -> Nat]
               s == c.slots
               n == Len(s)
    <3>1. r \in Readers(S)
      BY SlotRead DEF Readers
    <3>2. s \in Seq(S)
      <4>1. [Component -> 0 .. MaxElements] \subseteq S
        BY Countable
      <4> HIDE DEF S
      <4> QED  BY <1>2, <4>1
    <3>3. Decodes(r, input, SB, s)
      <4>1. ASSUME NEW i \in 1 .. Len(s), NEW at \in Nat, At(input, at, SB[i])
            PROVE  r[at] = Read(s[i], at + Len(SB[i]))
        <5> DEFINE slot == s[i]
        <5>1. SB[i] = SlotBytes(slot) /\ slot \in [Component -> 0 .. MaxElements]
          BY <1>3
        <5> HIDE DEF slot
        <5>2. ReadSlot(input, at) = Read(slot, at + Len(SlotBytes(slot)))
          BY <4>1, <5>1, SlotWritten
        <5> QED  BY <5>1, <5>2 DEF slot
      <4> QED  BY <1>3, <4>1 DEF Decodes
    <3>4. first = none + Len(Vector(SB)) /\ At(input, none, Vector(SB))
          /\ Len(s) <= MaxElements
      BY <1>2, <2>1 DEF first, a
    <3> HIDE DEF r, S, s, none
    <3>5. ReadVector(input, none, r) = Read(s, first)
      BY <1>3, <2>1, <3>1, <3>2, <3>3, <3>4, VectorRead
    <3> QED  BY <3>5 DEF ReadSlots, r, s, none
  <2>3. ReadFree(input, first) = Read(c.free, second)
    <3> DEFINE s == c.free
    <3>1. q \in Readers(Nat)
      BY ReadersOfOne
    <3>2. s \in Seq(Nat)
      <4>1. ID \subseteq Nat
        BY DEF ID
      <4>2. s \in Seq(ID)
        BY <1>2
      <4> DEFINE n == Len(s)
      <4> HIDE DEF s
      <4>3. n \in Nat /\ s \in [1 .. n -> ID]
        BY <4>2
      <4> HIDE DEF n
      <4>4. s \in [1 .. n -> Nat]
        BY <4>1, <4>3
      <4> QED  BY <4>3, <4>4
    <3>3. Decodes(q, input, FB, s)
      <4>1. ASSUME NEW i \in 1 .. Len(s), NEW at \in Nat, At(input, at, FB[i])
            PROVE  q[at] = Read(s[i], at + Len(FB[i]))
        <5> DEFINE id == s[i]
        <5>1. FB[i] = IndexBytes(id) /\ id \in ID
          BY <1>4
        <5> HIDE DEF id
        <5>2. ReadIndex(input, at) = Read(id, at + WordBytes)
          BY <4>1, <5>1, IndexRead
        <5>3. Len(IndexBytes(id)) = WordBytes
          BY Widths DEF IndexBytes, Word
        <5> QED  BY <5>1, <5>2, <5>3 DEF id
      <4> QED  BY <1>4, <4>1 DEF Decodes
    <3>4. second = first + Len(Vector(FB)) /\ At(input, first, Vector(FB))
          /\ Len(s) <= MaxElements
      BY <1>2, <2>1 DEF b
    <3> HIDE DEF q, s
    <3>5. ReadVector(input, first, q) = Read(s, second)
      BY <1>4, <2>1, <3>1, <3>2, <3>3, <3>4, VectorRead
    <3> QED  BY <3>5 DEF ReadFree, q, s
  <2> DEFINE read == ReadStorages(input, second)
             end == Len(ContainerBytes(c))
  <2>4. PICK value : ByType(value) = c.dense /\ read = Read(value, end)
    <3> DEFINE dense == c.dense
    <3>1. dense \in [Component -> Seq(Dense)]
          /\ \A t \in Component : Len(dense[t]) <= MaxSlots
      BY <1>2
    <3>2. At(input, second, StoragesBytes(dense)) /\ second \in Nat
          /\ second + Len(StoragesBytes(dense)) = end
      BY <2>1 DEF d
    <3> HIDE DEF dense, end
    <3>3. \E v : /\ ByType(v) = dense
                 /\ ReadStorages(input, second)
                      = Read(v, second + Len(StoragesBytes(dense)))
      BY <3>1, <3>2, StoragesWritten
    <3> QED  BY <3>2, <3>3 DEF dense
  <2> DEFINE x == ReadSlots(input)
             y == ReadFree(input, x.cursor)
             z == ReadStorages(input, y.cursor)
  <2>5. x.ok /\ x.value = c.slots /\ x.cursor = first
    BY <2>2, ReadingParts
  <2>6. y.ok /\ y.value = c.free /\ y.cursor = second
    BY <2>3, <2>5, ReadingParts
  <2>7. z.ok /\ z.value = value /\ z.cursor = end
    BY <2>4, <2>6, ReadingParts
  <2>8. ReadParts(input) = Read([slots |-> x.value, free |-> y.value,
                                 dense |-> ByType(z.value)], z.cursor)
    BY <2>5, <2>6, <2>7, PartsInTurn
  <2> QED  BY <1>2, <2>4, <2>5, <2>6, <2>7, <2>8
<1> QED  BY <1>1, <1>6, <1>7

(* What write() makes of a sound container reads back as that container.   *)
LEMMA ContainerReadsBack ==
  ASSUME NEW c, Sound(c)
  PROVE  ReadContainer(ContainerBytes(c)) = Read(c, Len(ContainerBytes(c)))
<1> DEFINE bytes == ContainerBytes(c)
           none == 0
<1>1. bytes \in Stream
  BY PartsWritten
<1>2. At(bytes, none, bytes)
  <2> HIDE DEF bytes
  <2>1. Len(bytes) \in Nat
    BY <1>1 DEF Stream
  <2> QED  BY <1>1, <2>1 DEF At
<1>3. ReadParts(bytes) = Read(c, Len(bytes))
  BY <1>1, <1>2, PartsWritten
<1>4. ReadsBack(c)
  BY DEF Sound
<1> HIDE DEF bytes
<1> QED  BY <1>3, <1>4, ReadingParts
         DEF ReadContainer, Accepted, Whole, bytes

-----------------------------------------------------------------------------
(***************************************************************************)
(* The bytes of changes.                                                   *)
(***************************************************************************)

(* What may be read of one component of an entity. *)
Shown == Value \cup {Default}

ReadShown(input, cursor) ==
  ReadOptional(input, cursor, [in \in Nat |-> ReadValue(input, in)], Default)

ShownBytes(has, v) == Optional(has, IF has THEN ValueBytes(v) ELSE <<>>)

(* A truth value is read as one, or not at all. *)
LEMMA BoolTyped ==
  ASSUME NEW input \in Stream, NEW cursor \in Nat
  PROVE  ReadBool(input, cursor) \in Readings(BOOLEAN)
<1> DEFINE bytes == ReadBytes(input, cursor, 1)
<1>1. ReadBool(input, cursor) =
        IF bytes.ok /\ bytes.value[1] \in {0, 1}
        THEN Read(bytes.value[1] = 1, bytes.cursor) ELSE Refused
  BY DEF ReadBool
<1>2. bytes.ok => bytes.cursor = cursor + 1
  BY ByteRead
<1> DEFINE flag == bytes.value[1] = 1
<1>3. CASE bytes.ok /\ bytes.value[1] \in {0, 1}
  <2>1. flag \in BOOLEAN /\ bytes.cursor \in Nat
    BY <1>2, <1>3
  <2>2. ReadBool(input, cursor) = Read(flag, bytes.cursor)
    BY <1>1, <1>3
  <2> HIDE DEF bytes, flag
  <2> QED  BY <2>1, <2>2, ReadingMade
<1>4. CASE ~ (bytes.ok /\ bytes.value[1] \in {0, 1})
  BY <1>1, <1>4, ReadingMade
<1> QED  BY <1>3, <1>4

(* A component is read as a value or as absent, or not at all. *)
LEMMA ShownTyped ==
  ASSUME NEW input \in Stream, NEW cursor \in Nat
  PROVE  ReadShown(input, cursor) \in Readings(Shown)
<1> DEFINE present == ReadBool(input, cursor)
           r == [in \in Nat |-> ReadValue(input, in)]
<1>1. present \in Readings(BOOLEAN) /\ r \in Readers(Shown)
  BY BoolTyped, ReadersOfOne DEF Shown
<1>2. ReadShown(input, cursor) =
        CASE ~ present.ok -> Refused
          [] present.ok /\ present.value -> r[present.cursor]
          [] present.ok /\ ~ present.value -> Read(Default, present.cursor)
  BY DEF ReadShown, ReadOptional
<1> HIDE DEF present, r
<1>3. CASE ~ present.ok
  BY <1>2, <1>3, ReadingMade
<1>4. CASE present.ok
  <2>1. present.value \in BOOLEAN /\ present.cursor \in Nat
    BY <1>1, <1>4, ReadingCases
  <2>2. r[present.cursor] \in Readings(Shown)
    BY <1>1, <2>1 DEF Readers
  <2>3. Read(Default, present.cursor) \in Readings(Shown)
    BY <2>1, ReadingMade DEF Shown
  <2>4. CASE present.value
    BY <1>2, <1>4, <2>2, <2>4
  <2>5. CASE ~ present.value
    BY <1>2, <1>4, <2>3, <2>5
  <2> QED  BY <2>4, <2>5
<1> QED  BY <1>3, <1>4

(* A component that is there, or is not. *)
LEMMA ShownWritten ==
  ASSUME NEW has \in BOOLEAN, NEW v
  PROVE  LET bytes == ShownBytes(has, v)
         IN  (has => v \in Value) =>
               /\ bytes \in Stream
               /\ \A input \in Stream, cursor \in Nat :
                    At(input, cursor, bytes) =>
                      ReadShown(input, cursor)
                        = Read(IF has THEN v ELSE Default, cursor + Len(bytes))
<1> SUFFICES ASSUME has => v \in Value
             PROVE  LET bytes == ShownBytes(has, v)
                    IN  /\ bytes \in Stream
                        /\ \A input \in Stream, cursor \in Nat :
                             At(input, cursor, bytes) =>
                               ReadShown(input, cursor)
                                 = Read(IF has THEN v ELSE Default,
                                        cursor + Len(bytes))
  OBVIOUS
<1> DEFINE bytes == ShownBytes(has, v)
           head == Bool(has)
           tail == IF has THEN ValueBytes(v) ELSE <<>>
<1>1. bytes = head \o tail
  BY DEF Optional, ShownBytes
<1>2. head \in Stream /\ tail \in Stream /\ Len(head) = 1
      /\ (has => tail = <<v>> /\ Len(tail) = 1) /\ (~ has => Len(tail) = 0)
  <2>1. head \in Stream /\ Len(head) = 1
    BY BytesWritten DEF Bool
  <2>2. CASE has
    BY <2>1, <2>2, BytesWritten DEF ValueBytes
  <2>3. CASE ~ has
    <3>1. tail = <<>> /\ tail \in Stream
      BY <2>3 DEF Stream
    <3> QED  BY <2>1, <2>3, <3>1
  <2> QED  BY <2>2, <2>3
<1> HIDE DEF bytes, head, tail
<1>3. bytes \in Stream /\ Len(bytes) = 1 + Len(tail) /\ Len(tail) \in Nat
  <2>1. Len(head \o tail) = Len(head) + Len(tail) /\ Len(tail) \in Nat
        /\ head \o tail \in Stream
    BY <1>2, Joining
  <2> QED  BY <1>1, <1>2, <2>1
<1>4. ASSUME NEW input \in Stream, NEW cursor \in Nat, At(input, cursor, bytes)
      PROVE  ReadShown(input, cursor)
               = Read(IF has THEN v ELSE Default, cursor + Len(bytes))
  <2> DEFINE present == ReadBool(input, cursor)
             r == [in \in Nat |-> ReadValue(input, in)]
             next == cursor + 1
  <2>1. At(input, cursor, head) /\ At(input, next, tail) /\ next \in Nat
    <3>1. next = cursor + Len(head) /\ next \in Nat
      BY <1>2
    <3>2. At(input, cursor, head \o tail)
      BY <1>1, <1>4
    <3> HIDE DEF next
    <3> QED  BY <1>2, <3>1, <3>2, AtBoth
  <2>2. present = Read(has, next)
    BY <2>1, BoolRead DEF head
  <2>3. present.ok /\ present.value = has /\ present.cursor = next
    BY <2>2, ReadingParts
  <2>4. ReadShown(input, cursor) =
          CASE ~ present.ok -> Refused
            [] present.ok /\ present.value -> r[present.cursor]
            [] present.ok /\ ~ present.value -> Read(Default, present.cursor)
    BY DEF ReadShown, ReadOptional
  <2> HIDE DEF present
  <2>5. CASE has
    <3> DEFINE valid == Value \cup {Default}
    <3>1. r[next] = ReadEnum(input, next, valid)
      BY <2>1 DEF ReadValue
    <3>2. At(input, next, <<v>>) /\ v \in valid
      BY <1>2, <2>1, <2>5
    <3> HIDE DEF r, valid, next
    <3>3. r[next] = Read(v, next + 1)
      BY <2>1, <3>1, <3>2, EnumRead
    <3>4. next + 1 = cursor + Len(bytes)
      <4> DEFINE t == Len(tail)
                 b == Len(bytes)
      <4>1. t = 1 /\ b = 1 + t
        BY <1>2, <1>3, <2>5
      <4> HIDE DEF t, b
      <4>2. next + 1 = cursor + b
        BY <4>1 DEF next
      <4> QED  BY <4>2 DEF b
    <3> QED  BY <2>3, <2>4, <2>5, <3>3, <3>4
  <2>6. CASE ~ has
    <3>1. next = cursor + Len(bytes)
      <4> DEFINE t == Len(tail)
                 b == Len(bytes)
      <4>1. t = 0 /\ b = 1 + t
        BY <1>2, <1>3, <2>6
      <4> HIDE DEF t, b
      <4>2. next = cursor + b
        BY <4>1
      <4> QED  BY <4>2 DEF b
    <3> HIDE DEF r, next
    <3> QED  BY <2>3, <2>4, <2>6, <3>1
  <2> QED  BY <2>5, <2>6
<1> QED  BY <1>3, <1>4 DEF bytes

(* The change of an entity as it may be read. *)
Told == [id : Nat, present : BOOLEAN,
         components : UNION {[T -> Shown] : T \in SUBSET Component}]

ReadTold(input, cursor) ==
  ReadEach(cursor, Len(Types), [at \in Nat |-> ReadShown(input, at)])

(* The values that are there. *)
Present(has) == [t \in {u \in Component : has[u] # Default} |-> has[t]]

(* The parts of an entity's change, one after the other. *)
LEMMA EntityInTurn ==
  ASSUME NEW input, NEW cursor
  PROVE  LET id == ReadWord(input, cursor)
             present == ReadBool(input, id.cursor)
             values == ReadTold(input, present.cursor)
         IN  ReadEntity(input, cursor) =
               IF id.ok /\ present.ok /\ values.ok
               THEN Read([id |-> id.value, present |-> present.value,
                          components |-> Present(ByType(values.value))],
                         values.cursor)
               ELSE Refused
BY DEF ReadEntity, EntityOf, ReadTold, ReadShown, Present

(* Components are read one for each type, or not at all. *)
LEMMA ToldTyped ==
  ASSUME NEW input \in Stream, NEW cursor \in Nat
  PROVE  LET read == ReadTold(input, cursor)
         IN  /\ read \in Readings(Seq(Shown))
             /\ read.ok => Len(read.value) = Len(Types)
<1> DEFINE r == [at \in Nat |-> ReadShown(input, at)]
           n == Len(Types)
<1>1. r \in Readers(Shown) /\ n \in Nat /\ ReadTold(input, cursor) = ReadEach(cursor, n, r)
  BY ShownTyped, TypesInOrder DEF Readers, ReadTold
<1> HIDE DEF r, n
<1>2. /\ ReadEach(cursor, n, r) \in Readings(Seq(Shown))
      /\ ReadEach(cursor, n, r).ok => Len(ReadEach(cursor, n, r).value) = n
  BY <1>1, EachTyped
<1> QED  BY <1>1, <1>2 DEF n

(* A change is read as a change, or not at all. *)
LEMMA EntityTyped ==
  ASSUME NEW input \in Stream, NEW cursor \in Nat
  PROVE  ReadEntity(input, cursor) \in Readings(Told)
<1> DEFINE id == ReadWord(input, cursor)
           present == ReadBool(input, id.cursor)
           values == ReadTold(input, present.cursor)
           has == ByType(values.value)
           e == [id |-> id.value, present |-> present.value,
                 components |-> Present(has)]
<1>1. ReadEntity(input, cursor) =
        IF id.ok /\ present.ok /\ values.ok THEN Read(e, values.cursor)
        ELSE Refused
  BY EntityInTurn
<1>2. CASE id.ok /\ present.ok /\ values.ok
  <2>1. id.value \in Nat /\ id.cursor \in Nat
    BY <1>2, WordRead, ReadingCases
  <2>2. present.value \in BOOLEAN /\ present.cursor \in Nat
    <3> DEFINE at == id.cursor
    <3>1. at \in Nat
      BY <2>1
    <3> HIDE DEF at
    <3>2. ReadBool(input, at) \in Readings(BOOLEAN)
      BY <3>1, BoolTyped
    <3>3. present \in Readings(BOOLEAN)
      BY <3>2 DEF at
    <3> HIDE DEF present
    <3> QED  BY <1>2, <3>3, ReadingCases
  <2>3. has \in [Component -> Shown] /\ values.cursor \in Nat
    <3> DEFINE at == present.cursor
    <3>1. at \in Nat
      BY <2>2
    <3> HIDE DEF at
    <3>2. /\ ReadTold(input, at) \in Readings(Seq(Shown))
          /\ ReadTold(input, at).ok => Len(ReadTold(input, at).value) = Len(Types)
      BY <3>1, ToldTyped
    <3>3. values \in Readings(Seq(Shown)) /\ Len(values.value) = Len(Types)
      BY <1>2, <3>2 DEF at
    <3> HIDE DEF values
    <3>4. values.value \in Seq(Shown) /\ values.cursor \in Nat
      BY <1>2, <3>3, ReadingCases
    <3> QED  BY <3>3, <3>4, ReadByType
  <2> HIDE DEF id, present, values, has
  <2>4. Present(has) \in UNION {[T -> Shown] : T \in SUBSET Component}
    <3> DEFINE T == {u \in Component : has[u] # Default}
    <3>1. T \in SUBSET Component
      OBVIOUS
    <3>2. Present(has) = [t \in T |-> has[t]] /\ \A t \in T : has[t] \in Shown
      BY <2>3 DEF Present
    <3> HIDE DEF T
    <3> QED  BY <3>1, <3>2
  <2>5. e \in Told
    <3> DEFINE p == Present(has)
    <3> HIDE DEF p
    <3> QED  BY <2>1, <2>2, <2>4 DEF Told, p
  <2> HIDE DEF e
  <2>6. Read(e, values.cursor) \in Readings(Told)
    BY <2>3, <2>5, ReadingMade
  <2> QED  BY <1>1, <1>2, <2>6
<1>3. CASE ~ (id.ok /\ present.ok /\ values.ok)
  BY <1>1, <1>3, ReadingMade
<1> QED  BY <1>2, <1>3

(* The components of an entity, one after the other. *)
ToldBytes(components) ==
  FlattenSeq([j \in DOMAIN Types |->
    ShownBytes(Types[j] \in DOMAIN components, components[Types[j]])])

(* An entity is written as its three parts. *)
LEMMA EntityParts ==
  ASSUME NEW e
  PROVE  EntityBytes(e)
           = (Word(e.id) \o Bool(e.present)) \o ToldBytes(e.components)
<1> DEFINE has(j) == Types[j] \in DOMAIN e.components
           w(j) == e.components[Types[j]]
<1>1. \A j : (IF has(j) THEN ValueBytes(w(j)) ELSE <<>>)
              = (IF has(j) THEN ValueBytes(e.components[Types[j]]) ELSE <<>>)
  OBVIOUS
<1> QED  BY DEF EntityBytes, ToldBytes, ShownBytes

(* Components that were written are read as those components. *)
LEMMA ToldWritten ==
  ASSUME NEW components \in Bundle
  PROVE  /\ ToldBytes(components) \in Stream
         /\ \A input \in Stream, cursor \in Nat :
              At(input, cursor, ToldBytes(components)) =>
                \E values :
                  /\ ReadTold(input, cursor)
                       = Read(values, cursor + Len(ToldBytes(components)))
                  /\ Present(ByType(values)) = components
<1> DEFINE n == Len(Types)
           has(j) == Types[j] \in DOMAIN components
           w(j) == components[Types[j]]
           pieces == [j \in DOMAIN Types |-> ShownBytes(has(j), w(j))]
           f == [t \in Component |-> IF t \in DOMAIN components
                                     THEN components[t] ELSE Default]
           values == [j \in 1 .. n |-> f[Types[j]]]
<1>0. n \in Nat /\ DOMAIN Types = 1 .. n
      /\ \A j \in 1 .. n : Types[j] \in Component
  BY TypesInOrder
<1>1. /\ DOMAIN components \subseteq Component
      /\ \A t \in DOMAIN components : components[t] \in Value
      /\ components = [t \in DOMAIN components |-> components[t]]
  <2>1. PICK T \in SUBSET Component : components \in [T -> Value]
    BY DEF Bundle
  <2> QED  BY <2>1
<1>2. f \in [Component -> Shown]
  BY <1>1 DEF Shown
<1>3. ToldBytes(components) = FlattenSeq(pieces)
  BY DEF ToldBytes
<1>4. ASSUME NEW j \in 1 .. n
      PROVE  /\ pieces[j] = ShownBytes(has(j), w(j)) /\ pieces[j] \in Stream
             /\ \A input \in Stream, cursor \in Nat :
                  At(input, cursor, pieces[j]) =>
                    ReadShown(input, cursor)
                      = Read(values[j], cursor + Len(pieces[j]))
  <2> DEFINE b == has(j)
             v == w(j)
             s == ShownBytes(b, v)
  <2>1. b \in BOOLEAN /\ (b => v \in Value) /\ pieces[j] = s
        /\ values[j] = IF b THEN v ELSE Default
    BY <1>0, <1>1
  <2> HIDE DEF b, v
  <2>2. /\ s \in Stream
        /\ \A input \in Stream, cursor \in Nat : At(input, cursor, s) =>
             ReadShown(input, cursor)
               = Read(IF b THEN v ELSE Default, cursor + Len(s))
    BY <2>1, ShownWritten
  <2> HIDE DEF pieces, values, s
  <2>3. /\ pieces[j] \in Stream
        /\ \A input \in Stream, cursor \in Nat :
             At(input, cursor, pieces[j]) =>
               ReadShown(input, cursor) = Read(values[j], cursor + Len(pieces[j]))
    BY <2>1, <2>2, Zenon
  <2>4. pieces[j] = ShownBytes(has(j), w(j))
    BY <2>1 DEF s, b, v
  <2> QED  BY <2>3, <2>4
<1>5. pieces \in Seq(Stream) /\ Len(pieces) = n
  <2>1. pieces = [j \in 1 .. n |-> pieces[j]]
    BY <1>0
  <2> HIDE DEF pieces, n
  <2> QED  BY <1>0, <1>4, <2>1
<1>6. values \in Seq(Shown) /\ Len(values) = n
  <2>1. \A j \in 1 .. n : f[Types[j]] \in Shown
    BY <1>0, <1>2
  <2> HIDE DEF f, n
  <2> QED  BY <1>0, <2>1
<1>7. ToldBytes(components) \in Stream
  <2> HIDE DEF pieces
  <2> QED  BY <1>3, <1>5, FlatParts
<1>8. Present(ByType(values)) = components
  <2>1. ByType(values) = f
    <3>1. f = [t \in Component |-> f[t]]
      OBVIOUS
    <3>2. \A j \in 1 .. Len(Types) : values[j] = f[Types[j]]
      OBVIOUS
    <3> HIDE DEF f, values
    <3> QED  BY <1>6, <3>1, <3>2, ReadByType
  <2>2. Present(f) = components
    <3>1. {u \in Component : f[u] # Default} = DOMAIN components
      BY <1>1, ComponentAssumption
    <3>2. \A t \in DOMAIN components : f[t] = components[t]
      BY <1>1
    <3> HIDE DEF f
    <3> QED  BY <1>1, <3>1, <3>2 DEF Present
  <2> QED  BY <2>1, <2>2
<1>9. ASSUME NEW input \in Stream, NEW cursor \in Nat,
             At(input, cursor, ToldBytes(components))
      PROVE  ReadTold(input, cursor)
               = Read(values, cursor + Len(ToldBytes(components)))
  <2> DEFINE r == [at \in Nat |-> ReadShown(input, at)]
  <2>1. r \in Readers(Shown) /\ ReadTold(input, cursor) = ReadEach(cursor, n, r)
    BY ShownTyped DEF Readers, ReadTold
  <2>2. \A at \in Nat : r[at] = ReadShown(input, at)
    OBVIOUS
  <2> HIDE DEF r, pieces, values, n
  <2>3. Decodes(r, input, pieces, values)
    BY <1>4, <1>5, <1>6, <2>2 DEF Decodes
  <2>4. ReadEach(cursor, Len(values), r)
          = Read(values, cursor + Len(FlattenSeq(pieces)))
    <3>1. At(input, cursor, FlattenSeq(pieces))
      BY <1>3, <1>9
    <3> QED  BY <1>5, <1>6, <2>1, <2>3, <3>1, EachPiece
  <2> QED  BY <1>3, <1>6, <2>1, <2>4
<1> QED  BY <1>7, <1>8, <1>9

(* A change that was written is read as that change. *)
LEMMA EntityWritten ==
  ASSUME NEW e \in Change
  PROVE  /\ EntityBytes(e) \in Stream
         /\ \A input \in Stream, cursor \in Nat :
              At(input, cursor, EntityBytes(e)) =>
                ReadEntity(input, cursor) = Read(e, cursor + Len(EntityBytes(e)))
<1> DEFINE a == Word(e.id)
           b == Bool(e.present)
           d == ToldBytes(e.components)
           ab == a \o b
<1>1. e.id \in ID /\ e.present \in BOOLEAN /\ e.components \in Bundle
      /\ e = [id |-> e.id, present |-> e.present, components |-> e.components]
  BY DEF Change
<1>2. e.id \in 0 .. Power[WordBits] - 1
  <2>1. e.id \in Nat /\ e.id <= MaxSlots
    BY <1>1, SlotsAssumption DEF ID
  <2>2. e.id \in 0 .. MaxElements
    BY <2>1, Countable, SlotsAssumption
  <2> QED  BY <2>2, Countable
<1>3. a \in Stream /\ b \in Stream /\ d \in Stream /\ Len(b) = 1
      /\ Len(a) = WordBytes /\ WordBytes \in Nat
  <2>1. a \in Stream /\ b \in Stream
    BY <1>1, <1>2, BytesWritten
  <2>2. d \in Stream
    BY <1>1, ToldWritten
  <2>3. Len(b) = 1
    BY DEF Bool
  <2>4. WordBytes \in Nat /\ Len(a) = WordBytes
    BY Widths DEF Word
  <2> QED  BY <2>1, <2>2, <2>3, <2>4
<1>4. EntityBytes(e) = ab \o d
  BY EntityParts
<1> HIDE DEF a, b, d
<1>5. ab \in Stream /\ Len(ab) = WordBytes + Len(b)
  BY <1>3, Joining
<1> HIDE DEF ab
<1>6. Len(d) \in Nat /\ ab \o d \in Stream /\ Len(ab \o d) = Len(ab) + Len(d)
  BY <1>3, <1>5, Joining
<1>7. ASSUME NEW input \in Stream, NEW cursor \in Nat,
             At(input, cursor, EntityBytes(e))
      PROVE  ReadEntity(input, cursor) = Read(e, cursor + Len(EntityBytes(e)))
  <2> DEFINE first == cursor + WordBytes
             second == cursor + Len(ab)
             end == second + Len(d)
  <2>1. /\ first \in Nat /\ second \in Nat /\ second = first + 1
        /\ end = cursor + Len(EntityBytes(e))
    BY <1>3, <1>4, <1>5, <1>6
  <2>2. /\ At(input, cursor, a) /\ At(input, first, b) /\ At(input, second, d)
    <3>1. At(input, cursor, ab \o d)
      BY <1>4, <1>7
    <3>2. At(input, cursor, ab) /\ At(input, cursor + Len(ab), d)
      BY <1>3, <1>5, <3>1, AtBoth
    <3>3. At(input, cursor, a) /\ At(input, cursor + Len(a), b)
      BY <1>3, <3>2, AtBoth DEF ab
    <3> QED  BY <1>3, <3>2, <3>3
  <2> HIDE DEF first, second, end
  <2>3. ReadWord(input, cursor) = Read(e.id, first)
    <3> DEFINE n == e.id
    <3>1. n \in 0 .. Power[WordBits] - 1 /\ At(input, cursor, Word(n))
      BY <1>2, <2>2 DEF a
    <3> HIDE DEF n
    <3>2. ReadWord(input, cursor) = Read(n, cursor + WordBytes)
      BY <3>1, WordRead
    <3> QED  BY <3>2 DEF n, first
  <2>4. ReadBool(input, first) = Read(e.present, second)
    <3> DEFINE flag == e.present
    <3>1. flag \in BOOLEAN /\ At(input, first, Bool(flag))
      BY <1>1, <2>2 DEF b
    <3> HIDE DEF flag
    <3>2. ReadBool(input, first) = Read(flag, first + 1)
      BY <2>1, <3>1, BoolRead
    <3> QED  BY <2>1, <3>2 DEF flag
  <2>5. PICK values : /\ ReadTold(input, second) = Read(values, end)
                      /\ Present(ByType(values)) = e.components
    <3> DEFINE told == e.components
    <3>1. told \in Bundle /\ At(input, second, ToldBytes(told))
          /\ end = second + Len(ToldBytes(told))
      BY <1>1, <2>2 DEF d, end
    <3> HIDE DEF told
    <3>2. \E values : /\ ReadTold(input, second) = Read(values, end)
                      /\ Present(ByType(values)) = told
      BY <2>1, <3>1, ToldWritten
    <3> QED  BY <3>2 DEF told
  <2> DEFINE x == ReadWord(input, cursor)
             y == ReadBool(input, x.cursor)
             z == ReadTold(input, y.cursor)
  <2>6. x.ok /\ x.value = e.id /\ x.cursor = first
    BY <2>3, ReadingParts
  <2>7. y.ok /\ y.value = e.present /\ y.cursor = second
    BY <2>4, <2>6, ReadingParts
  <2>8. z.ok /\ z.value = values /\ z.cursor = end
    BY <2>5, <2>7, ReadingParts
  <2>9. ReadEntity(input, cursor) =
          Read([id |-> x.value, present |-> y.value,
                components |-> Present(ByType(z.value))], z.cursor)
    BY <2>6, <2>7, <2>8, EntityInTurn
  <2>10. ReadEntity(input, cursor) = Read(e, end)
    BY <1>1, <2>5, <2>6, <2>7, <2>8, <2>9
  <2> QED  BY <2>1, <2>10
<1> QED  BY <1>4, <1>6, <1>7

(* Changes read back from their bytes. *)
LEMMA ChangesReadBack ==
  ASSUME NEW s, Distinct(s)
  PROVE  ReadChanges(ChangesBytes(s)) = Read(s, Len(ChangesBytes(s)))
<1> DEFINE n == Len(s)
           pieces == [i \in DOMAIN s |-> EntityBytes(s[i])]
           bytes == ChangesBytes(s)
           r == [at \in Nat |-> ReadEntity(bytes, at)]
           none == 0
<1>1. /\ s \in Seq(Change) /\ n \in Nat /\ DOMAIN s = 1 .. n
      /\ \A i \in 1 .. n : s[i] \in Change
      /\ \A i, j \in 1 .. n : s[i].id = s[j].id => i = j
  BY DEF Distinct
<1>2. n <= MaxElements
  <2> DEFINE f == [i \in 1 .. n |-> s[i].id]
  <2>1. f \in [1 .. n -> 1 .. MaxSlots] /\ \A i, j \in 1 .. n : f[i] = f[j] => i = j
    <3>1. \A i \in 1 .. n : s[i].id \in 1 .. MaxSlots
      BY <1>1 DEF Change, ID
    <3> QED  BY <1>1, <3>1
  <2> HIDE DEF f, n
  <2>2. n <= MaxSlots
    BY <1>1, <2>1, DistinctFit, SlotsAssumption
  <2> QED  BY <1>1, <2>2, Countable, SlotsAssumption
<1>3. pieces \in Seq(Stream) /\ Len(pieces) = n
      /\ \A i \in 1 .. n : pieces[i] = EntityBytes(s[i])
  <2>1. \A i \in 1 .. n : EntityBytes(s[i]) \in Stream
    BY <1>1, EntityWritten
  <2> HIDE DEF n
  <2> QED  BY <1>1, <2>1
<1>4. bytes = Vector(pieces)
  BY DEF ChangesBytes
<1>5. bytes \in Stream
  <2> DEFINE flat == FlattenSeq(pieces)
             head == Size(n)
  <2>1. flat \in Stream
    BY <1>3, FlatParts
  <2>2. head \in Stream
    <3>1. n \in 0 .. Power[WordBits] - 1
      BY <1>1, <1>2, Countable
    <3> QED  BY <3>1, BytesWritten
  <2>3. bytes = head \o flat
    BY <1>3, <1>4 DEF Vector
  <2> HIDE DEF flat, head, bytes
  <2> QED  BY <2>1, <2>2, <2>3, Joining
<1>6. s \in Seq(Told)
  <2>1. Change \subseteq Told
    <3>1. Bundle \subseteq UNION {[T -> Shown] : T \in SUBSET Component}
      <4>1. ASSUME NEW T \in SUBSET Component
            PROVE  [T -> Value] \subseteq [T -> Shown]
        BY DEF Shown
      <4> QED  BY <4>1 DEF Bundle
    <3>2. ID \subseteq Nat
      BY DEF ID
    <3> DEFINE B == UNION {[T -> Shown] : T \in SUBSET Component}
    <3>3. Told = [id : Nat, present : BOOLEAN, components : B]
      BY DEF Told
    <3> HIDE DEF B
    <3>4. Bundle \subseteq B
      BY <3>1 DEF B
    <3> QED  BY <3>2, <3>3, <3>4 DEF Change
  <2> QED  BY <1>1, <2>1
<1>7. Len(bytes) \in Nat /\ At(bytes, none, bytes)
  <2> HIDE DEF bytes
  <2>1. Len(bytes) \in Nat
    BY <1>5 DEF Stream
  <2> QED  BY <2>1 DEF At
<1> HIDE DEF bytes
<1>8. r \in Readers(Told)
  BY <1>5, EntityTyped DEF Readers
<1>9. \A at \in Nat : r[at] = ReadEntity(bytes, at)
  OBVIOUS
<1>10. ReadChanges(bytes) = Whole(bytes, ReadVector(bytes, none, r))
  BY DEF ReadChanges
<1> HIDE DEF r, pieces
<1>11. Decodes(r, bytes, pieces, s)
  <2>1. ASSUME NEW i \in 1 .. n, NEW at \in Nat, At(bytes, at, pieces[i])
        PROVE  r[at] = Read(s[i], at + Len(pieces[i]))
    <3> DEFINE e == s[i]
    <3>1. e \in Change /\ pieces[i] = EntityBytes(e) /\ At(bytes, at, EntityBytes(e))
      BY <1>1, <1>3, <2>1
    <3> HIDE DEF e
    <3>2. ReadEntity(bytes, at) = Read(e, at + Len(EntityBytes(e)))
      BY <1>5, <3>1, EntityWritten
    <3> QED  BY <1>9, <3>1, <3>2 DEF e
  <2> QED  BY <1>1, <1>3, <2>1 DEF Decodes
<1>12. ReadVector(bytes, none, r) = Read(s, none + Len(bytes))
  <2>1. none \in Nat /\ At(bytes, none, Vector(pieces)) /\ Len(s) <= MaxElements
    BY <1>2, <1>4, <1>7
  <2> HIDE DEF none
  <2> QED  BY <1>3, <1>4, <1>5, <1>6, <1>8, <1>11, <2>1, VectorRead
<1>13. none + Len(bytes) = Len(bytes)
  BY <1>7
<1> HIDE DEF none
<1>14. ReadChanges(bytes) = Read(s, Len(bytes))
  BY <1>10, <1>12, <1>13, ReadingParts DEF Whole
<1> QED  BY <1>14 DEF bytes

-----------------------------------------------------------------------------
(***************************************************************************)
(* Reading exactly, and reading what was damaged.                          *)
(***************************************************************************)

(* Where the three parts that were read fit together, what each() visits   *)
(* and what create() gives away fit together, too.                         *)
LEMMA ReadPartsCoherent ==
  ASSUME NEW c \in Parts, ReadsBack(c)
  PROVE  Coherent(c)
<1> DEFINE alive == {id \in DOMAIN c.slots : Exists(c, id)}
<1>1. /\ c.slots \in Seq([Component -> Nat]) /\ c.free \in Seq(Nat)
      /\ c.dense \in [Component -> Seq(Element)]
  BY DEF Parts
<1>2. DOMAIN c.slots = 1 .. Len(c.slots) /\ DOMAIN c.free = 1 .. Len(c.free)
      /\ Len(c.slots) \in Nat
  BY <1>1
<1>3. alive = {id \in DOMAIN c.slots : id \notin ToSet(c.free)}
  BY <1>2 DEF Exists
<1>4. IsInjective(c.free)
  BY <1>2 DEF ReadsBack, IsInjective
<1>5. ToSet(c.free) = DOMAIN c.slots \ alive
  <2>1. ToSet(c.free) \subseteq DOMAIN c.slots
    BY <1>2 DEF ReadsBack, ToSet
  <2> HIDE DEF alive
  <2> QED  BY <1>3, <2>1
<1>6. ASSUME NEW t \in Component
      PROVE  {<<id, c.slots[id][t]>> : id \in {i \in alive : c.slots[i][t] # 0}}
               = {<<c.dense[t][k].owner, k>> : k \in DOMAIN c.dense[t]}
  <2> DEFINE D == c.dense[t]
             L == {<<id, c.slots[id][t]>> : id \in {i \in alive : c.slots[i][t] # 0}}
             R == {<<D[k].owner, k>> : k \in DOMAIN D}
  <2>1. /\ \A k \in DOMAIN D : /\ D[k].owner \in DOMAIN c.slots
                               /\ D[k].owner \notin ToSet(c.free)
                               /\ c.slots[D[k].owner][t] = k
        /\ \A id \in DOMAIN c.slots : c.slots[id][t] # 0 =>
             /\ c.slots[id][t] \in DOMAIN D
             /\ D[c.slots[id][t]].owner = id
    BY DEF ReadsBack
  <2>2. D \in Seq(Element)
    BY <1>1
  <2>3. \A k \in DOMAIN D : k # 0
    <3> HIDE DEF D
    <3> QED  BY <2>2
  <2> HIDE DEF D, alive
  <2>4. ASSUME NEW x \in L PROVE x \in R
    <3>1. PICK id \in alive : c.slots[id][t] # 0 /\ x = <<id, c.slots[id][t]>>
      OBVIOUS
    <3> QED  BY <1>3, <2>1, <3>1
  <2>5. ASSUME NEW x \in R PROVE x \in L
    <3>1. PICK k \in DOMAIN D : x = <<D[k].owner, k>>
      OBVIOUS
    <3> DEFINE id == D[k].owner
    <3>2. id \in alive /\ c.slots[id][t] = k /\ c.slots[id][t] # 0
      BY <1>3, <2>1, <2>3
    <3> HIDE DEF id
    <3>3. x = <<id, c.slots[id][t]>>
      BY <3>1, <3>2 DEF id
    <3> QED  BY <3>2, <3>3
  <2> QED  BY <2>4, <2>5 DEF D
<1> QED  BY <1>4, <1>5, <1>6 DEF Coherent

(* An input is taken for a container when its parts are the whole of it.   *)
LEMMA ContainerRead ==
  ASSUME NEW input \in Stream, ReadContainer(input).ok
  PROVE  LET read == ReadParts(input)
         IN  /\ ReadContainer(input) = read
             /\ read.ok /\ read.cursor = Len(input)
             /\ read.value \in Parts /\ ReadsBack(read.value)
<1> DEFINE read == ReadParts(input)
<1>1. ReadContainer(input) =
        IF read.ok /\ ReadsBack(read.value)
        THEN IF read.ok /\ read.cursor = Len(input) THEN read ELSE Refused
        ELSE Refused
  BY DEF ReadContainer, Accepted, Whole
<1>2. read \in Readings(Parts)
  BY PartsRead
<1> HIDE DEF read
<1>3. read.ok /\ ReadsBack(read.value) /\ read.cursor = Len(input)
      /\ ReadContainer(input) = read
  BY <1>1, ReadingParts
<1>4. read.value \in Parts
  BY <1>2, <1>3, ReadingCases
<1> QED  BY <1>3, <1>4 DEF read

(* A sound container's bytes read back, and no shorter or longer input     *)
(* that begins as they do.                                                 *)
LEMMA SoundReadsExactly ==
  ASSUME NEW c, Sound(c)
  PROVE  ReadsExactly(c)
<1> DEFINE bytes == ContainerBytes(c)
           n == Len(bytes)
           none == 0
<1>1. bytes \in Stream /\ n \in Nat
  BY PartsWritten DEF Stream
<1>2. ReadContainer(bytes) = Read(c, n)
  BY ContainerReadsBack
<1>3. \A input \in Stream : At(input, none, bytes) => ReadParts(input) = Read(c, n)
  BY PartsWritten
<1> HIDE DEF bytes
<1>4. ReadParts(bytes) = Read(c, n)
  <2>1. At(bytes, none, bytes)
    BY <1>1 DEF At
  <2> QED  BY <1>1, <1>3, <2>1
<1>5. ASSUME NEW k \in 0 .. n - 1
      PROVE  ~ ReadContainer(SubSeq(bytes, 1, k)).ok
  <2> DEFINE short == SubSeq(bytes, 1, k)
  <2>1. /\ short \in Stream /\ Len(short) = k
        /\ \A i \in 1 .. k : bytes[i] = short[i]
    BY <1>1 DEF Stream
  <2> HIDE DEF short
  <2>2. Continues(bytes, short)
    BY <1>1, <2>1 DEF Continues
  <2> SUFFICES ASSUME ReadContainer(short).ok PROVE FALSE
    BY DEF short
  <2>3. ReadParts(short).ok /\ ReadParts(short).cursor = k
    BY <2>1, ContainerRead
  <2>4. ReadParts(bytes) = ReadParts(short)
    BY <2>1, <2>2, <2>3, PartsRead DEF Agrees
  <2>5. ReadParts(bytes).cursor = n
    BY <1>4, ReadingParts
  <2>6. n = k
    BY <2>3, <2>4, <2>5
  <2> QED  BY <1>1, <2>6
<1>6. ASSUME NEW b \in 0 .. Byte - 1
      PROVE  ~ ReadContainer(Append(bytes, b)).ok
  <2> DEFINE long == Append(bytes, b)
  <2>1. /\ long \in Stream /\ Len(long) = n + 1
        /\ \A i \in 1 .. n : long[i] = bytes[i]
    <3>1. b \in Symbol
      BY DEF Symbol
    <3> QED  BY <1>1, <3>1 DEF Stream
  <2> HIDE DEF long
  <2>2. At(long, none, bytes)
    BY <1>1, <2>1 DEF At
  <2> SUFFICES ASSUME ReadContainer(long).ok PROVE FALSE
    BY DEF long
  <2>3. ReadParts(long).cursor = n + 1
    BY <2>1, ContainerRead
  <2>4. ReadParts(long) = Read(c, n)
    BY <1>3, <2>1, <2>2
  <2>5. n = n + 1
    BY <2>3, <2>4, ReadingParts
  <2> QED  BY <1>1, <2>5
<1> QED  BY <1>2, <1>5, <1>6 DEF ReadsExactly, bytes

(* Bytes of which one was changed are refused, or make a container whose   *)
(* parts fit together.                                                     *)
LEMMA DamageNoticed ==
  ASSUME NEW c, Sound(c), NEW bytes \in Damaged(ContainerBytes(c)),
         ReadContainer(bytes).ok
  PROVE  Coherent(ReadContainer(bytes).value)
<1> DEFINE was == ContainerBytes(c)
<1>1. was \in Stream
  BY PartsWritten
<1> HIDE DEF was
<1>2. PICK p \in DOMAIN was, b \in 0 .. Byte - 1 : bytes = [was EXCEPT ![p] = b]
  BY DEF Damaged, was
<1>3. bytes \in Stream
  <2>1. b \in Symbol
    BY DEF Symbol
  <2> QED  BY <1>1, <1>2, <2>1 DEF Stream
<1>4. /\ ReadContainer(bytes) = ReadParts(bytes)
      /\ ReadParts(bytes).value \in Parts /\ ReadsBack(ReadParts(bytes).value)
  BY <1>3, ContainerRead
<1> DEFINE v == ReadParts(bytes).value
<1>5. Coherent(v)
  <2>1. v \in Parts /\ ReadsBack(v)
    BY <1>4
  <2> HIDE DEF v
  <2> QED  BY <2>1, ReadPartsCoherent
<1> QED  BY <1>4, <1>5

(* Of sound containers, BytesReadBack holds. *)
LEMMA SoundBytesReadBack ==
  Sound(store) /\ Sound(replica) => BytesReadBack
<1> SUFFICES ASSUME Sound(store), Sound(replica) PROVE BytesReadBack
  OBVIOUS
<1>1. ReadsBack(replica)
  BY DEF Sound
<1>2. ReadsExactly(store)
  BY SoundReadsExactly
<1>3. \A bytes \in Damaged(ContainerBytes(store)) :
        LET read == ReadContainer(bytes)
        IN  read.ok => Coherent(read.value)
  BY DamageNoticed
<1> QED  BY <1>1, <1>2, <1>3 DEF BytesReadBack

-----------------------------------------------------------------------------
(***************************************************************************)
(* The replica stays in step.  What the program is told of an entity by    *)
(* the newest of the changes under way decides whether it will exist.      *)
(***************************************************************************)

WillExist(id) ==
  CASE Recorded(fresh, id) -> ChangeOf(fresh, id).present
    [] ~ Recorded(fresh, id) /\ Recorded(outgoing, id) ->
         ChangeOf(outgoing, id).present
    [] ~ Recorded(fresh, id) /\ ~ Recorded(outgoing, id) ->
         id \in Existing(replica)

Follows(id) == /\ Prospect(id) = Carried(store, id)
               /\ id \in Existing(store) => WillExist(id)

InStep == /\ Sound(store) /\ Sound(replica)
          /\ Distinct(fresh) /\ Distinct(outgoing)
          /\ owed \subseteq ID
          /\ \A id \in ID \ owed : Follows(id)

(* What changes tell of an entity. *)
ToldBy(changes, id) == LET e == ChangeOf(changes, id)
                       IN  IF e.present THEN e.components ELSE <<>>

(* A step of the source that leaves alone what it does not touch.          *)
LEMMA SourceStep ==
  ASSUME InStep, NEW ids \in SUBSET ID, Touched(ids), Sound(store'),
         \A id \in ID \ ids : /\ Carried(store', id) = Carried(store, id)
                              /\ id \in Existing(store') => id \in Existing(store)
  PROVE  InStep'
<1>1. /\ owed' = owed \cup ids /\ replica' = replica
      /\ fresh' = fresh /\ outgoing' = outgoing
  BY DEF Touched
<1>2. ASSUME NEW id \in ID \ owed'
      PROVE  Follows(id)'
  <2>1. id \in ID \ owed /\ id \in ID \ ids
    BY <1>1
  <2>2. Follows(id)
    BY <2>1 DEF InStep
  <2>3. Prospect(id)' = Prospect(id)
    BY <1>1 DEF Prospect
  <2>4. WillExist(id)' <=> WillExist(id)
    BY <1>1 DEF WillExist
  <2> QED  BY <2>1, <2>2, <2>3, <2>4 DEF Follows
<1> QED  BY <1>1, <1>2 DEF InStep

(* Nothing is shown by an empty container. *)
LEMMA EmptyShowsNothing ==
  /\ Existing(Empty) = {}
  /\ \A id \in ID : Carried(Empty, id) = <<>>
<1>1. Sound(Empty)
  BY EmptySound
<1>2. Existing(Empty) = {}
  BY DEF Existing, Exists, Empty
<1> QED  BY <1>1, <1>2, AbsentCarriesNothing

(* create() keeps the replica in step: it owes a record of the entity, whose*)
(* identifier may have been recorded before.                               *)
LEMMA CreateInStep ==
  ASSUME InStep, NEW bundle \in Bundle, SourceCreate(bundle)
  PROVE  InStep'
<1> DEFINE n == NewID(store)
           b == Created(store)
<1>1. /\ Sound(store) /\ n <= MaxSlots /\ store' = Added(b, n, bundle)
      /\ Touched({n})
  BY DEF InStep, SourceCreate, Create
<1>2. Sound(b) /\ n \in ID /\ Exists(b, n)
  BY <1>1, CreatedSound
<1>3. Sound(store')
  BY <1>1, <1>2, AddedSound
<1>4. /\ Existing(b) = Existing(store) \cup {n}
      /\ \A i \in Existing(store) : Carried(b, i) = Carried(store, i)
  BY <1>1, CreatedEntities
<1>5. n \notin Existing(store)
  BY <1>1, CreatedEntities
<1> HIDE DEF n, b
<1>6. /\ Existing(store') = Existing(b)
      /\ \A i \in Existing(b) : i # n => Carried(store', i) = Carried(b, i)
  BY <1>1, <1>2, AddedEntities
<1>7. ASSUME NEW i \in ID \ {n}
      PROVE  /\ Carried(store', i) = Carried(store, i)
             /\ i \in Existing(store') => i \in Existing(store)
  <2>1. CASE i \in Existing(store)
    BY <1>4, <1>5, <1>6, <2>1
  <2>2. CASE i \notin Existing(store)
    <3>1. i \in ID \ Existing(store) /\ i \in ID \ Existing(store')
      BY <1>4, <1>6, <1>7, <2>2
    <3> QED  BY <1>1, <1>3, <3>1, AbsentCarriesNothing
  <2> QED  BY <2>1, <2>2
<1> QED  BY <1>1, <1>2, <1>3, <1>7, SourceStep

(* Operations that change an entity and let it exist.                      *)
LEMMA ChangeInStep ==
  ASSUME InStep, NEW id \in ID, Touched({id}), Sound(store'),
         Existing(store') = Existing(store),
         \A i \in Existing(store) : i # id =>
           Carried(store', i) = Carried(store, i)
  PROVE  InStep'
<1>1. ASSUME NEW i \in ID \ {id}
      PROVE  /\ Carried(store', i) = Carried(store, i)
             /\ i \in Existing(store') => i \in Existing(store)
  <2>1. CASE i \in Existing(store)
    BY <1>1, <2>1
  <2>2. CASE i \notin Existing(store)
    <3>1. Sound(store)
      BY DEF InStep
    <3> QED  BY <1>1, <2>2, <3>1, AbsentCarriesNothing
  <2> QED  BY <2>1, <2>2
<1> QED  BY <1>1, SourceStep

(* So do add(), write() and erase(), which touch one entity. *)
LEMMA OperationsInStep ==
  ASSUME InStep, NEW id \in ID, NEW t \in Component,
         \/ SourceErase(id, t)
         \/ \E v \in Value : SourceAdd(id, t, v) \/ SourceWrite(id, t, v)
  PROVE  InStep'
<1>0. Sound(store)
  BY DEF InStep
<1>1. CASE SourceErase(id, t)
  <2> DEFINE T == {t}
  <2>1. /\ Exists(store, id) /\ store' = Erased(store, id, T)
        /\ Touched({id})
    BY <1>1 DEF SourceErase, Erase
  <2>2. T \in SUBSET Component
    OBVIOUS
  <2> HIDE DEF T
  <2> QED  BY <1>0, <2>1, <2>2, ErasedSound, ErasedEntities, ChangeInStep
<1>2. ASSUME NEW v \in Value, SourceAdd(id, t, v) PROVE InStep'
  <2> DEFINE b == [u \in {t} |-> v]
  <2>1. /\ Exists(store, id) /\ store' = Added(store, id, b)
        /\ Touched({id})
    BY <1>2 DEF SourceAdd, Add
  <2>2. b \in Bundle
    BY OneComponent
  <2> HIDE DEF b
  <2> QED  BY <1>0, <2>1, <2>2, AddedSound, AddedEntities, ChangeInStep
<1>3. ASSUME NEW v \in Value, SourceWrite(id, t, v) PROVE InStep'
  <2> DEFINE b == [u \in {t} |-> v]
  <2>1. /\ Exists(store, id) /\ store' = Written(store, id, b)
        /\ Touched({id})
    BY <1>3 DEF SourceWrite, Write
  <2>2. b \in Bundle
    BY OneComponent
  <2> HIDE DEF b
  <2> QED  BY <1>0, <2>1, <2>2, WrittenSound, WrittenEntities, ChangeInStep
<1> QED  BY <1>1, <1>2, <1>3

(* So does destroy(). *)
LEMMA DestroyInStep ==
  ASSUME InStep, NEW id \in ID, SourceDestroy(id)
  PROVE  InStep'
<1>1. /\ Sound(store) /\ Exists(store, id)
      /\ store' = Destroyed(store, id) /\ Touched({id})
  BY DEF InStep, SourceDestroy, Destroy
<1>2. Sound(store')
  BY <1>1, DestroyedSound
<1>3. /\ Existing(store') = Existing(store) \ {id}
      /\ \A i \in Existing(store) : i # id => Carried(store', i) = Carried(store, i)
  BY <1>1, DestroyedEntities
<1>4. ASSUME NEW i \in ID \ {id}
      PROVE  /\ Carried(store', i) = Carried(store, i)
             /\ i \in Existing(store') => i \in Existing(store)
  <2>1. CASE i \in Existing(store)
    BY <1>3, <1>4, <2>1
  <2>2. CASE i \notin Existing(store)
    <3>1. i \in ID \ Existing(store) /\ i \in ID \ Existing(store')
      BY <1>3, <1>4, <2>2
    <3> QED  BY <1>1, <1>2, <3>1, AbsentCarriesNothing
  <2> QED  BY <2>1, <2>2
<1> QED  BY <1>1, <1>2, <1>4, SourceStep

(* clear() owes a record of every entity that existed. *)
LEMMA ClearInStep ==
  ASSUME InStep, SourceClear
  PROVE  InStep'
<1>1. /\ Sound(store) /\ store' = Empty /\ Touched(Existing(store))
  BY DEF InStep, SourceClear, Clear
<1>2. Sound(store')
  BY <1>1, EmptySound
<1>3. ASSUME NEW i \in ID \ Existing(store)
      PROVE  /\ Carried(store', i) = Carried(store, i)
             /\ i \in Existing(store') => i \in Existing(store)
  BY <1>1, <1>3, AbsentCarriesNothing, EmptyShowsNothing
<1>4. Existing(store) \in SUBSET ID
  BY DEF Existing
<1> QED  BY <1>1, <1>2, <1>3, <1>4, SourceStep

(* So does ensure(), after which every identifier is owed a record.        *)
LEMMA EnsureInStep ==
  ASSUME InStep, NEW id \in ID, SourceEnsure(id)
  PROVE  InStep'
<1>1. Sound(store) /\ store' = Ensured(store, id) /\ Touched(ID)
  BY DEF InStep, SourceEnsure, Ensure
<1>2. Sound(store')
  BY <1>1, EnsuredSound
<1> QED  BY <1>1, <1>2, SourceStep

(* record() of an entity, and record_all(). *)
LEMMA RecordInStep ==
  ASSUME InStep, NEW ids \in SUBSET ID,
         RecordedOf(fresh', fresh, store, ids), owed' = owed \ ids,
         UNCHANGED <<store, replica, outgoing>>
  PROVE  InStep'
<1>1. /\ store' = store /\ replica' = replica /\ outgoing' = outgoing
      /\ Sound(store) /\ Distinct(fresh')
  BY DEF InStep, RecordedOf
<1>2. ASSUME NEW i \in ID \ owed'
      PROVE  Follows(i)'
  <2>1. CASE i \in ids
    <3>1. /\ Recorded(fresh', i)
          /\ ChangeOf(fresh', i).present <=> i \in Existing(store)
          /\ ChangeOf(fresh', i).components = Carried(store, i)
      BY <1>2, <2>1 DEF RecordedOf
    <3>2. /\ Prospect(i)' = ToldBy(fresh', i)
          /\ WillExist(i)' <=> ChangeOf(fresh', i).present
      <4>1. Recorded(fresh, i)'
        BY <3>1
      <4>2. /\ Prospect(i)' = ToldBy(fresh, i)'
            /\ WillExist(i)' <=> ChangeOf(fresh, i).present'
        BY <4>1 DEF Prospect, WillExist, ToldBy
      <4> QED  BY <4>2
    <3>3. ToldBy(fresh', i) = Carried(store, i)
      BY <1>1, <1>2, <3>1, AbsentCarriesNothing DEF ToldBy
    <3> QED  BY <1>1, <3>1, <3>2, <3>3 DEF Follows
  <2>2. CASE i \notin ids
    <3>1. i \in ID \ owed
      BY <1>2, <2>2
    <3>2. Follows(i)
      BY <3>1 DEF InStep
    <3>3. /\ Recorded(fresh', i) <=> Recorded(fresh, i)
          /\ Recorded(fresh, i) => ChangeOf(fresh', i) = ChangeOf(fresh, i)
      BY <1>2, <2>2 DEF RecordedOf
    <3>4. Prospect(i)' = Prospect(i) /\ (WillExist(i)' <=> WillExist(i))
      <4>1. CASE Recorded(fresh, i)
        BY <1>1, <3>3, <4>1 DEF Prospect, WillExist
      <4>2. CASE ~ Recorded(fresh, i)
        BY <1>1, <3>3, <4>2 DEF Prospect, WillExist
      <4> QED  BY <4>1, <4>2
    <3> QED  BY <1>1, <3>2, <3>4 DEF Follows
  <2> QED  BY <2>1, <2>2
<1> QED  BY <1>1, <1>2 DEF InStep

(* Changes that are merged go on telling what they told. *)
LEMMA MergeInStep ==
  ASSUME InStep, MergeChanges
  PROVE  InStep'
<1>1. /\ outgoing' = Merge(outgoing, fresh) /\ fresh' = <<>>
      /\ store' = store /\ replica' = replica /\ owed' = owed
      /\ Distinct(fresh) /\ Distinct(outgoing)
  BY DEF InStep, MergeChanges
<1>2. /\ Distinct(outgoing')
      /\ \A id \in ID :
           /\ Recorded(outgoing', id)
                <=> Recorded(outgoing, id) \/ Recorded(fresh, id)
           /\ Recorded(fresh, id) => ChangeOf(outgoing', id) = ChangeOf(fresh, id)
           /\ Recorded(outgoing, id) /\ ~ Recorded(fresh, id) =>
                ChangeOf(outgoing', id) = ChangeOf(outgoing, id)
  BY <1>1, MergeFollows
<1>3. Distinct(fresh') /\ \A id : ~ Recorded(fresh', id)
  BY <1>1 DEF Distinct, Recorded
<1>4. ASSUME NEW id \in ID \ owed'
      PROVE  Follows(id)'
  <2>1. id \in ID /\ Follows(id)
    BY <1>1 DEF InStep
  <2>2. Prospect(id)' = Prospect(id) /\ (WillExist(id)' <=> WillExist(id))
    <3>1. CASE Recorded(fresh, id)
      BY <1>1, <1>2, <1>3, <2>1, <3>1 DEF Prospect, WillExist
    <3>2. CASE ~ Recorded(fresh, id) /\ Recorded(outgoing, id)
      BY <1>1, <1>2, <1>3, <2>1, <3>2 DEF Prospect, WillExist
    <3>3. CASE ~ Recorded(fresh, id) /\ ~ Recorded(outgoing, id)
      BY <1>1, <1>2, <1>3, <2>1, <3>3 DEF Prospect, WillExist
    <3> QED  BY <3>1, <3>2, <3>3
  <2> QED  BY <1>1, <2>1, <2>2 DEF Follows
<1> QED  BY <1>1, <1>2, <1>3, <1>4 DEF InStep

(* Changes that are applied as bytes come true in the replica. *)
LEMMA ApplyInStep ==
  ASSUME InStep, ApplyChanges
  PROVE  InStep'
<1>1. /\ Sound(replica) /\ Distinct(outgoing) /\ Distinct(fresh)
      /\ store' = store /\ owed' = owed /\ fresh' = fresh /\ outgoing' = <<>>
  BY DEF InStep, ApplyChanges
<1>2. replica' = Applied(replica, outgoing)
  <2>1. ReadChanges(ChangesBytes(outgoing))
          = Read(outgoing, Len(ChangesBytes(outgoing)))
    BY <1>1, ChangesReadBack
  <2> QED  BY <2>1 DEF ApplyChanges, Read
<1>3. AppliedOf(replica', replica, outgoing, ID)
  BY <1>1, <1>2, AppliedFollows
<1>4. Distinct(outgoing') /\ \A id : ~ Recorded(outgoing', id)
  BY <1>1 DEF Distinct, Recorded
<1>5. ASSUME NEW id \in ID \ owed'
      PROVE  Follows(id)'
  <2>1. id \in ID /\ Follows(id)
    BY <1>1 DEF InStep
  <2>2. Prospect(id)' = Prospect(id) /\ (WillExist(id) => WillExist(id)')
    <3>1. CASE Recorded(fresh, id)
      BY <1>1, <3>1 DEF Prospect, WillExist
    <3>2. CASE ~ Recorded(fresh, id) /\ Recorded(outgoing, id)
      <4>1. LET e == ChangeOf(outgoing, id)
            IN  /\ Carried(replica', id) = IF e.present THEN e.components
                                           ELSE <<>>
                /\ e.present => id \in Existing(replica')
        BY <1>3, <2>1, <3>2 DEF AppliedOf
      <4> QED  BY <1>1, <1>4, <3>2, <4>1 DEF Prospect, WillExist
    <3>3. CASE ~ Recorded(fresh, id) /\ ~ Recorded(outgoing, id)
      <4>1. /\ Carried(replica', id) = Carried(replica, id)
            /\ id \in Existing(replica) => id \in Existing(replica')
        BY <1>3, <2>1, <3>3 DEF AppliedOf
      <4> QED  BY <1>1, <1>4, <3>3, <4>1 DEF Prospect, WillExist
    <3> QED  BY <3>1, <3>2, <3>3
  <2> QED  BY <1>1, <2>1, <2>2 DEF Follows
<1> QED  BY <1>1, <1>3, <1>4, <1>5 DEF InStep, AppliedOf

(* A new replica, with nothing under way to it. *)
LEMMA ReplacedInStep ==
  ASSUME InStep, store' = store, fresh' = <<>>, outgoing' = <<>>,
         \/ replica' = Empty /\ owed' = Existing(store)
         \/ replica' = store /\ owed' = {}
  PROVE  InStep'
<1>1. Sound(store) /\ Sound(store')
  BY DEF InStep
<1>2. Sound(replica') /\ owed' \subseteq ID
  BY <1>1, EmptySound DEF Existing
<1>3. /\ Distinct(fresh') /\ Distinct(outgoing')
      /\ \A id : ~ Recorded(fresh', id) /\ ~ Recorded(outgoing', id)
  BY DEF Distinct, Recorded
<1>4. ASSUME NEW id \in ID \ owed'
      PROVE  Follows(id)'
  <2>1. /\ Prospect(id)' = Carried(replica', id)
        /\ WillExist(id)' <=> id \in Existing(replica')
    BY <1>3 DEF Prospect, WillExist
  <2>2. CASE replica' = store
    BY <2>1, <2>2 DEF Follows
  <2>3. CASE replica' = Empty /\ owed' = Existing(store)
    <3>1. id \in ID \ Existing(store)
      BY <2>3
    <3>2. Carried(store, id) = <<>> /\ Carried(replica', id) = <<>>
      BY <1>1, <2>3, <3>1, AbsentCarriesNothing, EmptyShowsNothing
    <3> QED  BY <2>1, <3>1, <3>2 DEF Follows
  <2> QED  BY <2>2, <2>3
<1> QED  BY <1>1, <1>2, <1>3, <1>4 DEF InStep

(* Every step keeps the replica in step. *)
LEMMA NextInStep == InStep /\ [Next]_vars => InStep'
<1> SUFFICES ASSUME InStep, [Next]_vars PROVE InStep'
  OBVIOUS
<1>1. CASE \E bundle \in Bundle : SourceCreate(bundle)
  BY <1>1, CreateInStep
<1>2. CASE \E id \in ID : SourceDestroy(id)
  BY <1>2, DestroyInStep
<1>3. CASE \E id \in ID : SourceEnsure(id)
  BY <1>3, EnsureInStep
<1>4. ASSUME NEW id \in ID, RecordOne(id) PROVE InStep'
  <2>1. RecordedOf(Record(fresh, store, id), fresh, store, {id})
    <3>1. Sound(store) /\ Distinct(fresh)
      BY DEF InStep
    <3> QED  BY <3>1, RecordedEntity DEF RecordedOf
  <2>2. /\ RecordedOf(fresh', fresh, store, {id}) /\ owed' = owed \ {id}
        /\ UNCHANGED <<store, replica, outgoing>>
    BY <1>4, <2>1 DEF RecordOne
  <2>3. {id} \in SUBSET ID
    OBVIOUS
  <2> QED  BY <2>2, <2>3, RecordInStep
<1>5. CASE RecordEverything
  <2>1. RecordedOf(RecordAll(fresh, store), fresh, store, Visited(store))
    BY RecordAllFollows DEF InStep
  <2>2. /\ RecordedOf(fresh', fresh, store, Visited(store))
        /\ owed' = owed \ Visited(store)
        /\ UNCHANGED <<store, replica, outgoing>>
    BY <1>5, <2>1 DEF RecordEverything
  <2>3. Visited(store) \in SUBSET ID
    BY DEF Visited, Existing
  <2> QED  BY <2>2, <2>3, RecordInStep
<1>6. CASE \E id \in ID : \E t \in Component :
             \/ SourceErase(id, t)
             \/ \E v \in Value : SourceAdd(id, t, v) \/ SourceWrite(id, t, v)
  BY <1>6, OperationsInStep
<1>7. CASE SourceClear
  BY <1>7, ClearInStep
<1>8. CASE MergeChanges
  BY <1>8, MergeInStep
<1>9. CASE ApplyChanges
  BY <1>9, ApplyInStep
<1>10. CASE Rejoin
  BY <1>10, ReplacedInStep DEF Rejoin
<1>11. CASE JoinBySnapshot
  <2>1. ReadContainer(ContainerBytes(store))
          = Read(store, Len(ContainerBytes(store)))
    BY ContainerReadsBack DEF InStep
  <2>2. /\ replica' = store /\ owed' = {} /\ store' = store
        /\ fresh' = <<>> /\ outgoing' = <<>>
    BY <1>11, <2>1 DEF JoinBySnapshot, Read
  <2> QED  BY <2>2, ReplacedInStep
<1>12. CASE UNCHANGED vars
  BY <1>12 DEF vars, InStep, Follows, Prospect, WillExist
<1> QED  BY <1>1, <1>2, <1>3, <1>4, <1>5, <1>6, <1>7, <1>8, <1>9, <1>10,
            <1>11, <1>12 DEF Next

(* The replica is always in step: the inductive invariant. *)
LEMMA AlwaysInStep == Spec => []InStep
<1>1. Init => InStep
  <2> SUFFICES ASSUME Init PROVE InStep
    OBVIOUS
  <2>1. /\ store = Empty /\ replica = Empty /\ owed = {}
        /\ fresh = <<>> /\ outgoing = <<>>
    BY DEF Init, StoreInit
  <2>2. Distinct(<<>>) /\ \A id : ~ Recorded(<<>>, id)
    BY DEF Distinct, Recorded
  <2>3. ASSUME NEW id \in ID PROVE Follows(id)
    <3>1. Prospect(id) = Carried(replica, id)
      BY <2>1, <2>2 DEF Prospect
    <3>2. id \notin Existing(store)
      BY <2>1, EmptyShowsNothing
    <3> QED  BY <2>1, <3>1, <3>2 DEF Follows
  <2> QED  BY <2>1, <2>2, <2>3, EmptySound DEF InStep
<1> QED  BY <1>1, NextInStep, PTL DEF Spec

(* A replica follows its source through any number of entities, component  *)
(* types, operations, records, merges and joins: Changes::record,          *)
(* record_all, merge and apply, sent as the bytes that binary.hpp writes.  *)
THEOREM ReplicaStaysInStep == Spec => []ReplicaFollows
<1>1. InStep => ReplicaFollows
  <2> SUFFICES ASSUME InStep, NEW id \in ID \ owed
               PROVE  /\ Prospect(id) = Carried(store, id)
                      /\ id \in Existing(store) =>
                           \/ Recorded(fresh, id) \/ Recorded(outgoing, id)
                           \/ Exists(replica, id)
    BY DEF ReplicaFollows
  <2>1. Follows(id)
    BY DEF InStep
  <2> QED  BY <2>1 DEF Follows, WillExist, Existing
<1> QED  BY <1>1, AlwaysInStep, PTL

(* A container reads back from its bytes exactly, from no prefix of them   *)
(* and from nothing longer, and of the bytes with one changed those that   *)
(* are not refused read as a container that fits together: bin::write,     *)
(* bin::read and the checks of component_container's process().            *)
THEOREM BytesReadBackAlways == Spec => []BytesReadBack
<1>1. InStep => BytesReadBack
  BY SoundBytesReadBack DEF InStep
<1> QED  BY <1>1, AlwaysInStep, PTL
=============================================================================
