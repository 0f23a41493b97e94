----------------------------- MODULE MountProofs -----------------------------
(***************************************************************************)
(* Proofs about the mount table.  The inductive invariant says of any two  *)
(* records that they share no destination unless they are of one kind, and *)
(* that no record lies below a file.                                       *)
(***************************************************************************)
EXTENDS MountTable, SequenceTheorems, TLAPS

Disjoint(table) ==
  \A i, j \in DOMAIN table :
    /\ table[i].destination = table[j].destination
         => IsFile(table[i].source) = IsFile(table[j].source)
    /\ IsFile(table[i].source)
         => ~ Below(table[i].destination, table[j].destination)

TInv == TableTypeOK /\ MountsHeld /\ Disjoint(records)
-----------------------------------------------------------------------------
LEMMA WithKeepsDisjoint ==
  ASSUME NEW table, NEW id, NEW destination, NEW source,
         id \notin DOMAIN table, Disjoint(table),
         \A i \in DOMAIN table :
           /\ destination = table[i].destination
                => IsFile(source) = IsFile(table[i].source)
           /\ IsFile(source) => ~ Below(destination, table[i].destination)
           /\ IsFile(table[i].source)
                => ~ Below(table[i].destination, destination)
  PROVE  Disjoint(With(table, id, destination, source))
<1> DEFINE new == With(table, id, destination, source)
<1>1. /\ DOMAIN new = DOMAIN table \cup {id}
      /\ new[id] = [destination |-> destination, source |-> source]
      /\ \A i \in DOMAIN table : new[i] = table[i]
  BY DEF With
<1>2. ~ Below(destination, destination)
  BY DEF Below
<1> HIDE DEF new
<1>3. Disjoint(new)
  BY <1>1, <1>2 DEF Disjoint
<1> QED BY <1>3 DEF new

LEMMA WithoutKeepsDisjoint ==
  ASSUME NEW table, NEW ids, Disjoint(table)
  PROVE  Disjoint(Without(table, ids))
BY DEF Disjoint, Without

LEMMA WithDomain ==
  ASSUME NEW table, NEW id, NEW destination \in Location, NEW source \in Source,
         table \in [DOMAIN table -> Record]
  PROVE  /\ DOMAIN With(table, id, destination, source) = DOMAIN table \cup {id}
         /\ With(table, id, destination, source)
              \in [DOMAIN table \cup {id} -> Record]
BY DEF With, Record

LEMMA WithoutDomain ==
  ASSUME NEW table, NEW ids, table \in [DOMAIN table -> Record]
  PROVE  /\ DOMAIN Without(table, ids) = DOMAIN table \ ids
         /\ Without(table, ids) \in [DOMAIN table \ ids -> Record]
BY DEF Without

(* What a mount that attach_record() accepts does to the invariant. *)
LEMMA Attached ==
  ASSUME TInv, NEW destination \in Location, NEW source \in Source,
         ~ Conflict(destination, source)
  PROVE  /\ next_id \notin DOMAIN records
         /\ Disjoint(With(records, next_id, destination, source))
<1>1. next_id \notin DOMAIN records
  BY DEF TInv, TableTypeOK
<1> QED BY <1>1, WithKeepsDisjoint DEF TInv, Conflict

LEMMA InitHolds == TableInit => TInv
BY DEF TableInit, TInv, TableTypeOK, MountsHeld, Disjoint, Record

LEMMA MountKeeps ==
  ASSUME TInv, NEW destination \in Location, NEW source \in Source,
         Mount(destination, source)
  PROVE  TInv'
<1> USE DEF TInv
<1>1. Disjoint(records)'
  BY Attached DEF Mount
<1>2. /\ DOMAIN records' = DOMAIN records \cup {next_id}
      /\ records' \in [DOMAIN records \cup {next_id} -> Record]
  BY WithDomain DEF Mount, TableTypeOK
<1>3. TableTypeOK'
  BY <1>2 DEF Mount, TableTypeOK
<1>4. MountsHeld'
  BY <1>2 DEF Mount, MountsHeld, TableTypeOK
<1> QED BY <1>1, <1>3, <1>4

LEMMA UnmountKeeps ==
  ASSUME TInv, NEW id \in held, Unmount(id)
  PROVE  TInv'
<1> USE DEF TInv
<1>1. Disjoint(records)'
  BY WithoutKeepsDisjoint DEF Unmount
<1>2. /\ DOMAIN records' = DOMAIN records \ {id}
      /\ records' \in [DOMAIN records \ {id} -> Record]
  BY WithoutDomain DEF Unmount, TableTypeOK
<1>3. TableTypeOK'
  BY <1>2 DEF Unmount, TableTypeOK
<1>4. MountsHeld'
  BY <1>2 DEF Unmount, MountsHeld
<1> QED BY <1>1, <1>3, <1>4

LEMMA ReassignKeeps ==
  ASSUME TInv, NEW id \in held, NEW destination \in Location,
         NEW source \in Source, Reassign(id, destination, source)
  PROVE  TInv'
<1> USE DEF TInv
<1> DEFINE more == With(records, next_id, destination, source)
<1>1. /\ Disjoint(more) /\ next_id \notin DOMAIN records
  BY Attached DEF Reassign
<1>2. /\ DOMAIN more = DOMAIN records \cup {next_id}
      /\ more \in [DOMAIN more -> Record]
  BY WithDomain DEF TableTypeOK
<1>3. records' = Without(more, {id}) /\ next_id' = next_id + 1
      /\ held' = (held \ {id}) \cup {next_id} /\ system' = system
  BY DEF Reassign
<1> HIDE DEF more
<1>4. Disjoint(records)'
  BY <1>1, <1>3, WithoutKeepsDisjoint
<1>5. /\ DOMAIN records' = DOMAIN more \ {id}
      /\ records' \in [DOMAIN more \ {id} -> Record]
  BY <1>2, <1>3, WithoutDomain
<1>6. TableTypeOK'
  <2>1. next_id \in Nat \ {0} /\ next_id' \in Nat \ {0}
    BY <1>3 DEF TableTypeOK
  <2>2. DOMAIN records' \subseteq 1 .. (next_id' - 1)
    BY <1>2, <1>3, <1>5, <2>1 DEF TableTypeOK
  <2>3. records' \in [DOMAIN records' -> Record]
    BY <1>5
  <2>4. system' \subseteq Nat /\ held' \subseteq Nat
    BY <1>3, <2>1 DEF TableTypeOK
  <2> QED BY <2>1, <2>2, <2>3, <2>4 DEF TableTypeOK
<1>7. MountsHeld'
  BY <1>1, <1>2, <1>3, <1>5 DEF MountsHeld
<1> QED BY <1>4, <1>6, <1>7

LEMMA SystemInitKeeps ==
  ASSUME TInv, SystemInit
  PROVE  TInv'
<1> USE DEF TInv
<1> DEFINE one == With(records, next_id, Root, Install)
           two == With(one, next_id + 1, Root, Appdata)
<1>1. /\ Root \in Location /\ Install \in Source /\ Appdata \in Source
      /\ ~ IsFile(Install) /\ ~ IsFile(Appdata)
  BY SourceAssumption, LocationAssumption DEF Root, Source, IsFile
<1>2. /\ Disjoint(one) /\ next_id \notin DOMAIN records
  BY <1>1, Attached DEF SystemInit
<1>3. /\ DOMAIN one = DOMAIN records \cup {next_id}
      /\ one \in [DOMAIN one -> Record]
  BY <1>1, WithDomain DEF TableTypeOK
<1>4. \A i \in DOMAIN one :
        /\ Root = one[i].destination
             => IsFile(Appdata) = IsFile(one[i].source)
        /\ IsFile(Appdata) => ~ Below(Root, one[i].destination)
        /\ IsFile(one[i].source) => ~ Below(one[i].destination, Root)
  <2>1. \A i \in DOMAIN records :
          /\ Root = records[i].destination
               => IsFile(records[i].source) = FALSE
          /\ IsFile(records[i].source) => ~ Below(records[i].destination, Root)
    BY <1>1 DEF SystemInit, Conflict
  <2>2. IsFile(Appdata) = FALSE /\ IsFile(Install) = FALSE
    BY <1>1 DEF IsFile
  <2>3. ~ Below(Root, Root)
    BY DEF Below
  <2> QED BY <2>1, <2>2, <2>3 DEF With
<1>5. next_id + 1 \notin DOMAIN one
  BY <1>3 DEF TableTypeOK
<1>6. records' = two /\ next_id' = next_id + 2
      /\ system' = {next_id, next_id + 1} /\ held' = held /\ system = {}
  BY DEF SystemInit
<1> HIDE DEF one
<1>7. Disjoint(two)
  BY <1>1, <1>2, <1>4, <1>5, WithKeepsDisjoint
<1>8. /\ DOMAIN two = DOMAIN one \cup {next_id + 1}
      /\ two \in [DOMAIN one \cup {next_id + 1} -> Record]
  BY <1>1, <1>3, WithDomain
<1> HIDE DEF two
<1>9. TableTypeOK'
  BY <1>3, <1>6, <1>8 DEF TableTypeOK
<1>10. MountsHeld'
  BY <1>2, <1>3, <1>6, <1>8 DEF MountsHeld, TableTypeOK
<1> QED BY <1>6, <1>7, <1>9, <1>10

LEMMA SystemExitKeeps ==
  ASSUME TInv, SystemExit
  PROVE  TInv'
<1> USE DEF TInv
<1>1. Disjoint(records)'
  BY WithoutKeepsDisjoint DEF SystemExit
<1>2. /\ DOMAIN records' = DOMAIN records \ system
      /\ records' \in [DOMAIN records \ system -> Record]
  BY WithoutDomain DEF SystemExit, TableTypeOK
<1>3. TableTypeOK'
  BY <1>2 DEF SystemExit, TableTypeOK
<1>4. MountsHeld'
  BY <1>2 DEF SystemExit, MountsHeld
<1> QED BY <1>1, <1>3, <1>4

LEMMA TableAlwaysHolds == TableSpec => []TInv
<1>1. TInv /\ [TableNext]_tableVars => TInv'
  <2> SUFFICES ASSUME TInv, [TableNext]_tableVars PROVE TInv'
    OBVIOUS
  <2>1. CASE SystemInit
    BY <2>1, SystemInitKeeps
  <2>2. CASE SystemExit
    BY <2>2, SystemExitKeeps
  <2>3. CASE \E id \in held : Unmount(id)
    BY <2>3, UnmountKeeps
  <2>4. CASE \E d \in Location, s \in Source : Mount(d, s)
    BY <2>4, MountKeeps
  <2>5. CASE \E d \in Location, s \in Source : \E id \in held : Reassign(id, d, s)
    BY <2>5, ReassignKeeps
  <2>6. CASE UNCHANGED tableVars
    BY <2>6 DEF TInv, tableVars, TableTypeOK, MountsHeld
  <2> QED BY <2>1, <2>2, <2>3, <2>4, <2>5, <2>6 DEF TableNext
<1> QED BY <1>1, InitHolds, PTL DEF TableSpec
-----------------------------------------------------------------------------
LEMMA PrefixOfItsLength ==
  ASSUME NEW s \in Seq(Nat), NEW t \in Seq(Nat), IsPrefix(s, t),
         Len(t) <= Len(s)
  PROVE  s = t
<1>1. Len(s) = Len(t) /\ SubSeq(s, 1, Len(s)) = SubSeq(t, 1, Len(s))
  BY DEF IsPrefix
<1>2. SubSeq(s, 1, Len(s)) = s /\ SubSeq(t, 1, Len(t)) = t
  OBVIOUS
<1> QED BY <1>1, <1>2

(* Lookup at the path of a mounted file stops at that path: no record that *)
(* matches it has a longer destination.                                    *)
LEMMA LongestAtFile ==
  ASSUME TInv, NEW id \in DOMAIN records, IsFile(records[id].source)
  PROVE  LET d == records[id].destination
         IN  At(Matching(d)) = {i \in DOMAIN records :
                                  records[i].destination = d}
             /\ Matching(d) # {}
<1> DEFINE d == records[id].destination
           L == Longest(Matching(d))
<1>1. \A i \in DOMAIN records : records[i].destination \in Seq(Nat)
  BY LocationAssumption DEF TInv, TableTypeOK, Record
<1>2. id \in Matching(d)
  BY DEF Matching
<1>3. \A i \in Matching(d) : Len(records[i].destination) <= Len(d)
  BY <1>1 DEF Matching, IsPrefix
<1>4. /\ L \in Matching(d)
      /\ Len(d) <= Len(records[L].destination)
  BY <1>2, <1>3 DEF Longest
<1>5. records[L].destination = d
  <2>1. CASE IsFile(records[L].source)
    BY <1>4, <2>1 DEF Matching
  <2>2. CASE ~ IsFile(records[L].source)
    <3>1. IsPrefix(records[L].destination, d) /\ L \in DOMAIN records
      BY <1>4, <2>2 DEF Matching
    <3> QED BY <3>1, <1>1, <1>4, PrefixOfItsLength
  <2> QED BY <2>1, <2>2
<1> QED BY <1>2, <1>5 DEF At

(* Every mapping has its mount and every mount its mapping. *)
THEOREM MountsAreHeld == TableSpec => []MountsHeld
<1>1. TInv => MountsHeld BY DEF TInv
<1> QED BY <1>1, TableAlwaysHolds, PTL

(* A mounted file is never shadowed: its path leads to it or to a file     *)
(* mounted there later.                                                    *)
THEOREM FilesStayVisible == TableSpec => []FilesVisible
<1>1. TInv => FilesVisible
  <2> SUFFICES ASSUME TInv, NEW id \in DOMAIN records,
                      IsFile(records[id].source)
               PROVE  LET d == records[id].destination
                      IN  /\ At(Matching(d)) # {}
                          /\ \A other \in At(Matching(d)) :
                               IsFile(records[other].source)
                          /\ ~ HasDescendantMount(d)
    BY DEF FilesVisible
  <2>1. At(Matching(records[id].destination)) =
          {i \in DOMAIN records :
             records[i].destination = records[id].destination}
    BY LongestAtFile
  <2> QED BY <2>1 DEF TInv, Disjoint, HasDescendantMount
<1> QED BY <1>1, TableAlwaysHolds, PTL
=============================================================================
