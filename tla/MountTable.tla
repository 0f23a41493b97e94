----------------------------- MODULE MountTable -----------------------------
(***************************************************************************)
(* The mount table of lf::fs: files and volumes mounted at absolute paths, *)
(* each held by a mapping, the token that unmounts it when it is dropped.  *)
(* Volumes at one destination are layers, the newest on top.               *)
(*                                                                         *)
(* A path is the sequence of its components.  The vector of mount records  *)
(* is a function from their ids: it is only ever appended to, with ids     *)
(* that grow, so the order of the ids is the order of the records.         *)
(***************************************************************************)
EXTENDS Naturals, Sequences, SequencesExt, FiniteSetsExt

CONSTANTS Location,      \* absolute paths
          FileSource,    \* files that are mounted
          VolumeSource,  \* volumes that are mounted
          Install,       \* the volumes init() mounts at the root
          Appdata,
          MaxMounts      \* bound: ids given

Source == FileSource \cup VolumeSource

ASSUME SourceAssumption == /\ FileSource \cap VolumeSource = {}
                           /\ {Install, Appdata} \subseteq VolumeSource
ASSUME LocationAssumption == /\ \A l \in Location : l \in Seq(Nat)
                             /\ <<>> \in Location
ASSUME MountsAssumption == MaxMounts \in Nat

VARIABLES records,  \* records[id]: destination and source of a mount
          next_id,
          system,   \* ids in system_mappings
          held      \* ids of the mappings that users hold

tableVars == <<records, next_id, system, held>>

Record == [destination : Location, source : Source]
-----------------------------------------------------------------------------
Root == <<>>

IsFile(source) == source \in FileSource

Below(location, other) == IsPrefix(location, other) /\ location # other

(* Faulty variant: a file may be mounted above what is mounted already. *)
ConflictWithAncestors(destination, source) ==
  \E id \in DOMAIN records :
    LET r == records[id]
    IN  \/ destination = r.destination /\ IsFile(source) # IsFile(r.source)
        \/ IsFile(r.source) /\ Below(r.destination, destination)

(* attach_record() refuses the mount. *)
Conflict(destination, source) ==
  \E id \in DOMAIN records :
    LET r == records[id]
    IN  \/ destination = r.destination /\ IsFile(source) # IsFile(r.source)
        \/ IsFile(source) /\ Below(destination, r.destination)
        \/ IsFile(r.source) /\ Below(r.destination, destination)

With(table, id, destination, source) ==
  [i \in DOMAIN table \cup {id} |->
     IF i = id THEN [destination |-> destination, source |-> source]
     ELSE table[i]]

Without(table, ids) == [i \in DOMAIN table \ ids |-> table[i]]

(* init(): both volumes are there and nothing conflicts, or the mappings   *)
(* made so far are dropped again, which leaves the table as it was.        *)
SystemInit ==
  /\ system = {}
  /\ next_id < MaxMounts
  /\ ~ Conflict(Root, Install)
  /\ records' = With(With(records, next_id, Root, Install),
                     next_id + 1, Root, Appdata)
  /\ next_id' = next_id + 2
  /\ system' = {next_id, next_id + 1}
  /\ UNCHANGED held

SystemExit ==
  /\ system # {}
  /\ records' = Without(records, system)
  /\ system' = {}
  /\ UNCHANGED <<next_id, held>>

(* mount(), whose mapping the user keeps. *)
Mount(destination, source) ==
  /\ next_id <= MaxMounts
  /\ ~ Conflict(destination, source)
  /\ records' = With(records, next_id, destination, source)
  /\ next_id' = next_id + 1
  /\ held' = held \cup {next_id}
  /\ UNCHANGED system

Unmount(id) ==
  /\ id \in held
  /\ records' = Without(records, {id})
  /\ held' = held \ {id}
  /\ UNCHANGED <<next_id, system>>

(* A mapping is assigned the one of a new mount, which is made first.      *)
Reassign(id, destination, source) ==
  /\ id \in held
  /\ next_id <= MaxMounts
  /\ ~ Conflict(destination, source)
  /\ records' = Without(With(records, next_id, destination, source), {id})
  /\ next_id' = next_id + 1
  /\ held' = (held \ {id}) \cup {next_id}
  /\ UNCHANGED system

TableInit == /\ records = <<>> /\ next_id = 1
             /\ system = {} /\ held = {}

TableNext ==
  \/ SystemInit \/ SystemExit
  \/ \E id \in held : Unmount(id)
  \/ \E destination \in Location, source \in Source :
       \/ Mount(destination, source)
       \/ \E id \in held : Reassign(id, destination, source)

TableSpec == TableInit /\ [][TableNext]_tableVars
-----------------------------------------------------------------------------
(* Which records a path is looked up in. *)

(* The longest of the destinations of records ids: all of them are         *)
(* prefixes of one path.                                                   *)
Longest(ids) ==
  CHOOSE id \in ids : \A other \in ids :
    Len(records[other].destination) <= Len(records[id].destination)

Matching(location) ==
  {id \in DOMAIN records :
     IF IsFile(records[id].source) THEN records[id].destination = location
     ELSE IsPrefix(records[id].destination, location)}

MatchingVolumes(location) ==
  {id \in DOMAIN records : /\ ~ IsFile(records[id].source)
                           /\ IsPrefix(records[id].destination, location)}

(* The records at the destination chosen among ids. *)
At(ids) ==
  IF ids = {} THEN {}
  ELSE {id \in DOMAIN records :
          records[id].destination = records[Longest(ids)].destination}

(* A descendant of the location is mounted. *)
HasDescendantMount(location) ==
  \E id \in DOMAIN records : Below(location, records[id].destination)
-----------------------------------------------------------------------------
TableTypeOK ==
  /\ next_id \in Nat \ {0}
  /\ DOMAIN records \subseteq 1 .. (next_id - 1)
  /\ records \in [DOMAIN records -> Record]
  /\ system \subseteq Nat /\ held \subseteq Nat

(* Every mount in the table has a mapping that will take it out, and every *)
(* mapping its mount: none is unmounted twice, and none outlives its token *)
(* through failed mounts, reassignment and exit().                         *)
MountsHeld == /\ system \cup held = DOMAIN records
              /\ system \cap held = {}

(* A mounted file is what its path leads to, whatever is mounted and       *)
(* unmounted around it, and nothing can be mounted below it.               *)
FilesVisible ==
  \A id \in DOMAIN records :
    IsFile(records[id].source) =>
      LET d == records[id].destination
      IN  /\ At(Matching(d)) # {}
          /\ \A other \in At(Matching(d)) : IsFile(records[other].source)
          /\ ~ HasDescendantMount(d)
=============================================================================
