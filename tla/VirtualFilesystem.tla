------------------------- MODULE VirtualFilesystem -------------------------
(***************************************************************************)
(* The namespace of lf::fs: the volumes and files of MountTable looked up, *)
(* listed, written, renamed, copied and moved.                             *)
(*                                                                         *)
(* A volume is a directory tree of the file system, POSIX here: a function *)
(* from paths to "missing", "dir" or the contents of a file.  A call works *)
(* on one snapshot of the table and answers [ok, why, trees].  The devices *)
(* may refuse what it asks of them for some nodes: it then stops there,    *)
(* and what it has done stays done.  Streams, times and sizes are left     *)
(* out: a stream that is opened for writing replaces the contents,         *)
(* whichever way the file was opened.                                      *)
(***************************************************************************)
EXTENDS MountTable, FiniteSets

CONSTANTS Volume,     \* directories of the file system
          Writable,   \* the volumes that are opened read_write
          Content,    \* contents of files, "empty" among them
          Written,    \* those that a program writes
          Trees,      \* what the volumes may hold at first
          Mounts,     \* <<destination, source>> of the mounts a program makes
          Faults,     \* what the devices may refuse during a call
          MaxCalls    \* bound: calls that change the volumes

ASSUME VolumeAssumption ==
  /\ VolumeSource \subseteq [volume : Volume, base : Location, handle : Nat]
  /\ Writable \subseteq Volume
  /\ Written \subseteq Content /\ "empty" \in Content
  /\ \A f \in FileSource : f.content \in Content
  /\ \A t \in Trees : t \in [Volume -> [Location -> Content \cup
                                          {"missing", "dir"}]]
  /\ \A f \in Faults : f \in [{"unmade", "unwritten", "kept"} ->
                               SUBSET (Volume \X Location)]

VARIABLES trees,  \* trees[v][path]: the node of volume v there
          faults, \* <<volume, path>> of the nodes that during the next call
                  \* cannot be made or opened for writing ("unmade"),
                  \* take their contents ("unwritten") or be removed ("kept")
          calls

vars == <<tableVars, trees, faults, calls>>

NoFaults == [kind \in {"unmade", "unwritten", "kept"} |-> {}]
-----------------------------------------------------------------------------
(* One volume. *)

AncestorsOf == [p \in Location |-> {q \in Location : Below(q, p)}]
SubtreeOf == [p \in Location |-> {q \in Location : IsPrefix(p, q)}]

Ancestors(path) == IF path \in Location THEN AncestorsOf[path]
                   ELSE {q \in Location : Below(q, path)}
Subtree(path) == IF path \in Location THEN SubtreeOf[path] ELSE {}

Parent(path) == IF path = Root THEN Root ELSE Front(path)

(* stat(): below a file the error is not "no such file or directory".      *)
Node(tree, path) ==
  IF \E q \in Ancestors(path) : tree[q] \in Content THEN "blocked"
  ELSE IF path \in Location THEN tree[path] ELSE "missing"

Set(tree, paths, node) ==
  [q \in Location |-> IF q \in paths THEN node ELSE tree[q]]

(* A new file needs its directory, save for the root of the volume.        *)
CanCreate(tree, path) ==
  path \in Location /\ path # Root /\ Node(tree, Parent(path)) = "dir"

Done(tree) == [ok |-> TRUE, why |-> "", tree |-> tree]
Failed(tree, why) == [ok |-> FALSE, why |-> why, tree |-> tree]
Ended(tree, ok) == [ok |-> ok, why |-> IF ok THEN "" ELSE "io_error",
                    tree |-> tree]

Refused(kind, volume, path) == <<volume, path>> \in faults[kind]

(* open_file() of a native volume for writing, and what is written.  A     *)
(* file that was opened is "empty" until it has its contents; what may     *)
(* have been written of them before an error is not told apart from that.  *)
Write(volume, tree, path, disposition, content) ==
  LET node == Node(tree, path)
  IN  CASE volume \notin Writable -> Failed(tree, "read_only")
        [] volume \in Writable /\ node = "dir" -> Failed(tree, "not_a_file")
        [] volume \in Writable /\ node \in Content
             /\ disposition = "create_new" -> Failed(tree, "already_exists")
        [] volume \in Writable /\ node = "missing"
             /\ disposition = "truncate_existing" -> Failed(tree, "not_found")
        [] volume \in Writable /\ node = "missing"
             /\ disposition # "truncate_existing" /\ ~ CanCreate(tree, path) ->
             Failed(tree, "io_error")
        [] volume \in Writable /\ Refused("unmade", volume, path) ->
             Failed(tree, "io_error")
        [] volume \in Writable /\ ~ Refused("unmade", volume, path)
             /\ Refused("unwritten", volume, path) ->
             Ended(Set(tree, {path}, "empty"), content = "empty")
        [] OTHER -> Done(Set(tree, {path}, content))

(* Directories are made from the top until one is refused. *)
MakeDirectories(volume, tree, path) ==
  LET refused(q) == tree[q] = "missing" /\ Refused("unmade", volume, q)
      made == {q \in Ancestors(path) \cup {path} :
                 ~ \E a \in Ancestors(q) \cup {q} : refused(a)}
  IN  CASE volume \notin Writable -> Failed(tree, "read_only")
        [] volume \in Writable /\ (\/ path \notin Location
                                   \/ Node(tree, path) \in
                                        Content \cup {"blocked"}) ->
             Failed(tree, "io_error")
        [] OTHER -> Ended(Set(tree, made, "dir"), path \in made)

(* What remove() and remove_all() leave: the nodes they could not remove,  *)
(* or did not come to, and the directories these are in.                   *)
Left(volume, tree, path) ==
  {q \in Subtree(path) : \E k \in Subtree(q) :
                           tree[k] # "missing" /\ Refused("kept", volume, k)}

Removed(tree, path, left) ==
  Ended(Set(tree, Subtree(path) \ left, "missing"), left = {})

Erase(volume, tree, path, recursive) ==
  CASE volume \notin Writable -> Failed(tree, "read_only")
    [] volume \in Writable /\ ~ recursive
         /\ \E q \in Subtree(path) \ {path} : tree[q] # "missing" ->
         Failed(tree, "io_error")
    [] volume \in Writable /\ ~ recursive /\ Node(tree, path) = "missing" ->
         Failed(tree, "not_found")
    [] OTHER -> Removed(tree, path, Left(volume, tree, path))

(* The destination is removed before anything is renamed: free is what     *)
(* came of that.                                                           *)
Renamed(volume, free, from, to) ==
  LET moved == {q \in Subtree(to) :
                  from \o SubSeq(q, Len(to) + 1, Len(q)) \in Location}
  IN  IF \/ ~ free.ok
         \/ Node(free.tree, from) \in {"missing", "blocked"}
         \/ ~ CanCreate(free.tree, to) \/ IsPrefix(from, to)
         \/ Refused("kept", volume, from) \/ Refused("unmade", volume, to)
      THEN Failed(free.tree, "io_error")
      ELSE Done([q \in Location |->
             IF q \in moved
             THEN free.tree[from \o SubSeq(q, Len(to) + 1, Len(q))]
             ELSE IF q \in Subtree(from) THEN "missing" ELSE free.tree[q]])

Rename(volume, tree, from, to, replace) ==
  LET present == Node(tree, to) \notin {"missing", "blocked"}
  IN  IF volume \notin Writable THEN Failed(tree, "read_only")
      ELSE IF present /\ ~ replace THEN Failed(tree, "already_exists")
      ELSE Renamed(volume,
                   IF present THEN Removed(tree, to, Left(volume, tree, to))
                   ELSE Done(tree),
                   from, to)
-----------------------------------------------------------------------------
(* Looking a location up.  A layer is a record at the destination chosen.  *)

(* Where the volume of record id has the location. *)
Within(id, location) ==
  records[id].source.base
    \o SubSeq(location, Len(records[id].destination) + 1, Len(location))

NodeIn(T, id, location) ==
  Node(T[records[id].source.volume], Within(id, location))

IsWritable(id) == records[id].source.volume \in Writable

Found(id) == [ok |-> TRUE, why |-> "", id |-> id]
NotFound(why) == [ok |-> FALSE, why |-> why, id |-> 0]

(* Faulty variant: the oldest layer that has the node. *)
ResolveOldest(T, location) ==
  LET layers == At(Matching(location))
      hits == {id \in layers : \/ IsFile(records[id].source)
                               \/ NodeIn(T, id, location) # "missing"}
  IN  IF hits = {} THEN NotFound("missing") ELSE Found(Min(hits))

(* mount_table::resolve *)
Resolve(T, location) ==
  LET layers == At(Matching(location))
      hits == {id \in layers : \/ IsFile(records[id].source)
                               \/ NodeIn(T, id, location) # "missing"}
      top == Max(hits)
  IN  IF hits = {} THEN NotFound("missing")
      ELSE IF ~ IsFile(records[top].source)
                /\ NodeIn(T, top, location) = "blocked"
           THEN NotFound("blocked")
           ELSE Found(top)

(* Faulty variant: layers that cannot be written are passed over. *)
ResolveAnyWritable(T, location) ==
  LET hits == {id \in At(MatchingVolumes(location)) : IsWritable(id)}
  IN  IF hits = {} THEN NotFound("read_only") ELSE Found(Max(hits))

(* mount_table::resolve_writable *)
ResolveWritable(T, location) ==
  LET hits == {id \in At(MatchingVolumes(location)) :
                 NodeIn(T, id, location) # "missing" \/ IsWritable(id)}
  IN  IF hits = {} THEN NotFound("read_only")
      ELSE IF NodeIn(T, Max(hits), location) = "blocked"
           THEN NotFound("blocked")
           ELSE Found(Max(hits))

(* status(): "file", "dir" or "none". *)
Status(T, location) ==
  LET found == Resolve(T, location)
  IN  CASE found.ok -> IF IsFile(records[found.id].source)
                            \/ NodeIn(T, found.id, location) \in Content
                       THEN "file" ELSE "dir"
        [] ~ found.ok -> IF HasDescendantMount(location) THEN "dir" ELSE "none"

(* What is read of a file that was found in record id.                     *)
Contents(T, id, location) ==
  IF IsFile(records[id].source) THEN records[id].source.content
  ELSE NodeIn(T, id, location)

Read(T, location) == Contents(T, Resolve(T, location).id, location)

IsFileAt(T, location) == Resolve(T, location).ok /\ Status(T, location) = "file"

(* The components a path may go on with. *)
Name == {Last(q) : q \in Location \ {Root}}

(* mount_table::list, as a function from names to the kind of each entry.  *)
(* A layer with a file where others have a directory fails the call.       *)
Mounted(location) ==
  {id \in DOMAIN records : Below(location, records[id].destination)}

MountedBelow(location, n) ==
  {id \in Mounted(location) :
     records[id].destination[Len(location) + 1] = n}

KindOfMount(location, n) ==
  LET first == records[Min(MountedBelow(location, n))]
  IN  IF Len(first.destination) = Len(location) + 1 /\ IsFile(first.source)
      THEN "file" ELSE "dir"

List(T, location) ==
  LET layers == At(MatchingVolumes(location))
      directories == {id \in layers : NodeIn(T, id, location) = "dir"}
      has(n) == {id \in directories :
                   NodeIn(T, id, Append(location, n)) # "missing"}
      names == {n \in Name : has(n) # {} \/ MountedBelow(location, n) # {}}
      kind(n) == IF has(n) = {} THEN KindOfMount(location, n)
                 ELSE IF NodeIn(T, Max(has(n)), Append(location, n)) = "dir"
                      THEN "dir" ELSE "file"
  IN  [ok |-> /\ \A id \in DOMAIN records :
                   IsFile(records[id].source)
                     => records[id].destination # location
              /\ \A id \in layers : NodeIn(T, id, location) \in {"dir", "missing"}
              /\ directories # {} \/ names # {},
       entries |-> [n \in names |-> kind(n)]]
-----------------------------------------------------------------------------
(* The calls that change volumes, on the trees T. *)

Success(T) == [ok |-> TRUE, why |-> "", trees |-> T]
Failure(T, why) == [ok |-> FALSE, why |-> why, trees |-> T]

(* The answer of a volume, for record id. *)
Answer(T, id, answer) ==
  [ok |-> answer.ok, why |-> answer.why,
   trees |-> [T EXCEPT ![records[id].source.volume] = answer.tree]]

(* op on the volume of the layer found. *)
Through(T, found, location, Op(_, _, _)) ==
  IF ~ found.ok THEN Failure(T, found.why)
  ELSE LET v == records[found.id].source.volume
       IN  Answer(T, found.id, Op(v, T[v], Within(found.id, location)))

WriteAll(T, location, disposition, content) ==
  Through(T, ResolveWritable(T, location), location,
          LAMBDA v, tree, path : Write(v, tree, path, disposition, content))

(* write_all_atomic(): the staging file replaces a file, not a directory,  *)
(* and is gone again after an error.                                       *)
WriteAtomic(T, location, content, replace, parents) ==
  LET Op(v, tree, path) ==
        LET made == IF parents THEN MakeDirectories(v, tree, Parent(path))
                    ELSE Done(tree)
            node == Node(made.tree, path)
        IN  CASE v \notin Writable -> Failed(tree, "read_only")
              [] v \in Writable /\ ~ made.ok -> made
              [] v \in Writable /\ made.ok /\ ~ replace
                   /\ node \notin {"missing", "blocked"} ->
                   Failed(made.tree, "already_exists")
              [] v \in Writable /\ made.ok /\ replace /\ node = "dir" ->
                   Failed(made.tree, "io_error")
              [] v \in Writable /\ made.ok /\ Refused("unwritten", v, path) ->
                   Failed(made.tree, "io_error")
              [] OTHER ->
                   Write(v, made.tree, path, "create_or_truncate", content)
  IN  Through(T, ResolveWritable(T, location), location, Op)

CreateDirectories(T, location) ==
  Through(T, ResolveWritable(T, location), location, MakeDirectories)

RemoveNode(T, location, recursive) ==
  LET found == Resolve(T, location)
  IN  IF found.ok /\ IsFile(records[found.id].source)
      THEN Failure(T, "read_only")
      ELSE Through(T, found, location, LAMBDA v, tree, path :
                                         Erase(v, tree, path, recursive))

RenameAt(T, source, destination, replace) ==
  LET from == ResolveWritable(T, source)
      to == ResolveWritable(T, destination)
      handle(id) == <<records[id].source.volume, records[id].source.handle>>
  IN  IF ~ from.ok THEN Failure(T, from.why)
      ELSE IF ~ to.ok THEN Failure(T, to.why)
      ELSE IF handle(from.id) # handle(to.id) THEN Failure(T, "cross_volume")
      ELSE Through(T, from, source, LAMBDA v, tree, path :
             Rename(v, tree, path, Within(to.id, destination), replace))

(* copy_file_contents(): the input is opened, then the output, and only    *)
(* then is the input read: what they share is lost.  An input that cannot  *)
(* be read leaves what an output that cannot be written does.              *)
CopyFile(T, source, destination, replace) ==
  LET input == Resolve(T, source)
      disposition == IF replace THEN "create_or_truncate" ELSE "create_new"
      opened == WriteAll(T, destination, disposition, "empty")
  IN  IF ~ IsFileAt(T, source) THEN Failure(T, "not_a_file")
      ELSE IF ~ opened.ok THEN opened
      ELSE WriteAll(opened.trees, destination, "truncate_existing",
                    Contents(opened.trees, input.id, source))

(* The entries of a directory in ascending order of their names.           *)
Names(entries) == SetToSortSeq(DOMAIN entries, <)

(* The first error ends the copy and leaves what has been copied.          *)
RECURSIVE Copy(_, _, _, _, _)
Copy(T, source, destination, replace, recursive) ==
  CASE Status(T, source) = "none" -> Failure(T, "missing")
    [] Status(T, source) = "file" -> CopyFile(T, source, destination, replace)
    [] Status(T, source) = "dir" ->
         LET made == CreateDirectories(T, destination)
             listed == List(made.trees, source)
         IN  IF ~ made.ok \/ ~ recursive THEN made
             ELSE IF ~ listed.ok THEN Failure(made.trees, "not_a_directory")
             ELSE FoldLeft(LAMBDA sofar, n :
                             IF ~ sofar.ok THEN sofar
                             ELSE Copy(sofar.trees, Append(source, n),
                                       Append(destination, n), replace, TRUE),
                           made, Names(listed.entries))

(* Faulty variant: the copy stays although the source could not be removed. *)
SettledKeepingCopy(copied, removed, destination) ==
  IF copied.ok THEN removed ELSE copied

(* A move across volumes is a copy, and then a removal of the source.      *)
(* Whatever stopped the removal, and however far it had come, the copy is  *)
(* removed then.                                                           *)
Settled(copied, removed, destination) ==
  CASE ~ copied.ok -> copied
    [] copied.ok /\ removed.ok -> removed
    [] OTHER -> [RemoveNode(removed.trees, destination, TRUE) EXCEPT
                  !.ok = FALSE, !.why = removed.why]

Emptied(copied, source, destination) ==
  Settled(copied, RemoveNode(copied.trees, source, TRUE), destination)

Across(renamed, source, destination, replace) ==
  IF renamed.ok \/ renamed.why # "cross_volume" THEN renamed
  ELSE Emptied(Copy(renamed.trees, source, destination, replace, TRUE),
               source, destination)

Move(T, source, destination, replace) ==
  Across(RenameAt(T, source, destination, replace),
         source, destination, replace)
-----------------------------------------------------------------------------
(* Calls stay within the depth of the model, and a directory is not copied *)
(* into itself, where the code does not come to an end.                    *)
Fits(source, destination) ==
  \A q \in Subtree(source) : Status(trees, q) # "none" =>
    destination \o SubSeq(q, Len(source) + 1, Len(q)) \in Location

(* Whatever a call answers, its effect on the trees is there.              *)
Call(answer) == /\ calls < MaxCalls
                /\ calls' = calls + 1
                /\ trees' = answer.trees
                /\ faults' = NoFaults
                /\ UNCHANGED tableVars

(* Something goes wrong with the devices before the next call. *)
DevicesFail == /\ calls < MaxCalls /\ faults = NoFaults
               /\ faults' \in Faults
               /\ UNCHANGED <<tableVars, trees, calls>>

Writing(l, disposition, content) ==
  Call(WriteAll(trees, l, disposition, content))

WritingAtomically(l, content, replace, parents) ==
  Call(WriteAtomic(trees, l, content, replace, parents))

CreatingDirectories(l) == Call(CreateDirectories(trees, l))

Removing(l, recursive) == Call(RemoveNode(trees, l, recursive))

Renaming(source, destination, replace) ==
  /\ calls < MaxCalls /\ Fits(source, destination)
  /\ Call(RenameAt(trees, source, destination, replace))

Copying(source, destination, replace, recursive) ==
  /\ calls < MaxCalls
  /\ Fits(source, destination) /\ ~ Below(source, destination)
  /\ Call(Copy(trees, source, destination, replace, recursive))

Moving(source, destination, replace) ==
  /\ calls < MaxCalls
  /\ Fits(source, destination) /\ ~ Below(source, destination)
  /\ Call(Move(trees, source, destination, replace))

(* open_volume() of a directory, whose handle is new, and its mount.       *)
MountOpened(location, destination) ==
  LET found == Resolve(trees, location)
      source == [volume |-> records[found.id].source.volume,
                 base |-> Within(found.id, location), handle |-> next_id]
  IN  /\ found.ok /\ ~ IsFile(records[found.id].source)
      /\ NodeIn(trees, found.id, location) = "dir"
      /\ source \in VolumeSource
      /\ Mount(destination, source)
      /\ UNCHANGED <<trees, faults, calls>>

Mounting == /\ \/ \E m \in Mounts :
                    \/ Mount(m[1], m[2])
                    \/ \E id \in held : Reassign(id, m[1], m[2])
               \/ \E id \in held : Unmount(id)
               \/ SystemInit \/ SystemExit
            /\ UNCHANGED <<trees, faults, calls>>

Init == TableInit /\ trees \in Trees /\ faults = NoFaults /\ calls = 0

Next ==
  \/ Mounting
  \/ DevicesFail
  \/ \E l, d \in Location : MountOpened(l, d)
  \/ \E l \in Location :
       \/ CreatingDirectories(l)
       \/ \E recursive \in BOOLEAN : Removing(l, recursive)
       \/ \E c \in Written :
            \/ \E replace, parents \in BOOLEAN :
                 WritingAtomically(l, c, replace, parents)
            \/ \E disposition \in {"create_new", "truncate_existing",
                                   "create_or_truncate"} :
                 Writing(l, disposition, c)
  \/ \E s, d \in Location, replace \in BOOLEAN :
       \/ Renaming(s, d, replace) \/ Moving(s, d, replace)
       \/ \E recursive \in BOOLEAN : Copying(s, d, replace, recursive)

Spec == Init /\ [][Next]_vars
-----------------------------------------------------------------------------
Shown(T, l) == IF IsFileAt(T, l) THEN <<"file", Read(T, l)>>
               ELSE <<Status(T, l)>>

MountedAt(l) == {id \in DOMAIN records : records[id].destination = l}

(* The directory of a mounted volume was removed. *)
Lost(id) == /\ ~ IsFile(records[id].source)
            /\ NodeIn(trees, id, records[id].destination) # "dir"

(* One layer has a file where others may have a directory.                 *)
Clash(l) == \E id \in At(MatchingVolumes(l)) :
              NodeIn(trees, id, l) \notin {"dir", "missing"}

(* No directory is mounted twice: each file has one path. *)
Alone ==
  \A i, j \in DOMAIN records :
    (~ IsFile(records[i].source) /\ ~ IsFile(records[j].source) /\ i # j) =>
      records[i].source.volume # records[j].source.volume

(* status() and list() agree, through layers, mounts in mounts and mounts  *)
(* in directories that no volume has: the entries of a directory are the   *)
(* nodes found below it, each of the kind it is listed with.  Except for   *)
(* the mount point of a volume whose directory was removed, which is still *)
(* listed, a mount that covers a node of another kind, and a directory     *)
(* that an older layer has as a file, which list() refuses.                *)
NamespaceCoherent ==
  \A l \in Location :
    LET listed == List(trees, l)
    IN  /\ listed.ok => Status(trees, l) = "dir"
        /\ Status(trees, l) = "dir" => listed.ok \/ Clash(l)
        /\ listed.ok => \A n \in Name :
             LET child == Append(l, n)
             IN  /\ n \in DOMAIN listed.entries =>
                      \/ Status(trees, child) = listed.entries[n]
                      \/ MountedAt(child) # {}
                 /\ Status(trees, child) # "none" => n \in DOMAIN listed.entries
                 /\ (/\ n \in DOMAIN listed.entries
                     /\ Status(trees, child) = "none") =>
                      \E id \in MountedAt(child) : Lost(id)

(* What a write reports as written is what is read, from whichever layer   *)
(* it chose, and no other file is disturbed; except where a mounted file   *)
(* hides the volume that is written.                                       *)
WritesReadBack ==
  \A l \in Location, c \in Written :
    LET after == WriteAll(trees, l, "create_or_truncate", c)
    IN  /\ after.ok /\ ~ (\E id \in MountedAt(l) : IsFile(records[id].source)) =>
             Shown(after.trees, l) = <<"file", c>>
        /\ Alone => \A o \in Location \ Subtree(l) :
             Shown(after.trees, o) = Shown(trees, o)

(* A file or a directory of one layer, with nothing mounted in it, that is *)
(* moved to a free place in a directory.                                   *)
Movable(s, d) ==
  /\ ~ IsPrefix(s, d)
  /\ \A id \in DOMAIN records : /\ ~ IsPrefix(s, records[id].destination)
                                /\ ~ IsPrefix(d, records[id].destination)
  /\ Status(trees, Parent(d)) = "dir"
  /\ Cardinality({id \in At(MatchingVolumes(s)) :
                    NodeIn(trees, id, s) # "missing"}) = 1
  /\ Fits(s, d)

(* The nodes at and below a location that the devices refuse.              *)
RefusedIn(kinds, location) ==
  {o \in Subtree(location) : \E id \in At(MatchingVolumes(o)), k \in kinds :
     Refused(k, records[id].source.volume, Within(id, o))}

(* What is at location o, at or below s or d, after the move has failed.   *)
(* Where it was everything still is; only of a source whose removal was    *)
(* begun and stopped no more is sure to be left than what stopped it.  At  *)
(* the place it was to go to is nothing, unless the devices refused        *)
(* something there: then a part of the copy, its last file unfinished.     *)
LeftAfterFailure(shown, s, d, o) ==
  LET origin == s \o SubSeq(o, Len(d) + 1, Len(o))
      stopped == RefusedIn({"kept"}, s)
  IN  /\ IsPrefix(s, o) =>
           \/ shown = Shown(trees, o)
           \/ /\ shown = <<"none">> /\ stopped # {}
              /\ \A k \in stopped : ~ IsPrefix(o, k)
      /\ IsPrefix(d, o) =>
           \/ shown = <<"none">>
           \/ /\ RefusedIn(DOMAIN faults, d) # {} /\ origin \in Location
              /\ shown \in {Shown(trees, origin), <<"file", "empty">>}

(* A move has all of the source at its new place and nothing of it where   *)
(* it was, or fails, in any of the steps of a rename, or of a copy, the    *)
(* removal of the source and, when that fails, of the copy; a failure      *)
(* leaves no more than LeftAfterFailure says, and no other file is         *)
(* disturbed.  It does not say that nothing is lost: a removal that stops  *)
(* half-way has the copy removed too.                                      *)
MovesAllOrFails ==
  Alone =>
    LET free == {l \in Location : Status(trees, l) = "none"}
    IN  \A d \in free, s \in Location \ free : Movable(s, d) =>
          LET after == Move(trees, s, d, FALSE)
              origin(o) == s \o SubSeq(o, Len(d) + 1, Len(o))
          IN  \A o \in Location :
                IF ~ (IsPrefix(s, o) \/ IsPrefix(d, o))
                THEN Shown(after.trees, o) = Shown(trees, o)
                ELSE IF after.ok
                THEN Shown(after.trees, o) =
                       IF IsPrefix(d, o) /\ origin(o) \in Location
                       THEN Shown(trees, origin(o)) ELSE <<"none">>
                ELSE LeftAfterFailure(Shown(after.trees, o), s, d, o)
=============================================================================
