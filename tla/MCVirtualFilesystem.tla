------------------------ MODULE MCVirtualFilesystem ------------------------
(* Instances of VirtualFilesystem for TLC. *)
EXTENDS VirtualFilesystem, TLC

(* Names are numbers; two directories side by side, with one name each,    *)
(* and room for one of them in the other.                                  *)
MCLocation == {<<>>, <<1>>, <<2>>, <<1, 2>>, <<2, 2>>, <<2, 2, 2>>}
MCContent == {"empty", "old", "new", "mounted"}

MCVolume == {"install", "appdata", "mod"}
Native(v) == [volume |-> v, base |-> Root, handle |-> 0]
(* A directory in a volume is opened, or the root of one.                  *)
Opened(v, path) == [volume |-> v, base |-> path, handle |-> 3]
MCVolumeSource ==
  {Native(v) : v \in MCVolume} \cup {Opened("appdata", Root)}
    \cup {Opened("install", <<1>>), Opened("appdata", <<1>>)}
MCFileSource == {[content |-> "mounted"]}
MCInstall == Native("install")
MCAppdata == Native("appdata")

(* A mod beside the layers of the root or among them, a file in a          *)
(* directory or instead of it.                                             *)
MCMounts == {<<<<2>>, Native("mod")>>, <<<<>>, Native("mod")>>,
             <<<<1, 2>>, [content |-> "mounted"]>>,
             <<<<1>>, [content |-> "mounted"]>>}

Tree(nodes) == [q \in Location |-> IF q \in DOMAIN nodes THEN nodes[q]
                                   ELSE IF q = Root THEN "dir" ELSE "missing"]
Bare == Tree(<<>>)
File == Tree(<<1>> :> "old")
Directory == Tree((<<1>> :> "dir") @@ (<<1, 2>> :> "old"))
Both == Tree((<<1>> :> "dir") @@ (<<1, 2>> :> "old") @@ (<<2>> :> "old"))

MCTrees == {[v \in Volume |-> CASE v = "install" -> pair[1]
                               [] v = "appdata" -> pair[2]
                               [] v = "mod" -> Directory] :
             pair \in {<<Directory, File>>, <<Both, Directory>>,
                      <<Bare, Directory>>}}

(* What may go wrong with a directory that is moved from one volume to the *)
(* other: its copy is not finished; it cannot be removed after what is in  *)
(* it was; nor can the copy.  With the first, what is made for other calls *)
(* is made in part.                                                        *)
Fault(unmade, unwritten, kept) ==
  [unmade |-> unmade, unwritten |-> unwritten, kept |-> kept]
MCFaults ==
  {Fault({<<"appdata", <<1>>>>, <<"appdata", <<2, 2>>>>}, {<<"mod", <<2, 2>>>>}, {}),
   Fault({}, {}, {<<"appdata", <<1>>>>}),
   Fault({}, {}, {<<"appdata", <<1>>>>, <<"mod", <<2, 2>>>>})}
=============================================================================
