----------------------------- MODULE ModLoading -----------------------------
(***************************************************************************)
(* lf::Mod (script/mod_loader.cpp): mods are found, mounted, put in the    *)
(* order of their dependencies and loaded by a thread, which the program   *)
(* can cancel at any time.  A step is a section between two places where   *)
(* the thread looks whether it has been cancelled, or shorter.             *)
(***************************************************************************)
EXTENDS TextureAtlas

CONSTANTS
  Name,        \* names of mods
  Catalogs,    \* sequences of mods that the sources of a load can hold
  Reserved,    \* names in use at the root of the namespace
  Installers,  \* number of installers
  MaxLoads     \* bound: calls of load()

(* A mod has a name, a version, whether its source is privileged and       *)
(* whether that is read-only, and dependencies.                            *)
Dependencies ==
  [name : Name, type : {"required", "optional", "forbidden"},
   op : {"=", "!=", ">", ">=", "<", "<=", "any"}, version : Nat]

Mods ==
  [name : Name, version : Nat, privileged : BOOLEAN, read_only : BOOLEAN,
   dependencies : SUBSET Dependencies]

ASSUME ModAssumption ==
  /\ Installers \in Nat /\ MaxLoads \in Nat /\ Reserved \subseteq Name
  /\ Catalogs \subseteq Seq(Mods) /\ Name \subseteq DOMAIN Frames

VARIABLES
  enabled,    \* enabled_mods.yaml: a flag for each mod it knows
  databases,  \* what loading fills
  worker,     \* the loading thread
  build,      \* the texture atlas that the thread builds
  progress,   \* loading_progress
  results,    \* the promised status of each load
  result,     \* loading_result: the load whose result can be taken, or 0
  waiting     \* the call that holds operation_mutex and joins the thread

vars == <<enabled, databases, worker, build, progress, results, result,
          waiting>>

Empty == [mods |-> <<>>, mounted |-> {}, locale |-> {}, prototypes |-> {},
          atlas |-> <<>>]

Idle == [at |-> "idle", load |-> 0, catalog |-> <<>>, mods |-> <<>>,
         left |-> <<>>, status |-> "ok", stop |-> FALSE]

NoCall == [call |-> "none"]

Init ==
  /\ enabled = <<>> /\ databases = Empty /\ worker = Idle
  /\ build = NoBuild
  /\ progress = Root /\ results = <<>> /\ result = 0 /\ waiting = NoCall

-----------------------------------------------------------------------------
(* sort_mods_by_dependency()                                               *)

(* version_compare(); versions are compared as a whole *)
VersionCompare(a, b, op) ==
  CASE op = "=" -> a = b [] op = "!=" -> a # b
    [] op = ">" -> a > b [] op = ">=" -> a >= b
    [] op = "<" -> a < b [] op = "<=" -> a <= b [] op = "any" -> TRUE

Places(mods, dep) == {j \in DOMAIN mods : mods[j].name = dep.name}

(* A dependency of an enabled mod is an error.                             *)
Unmet(mods, dep) ==
  CASE dep.type = "forbidden" ->
         \E j \in Places(mods, dep) :
           VersionCompare(mods[j].version, dep.version, dep.op)
    [] dep.type = "optional" ->
         \E j \in Places(mods, dep) :
           ~ VersionCompare(mods[j].version, dep.version, dep.op)
    [] OTHER -> \A j \in Places(mods, dep) :
                  ~ VersionCompare(mods[j].version, dep.version, dep.op)

(* graph: mod v depends on mod u.                                          *)
DependsOn(mods, v, u) ==
  \E dep \in mods[v].dependencies :
    dep.type # "forbidden" /\ dep.name = mods[u].name

(* What the search knows.                                                  *)
Sofar(mods) ==
  [visited : SUBSET DOMAIN mods, on_stack : SUBSET DOMAIN mods,
   order : Seq(DOMAIN mods), cycle : BOOLEAN]

(* dfs of mod u: a mod is put in order when all that depend on it are;     *)
(* `inner` is the search of those, by a mod and what is known before.      *)
Visit(mods, inner, u, s) ==
  LET follow == [x \in Sofar(mods) \X DOMAIN mods |->
                   LET t == x[1]
                       v == x[2]
                   IN  IF t.cycle \/ ~ DependsOn(mods, v, u) THEN t
                       ELSE IF v \notin t.visited THEN inner[<<v, t>>]
                       ELSE [t EXCEPT !.cycle = v \in t.on_stack]]
      entered == [s EXCEPT !.visited = @ \cup {u}, !.on_stack = @ \cup {u}]
      followed == Iterated(follow, entered, Len(mods))
  IN  IF followed.cycle THEN followed
      ELSE [followed EXCEPT !.on_stack = @ \ {u}, !.order = Append(@, u)]

(* The searches within one another are of different mods: there are never  *)
(* more of them than mods.                                                 *)
Search(mods) ==
  LET Place == DOMAIN mods
      within[depth \in 0 .. Len(mods)] ==
        [x \in Place \X Sofar(mods) |->
           IF depth = 0 THEN x[2]
           ELSE Visit(mods, within[depth - 1], x[1], x[2])]
      from == [x \in Sofar(mods) \X Place |->
                 LET s == x[1]
                     u == x[2]
                 IN  IF s.cycle \/ u \in s.visited THEN s ELSE within[Len(mods)][<<u, s>>]]
      start == [visited |-> {}, on_stack |-> {}, order |-> <<>>,
                cycle |-> FALSE]
  IN  Iterated(from, start, Len(mods))

Sortable(mods) ==
  /\ \A i \in DOMAIN mods : \A dep \in mods[i].dependencies :
       ~ Unmet(mods, dep)
  /\ ~ Search(mods).cycle

(* Faulty variant: dependents come first. *)
SortedBackwards(mods) ==
  LET order == Search(mods).order
  IN  [i \in DOMAIN order |-> mods[order[i]]]

Sorted(mods) ==
  LET order == Reverse(Search(mods).order)
  IN  [i \in DOMAIN order |-> mods[order[i]]]

-----------------------------------------------------------------------------
(* The loading thread: load_sources()                                      *)

At(step) == worker.at = step

Goes(step) == worker' = [worker EXCEPT !.at = step]

(* The rollback of load_sources() runs with what has been loaded so far.   *)
Fails(status) ==
  /\ worker' = [worker EXCEPT !.at = "rollback", !.status = status]
  /\ UNCHANGED <<enabled, databases, build, progress>>

StopsIfCancelled == worker.stop /\ Fails("cancelled")

Continues == ~ worker.stop

(* clear() and the phases *)
Begins ==
  /\ At("begin")
  /\ databases' = Empty /\ build' = NoBuild
  /\ progress' = AddTotal(Begin(Add(Begin(Add(progress, <<99, 1>>)),
                                    <<1, 1, 1, 2, 95>>)), 3)
  /\ Goes("discover")
  /\ UNCHANGED enabled

Discoverable(catalog) ==
  /\ \A i \in DOMAIN catalog : catalog[i].privileged => catalog[i].read_only
  /\ \A i, j \in DOMAIN catalog :
       catalog[i].name = catalog[j].name => i = j

(* Reading a directory or info.yaml may fail.                              *)
Discovers ==
  /\ At("discover")
  /\ \/ StopsIfCancelled
     \/ Continues /\ Fails("error")
     \/ /\ Continues /\ Discoverable(worker.catalog)
        /\ worker' = [worker EXCEPT !.at = "enable", !.mods = worker.catalog]
        /\ progress' = Advance(progress, 1)
        /\ UNCHANGED <<enabled, databases, build>>

Flags(mods) ==
  [n \in {mods[i].name : i \in DOMAIN mods} |->
     IF n \in DOMAIN enabled THEN enabled[n]
     ELSE \E i \in DOMAIN mods : mods[i].name = n /\ mods[i].privileged]

(* sync_enabled_mods(); the file may be written and an error follow.       *)
Enables ==
  /\ At("enable")
  /\ \/ StopsIfCancelled
     \/ Continues /\ Fails("error")
     \/ /\ Continues
        /\ enabled' = Flags(worker.mods)
        /\ \/ worker' = [worker EXCEPT !.at = "mount", !.left = worker.mods]
           \/ worker' = [worker EXCEPT !.at = "rollback", !.status = "error"]
        /\ UNCHANGED <<databases, build, progress>>

Enabled(mods) ==
  Selected(mods, {i \in DOMAIN mods : enabled[mods[i].name]})

(* One mod is mounted at its name, which must be free.                     *)
Mounts ==
  /\ At("mount")
  /\ IF worker.left # <<>>
     THEN LET name == Head(worker.left).name
          IN  \/ Fails("error")
              \/ /\ name \notin Reserved \cup databases.mounted
                 /\ databases' = [databases EXCEPT !.mounted = @ \cup {name}]
                 /\ worker' = [worker EXCEPT !.left = Tail(@)]
                 /\ UNCHANGED <<enabled, build, progress>>
     ELSE /\ worker' = [worker EXCEPT !.at = "sort",
                                      !.mods = Enabled(worker.mods)]
          /\ progress' = Advance(progress, 1)
          /\ UNCHANGED <<enabled, databases, build>>

(* Dependencies, and the language that core's settings name.               *)
Sorts ==
  /\ At("sort")
  /\ \/ StopsIfCancelled
     \/ Continues /\ Fails("error")
     \/ /\ Continues /\ Sortable(worker.mods)
        /\ worker' = [worker EXCEPT !.at = "settings",
                                    !.mods = Sorted(worker.mods)]
        /\ progress' = Advance(AddTotal(NextPhase(Advance(progress, 1)), 2), 1)
        /\ UNCHANGED <<enabled, databases, build>>

Settings ==
  /\ At("settings")
  /\ \/ StopsIfCancelled
     \/ Continues /\ Fails("error")
     \/ /\ Continues
        /\ Goes("locale")
        /\ progress' = AddTotal(NextPhase(Advance(progress, 1)), 1)
        /\ UNCHANGED <<enabled, databases, build>>

(* LoadLocaleFiles() leaves what it has read when a file cannot be read.   *)
Locale ==
  LET names == [i \in DOMAIN worker.mods |-> worker.mods[i].name]
      read == databases' = [databases EXCEPT !.locale = Range(names)]
  IN  /\ At("locale")
      /\ \/ StopsIfCancelled
         \/ /\ Continues
            /\ \E k \in 0 .. Len(names) :
                 databases' = [databases EXCEPT
                                 !.locale = Range(SubSeq(names, 1, k))]
            /\ worker' = [worker EXCEPT !.at = "rollback", !.status = "error"]
            /\ UNCHANGED <<enabled, build, progress>>
         \/ /\ Continues
            /\ read
            /\ worker' = [worker EXCEPT !.at = "scripts", !.left = worker.mods]
            /\ progress' = AddTotal(NextPhase(Advance(progress, 1)),
                                    Len(names) + 1)
            /\ UNCHANGED <<enabled, build>>

(* data.lua of one mod; after the last one loaded_mods is assigned.        *)
Scripts ==
  /\ At("scripts")
  /\ \/ StopsIfCancelled
     \/ /\ Continues /\ worker.left # <<>>
        /\ \/ Fails("error")
           \/ /\ worker' = [worker EXCEPT !.left = Tail(@)]
              /\ progress' = Advance(progress, 1)
              /\ UNCHANGED <<enabled, databases, build>>
     \/ /\ Continues /\ worker.left = <<>>
        /\ databases' = [databases EXCEPT !.mods = worker.mods]
        /\ Goes("prototypes")
        /\ UNCHANGED <<enabled, build, progress>>

(* LoadDataRaw() creates the prototypes one by one, and may stop between.  *)
Prototypes ==
  LET names == Range([i \in DOMAIN worker.mods |-> worker.mods[i].name])
  IN  /\ At("prototypes")
      /\ \/ StopsIfCancelled
         \/ /\ Continues
            /\ \E created \in SUBSET names :
                 databases' = [databases EXCEPT !.prototypes = created]
            /\ worker' = [worker EXCEPT !.at = "rollback", !.status = "error"]
            /\ UNCHANGED <<enabled, build, progress>>
         \/ /\ Continues
            /\ databases' = [databases EXCEPT !.prototypes = names]
            /\ Goes("atlas")
            /\ progress' = Begin(Add(NextPhase(Advance(progress, 1)), <<1>>))
            /\ UNCHANGED <<enabled, build>>

-----------------------------------------------------------------------------
(* prepare_texture_atlas(): the frames of the textures, in order of mods.  *)
Sources ==
  LET Files == UNION {Range(Frames[texture]) : texture \in DOMAIN Frames}
      join == [x \in Seq(Files) \X DOMAIN worker.mods |->
                 x[1] \o Frames[worker.mods[x[2]].name]]
  IN  Iterated(join, <<>>, Len(worker.mods))

BeginsAtlas ==
  /\ At("atlas") /\ build = NoBuild
  /\ \E sources \in {Sources} :
       IF sources = <<>>
       THEN Goes("release") /\ UNCHANGED <<build, progress>>
       ELSE /\ \E frames \in {Inspected(sources)} :
                 /\ \E layout \in {Arranged(frames)} :
                      build' = Built(frames, layout)
                 /\ progress' = Reported(progress, frames)
            /\ UNCHANGED worker
  /\ UNCHANGED <<enabled, databases>>

PoolTakes ==
  /\ build # NoBuild /\ CanTake(build)
  /\ build' = Taken(build)
  /\ UNCHANGED <<enabled, databases, worker, progress>>

PoolEnds ==
  /\ build # NoBuild
  /\ \E g \in build.running : build' = Ended(build, g)
  /\ UNCHANGED <<enabled, databases, worker, progress>>

Uploads ==
  /\ build # NoBuild /\ build.at = "prepare" /\ CanUpload(build)
  /\ build' = Uploaded(build)
  /\ progress' = Advance(progress, Len(build.groups[build.next]))
  /\ UNCHANGED <<enabled, databases, worker>>

(* The texture is complete; the thread asks once more if it is cancelled.  *)
EndsAtlas ==
  /\ build # NoBuild /\ build.at = "prepare"
  /\ build.next > Len(build.groups)
  /\ databases' = [databases EXCEPT !.atlas = build.frames]
  /\ build' = Finalized(build)
  /\ progress' = Finish(Advance(AddTotal(NextPhase(progress), 1), 1))
  /\ Goes("release")
  /\ UNCHANGED enabled

(* A call of the renderer throws; the pool ends all it was given.          *)
AtlasThrows ==
  /\ build # NoBuild /\ build.at = "prepare"
  /\ CanUpload(build) \/ build.next > Len(build.groups)
  /\ build' = [build EXCEPT !.at = "abandoned"]
  /\ UNCHANGED <<enabled, databases, worker, progress>>

AtlasAbandoned ==
  /\ build # NoBuild /\ build.at = "abandoned"
  /\ build.tasks = <<>> /\ build.running = {}
  /\ build' = NoBuild
  /\ worker' = [worker EXCEPT !.at = "rollback", !.status = "error"]
  /\ UNCHANGED <<enabled, databases, progress>>

-----------------------------------------------------------------------------
(* The loading thread: the function given to it by Mod::load()             *)

(* The nodes of load_sources() are destroyed when it returns.              *)
OfLoad == 2
Releases ==
  /\ At("release")
  /\ \/ StopsIfCancelled
     \/ /\ Continues
        /\ worker' = [worker EXCEPT !.at = "install",
                                    !.left = [i \in 1 .. Installers |-> i]]
        /\ progress' = Begin(Unwind(progress, OfLoad))
        /\ UNCHANGED <<enabled, databases, build>>

RollsBack ==
  /\ At("rollback")
  /\ databases' = Empty
  /\ progress' = Unwind(progress, OfLoad)
  /\ Goes("settle")
  /\ UNCHANGED <<enabled, build>>

(* An installer runs, and returns an error or throws.                      *)
Installs ==
  /\ At("install")
  /\ IF worker.left # <<>>
     THEN \/ worker' = [worker EXCEPT !.left = Tail(@)] /\ UNCHANGED progress
          \/ /\ worker' = [worker EXCEPT !.at = "settle", !.status = "error"]
             /\ progress' = Unwind(progress, OfLoad)
     ELSE /\ worker' = [worker EXCEPT
                          !.at = "settle",
                          !.status = IF worker.stop THEN "cancelled" ELSE @]
          /\ progress' = Unwind(progress, OfLoad)
  /\ UNCHANGED <<enabled, databases, build>>

(* Faulty variant: only load_sources() cleans up. *)
SettlesWithoutClear ==
  /\ At("settle") /\ Goes("complete")
  /\ UNCHANGED <<enabled, databases, build, progress>>

Settles ==
  /\ At("settle")
  /\ databases' = IF worker.status = "ok" THEN databases ELSE Empty
  /\ Goes("complete")
  /\ UNCHANGED <<enabled, build, progress>>

Completes ==
  /\ At("complete")
  /\ progress' = Unwind(progress, 1)
  /\ Goes("deliver")
  /\ UNCHANGED <<enabled, databases, build>>

(* promise.set_value(), and the end of the thread *)
Delivers ==
  /\ At("deliver")
  /\ results' = [results EXCEPT ![worker.load] = worker.status]
  /\ worker' = [worker EXCEPT !.at = "idle", !.left = <<>>]
  /\ UNCHANGED <<enabled, databases, build, progress>>

WorkerStep ==
  \/ /\ \/ Begins \/ Discovers \/ Enables \/ Mounts \/ Sorts \/ Settings
        \/ Locale \/ Scripts \/ Prototypes \/ BeginsAtlas \/ Uploads
        \/ EndsAtlas \/ AtlasThrows \/ AtlasAbandoned \/ Releases
        \/ RollsBack \/ Installs \/ Settles \/ Completes
     /\ UNCHANGED <<results, result, waiting>>
  \/ Delivers /\ UNCHANGED <<result, waiting>>

PoolStep ==
  (PoolTakes \/ PoolEnds) /\ UNCHANGED <<results, result, waiting>>

-----------------------------------------------------------------------------
(* The program.  load() and unload() hold operation_mutex while they wait  *)
(* for the thread; the other calls need the mutex.                         *)
program == <<enabled, databases, build, progress, results>>

RequestsStop == worker' = [worker EXCEPT !.stop = TRUE]

CallLoad ==
  /\ waiting = NoCall /\ Len(results) < MaxLoads
  /\ \E catalog \in Catalogs :
       waiting' = [call |-> "load", catalog |-> catalog]
  /\ RequestsStop
  /\ UNCHANGED <<program, result>>

CallUnload ==
  /\ waiting = NoCall
  /\ waiting' = [call |-> "unload"]
  /\ RequestsStop
  /\ UNCHANGED <<program, result>>

Joined(call) == waiting.call = call /\ At("idle")

(* Mod::load() after the join *)
Load ==
  /\ Joined("load")
  /\ results' = Append(results, "pending")
  /\ result' = Len(results')
  /\ progress' = Begin(Add(Root, <<1>>))
  /\ worker' = [Idle EXCEPT !.at = "begin", !.load = Len(results'),
                            !.catalog = waiting.catalog]
  /\ waiting' = NoCall
  /\ UNCHANGED <<enabled, databases, build>>

Unload ==
  /\ Joined("unload")
  /\ databases' = Empty
  /\ waiting' = NoCall
  /\ UNCHANGED <<enabled, worker, build, progress, results, result>>

Cancel ==
  /\ waiting = NoCall
  /\ RequestsStop
  /\ UNCHANGED <<program, result, waiting>>

(* Mod::result() gives the future away.                                    *)
Result ==
  /\ waiting = NoCall /\ result # 0
  /\ result' = 0
  /\ UNCHANGED <<program, worker, waiting>>

(* set_mod_enabled(), called while no load is under way                    *)
SetModEnabled ==
  /\ At("idle") /\ waiting = NoCall
  /\ \E n \in DOMAIN enabled :
       enabled' = [enabled EXCEPT ![n] = ~ enabled[n]]
  /\ UNCHANGED <<databases, worker, build, progress, results, result, waiting>>

Next == WorkerStep \/ PoolStep \/ CallLoad \/ CallUnload \/ Load \/ Unload
        \/ Cancel \/ Result \/ SetModEnabled

(* The threads are scheduled, and what they call returns.                  *)
Spec == /\ Init /\ [][Next]_vars
        /\ WF_vars(WorkerStep) /\ WF_vars(PoolStep)
        /\ WF_vars(Load) /\ WF_vars(Unload)

-----------------------------------------------------------------------------
Nothing == databases = Empty

(* All the mods are mounted and those enabled are loaded entirely.         *)
Everything ==
  LET NamesOf(mods) == Range([i \in DOMAIN mods |-> mods[i].name])
      loaded == NamesOf(databases.mods)
  IN  /\ databases.mounted = NamesOf(worker.catalog)
      /\ At("deliver") => loaded = {n \in databases.mounted : enabled[n]}
      /\ databases.locale = loaded /\ databases.prototypes = loaded
      /\ databases.atlas = Inspected(Sources)

Settled == At("deliver") \/ (At("idle") /\ results # <<>>)

(* A load that failed or was cancelled, at whatever point, leaves nothing, *)
(* not even a mount or a prototype.                                        *)
NothingLeft == Settled /\ worker.status # "ok" => Nothing

(* Whoever has the result of the last load finds all of it in place, or    *)
(* nothing if it failed or was cancelled, and a progress that is complete  *)
(* (tests/script/mod_loader.cpp).  After unload() nothing is left of what  *)
(* was loaded.                                                             *)
AllOrNothing ==
  /\ NothingLeft
  /\ Settled => /\ Complete(Value(progress))
                /\ \/ Everything
                   \/ (At("idle") \/ worker.status # "ok") /\ Nothing

DependenciesMet(mods) ==
  \A i \in DOMAIN mods : \A dep \in mods[i].dependencies :
    /\ dep.type = "required" => Places(mods, dep) # {}
    /\ \A j \in Places(mods, dep) :
         LET suits == VersionCompare(mods[j].version, dep.version, dep.op)
         IN  IF dep.type = "forbidden" THEN ~ suits ELSE suits /\ j < i

(* The list of loaded mods holds what each mod in it requires, in a        *)
(* version that suits it and before it, and nothing that one forbids.      *)
DependenciesFirst == DependenciesMet(databases.mods)

(* Whatever phases the threads add, begin and leave, by failures too, the  *)
(* value that other threads read of a load never falls.                    *)
ProgressNeverFalls ==
  [][Len(results') = Len(results) =>
       Millionths(Value(progress)) <= Millionths(Value(progress'))]_vars

(* While the pool decodes ahead, no more groups are in memory than it has  *)
(* threads, and the one that the builder waits for is among them.          *)
DecodingAhead ==
  build # NoBuild =>
    /\ Len(build.tasks) + Cardinality(build.running \cup build.prepared)
         <= Workers
    /\ build.next <= Len(build.groups) =>
         build.next \in Range(build.tasks) \cup build.running \cup build.prepared

(* Every frame that can be decoded is copied once, no batch is larger than *)
(* the limit but by a single frame, and shaders read the texture only      *)
(* after the last copy, however the pool decodes ahead.                    *)
FramesCopiedOnce ==
  /\ DecodingAhead
  /\ build # NoBuild /\ build.at # "abandoned" =>
       LET copied == build.copies.uploaded \o build.copies.recorded
           taken == {i \in Decodable(build.frames) :
                       \E g \in 1 .. build.next - 1 :
                         i \in Range(build.groups[g])}
       IN  /\ Range(copied) = (IF build.at = "none"
                               THEN Decodable(build.frames) ELSE taken)
           /\ Len(copied) = Cardinality(Range(copied))
           /\ \A batch \in build.copies.batches :
                batch.frames = 1 \/ batch.bytes <= BatchLimit
           /\ build.copies.readable <=> build.at = "none" /\ copied # <<>>

(* On every level of the atlas, what is shown of a frame is written by it  *)
(* alone, and is the average of the texels of its padded pixels below,     *)
(* which repeat those of its part of the image, however frames of any size *)
(* are packed.                                                             *)
FramesKeptApart ==
  build # NoBuild =>
    LET frames == build.frames
        layout == build.layout
        Side(frame, d) == frame.pos[d] .. frame.pos[d] + frame.dim[d] - 1
        Content(frame) == Side(frame, 1) \X Side(frame, 2)
    IN  Packs([i \in DOMAIN frames |-> Padded(frames[i])]) =>
          /\ Arrangement(layout, frames)
          /\ \A i \in DOMAIN frames, level \in 0 .. Levels(layout.extent) - 1 :
               \A texel \in Shown(layout, frames, i, level) :
                 LET points == Averaged(layout, frames, i, level, texel)
                 IN  /\ Writers(layout, frames, level, texel) = {i}
                     /\ Cardinality(points) = PowerOfTwo(level) * PowerOfTwo(level)
                     /\ \A p \in points :
                          ImagePixel(frames[i], p) \in Content(frames[i])

(* A load is not withheld for ever: its result comes, even if it fails,    *)
(* throws or is cancelled, and no call waits for ever with the mutex.      *)
LoadsFinish ==
  /\ \A l \in 1 .. MaxLoads :
       Len(results) >= l ~> Len(results) >= l /\ results[l] # "pending"
  /\ (waiting # NoCall) ~> (waiting = NoCall)
=============================================================================
