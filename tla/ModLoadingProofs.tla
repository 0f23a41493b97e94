-------------------------- MODULE ModLoadingProofs --------------------------
(* Proofs about ModLoading, for any mods, dependencies, files and threads: *)
(* a load that fails leaves nothing, its promise is kept once, the builder *)
(* of the atlas never waits for a group that nobody decodes, the frames of *)
(* an atlas lie apart, each is copied to it once, what is shown of a frame *)
(* is written by that frame alone, and a load that succeeds has everything *)
(* in its place.                                                           *)
EXTENDS ModLoading, Induction, SequenceTheorems

(* The builder of the atlas works for the loading thread.                  *)
BuilderCalled == build.at # "none" => At("atlas")

FailedClean ==
  worker.at \in {"complete", "deliver", "idle"} /\ worker.status # "ok" =>
    Nothing

Status == {"ok", "error", "cancelled"}
Promised == Status \cup {"pending"}

(* The load under way is the one whose result is not there yet.            *)
OnePromise ==
  /\ results \in Seq(Promised) /\ worker.load \in Nat
  /\ worker.status \in Status
  /\ ~ At("idle") => worker.load \in 1 .. Len(results)
  /\ \A l \in 1 .. Len(results) :
       results[l] = "pending" <=> ~ At("idle") /\ l = worker.load

WorkerFields ==
  DOMAIN worker = {"at", "load", "catalog", "mods", "left", "status", "stop"}

(* The groups from the next one on are, in this order, prepared or being   *)
(* decoded, and in the queue of the pool.                                  *)
LastBegun(b) ==
  LET ahead == b.next + PendingCount(b.groups) - 1
  IN  IF ahead <= Len(b.groups) THEN ahead ELSE Len(b.groups)

Ahead(b) ==
  /\ Len(b.groups) \in Nat /\ b.next \in 1 .. Len(b.groups) + 1
  /\ b.tasks \in Seq(Nat) /\ Len(b.tasks) <= LastBegun(b) + 1 - b.next
  /\ \A k \in 1 .. Len(b.tasks) :
       b.tasks[k] = LastBegun(b) - Len(b.tasks) + k
  /\ b.running \cup b.prepared = b.next .. LastBegun(b) - Len(b.tasks)
  /\ b.running \cap b.prepared = {}

BuildFields ==
  DOMAIN build = {"at", "frames", "layout", "bytes", "groups", "next", "tasks",
                  "running", "prepared", "copies"}

BuilderAhead == build # NoBuild => BuildFields /\ Ahead(build)

MInv == WorkerFields /\ BuilderCalled /\ FailedClean /\ OnePromise
        /\ BuilderAhead

-----------------------------------------------------------------------------
(* The groups are as many as the files.                                    *)
LEMMA GroupsCounted ==
  ASSUME NEW frames
  PROVE  Len(UploadGroups(frames)) \in Nat
<1> DEFINE S == {file \in DOMAIN Extent :
                   \E i \in DOMAIN frames : frames[i].file = file}
           files == SetToSeq(S)
           groups == UploadGroups(frames)
           n == Cardinality(S)
<1>1. IsFiniteSet(S)
  <2>1. IsFiniteSet(DOMAIN Extent)
    BY AtlasAssumption
  <2> QED  BY <2>1, FS_Subset
<1>2. n \in Nat /\ ExistsBijection(1 .. n, S)
  BY <1>1, FS_CardinalityType
<1>3. PICK f \in [1 .. n -> S] : IsInjective(f)
  BY <1>2, Zenon DEF ExistsBijection, Bijection, Injection
<1>4. files \in [1 .. n -> S]
  BY <1>3, Zenon DEF SetToSeq
<1>5. DOMAIN groups = 1 .. n
  BY <1>4 DEF UploadGroups
<1>6. groups \in Seq({groups[g] : g \in 1 .. n})
  <2>1. groups \in [1 .. n -> {groups[g] : g \in 1 .. n}]
    BY <1>4 DEF UploadGroups
  <2> QED  BY <2>1, <1>2, SeqDef
<1> QED  BY <1>6, LenProperties

LEMMA PendingBounded ==
  ASSUME NEW groups, Len(groups) \in Nat
  PROVE  /\ PendingCount(groups) \in 0 .. Len(groups)
         /\ PendingCount(groups) <= Workers
         /\ Len(groups) # 0 => PendingCount(groups) # 0
BY AtlasAssumption DEF PendingCount

LEMMA LastBegunBounded ==
  ASSUME NEW b, Ahead(b)
  PROVE  /\ LastBegun(b) \in Nat /\ LastBegun(b) <= Len(b.groups)
         /\ LastBegun(b) + 1 - b.next <= Workers
         /\ b.next <= Len(b.groups) => b.next <= LastBegun(b)
         /\ Len(b.tasks) \in Nat
<1>1. /\ Len(b.groups) \in Nat /\ b.next \in 1 .. Len(b.groups) + 1
      /\ b.tasks \in Seq(Nat)
  BY DEF Ahead
<1>2. /\ PendingCount(b.groups) \in 0 .. Len(b.groups)
      /\ PendingCount(b.groups) <= Workers
      /\ Len(b.groups) # 0 => PendingCount(b.groups) # 0
  BY <1>1, PendingBounded
<1>3. LastBegun(b) = IF b.next + PendingCount(b.groups) - 1 <= Len(b.groups)
                     THEN b.next + PendingCount(b.groups) - 1
                     ELSE Len(b.groups)
  BY DEF LastBegun
<1>4. Workers \in Nat \ {0} /\ Len(b.tasks) \in Nat
  BY <1>1, AtlasAssumption
<1> QED  BY <1>1, <1>2, <1>3, <1>4

-----------------------------------------------------------------------------
(* The steps of the builder and of the pool.                               *)
LEMMA BuiltAhead ==
  ASSUME NEW frames, NEW layout, build' = Built(frames, layout)
  PROVE  BuildFields' /\ Ahead(build')
<1> DEFINE groups == UploadGroups(frames)
           P == PendingCount(groups)
<1>1. /\ build'.groups = groups /\ build'.next = 1
      /\ build'.tasks = [g \in 1 .. P |-> g]
      /\ build'.running = {} /\ build'.prepared = {} /\ BuildFields'
  BY DEF Built, BuildFields
<1>2. Len(groups) \in Nat
  BY GroupsCounted
<1>3. P \in 0 .. Len(groups)
  BY <1>2, PendingBounded
<1>4. build'.tasks \in Seq(Nat) /\ Len(build'.tasks) = P
  BY <1>1, <1>3
<1>5. LastBegun(build') = P
  BY <1>1, <1>2, <1>3 DEF LastBegun
<1> HIDE DEF P, groups
<1>6. build'.next .. LastBegun(build') - Len(build'.tasks) = {}
  BY <1>1, <1>3, <1>4, <1>5
<1>7. \A k \in 1 .. Len(build'.tasks) :
        build'.tasks[k] = LastBegun(build') - Len(build'.tasks) + k
  BY <1>1, <1>3, <1>4, <1>5
<1> QED  BY <1>1, <1>2, <1>3, <1>4, <1>5, <1>6, <1>7 DEF Ahead

LEMMA TakenAhead ==
  ASSUME BuildFields, Ahead(build), build.tasks # <<>>, build' = Taken(build)
  PROVE  BuildFields' /\ Ahead(build')
<1> DEFINE k == LastBegun(build) - Len(build.tasks)
<1>1. /\ build'.groups = build.groups /\ build'.next = build.next
      /\ build'.tasks = Tail(build.tasks) /\ build'.prepared = build.prepared
      /\ build'.running = build.running \cup {Head(build.tasks)}
      /\ BuildFields'
  BY DEF Taken, BuildFields
<1>2. /\ build.tasks \in Seq(Nat) /\ Len(build.tasks) \in Nat \ {0}
      /\ Head(build.tasks) = build.tasks[1]
      /\ Tail(build.tasks) \in Seq(Nat)
      /\ Len(Tail(build.tasks)) = Len(build.tasks) - 1
      /\ \A i \in 1 .. Len(build.tasks) - 1 :
           Tail(build.tasks)[i] = build.tasks[i + 1]
  BY DEF Ahead
<1>3. LastBegun(build') = LastBegun(build) /\ LastBegun(build) \in Nat
  BY <1>1, LastBegunBounded DEF LastBegun
<1>4. Head(build.tasks) = k + 1 /\ build.next <= k + 1 /\ k \in Int
      /\ build.next \in Nat
  <2>1. /\ build.next \in Nat
        /\ Len(build.tasks) <= LastBegun(build) + 1 - build.next
        /\ build.tasks[1] = LastBegun(build) - Len(build.tasks) + 1
    BY <1>2 DEF Ahead
  <2> QED  BY <1>2, <1>3, <2>1
<1>5. build.running \cup build.prepared = build.next .. k
  BY DEF Ahead
<1>6. LastBegun(build') - Len(build'.tasks) = k + 1
  BY <1>1, <1>2, <1>3
<1>7. build'.running \cup build'.prepared = build'.next .. k + 1
  BY <1>1, <1>4, <1>5
<1>8. build'.running \cap build'.prepared = {}
  <2>1. k + 1 \notin build.next .. k
    BY <1>4
  <2> QED  BY <1>1, <1>4, <1>5, <2>1 DEF Ahead
<1>9. \A i \in 1 .. Len(build'.tasks) : build'.tasks[i] = k + 1 + i
  <2>1. \A i \in 1 .. Len(build.tasks) : build.tasks[i] = k + i
    BY DEF Ahead
  <2> QED  BY <1>1, <1>2, <1>4, <2>1
<1>10. /\ Len(build.groups) \in Nat /\ build.next \in 1 .. Len(build.groups) + 1
       /\ Len(build.tasks) <= LastBegun(build) + 1 - build.next
  BY DEF Ahead
<1>11. Len(build'.tasks) <= LastBegun(build') + 1 - build'.next
  BY <1>1, <1>2, <1>3, <1>10
<1> HIDE DEF k
<1> QED  BY <1>1, <1>2, <1>6, <1>7, <1>8, <1>9, <1>10, <1>11 DEF Ahead

LEMMA EndedAhead ==
  ASSUME BuildFields, Ahead(build), NEW g \in build.running,
         build' = Ended(build, g)
  PROVE  BuildFields' /\ Ahead(build')
<1>1. /\ build'.groups = build.groups /\ build'.next = build.next
      /\ build'.tasks = build.tasks /\ BuildFields'
      /\ build'.running = build.running \ {g}
      /\ build'.prepared = build.prepared \cup {g}
  BY DEF Ended, BuildFields
<1>2. LastBegun(build') = LastBegun(build)
  BY <1>1 DEF LastBegun
<1>3. /\ build'.running \cup build'.prepared
           = build.running \cup build.prepared
      /\ build'.running \cap build'.prepared
           = build.running \cap build.prepared
  BY <1>1 DEF Ahead
<1> QED  BY <1>1, <1>2, <1>3 DEF Ahead

LEMMA UploadedAhead ==
  ASSUME BuildFields, Ahead(build), CanUpload(build), build' = Uploaded(build)
  PROVE  BuildFields' /\ Ahead(build')
<1> DEFINE k == LastBegun(build) - Len(build.tasks)
           G == Len(build.groups)
           P == PendingCount(build.groups)
           begun == Begun(build)
<1>1. /\ build'.groups = build.groups /\ build'.next = build.next + 1
      /\ build'.tasks = build.tasks \o begun /\ BuildFields'
      /\ build'.running = build.running
      /\ build'.prepared = build.prepared \ {build.next}
  BY DEF Uploaded, BuildFields
<1>2. /\ build.next <= G /\ build.next \in build.prepared
      /\ G \in Nat /\ build.next \in 1 .. G + 1
      /\ P \in Nat /\ P # 0 /\ build.tasks \in Seq(Nat)
      /\ Len(build.tasks) \in Nat /\ LastBegun(build) \in Nat
  <2>1. /\ build.next <= G /\ build.next \in build.prepared
        /\ G \in Nat /\ build.next \in 1 .. G + 1 /\ build.tasks \in Seq(Nat)
    BY DEF CanUpload, Ahead
  <2>2. Len(build.tasks) \in Nat /\ LastBegun(build) \in Nat
    BY LastBegunBounded
  <2>3. P \in 0 .. G /\ (G # 0 => P # 0)
    BY <2>1, PendingBounded
  <2> HIDE DEF P
  <2> QED  BY <2>1, <2>2, <2>3
<1>3. /\ begun \in Seq(Nat) /\ Len(begun) \in {0, 1}
      /\ LastBegun(build') = LastBegun(build) + Len(begun)
      /\ Len(begun) = 1 => begun[1] = LastBegun(build) + 1
  <2>1. LastBegun(build') = IF build.next + P <= G THEN build.next + P ELSE G
    <3>1. LastBegun(build') = IF build.next + 1 + P - 1 <= G
                              THEN build.next + 1 + P - 1 ELSE G
      BY <1>1 DEF LastBegun
    <3>2. build.next \in Nat /\ P \in Nat /\ G \in Nat
      BY <1>2
    <3> HIDE DEF P, G
    <3>3. build.next + 1 + P - 1 = build.next + P
      BY <3>2
    <3> QED  BY <3>1, <3>3
  <2>2. LastBegun(build) = IF build.next + P <= G THEN build.next + P - 1
                                                  ELSE G
    BY <1>2 DEF LastBegun
  <2>3. begun = IF build.next + P <= G THEN <<build.next + P>> ELSE <<>>
    BY DEF Begun
  <2> HIDE DEF P, G, begun
  <2> QED  BY <1>2, <2>1, <2>2, <2>3
<1>4. /\ build'.tasks \in Seq(Nat)
      /\ Len(build'.tasks) = Len(build.tasks) + Len(begun)
      /\ \A i \in 1 .. Len(build.tasks) : build'.tasks[i] = build.tasks[i]
      /\ Len(begun) = 1 => build'.tasks[Len(build.tasks) + 1] = begun[1]
  <2> HIDE DEF begun
  <2> QED  BY <1>1, <1>2, <1>3
<1>5. build.running \cup build.prepared = build.next .. k /\ k \in Int
      /\ build.next \notin build.running
  BY <1>2 DEF Ahead
<1>6. /\ build'.running \cup build'.prepared = build'.next .. k
      /\ build'.running \cap build'.prepared = {}
  <2>1. (build.next .. k) \ {build.next} = build.next + 1 .. k
    BY <1>2, <1>5
  <2>2. build.running \cap build.prepared = {}
    BY DEF Ahead
  <2> HIDE DEF k
  <2> QED  BY <1>1, <1>5, <2>1, <2>2
<1>7. LastBegun(build') - Len(build'.tasks) = k
  <2> HIDE DEF begun
  <2> QED  BY <1>2, <1>3, <1>4
<1>8. \A i \in 1 .. Len(build'.tasks) : build'.tasks[i] = k + i
  <2>1. \A i \in 1 .. Len(build.tasks) : build.tasks[i] = k + i
    BY DEF Ahead
  <2>2. LastBegun(build) + 1 = k + (Len(build.tasks) + 1)
    BY <1>2
  <2>3. k \in Int
    BY <1>2
  <2> HIDE DEF begun, k, G, P
  <2> TAKE i \in 1 .. Len(build'.tasks)
  <2>4. CASE i \in 1 .. Len(build.tasks)
    BY <2>4, <1>4, <2>1
  <2>5. CASE i = Len(build.tasks) + 1 /\ Len(begun) = 1
    BY <2>5, <1>3, <1>4, <2>2
  <2>6. i \in 1 .. Len(build.tasks) \/ (i = Len(build.tasks) + 1 /\ Len(begun) = 1)
    <3>1. CASE Len(begun) = 0
      <4>1. Len(build'.tasks) = Len(build.tasks)
        BY <3>1, <1>2, <1>4
      <4> QED  BY <4>1
    <3>2. CASE Len(begun) = 1
      <4>1. Len(build'.tasks) = Len(build.tasks) + 1
        BY <3>2, <1>4
      <4>2. Len(build.tasks) \in Nat
        BY <1>2
      <4> QED  BY <3>2, <4>1, <4>2
    <3> QED  BY <3>1, <3>2, <1>3
  <2> QED  BY <2>4, <2>5, <2>6
<1>9. Len(build'.tasks) <= LastBegun(build') + 1 - build'.next
  <2>1. k \in Int /\ build.next <= k
    BY <1>2, <1>5
  <2>2. LastBegun(build') - Len(build'.tasks) = k
    BY <1>7
  <2>3. build'.next = build.next + 1 /\ build.next \in Nat
    BY <1>1, <1>2
  <2>4. LastBegun(build') \in Int /\ Len(build'.tasks) \in Int
    <3> HIDE DEF begun
    <3> QED  BY <1>2, <1>3, <1>4
  <2> HIDE DEF begun, k
  <2> QED  BY <2>1, <2>2, <2>3, <2>4
<1>10. Len(build'.groups) \in Nat /\ build'.next \in 1 .. Len(build'.groups) + 1
  BY <1>1, <1>2
<1> HIDE DEF k
<1> QED  BY <1>1, <1>4, <1>6, <1>7, <1>8, <1>9, <1>10 DEF Ahead

LEMMA KeptAhead ==
  ASSUME BuildFields, Ahead(build), BuildFields',
         build'.groups = build.groups, build'.next = build.next,
         build'.tasks = build.tasks, build'.running = build.running,
         build'.prepared = build.prepared
  PROVE  Ahead(build')
<1>1. LastBegun(build') = LastBegun(build)
  BY DEF LastBegun
<1> QED  BY <1>1 DEF Ahead

-----------------------------------------------------------------------------
(* Steps within a load.                                                    *)
LEMMA LoadGoesOn ==
  ASSUME MInv, ~ At("idle"), WorkerFields', worker'.at # "idle",
         worker'.load = worker.load, worker'.status \in Status,
         results' = results,
         worker'.at \in {"complete", "deliver"} /\ worker'.status # "ok" =>
           databases' = Empty,
         BuilderCalled', BuilderAhead'
  PROVE  MInv'
<1>1. FailedClean'
  BY DEF FailedClean, Nothing
<1>2. OnePromise'
  BY DEF MInv, OnePromise, At
<1> QED  BY <1>1, <1>2 DEF MInv

LEMMA LoadGoesOnElsewhere ==
  ASSUME MInv, ~ At("idle"), ~ At("atlas"), WorkerFields', worker'.at # "idle",
         worker'.load = worker.load, worker'.status \in Status,
         results' = results, build' \in {build, NoBuild},
         worker'.at \in {"complete", "deliver"} /\ worker'.status # "ok" =>
           databases' = Empty
  PROVE  MInv'
<1>1. build'.at = "none"
  BY DEF MInv, BuilderCalled, NoBuild
<1>2. BuilderCalled'
  BY <1>1 DEF BuilderCalled
<1>3. BuilderAhead'
  BY DEF MInv, BuilderAhead, BuildFields, Ahead, LastBegun
<1> QED  BY <1>2, <1>3, LoadGoesOn

LEMMA PoolStepPreserves == MInv /\ PoolStep => MInv'
<1> SUFFICES ASSUME MInv, PoolStep PROVE MInv'
  OBVIOUS
<1>1. /\ UNCHANGED <<worker, databases, results>>
      /\ build # NoBuild
  BY DEF PoolStep, PoolTakes, PoolEnds
<1>2. BuildFields /\ Ahead(build)
  BY <1>1 DEF MInv, BuilderAhead
<1>3. BuildFields' /\ Ahead(build')
  <2>1. CASE PoolTakes
    BY <1>2, <2>1, TakenAhead DEF PoolTakes, CanTake
  <2>2. CASE PoolEnds
    BY <1>2, <2>2, EndedAhead DEF PoolEnds
  <2> QED  BY <2>1, <2>2 DEF PoolStep
<1>4. build'.at = build.at
  BY <1>2 DEF PoolStep, PoolTakes, PoolEnds, Taken, Ended, BuildFields
<1> QED  BY <1>1, <1>3, <1>4
         DEF MInv, WorkerFields, BuilderCalled, FailedClean, Nothing,
             OnePromise, At, BuilderAhead

(* The steps of the builder *)
LEMMA BuilderStepPreserves ==
  ASSUME MInv, UNCHANGED results,
         BeginsAtlas \/ Uploads \/ EndsAtlas \/ AtlasThrows \/ AtlasAbandoned
  PROVE  MInv'
<1>1. At("atlas") /\ WorkerFields /\ worker.status \in Status
  BY DEF MInv, BuilderCalled, OnePromise, BeginsAtlas, Uploads, EndsAtlas,
         AtlasThrows, AtlasAbandoned, At
<1>2. ~ At("idle")
  BY <1>1 DEF At
<1>3. CASE BeginsAtlas
  <2>1. CASE Sources = <<>>
    BY <1>1, <1>2, <1>3, <2>1, LoadGoesOn
       DEF BeginsAtlas, Goes, WorkerFields, BuilderCalled, BuilderAhead, NoBuild
  <2>2. CASE Sources # <<>>
    <3>1. worker' = worker
      BY <1>3, <2>2 DEF BeginsAtlas
    <3>2. PICK frames \in {Inspected(Sources)} :
            \E layout \in {Arranged(frames)} : build' = Built(frames, layout)
      BY <1>3, <2>2, Zenon DEF BeginsAtlas
    <3>3. PICK layout : build' = Built(frames, layout)
      BY <3>2, Zenon
    <3>4. BuildFields' /\ Ahead(build')
      BY <3>3, BuiltAhead
    <3> QED  BY <1>1, <1>2, <3>1, <3>4, LoadGoesOn
             DEF At, WorkerFields, BuilderCalled, BuilderAhead
  <2> QED  BY <2>1, <2>2
<1>4. CASE Uploads
  <2>1. worker' = worker /\ build' = Uploaded(build) /\ build # NoBuild
        /\ CanUpload(build)
    BY <1>4 DEF Uploads
  <2>2. BuildFields' /\ Ahead(build')
    BY <2>1, UploadedAhead DEF MInv, BuilderAhead
  <2> QED  BY <1>1, <1>2, <2>1, <2>2, LoadGoesOn
           DEF At, WorkerFields, BuilderCalled, BuilderAhead
<1>5. CASE EndsAtlas
  <2>1. build' = Finalized(build) /\ BuildFields /\ Ahead(build)
        /\ worker' = [worker EXCEPT !.at = "release"]
    BY <1>5 DEF EndsAtlas, MInv, BuilderAhead, Goes
  <2>2. BuildFields' /\ Ahead(build') /\ build'.at = "none"
    <3>1. /\ BuildFields' /\ build'.at = "none"
          /\ build'.groups = build.groups /\ build'.next = build.next
          /\ build'.tasks = build.tasks /\ build'.running = build.running
          /\ build'.prepared = build.prepared
      BY <2>1 DEF Finalized, BuildFields
    <3> QED  BY <2>1, <3>1, KeptAhead
  <2> QED  BY <1>1, <1>2, <2>1, <2>2, LoadGoesOn
           DEF At, WorkerFields, BuilderCalled, BuilderAhead
<1>6. CASE AtlasThrows
  <2>1. build' = [build EXCEPT !.at = "abandoned"] /\ BuildFields
        /\ Ahead(build) /\ worker' = worker
    BY <1>6 DEF AtlasThrows, MInv, BuilderAhead
  <2>2. BuildFields' /\ Ahead(build')
    <3>1. /\ BuildFields'
          /\ build'.groups = build.groups /\ build'.next = build.next
          /\ build'.tasks = build.tasks /\ build'.running = build.running
          /\ build'.prepared = build.prepared
      BY <2>1 DEF BuildFields
    <3> QED  BY <2>1, <3>1, KeptAhead
  <2> QED  BY <1>1, <1>2, <2>1, <2>2, LoadGoesOn
           DEF At, WorkerFields, BuilderCalled, BuilderAhead
<1>7. CASE AtlasAbandoned
  BY <1>1, <1>2, <1>7, LoadGoesOn
     DEF AtlasAbandoned, WorkerFields, Status, BuilderCalled, BuilderAhead,
         NoBuild
<1> QED  BY <1>3, <1>4, <1>5, <1>6, <1>7

(* The steps of load_sources() before the atlas, and of the function that  *)
(* calls it; none of them is taken while the builder works.                *)
LEMMA LoadStepPreserves ==
  ASSUME MInv, UNCHANGED results,
         \/ Begins \/ Discovers \/ Enables \/ Mounts \/ Sorts \/ Settings
         \/ Locale \/ Scripts \/ Prototypes \/ Releases \/ RollsBack
         \/ Installs \/ Settles \/ Completes
  PROVE  MInv'
<1>1. /\ WorkerFields /\ worker.status \in Status /\ FailedClean
  BY DEF MInv, OnePromise
<1>2. CASE Begins \/ Discovers \/ Enables \/ Mounts
  <2>1. CASE Begins
    BY <1>1, <2>1, LoadGoesOnElsewhere
       DEF Begins, Goes, At, WorkerFields, Status
  <2>2. CASE Discovers
    BY <1>1, <2>2, LoadGoesOnElsewhere
       DEF Discovers, StopsIfCancelled, Fails, At, WorkerFields, Status
  <2>3. CASE Enables
    BY <1>1, <2>3, LoadGoesOnElsewhere
       DEF Enables, StopsIfCancelled, Fails, At, WorkerFields, Status
  <2>4. CASE Mounts
    BY <1>1, <2>4, LoadGoesOnElsewhere
       DEF Mounts, Fails, At, WorkerFields, Status
  <2> QED  BY <1>2, <2>1, <2>2, <2>3, <2>4
<1>3. CASE Sorts \/ Settings \/ Locale
  <2>1. CASE Sorts
    BY <1>1, <2>1, LoadGoesOnElsewhere
       DEF Sorts, StopsIfCancelled, Fails, At, WorkerFields, Status
  <2>2. CASE Settings
    BY <1>1, <2>2, LoadGoesOnElsewhere
       DEF Settings, StopsIfCancelled, Fails, Goes, At, WorkerFields, Status
  <2>3. CASE Locale
    BY <1>1, <2>3, LoadGoesOnElsewhere
       DEF Locale, StopsIfCancelled, Fails, At, WorkerFields, Status
  <2> QED  BY <1>3, <2>1, <2>2, <2>3
<1>4. CASE Scripts \/ Prototypes
  <2>1. CASE Scripts
    BY <1>1, <2>1, LoadGoesOnElsewhere
       DEF Scripts, StopsIfCancelled, Fails, Goes, At, WorkerFields, Status
  <2>2. CASE Prototypes
    BY <1>1, <2>2, LoadGoesOnElsewhere
       DEF Prototypes, StopsIfCancelled, Fails, Goes, At, WorkerFields, Status
  <2> QED  BY <1>4, <2>1, <2>2
<1>5. CASE Releases \/ RollsBack \/ Installs
  <2>1. CASE Releases
    BY <1>1, <2>1, LoadGoesOnElsewhere
       DEF Releases, StopsIfCancelled, Fails, At, WorkerFields, Status
  <2>2. CASE RollsBack
    BY <1>1, <2>2, LoadGoesOnElsewhere
       DEF RollsBack, Goes, At, WorkerFields, Status
  <2>3. CASE Installs
    BY <1>1, <2>3, LoadGoesOnElsewhere
       DEF Installs, At, WorkerFields, Status
  <2> QED  BY <1>5, <2>1, <2>2, <2>3
<1>6. CASE Settles
  BY <1>1, <1>6, LoadGoesOnElsewhere
     DEF Settles, Goes, At, WorkerFields, Status
<1>7. CASE Completes
  BY <1>1, <1>7, LoadGoesOnElsewhere
     DEF Completes, Goes, At, WorkerFields, Status, FailedClean, Nothing
<1> QED  BY <1>2, <1>3, <1>4, <1>5, <1>6, <1>7

(* The promise is kept when the thread ends. *)
LEMMA DeliversPreserves == MInv /\ Delivers => MInv'
<1> SUFFICES ASSUME MInv, Delivers PROVE MInv'
  OBVIOUS
<1>1. /\ At("deliver") /\ WorkerFields
      /\ results' = [results EXCEPT ![worker.load] = worker.status]
      /\ worker' = [worker EXCEPT !.at = "idle", !.left = <<>>]
      /\ UNCHANGED <<databases, build>>
  BY DEF Delivers, MInv
<1>2. WorkerFields' /\ worker'.at = "idle" /\ worker'.load = worker.load
      /\ worker'.status = worker.status
  BY <1>1 DEF WorkerFields
<1>3. FailedClean'
  BY <1>1, <1>2 DEF MInv, FailedClean, Nothing, At
<1>4. OnePromise'
  <2>1. OnePromise
    BY DEF MInv
  <2>2. results' \in Seq(Promised) /\ Len(results') = Len(results)
    <3>1. results \in Seq(Promised) /\ worker.load \in 1 .. Len(results)
          /\ worker.status \in Status
      BY <1>1, <2>1 DEF OnePromise, At
    <3> QED  BY <1>1, <3>1 DEF Promised
  <2>3. \A l \in 1 .. Len(results) :
          results'[l] = IF l = worker.load THEN worker.status ELSE results[l]
    BY <1>1, <2>1 DEF OnePromise, At
  <2>4. worker.status # "pending" /\ worker.status \in Status
        /\ worker.load \in Nat
    BY <2>1 DEF OnePromise, Status
  <2>5. \A l \in 1 .. Len(results') : results'[l] # "pending"
    BY <1>1, <2>1, <2>2, <2>3, <2>4 DEF OnePromise, At
  <2> QED  BY <1>2, <2>2, <2>4, <2>5 DEF OnePromise, At
<1>5. BuilderCalled' /\ BuilderAhead'
  BY <1>1 DEF MInv, BuilderCalled, BuilderAhead, BuildFields, Ahead, LastBegun,
              At
<1> QED  BY <1>2, <1>3, <1>4, <1>5 DEF MInv

(* The calls of the program *)
LEMMA ProgramPreserves ==
  ASSUME MInv,
         \/ CallLoad \/ CallUnload \/ Load \/ Unload \/ Cancel \/ Result
         \/ SetModEnabled \/ UNCHANGED vars
  PROVE  MInv'
<1>1. build' = build
  BY DEF CallLoad, CallUnload, Load, Unload, Cancel, Result, SetModEnabled,
         vars, program
<1>2. BuilderAhead'
  BY <1>1 DEF MInv, BuilderAhead, BuildFields, Ahead, LastBegun
<1>3. CASE Load
  <2>1. /\ At("idle") /\ results' = Append(results, "pending")
        /\ databases' = databases
        /\ worker' = [Idle EXCEPT !.at = "begin", !.load = Len(results'),
                                  !.catalog = waiting.catalog]
    BY <1>3 DEF Load, Joined
  <2>2. /\ WorkerFields' /\ worker'.at = "begin" /\ worker'.status = "ok"
        /\ worker'.load = Len(results')
    BY <2>1 DEF WorkerFields, Idle
  <2>3. OnePromise /\ build.at = "none"
    BY <2>1 DEF MInv, BuilderCalled, At
  <2>4. /\ results \in Seq(Promised) /\ Len(results) \in Nat
        /\ results' \in Seq(Promised) /\ Len(results') = Len(results) + 1
        /\ \A l \in 1 .. Len(results) : results'[l] = results[l]
        /\ results'[Len(results) + 1] = "pending"
    <3>1. results \in Seq(Promised)
      BY <2>3 DEF OnePromise
    <3>2. "pending" \in Promised
      BY DEF Promised
    <3> QED  BY <2>1, <3>1, <3>2
  <2>5. \A l \in 1 .. Len(results) : results'[l] # "pending"
    BY <2>1, <2>3, <2>4 DEF OnePromise
  <2>6. OnePromise'
    <3>1. \A l \in 1 .. Len(results') :
            results'[l] = "pending" <=> l = Len(results')
      <4> TAKE l \in 1 .. Len(results')
      <4>1. l \in 1 .. Len(results) \/ l = Len(results) + 1
        BY <2>4
      <4> QED  BY <4>1, <2>4, <2>5
    <3>2. "ok" \in Status
      BY DEF Status
    <3>3. Len(results') \in 1 .. Len(results') /\ Len(results') \in Nat
      BY <2>4
    <3> QED  BY <2>2, <2>4, <3>1, <3>2, <3>3 DEF OnePromise, At
  <2> QED  BY <1>1, <1>2, <2>2, <2>3, <2>6
           DEF MInv, FailedClean, BuilderCalled
<1>4. CASE Unload
  BY <1>1, <1>2, <1>4
     DEF Unload, MInv, WorkerFields, BuilderCalled, FailedClean, Nothing,
         OnePromise, At
<1>5. CASE CallLoad \/ CallUnload \/ Cancel
  <2>1. UNCHANGED <<databases, results>>
        /\ worker' = [worker EXCEPT !.stop = TRUE]
    BY <1>5 DEF CallLoad, CallUnload, Cancel, RequestsStop, program
  <2>2. WorkerFields' /\ worker'.at = worker.at /\ worker'.load = worker.load
        /\ worker'.status = worker.status
    BY <2>1 DEF MInv, WorkerFields
  <2> QED  BY <1>1, <1>2, <2>1, <2>2
           DEF MInv, BuilderCalled, FailedClean, Nothing, OnePromise, At
<1>6. CASE Result \/ SetModEnabled \/ UNCHANGED vars
  <2>1. UNCHANGED <<worker, databases, results>>
    BY <1>6 DEF Result, SetModEnabled, vars, program
  <2> QED  BY <1>1, <1>2, <2>1
           DEF MInv, WorkerFields, BuilderCalled, FailedClean, Nothing,
               OnePromise, At
<1> QED  BY <1>3, <1>4, <1>5, <1>6

LEMMA InitHolds == Init => MInv
<1> SUFFICES ASSUME Init PROVE MInv
  OBVIOUS
<1>1. worker = Idle /\ build = NoBuild /\ results = <<>>
  BY DEF Init
<1>2. WorkerFields /\ At("idle") /\ worker.load = 0 /\ worker.status = "ok"
  BY <1>1 DEF WorkerFields, Idle, At
<1>3. BuilderCalled /\ BuilderAhead
  BY <1>1 DEF BuilderCalled, BuilderAhead, NoBuild
<1>4. OnePromise
  <2>1. results \in Seq(Promised) /\ Len(results) = 0
    BY <1>1
  <2> QED  BY <1>2, <2>1 DEF OnePromise, Status
<1> QED  BY <1>2, <1>3, <1>4 DEF MInv, FailedClean

LEMMA StepPreserves == MInv /\ [Next]_vars => MInv'
<1> SUFFICES ASSUME MInv, [Next]_vars PROVE MInv'
  OBVIOUS
<1>1. CASE WorkerStep
  BY <1>1, BuilderStepPreserves, LoadStepPreserves, DeliversPreserves
     DEF WorkerStep
<1>2. CASE PoolStep
  BY <1>2, PoolStepPreserves
<1>3. CASE \/ CallLoad \/ CallUnload \/ Load \/ Unload \/ Cancel \/ Result
           \/ SetModEnabled \/ UNCHANGED vars
  BY <1>3, ProgramPreserves
<1> QED  BY <1>1, <1>2, <1>3 DEF Next

LEMMA Invariance == Spec => []MInv
BY InitHolds, StepPreserves, PTL DEF Spec

-----------------------------------------------------------------------------
(* Whatever a load fails at, whenever it is cancelled, and whatever is     *)
(* called meanwhile, it leaves nothing once its result can be taken.       *)
THEOREM FailuresLeaveNothing == Spec => []NothingLeft
<1>1. MInv => NothingLeft
  BY DEF MInv, FailedClean, NothingLeft, Settled, At
<1> QED  BY <1>1, Invariance, PTL

(* The promise of a load is kept once: its result never changes, and the   *)
(* result of no other load.                                                *)
THEOREM ResultsAreFinal ==
  Spec => [][\A l \in 1 .. Len(results) :
               results[l] # "pending" => results'[l] = results[l]]_vars
<1>1. MInv /\ [Next]_vars =>
        [\A l \in 1 .. Len(results) :
           results[l] # "pending" => results'[l] = results[l]]_vars
  <2> SUFFICES ASSUME MInv, Next, NEW l \in 1 .. Len(results),
                      results[l] # "pending"
               PROVE  results'[l] = results[l]
    BY Zenon
  <2>1. OnePromise
    BY DEF MInv
  <2>2. CASE Delivers
    <3>1. /\ ~ At("idle")
          /\ results' = [results EXCEPT ![worker.load] = worker.status]
      BY <2>2 DEF Delivers, At
    <3>2. l # worker.load
      BY <2>1, <3>1 DEF OnePromise
    <3> QED  BY <2>1, <3>1, <3>2 DEF OnePromise
  <2>3. CASE Load
    <3>1. results' = Append(results, "pending")
      BY <2>3 DEF Load
    <3> QED  BY <2>1, <3>1 DEF OnePromise
  <2>4. CASE UNCHANGED results
    BY <2>4
  <2> QED  BY <2>2, <2>3, <2>4
           DEF Next, WorkerStep, PoolStep, CallLoad, CallUnload, Unload,
               Cancel, Result, SetModEnabled, program
<1> QED  BY <1>1, Invariance, PTL DEF Spec

(* For any number of threads and files: no more groups are decoded ahead   *)
(* than the pool has threads, and the group that the builder takes next is *)
(* queued, being decoded or prepared, so that its wait ends.               *)
THEOREM BuilderIsServed == Spec => []DecodingAhead
<1>1. MInv => DecodingAhead
  <2> SUFFICES ASSUME MInv, build # NoBuild PROVE DecodingAhead
    BY DEF DecodingAhead
  <2> DEFINE k == LastBegun(build) - Len(build.tasks)
             n == build.next
  <2>1. Ahead(build)
    BY DEF MInv, BuilderAhead
  <2>2. /\ build.running \cup build.prepared = n .. k
        /\ n \in Nat /\ k \in Int /\ n <= k + 1
        /\ LastBegun(build) \in Nat /\ Len(build.tasks) \in Nat
        /\ LastBegun(build) + 1 - n <= Workers
        /\ n <= Len(build.groups) => n <= LastBegun(build)
    <3>1. /\ LastBegun(build) \in Nat /\ Len(build.tasks) \in Nat
          /\ LastBegun(build) + 1 - n <= Workers
          /\ n <= Len(build.groups) => n <= LastBegun(build)
      BY <2>1, LastBegunBounded
    <3>2. /\ build.running \cup build.prepared = n .. k /\ n \in Nat
          /\ Len(build.tasks) <= LastBegun(build) + 1 - n
      BY <2>1 DEF Ahead
    <3> QED  BY <3>1, <3>2
  <2>3. Cardinality(n .. k) = k + 1 - n
    <3>1. n \in Int /\ k \in Int /\ n <= k + 1
      BY <2>2
    <3>2. Cardinality(n .. k) = IF n > k THEN 0 ELSE k - n + 1
      BY <3>1, FS_Interval
    <3> HIDE DEF n, k
    <3> QED  BY <3>1, <3>2
  <2>4. Len(build.tasks) + Cardinality(build.running \cup build.prepared)
          <= Workers
    <3>1. Cardinality(build.running \cup build.prepared) = k + 1 - n
      BY <2>2, <2>3
    <3>2. k = LastBegun(build) - Len(build.tasks)
      OBVIOUS
    <3>3. Workers \in Nat
      BY AtlasAssumption
    <3>4. /\ n \in Nat /\ LastBegun(build) \in Nat /\ Len(build.tasks) \in Nat
          /\ LastBegun(build) + 1 - n <= Workers
      BY <2>2
    <3>5. Len(build.tasks) + (k + 1 - n) = LastBegun(build) + 1 - n
      BY <3>2, <3>4
    <3> HIDE DEF k, n
    <3> QED  BY <3>1, <3>3, <3>4, <3>5
  <2>5. ASSUME n <= Len(build.groups), n \notin n .. k
        PROVE  n \in Range(build.tasks)
    <3>1. k = n - 1 /\ Len(build.tasks) # 0
      <4>1. /\ n \in Nat /\ k \in Int /\ n <= k + 1 /\ n <= LastBegun(build)
            /\ LastBegun(build) \in Nat /\ Len(build.tasks) \in Nat
        BY <2>2, <2>5
      <4>2. k = LastBegun(build) - Len(build.tasks)
        OBVIOUS
      <4> HIDE DEF k, n
      <4>3. k = n - 1
        BY <2>5, <4>1
      <4> QED  BY <4>1, <4>2, <4>3
    <3>2. build.tasks \in Seq(Nat) /\ 1 \in DOMAIN build.tasks
      BY <2>1, <2>2, <3>1 DEF Ahead
    <3>3. build.tasks[1] = n
      BY <2>1, <2>2, <3>1 DEF Ahead
    <3> QED  BY <3>2, <3>3 DEF Range
  <2> QED  BY <2>2, <2>4, <2>5 DEF DecodingAhead
<1> QED  BY <1>1, Invariance, PTL

-----------------------------------------------------------------------------
(* Proofs about the levels of an atlas, for any padding, any sizes of its  *)
(* frames and any layout that has them apart: what is shown of a frame is  *)
(* written by that frame alone.                                            *)

(* No level but the first has texels wider than the padding.               *)
LEMMA LevelsWithinPadding ==
  ASSUME NEW extent
  PROVE  /\ Levels(extent) \in Nat \ {0}
         /\ \A level \in 0 .. Levels(extent) - 1 :
              level = 0 \/ PowerOfTwo(level) <= Padding
<1> DEFINE Stops(n) == \/ n >= MipLevels \/ PowerOfTwo(n) > Padding
                       \/ \E d \in Axis : extent[d] \div PowerOfTwo(n) = 0
           Final(n) == Stops(n) /\ \A m \in 1 .. n - 1 : ~ Stops(m)
           most == Larger(1, MipLevels)
           S == {n \in 1 .. most : Stops(n)}
<1>1. MipLevels \in Nat /\ Padding \in Nat /\ most \in Nat
  BY AtlasAssumption DEF Larger
<1>2. S \in SUBSET Nat /\ most \in S
  <2>1. most \in 1 .. most /\ most >= MipLevels
    BY <1>1 DEF Larger
  <2> QED  BY <1>1, <2>1
<1>3. PICK n \in S : \A m \in S : n <= m
  BY <1>2, LeastNumber
<1>4. n \in 1 .. most /\ Final(n)
  <2>1. n \in 1 .. most /\ Stops(n)
    BY <1>3
  <2>2. ASSUME NEW m \in 1 .. n - 1 PROVE ~ Stops(m)
    <3>1. m \in 1 .. most /\ ~ (n <= m)
      BY <1>1, <2>1
    <3>2. m \notin S
      BY <1>3, <3>1
    <3> QED  BY <3>1, <3>2
  <2> QED  BY <2>1, <2>2
<1>5. Levels(extent) = CHOOSE k \in 1 .. most : Final(k)
  BY Zenon DEF Levels
<1> HIDE DEF Final, most
<1>6. Levels(extent) \in 1 .. most /\ Final(Levels(extent))
  BY <1>4, <1>5
<1> USE DEF Final
<1>7. ASSUME NEW level \in 0 .. Levels(extent) - 1, level # 0
      PROVE  PowerOfTwo(level) <= Padding
  <2>1. level \in 1 .. Levels(extent) - 1
    BY <1>1, <1>6, <1>7
  <2>2. ~ (PowerOfTwo(level) > Padding)
    BY <1>6, <2>1
  <2>3. PowerOfTwo(level) \in Int
    <3>1. level \in Nat
      OBVIOUS
    <3> QED  BY <3>1, Powers
  <2> QED  BY <1>1, <2>2, <2>3
<1> QED  BY <1>1, <1>6, <1>7

-----------------------------------------------------------------------------
(* Division on one axis.                                                   *)
LEMMA DivMonotone ==
  ASSUME NEW s \in Nat \ {0}, NEW a \in Nat, NEW b \in Nat, a <= b
  PROVE  a \div s <= b \div s /\ a \div s \in Nat /\ b \div s \in Nat
OBVIOUS

(* A frame that begins at p with size w and padding P, texels of s points: *)
(* what it shows ends before whatever begins behind its padding, begins    *)
(* after whatever ends before it, and is written by it.                    *)
LEMMA OnOneAxis ==
  ASSUME NEW s \in Nat \ {0}, NEW P \in Nat, s <= P + 1,
         NEW p \in Nat, NEW w \in Nat \ {0}, NEW q \in Nat
  PROVE  /\ (p + P) \div s \in Nat /\ p \div s \in Nat /\ q \div s \in Nat
         /\ CeilDiv(p + P + w, s) \in Nat /\ CeilDiv(q, s) \in Nat
         /\ CeilDiv(p + w + 2 * P, s) \in Nat
         /\ p \div s <= (p + P) \div s
         /\ CeilDiv(p + P + w, s) <= CeilDiv(p + w + 2 * P, s)
         /\ q <= p => CeilDiv(q, s) <= (p + P) \div s
         /\ p + w + 2 * P <= q => CeilDiv(p + P + w, s) <= q \div s
<1>1. p \div s <= (p + P) \div s /\ (p + P) \div s \in Nat /\ p \div s \in Nat
  BY DivMonotone
<1>2. q \div s \in Nat
  BY DivMonotone
<1>3. /\ (p + P + w + s - 1) \div s \in Nat
      /\ (p + P + w + s - 1) \div s <= (p + w + 2 * P + s - 1) \div s
      /\ (p + w + 2 * P + s - 1) \div s \in Nat
  <2>1. /\ p + P + w + s - 1 \in Nat /\ p + w + 2 * P + s - 1 \in Nat
        /\ p + P + w + s - 1 <= p + w + 2 * P + s - 1
    OBVIOUS
  <2> QED  BY <2>1, DivMonotone
<1>4. (q + s - 1) \div s \in Nat
  <2>1. q + s - 1 \in Nat
    OBVIOUS
  <2> QED  BY <2>1, DivMonotone
<1>5. ASSUME q <= p PROVE (q + s - 1) \div s <= (p + P) \div s
  <2>1. q + s - 1 \in Nat /\ p + P \in Nat /\ q + s - 1 <= p + P
    BY <1>5
  <2> QED  BY <2>1, DivMonotone
<1>6. ASSUME p + w + 2 * P <= q PROVE (p + P + w + s - 1) \div s <= q \div s
  <2>1. p + P + w + s - 1 \in Nat /\ p + P + w + s - 1 <= q
    BY <1>6
  <2> QED  BY <2>1, DivMonotone
<1> QED  BY <1>1, <1>2, <1>3, <1>4, <1>5, <1>6 DEF CeilDiv

(* Where a texel is that shows a part of a frame.                          *)
LEMMA ShownTexel ==
  ASSUME NEW layout, NEW frames, Arrangement(layout, frames),
         NEW i \in DOMAIN frames,
         NEW level \in 0 .. Levels(layout.extent) - 1,
         NEW texel \in Shown(layout, frames, i, level)
  PROVE  /\ PowerOfTwo(level) \in Nat \ {0} /\ Padding \in Nat
         /\ PowerOfTwo(level) <= Padding + 1
         /\ \A d \in Axis :
              LET s == PowerOfTwo(level)
                  p == layout.places[i][d]
                  w == frames[i].size[d]
              IN  /\ p \in Nat /\ w \in Nat \ {0}
                  /\ Padded(frames[i])[d] = w + 2 * Padding
                  /\ texel[d] \in Nat
                  /\ (p + Padding) \div s <= texel[d]
                  /\ texel[d] <= CeilDiv(p + Padding + w, s) - 1
<1> DEFINE s == PowerOfTwo(level)
           P == Padding
<1>1. s \in Nat \ {0} /\ P \in Nat /\ s <= P + 1
  <2>1. level \in Nat
    OBVIOUS
  <2>2. s \in Nat \ {0} /\ P \in Nat
    BY <2>1, Powers, AtlasAssumption
  <2>3. level = 0 \/ s <= P
    BY LevelsWithinPadding
  <2>4. level = 0 => s = 1
    BY Powers
  <2> QED  BY <2>2, <2>3, <2>4
<1>2. ASSUME NEW d \in Axis
      PROVE  LET p == layout.places[i][d]
                 w == frames[i].size[d]
             IN  /\ p \in Nat /\ w \in Nat \ {0}
                 /\ Padded(frames[i])[d] = w + 2 * P
                 /\ texel[d] \in Nat
                 /\ (p + P) \div s <= texel[d]
                 /\ texel[d] <= CeilDiv(p + P + w, s) - 1
  <2> DEFINE p == layout.places[i][d]
             w == frames[i].size[d]
  <2>1. p \in Nat /\ w \in Nat \ {0} /\ Padded(frames[i])[d] = w + 2 * P
    BY DEF Arrangement, Padded, Extents, Axis
  <2>2. texel[d] \in (p + P) \div s .. CeilDiv(p + P + w, s) - 1
    BY DEF Shown, ShownFrom, ShownTo, Axis
  <2> HIDE DEF p, w, s, P
  <2>3. (p + P) \div s \in Nat /\ CeilDiv(p + P + w, s) \in Nat
    BY <1>1, <2>1, OnOneAxis
  <2>4. /\ texel[d] \in Nat /\ (p + P) \div s <= texel[d]
        /\ texel[d] <= CeilDiv(p + P + w, s) - 1
    BY <2>2, <2>3
  <2> QED  BY <2>1, <2>4 DEF p, w
<1> QED  BY <1>1, <1>2

(* If the packer keeps frames with their padding apart, then on every      *)
(* level what is shown of a frame is written for that frame and no other,  *)
(* whatever the padding, for levels as many as it allows.                  *)
THEOREM ShownIsWrittenOnce ==
  ASSUME NEW layout, NEW frames, Arrangement(layout, frames),
         NEW i \in DOMAIN frames,
         NEW level \in 0 .. Levels(layout.extent) - 1, NEW texel \in Shown(layout, frames, i, level)
  PROVE  Writers(layout, frames, level, texel) = {i}
<1> DEFINE s == PowerOfTwo(level)
           P == Padding
<1>1. s \in Nat \ {0} /\ P \in Nat /\ s <= P + 1
  BY ShownTexel
<1>2. ASSUME NEW j \in DOMAIN frames, NEW d \in Axis
      PROVE  /\ layout.places[j][d] \in Nat
             /\ frames[j].size[d] \in Nat \ {0}
             /\ Padded(frames[j])[d] = frames[j].size[d] + 2 * P
             /\ layout.places[j][d] + Padded(frames[j])[d]
                  <= layout.extent[d]
             /\ layout.extent[d] \in Nat
  BY DEF Arrangement, Padded, Fits, Extents, Axis
<1>3. ASSUME NEW d \in Axis
      PROVE  /\ texel[d] \in Nat
             /\ (layout.places[i][d] + P) \div s <= texel[d]
             /\ texel[d] < CeilDiv(layout.places[i][d] + P
                                     + frames[i].size[d], s)
  <2> DEFINE p == layout.places[i][d]
             w == frames[i].size[d]
  <2>1. /\ p \in Nat /\ w \in Nat \ {0} /\ texel[d] \in Nat
        /\ (p + P) \div s <= texel[d]
        /\ texel[d] <= CeilDiv(p + P + w, s) - 1
    BY ShownTexel
  <2> HIDE DEF p, w, s, P
  <2>2. CeilDiv(p + P + w, s) \in Nat
    BY <1>1, <2>1, OnOneAxis
  <2>3. texel[d] < CeilDiv(p + P + w, s)
    BY <2>1, <2>2
  <2> QED  BY <2>1, <2>3 DEF p, w
<1> HIDE DEF s, P
<1>4. i \in Writers(layout, frames, level, texel)
  <2> SUFFICES ASSUME NEW d \in Axis
               PROVE  texel[d] \in First(layout, i, level, d)
                        .. End(layout, frames, i, level, d) - 1
    BY DEF Writers
  <2> DEFINE p == layout.places[i][d]
             w == frames[i].size[d]
             e == layout.extent[d]
  <2>1. /\ p \in Nat /\ w \in Nat \ {0} /\ e \in Nat
        /\ p + w + 2 * P <= e /\ Padded(frames[i])[d] = w + 2 * P
    BY <1>1, <1>2
  <2>2. First(layout, i, level, d) = p \div s
    BY DEF First, s
  <2>3. End(layout, frames, i, level, d)
          = Smaller(CeilDiv(p + (w + 2 * P), s), Larger(1, e \div s))
    BY <2>1 DEF End, s
  <2>4. /\ texel[d] \in Nat /\ (p + P) \div s <= texel[d]
        /\ texel[d] < CeilDiv(p + P + w, s)
    BY <1>3
  <2> HIDE DEF p, w, e
  <2>5. /\ p \div s \in Nat /\ p \div s <= (p + P) \div s
        /\ (p + P) \div s \in Nat /\ e \div s \in Nat
        /\ CeilDiv(p + P + w, s) \in Nat
        /\ CeilDiv(p + w + 2 * P, s) \in Nat
        /\ CeilDiv(p + P + w, s) <= CeilDiv(p + w + 2 * P, s)
        /\ CeilDiv(p + P + w, s) <= e \div s
    BY <1>1, <2>1, OnOneAxis
  <2>6. CeilDiv(p + (w + 2 * P), s) = CeilDiv(p + w + 2 * P, s)
    BY <1>1, <2>1 DEF CeilDiv
  <2>7. /\ End(layout, frames, i, level, d) \in Nat
        /\ texel[d] < End(layout, frames, i, level, d)
    BY <2>3, <2>4, <2>5, <2>6 DEF Smaller, Larger
  <2> QED  BY <2>2, <2>4, <2>5, <2>7
<1>5. ASSUME NEW j \in Writers(layout, frames, level, texel), j # i
      PROVE  FALSE
  <2>1. /\ j \in DOMAIN frames
        /\ \A d \in Axis : texel[d] \in First(layout, j, level, d)
                                .. End(layout, frames, j, level, d) - 1
    BY DEF Writers
  <2>2. PICK d \in Axis :
          \/ layout.places[i][d] + Padded(frames[i])[d]
               <= layout.places[j][d]
          \/ layout.places[j][d] + Padded(frames[j])[d]
               <= layout.places[i][d]
    BY <1>5, <2>1 DEF Arrangement
  <2> DEFINE p == layout.places[i][d]
             w == frames[i].size[d]
             q == layout.places[j][d]
             z == Padded(frames[j])[d]
  <2>3. /\ p \in Nat /\ w \in Nat \ {0} /\ q \in Nat /\ z \in Nat
        /\ p + w + 2 * P <= q \/ q + z <= p
    <3>1. /\ p \in Nat /\ w \in Nat \ {0} /\ q \in Nat
          /\ Padded(frames[i])[d] = w + 2 * P
      BY <1>2, <2>1
    <3>2. z = frames[j].size[d] + 2 * P /\ frames[j].size[d] \in Nat
      BY <1>2, <2>1
    <3> HIDE DEF p, w, q, z
    <3>3. p + (w + 2 * P) <= q \/ q + z <= p
      BY <2>2, <3>1 DEF p, q, z
    <3> QED  BY <1>1, <3>1, <3>2, <3>3
  <2>4. First(layout, j, level, d) = q \div s
    BY DEF First, s
  <2>5. End(layout, frames, j, level, d)
          = Smaller(CeilDiv(q + z, s), Larger(1, layout.extent[d] \div s))
    BY DEF End, s
  <2>6. /\ texel[d] \in Nat /\ (p + P) \div s <= texel[d]
        /\ texel[d] < CeilDiv(p + P + w, s)
    BY <1>3
  <2>7. layout.extent[d] \div s \in Nat
    <3>1. layout.extent[d] \in Nat
      BY <1>2
    <3> QED  BY <1>1, <3>1, DivMonotone
  <2>8. texel[d] \in First(layout, j, level, d)
                       .. End(layout, frames, j, level, d) - 1
    BY <2>1
  <2> HIDE DEF p, w, q, z
  <2>9. CASE p + w + 2 * P <= q
    <3>1. /\ CeilDiv(p + P + w, s) \in Nat /\ q \div s \in Nat
          /\ CeilDiv(p + P + w, s) <= q \div s
      BY <1>1, <2>3, <2>9, OnOneAxis
    <3>2. CeilDiv(q + z, s) \in Nat
      <4>1. q + z \in Nat
        BY <2>3
      <4> QED  BY <1>1, <2>3, <4>1, OnOneAxis
    <3>3. q \div s <= texel[d]
      BY <2>4, <2>5, <2>7, <2>8, <3>1, <3>2 DEF Smaller, Larger
    <3> QED  BY <2>6, <3>1, <3>3
  <2>10. CASE q + z <= p
    <3>1. /\ CeilDiv(q + z, s) \in Nat /\ (p + P) \div s \in Nat
          /\ CeilDiv(q + z, s) <= (p + P) \div s
      <4>1. q + z \in Nat
        BY <2>3
      <4> QED  BY <1>1, <2>3, <2>10, <4>1, OnOneAxis
    <3>2. q \div s \in Nat
      BY <1>1, <2>3, DivMonotone
    <3>3. texel[d] < CeilDiv(q + z, s)
      BY <2>4, <2>5, <2>6, <2>7, <2>8, <3>1, <3>2 DEF Smaller, Larger
    <3> QED  BY <2>6, <3>1, <3>3
  <2> QED  BY <2>3, <2>9, <2>10
<1>6. Writers(layout, frames, level, texel) \subseteq {i}
  BY <1>5
<1> QED  BY <1>4, <1>6

-----------------------------------------------------------------------------
(* Proofs about sort_mods_by_dependency(), for any mods.                   *)

(* In the order of a search a mod is once, and after all that depend on it. *)
Ordered(mods, order) ==
  /\ \A a, b \in DOMAIN order : order[a] = order[b] => a = b
  /\ \A a \in DOMAIN order, v \in DOMAIN mods :
       DependsOn(mods, v, order[a]) => \E b \in 1 .. a - 1 : order[b] = v

(* What a search knows that has met no cycle.                              *)
Known(mods, s) ==
  /\ s \in Sofar(mods) /\ ~ s.cycle
  /\ s.visited = Range(s.order) \cup s.on_stack
  /\ Range(s.order) \cap s.on_stack = {}
  /\ Ordered(mods, s.order)

Prolongs(order, longer) ==
  /\ Len(order) <= Len(longer)
  /\ \A a \in 1 .. Len(order) : longer[a] = order[a]

(* What a search of mod u makes of s, unless it meets a cycle.             *)
Found(mods, s, u, t) ==
  /\ Known(mods, t) /\ t.on_stack = s.on_stack
  /\ Prolongs(s.order, t.order) /\ u \in Range(t.order)

(* f searches, if there are at most `depth` mods that are not on the stack. *)
Searches(mods, f, depth) ==
  /\ f \in [(DOMAIN mods) \X Sofar(mods) -> Sofar(mods)]
  /\ \A u \in DOMAIN mods, s \in Sofar(mods) :
       Known(mods, s) /\ u \notin s.visited
         /\ Len(mods) <= Cardinality(s.on_stack) + depth
       => LET t == f[<<u, s>>]
          IN  ~ t.cycle => Found(mods, s, u, t)

LEMMA SofarFields ==
  ASSUME NEW mods
  PROVE  /\ \A s \in Sofar(mods) :
              /\ s.visited \in SUBSET DOMAIN mods
              /\ s.on_stack \in SUBSET DOMAIN mods
              /\ s.order \in Seq(DOMAIN mods) /\ s.cycle \in BOOLEAN
         /\ \A s \in Sofar(mods), c \in BOOLEAN :
              /\ [s EXCEPT !.cycle = c] \in Sofar(mods)
              /\ [s EXCEPT !.cycle = c].cycle = c
              /\ c = s.cycle => [s EXCEPT !.cycle = c] = s
         /\ \A s \in Sofar(mods), u \in DOMAIN mods :
              [s EXCEPT !.visited = @ \cup {u}, !.on_stack = @ \cup {u}]
                \in Sofar(mods)
         /\ \A s \in Sofar(mods), u \in DOMAIN mods :
              [s EXCEPT !.on_stack = @ \ {u}, !.order = Append(@, u)]
                \in Sofar(mods)
<1> USE DEF Sofar
<1>1. \A s \in Sofar(mods) :
        /\ s.visited \in SUBSET DOMAIN mods
        /\ s.on_stack \in SUBSET DOMAIN mods
        /\ s.order \in Seq(DOMAIN mods) /\ s.cycle \in BOOLEAN
  OBVIOUS
<1>2. \A s \in Sofar(mods), c \in BOOLEAN :
        /\ [s EXCEPT !.cycle = c] \in Sofar(mods)
        /\ [s EXCEPT !.cycle = c].cycle = c
        /\ c = s.cycle => [s EXCEPT !.cycle = c] = s
  OBVIOUS
<1>3. \A s \in Sofar(mods), u \in DOMAIN mods :
        [s EXCEPT !.visited = @ \cup {u}, !.on_stack = @ \cup {u}]
          \in Sofar(mods)
  OBVIOUS
<1>4. ASSUME NEW s \in Sofar(mods), NEW u \in DOMAIN mods
      PROVE  [s EXCEPT !.on_stack = @ \ {u}, !.order = Append(@, u)]
               \in Sofar(mods)
  <2>1. Append(s.order, u) \in Seq(DOMAIN mods)
    BY <1>1
  <2> QED  BY <2>1
<1> QED  BY <1>1, <1>2, <1>3, <1>4

LEMMA ProlongsRange ==
  ASSUME NEW S, NEW p \in Seq(S), NEW q \in Seq(S), Prolongs(p, q)
  PROVE  Range(p) \subseteq Range(q)
BY DEF Prolongs, Range

LEMMA ProlongsChain ==
  ASSUME NEW S, NEW p \in Seq(S), NEW q \in Seq(S), NEW r \in Seq(S),
         Prolongs(p, q), Prolongs(q, r)
  PROVE  Prolongs(p, r)
BY DEF Prolongs

(* A mod is entered that was not visited.                                  *)
LEMMA Entered ==
  ASSUME NEW mods, NEW s \in Sofar(mods), NEW u \in DOMAIN mods,
         Known(mods, s), u \notin s.visited,
         NEW t, t = [s EXCEPT !.visited = @ \cup {u}, !.on_stack = @ \cup {u}]
  PROVE  /\ Known(mods, t) /\ t.on_stack = s.on_stack \cup {u}
         /\ Prolongs(s.order, t.order)
<1>1. /\ t \in Sofar(mods) /\ t.order = s.order /\ t.cycle = s.cycle
      /\ t.on_stack = s.on_stack \cup {u} /\ t.visited = s.visited \cup {u}
  BY SofarFields DEF Sofar
<1>2. s.order \in Seq(DOMAIN mods)
  BY SofarFields
<1>3. u \notin Range(s.order)
  BY DEF Known
<1> QED  BY <1>1, <1>2, <1>3 DEF Known, Prolongs

(* A mod is put in order when all that depend on it are.                   *)
LEMMA PutInOrder ==
  ASSUME NEW mods, NEW s \in Sofar(mods), NEW u \in DOMAIN mods,
         NEW t \in Sofar(mods), Known(mods, s), u \notin s.visited,
         Known(mods, t), t.on_stack = s.on_stack \cup {u},
         Prolongs(s.order, t.order),
         \A v \in DOMAIN mods : DependsOn(mods, v, u) => v \in Range(t.order),
         NEW r, r = [t EXCEPT !.on_stack = @ \ {u}, !.order = Append(@, u)]
  PROVE  Found(mods, s, u, r)
<1>1. /\ r \in Sofar(mods) /\ r.order = Append(t.order, u)
      /\ r.cycle = t.cycle /\ r.on_stack = t.on_stack \ {u}
      /\ r.visited = t.visited
  BY SofarFields DEF Sofar
<1> DEFINE n == Len(t.order)
<1>2. /\ t.order \in Seq(DOMAIN mods) /\ s.order \in Seq(DOMAIN mods)
      /\ n \in Nat
  <2>1. t.order \in Seq(DOMAIN mods) /\ s.order \in Seq(DOMAIN mods)
    BY SofarFields
  <2> QED  BY <2>1
<1>3. /\ r.order \in Seq(DOMAIN mods) /\ Len(r.order) = n + 1
      /\ r.order[n + 1] = u /\ \A a \in 1 .. n : r.order[a] = t.order[a]
  BY <1>1, <1>2
<1>4. Range(r.order) = Range(t.order) \cup {u}
  BY <1>2, <1>3 DEF Range
<1>5. u \notin Range(t.order) /\ u \notin s.on_stack
  BY DEF Known
<1>6. r.on_stack = s.on_stack
  BY <1>1, <1>5
<1>7. r.visited = Range(r.order) \cup r.on_stack
      /\ Range(r.order) \cap r.on_stack = {}
  BY <1>1, <1>4, <1>5, <1>6 DEF Known
<1>8. \A a \in 1 .. n : t.order[a] # u
  BY <1>2, <1>5 DEF Range
<1>9. \A a, b \in DOMAIN r.order : r.order[a] = r.order[b] => a = b
  <2>1. \A a, b \in 1 .. n : t.order[a] = t.order[b] => a = b
    BY <1>2 DEF Known, Ordered
  <2> QED  BY <1>2, <1>3, <1>8, <2>1
<1>10. ASSUME NEW a \in DOMAIN r.order, NEW v \in DOMAIN mods,
              DependsOn(mods, v, r.order[a])
       PROVE  \E b \in 1 .. a - 1 : r.order[b] = v
  <2>1. CASE a = n + 1
    <3>1. v \in Range(t.order)
      BY <1>3, <1>10, <2>1
    <3> QED  BY <1>2, <1>3, <2>1, <3>1 DEF Range
  <2>2. CASE a # n + 1
    <3>1. a \in 1 .. n /\ a \in DOMAIN t.order
      BY <1>2, <1>3, <2>2
    <3>2. \E b \in 1 .. a - 1 : t.order[b] = v
      BY <1>3, <1>10, <3>1 DEF Known, Ordered
    <3> QED  BY <1>2, <1>3, <3>1, <3>2
  <2> QED  BY <2>1, <2>2
<1>11. Known(mods, r)
  BY <1>1, <1>7, <1>9, <1>10 DEF Known, Ordered
<1>12. Prolongs(s.order, r.order)
  BY <1>2, <1>3 DEF Prolongs
<1> QED  BY <1>4, <1>6, <1>11, <1>12 DEF Found

(* The search of a mod visits all that depend on it, one after another,    *)
(* with a search for which there is one mod less.                          *)
LEMMA VisitSearches ==
  ASSUME NEW M, NEW mods \in Seq(M), NEW depth \in Nat, NEW inner,
         Searches(mods, inner, depth),
         NEW u \in DOMAIN mods, NEW s \in Sofar(mods)
  PROVE  /\ Visit(mods, inner, u, s) \in Sofar(mods)
         /\ Known(mods, s) /\ u \notin s.visited
              /\ Len(mods) <= Cardinality(s.on_stack) + (depth + 1)
              /\ ~ Visit(mods, inner, u, s).cycle
            => Found(mods, s, u, Visit(mods, inner, u, s))
<1> DEFINE S == Sofar(mods)
           Place == DOMAIN mods
           n == Len(mods)
           Next1(t, v) == IF t.cycle \/ ~ DependsOn(mods, v, u) THEN t
                          ELSE IF v \notin t.visited THEN inner[<<v, t>>]
                          ELSE [t EXCEPT !.cycle = v \in t.on_stack]
           follow == [x \in S \X Place |-> Next1(x[1], x[2])]
           entered == [s EXCEPT !.visited = @ \cup {u}, !.on_stack = @ \cup {u}]
           followed == Iterated(follow, entered, n)
<1>1. /\ n \in Nat /\ Place = 1 .. n
      /\ inner \in [Place \X S -> S] /\ entered \in S
  <2>1. entered \in S
    BY SofarFields
  <2>2. inner \in [Place \X S -> S]
    BY DEF Searches
  <2> HIDE DEF S, entered
  <2> QED  BY <2>1, <2>2
<1>2. Visit(mods, inner, u, s) =
        IF followed.cycle THEN followed
        ELSE [followed EXCEPT !.on_stack = @ \ {u}, !.order = Append(@, u)]
  BY DEF Visit
<1>3. ASSUME NEW t \in S, NEW v \in Place
      PROVE  follow[<<t, v>>] = Next1(t, v) /\ Next1(t, v) \in S
  <2>1. <<t, v>> \in S \X Place /\ <<v, t>> \in Place \X S
    OBVIOUS
  <2>2. follow[<<t, v>>] = Next1(t, v)
    BY <2>1
  <2>3. inner[<<v, t>>] \in S
    BY <1>1, <2>1
  <2>4. [t EXCEPT !.cycle = v \in t.on_stack] \in S
    <3>1. (v \in t.on_stack) \in BOOLEAN
      OBVIOUS
    <3> QED  BY <3>1, SofarFields
  <2> QED  BY <2>2, <2>3, <2>4
<1>7. Known(mods, s) /\ u \notin s.visited =>
        /\ Known(mods, entered) /\ entered.on_stack = s.on_stack \cup {u}
        /\ Prolongs(s.order, entered.order)
  BY Entered
<1> HIDE DEF follow, entered, S, Place, n
<1>4. followed \in S
  <2> DEFINE I == [v \in 0 .. n |-> S]
  <2>1. entered \in I[0]
    BY <1>1
  <2>2. \A v \in 1 .. n : \A t \in I[v - 1] : follow[<<t, v>>] \in I[v]
    <3> SUFFICES ASSUME NEW v \in 1 .. n, NEW t \in I[v - 1]
                 PROVE  follow[<<t, v>>] \in I[v]
      OBVIOUS
    <3>1. v - 1 \in 0 .. n /\ v \in 0 .. n /\ v \in Place /\ t \in S
      BY <1>1
    <3> HIDE DEF Next1
    <3>2. follow[<<t, v>>] \in S
      BY <1>3, <3>1
    <3> QED  BY <3>1, <3>2
  <2>3. n \in 0 .. n /\ I[n] = S
    BY <1>1
  <2>4. \A v \in 0 .. n : Iterated(follow, entered, v) \in I[v]
    <3> HIDE DEF I
    <3> QED  BY <1>1, <2>1, <2>2, IteratedSteps
  <2> QED  BY <2>3, <2>4
<1>5. Visit(mods, inner, u, s) \in S
  <2> HIDE DEF followed
  <2>1. [followed EXCEPT !.on_stack = @ \ {u}, !.order = Append(@, u)] \in S
    BY <1>4, SofarFields DEF S
  <2> QED  BY <1>2, <1>4, <2>1
<1>6. ASSUME Known(mods, s), u \notin s.visited,
             n <= Cardinality(s.on_stack) + (depth + 1),
             ~ Visit(mods, inner, u, s).cycle
      PROVE  Found(mods, s, u, Visit(mods, inner, u, s))
  <2> DEFINE Sound(t, v) ==
               ~ t.cycle =>
                 /\ Known(mods, t) /\ t.on_stack = s.on_stack \cup {u}
                 /\ Prolongs(s.order, t.order)
                 /\ \A w \in 1 .. v :
                      DependsOn(mods, w, u) => w \in Range(t.order)
             I == [v \in 0 .. n |-> {t \in S : Sound(t, v)}]
  <2>1. entered \in I[0]
    <3>1. Sound(entered, 0)
      BY <1>6, <1>7
    <3> HIDE DEF Sound
    <3> QED  BY <1>1, <3>1
  <2>2. n <= Cardinality(s.on_stack \cup {u}) + depth
    <3>1. IsFiniteSet(s.on_stack) /\ u \notin s.on_stack
      <4>1. s.on_stack \subseteq 1 .. n
        BY <1>1, SofarFields DEF Place, S
      <4>2. IsFiniteSet(1 .. n)
        BY <1>1, FS_Interval
      <4> QED  BY <1>6, <4>1, <4>2, FS_Subset DEF Known
    <3>2. Cardinality(s.on_stack \cup {u}) = Cardinality(s.on_stack) + 1
          /\ Cardinality(s.on_stack) \in Nat
      BY <3>1, FS_AddElement, FS_CardinalityType
    <3> QED  BY <1>1, <1>6, <3>2
  <2>3. ASSUME NEW v \in 1 .. n, NEW t \in S, Sound(t, v - 1)
        PROVE  Sound(Next1(t, v), v)
    <3>0. v \in Place
      BY <1>1
    <3>1. CASE t.cycle
      BY <3>1
    <3>2. CASE ~ t.cycle /\ ~ DependsOn(mods, v, u)
      <4>1. Next1(t, v) = t
        BY <3>2
      <4>2. \A w \in 1 .. v : w = v \/ w \in 1 .. v - 1
        BY <1>1
      <4> QED  BY <2>3, <3>2, <4>1, <4>2
    <3>3. CASE ~ t.cycle /\ DependsOn(mods, v, u) /\ v \notin t.visited
      <4> DEFINE r == inner[<<v, t>>]
      <4>1. Next1(t, v) = r
        BY <3>3
      <4>2. /\ Known(mods, t) /\ t.on_stack = s.on_stack \cup {u}
            /\ Prolongs(s.order, t.order)
            /\ \A w \in 1 .. v - 1 :
                 DependsOn(mods, w, u) => w \in Range(t.order)
        BY <2>3, <3>3
      <4>3. ~ r.cycle => Found(mods, t, v, r)
        BY <2>2, <3>0, <3>3, <4>2 DEF Searches, S, Place, n
      <4>4. ASSUME Found(mods, t, v, r)
            PROVE  /\ Known(mods, r) /\ r.on_stack = s.on_stack \cup {u}
                   /\ Prolongs(s.order, r.order)
                   /\ \A w \in 1 .. v :
                        DependsOn(mods, w, u) => w \in Range(r.order)
        <5>1. /\ Known(mods, r) /\ r.on_stack = t.on_stack
              /\ Prolongs(t.order, r.order) /\ v \in Range(r.order)
          BY <4>4 DEF Found
        <5>2. /\ s.order \in Seq(Place) /\ t.order \in Seq(Place)
              /\ r.order \in Seq(Place)
          <6>1. r \in Sofar(mods)
            BY <5>1 DEF Known
          <6> QED  BY <6>1, SofarFields DEF Place, S
        <5>3. Prolongs(s.order, r.order)
          BY <4>2, <5>1, <5>2, ProlongsChain
        <5>4. Range(t.order) \subseteq Range(r.order)
          BY <5>1, <5>2, ProlongsRange
        <5>5. \A w \in 1 .. v : w = v \/ w \in 1 .. v - 1
          BY <1>1
        <5> HIDE DEF r
        <5> QED  BY <4>2, <5>1, <5>3, <5>4, <5>5
      <4> HIDE DEF r
      <4> QED  BY <4>1, <4>3, <4>4
    <3>4. CASE ~ t.cycle /\ DependsOn(mods, v, u) /\ v \in t.visited
      <4> DEFINE r == [t EXCEPT !.cycle = v \in t.on_stack]
      <4>1. Next1(t, v) = r
        BY <3>4
      <4>2. /\ Known(mods, t) /\ t.on_stack = s.on_stack \cup {u}
            /\ Prolongs(s.order, t.order)
            /\ \A w \in 1 .. v - 1 :
                 DependsOn(mods, w, u) => w \in Range(t.order)
        BY <2>3, <3>4
      <4>3. CASE v \in t.on_stack
        <5>1. r.cycle
          BY <4>3 DEF S, Sofar
        <5> QED  BY <4>1, <5>1
      <4>4. CASE v \notin t.on_stack
        <5>1. r = t
          BY <3>4, <4>4 DEF S, Sofar
        <5>2. v \in Range(t.order)
          BY <3>4, <4>2, <4>4 DEF Known
        <5>3. \A w \in 1 .. v : w = v \/ w \in 1 .. v - 1
          BY <1>1
        <5> HIDE DEF r
        <5> QED  BY <4>1, <4>2, <5>1, <5>2, <5>3
      <4> QED  BY <4>3, <4>4
    <3> HIDE DEF Sound, Next1
    <3> QED  BY <3>1, <3>2, <3>3, <3>4
  <2>4. \A v \in 1 .. n : \A t \in I[v - 1] : follow[<<t, v>>] \in I[v]
    <3> SUFFICES ASSUME NEW v \in 1 .. n, NEW t \in I[v - 1]
                 PROVE  follow[<<t, v>>] \in I[v]
      OBVIOUS
    <3>1. v - 1 \in 0 .. n /\ v \in 0 .. n /\ v \in Place
      BY <1>1
    <3> HIDE DEF Sound, Next1
    <3>2. t \in S /\ Sound(t, v - 1)
      BY <3>1
    <3>3. follow[<<t, v>>] = Next1(t, v) /\ Next1(t, v) \in S
      BY <1>3, <3>1, <3>2
    <3>4. Sound(Next1(t, v), v)
      BY <2>3, <3>2
    <3> QED  BY <3>1, <3>3, <3>4
  <2>5. \A v \in 0 .. n : Iterated(follow, entered, v) \in I[v]
    <3> HIDE DEF I
    <3> QED  BY <1>1, <2>1, <2>4, IteratedSteps
  <2>6. Sound(followed, n)
    <3> HIDE DEF Sound
    <3>1. n \in 0 .. n
      BY <1>1
    <3> QED  BY <2>5, <3>1
  <2>7. ~ followed.cycle
    <3> HIDE DEF followed
    <3> QED  BY <1>2, <1>6
  <2>8. Found(mods, s, u,
              [followed EXCEPT !.on_stack = @ \ {u}, !.order = Append(@, u)])
    <3> HIDE DEF followed
    <3>1. /\ Known(mods, followed) /\ followed.on_stack = s.on_stack \cup {u}
          /\ Prolongs(s.order, followed.order)
          /\ \A w \in 1 .. n :
               DependsOn(mods, w, u) => w \in Range(followed.order)
      BY <2>6, <2>7
    <3> QED  BY <1>1, <1>4, <1>6, <3>1, PutInOrder DEF S, Place
  <2> HIDE DEF followed
  <2> QED  BY <1>2, <2>7, <2>8
<1> QED  BY <1>5, <1>6 DEF S, n

(* The searches within one another, from the innermost out.                *)
LEMMA SearchSorts ==
  ASSUME NEW M, NEW mods \in Seq(M)
  PROVE  /\ Search(mods) \in Sofar(mods)
         /\ ~ Search(mods).cycle =>
              /\ Ordered(mods, Search(mods).order)
              /\ Range(Search(mods).order) = DOMAIN mods
<1> DEFINE S == Sofar(mods)
           Place == DOMAIN mods
           n == Len(mods)
           F == [Place \X S -> S]
           around(f) == [x \in Place \X S |-> Visit(mods, f, x[1], x[2])]
           here == [x \in Place \X S |-> x[2]]
           step == [x \in F \X Nat |-> around(x[1])]
           Eq(f) == f = [depth \in 0 .. n |->
                           [x \in Place \X S |->
                              IF depth = 0 THEN x[2]
                              ELSE Visit(mods, f[depth - 1], x[1], x[2])]]
           within == CHOOSE f : Eq(f)
           dfs == within[n]
           from == [x \in S \X Place |->
                      IF x[1].cycle \/ x[2] \in x[1].visited THEN x[1]
                      ELSE dfs[<<x[2], x[1]>>]]
           start == [visited |-> {}, on_stack |-> {}, order |-> <<>>,
                     cycle |-> FALSE]
<1>1. /\ n \in Nat /\ Place = 1 .. n
      /\ here \in F /\ start \in S
      /\ start.cycle = FALSE /\ start.visited = {} /\ start.on_stack = {}
      /\ start.order = <<>>
  <2>1. start \in S
    BY DEF Sofar
  <2>2. here \in F
    <3> HIDE DEF S, Place
    <3> QED  OBVIOUS
  <2> HIDE DEF here, F
  <2> QED  BY <2>1, <2>2
<1>2. Search(mods) = Iterated(from, start, n)
  BY DEF Search
<1>3. ASSUME NEW f \in F, NEW depth \in Nat, Searches(mods, f, depth)
      PROVE  around(f) \in F /\ Searches(mods, around(f), depth + 1)
  <2> DEFINE g == around(f)
  <2>1. ASSUME NEW u \in Place, NEW s \in S
        PROVE  /\ g[<<u, s>>] = Visit(mods, f, u, s) /\ g[<<u, s>>] \in S
               /\ Known(mods, s) /\ u \notin s.visited
                    /\ n <= Cardinality(s.on_stack) + (depth + 1)
                    /\ ~ g[<<u, s>>].cycle
                  => Found(mods, s, u, g[<<u, s>>])
    <3>1. g[<<u, s>>] = Visit(mods, f, u, s)
      <4>1. <<u, s>> \in Place \X S
        OBVIOUS
      <4> HIDE DEF F, S, Place
      <4> QED  BY <4>1
    <3> HIDE DEF g
    <3> QED  BY <1>3, <3>1, VisitSearches
  <2>2. g \in F
    <3> HIDE DEF S, Place
    <3>1. \A u \in Place, s \in S : Visit(mods, f, u, s) \in S
      BY <2>1
    <3> QED  BY <3>1
  <2> HIDE DEF g
  <2>3. Searches(mods, g, depth + 1)
    BY <2>1, <2>2 DEF Searches
  <2> QED  BY <2>2, <2>3 DEF g
<1>4. Searches(mods, here, 0)
  <2> SUFFICES ASSUME NEW u \in Place, NEW s \in S, Known(mods, s),
                      u \notin s.visited, n <= Cardinality(s.on_stack) + 0
               PROVE  FALSE
    BY <1>1 DEF Searches
  <2>1. s.on_stack \subseteq 1 .. n /\ u \notin s.on_stack /\ u \in 1 .. n
    BY <1>1, SofarFields DEF Known
  <2>2. IsFiniteSet(1 .. n) /\ Cardinality(1 .. n) = n
    <3> HIDE DEF n, here, start, F
    <3>1. /\ IsFiniteSet(1 .. n)
          /\ Cardinality(1 .. n) = IF 1 > n THEN 0 ELSE n - 1 + 1
      BY <1>1, FS_Interval
    <3> QED  BY <1>1, <3>1
  <2>3. /\ IsFiniteSet(s.on_stack) /\ Cardinality(s.on_stack) <= n
        /\ Cardinality(s.on_stack) = n => s.on_stack = 1 .. n
    BY <2>1, <2>2, FS_Subset
  <2>4. Cardinality(s.on_stack) \in Nat
    BY <2>3, FS_CardinalityType
  <2> QED  BY <1>1, <2>1, <2>3, <2>4
<1> DEFINE I == [depth \in 0 .. n |-> {f \in F : Searches(mods, f, depth)}]
<1>5. /\ here \in I[0]
      /\ \A depth \in 1 .. n : \A f \in I[depth - 1] :
           step[<<f, depth>>] \in I[depth]
  <2> HIDE DEF step, here, F
  <2>1. here \in I[0]
    BY <1>1, <1>4
  <2>2. ASSUME NEW depth \in 1 .. n, NEW f \in I[depth - 1]
        PROVE  step[<<f, depth>>] \in I[depth]
    <3>1. /\ depth - 1 \in Nat /\ (depth - 1) + 1 = depth
          /\ depth - 1 \in 0 .. n /\ depth \in 0 .. n
      BY <1>1
    <3>2. f \in F /\ Searches(mods, f, depth - 1)
      BY <3>1
    <3>3. step[<<f, depth>>] = around(f)
      <4> HIDE DEF around
      <4> QED  BY <3>1, <3>2 DEF step
    <3>4. around(f) \in F /\ Searches(mods, around(f), depth)
      BY <1>3, <3>1, <3>2
    <3> HIDE DEF around
    <3> QED  BY <3>1, <3>3, <3>4
  <2> QED  BY <2>1, <2>2
<1>6. PICK f : Recurs(f, n, here, step) /\ \A depth \in 0 .. n : f[depth] \in I[depth]
  <2> HIDE DEF I, step, here, F
  <2>1. PICK f : Recurs(f, n, here, step)
    BY <1>1, <1>5, RecursionWithin
  <2> QED  BY <1>1, <1>5, <2>1, RecursionStays
<1>7. ASSUME NEW g, NEW depth \in 0 .. n,
             g = [x \in Place \X S |->
                    IF depth = 0 THEN x[2]
                    ELSE Visit(mods, f[depth - 1], x[1], x[2])]
      PROVE  g = IF depth = 0 THEN here ELSE around(f[depth - 1])
  <2> HIDE DEF S, Place
  <2> QED  BY <1>7
<1>8. ASSUME NEW g, NEW depth \in 0 .. n,
             g = IF depth = 0 THEN here ELSE around(f[depth - 1])
      PROVE  g = [x \in Place \X S |->
                    IF depth = 0 THEN x[2]
                    ELSE Visit(mods, f[depth - 1], x[1], x[2])]
  <2> HIDE DEF S, Place
  <2> QED  BY <1>8
<1>9. Eq(f)
  <2>1. f = [depth \in 0 .. n |->
               IF depth = 0 THEN here ELSE step[<<f[depth - 1], depth>>]]
    BY <1>6 DEF Recurs
  <2>2. ASSUME NEW depth \in 0 .. n
        PROVE  f[depth] = [x \in Place \X S |->
                             IF depth = 0 THEN x[2]
                             ELSE Visit(mods, f[depth - 1], x[1], x[2])]
    <3>1. f[depth] = IF depth = 0 THEN here ELSE step[<<f[depth - 1], depth>>]
      <4> HIDE DEF here, step
      <4> QED  BY <2>1
    <3>2. depth # 0 => step[<<f[depth - 1], depth>>] = around(f[depth - 1])
      <4> SUFFICES ASSUME depth # 0
                   PROVE  step[<<f[depth - 1], depth>>] = around(f[depth - 1])
        OBVIOUS
      <4>1. depth - 1 \in 0 .. n /\ depth \in Nat
        BY <1>1
      <4>2. f[depth - 1] \in F
        <5> HIDE DEF F
        <5> QED  BY <1>6, <4>1
      <4> HIDE DEF F, around
      <4> QED  BY <4>1, <4>2
    <3>3. f[depth] = IF depth = 0 THEN here ELSE around(f[depth - 1])
      <4> HIDE DEF here, step, around
      <4> QED  BY <3>1, <3>2
    <3> HIDE DEF here, around, S, Place
    <3> QED  BY <1>8, <3>3
  <2> HIDE DEF here, step, S, Place
  <2>3. DOMAIN f = 0 .. n /\ f = [depth \in 0 .. n |-> f[depth]]
    BY <2>1
  <2> QED  BY <2>2, <2>3
<1>10. Eq(within)
  <2> HIDE DEF Eq
  <2> QED  BY <1>9
<1>11. \A depth \in 0 .. n :
         within[depth] = IF depth = 0 THEN here ELSE around(within[depth - 1])
  <2> HIDE DEF within, S, Place
  <2>1. within = [depth \in 0 .. n |->
                    [x \in Place \X S |->
                       IF depth = 0 THEN x[2]
                       ELSE Visit(mods, within[depth - 1], x[1], x[2])]]
    BY <1>10
  <2> SUFFICES ASSUME NEW depth \in 0 .. n
               PROVE  within[depth] = IF depth = 0 THEN here
                                      ELSE around(within[depth - 1])
    OBVIOUS
  <2>2. within[depth] = [x \in Place \X S |->
                           IF depth = 0 THEN x[2]
                           ELSE Visit(mods, within[depth - 1], x[1], x[2])]
    BY <2>1
  <2> QED  BY <2>2
<1> HIDE DEF step, here, around, F, S, Place, within, n
<1>12. within[n] \in F /\ Searches(mods, within[n], n)
  <2> DEFINE T == {depth \in 0 .. n : /\ within[depth] \in F
                                      /\ Searches(mods, within[depth], depth)}
  <2>1. 0 \in T
    BY <1>1, <1>4, <1>11
  <2>2. ASSUME NEW depth \in 0 .. n - 1, depth \in T PROVE depth + 1 \in T
    <3>1. /\ depth \in Nat /\ depth + 1 \in 0 .. n /\ depth + 1 # 0
          /\ (depth + 1) - 1 = depth
      BY <1>1
    <3>2. within[depth + 1] = around(within[depth])
      BY <1>11, <3>1
    <3> QED  BY <1>3, <2>2, <3>1, <3>2
  <2>3. 0 .. n \subseteq T
    <3> HIDE DEF T
    <3> QED  BY <1>1, <2>1, <2>2, IntervalInduction
  <2> QED  BY <1>1, <2>3
<1> DEFINE Sound(s, v) ==
             ~ s.cycle => /\ Known(mods, s) /\ s.on_stack = {}
                          /\ 1 .. v \subseteq Range(s.order)
           J == [v \in 0 .. n |-> {s \in S : Sound(s, v)}]
<1>13. start \in J[0]
  <2>1. Known(mods, start)
    <3>1. Range(start.order) = {} /\ DOMAIN start.order = {}
      BY <1>1 DEF Range
    <3> QED  BY <1>1, <3>1 DEF Known, Ordered, S
  <2> HIDE DEF start
  <2>2. Sound(start, 0)
    BY <1>1, <2>1
  <2> HIDE DEF Sound
  <2> QED  BY <1>1, <2>2
<1>14. ASSUME NEW v \in 1 .. n, NEW s \in S, Sound(s, v - 1)
       PROVE  from[<<s, v>>] \in S /\ Sound(from[<<s, v>>], v)
  <2>1. v \in Place /\ <<s, v>> \in S \X Place /\ <<v, s>> \in Place \X S
    BY <1>1
  <2>2. from[<<s, v>>] = IF s.cycle \/ v \in s.visited THEN s
                         ELSE dfs[<<v, s>>]
    BY <2>1
  <2> HIDE DEF from
  <2>3. \A w \in 1 .. v : w = v \/ w \in 1 .. v - 1
    BY <1>1
  <2>4. CASE s.cycle
    BY <2>2, <2>4
  <2>5. CASE ~ s.cycle /\ v \in s.visited
    <3>1. v \in Range(s.order)
      BY <1>14, <2>5 DEF Known
    <3> QED  BY <1>14, <2>2, <2>3, <2>5, <3>1
  <2>6. CASE ~ s.cycle /\ v \notin s.visited
    <3>1. from[<<s, v>>] = dfs[<<v, s>>] /\ dfs[<<v, s>>] \in S
      BY <1>12, <2>1, <2>2, <2>6 DEF F
    <3> DEFINE t == dfs[<<v, s>>]
    <3>2. Known(mods, s) /\ s.on_stack = {} /\ 1 .. v - 1 \subseteq Range(s.order)
      BY <1>14, <2>6
    <3>3. n <= Cardinality(s.on_stack) + n
      <4>1. Cardinality(s.on_stack) = 0
        BY <3>2, FS_EmptySet
      <4> QED  BY <1>1, <4>1
    <3>4. ~ t.cycle => Found(mods, s, v, t)
      BY <1>12, <2>1, <2>6, <3>2, <3>3 DEF Searches, S, Place, n
    <3>5. ASSUME Found(mods, s, v, t)
          PROVE  /\ Known(mods, t) /\ t.on_stack = {}
                 /\ 1 .. v \subseteq Range(t.order)
      <4>1. /\ Known(mods, t) /\ t.on_stack = s.on_stack
            /\ Prolongs(s.order, t.order) /\ v \in Range(t.order)
        BY <3>5 DEF Found
      <4>2. s.order \in Seq(Place) /\ t.order \in Seq(Place)
        <5>1. t \in Sofar(mods)
          BY <4>1 DEF Known
        <5> QED  BY <5>1, SofarFields DEF Place, S
      <4>3. Range(s.order) \subseteq Range(t.order)
        BY <4>1, <4>2, ProlongsRange
      <4> HIDE DEF t
      <4> QED  BY <2>3, <3>2, <4>1, <4>3
    <3> HIDE DEF t
    <3> QED  BY <3>1, <3>4, <3>5 DEF t
  <2> QED  BY <2>4, <2>5, <2>6
<1>15. \A v \in 1 .. n : \A s \in J[v - 1] : from[<<s, v>>] \in J[v]
  <2> SUFFICES ASSUME NEW v \in 1 .. n, NEW s \in J[v - 1]
               PROVE  from[<<s, v>>] \in J[v]
    OBVIOUS
  <2> HIDE DEF Sound, from
  <2>1. v - 1 \in 0 .. n /\ v \in 0 .. n
    BY <1>1
  <2>2. s \in S /\ Sound(s, v - 1)
    BY <2>1
  <2> QED  BY <1>14, <2>1, <2>2
<1>16. Search(mods) \in J[n]
  <2>1. \A v \in 0 .. n : Iterated(from, start, v) \in J[v]
    <3> HIDE DEF J, from, start
    <3> QED  BY <1>1, <1>13, <1>15, IteratedSteps
  <2>2. n \in 0 .. n
    BY <1>1
  <2> HIDE DEF J, from, start
  <2> QED  BY <1>2, <2>1, <2>2
<1>17. Search(mods) \in S /\ Sound(Search(mods), n)
  <2> HIDE DEF Sound
  <2>1. n \in 0 .. n
    BY <1>1
  <2> QED  BY <1>16, <2>1
<1>18. ASSUME ~ Search(mods).cycle
       PROVE  /\ Ordered(mods, Search(mods).order)
              /\ Range(Search(mods).order) = DOMAIN mods
  <2>1. Known(mods, Search(mods)) /\ 1 .. n \subseteq Range(Search(mods).order)
    BY <1>17, <1>18
  <2>2. Range(Search(mods).order) \subseteq DOMAIN mods
    <3>1. Search(mods).order \in Seq(DOMAIN mods)
      BY <1>17, SofarFields DEF S
    <3> QED  BY <3>1 DEF Range
  <2> QED  BY <1>1, <2>1, <2>2 DEF Known, Place
<1> QED  BY <1>17, <1>18 DEF S

-----------------------------------------------------------------------------
(* The list of mods                                                        *)

(* Increasing places, of which the members are taken.                      *)
Increasing(p) == \A a, b \in DOMAIN p : a < b => p[a] < p[b]

TakenAt(s, r, p) == Len(r) = Len(p) /\ \A a \in DOMAIN p : r[a] = s[p[a]]

LEMMA SelectedPlaces ==
  ASSUME NEW S, NEW s \in Seq(S), NEW places
  PROVE  /\ Selected(s, places) \in Seq(Range(s))
         /\ \E p \in Seq(DOMAIN s) :
              /\ Increasing(p) /\ TakenAt(s, Selected(s, places), p)
              /\ Range(p) = places \cap DOMAIN s
<1> DEFINE n == Len(s)
           keep == [x \in Seq(Range(s)) \X DOMAIN s |->
                      IF x[2] \in places THEN Append(x[1], s[x[2]]) ELSE x[1]]
           Kept(r, i) ==
             \E p \in Seq(DOMAIN s) :
               /\ Increasing(p) /\ TakenAt(s, r, p)
               /\ Range(p) = places \cap 1 .. i
           I == [i \in 0 .. n |-> {r \in Seq(Range(s)) : Kept(r, i)}]
<1>1. n \in Nat /\ DOMAIN s = 1 .. n /\ \A i \in 1 .. n : s[i] \in Range(s)
  BY DEF Range
<1>2. <<>> \in I[0]
  <2>1. <<>> \in Seq(DOMAIN s) /\ <<>> \in Seq(Range(s))
    OBVIOUS
  <2>2. Kept(<<>>, 0)
    <3>1. Increasing(<<>>) /\ TakenAt(s, <<>>, <<>>)
      BY DEF Increasing, TakenAt
    <3>2. Range(<<>>) = places \cap 1 .. 0
      BY DEF Range
    <3> QED  BY <2>1, <3>1, <3>2
  <2> HIDE DEF Kept
  <2> QED  BY <1>1, <2>1, <2>2
<1>3. ASSUME NEW i \in 1 .. n, NEW r \in I[i - 1]
      PROVE  keep[<<r, i>>] \in I[i]
  <2>1. i - 1 \in 0 .. n /\ i \in 0 .. n /\ i \in DOMAIN s
    BY <1>1
  <2>2. r \in Seq(Range(s)) /\ Kept(r, i - 1)
    <3> HIDE DEF Kept
    <3> QED  BY <2>1
  <2>3. PICK p \in Seq(DOMAIN s) :
          /\ Increasing(p) /\ TakenAt(s, r, p)
          /\ Range(p) = places \cap 1 .. i - 1
    BY <2>2
  <2>4. CASE i \in places
    <3> DEFINE q == Append(p, i)
               t == Append(r, s[i])
    <3>1. keep[<<r, i>>] = t
      BY <2>1, <2>2, <2>4
    <3>2. t \in Seq(Range(s)) /\ q \in Seq(DOMAIN s)
      BY <1>1, <2>1, <2>2
    <3>3. Len(q) = Len(p) + 1 /\ q[Len(p) + 1] = i
          /\ \A a \in 1 .. Len(p) : q[a] = p[a]
      BY <1>1, <2>1
    <3>4. Len(p) \in Nat /\ \A a \in 1 .. Len(p) : p[a] \in 1 .. i - 1
      BY <2>3 DEF Range
    <3>5. Increasing(q)
      BY <1>1, <2>1, <2>3, <3>2, <3>3, <3>4 DEF Increasing
    <3>6. TakenAt(s, t, q)
      <4>1. Len(t) = Len(r) + 1 /\ t[Len(r) + 1] = s[i]
            /\ \A a \in 1 .. Len(r) : t[a] = r[a]
        BY <1>1, <2>2
      <4> QED  BY <2>3, <3>2, <3>3, <3>4, <4>1 DEF TakenAt
    <3>7. Range(q) = Range(p) \cup {i}
      <4>1. DOMAIN q = 1 .. Len(p) + 1 /\ DOMAIN p = 1 .. Len(p)
        BY <3>2, <3>3
      <4>2. Len(p) \in Nat /\ Len(p) + 1 \in 1 .. Len(p) + 1
            /\ \A a \in 1 .. Len(p) + 1 : a \in 1 .. Len(p) \/ a = Len(p) + 1
        BY <3>4
      <4> HIDE DEF q
      <4>3. Range(q) \subseteq Range(p) \cup {i}
        BY <3>3, <4>1, <4>2 DEF Range
      <4>4. Range(p) \subseteq Range(q)
        BY <3>3, <4>1, <4>2 DEF Range
      <4>5. i \in Range(q)
        BY <3>3, <4>1, <4>2 DEF Range
      <4> QED  BY <4>3, <4>4, <4>5
    <3>8. Range(q) = places \cap 1 .. i
      BY <1>1, <2>1, <2>3, <2>4, <3>7
    <3>9. Kept(t, i)
      <4> HIDE DEF t, q
      <4> QED  BY <3>2, <3>5, <3>6, <3>8
    <3> HIDE DEF Kept, t
    <3> QED  BY <2>1, <3>1, <3>2, <3>9
  <2>5. CASE i \notin places
    <3>1. keep[<<r, i>>] = r
      BY <2>1, <2>2, <2>5
    <3>2. Range(p) = places \cap 1 .. i
      BY <1>1, <2>1, <2>3, <2>5
    <3>3. Kept(r, i)
      BY <2>3, <3>2
    <3> HIDE DEF Kept
    <3> QED  BY <2>1, <2>2, <3>1, <3>3
  <2> QED  BY <2>4, <2>5
<1>4. Selected(s, places) = Iterated(keep, <<>>, n)
  BY DEF Selected
<1>5. Selected(s, places) \in I[n]
  <2>1. n \in 0 .. n
    BY <1>1
  <2>2. \A i \in 1 .. n : \A r \in I[i - 1] : keep[<<r, i>>] \in I[i]
    BY <1>3
  <2>3. \A i \in 0 .. n : Iterated(keep, <<>>, i) \in I[i]
    <3> HIDE DEF keep, I, n
    <3> QED  BY <1>1, <1>2, <2>2, IteratedSteps
  <2> HIDE DEF keep, I, n
  <2> QED  BY <1>4, <2>1, <2>3
<1>6. Selected(s, places) \in Seq(Range(s)) /\ Kept(Selected(s, places), n)
  <2>1. n \in 0 .. n
    BY <1>1
  <2> HIDE DEF Kept, n
  <2> QED  BY <1>5, <2>1
<1> QED  BY <1>1, <1>6

(* No two mods of a list have a name.                                      *)
Unique(mods) ==
  \A i, j \in DOMAIN mods : mods[i].name = mods[j].name => i = j

LEMMA SelectedUnique ==
  ASSUME NEW mods \in Seq(Mods), NEW places, Unique(mods)
  PROVE  Selected(mods, places) \in Seq(Mods)
         /\ Unique(Selected(mods, places))
<1> DEFINE r == Selected(mods, places)
<1>1. r \in Seq(Range(mods)) /\ Range(mods) \subseteq Mods
  BY SelectedPlaces DEF Range
<1>2. PICK p \in Seq(DOMAIN mods) : Increasing(p) /\ TakenAt(mods, r, p)
  BY SelectedPlaces
<1>3. DOMAIN p = DOMAIN r /\ DOMAIN p = 1 .. Len(p) /\ Len(p) \in Nat
      /\ \A a \in DOMAIN p : p[a] \in DOMAIN mods /\ r[a] = mods[p[a]]
  <2> HIDE DEF r
  <2> QED  BY <1>1, <1>2 DEF TakenAt
<1>4. \A a, b \in DOMAIN p : p[a] = p[b] => a = b
  <2> SUFFICES ASSUME NEW a \in DOMAIN p, NEW b \in DOMAIN p, p[a] = p[b]
               PROVE  a = b
    OBVIOUS
  <2>1. a < b => p[a] < p[b]
    BY <1>2 DEF Increasing
  <2>2. b < a => p[b] < p[a]
    BY <1>2 DEF Increasing
  <2>3. p[a] \in Nat /\ a \in Nat /\ b \in Nat
    BY <1>3
  <2> QED  BY <2>1, <2>2, <2>3
<1>5. r \in Seq(Mods)
  <2> HIDE DEF r
  <2> QED  BY <1>1
<1>6. Unique(r)
  <2> HIDE DEF r
  <2> QED  BY <1>3, <1>4 DEF Unique
<1> QED  BY <1>5, <1>6

(* The list in order: each mod is in it once, before all that depend on it. *)
LEMMA SortedPlaces ==
  ASSUME NEW M, NEW mods \in Seq(M), ~ Search(mods).cycle
  PROVE  \E p \in Seq(DOMAIN mods) :
           /\ Range(p) = DOMAIN mods
           /\ Len(Sorted(mods)) = Len(p) /\ DOMAIN Sorted(mods) = DOMAIN p
           /\ \A i \in DOMAIN p : Sorted(mods)[i] = mods[p[i]]
           /\ \A i, j \in DOMAIN p : p[i] = p[j] => i = j
           /\ \A i \in DOMAIN p, v \in DOMAIN mods :
                DependsOn(mods, v, p[i]) => \E j \in DOMAIN p : i < j /\ p[j] = v
<1> DEFINE order == Search(mods).order
           p == Reverse(order)
           n == Len(order)
<1>1. /\ order \in Seq(DOMAIN mods) /\ Ordered(mods, order)
      /\ Range(order) = DOMAIN mods
  BY SearchSorts, SofarFields
<1> HIDE DEF order
<1>2. n \in Nat /\ DOMAIN order = 1 .. n
  BY <1>1
<1>3. /\ DOMAIN p = 1 .. n /\ \A i \in 1 .. n : p[i] = order[(n - i) + 1]
      /\ \A i \in 1 .. n : (n - i) + 1 \in 1 .. n
  BY <1>2 DEF Reverse
<1>4. \A i \in 1 .. n : order[i] \in DOMAIN mods
  BY <1>1
<1>5. p \in Seq(DOMAIN mods) /\ Len(p) = n
  <2>1. \A i \in 1 .. n : p[i] \in DOMAIN mods
    BY <1>2, <1>3, <1>4
  <2>2. p = [i \in 1 .. n |-> order[(n - i) + 1]]
    BY DEF Reverse
  <2>3. p \in [1 .. n -> DOMAIN mods]
    <3> HIDE DEF p
    <3> QED  BY <1>3, <2>1, <2>2
  <2> HIDE DEF p
  <2> QED  BY <1>2, <2>3
<1>6. Sorted(mods) = [i \in DOMAIN p |-> mods[p[i]]]
  BY DEF Sorted, order
<1>7. Range(p) = DOMAIN mods
  <2>1. \A i \in 1 .. n : p[(n - i) + 1] = order[i]
    BY <1>2, <1>3
  <2>2. \A i \in 1 .. n : p[i] \in DOMAIN mods
    BY <1>5
  <2> HIDE DEF p
  <2>3. Range(p) \subseteq DOMAIN mods
    BY <1>3, <2>2 DEF Range
  <2>4. ASSUME NEW u \in DOMAIN mods PROVE u \in Range(p)
    <3>1. PICK i \in 1 .. n : order[i] = u
      BY <1>1, <1>2 DEF Range
    <3>2. (n - i) + 1 \in 1 .. n /\ p[(n - i) + 1] = u
      BY <1>3, <2>1, <3>1
    <3> QED  BY <1>3, <3>2 DEF Range
  <2> QED  BY <2>3, <2>4
<1>8. \A i, j \in 1 .. n : p[i] = p[j] => i = j
  <2>1. \A a, b \in 1 .. n : order[a] = order[b] => a = b
    BY <1>1, <1>2 DEF Ordered
  <2> HIDE DEF p
  <2> SUFFICES ASSUME NEW i \in 1 .. n, NEW j \in 1 .. n, p[i] = p[j]
               PROVE  i = j
    OBVIOUS
  <2>2. (n - i) + 1 = (n - j) + 1
    BY <1>3, <2>1
  <2> QED  BY <1>2, <2>2
<1>9. ASSUME NEW i \in 1 .. n, NEW v \in DOMAIN mods, DependsOn(mods, v, p[i])
      PROVE  \E j \in 1 .. n : i < j /\ p[j] = v
  <2> DEFINE a == (n - i) + 1
  <2>1. a \in DOMAIN order /\ p[i] = order[a] /\ a \in Int
    BY <1>2, <1>3
  <2> HIDE DEF p, a
  <2>2. PICK b \in 1 .. a - 1 : order[b] = v
    BY <1>1, <1>9, <2>1 DEF Ordered
  <2>3. (n - b) + 1 \in 1 .. n /\ i < (n - b) + 1
        /\ (n - ((n - b) + 1)) + 1 = b
    BY <1>2, <2>1 DEF a
  <2> QED  BY <1>3, <2>2, <2>3
<1>10. Len(Sorted(mods)) = Len(p) /\ DOMAIN Sorted(mods) = DOMAIN p
       /\ \A i \in DOMAIN p : Sorted(mods)[i] = mods[p[i]]
  <2> HIDE DEF p
  <2> QED  BY <1>2, <1>3, <1>5, <1>6
<1>11. ASSUME NEW i \in DOMAIN p, NEW v \in DOMAIN mods,
              DependsOn(mods, v, p[i])
       PROVE  \E j \in DOMAIN p : i < j /\ p[j] = v
  <2>1. i \in 1 .. n
    BY <1>3
  <2> HIDE DEF p
  <2> QED  BY <1>3, <1>9, <1>11, <2>1
<1> HIDE DEF p
<1>12. p \in Seq(DOMAIN mods)
  BY <1>5
<1> SUFFICES /\ Range(p) = DOMAIN mods
             /\ Len(Sorted(mods)) = Len(p) /\ DOMAIN Sorted(mods) = DOMAIN p
             /\ \A i \in DOMAIN p : Sorted(mods)[i] = mods[p[i]]
             /\ \A i, j \in DOMAIN p : p[i] = p[j] => i = j
             /\ \A i \in DOMAIN p, v \in DOMAIN mods :
                  DependsOn(mods, v, p[i])
                    => \E j \in DOMAIN p : i < j /\ p[j] = v
  BY <1>12, Zenon
<1> QED  BY <1>3, <1>7, <1>8, <1>10, <1>11

(* A list that can be sorted is sorted as its mods demand.                 *)
LEMMA SortedMeets ==
  ASSUME NEW mods \in Seq(Mods), Unique(mods), Sortable(mods)
  PROVE  /\ Sorted(mods) \in Seq(Mods) /\ Unique(Sorted(mods))
         /\ DependenciesMet(Sorted(mods))
<1> DEFINE r == Sorted(mods)
<1>1. PICK p \in Seq(DOMAIN mods) :
        /\ Range(p) = DOMAIN mods
        /\ Len(r) = Len(p) /\ DOMAIN r = DOMAIN p
        /\ \A i \in DOMAIN p : r[i] = mods[p[i]]
        /\ \A i, j \in DOMAIN p : p[i] = p[j] => i = j
        /\ \A i \in DOMAIN p, v \in DOMAIN mods :
             DependsOn(mods, v, p[i]) => \E j \in DOMAIN p : i < j /\ p[j] = v
  BY SortedPlaces DEF Sortable
<1>2. DOMAIN p = 1 .. Len(p) /\ Len(p) \in Nat
      /\ \A i \in DOMAIN p : p[i] \in DOMAIN mods
  OBVIOUS
<1>3. r \in Seq(Mods)
  <2>1. \A i \in 1 .. Len(p) : r[i] \in Mods
    BY <1>1, <1>2
  <2>2. r = [i \in 1 .. Len(p) |-> r[i]]
    <3>1. r = [i \in DOMAIN Reverse(Search(mods).order) |->
                 mods[Reverse(Search(mods).order)[i]]]
      BY DEF Sorted
    <3> HIDE DEF r
    <3> QED  BY <1>1, <1>2, <3>1
  <2> HIDE DEF r
  <2> QED  BY <1>2, <2>1, <2>2
<1> HIDE DEF r
<1>4. Unique(r)
  BY <1>1, <1>2 DEF Unique
<1>5. ASSUME NEW i \in DOMAIN r, NEW dep \in r[i].dependencies
      PROVE  /\ dep.type = "required" => Places(r, dep) # {}
             /\ \A j \in Places(r, dep) :
                  IF dep.type = "forbidden"
                  THEN ~ VersionCompare(r[j].version, dep.version, dep.op)
                  ELSE /\ VersionCompare(r[j].version, dep.version, dep.op)
                       /\ j < i
  <2>1. p[i] \in DOMAIN mods /\ r[i] = mods[p[i]] /\ i \in DOMAIN p
    BY <1>1, <1>2
  <2>2. ~ Unmet(mods, dep)
    BY <1>5, <2>1 DEF Sortable
  <2>3. dep.type \in {"required", "optional", "forbidden"}
    <3>1. mods[p[i]] \in Mods
      BY <2>1
    <3> QED  BY <1>5, <2>1, <3>1 DEF Mods, Dependencies
  <2>4. \A j \in Places(r, dep) :
          /\ j \in DOMAIN p /\ p[j] \in Places(mods, dep) /\ r[j] = mods[p[j]]
    BY <1>1, <1>2 DEF Places
  <2>5. \A k \in Places(mods, dep) : \E j \in Places(r, dep) : p[j] = k
    <3> SUFFICES ASSUME NEW k \in Places(mods, dep)
                 PROVE  \E j \in Places(r, dep) : p[j] = k
      OBVIOUS
    <3>1. k \in DOMAIN mods /\ mods[k].name = dep.name
      BY DEF Places
    <3>2. PICK j \in DOMAIN p : p[j] = k
      BY <1>1, <3>1 DEF Range
    <3> QED  BY <1>1, <3>1, <3>2 DEF Places
  <2>6. \A j, k \in Places(mods, dep) : j = k
    BY DEF Places, Unique
  <2>7. ASSUME NEW j \in Places(r, dep), dep.type # "forbidden"
        PROVE  j < i
    <3>1. DependsOn(mods, p[i], p[j])
      BY <1>5, <2>1, <2>4, <2>7 DEF DependsOn, Places
    <3>2. PICK k \in DOMAIN p : j < k /\ p[k] = p[i]
      BY <1>1, <2>1, <2>4, <3>1
    <3> QED  BY <1>1, <2>1, <3>2
  <2>8. CASE dep.type = "forbidden"
    <3>1. \A j \in Places(mods, dep) :
            ~ VersionCompare(mods[j].version, dep.version, dep.op)
      BY <2>2, <2>8 DEF Unmet
    <3> QED  BY <2>4, <2>8, <3>1
  <2>9. CASE dep.type = "optional"
    <3>1. \A j \in Places(mods, dep) :
            VersionCompare(mods[j].version, dep.version, dep.op)
      BY <2>2, <2>9 DEF Unmet
    <3> QED  BY <2>4, <2>7, <2>9, <3>1
  <2>10. CASE dep.type = "required"
    <3>1. \E j \in Places(mods, dep) :
            VersionCompare(mods[j].version, dep.version, dep.op)
      BY <2>2, <2>10 DEF Unmet
    <3> QED  BY <2>4, <2>5, <2>6, <2>7, <2>10, <3>1
  <2> QED  BY <2>3, <2>8, <2>9, <2>10
<1>6. DependenciesMet(r)
  BY <1>5, Zenon DEF DependenciesMet
<1> QED  BY <1>3, <1>4, <1>6 DEF r

(* What is known of the list: the mods of a catalog, no two of a name, and *)
(* in the order of their dependencies once the thread has sorted them.     *)
DatabaseFields ==
  DOMAIN databases = {"mods", "mounted", "locale", "prototypes", "atlas"}

IsList(mods) == mods \in Seq(Mods) /\ Unique(mods)

ListInv ==
  /\ WorkerFields /\ DatabaseFields
  /\ waiting.call = "load" => waiting.catalog \in Seq(Mods)
  /\ worker.catalog \in Seq(Mods) /\ IsList(worker.mods)
  /\ worker.at \in {"settings", "locale", "scripts"} =>
       DependenciesMet(worker.mods)
  /\ DependenciesMet(databases.mods)

LEMMA NoMods == IsList(<<>>) /\ DependenciesMet(<<>>)
BY DEF IsList, Unique, DependenciesMet

(* A step that takes the list as it is to where it need not be in order.   *)
LEMMA ListLeft ==
  ASSUME ListInv, WorkerFields', DatabaseFields', waiting' = waiting,
         worker'.catalog = worker.catalog, IsList(worker'.mods),
         worker'.at \in {"settings", "locale", "scripts"} =>
           DependenciesMet(worker'.mods),
         databases'.mods \in {databases.mods, <<>>}
  PROVE  ListInv'
<1>1. DependenciesMet(databases'.mods)
  BY NoMods DEF ListInv
<1> QED  BY <1>1 DEF ListInv, IsList, Unique, DependenciesMet, Places

LEMMA ListBegins ==
  ASSUME ListInv, UNCHANGED <<results, result, waiting>>,
         Begins \/ Discovers \/ Enables \/ Mounts \/ Sorts
  PROVE  ListInv'
<1>1. WorkerFields /\ DatabaseFields /\ IsList(worker.mods)
      /\ worker.catalog \in Seq(Mods)
  BY DEF ListInv
<1>2. CASE Begins
  BY <1>1, <1>2, ListLeft
     DEF Begins, Goes, At, WorkerFields, DatabaseFields, Empty
<1>3. CASE Discovers
  <2>1. CASE worker' = [worker EXCEPT !.at = "enable", !.mods = worker.catalog]
             /\ Discoverable(worker.catalog) /\ databases' = databases
    <3>1. IsList(worker.catalog)
      BY <1>1, <2>1 DEF IsList, Discoverable, Unique
    <3> QED  BY <1>1, <2>1, <3>1, ListLeft DEF WorkerFields, DatabaseFields
  <2>2. CASE /\ \E status : worker' = [worker EXCEPT !.at = "rollback",
                                                     !.status = status]
             /\ databases' = databases
    BY <1>1, <2>2, ListLeft DEF WorkerFields, DatabaseFields
  <2> QED  BY <1>3, <2>1, <2>2 DEF Discovers, StopsIfCancelled, Fails
<1>4. CASE Enables
  <2>1. /\ WorkerFields' /\ worker'.mods = worker.mods
        /\ worker'.catalog = worker.catalog /\ databases' = databases
        /\ worker'.at \in {"rollback", "mount"}
    BY <1>1, <1>4 DEF Enables, StopsIfCancelled, Fails, WorkerFields
  <2> QED  BY <1>1, <2>1, ListLeft DEF DatabaseFields
<1>5. CASE Mounts
  <2>1. CASE worker' = [worker EXCEPT !.at = "sort",
                                      !.mods = Enabled(worker.mods)]
             /\ databases' = databases
    <3>1. IsList(Enabled(worker.mods))
      BY <1>1, SelectedUnique DEF Enabled, IsList
    <3> QED  BY <1>1, <2>1, <3>1, ListLeft DEF WorkerFields, DatabaseFields
  <2>2. CASE /\ worker' = [worker EXCEPT !.left = Tail(@)]
             /\ \E m : databases' = [databases EXCEPT !.mounted = m]
    BY <1>1, <1>5, <2>2, ListLeft DEF WorkerFields, DatabaseFields, Mounts, At
  <2>3. CASE /\ \E status : worker' = [worker EXCEPT !.at = "rollback",
                                                     !.status = status]
             /\ databases' = databases
    BY <1>1, <2>3, ListLeft DEF WorkerFields, DatabaseFields
  <2> QED  BY <1>5, <2>1, <2>2, <2>3 DEF Mounts, Fails
<1>6. CASE Sorts
  <2>1. CASE worker' = [worker EXCEPT !.at = "settings",
                                      !.mods = Sorted(worker.mods)]
             /\ Sortable(worker.mods) /\ databases' = databases
    <3>1. IsList(Sorted(worker.mods)) /\ DependenciesMet(Sorted(worker.mods))
      BY <1>1, <2>1, SortedMeets DEF IsList
    <3>2. worker'.mods = Sorted(worker.mods) /\ WorkerFields'
          /\ worker'.catalog = worker.catalog
      BY <1>1, <2>1 DEF WorkerFields
    <3> QED  BY <1>1, <2>1, <3>1, <3>2, ListLeft DEF DatabaseFields
  <2>2. CASE /\ \E status : worker' = [worker EXCEPT !.at = "rollback",
                                                     !.status = status]
             /\ databases' = databases
    BY <1>1, <2>2, ListLeft DEF WorkerFields, DatabaseFields
  <2> QED  BY <1>6, <2>1, <2>2 DEF Sorts, StopsIfCancelled, Fails
<1> QED  BY <1>2, <1>3, <1>4, <1>5, <1>6

LEMMA ListLoads ==
  ASSUME ListInv, UNCHANGED <<results, result, waiting>>,
         Settings \/ Locale \/ Scripts \/ Prototypes
  PROVE  ListInv'
<1>1. WorkerFields /\ DatabaseFields /\ IsList(worker.mods)
  BY DEF ListInv
<1>2. CASE Settings
  BY <1>1, <1>2, ListLeft
     DEF Settings, StopsIfCancelled, Fails, Goes, At, WorkerFields,
         DatabaseFields, ListInv
<1>3. CASE Locale
  <2>1. /\ WorkerFields' /\ DatabaseFields' /\ worker'.mods = worker.mods
        /\ worker'.catalog = worker.catalog
        /\ databases'.mods = databases.mods
    BY <1>1, <1>3
       DEF Locale, StopsIfCancelled, Fails, WorkerFields, DatabaseFields
  <2>2. DependenciesMet(worker.mods)
    BY <1>3 DEF Locale, At, ListInv
  <2> QED  BY <1>1, <2>1, <2>2, ListLeft
<1>4. CASE Scripts
  <2>1. DependenciesMet(worker.mods)
    BY <1>4 DEF Scripts, At, ListInv
  <2>2. /\ WorkerFields' /\ DatabaseFields' /\ worker'.mods = worker.mods
        /\ worker'.catalog = worker.catalog
        /\ databases'.mods \in {databases.mods, worker.mods}
    BY <1>1, <1>4
       DEF Scripts, StopsIfCancelled, Fails, Goes, WorkerFields, DatabaseFields
  <2> QED  BY <1>1, <2>1, <2>2 DEF ListInv, IsList, Unique, DependenciesMet,
                                   Places
<1>5. CASE Prototypes
  <2>1. /\ WorkerFields' /\ DatabaseFields' /\ worker'.mods = worker.mods
        /\ worker'.catalog = worker.catalog
        /\ databases'.mods = databases.mods
        /\ worker'.at \in {"rollback", "atlas"}
    BY <1>1, <1>5
       DEF Prototypes, StopsIfCancelled, Fails, Goes, WorkerFields,
           DatabaseFields
  <2> QED  BY <1>1, <2>1, ListLeft
<1> QED  BY <1>2, <1>3, <1>4, <1>5

LEMMA ListEnds ==
  ASSUME ListInv, waiting' = waiting,
         \/ BeginsAtlas \/ Uploads \/ EndsAtlas \/ AtlasThrows
         \/ AtlasAbandoned \/ Releases \/ RollsBack \/ Installs \/ Settles
         \/ Completes \/ Delivers \/ PoolTakes \/ PoolEnds
  PROVE  ListInv'
<1>1. WorkerFields /\ DatabaseFields /\ IsList(worker.mods)
  BY DEF ListInv
<1>2. CASE UNCHANGED <<worker, databases>>
  BY <1>1, <1>2, ListLeft DEF WorkerFields, DatabaseFields, ListInv
<1>3. CASE BeginsAtlas
  BY <1>1, <1>2, <1>3, ListLeft
     DEF BeginsAtlas, Goes, WorkerFields, DatabaseFields
<1>4. CASE EndsAtlas
  BY <1>1, <1>4, ListLeft DEF EndsAtlas, Goes, WorkerFields, DatabaseFields
<1>5. CASE AtlasAbandoned
  BY <1>1, <1>5, ListLeft DEF AtlasAbandoned, WorkerFields, DatabaseFields
<1>6. CASE Releases
  <2>1. /\ WorkerFields' /\ worker'.mods = worker.mods
        /\ worker'.catalog = worker.catalog /\ databases' = databases
        /\ worker'.at \in {"rollback", "install"}
    BY <1>1, <1>6 DEF Releases, StopsIfCancelled, Fails, WorkerFields
  <2> QED  BY <1>1, <2>1, ListLeft DEF DatabaseFields
<1>7. CASE RollsBack
  BY <1>1, <1>7, ListLeft
     DEF RollsBack, Goes, WorkerFields, DatabaseFields, Empty
<1>8. CASE Installs
  BY <1>1, <1>8, ListLeft DEF Installs, At, WorkerFields, DatabaseFields
<1>9. CASE Settles
  BY <1>1, <1>9, ListLeft
     DEF Settles, Goes, WorkerFields, DatabaseFields, Empty
<1>10. CASE Completes
  BY <1>1, <1>10, ListLeft DEF Completes, Goes, WorkerFields, DatabaseFields
<1>11. CASE Delivers
  BY <1>1, <1>11, ListLeft DEF Delivers, WorkerFields, DatabaseFields
<1> QED
  BY <1>2, <1>3, <1>4, <1>5, <1>6, <1>7, <1>8, <1>9, <1>10, <1>11
     DEF Uploads, AtlasThrows, PoolTakes, PoolEnds

LEMMA ListOfProgram ==
  ASSUME ListInv,
         \/ CallLoad \/ CallUnload \/ Load \/ Unload \/ Cancel \/ Result
         \/ SetModEnabled \/ UNCHANGED vars
  PROVE  ListInv'
<1>1. WorkerFields /\ DatabaseFields /\ IsList(worker.mods)
  BY DEF ListInv
<1>2. CASE Load
  <2>1. waiting.catalog \in Seq(Mods)
    BY <1>2 DEF Load, Joined, ListInv
  <2>2. /\ WorkerFields' /\ worker'.at = "begin" /\ worker'.mods = <<>>
        /\ worker'.catalog = waiting.catalog /\ waiting'.call = "none"
        /\ databases' = databases
    BY <1>2 DEF Load, Idle, NoCall, WorkerFields
  <2> QED  BY <1>1, <2>1, <2>2, NoMods
           DEF ListInv, DatabaseFields, DependenciesMet, Places, IsList, Unique
<1>3. CASE Unload
  <2>1. /\ worker' = worker /\ databases' = Empty /\ waiting'.call = "none"
    BY <1>3 DEF Unload, NoCall
  <2>2. databases'.mods = <<>> /\ DatabaseFields'
    BY <2>1 DEF Empty, DatabaseFields
  <2> QED  BY <1>1, <2>1, <2>2, NoMods
           DEF ListInv, WorkerFields, DependenciesMet, Places, IsList, Unique
<1>4. CASE CallLoad \/ CallUnload \/ Cancel
  <2>1. /\ databases' = databases /\ worker' = [worker EXCEPT !.stop = TRUE]
        /\ waiting'.call = "load" => waiting'.catalog \in Seq(Mods)
    <3>1. CASE CallLoad
      BY <3>1, ModAssumption DEF CallLoad, RequestsStop, program
    <3>2. CASE CallUnload
      BY <3>2 DEF CallUnload, RequestsStop, program
    <3>3. CASE Cancel
      BY <3>3 DEF Cancel, RequestsStop, program, ListInv
    <3> QED  BY <1>4, <3>1, <3>2, <3>3
  <2>2. /\ WorkerFields' /\ worker'.at = worker.at
        /\ worker'.mods = worker.mods /\ worker'.catalog = worker.catalog
    BY <1>1, <2>1 DEF WorkerFields
  <2> QED  BY <2>1, <2>2
           DEF ListInv, DatabaseFields, DependenciesMet, Places, IsList, Unique
<1>5. CASE Result \/ SetModEnabled \/ UNCHANGED vars
  <2>1. UNCHANGED <<worker, databases, waiting>>
    BY <1>5 DEF Result, SetModEnabled, vars, program
  <2> QED  BY <2>1
           DEF ListInv, WorkerFields, DatabaseFields, DependenciesMet, Places,
               IsList, Unique
<1> QED  BY <1>2, <1>3, <1>4, <1>5

LEMMA ListInvariance == Spec => []ListInv
<1>1. Init => ListInv
  <2> SUFFICES ASSUME Init PROVE ListInv
    OBVIOUS
  <2>1. /\ WorkerFields /\ DatabaseFields /\ worker.catalog = <<>>
        /\ worker.mods = <<>> /\ databases.mods = <<>> /\ worker.at = "idle"
        /\ waiting.call = "none"
    BY DEF Init, Idle, Empty, NoCall, WorkerFields, DatabaseFields
  <2>2. <<>> \in Seq(Mods)
    OBVIOUS
  <2> QED  BY <2>1, <2>2, NoMods DEF ListInv
<1>2. ListInv /\ [Next]_vars => ListInv'
  <2> SUFFICES ASSUME ListInv, [Next]_vars PROVE ListInv'
    OBVIOUS
  <2>1. CASE WorkerStep
    BY <2>1, ListBegins, ListLoads, ListEnds DEF WorkerStep
  <2>2. CASE PoolStep
    BY <2>2, ListEnds DEF PoolStep
  <2>3. CASE \/ CallLoad \/ CallUnload \/ Load \/ Unload \/ Cancel \/ Result
             \/ SetModEnabled \/ UNCHANGED vars
    BY <2>3, ListOfProgram
  <2> QED  BY <2>1, <2>2, <2>3 DEF Next
<1> QED  BY <1>1, <1>2, PTL DEF Spec

(* Whatever the dependencies of the mods, their versions and what is       *)
(* enabled, the loaded mods are in an order that has what each requires    *)
(* before it, in a version that suits, and nothing that one forbids.       *)
THEOREM DependenciesComeFirst == Spec => []DependenciesFirst
<1>1. ListInv => DependenciesFirst
  BY DEF ListInv, DependenciesFirst
<1> QED  BY <1>1, ListInvariance, PTL

-----------------------------------------------------------------------------
(* Pairs *)
LEMMA Pair ==
  ASSUME NEW S, NEW f, f = [d \in Axis |-> f[d]], f[1] \in S, f[2] \in S
  PROVE  f \in S \X S
<1>1. f = <<f[1], f[2]>>
  BY DEF Axis
<1> QED  BY <1>1

-----------------------------------------------------------------------------
(* The packer                                                              *)

LEMMA LargerOf ==
  /\ \A a, b \in Nat : /\ Larger(a, b) \in Nat /\ Smaller(a, b) \in Nat
                       /\ Larger(a, b) \in {a, b} /\ Smaller(a, b) \in {a, b}
                       /\ a <= Larger(a, b) /\ b <= Larger(a, b)
                       /\ Smaller(a, b) <= a /\ Smaller(a, b) <= b
BY DEF Larger, Smaller

(* Rectangles of some sizes at some places, none over another.             *)
Apart(sizes, places, i, j) ==
  \E d \in Axis : \/ places[i][d] + sizes[i][d] <= places[j][d]
                  \/ places[j][d] + sizes[j][d] <= places[i][d]

AllApart(sizes, places) ==
  /\ places \in Seq(Nat \X Nat)
  /\ \A i, j \in DOMAIN places : i # j => Apart(sizes, places, i, j)

(* What has been placed ends below the shelf or on it before the end.      *)
OnShelf(size, at, shelf, height, end) ==
  \/ at[2] + size[2] <= shelf
  \/ at[2] = shelf /\ size[2] <= height /\ at[1] + size[1] <= end

SoundShelves(sizes, k, s) ==
  /\ s.end \in Nat /\ s.shelf \in Nat /\ s.height \in Nat
  /\ AllApart(sizes, s.places) /\ Len(s.places) = k
  /\ \A i \in 1 .. k :
       OnShelf(sizes[i], s.places[i], s.shelf, s.height, s.end)

LEMMA AppendedOne ==
  ASSUME NEW S, NEW p \in Seq(S), NEW x \in S
  PROVE  /\ Append(p, x) \in Seq(S) /\ Len(Append(p, x)) = Len(p) + 1
         /\ Append(p, x)[Len(p) + 1] = x
         /\ \A i \in 1 .. Len(p) : Append(p, x)[i] = p[i]
         /\ Len(p) \in Nat
OBVIOUS

LEMMA PlacedApart ==
  ASSUME NEW sizes, NEW p, AllApart(sizes, p), NEW at \in Nat \X Nat,
         \A i \in 1 .. Len(p) : \/ p[i][1] + sizes[i][1] <= at[1]
                                \/ p[i][2] + sizes[i][2] <= at[2]
  PROVE  AllApart(sizes, Append(p, at))
<1> DEFINE q == Append(p, at)
           k == Len(p)
<1>1. p \in Seq(Nat \X Nat)
  BY DEF AllApart
<1>2. /\ q \in Seq(Nat \X Nat) /\ Len(q) = k + 1 /\ q[k + 1] = at
      /\ \A i \in 1 .. k : q[i] = p[i]
      /\ k \in Nat
  BY <1>1, AppendedOne
<1>3. \A i, j \in 1 .. k : i # j => Apart(sizes, p, i, j)
  <2>1. DOMAIN p = 1 .. k
    BY <1>1
  <2> QED  BY <2>1 DEF AllApart
<1> HIDE DEF q, k
<1>4. ASSUME NEW i \in 1 .. k + 1, NEW j \in 1 .. k + 1, i # j
      PROVE  Apart(sizes, q, i, j)
  <2>1. CASE i # k + 1 /\ j # k + 1
    <3>1. i \in 1 .. k /\ j \in 1 .. k
      BY <1>2, <2>1
    <3> QED  BY <1>2, <1>3, <1>4, <3>1 DEF Apart
  <2>2. CASE i = k + 1
    <3>1. j \in 1 .. k
      BY <1>2, <1>4, <2>2
    <3>2. q[j] = p[j] /\ q[i] = at
      BY <1>2, <2>2, <3>1
    <3>3. \E d \in Axis : p[j][d] + sizes[j][d] <= at[d]
      BY <3>1 DEF k, Axis
    <3> QED  BY <3>2, <3>3 DEF Apart
  <2>3. CASE j = k + 1
    <3>1. i \in 1 .. k
      BY <1>2, <1>4, <2>3
    <3>2. q[i] = p[i] /\ q[j] = at
      BY <1>2, <2>3, <3>1
    <3>3. \E d \in Axis : p[i][d] + sizes[i][d] <= at[d]
      BY <3>1 DEF k, Axis
    <3> QED  BY <3>2, <3>3 DEF Apart
  <2> QED  BY <2>1, <2>2, <2>3
<1>5. DOMAIN q = 1 .. k + 1
  BY <1>2
<1>6. AllApart(sizes, q)
  BY <1>2, <1>4, <1>5 DEF AllApart
<1> QED  BY <1>6 DEF q

(* Where the next one may be placed.                                       *)
LEMMA PlacedNext ==
  ASSUME NEW sizes, NEW k \in Nat \ {0}, NEW s,
         SoundShelves(sizes, k - 1, s),
         NEW at \in Nat \X Nat, NEW shelf \in Nat, NEW height \in Nat,
         NEW end \in Nat,
         \A i \in 1 .. k - 1 :
           /\ \/ s.places[i][1] + sizes[i][1] <= at[1]
              \/ s.places[i][2] + sizes[i][2] <= at[2]
           /\ OnShelf(sizes[i], s.places[i], shelf, height, end),
         OnShelf(sizes[k], at, shelf, height, end)
  PROVE  SoundShelves(sizes, k, [places |-> Append(s.places, at), end |-> end,
                                 shelf |-> shelf, height |-> height])
<1> DEFINE p == s.places
           q == Append(p, at)
<1>1. p \in Seq(Nat \X Nat) /\ Len(p) = k - 1 /\ AllApart(sizes, p)
  BY DEF SoundShelves, AllApart
<1>2. /\ q \in Seq(Nat \X Nat) /\ Len(q) = k /\ q[k] = at
      /\ \A i \in 1 .. k - 1 : q[i] = p[i]
  BY <1>1, AppendedOne
<1>3. AllApart(sizes, q)
  BY <1>1, PlacedApart
<1> HIDE DEF q
<1>4. ASSUME NEW i \in 1 .. k
      PROVE  OnShelf(sizes[i], q[i], shelf, height, end)
  <2>1. i \in 1 .. k - 1 \/ i = k
    OBVIOUS
  <2> QED  BY <1>2, <2>1
<1> QED  BY <1>2, <1>3, <1>4 DEF SoundShelves, q

LEMMA OnShelfStays ==
  ASSUME NEW x \in Nat, NEW y \in Nat, NEW w \in Nat, NEW h \in Nat,
         NEW shelf \in Nat, NEW height \in Nat, NEW end \in Nat,
         NEW W \in Nat, NEW H \in Nat,
         \/ y + h <= shelf
         \/ y = shelf /\ h <= height /\ x + w <= end
  PROVE  /\ x + w <= end \/ y + h <= shelf
         /\ \/ y + h <= shelf
            \/ y = shelf /\ h <= Larger(height, H) /\ x + w <= end + W
         /\ y + h <= shelf + height
         /\ Larger(height, H) \in Nat /\ H <= Larger(height, H)
BY DEF Larger

(* The next one is placed on the shelf, or on a new shelf.                 *)
LEMMA PlacedOnShelf ==
  ASSUME NEW sizes \in Seq(Extents), NEW k \in 1 .. Len(sizes), NEW s,
         SoundShelves(sizes, k - 1, s)
  PROVE  /\ SoundShelves(sizes, k,
              [places |-> Append(s.places, <<s.end, s.shelf>>),
               end |-> s.end + sizes[k][1], shelf |-> s.shelf,
               height |-> Larger(s.height, sizes[k][2])])
         /\ SoundShelves(sizes, k,
              [places |-> Append(s.places, <<0, s.shelf + s.height>>),
               end |-> sizes[k][1], shelf |-> s.shelf + s.height,
               height |-> sizes[k][2]])
<1> DEFINE p == s.places
           W == sizes[k][1]
           H == sizes[k][2]
           beside == <<s.end, s.shelf>>
           over == <<0, s.shelf + s.height>>
<1>1. /\ p \in Seq(Nat \X Nat) /\ Len(p) = k - 1
      /\ s.end \in Nat /\ s.shelf \in Nat /\ s.height \in Nat
      /\ k \in Nat \ {0}
  BY DEF SoundShelves, AllApart
<1>2. /\ \A i \in 1 .. k : /\ sizes[i][1] \in Nat
                           /\ sizes[i][2] \in Nat
      /\ W \in Nat /\ H \in Nat
  <2>1. \A i \in 1 .. k : sizes[i] \in (Nat \ {0}) \X (Nat \ {0})
    BY <1>1 DEF Extents
  <2>2. k \in 1 .. k
    BY <1>1
  <2> QED  BY <2>1, <2>2
<1>3. \A i \in 1 .. k - 1 : p[i][1] \in Nat /\ p[i][2] \in Nat
  <2>1. \A i \in 1 .. k - 1 : p[i] \in Nat \X Nat
    BY <1>1
  <2> HIDE DEF p
  <2> QED  BY <2>1
<1>4. \A i \in 1 .. k - 1 : OnShelf(sizes[i], p[i], s.shelf, s.height, s.end)
  BY DEF SoundShelves
<1>5. /\ beside \in Nat \X Nat /\ beside[1] = s.end /\ beside[2] = s.shelf
      /\ over \in Nat \X Nat /\ over[1] = 0 /\ over[2] = s.shelf + s.height
  BY <1>1
<1> HIDE DEF p, W, H, beside, over
<1>6. Larger(s.height, H) \in Nat /\ H <= Larger(s.height, H)
  BY <1>1, <1>2 DEF Larger
<1>7. ASSUME NEW i \in 1 .. k - 1
      PROVE  /\ \/ p[i][1] + sizes[i][1] <= s.end
                \/ p[i][2] + sizes[i][2] <= s.shelf
             /\ OnShelf(sizes[i], p[i], s.shelf, Larger(s.height, H), s.end + W)
             /\ p[i][2] + sizes[i][2] <= s.shelf + s.height
  <2> DEFINE x == p[i][1]
             y == p[i][2]
             w == sizes[i][1]
             h == sizes[i][2]
  <2>1. i \in 1 .. k
    BY <1>1
  <2>2. x \in Nat /\ y \in Nat /\ w \in Nat /\ h \in Nat
    BY <1>2, <1>3, <2>1
  <2>3. \/ y + h <= s.shelf
        \/ y = s.shelf /\ h <= s.height /\ x + w <= s.end
    BY <1>4 DEF OnShelf
  <2>4. OnShelf(sizes[i], p[i], s.shelf, Larger(s.height, H), s.end + W)
          <=> \/ y + h <= s.shelf
              \/ y = s.shelf /\ h <= Larger(s.height, H) /\ x + w <= s.end + W
    BY DEF OnShelf
  <2> HIDE DEF x, y, w, h
  <2>5. /\ s.end \in Nat /\ s.shelf \in Nat /\ s.height \in Nat
        /\ W \in Nat /\ H \in Nat
    BY <1>1, <1>2
  <2>6. x + w <= s.end \/ y + h <= s.shelf
    BY <2>2, <2>3, <2>5
  <2>7. y + h <= s.shelf + s.height
    BY <2>2, <2>3, <2>5
  <2>8. \/ y + h <= s.shelf
        \/ y = s.shelf /\ h <= Larger(s.height, H) /\ x + w <= s.end + W
    BY <2>2, <2>3, <2>5 DEF Larger
  <2> QED  BY <2>4, <2>6, <2>7, <2>8 DEF x, y, w, h
<1>8. SoundShelves(sizes, k, [places |-> Append(p, beside), end |-> s.end + W,
                              shelf |-> s.shelf,
                              height |-> Larger(s.height, H)])
  <2>1. OnShelf(sizes[k], beside, s.shelf, Larger(s.height, H), s.end + W)
    BY <1>1, <1>2, <1>5, <1>6 DEF OnShelf, W, H
  <2>2. s.end + W \in Nat
    BY <1>1, <1>2
  <2> QED  BY <1>1, <1>5, <1>6, <1>7, <2>1, <2>2, PlacedNext DEF p
<1>9. SoundShelves(sizes, k, [places |-> Append(p, over), end |-> W,
                              shelf |-> s.shelf + s.height, height |-> H])
  <2>1. OnShelf(sizes[k], over, s.shelf + s.height, H, W)
    BY <1>1, <1>2, <1>5 DEF OnShelf, W, H
  <2>2. s.shelf + s.height \in Nat
    BY <1>1
  <2>3. \A i \in 1 .. k - 1 :
          OnShelf(sizes[i], p[i], s.shelf + s.height, H, W)
    BY <1>7 DEF OnShelf
  <2> QED  BY <1>1, <1>2, <1>5, <1>7, <2>1, <2>2, <2>3, PlacedNext DEF p
<1> QED  BY <1>8, <1>9 DEF p, W, H, beside, over

LEMMA ShelvedApart ==
  ASSUME NEW sizes \in Seq(Extents), NEW extent \in Nat \X Nat
  PROVE  /\ AllApart(sizes, Shelved(sizes, extent))
         /\ Len(Shelved(sizes, extent)) = Len(sizes)
<1> DEFINE n == Len(sizes)
           Shelves == [places : Seq(Nat \X Nat), end : Nat, shelf : Nat,
                       height : Nat]
           place == [x \in Shelves \X DOMAIN sizes |->
                       LET last == x[1]
                           size == sizes[x[2]]
                           above == last.shelf + last.height
                       IN  IF last.end + size[1] <= extent[1]
                           THEN [places |-> Append(last.places,
                                                   <<last.end, last.shelf>>),
                                 end |-> last.end + size[1],
                                 shelf |-> last.shelf,
                                 height |-> Larger(last.height, size[2])]
                           ELSE [places |-> Append(last.places, <<0, above>>),
                                 end |-> size[1], shelf |-> above,
                                 height |-> size[2]]]
           none == [places |-> <<>>, end |-> 0, shelf |-> 0, height |-> 0]
           I == [k \in 0 .. n |-> {s \in Shelves : SoundShelves(sizes, k, s)}]
<1>1. /\ n \in Nat /\ DOMAIN sizes = 1 .. n
      /\ \A i \in 1 .. n : /\ sizes[i][1] \in Nat \ {0}
                           /\ sizes[i][2] \in Nat \ {0}
  BY DEF Extents
<1>2. none \in I[0]
  <2>1. none \in Shelves
    OBVIOUS
  <2>2. SoundShelves(sizes, 0, none)
    BY <2>1 DEF AllApart, SoundShelves
  <2> QED  BY <1>1, <2>1, <2>2
<1>3. ASSUME NEW k \in 1 .. n, NEW s \in I[k - 1]
      PROVE  place[<<s, k>>] \in I[k]
  <2> DEFINE w == sizes[k][1]
             h == sizes[k][2]
             above == s.shelf + s.height
             beside == [places |-> Append(s.places, <<s.end, s.shelf>>),
                        end |-> s.end + w, shelf |-> s.shelf,
                        height |-> Larger(s.height, h)]
             over == [places |-> Append(s.places, <<0, above>>),
                      end |-> w, shelf |-> above, height |-> h]
  <2>1. k - 1 \in 0 .. n /\ k \in 0 .. n /\ k \in DOMAIN sizes
    BY <1>1
  <2>2. s \in Shelves /\ SoundShelves(sizes, k - 1, s)
    BY <2>1
  <2>3. place[<<s, k>>] \in {beside, over}
    BY <2>1, <2>2
  <2> HIDE DEF place, I
  <2>4. /\ s.places \in Seq(Nat \X Nat)
        /\ s.end \in Nat /\ s.shelf \in Nat /\ s.height \in Nat
        /\ w \in Nat /\ h \in Nat /\ above \in Nat
        /\ Larger(s.height, h) \in Nat /\ s.end + w \in Nat
        /\ <<s.end, s.shelf>> \in Nat \X Nat /\ <<0, above>> \in Nat \X Nat
    <3>1. w \in Nat /\ h \in Nat
      BY <1>1
    <3>2. /\ s.places \in Seq(Nat \X Nat)
          /\ s.end \in Nat /\ s.shelf \in Nat /\ s.height \in Nat
      BY <2>2
    <3>3. Larger(s.height, h) \in Nat
      <4> HIDE DEF h
      <4>1. Larger(s.height, h) = s.height \/ Larger(s.height, h) = h
        BY Zenon DEF Larger
      <4> QED  BY <3>1, <3>2, <4>1
    <3> HIDE DEF w, h, beside, over, none, Shelves
    <3>4. s.end + w \in Nat
      BY <3>1, <3>2
    <3>5. above \in Nat
      BY <3>2
    <3> HIDE DEF above
    <3> QED  BY <3>1, <3>2, <3>3, <3>4, <3>5
  <2>5. SoundShelves(sizes, k, beside)
    BY <2>2, PlacedOnShelf
  <2>6. SoundShelves(sizes, k, over)
    BY <2>2, PlacedOnShelf
  <2>7. beside \in Shelves /\ over \in Shelves
    BY <2>4
  <2> HIDE DEF beside, over, Shelves
  <2>8. I[k] = {t \in Shelves : SoundShelves(sizes, k, t)}
    BY <2>1 DEF I
  <2> QED  BY <2>3, <2>5, <2>6, <2>7, <2>8
<1>4. Shelved(sizes, extent) = Iterated(place, none, n).places
  BY DEF Shelved
<1>5. SoundShelves(sizes, n, Iterated(place, none, n))
  <2>1. n \in 0 .. n
    BY <1>1
  <2>2. \A k \in 1 .. n : \A s \in I[k - 1] : place[<<s, k>>] \in I[k]
    BY <1>3
  <2>3. \A k \in 0 .. n : Iterated(place, none, k) \in I[k]
    <3> HIDE DEF place, none, I, n
    <3> QED  BY <1>1, <1>2, <2>2, IteratedSteps
  <2> HIDE DEF place, none, n
  <2> QED  BY <2>1, <2>3
<1> HIDE DEF place, none
<1> QED  BY <1>4, <1>5 DEF SoundShelves

(* The sides that are computed of an atlas are positive.                   *)
LEMMA SideIsPositive ==
  /\ \A n \in Nat : BitCeil[n] \in Nat \ {0} /\ CeilSqrt[n] \in Nat
  /\ \A sizes \in Seq(Extents) : Square(sizes) \in Nat \ {0}
<1>1. ASSUME NEW n \in Nat PROVE BitCeil[n] \in Nat \ {0}
  <2> DEFINE k == CHOOSE k \in 0 .. n : PowerOfTwo(k) >= n
  <2>1. n \in 0 .. n /\ PowerOfTwo(n) >= n
    BY Powers
  <2>2. k \in 0 .. n
    BY <2>1
  <2>3. BitCeil[n] = PowerOfTwo(k)
    BY DEF BitCeil
  <2> HIDE DEF k
  <2> QED  BY <2>2, <2>3, Powers
<1>2. ASSUME NEW n \in Nat PROVE CeilSqrt[n] \in Nat
  <2> DEFINE r == CHOOSE r \in 0 .. n : r * r >= n
  <2>1. n \in 0 .. n /\ n * n >= n
    OBVIOUS
  <2>2. r \in 0 .. n
    BY <2>1
  <2>3. CeilSqrt[n] = r
    BY DEF CeilSqrt
  <2> HIDE DEF r
  <2> QED  BY <2>2, <2>3
<1>3. ASSUME NEW sizes \in Seq(Extents) PROVE Square(sizes) \in Nat \ {0}
  <2> DEFINE n == Len(sizes)
             area == [x \in Nat \X DOMAIN sizes |->
                        x[1] + sizes[x[2]][1] * sizes[x[2]][2]]
             widest == [x \in Nat \X DOMAIN sizes |->
                          Larger(x[1], sizes[x[2]][1])]
             I == [k \in 0 .. n |-> Nat]
  <2>1. /\ n \in Nat /\ DOMAIN sizes = 1 .. n
        /\ \A k \in 1 .. n : /\ sizes[k][1] \in Nat
                             /\ sizes[k][2] \in Nat
    BY DEF Extents
  <2>2. /\ \A k \in 1 .. n : \A x \in I[k - 1] : area[<<x, k>>] \in I[k]
        /\ \A k \in 1 .. n : \A x \in I[k - 1] : widest[<<x, k>>] \in I[k]
    <3> SUFFICES ASSUME NEW k \in 1 .. n, NEW x \in I[k - 1]
                 PROVE  area[<<x, k>>] \in I[k] /\ widest[<<x, k>>] \in I[k]
      BY Zenon
    <3>1. k - 1 \in 0 .. n /\ k \in 0 .. n /\ k \in DOMAIN sizes
      BY <2>1
    <3>2. x \in Nat /\ I[k] = Nat
      BY <3>1
    <3>3. /\ area[<<x, k>>] = x + sizes[k][1] * sizes[k][2]
          /\ widest[<<x, k>>] = Larger(x, sizes[k][1])
      BY <3>1, <3>2
    <3>4. sizes[k][1] \in Nat /\ sizes[k][2] \in Nat
      BY <2>1
    <3>5. sizes[k][1] * sizes[k][2] \in Nat
      BY <3>4
    <3> HIDE DEF area, widest, I
    <3>6. Larger(x, sizes[k][1]) \in Nat
      BY <3>2, <3>4, LargerOf
    <3>7. \A a \in Nat : x + a \in Nat
      BY <3>2
    <3> QED  BY <3>2, <3>3, <3>5, <3>6, <3>7
  <2>3. 0 \in I[0] /\ 1 \in I[0] /\ n \in 0 .. n /\ I[n] = Nat
    BY <2>1
  <2> HIDE DEF area, widest, I, n
  <2>4. Iterated(area, 0, n) \in Nat /\ Iterated(widest, 1, n) \in Nat
    BY <2>1, <2>2, <2>3, IteratedSteps
  <2>5. /\ Larger(MinimumExtent, CeilSqrt[Iterated(area, 0, n)]) \in Nat
        /\ MinimumExtent \in Nat
    BY <1>2, <2>4, LargerOf, AtlasAssumption
  <2>6. Square(sizes)
          = Larger(BitCeil[Larger(MinimumExtent,
                                  CeilSqrt[Iterated(area, 0, n)])],
                   BitCeil[Iterated(widest, 1, n)])
    BY DEF Square, area, widest, n
  <2> QED  BY <1>1, <2>4, <2>5, <2>6 DEF Larger
<1> QED  BY <1>1, <1>2, <1>3

LEMMA TriedOf ==
  ASSUME NEW side \in Nat \ {0}, NEW n \in Nat
  PROVE  Tried(side, n) \in Extents
<1>1. (n + 1) \div 2 \in Nat /\ n \div 2 \in Nat
  OBVIOUS
<1>2. /\ PowerOfTwo((n + 1) \div 2) \in Nat \ {0}
      /\ PowerOfTwo(n \div 2) \in Nat \ {0}
  BY <1>1, Powers
<1>3. \A a, b \in Nat \ {0} : a * b \in Nat \ {0}
  OBVIOUS
<1> QED  BY <1>2, <1>3 DEF Tried, Extents

(* The search for an extent ends: it is the first that has room, or is     *)
(* too large.                                                              *)
LEMMA SomethingIsTried ==
  ASSUME NEW sizes \in Seq(Extents), NEW side \in Nat \ {0}
  PROVE  /\ LastTried[<<sizes, side>>] \in Extents
         /\ Ends(sizes, LastTried[<<sizes, side>>])
<1> DEFINE most == 2 * LargestAtlas
           Least(n) == /\ Ends(sizes, Tried(side, n))
                       /\ \A m \in 0 .. n - 1 : ~ Ends(sizes, Tried(side, m))
           S == {n \in 0 .. most : Ends(sizes, Tried(side, n))}
           last == CHOOSE n \in 0 .. most : Least(n)
<1>1. LargestAtlas \in Nat \ {0} /\ most \in Nat
  BY AtlasAssumption
<1>2. most \in S
  <2>1. (most + 1) \div 2 = LargestAtlas
    BY <1>1
  <2>2. /\ PowerOfTwo(LargestAtlas) \in Nat
        /\ PowerOfTwo(LargestAtlas) > LargestAtlas
    BY <1>1, Powers
  <2>3. \A b \in Nat : side * b >= b
    OBVIOUS
  <2>4. Tried(side, most)[1] = side * PowerOfTwo(LargestAtlas)
    BY <2>1 DEF Tried
  <2>5. side * PowerOfTwo(LargestAtlas) > LargestAtlas
    <3> DEFINE b == PowerOfTwo(LargestAtlas)
    <3>1. b \in Nat /\ b > LargestAtlas /\ LargestAtlas \in Nat
      BY <1>1, <2>2
    <3> HIDE DEF b
    <3>2. side * b \in Nat /\ side * b >= b
      BY <2>3, <3>1
    <3>3. side * b > LargestAtlas
      BY <3>1, <3>2
    <3> QED  BY <3>3 DEF b
  <2>6. TooLarge(Tried(side, most))
    BY <2>4, <2>5 DEF TooLarge, Axis
  <2> QED  BY <1>1, <2>6 DEF Ends
<1>3. PICK n \in S : \A m \in S : n <= m
  <2>1. S \in SUBSET Nat /\ S # {}
    BY <1>2
  <2> HIDE DEF S
  <2> QED  BY <2>1, LeastNumber
<1>4. n \in 0 .. most /\ Least(n)
  <2>1. ASSUME NEW m \in 0 .. n - 1 PROVE ~ Ends(sizes, Tried(side, m))
    <3>1. m \in 0 .. most /\ ~ (n <= m)
      BY <1>1
    <3>2. m \notin S
      BY <1>3, <3>1
    <3> QED  BY <3>1, <3>2
  <2> QED  BY <2>1
<1> HIDE DEF Least, most
<1>5. last \in 0 .. most /\ Least(last)
  BY <1>4
<1>6. LastTried[<<sizes, side>>] = Tried(side, last)
  <2>1. <<sizes, side>> \in Seq(Extents) \X Nat
    OBVIOUS
  <2> QED  BY <2>1 DEF LastTried, Least, most
<1>7. last \in Nat
  BY <1>1, <1>5
<1> HIDE DEF last
<1> QED  BY <1>5, <1>6, <1>7, TriedOf DEF Least

(* The packer keeps its promise, or has not packed the frames.             *)
LEMMA PackedApart ==
  ASSUME NEW frames, frames \in Seq(Range(frames)),
         \A i \in DOMAIN frames : frames[i].size \in Extents
  PROVE  /\ Arranged(frames).extent \in Extents
         /\ Arranged(frames).places \in Seq(Nat \X Nat)
         /\ Len(Arranged(frames).places) = Len(frames)
         /\ IF Packs([i \in DOMAIN frames |-> Padded(frames[i])])
            THEN Arrangement(Arranged(frames), frames)
            ELSE \A i \in DOMAIN frames : Arranged(frames).places[i] = <<0, 0>>
<1> DEFINE sizes == [i \in DOMAIN frames |-> Padded(frames[i])]
           side == Square(sizes)
           extent == LastTried[<<sizes, side>>]
           places == Shelved(sizes, extent)
           layout == Arranged(frames)
<1>1. DOMAIN frames = 1 .. Len(frames) /\ Len(frames) \in Nat
  OBVIOUS
<1>2. ASSUME NEW i \in DOMAIN frames
      PROVE  Padded(frames[i]) \in Extents
  <2> DEFINE f == Padded(frames[i])
  <2>1. /\ frames[i].size[1] \in Nat \ {0} /\ frames[i].size[2] \in Nat \ {0}
        /\ Padding \in Nat
    BY AtlasAssumption DEF Extents
  <2>2. f = [d \in Axis |-> f[d]] /\ f[1] = frames[i].size[1] + 2 * Padding
        /\ f[2] = frames[i].size[2] + 2 * Padding
    BY DEF Padded, Axis
  <2> HIDE DEF f
  <2>3. f[1] \in Nat \ {0} /\ f[2] \in Nat \ {0}
    BY <2>1, <2>2
  <2>4. f \in (Nat \ {0}) \X (Nat \ {0})
    BY <2>2, <2>3, Pair
  <2> QED  BY <2>4 DEF f, Extents
<1>3. /\ sizes \in Seq(Extents)
      /\ Len(sizes) = Len(frames) /\ DOMAIN sizes = DOMAIN frames
  BY <1>1, <1>2
<1>4. /\ extent \in Extents /\ Ends(sizes, extent)
      /\ AllApart(sizes, places) /\ Len(places) = Len(frames)
  <2>1. side \in Nat \ {0}
    BY <1>3, SideIsPositive
  <2> HIDE DEF sizes, side
  <2>2. extent \in Extents /\ Ends(sizes, extent)
    BY <1>3, <2>1, SomethingIsTried
  <2>3. extent \in Nat \X Nat
    BY <2>2 DEF Extents
  <2> HIDE DEF extent
  <2> QED  BY <1>3, <2>2, <2>3, ShelvedApart
<1>5. layout = Packed(sizes)
  BY DEF Arranged
<1>6. CASE Packs(sizes)
  <2>1. layout = [extent |-> extent, places |-> places]
    BY <1>5, <1>6 DEF Packed
  <2>2. Fits(sizes, places, extent)
    BY <1>4, <1>6 DEF Packs, Ends
  <2>3. layout.extent = extent /\ layout.places = places
    BY <2>1
  <2>4. \A i \in DOMAIN frames : sizes[i] = Padded(frames[i])
    OBVIOUS
  <2> HIDE DEF layout, extent, places
  <2>5. \A i \in DOMAIN frames : places[i] \in Nat \X Nat
    BY <1>1, <1>4 DEF AllApart
  <2>6. \A i, j \in DOMAIN frames : i # j =>
          \E d \in Axis :
            \/ places[i][d] + Padded(frames[i])[d] <= places[j][d]
            \/ places[j][d] + Padded(frames[j])[d] <= places[i][d]
    <3>1. DOMAIN places = DOMAIN frames
      BY <1>1, <1>4 DEF AllApart
    <3> QED  BY <1>4, <2>4, <3>1 DEF AllApart, Apart
  <2>7. Arrangement(layout, frames)
    BY <1>4, <2>2, <2>3, <2>5, <2>6 DEF Arrangement
  <2>8. /\ layout.extent \in Extents /\ layout.places \in Seq(Nat \X Nat)
        /\ Len(layout.places) = Len(frames)
    BY <1>4, <2>3 DEF AllApart
  <2> HIDE DEF sizes
  <2> QED  BY <1>6, <2>7, <2>8 DEF layout, sizes
<1>7. CASE ~ Packs(sizes)
  <2>1. layout = Unpacked(sizes)
    BY <1>5, <1>7 DEF Packed
  <2>2. /\ layout.extent = <<MinimumExtent, MinimumExtent>>
        /\ layout.places = [i \in DOMAIN sizes |-> <<0, 0>>]
    BY <2>1 DEF Unpacked
  <2>3. layout.extent \in Extents
    BY <2>2, AtlasAssumption DEF Extents
  <2>4. /\ layout.places \in Seq(Nat \X Nat)
        /\ Len(layout.places) = Len(frames)
        /\ \A i \in DOMAIN frames : layout.places[i] = <<0, 0>>
    BY <1>1, <1>3, <2>2
  <2> QED  BY <1>7, <2>3, <2>4
<1> QED  BY <1>6, <1>7

-----------------------------------------------------------------------------
(* Frames                                                                  *)
Pictures ==
  [file : DOMAIN Extent, dim : Extents, size : Extents, pos : Nat \X Nat]

Files == UNION {Range(Frames[texture]) : texture \in DOMAIN Frames}

(* A frame is not reduced to nothing. *)
LEMMA ReducedExtent ==
  ASSUME NEW dim \in Extents
  PROVE  Reduced(dim) \in Extents
<1> DEFINE longest == Larger(dim[1], dim[2])
           Rounded(n) == (2 * n * FrameExtent + longest) \div (2 * longest)
           f == [d \in Axis |-> Larger(1, Rounded(dim[d]))]
<1>1. dim[1] \in Nat \ {0} /\ dim[2] \in Nat \ {0} /\ FrameExtent \in Nat
  BY AtlasAssumption DEF Extents
<1>2. longest \in Nat \ {0}
  BY <1>1 DEF Larger
<1>3. ASSUME NEW n \in Nat PROVE Larger(1, Rounded(n)) \in Nat \ {0}
  <2> HIDE DEF longest
  <2>1. \A a, b \in Nat : a * b \in Nat
    OBVIOUS
  <2>2. 2 * n * FrameExtent \in Nat
    <3>1. 2 * n \in Nat
      OBVIOUS
    <3> QED  BY <1>1, <2>1, <3>1
  <2>3. 2 * n * FrameExtent + longest \in Nat /\ 2 * longest \in Nat \ {0}
    BY <1>2, <2>2
  <2>4. Rounded(n) \in Nat
    BY <2>3, DivMonotone
  <2> HIDE DEF Rounded
  <2> QED  BY <2>4 DEF Larger
<1>4. f = [d \in Axis |-> f[d]] /\ f[1] \in Nat \ {0} /\ f[2] \in Nat \ {0}
  <2>1. f[1] = Larger(1, Rounded(dim[1])) /\ f[2] = Larger(1, Rounded(dim[2]))
    BY DEF Axis
  <2> HIDE DEF Rounded
  <2>2. f = [d \in Axis |-> f[d]]
    OBVIOUS
  <2> HIDE DEF f
  <2> QED  BY <1>1, <1>3, <2>1, <2>2
<1>5. Reduced(dim) = IF longest <= FrameExtent THEN dim ELSE f
  BY DEF Reduced
<1> HIDE DEF f, longest
<1>6. f \in Extents
  BY <1>4, Pair DEF Extents
<1> QED  BY <1>5, <1>6

LEMMA FrameIsPicture ==
  ASSUME NEW source, source.pos \in Nat \X Nat, source.dim \in Nat \X Nat,
         Valid(source)
  PROVE  FrameOf(source) \in Pictures
<1> DEFINE dim == IF IsWhole(source) THEN Extent[source.file] ELSE source.dim
<1>1. source.file \in DOMAIN Extent /\ Extent[source.file] \in Extents
  BY AtlasAssumption DEF Valid
<1>2. dim \in Extents
  <2>1. ~ IsWhole(source) => source.dim \in Extents
    BY DEF IsWhole, Extents
  <2> QED  BY <1>1, <2>1
<1>3. Reduced(dim) \in Extents
  <2> HIDE DEF dim
  <2> QED  BY <1>2, ReducedExtent
<1>4. FrameOf(source)
        = [file |-> source.file, dim |-> dim, size |-> Reduced(dim),
           pos |-> IF IsWhole(source) THEN <<0, 0>> ELSE source.pos]
  BY DEF FrameOf
<1> HIDE DEF dim
<1> QED  BY <1>1, <1>2, <1>3, <1>4 DEF Pictures

LEMMA InspectedPictures ==
  ASSUME NEW sources \in Seq(Files)
  PROVE  Inspected(sources) \in Seq(Pictures)
<1> DEFINE places == {i \in DOMAIN sources : Valid(sources[i])}
           valid == Selected(sources, places)
<1>1. PICK p \in Seq(DOMAIN sources) :
        TakenAt(sources, valid, p) /\ Range(p) = places \cap DOMAIN sources
  BY SelectedPlaces
<1>2. valid \in Seq(Range(sources))
  BY SelectedPlaces
<1> HIDE DEF valid
<1>3. ASSUME NEW i \in 1 .. Len(valid)
      PROVE  FrameOf(valid[i]) \in Pictures
  <2>1. i \in DOMAIN p /\ valid[i] = sources[p[i]]
    BY <1>1 DEF TakenAt
  <2>2. p[i] \in places
    BY <1>1, <2>1 DEF Range
  <2>3. Valid(valid[i]) /\ valid[i] \in Files
    BY <2>1, <2>2
  <2>4. valid[i].pos \in Nat \X Nat /\ valid[i].dim \in Nat \X Nat
    BY <2>3, AtlasAssumption DEF Files
  <2> QED  BY <2>3, <2>4, FrameIsPicture
<1>4. Inspected(sources) = [i \in 1 .. Len(valid) |-> FrameOf(valid[i])]
  BY <1>2 DEF Inspected, valid
<1>5. Len(valid) \in Nat
  BY <1>2
<1> QED  BY <1>3, <1>4, <1>5

LEMMA SourcesAreFiles ==
  ASSUME worker.mods \in Seq(Mods)
  PROVE  Sources \in Seq(Files)
<1> DEFINE n == Len(worker.mods)
           join == [x \in Seq(Files) \X DOMAIN worker.mods |->
                      x[1] \o Frames[worker.mods[x[2]].name]]
           I == [k \in 0 .. n |-> Seq(Files)]
<1>1. n \in Nat /\ DOMAIN worker.mods = 1 .. n
  OBVIOUS
<1>2. ASSUME NEW k \in 1 .. n, NEW x \in I[k - 1]
      PROVE  join[<<x, k>>] \in I[k]
  <2>1. k - 1 \in 0 .. n /\ k \in 0 .. n /\ k \in DOMAIN worker.mods
    BY <1>1
  <2>2. x \in Seq(Files) /\ I[k] = Seq(Files)
    BY <2>1
  <2>3. join[<<x, k>>] = x \o Frames[worker.mods[k].name]
    BY <2>1, <2>2
  <2>4. worker.mods[k].name \in DOMAIN Frames
    <3>1. worker.mods[k] \in Mods
      BY <2>1
    <3>2. worker.mods[k].name \in Name
      BY <3>1 DEF Mods
    <3> QED  BY <3>2, ModAssumption
  <2>5. Frames[worker.mods[k].name] \in Seq(Files)
    <3> DEFINE t == worker.mods[k].name
    <3>1. Frames[t] \in Seq(Range(Frames[t]))
      BY <2>4, AtlasAssumption
    <3>2. Range(Frames[t]) \subseteq Files
      BY <2>4 DEF Files
    <3> HIDE DEF t
    <3>3. Frames[t] \in Seq(Files)
      BY <3>1, <3>2
    <3> QED  BY <3>3 DEF t
  <2> HIDE DEF join, I
  <2> QED  BY <2>2, <2>3, <2>5
<1>3. <<>> \in I[0] /\ n \in 0 .. n /\ I[n] = Seq(Files)
  <2>1. <<>> \in Seq(Files) /\ 0 \in 0 .. n /\ n \in 0 .. n
    BY <1>1
  <2> QED  BY <2>1
<1>4. Sources = Iterated(join, <<>>, n)
  BY DEF Sources, Files
<1> HIDE DEF join, I, n
<1>5. Iterated(join, <<>>, n) \in I[n]
  BY <1>1, <1>2, <1>3, IteratedSteps
<1> QED  BY <1>3, <1>4, <1>5

(* What is shown on one axis lies within the padded frame, which begins at *)
(* p, has size w and padding P, and texels of s points.                    *)
LEMMA ShownWithin ==
  ASSUME NEW s \in Nat \ {0}, NEW P \in Nat, s <= P + 1,
         NEW p \in Nat, NEW w \in Nat \ {0}, NEW t \in Nat,
         (p + P) \div s <= t, t <= CeilDiv(p + P + w, s) - 1
  PROVE  /\ t * s \in Nat /\ (t + 1) * s = t * s + s
         /\ p <= t * s /\ t * s + s <= p + w + 2 * P
<1> DEFINE a == p + P
           b == p + P + w + s - 1
           ts == t * s
<1>1. ts \in Nat /\ (t + 1) * s = ts + s
  OBVIOUS
<1>2. \A m, q \in Nat : m \div s <= q => m < (q + 1) * s
  OBVIOUS
<1>3. \A m, q \in Nat : q <= m \div s => q * s <= m
  OBVIOUS
<1>4. a < ts + s
  BY <1>1, <1>2
<1>5. ts + s <= b
  <2>1. b \in Nat /\ t + 1 \in Nat
    OBVIOUS
  <2>2. b \div s \in Nat /\ t <= b \div s - 1
    BY <2>1, DivMonotone DEF CeilDiv
  <2>3. t + 1 <= b \div s
    BY <2>2
  <2> HIDE DEF b
  <2> QED  BY <1>1, <1>3, <2>1, <2>3
<1> HIDE DEF ts
<1> QED  BY <1>1, <1>4, <1>5 DEF ts

(* What a point of a padded frame shows on one axis is in the image.       *)
LEMMA PixelWithin ==
  ASSUME NEW n \in Nat, NEW w \in Nat \ {0}, NEW z \in Nat \ {0},
         NEW P \in Nat, NEW q \in Nat
  PROVE  LET inner == Smaller(Larger(n, P), P + w - 1) - P
         IN  q + (inner * z) \div w \in q .. q + z - 1
<1> DEFINE inner == Smaller(Larger(n, P), P + w - 1) - P
<1>1. inner \in 0 .. w - 1
  BY DEF Smaller, Larger
<1> HIDE DEF inner
<1>2. inner * z \in Nat /\ inner * z < w * z
  <2>1. \A i \in Nat : i * z \in Nat
    OBVIOUS
  <2>2. \A i \in 0 .. w - 1 : i * z <= (w - 1) * z
    OBVIOUS
  <2>3. (w - 1) * z = w * z - z
    OBVIOUS
  <2>4. inner * z <= (w - 1) * z /\ inner * z \in Nat /\ w * z \in Nat
    BY <1>1, <2>1, <2>2
  <2> QED  BY <2>3, <2>4
<1>3. \A m \in Nat : m < w * z => m \div w \in Nat /\ m \div w < z
  OBVIOUS
<1>4. (inner * z) \div w \in 0 .. z - 1
  BY <1>2, <1>3
<1> DEFINE v == (inner * z) \div w
<1> HIDE DEF v
<1>5. q + v \in q .. q + z - 1
  BY <1>4 DEF v
<1> QED  BY <1>5 DEF v, inner

(* A texel is the average of as many points of its frame as it covers, and *)
(* they repeat the part of the image that the frame shows.                 *)
LEMMA AveragedPoints ==
  ASSUME NEW layout, NEW frames, Arrangement(layout, frames),
         NEW i \in DOMAIN frames, frames[i] \in Pictures,
         NEW level \in 0 .. Levels(layout.extent) - 1,
         NEW texel \in Shown(layout, frames, i, level)
  PROVE  LET points == Averaged(layout, frames, i, level, texel)
             frame == frames[i]
             Side(d) == frame.pos[d] .. frame.pos[d] + frame.dim[d] - 1
         IN  /\ Cardinality(points) = PowerOfTwo(level) * PowerOfTwo(level)
             /\ \A p \in points : ImagePixel(frame, p) \in Side(1) \X Side(2)
<1> DEFINE s == PowerOfTwo(level)
           frame == frames[i]
           place == layout.places[i]
           points == Averaged(layout, frames, i, level, texel)
           Local(d, n) == Smaller(Larger(n, place[d]),
                                  place[d] + Padded(frame)[d] - 1) - place[d]
           Side(d) == texel[d] * s .. (texel[d] + 1) * s - 1
           First0(d) == texel[d] * s - place[d]
           Within(d) == First0(d) .. First0(d) + s - 1
<1>1. s \in Nat \ {0} /\ Padding \in Nat /\ s <= Padding + 1
  BY ShownTexel
<1>2. ASSUME NEW d \in Axis
      PROVE  /\ First0(d) \in Nat
             /\ \A n \in Side(d) : Local(d, n) \in Within(d)
             /\ \A m \in Within(d) : \E n \in Side(d) : Local(d, n) = m
  <2> DEFINE t == texel[d]
             q == place[d]
             w == frame.size[d]
  <2>1. /\ q \in Nat /\ w \in Nat \ {0} /\ t \in Nat
        /\ (q + Padding) \div s <= t /\ t <= CeilDiv(q + Padding + w, s) - 1
        /\ Padded(frame)[d] = w + 2 * Padding
    BY ShownTexel
  <2> HIDE DEF t, q, w, s
  <2>2. /\ t * s \in Nat /\ (t + 1) * s = t * s + s
        /\ q <= t * s /\ t * s + s <= q + w + 2 * Padding
    BY <1>1, <2>1, ShownWithin
  <2> DEFINE ts == t * s
  <2>3. Side(d) = ts .. ts + s - 1 /\ First0(d) = ts - q
    <3> DEFINE b == (t + 1) * s
    <3>1. Side(d) = ts .. b - 1 /\ First0(d) = ts - q
      BY DEF t, q
    <3>2. b = ts + s /\ ts \in Nat
      BY <2>2
    <3> HIDE DEF Side, First0, ts, b
    <3>3. b - 1 = ts + s - 1
      BY <1>1, <3>2
    <3> QED  BY <3>1, <3>3
  <2>4. \A n : Local(d, n) = Smaller(Larger(n, q), q + (w + 2 * Padding) - 1) - q
    BY <2>1 DEF q
  <2> HIDE DEF ts, Side, First0, Local
  <2>5. ts \in Nat /\ q <= ts /\ ts + s <= q + w + 2 * Padding
    BY <2>2 DEF ts
  <2>6. \A n \in ts .. ts + s - 1 : Local(d, n) = n - q
    <3> SUFFICES ASSUME NEW n \in ts .. ts + s - 1 PROVE Local(d, n) = n - q
      OBVIOUS
    <3>1. /\ n \in Nat /\ q <= n /\ n <= q + (w + 2 * Padding) - 1
          /\ q \in Nat /\ q + (w + 2 * Padding) - 1 \in Nat
      BY <1>1, <2>1, <2>5
    <3>2. Larger(n, q) = n /\ Smaller(n, q + (w + 2 * Padding) - 1) = n
      BY <3>1 DEF Larger, Smaller
    <3> QED  BY <2>4, <3>2
  <2>7. ts - q \in Nat
    BY <2>1, <2>5
  <2>8. \A n \in ts .. ts + s - 1 : n - q \in ts - q .. ts - q + s - 1
    BY <1>1, <2>1, <2>5
  <2>9. ASSUME NEW m \in ts - q .. ts - q + s - 1
        PROVE  m + q \in ts .. ts + s - 1 /\ (m + q) - q = m
    BY <1>1, <2>1, <2>5
  <2> QED  BY <2>3, <2>6, <2>7, <2>8, <2>9
<1>3. points = {[d \in Axis |-> Local(d, p[d])] : p \in Side(1) \X Side(2)}
  BY DEF Averaged
<1>4. points = Within(1) \X Within(2)
  <2>1. 1 \in Axis /\ 2 \in Axis
    BY DEF Axis
  <2> HIDE DEF points, Local, Side, Within, First0, s
  <2>2. ASSUME NEW x \in points PROVE x \in Within(1) \X Within(2)
    <3>1. PICK p \in Side(1) \X Side(2) : x = [d \in Axis |-> Local(d, p[d])]
      BY <1>3
    <3>2. p[1] \in Side(1) /\ p[2] \in Side(2)
      OBVIOUS
    <3>3. x = <<Local(1, p[1]), Local(2, p[2])>>
      BY <3>1 DEF Axis
    <3>4. Local(1, p[1]) \in Within(1) /\ Local(2, p[2]) \in Within(2)
      BY <1>2, <2>1, <3>2
    <3> QED  BY <3>3, <3>4
  <2>3. ASSUME NEW x \in Within(1) \X Within(2) PROVE x \in points
    <3>1. x[1] \in Within(1) /\ x[2] \in Within(2) /\ x = <<x[1], x[2]>>
      OBVIOUS
    <3>2. PICK a \in Side(1) : Local(1, a) = x[1]
      BY <1>2, <2>1, <3>1
    <3>3. PICK b \in Side(2) : Local(2, b) = x[2]
      BY <1>2, <2>1, <3>1
    <3> DEFINE p == <<a, b>>
    <3>4. p \in Side(1) \X Side(2) /\ p[1] = a /\ p[2] = b
      OBVIOUS
    <3> HIDE DEF p
    <3>5. [d \in Axis |-> Local(d, p[d])] = x
      BY <3>1, <3>2, <3>3, <3>4 DEF Axis
    <3> QED  BY <1>3, <3>4, <3>5
  <2> QED  BY <2>2, <2>3
<1>5. Cardinality(points) = s * s
  <2>1. ASSUME NEW d \in Axis
        PROVE  IsFiniteSet(Within(d)) /\ Cardinality(Within(d)) = s
    <3> DEFINE f == First0(d)
    <3>1. f \in Nat
      BY <1>2
    <3> HIDE DEF f, s
    <3> DEFINE e == f + s - 1
    <3>2. f \in Int /\ e \in Int /\ ~ (f > e) /\ e - f + 1 = s
      BY <1>1, <3>1
    <3> HIDE DEF e
    <3>3. IsFiniteSet(f .. e) /\ Cardinality(f .. e) = s
      BY <3>2, FS_Interval
    <3> QED  BY <3>3 DEF f, e
  <2>2. 1 \in Axis /\ 2 \in Axis
    BY DEF Axis
  <2> HIDE DEF Within, s, points
  <2> QED  BY <1>4, <2>1, <2>2, FS_Product
<1>6. ASSUME NEW p \in points
      PROVE  ImagePixel(frame, p)
               \in (frame.pos[1] .. frame.pos[1] + frame.dim[1] - 1)
                     \X (frame.pos[2] .. frame.pos[2] + frame.dim[2] - 1)
  <2>1. \A d \in Axis : /\ frame.size[d] \in Nat \ {0}
                        /\ frame.dim[d] \in Nat \ {0} /\ frame.pos[d] \in Nat
    BY DEF Pictures, Extents, Axis
  <2>2. \A d \in Axis : p[d] \in Nat
    <3> HIDE DEF points, First0, s
    <3>1. p[1] \in Within(1) /\ p[2] \in Within(2)
      BY <1>4
    <3>2. \A d \in Axis : Within(d) \subseteq Nat
      BY <1>1, <1>2
    <3> HIDE DEF Within
    <3> QED  BY <3>1, <3>2 DEF Axis
  <2> DEFINE v == ImagePixel(frame, p)
  <2>3. ASSUME NEW d \in Axis
        PROVE  v[d] \in frame.pos[d] .. frame.pos[d] + frame.dim[d] - 1
    <3> DEFINE n == p[d]
               w == frame.size[d]
               z == frame.dim[d]
               q == frame.pos[d]
    <3>1. n \in Nat /\ w \in Nat \ {0} /\ z \in Nat \ {0} /\ q \in Nat
      BY <2>1, <2>2
    <3>2. v[d] = q + ((Smaller(Larger(n, Padding), Padding + w - 1) - Padding)
                        * z) \div w
      BY DEF ImagePixel
    <3> HIDE DEF n, w, z, q, v
    <3>3. v[d] \in q .. q + z - 1
      BY <1>1, <3>1, <3>2, PixelWithin
    <3> QED  BY <3>3 DEF q, z
  <2>4. v = <<v[1], v[2]>>
    <3>1. v = [d \in Axis |-> v[d]]
      BY DEF ImagePixel
    <3> HIDE DEF v
    <3> QED  BY <3>1 DEF Axis
  <2>5. 1 \in Axis /\ 2 \in Axis
    BY DEF Axis
  <2> HIDE DEF v
  <2> QED  BY <2>3, <2>4, <2>5 DEF v
<1> QED  BY <1>5, <1>6

(* Frames that have been inspected, as the packer has placed them.         *)
LEMMA PackedFramesKeptApart ==
  ASSUME build.frames \in Seq(Pictures),
         build.layout = Arranged(build.frames)
  PROVE  FramesKeptApart
<1> DEFINE frames == build.frames
           layout == build.layout
           Side(frame, d) == frame.pos[d] .. frame.pos[d] + frame.dim[d] - 1
           Content(frame) == Side(frame, 1) \X Side(frame, 2)
<1> SUFFICES ASSUME Packs([i \in DOMAIN frames |-> Padded(frames[i])])
             PROVE  /\ Arrangement(layout, frames)
                    /\ \A i \in DOMAIN frames,
                          level \in 0 .. Levels(layout.extent) - 1 :
                         \A texel \in Shown(layout, frames, i, level) :
                           LET points == Averaged(layout, frames, i, level, texel)
                           IN  /\ Writers(layout, frames, level, texel) = {i}
                               /\ Cardinality(points)
                                    = PowerOfTwo(level) * PowerOfTwo(level)
                               /\ \A p \in points :
                                    ImagePixel(frames[i], p) \in Content(frames[i])
  BY Zenon DEF FramesKeptApart
<1> HIDE DEF frames, layout
<1>1. frames \in Seq(Pictures) /\ layout = Arranged(frames)
  BY DEF frames, layout
<1>2. \A i \in DOMAIN frames : frames[i] \in Pictures
  BY <1>1
<1>3. Arrangement(layout, frames)
  <2>1. frames \in Seq(Range(frames))
    BY <1>1 DEF Range
  <2>2. \A i \in DOMAIN frames : frames[i].size \in Extents
    BY <1>2 DEF Pictures
  <2> QED  BY <1>1, <2>1, <2>2, PackedApart
<1>4. ASSUME NEW i \in DOMAIN frames,
             NEW level \in 0 .. Levels(layout.extent) - 1,
             NEW texel \in Shown(layout, frames, i, level)
      PROVE  LET points == Averaged(layout, frames, i, level, texel)
             IN  /\ Writers(layout, frames, level, texel) = {i}
                 /\ Cardinality(points)
                      = PowerOfTwo(level) * PowerOfTwo(level)
                 /\ \A p \in points :
                      ImagePixel(frames[i], p) \in Content(frames[i])
  <2>1. Writers(layout, frames, level, texel) = {i}
    BY <1>3, ShownIsWrittenOnce
  <2>2. frames[i] \in Pictures
    BY <1>2
  <2> QED  BY <1>3, <2>1, <2>2, AveragedPoints
<1> QED  BY <1>3, <1>4

AtlasFrames ==
  build # NoBuild => /\ build.frames \in Seq(Pictures)
                     /\ build.layout = Arranged(build.frames)

LEMMA FramesStayPlaced ==
  MInv /\ ListInv /\ AtlasFrames /\ [Next]_vars => AtlasFrames'
<1> SUFFICES ASSUME MInv, ListInv, AtlasFrames, [Next]_vars PROVE AtlasFrames'
  OBVIOUS
<1>1. build # NoBuild => BuildFields
  BY DEF MInv, BuilderAhead
<1>2. CASE build' \in {build, NoBuild}
  BY <1>2 DEF AtlasFrames
<1>3. CASE BeginsAtlas
  <2>1. CASE UNCHANGED build
    BY <1>2, <2>1
  <2>2. CASE build' = Built(Inspected(Sources), Arranged(Inspected(Sources)))
    <3>1. Sources \in Seq(Files)
      BY SourcesAreFiles DEF ListInv, IsList
    <3>2. Inspected(Sources) \in Seq(Pictures)
      BY <3>1, InspectedPictures
    <3>3. /\ build'.frames = Inspected(Sources)
          /\ build'.layout = Arranged(Inspected(Sources))
      BY <2>2 DEF Built
    <3> QED  BY <3>2, <3>3 DEF AtlasFrames
  <2> QED  BY <1>3, <2>1, <2>2 DEF BeginsAtlas
<1>4. CASE PoolTakes \/ PoolEnds \/ Uploads \/ EndsAtlas \/ AtlasThrows
  <2>1. /\ build # NoBuild /\ build'.frames = build.frames
        /\ build'.layout = build.layout
    BY <1>1, <1>4
       DEF PoolTakes, PoolEnds, Uploads, EndsAtlas, AtlasThrows, Taken, Ended,
           Uploaded, Finalized, BuildFields
  <2> QED  BY <2>1 DEF AtlasFrames
<1>5. CASE \/ Begins \/ AtlasAbandoned \/ Discovers \/ Enables \/ Mounts \/ Sorts
           \/ Settings \/ Locale \/ Scripts \/ Prototypes \/ Releases
           \/ RollsBack \/ Installs \/ Settles \/ Completes \/ Delivers
           \/ CallLoad \/ CallUnload \/ Load \/ Unload \/ Cancel \/ Result
           \/ SetModEnabled \/ UNCHANGED vars
  <2>1. build' \in {build, NoBuild}
    BY <1>5
       DEF Begins, AtlasAbandoned, Discovers, Enables, Mounts, Sorts, Settings,
           Locale, Scripts, Prototypes, Releases, RollsBack, Installs, Settles,
           Completes, Delivers, CallLoad, CallUnload, Load, Unload, Cancel,
           Result, SetModEnabled, vars, program, Fails, StopsIfCancelled
  <2> QED  BY <1>2, <2>1
<1> QED  BY <1>3, <1>4, <1>5 DEF Next, WorkerStep, PoolStep

(* Whatever textures the mods bring, of any size, with any padding and any *)
(* number of levels: if the packer has room for the frames, they are kept  *)
(* apart on every level of the atlas, and what is shown of each is made of *)
(* the part of its image and of nothing else.                              *)
THEOREM FramesAreKeptApart == Spec => []FramesKeptApart
<1>1. Init => AtlasFrames
  BY DEF Init, AtlasFrames
<1>2. AtlasFrames => FramesKeptApart
  BY PackedFramesKeptApart DEF AtlasFrames, FramesKeptApart
<1> QED  BY <1>1, <1>2, Invariance, ListInvariance, FramesStayPlaced, PTL
         DEF Spec

(* The groups are a partition of the frames, by the files they are in.     *)
Grouped(frames, groups) ==
  /\ groups \in Seq(Seq(DOMAIN frames))
  /\ \A g \in DOMAIN groups :
       /\ Len(groups[g]) # 0 /\ IsInjective(groups[g])
       /\ \A i \in Range(groups[g]) :
            frames[i].file = frames[groups[g][1]].file
  /\ \A g, h \in DOMAIN groups :
       Range(groups[g]) \cap Range(groups[h]) # {} => g = h
  /\ DOMAIN frames = UNION {Range(groups[g]) : g \in DOMAIN groups}

LEMMA GroupsPartition ==
  ASSUME NEW frames \in Seq(Pictures)
  PROVE  Grouped(frames, UploadGroups(frames))
<1> DEFINE F == {file \in DOMAIN Extent :
                   \E i \in DOMAIN frames : frames[i].file = file}
           files == SetToSeq(F)
           Of(file) == {i \in DOMAIN frames : frames[i].file = file}
           groups == UploadGroups(frames)
           n == Len(files)
<1>1. /\ files \in Seq(F) /\ n \in Nat /\ DOMAIN files = 1 .. n
      /\ IsInjective(files) /\ Range(files) = F
  <2>1. IsFiniteSet(DOMAIN Extent)
    BY AtlasAssumption
  <2>2. IsFiniteSet(F)
    BY <2>1, FS_Subset
  <2>3. files \in Seq(F) /\ IsInjective(files) /\ Range(files) = F
    <3> HIDE DEF F
    <3> QED  BY <2>2, SetAsSequence
  <2> HIDE DEF files, F
  <2> QED  BY <2>3
<1>2. groups = [g \in 1 .. n |-> SetToSeq(Of(files[g]))]
  BY <1>1 DEF UploadGroups
<1>3. ASSUME NEW file
      PROVE  /\ SetToSeq(Of(file)) \in Seq(Of(file))
             /\ IsInjective(SetToSeq(Of(file)))
             /\ Range(SetToSeq(Of(file))) = Of(file)
  <2>1. IsFiniteSet(DOMAIN frames)
    <3>1. DOMAIN frames = 1 .. Len(frames) /\ Len(frames) \in Nat
      OBVIOUS
    <3> QED  BY <3>1, FS_Interval
  <2>2. IsFiniteSet(Of(file))
    BY <2>1, FS_Subset
  <2> HIDE DEF Of
  <2> QED  BY <2>2, SetAsSequence
<1> HIDE DEF groups, files, F
<1>4. DOMAIN groups = 1 .. n
  BY <1>2
<1>5. ASSUME NEW g \in 1 .. n
      PROVE  /\ groups[g] \in Seq(DOMAIN frames) /\ IsInjective(groups[g])
             /\ Range(groups[g]) = Of(files[g])
             /\ Len(groups[g]) # 0
             /\ frames[groups[g][1]].file = files[g]
  <2>1. groups[g] = SetToSeq(Of(files[g]))
    BY <1>2
  <2>2. /\ groups[g] \in Seq(Of(files[g])) /\ IsInjective(groups[g])
        /\ Range(groups[g]) = Of(files[g])
    BY <1>3, <2>1
  <2>3. files[g] \in F
    BY <1>1
  <2>4. Of(files[g]) # {}
    BY <2>3 DEF F
  <2>5. groups[g] # <<>>
    <3>1. Range(<<>>) = {}
      BY DEF Range
    <3> HIDE DEF Of
    <3> QED  BY <2>2, <2>4, <3>1
  <2>6. Of(files[g]) \subseteq DOMAIN frames
    OBVIOUS
  <2>7. groups[g][1] \in Of(files[g]) /\ Len(groups[g]) # 0
    <3> HIDE DEF Of
    <3> QED  BY <2>2, <2>5
  <2>8. groups[g] \in Seq(DOMAIN frames)
    <3> HIDE DEF Of
    <3> QED  BY <2>2, <2>6
  <2> QED  BY <2>2, <2>7, <2>8
<1>6. groups \in Seq(Seq(DOMAIN frames))
  BY <1>1, <1>2, <1>4, <1>5
<1>7. ASSUME NEW g \in 1 .. n, NEW h \in 1 .. n,
             Range(groups[g]) \cap Range(groups[h]) # {}
      PROVE  g = h
  <2>1. files[g] = files[h]
    BY <1>5, <1>7
  <2> QED  BY <1>1, <2>1 DEF IsInjective
<1>8. DOMAIN frames = UNION {Range(groups[g]) : g \in 1 .. n}
  <2>1. ASSUME NEW i \in DOMAIN frames
        PROVE  \E g \in 1 .. n : i \in Range(groups[g])
    <3>1. frames[i] \in Pictures
      OBVIOUS
    <3>2. frames[i].file \in F
      BY <3>1 DEF F, Pictures
    <3>3. PICK g \in 1 .. n : files[g] = frames[i].file
      BY <1>1, <3>2 DEF Range
    <3> QED  BY <1>5, <3>3
  <2>2. \A g \in 1 .. n : Range(groups[g]) \subseteq DOMAIN frames
    BY <1>5
  <2> QED  BY <2>1, <2>2
<1>9. \A g \in 1 .. n : \A i \in Range(groups[g]) :
        frames[i].file = frames[groups[g][1]].file
  BY <1>5
<1>10. Grouped(frames, groups)
  <2> HIDE DEF Of
  <2> QED  BY <1>4, <1>5, <1>6, <1>7, <1>8, <1>9 DEF Grouped
<1> QED  BY <1>10 DEF groups

LEMMA FrameBytesPositive ==
  ASSUME NEW frames \in Seq(Pictures), NEW i \in DOMAIN frames
  PROVE  FrameBytes(Arranged(frames), frames, i) \in Nat \ {0}
<1> DEFINE layout == Arranged(frames)
           frame == frames[i]
           place == layout.places[i]
           Side(level, d) == End(layout, frames, i, level, d)
                               - First(layout, i, level, d)
           add == [x \in Nat \X Nat |->
                     x[1] + 4 * Side(x[2], 1) * Side(x[2], 2)]
           start == 4 * Padded(frame)[1] * Padded(frame)[2]
           k == Levels(layout.extent) - 1
           I == [l \in 0 .. k |-> Nat \ {0}]
<1>1. \A d \in Axis : frame.size[d] \in Nat \ {0}
  <2>1. frame \in Pictures
    OBVIOUS
  <2>2. frame.size \in Extents
    BY <2>1 DEF Pictures
  <2> QED  BY <2>2 DEF Extents, Axis
<1>2. \A d \in Axis : Padded(frame)[d] \in Nat \ {0}
  BY <1>1, AtlasAssumption DEF Padded
<1>3. /\ layout.extent \in Extents
      /\ \A d \in Axis :
           /\ place[d] \in Nat
           /\ place[d] <= layout.extent[d] /\ layout.extent[d] \in Nat \ {0}
  <2>1. /\ layout.extent \in Extents /\ layout.places \in Seq(Nat \X Nat)
        /\ Len(layout.places) = Len(frames)
        /\ \/ Arrangement(layout, frames)
           \/ place = <<0, 0>>
    <3>1. frames \in Seq(Range(frames))
      BY DEF Range
    <3>2. \A j \in DOMAIN frames : frames[j].size \in Extents
      <4>1. \A j \in DOMAIN frames : frames[j] \in Pictures
        OBVIOUS
      <4> QED  BY <4>1 DEF Pictures
    <3> QED  BY <3>1, <3>2, PackedApart
  <2>2. \A d \in Axis : layout.extent[d] \in Nat \ {0}
    BY <2>1 DEF Extents, Axis
  <2>3. \A d \in Axis : place[d] \in Nat
    <3>1. place \in Nat \X Nat
      BY <2>1
    <3> QED  BY <3>1 DEF Axis
  <2>4. CASE place = <<0, 0>>
    <3> HIDE DEF layout, place
    <3>1. \A d \in Axis : place[d] = 0
      BY <2>4 DEF Axis
    <3> QED  BY <2>1, <2>2, <3>1
  <2>5. CASE Arrangement(layout, frames)
    <3>1. \A d \in Axis : place[d] + Padded(frame)[d] <= layout.extent[d]
      BY <2>5 DEF Arrangement, Fits
    <3> HIDE DEF layout, place, frame
    <3> SUFFICES ASSUME NEW d \in Axis PROVE place[d] <= layout.extent[d]
      BY <2>1, <2>2, <2>3
    <3>2. /\ place[d] \in Nat /\ Padded(frame)[d] \in Nat
          /\ layout.extent[d] \in Nat
          /\ place[d] + Padded(frame)[d] <= layout.extent[d]
      BY <1>2, <2>2, <2>3, <3>1
    <3> QED  BY <3>2
  <2> QED  BY <2>1, <2>4, <2>5
<1>4. ASSUME NEW level \in Nat, NEW d \in Axis PROVE Side(level, d) \in Nat
  <2> DEFINE s == PowerOfTwo(level)
             p == place[d]
             w == Padded(frame)[d]
             e == layout.extent[d]
  <2>1. s \in Nat \ {0}
    BY Powers
  <2>2. p \in Nat /\ w \in Nat /\ e \in Nat /\ p <= e
    BY <1>2, <1>3
  <2>3. Side(level, d)
          = Smaller(CeilDiv(p + w, s), Larger(1, e \div s)) - p \div s
    BY DEF End, First
  <2> HIDE DEF Side, s, p, w, e
  <2>4. p \div s <= e \div s /\ p \div s \in Nat /\ e \div s \in Nat
    BY <2>1, <2>2, DivMonotone
  <2>5. p \div s <= (p + w + s - 1) \div s /\ (p + w + s - 1) \div s \in Nat
    <3>1. p + w + s - 1 \in Nat /\ p <= p + w + s - 1
      BY <2>1, <2>2
    <3> QED  BY <2>1, <2>2, <3>1, DivMonotone
  <2>6. CeilDiv(p + w, s) = (p + w + s - 1) \div s
    BY DEF CeilDiv
  <2> QED  BY <2>3, <2>4, <2>5, <2>6 DEF Smaller, Larger
<1>5. start \in Nat \ {0}
  <2>1. \A a, b \in Nat \ {0} : 4 * a * b \in Nat \ {0}
    OBVIOUS
  <2>2. 1 \in Axis /\ 2 \in Axis
    BY DEF Axis
  <2> QED  BY <1>2, <2>1, <2>2
<1>6. k \in Nat
  BY LevelsWithinPadding
<1>7. ASSUME NEW l \in 1 .. k, NEW x \in I[l - 1]
      PROVE  add[<<x, l>>] \in I[l]
  <2>1. l - 1 \in 0 .. k /\ l \in 0 .. k /\ l \in Nat
    BY <1>6
  <2>2. x \in Nat \ {0} /\ I[l] = Nat \ {0}
    BY <2>1
  <2>3. add[<<x, l>>] = x + 4 * Side(l, 1) * Side(l, 2)
    BY <2>1, <2>2
  <2>4. Side(l, 1) \in Nat /\ Side(l, 2) \in Nat
    BY <1>4, <2>1 DEF Axis
  <2>5. \A a, b \in Nat : 4 * a * b \in Nat
    OBVIOUS
  <2>6. 4 * Side(l, 1) * Side(l, 2) \in Nat
    BY <2>4, <2>5
  <2> DEFINE y == 4 * Side(l, 1) * Side(l, 2)
  <2> HIDE DEF add, I, y
  <2> QED  BY <2>2, <2>3, <2>6 DEF y
<1>8. 0 \in 0 .. k /\ k \in 0 .. k
  BY <1>6
<1>9. start \in I[0] /\ I[k] = Nat \ {0}
  BY <1>5, <1>8
<1>10. FrameBytes(layout, frames, i) = Iterated(add, start, k)
  BY DEF FrameBytes
<1> HIDE DEF add, start, k, I
<1>11. Iterated(add, start, k) \in I[k]
  BY <1>6, <1>7, <1>8, <1>9, IteratedSteps
<1> QED  BY <1>9, <1>10, <1>11

(* Sequences in which nothing is twice                                     *)
LEMMA OnceAppended ==
  ASSUME NEW S, NEW a \in Seq(S), IsInjective(a), NEW x \in S, x \notin Range(a)
  PROVE  /\ Append(a, x) \in Seq(S) /\ IsInjective(Append(a, x))
         /\ Range(Append(a, x)) = Range(a) \cup {x}
<1> DEFINE b == Append(a, x)
           n == Len(a)
<1>1. /\ b \in Seq(S) /\ DOMAIN b = 1 .. n + 1 /\ DOMAIN a = 1 .. n
      /\ n \in Nat /\ b[n + 1] = x /\ \A i \in 1 .. n : b[i] = a[i]
  OBVIOUS
<1> HIDE DEF b, n
<1>2. \A i \in 1 .. n + 1 : i \in 1 .. n \/ i = n + 1
  BY <1>1
<1>3. \A i \in 1 .. n : a[i] \in Range(a) /\ i \in 1 .. n + 1
  BY <1>1 DEF Range
<1>4. IsInjective(b)
  BY <1>1, <1>2, <1>3 DEF IsInjective
<1>5. Range(b) = Range(a) \cup {x}
  <2>1. Range(b) \subseteq Range(a) \cup {x}
    BY <1>1, <1>2, <1>3 DEF Range
  <2>2. x \in Range(b)
    <3>1. n + 1 \in 1 .. n + 1
      BY <1>1
    <3> QED  BY <1>1, <3>1 DEF Range
  <2>3. Range(a) \subseteq Range(b)
    BY <1>1, <1>3 DEF Range
  <2> QED  BY <2>1, <2>2, <2>3
<1> QED  BY <1>1, <1>4, <1>5 DEF b

LEMMA OnceJoined ==
  ASSUME NEW S, NEW a \in Seq(S), NEW b \in Seq(S), IsInjective(a),
         IsInjective(b), Range(a) \cap Range(b) = {}
  PROVE  /\ a \o b \in Seq(S) /\ IsInjective(a \o b)
         /\ Range(a \o b) = Range(a) \cup Range(b)
<1> DEFINE c == a \o b
           n == Len(a)
           m == Len(b)
<1>1. /\ c \in Seq(S) /\ DOMAIN c = 1 .. n + m /\ DOMAIN a = 1 .. n
      /\ DOMAIN b = 1 .. m /\ n \in Nat /\ m \in Nat
      /\ \A i \in 1 .. n + m : c[i] = IF i <= n THEN a[i] ELSE b[i - n]
  OBVIOUS
<1> HIDE DEF c, n, m
<1>2. \A i \in 1 .. n + m : \/ i \in 1 .. n /\ c[i] = a[i]
                            \/ i - n \in 1 .. m /\ c[i] = b[i - n]
  BY <1>1
<1>3. \A i \in 1 .. n : c[i] = a[i] /\ i \in 1 .. n + m
  BY <1>1
<1>4. \A j \in 1 .. m : c[n + j] = b[j] /\ n + j \in 1 .. n + m
  <2> SUFFICES ASSUME NEW j \in 1 .. m
               PROVE  c[n + j] = b[j] /\ n + j \in 1 .. n + m
    OBVIOUS
  <2>1. n + j \in 1 .. n + m /\ ~ (n + j <= n) /\ (n + j) - n = j
    BY <1>1
  <2> QED  BY <1>1, <2>1
<1>5. /\ \A i \in 1 .. n : a[i] \in Range(a)
      /\ \A i \in 1 .. m : b[i] \in Range(b)
  BY <1>1 DEF Range
<1>6. IsInjective(c)
  <2> SUFFICES ASSUME NEW i \in 1 .. n + m, NEW j \in 1 .. n + m, c[i] = c[j]
               PROVE  i = j
    BY <1>1 DEF IsInjective
  <2>1. CASE i \in 1 .. n /\ j \in 1 .. n
    BY <1>1, <1>3, <2>1 DEF IsInjective
  <2>2. CASE i - n \in 1 .. m /\ j - n \in 1 .. m /\ c[i] = b[i - n]
             /\ c[j] = b[j - n]
    <3>1. i - n = j - n
      BY <1>1, <2>2 DEF IsInjective
    <3> QED  BY <1>1, <3>1
  <2> QED  BY <1>2, <1>5, <2>1, <2>2
<1>7. Range(c) = Range(a) \cup Range(b)
  <2>1. Range(c) \subseteq Range(a) \cup Range(b)
    BY <1>1, <1>2, <1>5 DEF Range
  <2>2. Range(a) \subseteq Range(c)
    BY <1>1, <1>3 DEF Range
  <2>3. Range(b) \subseteq Range(c)
    BY <1>1, <1>4 DEF Range
  <2> QED  BY <2>1, <2>2, <2>3
<1> QED  BY <1>1, <1>6, <1>7 DEF c

LEMMA OnceCounted ==
  ASSUME NEW S, NEW a \in Seq(S), IsInjective(a)
  PROVE  Len(a) = Cardinality(Range(a))
<1> DEFINE n == Len(a)
<1>1. DOMAIN a = 1 .. n /\ n \in Nat
  OBVIOUS
<1>2. IsFiniteSet(1 .. n) /\ Cardinality(1 .. n) = n
  BY <1>1, FS_Interval
<1>3. a \in Bijection(1 .. n, Range(a))
  <2>1. a \in [1 .. n -> Range(a)]
    BY <1>1 DEF Range
  <2>2. a \in Injection(1 .. n, Range(a))
    BY <1>1, <2>1 DEF Injection
  <2>3. a \in Surjection(1 .. n, Range(a))
    BY <1>1, <2>1 DEF Surjection, Range
  <2> QED  BY <2>2, <2>3 DEF Bijection
<1>4. ExistsBijection(1 .. n, Range(a))
  <2> HIDE DEF n
  <2> QED  BY <1>3 DEF ExistsBijection
<1>5. Cardinality(Range(a)) = Cardinality(1 .. n)
  <2> HIDE DEF n
  <2> QED  BY <1>2, <1>4, FS_Bijection
<1> QED  BY <1>2, <1>5

-----------------------------------------------------------------------------
(* Batches                                                                 *)

(* The frames of S have been copied or recorded for that, each once.       *)
InTurn(c, S) ==
  /\ c \in Copies /\ ~ c.readable
  /\ Range(c.uploaded) \cup Range(c.recorded) = S
  /\ IsInjective(c.uploaded) /\ IsInjective(c.recorded)
  /\ Range(c.uploaded) \cap Range(c.recorded) = {}
  /\ c.bytes = 0 <=> c.recorded = <<>>
  /\ c.recorded = <<>> => c.uploaded = <<>>
  /\ Len(c.recorded) > 1 => c.bytes <= BatchLimit
  /\ \A batch \in c.batches : batch.frames = 1 \/ batch.bytes <= BatchLimit

LEMMA BatchOf ==
  ASSUME NEW c, NEW S, InTurn(c, S), c.bytes # 0
  PROVE  /\ BatchSubmitted(c) = [c EXCEPT !.uploaded = c.uploaded \o c.recorded,
                                          !.batches = BatchSubmitted(c).batches]
         /\ c.uploaded \o c.recorded \in Seq(Nat)
         /\ IsInjective(c.uploaded \o c.recorded)
         /\ Range(c.uploaded \o c.recorded) = S
         /\ BatchSubmitted(c).batches \subseteq [bytes : Nat, frames : Nat]
         /\ \A batch \in BatchSubmitted(c).batches :
              batch.frames = 1 \/ batch.bytes <= BatchLimit
         /\ c.uploaded \o c.recorded # <<>>
<1> DEFINE batch == [bytes |-> c.bytes, frames |-> Len(c.recorded)]
<1>1. /\ c \in Copies /\ c.uploaded \in Seq(Nat) /\ c.recorded \in Seq(Nat)
      /\ c.bytes \in Nat /\ c.batches \subseteq [bytes : Nat, frames : Nat]
  BY DEF InTurn, Copies
<1>2. /\ c.uploaded \o c.recorded \in Seq(Nat)
      /\ IsInjective(c.uploaded \o c.recorded)
      /\ Range(c.uploaded \o c.recorded) = S
  <2>1. /\ IsInjective(c.uploaded) /\ IsInjective(c.recorded)
        /\ Range(c.uploaded) \cap Range(c.recorded) = {}
        /\ Range(c.uploaded) \cup Range(c.recorded) = S
    BY DEF InTurn
  <2> DEFINE u == c.uploaded
             q == c.recorded
  <2>2. /\ u \in Seq(Nat) /\ q \in Seq(Nat) /\ IsInjective(u)
        /\ IsInjective(q) /\ Range(u) \cap Range(q) = {}
        /\ Range(u) \cup Range(q) = S
    BY <1>1, <2>1
  <2> HIDE DEF u, q
  <2>3. /\ u \o q \in Seq(Nat) /\ IsInjective(u \o q)
        /\ Range(u \o q) = Range(u) \cup Range(q)
    BY <2>2, OnceJoined
  <2>4. Range(u \o q) = S
    BY <2>2, <2>3
  <2> QED  BY <2>3, <2>4 DEF u, q
<1>3. BatchSubmitted(c) = [c EXCEPT !.uploaded = c.uploaded \o c.recorded,
                                    !.batches = c.batches \cup {batch}]
  BY <1>1 DEF BatchSubmitted, Copies
<1>4. BatchSubmitted(c).batches = c.batches \cup {batch}
  BY <1>1, <1>3 DEF Copies
<1>5. Len(c.recorded) \in Nat \ {0}
  BY <1>1 DEF InTurn
<1>6. batch \in [bytes : Nat, frames : Nat]
      /\ (batch.frames = 1 \/ batch.bytes <= BatchLimit)
  <2>1. Len(c.recorded) > 1 => c.bytes <= BatchLimit
    BY DEF InTurn
  <2>2. batch.frames = Len(c.recorded) /\ batch.bytes = c.bytes
    OBVIOUS
  <2>3. batch \in [bytes : Nat, frames : Nat]
    BY <1>1, <1>5
  <2> HIDE DEF batch
  <2>4. batch.frames = 1 \/ batch.bytes <= BatchLimit
    <3> DEFINE k == Len(c.recorded)
    <3>1. k \in Nat \ {0} /\ (k > 1 => c.bytes <= BatchLimit)
      BY <1>5, <2>1
    <3>2. batch.frames = k
      BY <2>2
    <3> HIDE DEF k
    <3>3. k = 1 \/ k > 1
      BY <3>1
    <3> QED  BY <2>2, <3>1, <3>2, <3>3
  <2> QED  BY <2>3, <2>4
<1>7. c.uploaded \o c.recorded # <<>>
  BY <1>1, <1>5
<1> HIDE DEF batch
<1> QED  BY <1>1, <1>2, <1>3, <1>4, <1>6, <1>7 DEF InTurn

(* A frame is copied that has not been. *)
LEMMA CopiedOne ==
  ASSUME NEW c, NEW S, InTurn(c, S), NEW i \in Nat, i \notin S,
         NEW size \in Nat \ {0}
  PROVE  InTurn(Copied(c, i, size), S \cup {i})
<1> DEFINE r == Copied(c, i, size)
<1>1. /\ c \in Copies /\ c.uploaded \in Seq(Nat) /\ c.recorded \in Seq(Nat)
      /\ c.bytes \in Nat /\ c.batches \subseteq [bytes : Nat, frames : Nat]
      /\ BatchLimit \in Nat
  BY AtlasAssumption DEF InTurn, Copies
<1>2. CASE Full(c, size)
  <2> DEFINE u == c.uploaded \o c.recorded
             b == BatchSubmitted(c).batches
  <2>1. /\ BatchSubmitted(c) = [c EXCEPT !.uploaded = u, !.batches = b]
        /\ u \in Seq(Nat) /\ IsInjective(u) /\ Range(u) = S
        /\ b \subseteq [bytes : Nat, frames : Nat]
        /\ \A batch \in b : batch.frames = 1 \/ batch.bytes <= BatchLimit
    BY <1>2, BatchOf DEF Full
  <2>2. r = [c EXCEPT !.uploaded = u, !.recorded = <<i>>, !.bytes = size,
                      !.batches = b]
    <3> DEFINE o == [BatchSubmitted(c) EXCEPT !.recorded = <<>>, !.bytes = 0]
    <3>1. r = [o EXCEPT !.recorded = Append(@, i), !.bytes = @ + size]
      BY <1>2 DEF Copied
    <3> HIDE DEF r, u, b
    <3>2. o = [c EXCEPT !.uploaded = u, !.recorded = <<>>, !.bytes = 0,
                        !.batches = b]
      BY <1>1, <2>1 DEF Copies
    <3>3. /\ o \in Copies /\ o.uploaded = u /\ o.recorded = <<>>
          /\ o.bytes = 0 /\ o.batches = b /\ o.readable = c.readable
      <4>1. <<>> \in Seq(Nat) /\ 0 \in Nat
        OBVIOUS
      <4> HIDE DEF o
      <4> QED  BY <1>1, <2>1, <3>2, <4>1 DEF Copies
    <3> HIDE DEF o
    <3>4. Append(o.recorded, i) = <<i>> /\ o.bytes + size = size
      BY <3>3
    <3>5. r = [o EXCEPT !.recorded = <<i>>, !.bytes = size]
      BY <3>1, <3>4
    <3> QED  BY <1>1, <3>2, <3>5 DEF Copies
  <2> HIDE DEF r, u, b
  <2>3. /\ r \in Copies /\ r.uploaded = u /\ r.recorded = <<i>>
        /\ r.bytes = size /\ r.batches = b /\ r.readable = c.readable
    <3>1. <<i>> \in Seq(Nat)
      OBVIOUS
    <3>2. size \in Nat
      OBVIOUS
    <3> DEFINE q == <<i>>
    <3>3. r = [c EXCEPT !.uploaded = u, !.recorded = q, !.bytes = size,
                        !.batches = b]
      BY <2>2
    <3>4. r \in Copies /\ r.uploaded = u /\ r.recorded = q
          /\ r.bytes = size /\ r.batches = b /\ r.readable = c.readable
      <4>1. q \in Seq(Nat)
        OBVIOUS
      <4> HIDE DEF q
      <4> QED  BY <1>1, <2>1, <3>2, <3>3, <4>1 DEF Copies
    <3> QED  BY <3>4
  <2>4. IsInjective(<<i>>) /\ Range(<<i>>) = {i} /\ Len(<<i>>) = 1 /\ <<i>> # <<>>
    BY DEF IsInjective, Range
  <2>5. ~ r.readable
    BY <2>3 DEF InTurn
  <2>6. InTurn(r, S \cup {i})
    <3>1. /\ Range(u) \cup Range(<<i>>) = S \cup {i}
          /\ Range(u) \cap Range(<<i>>) = {}
      BY <2>1, <2>4
    <3>2. size # 0 /\ ~ (1 > 1)
      OBVIOUS
    <3> QED  BY <2>1, <2>3, <2>4, <2>5, <3>1, <3>2 DEF InTurn
  <2> QED  BY <2>6 DEF r
<1>3. CASE ~ Full(c, size)
  <2> DEFINE a == Append(c.recorded, i)
  <2>1. r = [c EXCEPT !.recorded = a, !.bytes = c.bytes + size]
    BY <1>1, <1>3 DEF Copied, Copies
  <2>2. i \notin Range(c.recorded) /\ i \notin Range(c.uploaded)
    BY DEF InTurn
  <2>3. /\ a \in Seq(Nat) /\ IsInjective(a)
        /\ Range(a) = Range(c.recorded) \cup {i}
    BY <1>1, <2>2, OnceAppended DEF InTurn
  <2>4. a # <<>> /\ Len(a) = Len(c.recorded) + 1 /\ Len(c.recorded) \in Nat
    BY <1>1
  <2>5. Len(a) > 1 => c.bytes + size <= BatchLimit
    <3>1. ASSUME Len(a) > 1 PROVE c.bytes # 0
      <4>1. c.recorded # <<>>
        BY <1>1, <2>4, <3>1
      <4> QED  BY <4>1 DEF InTurn
    <3> QED  BY <1>1, <1>3, <3>1 DEF Full
  <2> HIDE DEF r, a
  <2>6. /\ r \in Copies /\ r.uploaded = c.uploaded /\ r.recorded = a
        /\ r.bytes = c.bytes + size /\ r.batches = c.batches
        /\ r.readable = c.readable
    <3>1. r = [c EXCEPT !.uploaded = c.uploaded, !.recorded = a,
                        !.bytes = c.bytes + size, !.batches = c.batches]
      BY <1>1, <2>1 DEF Copies
    <3>2. c.bytes + size \in Nat
      BY <1>1
    <3> DEFINE n == c.bytes + size
               u == c.uploaded
               b == c.batches
    <3>3. /\ u \in Seq(Nat) /\ n \in Nat /\ b \subseteq [bytes : Nat, frames : Nat]
          /\ r = [c EXCEPT !.uploaded = u, !.recorded = a, !.bytes = n,
                           !.batches = b]
      BY <1>1, <3>1, <3>2
    <3>4. /\ r \in Copies /\ r.uploaded = u /\ r.recorded = a /\ r.bytes = n
          /\ r.batches = b /\ r.readable = c.readable
      <4> HIDE DEF n, u, b
      <4> QED  BY <1>1, <2>3, <3>3 DEF Copies
    <3> QED  BY <3>4
  <2>7. c.bytes + size # 0
    BY <1>1
  <2>8. InTurn(r, S \cup {i})
    BY <2>2, <2>3, <2>4, <2>5, <2>6, <2>7 DEF InTurn
  <2> QED  BY <2>8 DEF r
<1> QED  BY <1>2, <1>3

(* What is decoded of a group. *)
LEMMA DecodedOf ==
  ASSUME NEW b, b.frames \in Seq(Pictures), Grouped(b.frames, b.groups),
         NEW g \in DOMAIN b.groups
  PROVE  /\ Decoded(b, g) \in Seq(DOMAIN b.frames) /\ IsInjective(Decoded(b, g))
         /\ Range(Decoded(b, g)) = Range(b.groups[g]) \cap Decodable(b.frames)
<1> DEFINE group == b.groups[g]
           file == b.frames[group[1]].file
<1>1. /\ group \in Seq(DOMAIN b.frames) /\ IsInjective(group)
      /\ \A i \in Range(group) : b.frames[i].file = file
  BY DEF Grouped
<1> HIDE DEF group, file
<1>2. Range(group) \subseteq DOMAIN b.frames
  BY <1>1 DEF Range
<1>3. CASE file \in Undecodable
  <2>1. Decoded(b, g) = <<>>
    BY <1>3 DEF Decoded, group, file
  <2>2. Range(group) \cap Decodable(b.frames) = {}
    BY <1>1, <1>3 DEF Decodable
  <2>3. /\ <<>> \in Seq(DOMAIN b.frames) /\ IsInjective(<<>>)
        /\ Range(<<>>) = {}
    BY DEF IsInjective, Range
  <2> QED  BY <2>1, <2>2, <2>3 DEF group
<1>4. CASE file \notin Undecodable
  <2>1. Decoded(b, g) = group
    BY <1>4 DEF Decoded, group, file
  <2>2. Range(group) \subseteq Decodable(b.frames)
    BY <1>1, <1>2, <1>4 DEF Decodable
  <2> QED  BY <1>1, <2>1, <2>2 DEF group
<1> QED  BY <1>3, <1>4

LEMMA GroupInTurn ==
  ASSUME NEW b, NEW S, InTurn(b.copies, S),
         Decoded(b, b.next) \in Seq(Nat), IsInjective(Decoded(b, b.next)),
         Range(Decoded(b, b.next)) \cap S = {},
         \A i \in Range(Decoded(b, b.next)) : b.bytes[i] \in Nat \ {0}
  PROVE  InTurn(CopiedGroup(b), S \cup Range(Decoded(b, b.next)))
<1> DEFINE decoded == Decoded(b, b.next)
           n == Len(decoded)
           copy == [x \in Copies \X DOMAIN decoded |->
                      Copied(x[1], decoded[x[2]], b.bytes[decoded[x[2]]])]
           Upto(k) == S \cup {decoded[j] : j \in 1 .. k}
           I == [k \in 0 .. n |-> {c \in Copies : InTurn(c, Upto(k))}]
<1>1. /\ decoded \in Seq(Nat) /\ IsInjective(decoded)
      /\ n \in Nat /\ DOMAIN decoded = 1 .. n
      /\ Range(decoded) = {decoded[j] : j \in 1 .. n}
      /\ Range(decoded) \cap S = {}
      /\ \A i \in Range(decoded) : b.bytes[i] \in Nat \ {0}
  BY DEF Range
<1>2. CopiedGroup(b) = Iterated(copy, b.copies, n)
  BY DEF CopiedGroup
<1> HIDE DEF decoded, n
<1>3. ASSUME NEW k \in 1 .. n, NEW c \in I[k - 1]
      PROVE  copy[<<c, k>>] \in I[k]
  <2>1. k - 1 \in 0 .. n /\ k \in 0 .. n /\ k \in 1 .. k
    BY <1>1
  <2>2. c \in Copies /\ InTurn(c, Upto(k - 1))
    BY <2>1
  <2> DEFINE i == decoded[k]
             size == b.bytes[i]
  <2>3. i \in Nat /\ i \in Range(decoded) /\ size \in Nat \ {0}
    <3>1. i \in Range(decoded)
      BY <1>1 DEF Range
    <3>2. i \in Nat
      BY <1>1
    <3> HIDE DEF i
    <3> QED  BY <1>1, <3>1, <3>2
  <2>4. i \notin Upto(k - 1)
    <3>1. \A j \in 1 .. k - 1 : j \in 1 .. n /\ j # k
      BY <1>1
    <3>2. \A j \in 1 .. k - 1 : decoded[j] # i
      BY <1>1, <3>1 DEF IsInjective
    <3>3. i \notin S
      BY <1>1, <2>3
    <3> QED  BY <3>2, <3>3
  <2>5. Upto(k) = Upto(k - 1) \cup {i}
    <3>1. \A j \in 1 .. k : j \in 1 .. k - 1 \/ j = k
      OBVIOUS
    <3>2. \A j \in 1 .. k - 1 : j \in 1 .. k
      OBVIOUS
    <3> QED  BY <2>1, <3>1, <3>2
  <2>6. copy[<<c, k>>] = Copied(c, i, size)
    BY <1>1, <2>2
  <2> HIDE DEF Upto, copy, i, size
  <2>7. InTurn(Copied(c, i, size), Upto(k))
    BY <2>2, <2>3, <2>4, <2>5, CopiedOne
  <2>8. Copied(c, i, size) \in Copies
    BY <2>7 DEF InTurn
  <2>9. I[k] = {t \in Copies : InTurn(t, Upto(k))}
    BY <2>1
  <2> HIDE DEF I
  <2> QED  BY <2>6, <2>7, <2>8, <2>9
<1>4. b.copies \in I[0] /\ n \in 0 .. n /\ 0 \in 0 .. n
  <2>1. 0 \in 0 .. n /\ n \in 0 .. n
    BY <1>1
  <2>2. {decoded[j] : j \in 1 .. 0} = {}
    OBVIOUS
  <2>3. Upto(0) = S
    BY <2>2
  <2>4. b.copies \in Copies
    BY DEF InTurn
  <2> HIDE DEF Upto
  <2> QED  BY <2>1, <2>3, <2>4
<1>5. I[n] = {c \in Copies : InTurn(c, Upto(n))}
  BY <1>4
<1> HIDE DEF I, copy
<1>6. Iterated(copy, b.copies, n) \in I[n]
  BY <1>1, <1>3, <1>4, IteratedSteps
<1>7. InTurn(CopiedGroup(b), Upto(n))
  <2> HIDE DEF Upto
  <2> QED  BY <1>2, <1>5, <1>6
<1> QED  BY <1>1, <1>7 DEF decoded

(* The frames of the groups that have been taken.                          *)
TakenOf(b) ==
  {i \in Decodable(b.frames) :
     \E g \in 1 .. b.next - 1 : i \in Range(b.groups[g])}

Finished(c, S) ==
  /\ c.recorded = <<>> /\ c.uploaded \in Seq(Nat) /\ IsInjective(c.uploaded)
  /\ Range(c.uploaded) = S
  /\ \A batch \in c.batches : batch.frames = 1 \/ batch.bytes <= BatchLimit
  /\ c.readable <=> c.uploaded # <<>>

CopiesInTurn(b) ==
  /\ b.groups = UploadGroups(b.frames)
  /\ \A i \in DOMAIN b.frames : b.bytes[i] \in Nat \ {0}
  /\ b.at \notin {"none", "abandoned"} => InTurn(b.copies, TakenOf(b))
  /\ b.at = "none" => Finished(b.copies, Decodable(b.frames))

LEMMA BuiltInTurn ==
  ASSUME NEW frames \in Seq(Pictures)
  PROVE  CopiesInTurn(Built(frames, Arranged(frames)))
<1> DEFINE b == Built(frames, Arranged(frames))
<1>1. /\ b.groups = UploadGroups(frames) /\ b.frames = frames
      /\ b.bytes = [i \in DOMAIN frames |->
                      FrameBytes(Arranged(frames), frames, i)]
      /\ b.at = "prepare" /\ b.next = 1 /\ b.copies = NoCopies
  BY DEF Built
<1> HIDE DEF b
<1>2. \A i \in DOMAIN b.frames : b.bytes[i] \in Nat \ {0}
  BY <1>1, FrameBytesPositive
<1>3. TakenOf(b) = {}
  BY <1>1 DEF TakenOf
<1>4. InTurn(NoCopies, {})
  BY DEF InTurn, NoCopies, Copies, Range, IsInjective
<1> QED  BY <1>1, <1>2, <1>3, <1>4 DEF CopiesInTurn, b

LEMMA UploadedInTurn ==
  ASSUME NEW b, b.frames \in Seq(Pictures), CopiesInTurn(b), b.at = "prepare",
         b.next \in Nat \ {0}, b.next <= Len(b.groups),
         NEW c, c.frames = b.frames, c.groups = b.groups, c.bytes = b.bytes,
         c.at = b.at, c.next = b.next + 1, c.copies = CopiedGroup(b)
  PROVE  CopiesInTurn(c)
<1> DEFINE g == b.next
           decoded == Decoded(b, g)
<1>1. Grouped(b.frames, b.groups)
  BY GroupsPartition DEF CopiesInTurn
<1>2. DOMAIN b.groups = 1 .. Len(b.groups) /\ Len(b.groups) \in Nat
      /\ DOMAIN b.frames \subseteq Nat
  <2>1. DOMAIN b.frames = 1 .. Len(b.frames)
    OBVIOUS
  <2>2. Len(b.frames) \in Nat
    OBVIOUS
  <2>3. b.groups \in Seq(Seq(DOMAIN b.frames))
    BY <1>1 DEF Grouped
  <2>4. DOMAIN b.groups = 1 .. Len(b.groups) /\ Len(b.groups) \in Nat
    BY <2>3
  <2> QED  BY <2>1, <2>2, <2>4
<1>3. g \in DOMAIN b.groups
  BY <1>2
<1>4. /\ decoded \in Seq(DOMAIN b.frames) /\ IsInjective(decoded)
      /\ Range(decoded) = Range(b.groups[g]) \cap Decodable(b.frames)
  BY <1>1, <1>3, DecodedOf
<1>5. InTurn(b.copies, TakenOf(b))
  BY DEF CopiesInTurn
<1>6. Range(decoded) \cap TakenOf(b) = {}
  <2> SUFFICES ASSUME NEW i \in Range(decoded), i \in TakenOf(b) PROVE FALSE
    OBVIOUS
  <2>1. PICK h \in 1 .. g - 1 : i \in Range(b.groups[h])
    BY DEF TakenOf
  <2>2. h \in DOMAIN b.groups /\ h # g
    BY <1>2, <1>3, <2>1
  <2>3. i \in Range(b.groups[g]) \cap Range(b.groups[h])
    BY <1>4, <2>1
  <2> QED  BY <1>1, <1>3, <2>2, <2>3 DEF Grouped
<1>7. TakenOf(c) = TakenOf(b) \cup Range(decoded)
  <2>1. \A h \in 1 .. c.next - 1 : h \in 1 .. g - 1 \/ h = g
    OBVIOUS
  <2>2. \A h \in 1 .. g - 1 : h \in 1 .. c.next - 1
    OBVIOUS
  <2>3. g \in 1 .. c.next - 1
    OBVIOUS
  <2> HIDE DEF g, decoded
  <2>4. TakenOf(b) = {i \in Decodable(b.frames) :
                        \E h \in 1 .. g - 1 : i \in Range(b.groups[h])}
    BY DEF TakenOf, g
  <2>5. TakenOf(c) = {i \in Decodable(b.frames) :
                        \E h \in 1 .. c.next - 1 : i \in Range(b.groups[h])}
    BY DEF TakenOf
  <2> QED  BY <1>4, <2>1, <2>2, <2>3, <2>4, <2>5
<1>8. decoded \in Seq(Nat)
  <2> HIDE DEF decoded
  <2> QED  BY <1>2, <1>4
<1>9. \A i \in Range(decoded) : b.bytes[i] \in Nat \ {0}
  <2>1. Range(decoded) \subseteq DOMAIN b.frames
    BY <1>4 DEF Range
  <2> QED  BY <2>1 DEF CopiesInTurn
<1>10. InTurn(CopiedGroup(b), TakenOf(b) \cup Range(decoded))
  BY <1>4, <1>5, <1>6, <1>8, <1>9, GroupInTurn
<1>11. InTurn(c.copies, TakenOf(c))
  BY <1>7, <1>10
<1> QED  BY <1>11 DEF CopiesInTurn

LEMMA FinalizedInTurn ==
  ASSUME NEW b, b.frames \in Seq(Pictures), CopiesInTurn(b), b.at = "prepare",
         b.next \in Nat \ {0}, b.next > Len(b.groups),
         {"at", "frames", "groups", "bytes", "copies"} \subseteq DOMAIN b
  PROVE  CopiesInTurn(Finalized(b))
<1> DEFINE f == Finalized(b)
           c == b.copies
           last == IF c.bytes # 0
                   THEN [BatchSubmitted(c) EXCEPT !.readable = TRUE]
                   ELSE c
           t == [last EXCEPT !.recorded = <<>>]
<1>1. Grouped(b.frames, b.groups)
  BY GroupsPartition DEF CopiesInTurn
<1>2. InTurn(c, TakenOf(b))
  BY DEF CopiesInTurn
<1>3. TakenOf(b) = Decodable(b.frames)
  <2>1. DOMAIN b.groups = 1 .. Len(b.groups) /\ Len(b.groups) \in Nat
    BY <1>1 DEF Grouped
  <2>2. \A g \in DOMAIN b.groups : g \in 1 .. b.next - 1
    BY <2>1
  <2>3. \A i \in DOMAIN b.frames :
          \E g \in DOMAIN b.groups : i \in Range(b.groups[g])
    BY <1>1 DEF Grouped
  <2>4. Decodable(b.frames) \subseteq DOMAIN b.frames
    BY DEF Decodable
  <2>5. \A i \in Decodable(b.frames) :
          \E g \in 1 .. b.next - 1 : i \in Range(b.groups[g])
    BY <2>2, <2>3, <2>4
  <2> QED  BY <2>5 DEF TakenOf
<1>4. f = [b EXCEPT !.at = "none", !.copies = [last EXCEPT !.recorded = <<>>]]
  BY DEF Finalized
<1>5. /\ f.groups = b.groups /\ f.frames = b.frames /\ f.bytes = b.bytes
      /\ f.at = "none" /\ f.copies = t
  BY <1>4
<1>6. /\ c \in Copies /\ ~ c.readable /\ c.uploaded \in Seq(Nat)
      /\ c.batches \subseteq [bytes : Nat, frames : Nat]
      /\ c.bytes = 0 => c.recorded = <<>> /\ c.uploaded = <<>>
      /\ Range(c.uploaded) \cup Range(c.recorded) = Decodable(b.frames)
      /\ \A batch \in c.batches : batch.frames = 1 \/ batch.bytes <= BatchLimit
  BY <1>2, <1>3 DEF InTurn, Copies
<1>7. ASSUME c.bytes = 0 PROVE Finished(t, Decodable(b.frames))
  <2>1. t = [c EXCEPT !.recorded = <<>>]
    BY <1>7
  <2> HIDE DEF t, c
  <2>2. /\ t.recorded = <<>> /\ t.uploaded = <<>> /\ t.batches = c.batches
        /\ ~ t.readable
    BY <1>6, <1>7, <2>1 DEF Copies
  <2>3. Range(<<>>) = {} /\ IsInjective(<<>>) /\ <<>> \in Seq(Nat)
    BY DEF Range, IsInjective
  <2>4. Decodable(b.frames) = {}
    BY <1>6, <1>7, <2>3
  <2>5. /\ t.uploaded \in Seq(Nat) /\ IsInjective(t.uploaded)
        /\ Range(t.uploaded) = Decodable(b.frames)
    BY <2>2, <2>3, <2>4
  <2>6. t.readable <=> t.uploaded # <<>>
    BY <2>2, Zenon
  <2>7. \A batch \in t.batches : batch.frames = 1 \/ batch.bytes <= BatchLimit
    BY <1>6, <2>2
  <2> QED  BY <2>2, <2>5, <2>6, <2>7, Zenon DEF Finished
<1>8. ASSUME c.bytes # 0 PROVE Finished(t, Decodable(b.frames))
  <2> DEFINE u == c.uploaded \o c.recorded
             p == BatchSubmitted(c).batches
             s == BatchSubmitted(c)
  <2>1. /\ s = [c EXCEPT !.uploaded = u, !.batches = p]
        /\ u \in Seq(Nat) /\ IsInjective(u) /\ Range(u) = Decodable(b.frames)
        /\ p \subseteq [bytes : Nat, frames : Nat]
        /\ \A batch \in p : batch.frames = 1 \/ batch.bytes <= BatchLimit
        /\ u # <<>>
    BY <1>2, <1>3, <1>8, BatchOf
  <2>2. t = [[s EXCEPT !.readable = TRUE] EXCEPT !.recorded = <<>>]
    BY <1>8
  <2> HIDE DEF u, p, s, t, c
  <2>3. /\ t.recorded = <<>> /\ t.uploaded = u /\ t.batches = p
        /\ t.readable = TRUE
    <3>1. DOMAIN s = {"recorded", "bytes", "uploaded", "readable", "batches"}
          /\ s.uploaded = u /\ s.batches = p
      BY <1>6, <2>1 DEF Copies
    <3> QED  BY <2>2, <3>1
  <2>4. t.readable <=> t.uploaded # <<>>
    BY <2>1, <2>3, Zenon
  <2>5. /\ t.uploaded \in Seq(Nat) /\ IsInjective(t.uploaded)
        /\ Range(t.uploaded) = Decodable(b.frames)
        /\ \A batch \in t.batches : batch.frames = 1 \/ batch.bytes <= BatchLimit
    BY <2>1, <2>3
  <2> QED  BY <2>3, <2>4, <2>5, Zenon DEF Finished
<1>9. Finished(f.copies, Decodable(f.frames))
  <2>1. Finished(t, Decodable(b.frames))
    BY <1>7, <1>8
  <2> HIDE DEF f, t
  <2> QED  BY <1>5, <2>1
<1> HIDE DEF f
<1> QED  BY <1>5, <1>9 DEF CopiesInTurn, f

CopiesInv == build # NoBuild => CopiesInTurn(build)

LEMMA CopiesStayInTurn ==
  MInv /\ ListInv /\ AtlasFrames /\ CopiesInv /\ [Next]_vars => CopiesInv'
<1> SUFFICES ASSUME MInv, ListInv, AtlasFrames, CopiesInv, [Next]_vars
             PROVE  CopiesInv'
  OBVIOUS
<1>1. build # NoBuild =>
        /\ BuildFields /\ Ahead(build) /\ CopiesInTurn(build)
        /\ build.frames \in Seq(Pictures)
  BY DEF MInv, BuilderAhead, CopiesInv, AtlasFrames
<1>2. CASE build' \in {build, NoBuild}
  BY <1>2 DEF CopiesInv
<1>3. CASE BeginsAtlas
  <2>1. CASE UNCHANGED build
    BY <1>2, <2>1
  <2>2. CASE build' = Built(Inspected(Sources), Arranged(Inspected(Sources)))
    <3>1. Inspected(Sources) \in Seq(Pictures)
      BY SourcesAreFiles, InspectedPictures DEF ListInv, IsList
    <3>2. CopiesInTurn(Built(Inspected(Sources), Arranged(Inspected(Sources))))
      BY <3>1, BuiltInTurn
    <3> QED  BY <2>2, <3>2 DEF CopiesInv
  <2> QED  BY <1>3, <2>1, <2>2 DEF BeginsAtlas
<1>4. CASE PoolTakes \/ PoolEnds \/ AtlasThrows
  <2>1. /\ build # NoBuild /\ build'.frames = build.frames
        /\ build'.groups = build.groups /\ build'.bytes = build.bytes
        /\ build'.next = build.next /\ build'.copies = build.copies
        /\ build'.at \in {build.at, "abandoned"}
    BY <1>1, <1>4
       DEF PoolTakes, PoolEnds, AtlasThrows, Taken, Ended, BuildFields
  <2>2. TakenOf(build') = TakenOf(build)
    BY <2>1 DEF TakenOf
  <2> QED  BY <1>1, <2>1, <2>2 DEF CopiesInv, CopiesInTurn
<1>5. CASE Uploads
  <2>1. /\ build # NoBuild /\ build.at = "prepare"
        /\ build.next <= Len(build.groups) /\ build' = Uploaded(build)
    BY <1>5 DEF Uploads, CanUpload
  <2>2. build.next \in Nat \ {0}
    BY <1>1, <2>1 DEF Ahead
  <2>3. /\ build'.frames = build.frames /\ build'.groups = build.groups
        /\ build'.bytes = build.bytes /\ build'.at = build.at
        /\ build'.next = build.next + 1 /\ build'.copies = CopiedGroup(build)
    BY <1>1, <2>1 DEF Uploaded, BuildFields
  <2>4. CopiesInTurn(build')
    BY <1>1, <2>1, <2>2, <2>3, UploadedInTurn
  <2> QED  BY <2>4 DEF CopiesInv
<1>6. CASE EndsAtlas
  <2>1. /\ build # NoBuild /\ build.at = "prepare"
        /\ build.next > Len(build.groups) /\ build' = Finalized(build)
    BY <1>6 DEF EndsAtlas
  <2>2. build.next \in Nat \ {0}
    BY <1>1, <2>1 DEF Ahead
  <2>3. {"at", "frames", "groups", "bytes", "copies"} \subseteq DOMAIN build
    BY <1>1, <2>1 DEF BuildFields
  <2>4. CopiesInTurn(Finalized(build))
    BY <1>1, <2>1, <2>2, <2>3, FinalizedInTurn
  <2> QED  BY <2>1, <2>4 DEF CopiesInv
<1>7. CASE \/ Begins \/ AtlasAbandoned \/ Discovers \/ Enables \/ Mounts \/ Sorts
           \/ Settings \/ Locale \/ Scripts \/ Prototypes \/ Releases
           \/ RollsBack \/ Installs \/ Settles \/ Completes \/ Delivers
           \/ CallLoad \/ CallUnload \/ Load \/ Unload \/ Cancel \/ Result
           \/ SetModEnabled \/ UNCHANGED vars
  <2>1. build' \in {build, NoBuild}
    BY <1>7
       DEF Begins, AtlasAbandoned, Discovers, Enables, Mounts, Sorts, Settings,
           Locale, Scripts, Prototypes, Releases, RollsBack, Installs, Settles,
           Completes, Delivers, CallLoad, CallUnload, Load, Unload, Cancel,
           Result, SetModEnabled, vars, program, Fails, StopsIfCancelled
  <2> QED  BY <1>2, <2>1
<1> QED  BY <1>3, <1>4, <1>5, <1>6, <1>7 DEF Next, WorkerStep, PoolStep

LEMMA InTurnIsOnce ==
  ASSUME DecodingAhead, CopiesInv
  PROVE  FramesCopiedOnce
<1> DEFINE copies == build.copies
           copied == copies.uploaded \o copies.recorded
           taken == {i \in Decodable(build.frames) :
                       \E g \in 1 .. build.next - 1 :
                         i \in Range(build.groups[g])}
<1> SUFFICES ASSUME build # NoBuild, build.at # "abandoned"
             PROVE  /\ Range(copied) = (IF build.at = "none"
                                        THEN Decodable(build.frames) ELSE taken)
                    /\ Len(copied) = Cardinality(Range(copied))
                    /\ \A batch \in copies.batches :
                         batch.frames = 1 \/ batch.bytes <= BatchLimit
                    /\ copies.readable <=> build.at = "none" /\ copied # <<>>
  BY Zenon DEF FramesCopiedOnce
<1>1. CopiesInTurn(build)
  BY DEF CopiesInv
<1>2. CASE build.at = "none"
  <2>1. Finished(copies, Decodable(build.frames))
    BY <1>1, <1>2 DEF CopiesInTurn
  <2> DEFINE u == copies.uploaded
  <2>2. /\ copies.recorded = <<>> /\ u \in Seq(Nat) /\ IsInjective(u)
        /\ Range(u) = Decodable(build.frames)
        /\ \A batch \in copies.batches :
             batch.frames = 1 \/ batch.bytes <= BatchLimit
    BY <2>1 DEF Finished
  <2>3. copies.readable <=> u # <<>>
    BY <2>1, Zenon DEF Finished
  <2>4. copied = u \o <<>>
    BY <2>2
  <2> HIDE DEF u, copied, copies
  <2>5. copied = u
    BY <2>2, <2>4
  <2>6. Len(u) = Cardinality(Range(u))
    BY <2>2, OnceCounted
  <2> QED  BY <1>2, <2>2, <2>3, <2>5, <2>6, Zenon
<1>3. CASE build.at # "none"
  <2>1. InTurn(copies, taken)
    BY <1>1, <1>3 DEF CopiesInTurn, TakenOf
  <2> HIDE DEF taken
  <2> DEFINE u == copies.uploaded
             r == copies.recorded
  <2>2. /\ u \in Seq(Nat) /\ r \in Seq(Nat) /\ IsInjective(u)
        /\ IsInjective(r) /\ Range(u) \cap Range(r) = {}
        /\ Range(u) \cup Range(r) = taken
        /\ \A batch \in copies.batches :
             batch.frames = 1 \/ batch.bytes <= BatchLimit
    BY <2>1 DEF InTurn, Copies
  <2>3. ~ copies.readable
    BY <2>1 DEF InTurn
  <2>4. copied = u \o r
    OBVIOUS
  <2> HIDE DEF u, r, copied, copies
  <2>5. /\ copied \in Seq(Nat) /\ IsInjective(copied)
        /\ Range(copied) = taken
    <3>1. /\ u \o r \in Seq(Nat) /\ IsInjective(u \o r)
          /\ Range(u \o r) = Range(u) \cup Range(r)
      BY <2>2, OnceJoined
    <3> QED  BY <2>2, <2>4, <3>1
  <2>6. Len(copied) = Cardinality(Range(copied))
    BY <2>5, OnceCounted
  <2> QED  BY <1>3, <2>2, <2>3, <2>5, <2>6, Zenon
<1> QED  BY <1>2, <1>3

(* However many files there are and threads, whatever cannot be decoded    *)
(* and whenever a group is ready: each frame that can be decoded is copied *)
(* once, in batches that keep to their limit but for a single frame, and   *)
(* shaders read the texture after the last copy and not before.            *)
THEOREM FramesAreCopiedOnce == Spec => []FramesCopiedOnce
<1>1. Init => AtlasFrames /\ CopiesInv
  BY DEF Init, AtlasFrames, CopiesInv
<1>2. DecodingAhead /\ CopiesInv => FramesCopiedOnce
  BY InTurnIsOnce
<1> QED  BY <1>1, <1>2, Invariance, ListInvariance, FramesStayPlaced,
            CopiesStayInTurn, BuilderIsServed, PTL DEF Spec

-----------------------------------------------------------------------------
(* The fields of a node                                                    *)
Nodes == {"weight", "phases", "next", "completed", "done", "total"}

(* The branch of a load: its root waits for one phase, of weight one, with *)
(* at least so many nodes around the innermost one.                        *)
Reaches(b, least) ==
  /\ DOMAIN b = {"around", "node"} /\ b.around \in Seq(Range(b.around))
  /\ least <= Len(b.around) /\ 1 <= Len(b.around)
  /\ DOMAIN b.node = Nodes
  /\ \A i \in 1 .. Len(b.around) : DOMAIN b.around[i] = Nodes
  /\ b.around[1].phases = <<1>> /\ b.around[1].completed = 0
  /\ Len(b.around) = 1 => b.node.weight = 1
  /\ Len(b.around) # 1 => b.around[2].weight = 1

(* The phase has ended, and only the root is left.                         *)
Through(b) ==
  /\ b.around = <<>> /\ b.node.phases = <<1>> /\ b.node.completed = 1

(* A branch of the progress is deep enough for what the thread does next.  *)
ProgressInv ==
  /\ DOMAIN progress = {"around", "node"}
  /\ worker.at \in {"begin", "release", "rollback", "install", "settle",
                    "complete"} => Reaches(progress, 1)
  /\ worker.at \in {"discover", "enable", "mount", "sort", "settings",
                    "locale", "scripts", "prototypes", "atlas"} =>
       Reaches(progress, 3)
  /\ Settled => Through(progress)

LEMMA JustAround ==
  ASSUME NEW S, NEW s \in Seq(S)
  PROVE  s \in Seq(Range(s))
<1>1. s \in [1 .. Len(s) -> Range(s)]
  BY DEF Range
<1> QED  BY <1>1

LEMMA ReportsReach ==
  ASSUME NEW b, NEW least \in Nat, Reaches(b, least)
  PROVE  /\ \A w : Reaches(Add(b, w), least)
         /\ \A amount : /\ Reaches(AddTotal(b, amount), least)
                        /\ Reaches(Advance(b, amount), least)
<1>1. ASSUME NEW c, c.around = b.around, DOMAIN c = {"around", "node"},
             DOMAIN c.node = Nodes, c.node.weight = b.node.weight
      PROVE  Reaches(c, least)
  BY <1>1 DEF Reaches
<1>2. /\ DOMAIN b = {"around", "node"} /\ DOMAIN b.node = Nodes
  BY DEF Reaches
<1>3. \A w : Reaches(Add(b, w), least)
  <2> TAKE w
  <2> DEFINE c == Add(b, w)
  <2>1. /\ c.around = b.around /\ DOMAIN c = {"around", "node"}
        /\ DOMAIN c.node = Nodes /\ c.node.weight = b.node.weight
    BY <1>2 DEF Add, Nodes
  <2> HIDE DEF c
  <2>2. Reaches(c, least)
    BY <1>1, <2>1
  <2> QED  BY <2>2 DEF c
<1>4. \A amount : Reaches(AddTotal(b, amount), least)
  <2> TAKE amount
  <2> DEFINE c == AddTotal(b, amount)
  <2>1. /\ c.around = b.around /\ DOMAIN c = {"around", "node"}
        /\ DOMAIN c.node = Nodes /\ c.node.weight = b.node.weight
    BY <1>2 DEF AddTotal, Nodes
  <2> HIDE DEF c
  <2>2. Reaches(c, least)
    BY <1>1, <2>1
  <2> QED  BY <2>2 DEF c
<1>5. \A amount : Reaches(Advance(b, amount), least)
  <2> TAKE amount
  <2> DEFINE c == Advance(b, amount)
  <2>1. /\ c.around = b.around /\ DOMAIN c = {"around", "node"}
        /\ DOMAIN c.node = Nodes /\ c.node.weight = b.node.weight
    BY <1>2 DEF Advance, Nodes
  <2> HIDE DEF c
  <2>2. Reaches(c, least)
    BY <1>1, <2>1
  <2> QED  BY <2>2 DEF c
<1> QED  BY <1>3, <1>4, <1>5

LEMMA BeginReaches ==
  ASSUME NEW b, NEW least \in Nat, Reaches(b, least)
  PROVE  Reaches(Begin(b), least + 1)
<1> DEFINE last == [b.node EXCEPT !.next = @ + 1]
           child == Node(b.node.phases[b.node.next])
           around == Append(b.around, last)
           n == Len(b.around)
<1>1. /\ DOMAIN b.node = Nodes /\ b.around \in Seq(Range(b.around))
      /\ least <= n /\ 1 <= n /\ n \in Nat
      /\ \A i \in 1 .. n : DOMAIN b.around[i] = Nodes
      /\ b.around[1].phases = <<1>> /\ b.around[1].completed = 0
      /\ n = 1 => b.node.weight = 1
      /\ n # 1 => b.around[2].weight = 1
  BY DEF Reaches
<1>2. DOMAIN last = Nodes /\ last.weight = b.node.weight
  BY <1>1 DEF Nodes
<1>3. DOMAIN child = Nodes
  BY DEF Node, Nodes
<1>4. Begin(b) = [around |-> around, node |-> child]
  BY DEF Begin
<1> HIDE DEF last, child
<1>5. /\ around \in Seq(Range(b.around) \cup {last}) /\ Len(around) = n + 1
      /\ \A i \in 1 .. n : around[i] = b.around[i]
      /\ around[n + 1] = last
  BY <1>1
<1> HIDE DEF around, n
<1>6. around \in Seq(Range(around))
  BY <1>5, JustAround
<1>7. \A i \in 1 .. n + 1 : DOMAIN around[i] = Nodes
  BY <1>1, <1>2, <1>5
<1>8. /\ around[1] = b.around[1] /\ n + 1 # 1
      /\ n = 1 => around[2] = last
      /\ n # 1 => around[2] = b.around[2]
  BY <1>1, <1>5
<1>9. around[2].weight = 1
  BY <1>1, <1>2, <1>8
<1>10. least + 1 <= n + 1 /\ 1 <= n + 1
  BY <1>1
<1> DEFINE c == [around |-> around, node |-> child]
<1>11. c.around = around /\ c.node = child /\ DOMAIN c = {"around", "node"}
  OBVIOUS
<1> HIDE DEF c
<1>12. Reaches(c, least + 1)
  BY <1>1, <1>3, <1>5, <1>6, <1>7, <1>8, <1>9, <1>10, <1>11 DEF Reaches
<1> QED  BY <1>4, <1>12 DEF c

LEMMA FinishReaches ==
  ASSUME NEW b, NEW least \in Nat, Reaches(b, least + 2)
  PROVE  Reaches(Finish(b), least + 1)
<1> DEFINE n == Len(b.around)
           node == [b.around[n] EXCEPT !.completed = @ + b.node.weight]
           around == SubSeq(b.around, 1, n - 1)
<1>1. /\ DOMAIN b.node = Nodes /\ b.around \in Seq(Range(b.around))
      /\ least + 2 <= n /\ n \in Nat
      /\ \A i \in 1 .. n : DOMAIN b.around[i] = Nodes
      /\ b.around[1].phases = <<1>> /\ b.around[1].completed = 0
      /\ n # 1 => b.around[2].weight = 1
  BY DEF Reaches
<1>2. DOMAIN node = Nodes /\ node.weight = b.around[n].weight
  <2>1. DOMAIN b.around[n] = Nodes
    BY <1>1
  <2> QED  BY <2>1 DEF Nodes
<1>3. Finish(b) = [around |-> around, node |-> node]
  BY DEF Finish, Front, Last
<1>4. /\ around \in Seq(Range(b.around)) /\ Len(around) = n - 1
      /\ \A i \in 1 .. n - 1 : around[i] = b.around[i]
  BY <1>1
<1> HIDE DEF node, around, n
<1>5. around \in Seq(Range(around))
  BY <1>4, JustAround
<1>6. /\ \A i \in 1 .. n - 1 : DOMAIN around[i] = Nodes
      /\ around[1] = b.around[1]
      /\ n - 1 = 1 => node.weight = 1
      /\ n - 1 # 1 => around[2].weight = 1
      /\ least + 1 <= n - 1 /\ 1 <= n - 1
  BY <1>1, <1>2, <1>4
<1> DEFINE c == [around |-> around, node |-> node]
<1>7. c.around = around /\ c.node = node /\ DOMAIN c = {"around", "node"}
  OBVIOUS
<1> HIDE DEF c
<1>8. Reaches(c, least + 1)
  BY <1>1, <1>2, <1>4, <1>5, <1>6, <1>7 DEF Reaches
<1> QED  BY <1>3, <1>8 DEF c

LEMMA NextReaches ==
  ASSUME NEW b, Reaches(b, 3)
  PROVE  Reaches(NextPhase(b), 3)
<1>1. Reaches(Finish(b), 2)
  <2>1. Reaches(b, 1 + 2)
    OBVIOUS
  <2>2. Reaches(Finish(b), 1 + 1)
    BY <2>1, FinishReaches
  <2> QED  BY <2>2
<1>2. Reaches(Begin(Finish(b)), 2 + 1)
  BY <1>1, BeginReaches
<1> QED  BY <1>2 DEF NextPhase

LEMMA UnwindReaches ==
  ASSUME NEW b, Reaches(b, 1)
  PROVE  Reaches(Unwind(b, OfLoad), 1)
<1> DEFINE n == Len(b.around)
           nodes == Append(b.around, b.node)
           node == [nodes[2] EXCEPT !.completed = @ + nodes[3].weight]
           around == SubSeq(nodes, 1, 1)
<1>1. /\ DOMAIN b.node = Nodes /\ b.around \in Seq(Range(b.around))
      /\ 1 <= n /\ n \in Nat
      /\ \A i \in 1 .. n : DOMAIN b.around[i] = Nodes
      /\ b.around[1].phases = <<1>> /\ b.around[1].completed = 0
      /\ n # 1 => b.around[2].weight = 1
  BY DEF Reaches
<1>2. /\ nodes \in Seq(Range(b.around) \cup {b.node}) /\ Len(nodes) = n + 1
      /\ \A i \in 1 .. n : nodes[i] = b.around[i]
  BY <1>1
<1>3. CASE n = 1
  <2>1. Unwind(b, OfLoad) = b
    BY <1>2, <1>3 DEF Unwind, OfLoad
  <2> QED  BY <2>1
<1>4. CASE n # 1
  <2>1. Unwind(b, OfLoad) = [around |-> around, node |-> node]
    <3>1. Len(nodes) # 2
      <4> HIDE DEF nodes, n
      <4> QED  BY <1>1, <1>2, <1>4
    <3>5. 2 - 1 = 1 /\ 2 + 1 = 3
      OBVIOUS
    <3>6. /\ around = SubSeq(nodes, 1, 2 - 1)
          /\ node = [nodes[2] EXCEPT !.completed = @ + nodes[2 + 1].weight]
      <4> HIDE DEF nodes
      <4> QED  BY <3>5, Zenon
    <3>2. OfLoad = 2
      BY DEF OfLoad
    <3> HIDE DEF node, around
    <3>3. Unwind(b, 2) = IF Len(nodes) = 2 THEN b
                         ELSE [around |-> SubSeq(nodes, 1, 2 - 1),
                               node |-> [nodes[2] EXCEPT
                                 !.completed = @ + nodes[2 + 1].weight]]
      BY DEF Unwind
    <3> HIDE DEF nodes
    <3> QED  BY <3>1, <3>2, <3>3, <3>6
  <2>2. nodes[2] = b.around[2] /\ nodes[1] = b.around[1]
        /\ DOMAIN b.around[2] = Nodes
        /\ DOMAIN b.around[1] = Nodes
    <3> HIDE DEF nodes, node, around, n
    <3>1. 2 \in 1 .. n /\ 1 \in 1 .. n
      BY <1>1, <1>4
    <3> QED  BY <1>1, <1>2, <3>1
  <2>3. DOMAIN node = Nodes /\ node.weight = 1
    <3> HIDE DEF nodes
    <3> QED  BY <1>1, <1>4, <2>2 DEF Nodes
  <2> HIDE DEF node, nodes
  <2>4. /\ around \in Seq(Range(b.around) \cup {b.node}) /\ Len(around) = 1
        /\ around[1] = b.around[1]
    <3> DEFINE S == Range(b.around) \cup {b.node}
    <3>1. nodes \in Seq(S) /\ 1 <= Len(nodes)
      BY <1>1, <1>2
    <3> HIDE DEF S, n
    <3>2. around \in Seq(S) /\ Len(around) = 1 /\ around[1] = nodes[1]
      BY <3>1
    <3> QED  BY <2>2, <3>2 DEF S
  <2> HIDE DEF around, n
  <2>5. around \in Seq(Range(around))
    BY <2>4, JustAround
  <2> DEFINE c == [around |-> around, node |-> node]
  <2>6. c.around = around /\ c.node = node /\ DOMAIN c = {"around", "node"}
    OBVIOUS
  <2>7. \A i \in 1 .. 1 : DOMAIN around[i] = Nodes
    BY <2>2, <2>4
  <2> HIDE DEF c
  <2>8. Reaches(c, 1)
    <3>1. /\ Len(c.around) = 1 /\ c.node.weight = 1
          /\ c.around[1].phases = <<1>> /\ c.around[1].completed = 0
          /\ DOMAIN c.node = Nodes /\ DOMAIN c.around[1] = Nodes
          /\ c.around \in Seq(Range(c.around))
      BY <1>1, <2>2, <2>3, <2>4, <2>5, <2>6
    <3> QED  BY <2>6, <3>1 DEF Reaches
  <2> QED  BY <2>1, <2>8 DEF c
<1> QED  BY <1>3, <1>4

(* What is left of a load when its last phase ends                         *)
LEMMA UnwindEnds ==
  ASSUME NEW b, Reaches(b, 1)
  PROVE  Through(Unwind(b, 1)) /\ DOMAIN Unwind(b, 1) = {"around", "node"}
<1> DEFINE n == Len(b.around)
           nodes == Append(b.around, b.node)
           node == [nodes[1] EXCEPT !.completed = @ + nodes[2].weight]
           around == SubSeq(nodes, 1, 0)
<1>1. /\ DOMAIN b.node = Nodes /\ b.around \in Seq(Range(b.around))
      /\ 1 <= n /\ n \in Nat
      /\ \A i \in 1 .. n : DOMAIN b.around[i] = Nodes
      /\ b.around[1].phases = <<1>> /\ b.around[1].completed = 0
      /\ n = 1 => b.node.weight = 1
      /\ n # 1 => b.around[2].weight = 1
  BY DEF Reaches
<1>2. /\ nodes \in Seq(Range(b.around) \cup {b.node}) /\ Len(nodes) = n + 1
      /\ \A i \in 1 .. n : nodes[i] = b.around[i]
      /\ nodes[n + 1] = b.node
  BY <1>1
<1>3. Unwind(b, 1) = [around |-> around, node |-> node]
  BY <1>1, <1>2 DEF Unwind
<1>4. /\ nodes[1] = b.around[1] /\ DOMAIN b.around[1] = Nodes
      /\ nodes[2].weight = 1
  <2> HIDE DEF nodes
  <2>1. CASE n = 1
    BY <1>1, <1>2, <2>1
  <2>2. CASE n # 1
    <3> HIDE DEF node, around, n
    <3>1. 2 \in 1 .. n /\ 1 \in 1 .. n
      BY <1>1, <2>2
    <3> QED  BY <1>1, <1>2, <2>2, <3>1
  <2> QED  BY <2>1, <2>2
<1>5. around = <<>>
  BY <1>2
<1>6. node.phases = <<1>> /\ node.completed = 1
  <2> HIDE DEF nodes
  <2> QED  BY <1>1, <1>4 DEF Nodes
<1> HIDE DEF node, around
<1> QED  BY <1>3, <1>5, <1>6 DEF Through

LEMMA ThroughIsComplete ==
  ASSUME NEW b, Through(b)
  PROVE  Complete(Value(b))
<1> DEFINE nodes == Append(b.around, b.node)
           outwards == [x \in Fractions \X DOMAIN nodes |->
                          LET child == x[1]
                              node == nodes[Len(nodes) + 1 - x[2]]
                          IN  IF node.phases = <<>>
                              THEN [num |-> IF node.total = 0 THEN 0
                                            ELSE node.done,
                                    den |-> IF node.total = 0 THEN 1
                                            ELSE node.total,
                                    weight |-> node.weight]
                              ELSE [num |-> node.completed * child.den
                                              + child.weight * child.num,
                                    den |-> child.den * WeightOf(node.phases),
                                    weight |-> node.weight]]
           start == [num |-> 0, den |-> 1, weight |-> 0]
           end == [num |-> 1, den |-> 1, weight |-> b.node.weight]
           I == [i \in 0 .. 1 |-> IF i = 0 THEN {start} ELSE {end}]
<1>1. /\ b.around = <<>> /\ b.node.phases = <<1>> /\ b.node.completed = 1
  BY DEF Through
<1>2. WeightOf(<<1>>) = 1
  <2> DEFINE add == [x \in Nat \X DOMAIN <<1>> |-> x[1] + <<1>>[x[2]]]
             J == [i \in 0 .. 1 |-> {i}]
  <2>1. DOMAIN <<1>> = 1 .. 1 /\ <<1>>[1] = 1 /\ Len(<<1>>) = 1
    OBVIOUS
  <2>2. 0 \in J[0]
    OBVIOUS
  <2>3. \A i \in 1 .. 1 : \A x \in J[i - 1] : add[<<x, i>>] \in J[i]
    BY <2>1
  <2>4. WeightOf(<<1>>) = Iterated(add, 0, 1)
    BY <2>1 DEF WeightOf
  <2>5. 1 \in 0 .. 1 /\ J[1] = {1} /\ 1 \in Nat
    OBVIOUS
  <2> HIDE DEF add, J
  <2>6. \A i \in 0 .. 1 : Iterated(add, 0, i) \in J[i]
    BY <2>2, <2>3, <2>5, IteratedSteps
  <2> QED  BY <2>4, <2>5, <2>6
<1>3. Len(nodes) = 1 /\ nodes[1] = b.node /\ DOMAIN nodes = 1 .. 1
  BY <1>1
<1>4. Value(b) = Iterated(outwards, start, 1)
  BY <1>3 DEF Value
<1>5. start \in I[0] /\ 1 \in 0 .. 1 /\ I[1] = {end} /\ I[0] = {start}
  OBVIOUS
<1>6. outwards[<<start, 1>>] = end
  <2> HIDE DEF nodes
  <2>1. start \in Fractions /\ 1 \in DOMAIN nodes
    BY <1>3 DEF Fractions
  <2>2. nodes[Len(nodes) + 1 - 1] = b.node
    BY <1>3
  <2>3. b.node.phases # <<>>
    BY <1>1
  <2>4. start.num = 0 /\ start.den = 1 /\ start.weight = 0
    OBVIOUS
  <2> HIDE DEF start
  <2>5. <<start, 1>> \in Fractions \X DOMAIN nodes
    BY <2>1
  <2>6. outwards[<<start, 1>>]
          = [num |-> b.node.completed * start.den + start.weight * start.num,
             den |-> start.den * WeightOf(b.node.phases),
             weight |-> b.node.weight]
    BY <2>2, <2>3, <2>5
  <2> HIDE DEF outwards
  <2>7. /\ b.node.completed * start.den + start.weight * start.num = 1
        /\ start.den * WeightOf(b.node.phases) = 1
    BY <1>1, <1>2, <2>4
  <2> QED  BY <2>6, <2>7
<1> HIDE DEF outwards, nodes, start
<1>7. \A i \in 1 .. 1 : \A x \in I[i - 1] : outwards[<<x, i>>] \in I[i]
  <2> SUFFICES ASSUME NEW i \in 1 .. 1, NEW x \in I[i - 1]
               PROVE  outwards[<<x, i>>] \in I[i]
    BY Zenon
  <2>1. i = 1 /\ i - 1 = 0
    OBVIOUS
  <2> HIDE DEF I, end
  <2>2. x = start
    BY <1>5, <2>1
  <2> QED  BY <1>5, <1>6, <2>1, <2>2
<1> HIDE DEF I
<1>8. \A i \in 0 .. 1 : Iterated(outwards, start, i) \in I[i]
  BY <1>5, <1>7, IteratedSteps
<1>9. Value(b) = end
  BY <1>4, <1>5, <1>8
<1> QED  BY <1>9 DEF Complete

(* What a step does to the branch                                          *)
LEMMA ReachesLess ==
  ASSUME NEW b, Reaches(b, 3)
  PROVE  Reaches(b, 1) /\ Reaches(b, 2)
<1>1. Len(b.around) \in Nat
  BY DEF Reaches
<1> QED  BY <1>1 DEF Reaches

(* The first steps of load_sources(), up to the prototypes                 *)
LEMMA ReportsOfLoading ==
  ASSUME ProgressInv, UNCHANGED <<results, result, waiting>>, WorkerFields,
         \/ Begins \/ Discovers \/ Enables \/ Mounts \/ Sorts \/ Settings
         \/ Locale \/ Scripts \/ Prototypes
  PROVE  ProgressInv'
<1> DEFINE Early == {"discover", "enable", "mount", "sort", "settings",
                     "locale", "scripts", "prototypes", "atlas"}
<1>1. ASSUME Reaches(progress', 3), worker'.at \in Early \cup {"rollback"}
      PROVE  ProgressInv'
  <2>1. Reaches(progress', 1) /\ DOMAIN progress' = {"around", "node"}
    BY <1>1, ReachesLess DEF Reaches
  <2> QED  BY <1>1, <2>1 DEF ProgressInv, Settled, At
<1>2. CASE Begins
  <2>1. Reaches(progress, 1) /\ worker'.at = "discover"
    BY <1>2 DEF Begins, ProgressInv, At, Goes, WorkerFields
  <2> DEFINE a == Add(progress, <<99, 1>>)
             b == Add(Begin(a), <<1, 1, 1, 2, 95>>)
  <2>2. progress' = AddTotal(Begin(b), 3)
    BY <1>2 DEF Begins
  <2>3. Reaches(a, 1)
    BY <2>1, ReportsReach
  <2> HIDE DEF a
  <2>4. Reaches(Begin(a), 1 + 1)
    BY <2>3, BeginReaches
  <2>5. Reaches(b, 2)
    BY <2>4, ReportsReach
  <2> HIDE DEF b
  <2>6. Reaches(Begin(b), 2 + 1)
    BY <2>5, BeginReaches
  <2>7. Reaches(progress', 3)
    BY <2>2, <2>6, ReportsReach
  <2> QED  BY <1>1, <2>1, <2>7
<1>3. CASE ~ Begins
  <2>1. worker.at \in Early \ {"atlas"}
    BY <1>3 DEF Discovers, Enables, Mounts, Sorts, Settings, Locale, Scripts,
                Prototypes, At
  <2>2. Reaches(progress, 3)
    BY <2>1 DEF ProgressInv
  <2>3. worker'.at \in Early \cup {"rollback"}
    BY <1>3, <2>1
       DEF Discovers, Enables, Mounts, Sorts, Settings, Locale, Scripts,
           Prototypes, StopsIfCancelled, Fails, Goes, WorkerFields
  <2>4. \/ progress' = progress
        \/ progress' = Advance(progress, 1)
        \/ progress' = Advance(AddTotal(NextPhase(Advance(progress, 1)), 2), 1)
        \/ \E amount :
             progress' = AddTotal(NextPhase(Advance(progress, 1)), amount)
        \/ progress' = Begin(Add(NextPhase(Advance(progress, 1)), <<1>>))
    BY <1>3
       DEF Discovers, Enables, Mounts, Sorts, Settings, Locale, Scripts,
           Prototypes, StopsIfCancelled, Fails
  <2>5. Reaches(NextPhase(Advance(progress, 1)), 3)
    BY <2>2, ReportsReach, NextReaches
  <2> DEFINE next == NextPhase(Advance(progress, 1))
  <2> HIDE DEF next
  <2>6. Reaches(next, 3)
    BY <2>5 DEF next
  <2>7. Reaches(AddTotal(next, 2), 3)
    BY <2>6, ReportsReach
  <2>8. Reaches(Add(next, <<1>>), 3)
    BY <2>6, ReportsReach
  <2>9. Reaches(Begin(Add(next, <<1>>)), 3)
    <3>1. Reaches(Begin(Add(next, <<1>>)), 3 + 1)
      BY <2>8, BeginReaches
    <3>2. Len(Begin(Add(next, <<1>>)).around) \in Nat
      BY <3>1 DEF Reaches
    <3> QED  BY <3>1, <3>2 DEF Reaches
  <2>10. Reaches(progress', 3)
    <3>1. CASE progress' = progress
      BY <2>2, <3>1
    <3>2. CASE progress' = Advance(progress, 1)
      BY <2>2, <3>2, ReportsReach
    <3>3. CASE progress' = Advance(AddTotal(next, 2), 1)
      BY <2>7, <3>3, ReportsReach
    <3>4. CASE \E amount : progress' = AddTotal(next, amount)
      BY <2>6, <3>4, ReportsReach
    <3>5. CASE progress' = Begin(Add(next, <<1>>))
      BY <2>9, <3>5
    <3> QED  BY <2>4, <3>1, <3>2, <3>3, <3>4, <3>5, Zenon DEF next
  <2> QED  BY <1>1, <2>3, <2>10
<1> QED  BY <1>2, <1>3

LEMMA ReportsOfAtlas ==
  ASSUME ProgressInv, UNCHANGED <<results, result, waiting>>, WorkerFields,
         BuilderCalled,
         \/ BeginsAtlas \/ PoolTakes \/ PoolEnds \/ Uploads \/ EndsAtlas
         \/ AtlasThrows \/ AtlasAbandoned
  PROVE  ProgressInv'
<1>1. CASE UNCHANGED <<progress, worker>>
  BY <1>1 DEF ProgressInv, Settled, At
<1>2. CASE BeginsAtlas \/ Uploads \/ EndsAtlas \/ AtlasAbandoned
  <2>1. At("atlas")
    BY <1>2 DEF BeginsAtlas, Uploads, EndsAtlas, AtlasAbandoned, BuilderCalled
  <2>2. Reaches(progress, 3) /\ Reaches(progress, 1)
    BY <2>1, ReachesLess DEF ProgressInv, At
  <2>3. ASSUME Reaches(progress', 3), worker' = worker
        PROVE  ProgressInv'
    <3>1. DOMAIN progress' = {"around", "node"}
      BY <2>3 DEF Reaches
    <3> QED  BY <2>1, <2>3, <3>1 DEF ProgressInv, Settled, At
  <2>4. ASSUME Reaches(progress', 1), worker'.at \in {"release", "rollback"}
        PROVE  ProgressInv'
    <3>1. DOMAIN progress' = {"around", "node"}
      BY <2>4 DEF Reaches
    <3> QED  BY <2>4, <3>1 DEF ProgressInv, Settled, At
  <2>5. CASE BeginsAtlas
    <3>1. CASE Goes("release") /\ progress' = progress
      BY <2>2, <2>4, <3>1 DEF Goes, WorkerFields
    <3>2. CASE /\ \E frames : progress' = Reported(progress, frames)
               /\ worker' = worker
      <4>1. PICK frames : progress' = Reported(progress, frames)
        BY <3>2
      <4> DEFINE a == Add(progress, <<1, 1, 1, 1>>)
                 b == NextPhase(NextPhase(Begin(a)))
      <4>2. progress' = AddTotal(b, Len(frames))
        BY <4>1 DEF Reported
      <4>3. Reaches(a, 3)
        BY <2>2, ReportsReach
      <4> HIDE DEF a
      <4>4. Reaches(Begin(a), 3)
        <5>1. Reaches(Begin(a), 3 + 1)
          BY <4>3, BeginReaches
        <5>2. Len(Begin(a).around) \in Nat
          BY <5>1 DEF Reaches
        <5> QED  BY <5>1, <5>2 DEF Reaches
      <4>5. Reaches(b, 3)
        BY <4>4, NextReaches
      <4> HIDE DEF b
      <4>6. Reaches(progress', 3)
        BY <4>2, <4>5, ReportsReach
      <4> QED  BY <2>3, <3>2, <4>6
    <3> QED  BY <2>5, <3>1, <3>2 DEF BeginsAtlas
  <2>6. CASE Uploads
    <3>1. Reaches(progress', 3)
      BY <2>2, <2>6, ReportsReach DEF Uploads
    <3> QED  BY <2>3, <2>6, <3>1 DEF Uploads
  <2>7. CASE EndsAtlas
    <3> DEFINE a == Advance(AddTotal(NextPhase(progress), 1), 1)
    <3>1. progress' = Finish(a)
      BY <2>7 DEF EndsAtlas
    <3>2. Reaches(NextPhase(progress), 3)
      BY <2>2, NextReaches
    <3>3. Reaches(AddTotal(NextPhase(progress), 1), 3)
      BY <3>2, ReportsReach
    <3>4. Reaches(a, 3)
      BY <3>3, ReportsReach
    <3> HIDE DEF a
    <3>5. Reaches(Finish(a), 1)
      <4>1. Reaches(a, 0 + 2)
        BY <3>4, ReachesLess
      <4>2. Reaches(Finish(a), 0 + 1)
        BY <4>1, FinishReaches
      <4> QED  BY <4>2
    <3> QED  BY <2>4, <2>7, <3>1, <3>5 DEF EndsAtlas, Goes, WorkerFields
  <2>8. CASE AtlasAbandoned
    BY <2>2, <2>4, <2>8 DEF AtlasAbandoned, WorkerFields
  <2> QED  BY <1>2, <2>5, <2>6, <2>7, <2>8
<1> QED  BY <1>1, <1>2 DEF PoolTakes, PoolEnds, AtlasThrows

LEMMA ReportsOfSettling ==
  ASSUME ProgressInv, UNCHANGED <<result, waiting>>, WorkerFields,
         \/ Releases \/ RollsBack \/ Installs \/ Settles \/ Completes
         \/ Delivers
  PROVE  ProgressInv'
<1>1. ASSUME Reaches(progress', 1),
             worker'.at \in {"release", "install", "rollback", "settle",
                             "complete"}
      PROVE  ProgressInv'
  <2>1. DOMAIN progress' = {"around", "node"}
    BY <1>1 DEF Reaches
  <2> QED  BY <1>1, <2>1 DEF ProgressInv, Settled, At
<1>2. CASE Delivers
  <2>1. Settled /\ progress' = progress /\ worker'.at = "idle"
    BY <1>2 DEF Delivers, Settled, WorkerFields
  <2> QED  BY <2>1 DEF ProgressInv, Settled, At
<1>3. CASE Completes
  <2>1. Reaches(progress, 1) /\ progress' = Unwind(progress, 1)
        /\ worker'.at = "deliver"
    BY <1>3 DEF Completes, At, ProgressInv, Goes, WorkerFields
  <2>2. Through(progress') /\ DOMAIN progress' = {"around", "node"}
    BY <2>1, UnwindEnds
  <2> QED  BY <2>1, <2>2 DEF ProgressInv, Settled, At
<1>4. CASE Releases \/ RollsBack \/ Installs \/ Settles
  <2>1. Reaches(progress, 1)
    BY <1>4 DEF Releases, RollsBack, Installs, Settles, At, ProgressInv
  <2>2. Reaches(Unwind(progress, OfLoad), 1)
    BY <2>1, UnwindReaches
  <2>3. Reaches(Begin(Unwind(progress, OfLoad)), 1)
    <3> DEFINE a == Unwind(progress, OfLoad)
    <3>1. Reaches(a, 1)
      BY <2>2
    <3> HIDE DEF a
    <3>2. Reaches(Begin(a), 1 + 1)
      BY <3>1, BeginReaches
    <3>3. Reaches(Begin(a), 1)
      BY <3>2 DEF Reaches
    <3> QED  BY <3>3 DEF a
  <2>4. progress' \in {progress, Unwind(progress, OfLoad),
                       Begin(Unwind(progress, OfLoad))}
    BY <1>4 DEF Releases, RollsBack, Installs, Settles, StopsIfCancelled, Fails
  <2>5. worker'.at \in {"release", "install", "rollback", "settle",
                        "complete"}
    BY <1>4 DEF Releases, RollsBack, Installs, Settles, StopsIfCancelled,
                Fails, Goes, WorkerFields, At
  <2> QED  BY <1>1, <2>1, <2>2, <2>3, <2>4, <2>5
<1> QED  BY <1>2, <1>3, <1>4

LEMMA ReportsOfProgram ==
  ASSUME ProgressInv, WorkerFields, OnePromise,
         \/ CallLoad \/ CallUnload \/ Load \/ Unload \/ Cancel \/ Result
         \/ SetModEnabled \/ UNCHANGED vars
  PROVE  ProgressInv'
<1>1. CASE Load
  <2> DEFINE a == Add(Root, <<1>>)
             last == [a.node EXCEPT !.next = @ + 1]
  <2>1. progress' = Begin(a) /\ worker'.at = "begin"
    BY <1>1 DEF Load, Idle
  <2>2. /\ a.around = <<>> /\ a.node.phases = <<1>> /\ a.node.completed = 0
        /\ a.node.next = 1 /\ DOMAIN a.node = Nodes
    BY DEF Add, Root, Node, Nodes
  <2> HIDE DEF a
  <2>3. Begin(a) = [around |-> Append(<<>>, last), node |-> Node(1)]
    BY <2>2 DEF Begin
  <2>4. /\ last.phases = <<1>> /\ last.completed = 0 /\ DOMAIN last = Nodes
    BY <2>2 DEF Nodes
  <2> HIDE DEF last
  <2>5. /\ Append(<<>>, last) \in Seq({last}) /\ Len(Append(<<>>, last)) = 1
        /\ Append(<<>>, last)[1] = last
    OBVIOUS
  <2>6. Append(<<>>, last) \in Seq(Range(Append(<<>>, last)))
    BY <2>5, JustAround
  <2>7. DOMAIN Node(1) = Nodes /\ Node(1).weight = 1
    BY DEF Node, Nodes
  <2>8. /\ DOMAIN progress' = {"around", "node"}
        /\ progress'.around = Append(<<>>, last) /\ progress'.node = Node(1)
    BY <2>1, <2>3
  <2>9. /\ Len(progress'.around) = 1 /\ progress'.node.weight = 1
        /\ progress'.around[1].phases = <<1>>
        /\ progress'.around[1].completed = 0
        /\ DOMAIN progress'.node = Nodes /\ DOMAIN progress'.around[1] = Nodes
        /\ progress'.around \in Seq(Range(progress'.around))
    BY <2>4, <2>5, <2>6, <2>7, <2>8
  <2>10. Reaches(progress', 1)
    BY <2>8, <2>9 DEF Reaches
  <2> QED  BY <2>1, <2>8, <2>10 DEF ProgressInv, Settled, At
<1>2. CASE ~ Load
  <2>1. progress' = progress /\ results' = results /\ worker'.at = worker.at
    BY <1>2 DEF CallLoad, CallUnload, Unload, Cancel, Result, SetModEnabled,
                vars, program, RequestsStop, WorkerFields
  <2> QED  BY <2>1 DEF ProgressInv, Settled, At
<1> QED  BY <1>1, <1>2

LEMMA ReportsHold ==
  /\ Init => ProgressInv
  /\ MInv /\ ProgressInv /\ [Next]_vars => ProgressInv'
<1>1. Init => ProgressInv
  BY DEF Init, ProgressInv, Settled, At, Idle, Root
<1>2. ASSUME MInv, ProgressInv, [Next]_vars PROVE ProgressInv'
  <2>1. WorkerFields /\ OnePromise /\ BuilderCalled
    BY <1>2 DEF MInv
  <2> QED
    BY <1>2, <2>1, ReportsOfLoading, ReportsOfAtlas, ReportsOfSettling,
       ReportsOfProgram DEF Next, WorkerStep, PoolStep
<1> QED  BY <1>1, <1>2

-----------------------------------------------------------------------------
(* What the mods of a list are called, and the frames they bring           *)
Names(mods) == Range([i \in DOMAIN mods |-> mods[i].name])

SourcesOf(mods) ==
  LET Images == UNION {Range(Frames[texture]) : texture \in DOMAIN Frames}
      join == [x \in Seq(Images) \X DOMAIN mods |->
                 x[1] \o Frames[mods[x[2]].name]]
  IN  Iterated(join, <<>>, Len(mods))

Flagged(names, flags) == {n \in names : flags[n]}

(* What is in place when the thread has come so far without a failure.     *)
Mounted ==
  /\ databases.mounted = Names(worker.catalog)
  /\ Names(worker.mods) = Flagged(databases.mounted, enabled)

Localized == Mounted /\ databases.locale = Names(worker.mods)

Listed == Localized /\ databases.mods = worker.mods

Created == Listed /\ databases.prototypes = Names(worker.mods)

Pictured == Created /\ databases.atlas = Inspected(SourcesOf(worker.mods))

(* Wherever the thread is, it has done what comes before.                  *)
PlaceInv ==
  /\ At("discover") => databases = Empty
  /\ worker.at \in {"discover", "enable", "mount", "sort", "settings", "locale",
                    "scripts", "prototypes"} => build = NoBuild
  /\ At("enable") => databases = Empty /\ worker.mods = worker.catalog
  /\ At("mount") =>
       /\ worker.mods = worker.catalog /\ worker.left \in Seq(Mods)
       /\ databases.mounted \cup Names(worker.left) = Names(worker.catalog)
  /\ worker.at \in {"mount", "sort", "settings", "locale", "scripts",
                    "prototypes", "atlas"} => databases.atlas = <<>>
  /\ worker.at \in {"sort", "settings", "locale"} => Mounted
  /\ At("scripts") => Localized
  /\ At("prototypes") => Listed
  /\ At("atlas") => Created
  /\ At("atlas") /\ build # NoBuild =>
       build.frames = Inspected(SourcesOf(worker.mods))
  /\ worker.at \in {"release", "install"} => Pictured
  /\ worker.at \in {"settle", "complete", "deliver"} =>
       worker.status # "ok" \/ Pictured
  /\ At("rollback") => worker.status # "ok"
  /\ worker.at \in {"begin", "discover", "enable", "mount", "sort", "settings",
                    "locale", "scripts", "prototypes", "atlas", "release",
                    "install"} => worker.status = "ok"
  /\ At("idle") /\ results # <<>> =>
       Nothing \/ (/\ databases.mounted = Names(worker.catalog)
                   /\ databases.locale = Names(databases.mods)
                   /\ databases.prototypes = Names(databases.mods)
                   /\ databases.atlas = Inspected(SourcesOf(worker.mods)))

LEMMA NameOf ==
  \A mods, n : n \in Names(mods) <=> \E i \in DOMAIN mods : mods[i].name = n
BY DEF Names, Range

LEMMA NoNames == Names(<<>>) = {}
<1>1. DOMAIN <<>> = {}
  OBVIOUS
<1> QED  BY <1>1, NameOf

LEMMA NamesLeft ==
  ASSUME NEW mods \in Seq(Mods), mods # <<>>
  PROVE  /\ Tail(mods) \in Seq(Mods)
         /\ Names(mods) = {Head(mods).name} \cup Names(Tail(mods))
<1> DEFINE t == Tail(mods)
           n == Len(mods)
<1>1. /\ t \in Seq(Mods) /\ n \in Nat \ {0} /\ DOMAIN mods = 1 .. n
      /\ DOMAIN t = 1 .. n - 1 /\ Head(mods) = mods[1]
      /\ \A i \in 1 .. n - 1 : t[i] = mods[i + 1]
  OBVIOUS
<1> HIDE DEF t, n
<1>2. ASSUME NEW i \in 1 .. n, i # 1
      PROVE  i - 1 \in 1 .. n - 1 /\ t[i - 1] = mods[i]
  <2>1. i - 1 \in 1 .. n - 1 /\ (i - 1) + 1 = i
    BY <1>1, <1>2
  <2> QED  BY <1>1, <2>1
<1>3. \A i \in 1 .. n - 1 : i + 1 \in 1 .. n
  BY <1>1
<1>4. 1 \in 1 .. n
  BY <1>1
<1>5. ASSUME NEW a
      PROVE  a \in Names(mods) <=> a = Head(mods).name \/ a \in Names(t)
  <2>1. ASSUME a \in Names(mods), a # Head(mods).name PROVE a \in Names(t)
    <3>1. PICK i \in 1 .. n : mods[i].name = a
      BY <1>1, <2>1, NameOf
    <3>2. i - 1 \in DOMAIN t /\ t[i - 1].name = a
      BY <1>1, <1>2, <2>1, <3>1
    <3> QED  BY <3>2, NameOf
  <2>2. ASSUME a \in Names(t) PROVE a \in Names(mods)
    <3>1. PICK i \in 1 .. n - 1 : t[i].name = a
      BY <1>1, <2>2, NameOf
    <3>2. i + 1 \in DOMAIN mods /\ mods[i + 1].name = a
      BY <1>1, <1>3, <3>1
    <3> QED  BY <3>2, NameOf
  <2>3. Head(mods).name \in Names(mods)
    BY <1>1, <1>4, NameOf
  <2> QED  BY <2>1, <2>2, <2>3
<1> QED  BY <1>1, <1>5 DEF t

LEMMA NamesEnabled ==
  ASSUME NEW mods \in Seq(Mods)
  PROVE  Names(Enabled(mods)) = {n \in Names(mods) : enabled[n]}
<1> DEFINE places == {i \in DOMAIN mods : enabled[mods[i].name]}
           r == Selected(mods, places)
<1>1. PICK p \in Seq(DOMAIN mods) : /\ TakenAt(mods, r, p)
                                    /\ Range(p) = places \cap DOMAIN mods
  BY SelectedPlaces
<1>2. r \in Seq(Range(mods))
  BY SelectedPlaces
<1> HIDE DEF r
<1>3. /\ DOMAIN r = DOMAIN p
      /\ \A a \in DOMAIN p : p[a] \in DOMAIN mods /\ r[a] = mods[p[a]]
  BY <1>1, <1>2 DEF TakenAt
<1>4. \A i \in places : \E a \in DOMAIN p : p[a] = i
  BY <1>1 DEF Range
<1>5. \A a \in DOMAIN p : p[a] \in places
  BY <1>1 DEF Range
<1>6. ASSUME NEW n
      PROVE  n \in Names(r) <=> n \in Names(mods) /\ enabled[n]
  <2>1. ASSUME n \in Names(r) PROVE n \in Names(mods) /\ enabled[n]
    <3>1. PICK a \in DOMAIN p : r[a].name = n
      BY <1>3, <2>1, NameOf
    <3>2. p[a] \in places /\ mods[p[a]].name = n
      BY <1>3, <1>5, <3>1
    <3> QED  BY <3>2, NameOf
  <2>2. ASSUME n \in Names(mods), enabled[n] PROVE n \in Names(r)
    <3>1. PICK i \in DOMAIN mods : mods[i].name = n
      BY <2>2, NameOf
    <3>2. i \in places
      BY <2>2, <3>1
    <3>3. PICK a \in DOMAIN p : p[a] = i
      BY <1>4, <3>2
    <3> QED  BY <1>3, <3>1, <3>3, NameOf
  <2> QED  BY <2>1, <2>2
<1>7. Enabled(mods) = r
  BY DEF Enabled, r
<1> QED  BY <1>6, <1>7

LEMMA NamesSorted ==
  ASSUME NEW mods \in Seq(Mods), Sortable(mods)
  PROVE  Names(Sorted(mods)) = Names(mods)
<1> DEFINE r == Sorted(mods)
<1>1. PICK p \in Seq(DOMAIN mods) :
        /\ Range(p) = DOMAIN mods
        /\ DOMAIN r = DOMAIN p
        /\ \A i \in DOMAIN p : r[i] = mods[p[i]]
  BY SortedPlaces DEF Sortable
<1>2. \A i \in DOMAIN p : p[i] \in DOMAIN mods
  OBVIOUS
<1>3. \A i \in DOMAIN mods : \E a \in DOMAIN p : p[a] = i
  BY <1>1 DEF Range
<1> HIDE DEF r
<1>4. ASSUME NEW n PROVE n \in Names(r) <=> n \in Names(mods)
  <2>1. ASSUME n \in Names(r) PROVE n \in Names(mods)
    <3>1. PICK a \in DOMAIN p : r[a].name = n
      BY <1>1, <2>1, NameOf
    <3> QED  BY <1>1, <1>2, <3>1, NameOf
  <2>2. ASSUME n \in Names(mods) PROVE n \in Names(r)
    <3>1. PICK i \in DOMAIN mods : mods[i].name = n
      BY <2>2, NameOf
    <3>2. PICK a \in DOMAIN p : p[a] = i
      BY <1>3
    <3> QED  BY <1>1, <3>1, <3>2, NameOf
  <2> QED  BY <2>1, <2>2
<1> QED  BY <1>4 DEF r

LEMMA InspectedNone == Inspected(<<>>) = <<>>
<1> DEFINE none == {i \in DOMAIN <<>> : Valid(<<>>[i])}
           valid == Selected(<<>>, none)
<1>1. <<>> \in Seq({}) /\ Range(<<>>) = {}
  BY DEF Range
<1>2. valid \in Seq({})
  BY <1>1, SelectedPlaces
<1> HIDE DEF valid
<1>3. valid = <<>> /\ DOMAIN valid = {}
  BY <1>2
<1>4. Inspected(<<>>) = [i \in DOMAIN valid |-> FrameOf(valid[i])]
  BY DEF Inspected, valid
<1>5. [i \in DOMAIN valid |-> FrameOf(valid[i])] = <<>>
  BY <1>3
<1> QED  BY <1>4, <1>5

LEMMA PlacesOfFailures ==
  ASSUME \/ worker'.at = "rollback" /\ worker'.status # "ok"
         \/ /\ worker'.at \in {"settle", "complete", "deliver"}
            /\ worker'.status # "ok"
  PROVE  PlaceInv'
BY DEF PlaceInv, At

LEMMA PlacesOfMounting ==
  ASSUME PlaceInv, ListInv, UNCHANGED <<results, result, waiting>>,
         Begins \/ Discovers \/ Enables \/ Mounts \/ Sorts
  PROVE  PlaceInv'
<1>1. /\ WorkerFields /\ DatabaseFields /\ worker.mods \in Seq(Mods)
      /\ worker.catalog \in Seq(Mods)
  BY DEF ListInv, IsList
<1>2. CASE Begins
  <2>1. /\ worker'.at = "discover" /\ databases' = Empty /\ build' = NoBuild
        /\ worker'.status = "ok"
    BY <1>1, <1>2 DEF Begins, Goes, At, WorkerFields, PlaceInv
  <2> QED  BY <2>1 DEF PlaceInv, At
<1>3. ASSUME NEW status, Fails(status), status # "ok"
      PROVE  PlaceInv'
  <2>1. worker'.at = "rollback" /\ worker'.status # "ok"
    BY <1>1, <1>3 DEF Fails, WorkerFields
  <2> QED  BY <2>1, PlacesOfFailures
<1>4. StopsIfCancelled \/ Fails("error") => PlaceInv'
  BY <1>3 DEF StopsIfCancelled
<1>5. CASE Discovers /\ ~ StopsIfCancelled /\ ~ Fails("error")
  <2>1. /\ worker' = [worker EXCEPT !.at = "enable", !.mods = worker.catalog]
        /\ At("discover") /\ databases' = databases /\ build' = build
    BY <1>5 DEF Discovers
  <2>2. /\ worker'.at = "enable" /\ worker'.mods = worker'.catalog
        /\ worker'.status = worker.status
    BY <1>1, <2>1 DEF WorkerFields
  <2> QED  BY <2>1, <2>2 DEF PlaceInv, At
<1>6. CASE Enables /\ ~ StopsIfCancelled /\ ~ Fails("error")
  <2>1. CASE worker' = [worker EXCEPT !.at = "mount", !.left = worker.mods]
    <3>1. /\ At("enable") /\ databases' = databases /\ build' = build
      BY <1>6 DEF Enables
    <3>2. /\ worker'.at = "mount" /\ worker'.left = worker.mods
          /\ worker'.mods = worker.mods /\ worker'.catalog = worker.catalog
          /\ worker'.status = worker.status
      BY <1>1, <2>1 DEF WorkerFields
    <3>3. databases = Empty /\ worker.mods = worker.catalog /\ build = NoBuild
          /\ worker.status = "ok"
      BY <3>1 DEF PlaceInv, At
    <3>4. databases'.mounted = {} /\ databases'.atlas = <<>>
      BY <3>1, <3>3 DEF Empty
    <3>5. databases'.mounted \cup Names(worker'.left) = Names(worker'.catalog)
      BY <3>2, <3>3, <3>4
    <3> QED  BY <1>1, <3>1, <3>2, <3>3, <3>4, <3>5 DEF PlaceInv, At
  <2>2. CASE worker' = [worker EXCEPT !.at = "rollback", !.status = "error"]
    <3>1. worker'.at = "rollback" /\ worker'.status = "error"
      BY <1>1, <2>2 DEF WorkerFields
    <3> QED  BY <3>1, PlacesOfFailures
  <2> QED  BY <1>6, <2>1, <2>2 DEF Enables
<1>7. CASE Mounts /\ ~ Fails("error")
  <2>1. /\ At("mount") /\ build' = build /\ enabled' = enabled
        /\ worker.mods = worker.catalog /\ worker.left \in Seq(Mods)
        /\ databases.mounted \cup Names(worker.left) = Names(worker.catalog)
        /\ databases.atlas = <<>> /\ worker.status = "ok" /\ build = NoBuild
    BY <1>7 DEF Mounts, PlaceInv, At
  <2>2. CASE worker.left # <<>>
    <3> DEFINE name == Head(worker.left).name
    <3>1. /\ databases' = [databases EXCEPT !.mounted = @ \cup {name}]
          /\ worker' = [worker EXCEPT !.left = Tail(@)]
      BY <1>7, <2>2 DEF Mounts
    <3>2. /\ databases'.mounted = databases.mounted \cup {name}
          /\ databases'.atlas = <<>>
      BY <1>1, <2>1, <3>1 DEF DatabaseFields
    <3>3. /\ worker'.at = "mount" /\ worker'.left = Tail(worker.left)
          /\ worker'.mods = worker.mods /\ worker'.catalog = worker.catalog
          /\ worker'.status = worker.status
      BY <1>1, <2>1, <3>1 DEF WorkerFields, At
    <3>4. /\ Tail(worker.left) \in Seq(Mods)
          /\ Names(worker.left) = {name} \cup Names(Tail(worker.left))
      BY <2>1, <2>2, NamesLeft
    <3>5. databases'.mounted \cup Names(worker'.left) = Names(worker'.catalog)
      BY <2>1, <3>2, <3>3, <3>4
    <3> QED  BY <2>1, <3>2, <3>3, <3>4, <3>5 DEF PlaceInv, At
  <2>3. CASE worker.left = <<>>
    <3>1. /\ databases' = databases
          /\ worker' = [worker EXCEPT !.at = "sort",
                                      !.mods = Enabled(worker.mods)]
      BY <1>7, <2>3 DEF Mounts
    <3>2. /\ worker'.at = "sort" /\ worker'.mods = Enabled(worker.mods)
          /\ worker'.catalog = worker.catalog /\ worker'.status = "ok"
      BY <1>1, <2>1, <3>1 DEF WorkerFields
    <3>3. databases'.mounted = Names(worker'.catalog)
      BY <2>1, <2>3, <3>1, <3>2, NoNames
    <3>4. Names(worker'.mods) = Flagged(databases'.mounted, enabled')
      BY <1>1, <2>1, <3>2, <3>3, NamesEnabled DEF Flagged
    <3> QED  BY <2>1, <3>1, <3>2, <3>3, <3>4 DEF PlaceInv, Mounted, At
  <2> QED  BY <2>2, <2>3
<1>8. CASE Sorts /\ ~ StopsIfCancelled /\ ~ Fails("error")
  <2>1. /\ At("sort") /\ Sortable(worker.mods) /\ databases' = databases
        /\ worker' = [worker EXCEPT !.at = "settings",
                                    !.mods = Sorted(worker.mods)]
        /\ build' = build /\ enabled' = enabled
    BY <1>8 DEF Sorts
  <2>2. /\ worker'.at = "settings" /\ worker'.mods = Sorted(worker.mods)
        /\ worker'.catalog = worker.catalog /\ worker'.status = worker.status
    BY <1>1, <2>1 DEF WorkerFields
  <2>3. Names(worker'.mods) = Names(worker.mods)
    BY <1>1, <2>1, <2>2, NamesSorted
  <2> QED  BY <2>1, <2>2, <2>3 DEF PlaceInv, Mounted, At
<1> QED  BY <1>2, <1>4, <1>5, <1>6, <1>7, <1>8 DEF Mounts

LEMMA PlacesOfLoading ==
  ASSUME PlaceInv, ListInv, UNCHANGED <<results, result, waiting>>,
         Settings \/ Locale \/ Scripts \/ Prototypes
  PROVE  PlaceInv'
<1>1. WorkerFields /\ DatabaseFields
  BY DEF ListInv
<1>2. ASSUME NEW status, status # "ok",
             worker' = [worker EXCEPT !.at = "rollback", !.status = status]
      PROVE  PlaceInv'
  <2>1. worker'.at = "rollback" /\ worker'.status # "ok"
    BY <1>1, <1>2 DEF WorkerFields
  <2> QED  BY <2>1, PlacesOfFailures
<1>3. StopsIfCancelled \/ Fails("error") => PlaceInv'
  BY <1>2 DEF StopsIfCancelled, Fails
<1>4. CASE Settings /\ ~ StopsIfCancelled /\ ~ Fails("error")
  <2>1. /\ At("settings") /\ Goes("locale") /\ databases' = databases
        /\ build' = build /\ enabled' = enabled
    BY <1>4 DEF Settings
  <2>2. /\ worker'.at = "locale" /\ worker'.mods = worker.mods
        /\ worker'.catalog = worker.catalog /\ worker'.status = worker.status
    BY <1>1, <2>1 DEF Goes, WorkerFields
  <2> QED  BY <2>1, <2>2 DEF PlaceInv, Mounted, At
<1>5. CASE Locale /\ ~ StopsIfCancelled
  <2>1. CASE worker' = [worker EXCEPT !.at = "rollback", !.status = "error"]
    BY <1>2, <2>1
  <2>2. CASE /\ databases' = [databases EXCEPT !.locale = Names(worker.mods)]
             /\ worker' = [worker EXCEPT !.at = "scripts", !.left = worker.mods]
             /\ At("locale") /\ build' = build /\ enabled' = enabled
    <3>1. /\ worker'.at = "scripts" /\ worker'.mods = worker.mods
          /\ worker'.catalog = worker.catalog /\ worker'.status = worker.status
      BY <1>1, <2>2 DEF WorkerFields
    <3>2. /\ databases'.locale = Names(worker.mods)
          /\ databases'.mounted = databases.mounted
          /\ databases'.atlas = databases.atlas
      BY <1>1, <2>2 DEF DatabaseFields
    <3> QED  BY <2>2, <3>1, <3>2 DEF PlaceInv, Mounted, Localized, At
  <2> QED  BY <1>5, <2>1, <2>2 DEF Locale, Names
<1>6. CASE Scripts /\ ~ StopsIfCancelled /\ ~ Fails("error")
  <2>1. /\ At("scripts") /\ build' = build /\ enabled' = enabled
    BY <1>6 DEF Scripts
  <2>2. CASE /\ worker' = [worker EXCEPT !.left = Tail(@)]
             /\ databases' = databases
    <3>1. /\ worker'.at = "scripts" /\ worker'.mods = worker.mods
          /\ worker'.catalog = worker.catalog /\ worker'.status = worker.status
      BY <1>1, <2>1, <2>2 DEF WorkerFields, At
    <3> QED  BY <2>1, <2>2, <3>1 DEF PlaceInv, Mounted, Localized, At
  <2>3. CASE /\ databases' = [databases EXCEPT !.mods = worker.mods]
             /\ Goes("prototypes")
    <3>1. /\ worker'.at = "prototypes" /\ worker'.mods = worker.mods
          /\ worker'.catalog = worker.catalog /\ worker'.status = worker.status
      BY <1>1, <2>3 DEF Goes, WorkerFields
    <3>2. /\ databases'.mods = worker.mods
          /\ databases'.mounted = databases.mounted
          /\ databases'.locale = databases.locale
          /\ databases'.atlas = databases.atlas
      BY <1>1, <2>3 DEF DatabaseFields
    <3> QED
      BY <2>1, <3>1, <3>2 DEF PlaceInv, Mounted, Localized, Listed, At
  <2> QED  BY <1>6, <2>2, <2>3 DEF Scripts
<1>7. CASE Prototypes /\ ~ StopsIfCancelled
  <2>1. CASE worker' = [worker EXCEPT !.at = "rollback", !.status = "error"]
    BY <1>2, <2>1
  <2>2. CASE /\ databases' = [databases EXCEPT
                                !.prototypes = Names(worker.mods)]
             /\ Goes("atlas")
             /\ At("prototypes") /\ build' = build /\ enabled' = enabled
    <3>1. /\ worker'.at = "atlas" /\ worker'.mods = worker.mods
          /\ worker'.catalog = worker.catalog /\ worker'.status = worker.status
      BY <1>1, <2>2 DEF Goes, WorkerFields
    <3>2. /\ databases'.prototypes = Names(worker.mods)
          /\ databases'.mods = databases.mods
          /\ databases'.mounted = databases.mounted
          /\ databases'.locale = databases.locale
          /\ databases'.atlas = databases.atlas
      BY <1>1, <2>2 DEF DatabaseFields
    <3> QED
      BY <2>2, <3>1, <3>2
         DEF PlaceInv, Mounted, Localized, Listed, Created, At
  <2> QED  BY <1>7, <2>1, <2>2 DEF Prototypes, Names
<1> QED  BY <1>3, <1>4, <1>5, <1>6, <1>7

LEMMA SourcesAre == Sources = SourcesOf(worker.mods)
BY DEF Sources, SourcesOf

LEMMA PlacesOfAtlas ==
  ASSUME PlaceInv, ListInv, MInv, UNCHANGED <<results, result, waiting>>,
         \/ BeginsAtlas \/ PoolTakes \/ PoolEnds \/ Uploads \/ EndsAtlas
         \/ AtlasThrows \/ AtlasAbandoned
  PROVE  PlaceInv'
<1>1. WorkerFields /\ DatabaseFields /\ BuilderCalled
      /\ (build # NoBuild => BuildFields)
  BY DEF ListInv, MInv, BuilderAhead
<1>2. CASE AtlasAbandoned
  <2>1. worker'.at = "rollback" /\ worker'.status # "ok"
    BY <1>1, <1>2 DEF AtlasAbandoned, WorkerFields
  <2> QED  BY <2>1, PlacesOfFailures
<1>3. CASE BeginsAtlas
  <2>1. At("atlas") /\ UNCHANGED <<enabled, databases>>
    BY <1>3 DEF BeginsAtlas
  <2>2. CASE Sources = <<>> /\ Goes("release")
    <3>1. /\ worker'.at = "release" /\ worker'.mods = worker.mods
          /\ worker'.catalog = worker.catalog /\ worker'.status = worker.status
      BY <1>1, <2>2 DEF Goes, WorkerFields
    <3>2. Inspected(SourcesOf(worker'.mods)) = <<>>
      BY <2>2, <3>1, InspectedNone, SourcesAre
    <3> QED
      BY <2>1, <3>1, <3>2
         DEF PlaceInv, Mounted, Localized, Listed, Created, Pictured, At
  <2>3. CASE /\ \E layout : build' = Built(Inspected(Sources), layout)
             /\ worker' = worker
    <3>1. build'.frames = Inspected(SourcesOf(worker.mods))
      BY <2>3, SourcesAre DEF Built
    <3> QED
      BY <2>1, <2>3, <3>1
         DEF PlaceInv, Mounted, Localized, Listed, Created, At
  <2> QED  BY <1>3, <2>2, <2>3 DEF BeginsAtlas
<1>4. CASE EndsAtlas
  <2>1. /\ At("atlas") /\ build # NoBuild /\ Goes("release")
        /\ databases' = [databases EXCEPT !.atlas = build.frames]
        /\ enabled' = enabled
    BY <1>1, <1>4 DEF EndsAtlas, BuilderCalled
  <2>2. /\ worker'.at = "release" /\ worker'.mods = worker.mods
        /\ worker'.catalog = worker.catalog /\ worker'.status = worker.status
    BY <1>1, <2>1 DEF Goes, WorkerFields
  <2>3. /\ databases'.atlas = build.frames
        /\ databases'.mods = databases.mods
        /\ databases'.mounted = databases.mounted
        /\ databases'.locale = databases.locale
        /\ databases'.prototypes = databases.prototypes
    BY <1>1, <2>1 DEF DatabaseFields
  <2> QED
    BY <2>1, <2>2, <2>3
       DEF PlaceInv, Mounted, Localized, Listed, Created, Pictured, At
<1>5. CASE PoolTakes \/ PoolEnds \/ Uploads \/ AtlasThrows
  <2>1. /\ UNCHANGED <<enabled, databases, worker>>
        /\ build # NoBuild /\ build'.frames = build.frames
    BY <1>1, <1>5 DEF PoolTakes, PoolEnds, Uploads, AtlasThrows, Taken, Ended,
                      Uploaded, BuildFields
  <2> QED
    BY <2>1 DEF PlaceInv, Mounted, Localized, Listed, Created, Pictured, At,
                Nothing
<1> QED  BY <1>2, <1>3, <1>4, <1>5

LEMMA PlacesOfSettling ==
  ASSUME PlaceInv, ListInv, MInv, UNCHANGED <<result, waiting>>,
         \/ Releases \/ RollsBack \/ Installs \/ Settles \/ Completes
         \/ Delivers
  PROVE  PlaceInv'
<1>1. WorkerFields /\ DatabaseFields /\ FailedClean
  BY DEF ListInv, MInv
<1>2. /\ build' = build /\ enabled' = enabled
  BY DEF Releases, RollsBack, Installs, Settles, Completes, Delivers,
         StopsIfCancelled, Fails
<1>3. ASSUME Pictured, worker'.at \in {"install", "settle", "complete",
                                       "deliver"},
             databases' = databases, worker'.mods = worker.mods,
             worker'.catalog = worker.catalog, worker'.status = "ok"
      PROVE  PlaceInv'
  BY <1>2, <1>3 DEF PlaceInv, Mounted, Localized, Listed, Created, Pictured, At
<1>4. CASE Releases
  <2>1. CASE StopsIfCancelled
    <3>1. worker'.at = "rollback" /\ worker'.status # "ok"
      BY <1>1, <2>1 DEF StopsIfCancelled, Fails, WorkerFields
    <3> QED  BY <3>1, PlacesOfFailures
  <2>2. CASE ~ StopsIfCancelled
    <3>1. /\ worker'.at = "install" /\ worker'.mods = worker.mods
          /\ worker'.catalog = worker.catalog /\ worker'.status = worker.status
          /\ databases' = databases /\ At("release")
      BY <1>1, <1>4, <2>2 DEF Releases, WorkerFields
    <3>2. Pictured /\ worker.status = "ok"
      BY <3>1 DEF PlaceInv, At
    <3> QED  BY <1>3, <3>1, <3>2
  <2> QED  BY <2>1, <2>2
<1>5. CASE RollsBack
  <2>1. worker'.at = "settle" /\ worker'.status = worker.status
        /\ At("rollback")
    BY <1>1, <1>5 DEF RollsBack, Goes, WorkerFields
  <2>2. worker'.status # "ok"
    BY <2>1 DEF PlaceInv
  <2> QED  BY <2>1, <2>2, PlacesOfFailures
<1>6. CASE Installs
  <2>1. /\ At("install") /\ databases' = databases
        /\ worker'.mods = worker.mods /\ worker'.catalog = worker.catalog
        /\ \/ worker'.at = "install" /\ worker'.status = worker.status
           \/ worker'.at = "settle"
    BY <1>1, <1>6 DEF Installs, WorkerFields, At
  <2>2. Pictured /\ worker.status = "ok"
    BY <2>1 DEF PlaceInv, At
  <2>3. CASE worker'.status = "ok"
    BY <1>3, <2>1, <2>2, <2>3
  <2>4. CASE worker'.status # "ok"
    BY <2>1, <2>2, <2>4, PlacesOfFailures
  <2> QED  BY <2>3, <2>4
<1>7. CASE Settles \/ Completes
  <2>1. /\ worker.at \in {"settle", "complete"}
        /\ worker'.at \in {"complete", "deliver"}
        /\ worker'.mods = worker.mods /\ worker'.catalog = worker.catalog
        /\ worker'.status = worker.status
        /\ worker.status = "ok" => databases' = databases
    BY <1>1, <1>7 DEF Settles, Completes, Goes, WorkerFields, At
  <2>2. CASE worker.status = "ok"
    <3>1. Pictured
      BY <2>1, <2>2 DEF PlaceInv
    <3> QED  BY <1>3, <2>1, <2>2, <3>1
  <2>3. CASE worker.status # "ok"
    BY <2>1, <2>3, PlacesOfFailures
  <2> QED  BY <2>2, <2>3
<1>8. CASE Delivers
  <2>1. /\ At("deliver") /\ worker'.at = "idle" /\ databases' = databases
        /\ worker'.mods = worker.mods /\ worker'.catalog = worker.catalog
    BY <1>1, <1>8 DEF Delivers, WorkerFields
  <2>2. Nothing \/ Pictured
    BY <1>1, <2>1 DEF PlaceInv, FailedClean, At
  <2> QED
    BY <2>1, <2>2 DEF PlaceInv, Mounted, Localized, Listed, Created, Pictured,
                      At, Nothing
<1> QED  BY <1>4, <1>5, <1>6, <1>7, <1>8

LEMMA PlacesOfProgram ==
  ASSUME PlaceInv, ListInv,
         \/ CallLoad \/ CallUnload \/ Load \/ Unload \/ Cancel \/ Result
         \/ SetModEnabled \/ UNCHANGED vars
  PROVE  PlaceInv'
<1>1. WorkerFields
  BY DEF ListInv
<1>2. CASE Load
  BY <1>2 DEF Load, Idle, PlaceInv, At
<1>3. CASE Unload
  <2>1. databases' = Empty /\ worker' = worker /\ At("idle")
    BY <1>3 DEF Unload, Joined
  <2> QED  BY <2>1 DEF PlaceInv, At, Nothing
<1>4. CASE SetModEnabled
  <2>1. /\ UNCHANGED <<databases, worker, build, results>> /\ At("idle")
    BY <1>4 DEF SetModEnabled
  <2> QED  BY <2>1 DEF PlaceInv, At, Nothing
<1>5. CASE CallLoad \/ CallUnload \/ Cancel \/ Result \/ UNCHANGED vars
  <2>1. /\ UNCHANGED <<enabled, databases, build, results>>
        /\ worker'.at = worker.at /\ worker'.mods = worker.mods
        /\ worker'.catalog = worker.catalog /\ worker'.status = worker.status
        /\ worker'.left = worker.left
    BY <1>1, <1>5 DEF CallLoad, CallUnload, Cancel, Result, vars, program,
                      RequestsStop, WorkerFields
  <2> QED
    BY <2>1 DEF PlaceInv, Mounted, Localized, Listed, Created, Pictured, At,
                Nothing
<1> QED  BY <1>2, <1>3, <1>4, <1>5

LEMMA PlacesHold ==
  /\ Init => PlaceInv
  /\ MInv /\ ListInv /\ PlaceInv /\ [Next]_vars => PlaceInv'
<1>1. Init => PlaceInv
  BY DEF Init, PlaceInv, At, Idle
<1>2. ASSUME MInv, ListInv, PlaceInv, [Next]_vars PROVE PlaceInv'
  BY <1>2, PlacesOfMounting, PlacesOfLoading, PlacesOfAtlas, PlacesOfSettling,
     PlacesOfProgram DEF Next, WorkerStep, PoolStep
<1> QED  BY <1>1, <1>2

(* Whoever has the result of the last load finds the mods mounted, those   *)
(* enabled loaded with their names, prototypes and frames, and a progress  *)
(* that is complete, or nothing if it failed, was cancelled or unloaded.   *)
THEOREM LoadsAreAllOrNothing == Spec => []AllOrNothing
<1>1. ASSUME MInv, ProgressInv, PlaceInv PROVE AllOrNothing
  <2>1. NothingLeft
    BY <1>1 DEF MInv, FailedClean, NothingLeft, Settled, At
  <2>2. ASSUME Settled PROVE Complete(Value(progress))
    BY <1>1, <2>2, ThroughIsComplete DEF ProgressInv
  <2>3. Inspected(Sources) = Inspected(SourcesOf(worker.mods))
    BY SourcesAre
  <2>4. CASE At("deliver") /\ worker.status = "ok"
    <3>1. Pictured
      BY <1>1, <2>4 DEF PlaceInv, At
    <3>2. Everything
      BY <2>3, <3>1 DEF Everything, Names, Pictured, Created, Listed,
                        Localized, Mounted, Flagged
    <3> QED  BY <2>1, <2>2, <3>2 DEF AllOrNothing
  <2>5. CASE At("deliver") /\ worker.status # "ok"
    BY <2>1, <2>2, <2>5 DEF AllOrNothing, NothingLeft, Settled
  <2>6. CASE At("idle") /\ results # <<>>
    <3>1. Nothing \/ Everything
      BY <1>1, <2>3, <2>6 DEF PlaceInv, Everything, Names, At
    <3> QED  BY <2>1, <2>2, <2>6, <3>1 DEF AllOrNothing
  <2> QED  BY <2>1, <2>4, <2>5, <2>6 DEF AllOrNothing, Settled
<1> QED  BY <1>1, Invariance, ListInvariance, ReportsHold, PlacesHold, PTL
         DEF Spec

=============================================================================
