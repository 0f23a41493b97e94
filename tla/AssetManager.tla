---------------------------- MODULE AssetManager ----------------------------
(***************************************************************************)
(* lf::asset (modules/manager/asset.cpp): images and shaders that groups   *)
(* demand.  Workers decode images; update() places a decoded image in a    *)
(* page and records its upload in a command buffer; collect() notices that *)
(* the GPU has done the upload, and gives back what nobody demands and no  *)
(* frame under way can still read.  Threads: the one that draws frames     *)
(* (Window::begin_frame, end_frame), an owner for each group, who polls it *)
(* or is inside prepare(), the workers, and the GPU.  A step is a section  *)
(* under records_mutex, or a call of the renderer.                         *)
(***************************************************************************)
EXTENDS Naturals, Sequences, FiniteSets, SequencesExt, FiniteSetsExt

CONSTANTS
  Images,        \* number of images, named by their index
  Shaders,       \* number of shaders, named after the images
  Lifetime,      \* the storage of an image: Lifetime[i]
  Group,         \* groups
  Preparing,     \* groups whose owner uses prepare(); the others poll
  Region,        \* regions of a page; images have the size of a region
  Commands,      \* bound: handles that command buffers can have
  PlacingThrows, \* BOOLEAN: allocate() may throw after it took a region
  PrepareThrows, \* BOOLEAN: the renderer may throw in prepare()
  FramesDropped, \* BOOLEAN: begin_frame() may follow without end_frame()
  MaxPages,      \* bound: pages at any time
  MaxTimepoint,  \* bound: timepoints known at any time
  MaxGeneration, \* bound: calls of init()
  MaxLoads       \* bound: calls of load() for a group

Image == 1 .. Images
Shader == Images + 1 .. Images + Shaders
Asset == Image \cup Shader
Page == 1 .. MaxPages

none == "none"

ASSUME AssetAssumption ==
  /\ Images \in Nat /\ Shaders \in Nat
  /\ IsFiniteSet(Group) /\ Preparing \subseteq Group
  /\ Commands # {} /\ none \notin Commands
  /\ Region # {} /\ Region \subseteq Nat /\ IsFiniteSet(Region)
  /\ PlacingThrows \in BOOLEAN /\ PrepareThrows \in BOOLEAN
  /\ FramesDropped \in BOOLEAN
  /\ MaxPages \in Nat /\ MaxTimepoint \in Nat
  /\ MaxGeneration \in Nat /\ MaxLoads \in Nat

VARIABLES
  workers,      \* the pool exists
  generation,   \* calls of init()
  added,        \* assets with a record
  records,      \* image_record and shader_record of each asset
  pages,        \* atlas pages by name
  submissions,  \* timepoints of submissions, without those reached
  groups,       \* fields of the groups
  call,         \* where the owner of a group is in poll() or prepare(), and
                \* the command buffer of prepare()
  frame,        \* where the window is in its frame, and its command buffer
  recorded,     \* what each command buffer holds
  flight,       \* what the GPU still has to do, by timepoint
  lost          \* history: images whose upload went with a command buffer
                \* that was not submitted

vars == <<workers, generation, added, records, pages, submissions, groups,
          call, frame, recorded, flight, lost>>

manager == <<workers, generation, added>>
gpu == <<recorded, flight, lost>>

-----------------------------------------------------------------------------
(* An identifier carries the generation in which it was given.             *)
Identifier(a) == [asset |-> a, generation |-> generation]

(* Faulty variant: the generation is not looked at. *)
FoundInAny(id) == id.asset \in added

(* find() *)
Found(id) == id.generation = generation /\ id.asset \in added

(* Timepoint 0 is the null timepoint. *)
Reached(t) == t \notin DOMAIN flight

AllReached(T) == \A t \in T : Reached(t)

Nothing == [uploads |-> {}, reads |-> {}]

NewRecord == [demand |-> 0, status |-> "idle", retirement |-> {},
              decoding |-> "none", place |-> <<>>, commands |-> none,
              uploaded |-> 0, program |-> FALSE]

NewGroup == [images |-> <<>>, shaders |-> <<>>, demands |-> {},
             completed |-> {}, progress |-> "none", status |-> "idle",
             loads |-> 0]

NoCall == [step |-> "idle", time |-> 0, commands |-> none]

Init ==
  /\ workers = FALSE /\ generation = 0 /\ added = {}
  /\ records = [a \in Asset |-> NewRecord]
  /\ pages = <<>>
  /\ submissions = {}
  /\ groups = [g \in Group |-> NewGroup]
  /\ call = [g \in Group |-> NoCall]
  /\ \E h \in Commands :
       frame = [step |-> "none", commands |-> h, time |-> 0]
  /\ recorded = [h \in Commands |-> Nothing]
  /\ flight = <<>>
  /\ lost = {}

-----------------------------------------------------------------------------
(* collect() *)

(* Faulty variant: an upload counts as done when it has been submitted. *)
UploadedWhenSubmitted(record) == record.uploaded # 0

UploadDone(record) == record.uploaded # 0 /\ Reached(record.uploaded)

Free(record) == record.demand = 0 /\ AllReached(record.retirement)

(* Faulty variant: the record keeps its region. *)
ReleasedInPlace(record) ==
  [record EXCEPT !.program = FALSE, !.retirement = {}, !.status = "idle"]

Released(record) ==
  [record EXCEPT !.place = <<>>, !.program = FALSE, !.retirement = {},
                 !.status = "idle"]

(* The upload of an image, and whether its region goes back.               *)
Finished(record) ==
  IF record.commands = none /\ UploadDone(record)
  THEN [record EXCEPT !.uploaded = 0, !.status = "ready"] ELSE record

GivenBack(record) ==
  /\ record.commands = none
  /\ Finished(record).uploaded = 0
  /\ record.place # <<>> \/ record.program
  /\ Free(record)

Collected(record) ==
  IF GivenBack(record) THEN Released(Finished(record)) ELSE Finished(record)

(* Faulty variant: the region is free again, but still counted. *)
LeftOverCounted(p) ==
  [pages[p] EXCEPT !.free = @ \cup {r \in Region :
     \E i \in Image : GivenBack(records[i]) /\ records[i].place = <<p, r>>}]

(* Page p after the regions of the images given back are free.             *)
LeftOver(p) ==
  LET freed == {r \in Region : \E i \in Image :
                  GivenBack(records[i]) /\ records[i].place = <<p, r>>}
  IN  [pages[p] EXCEPT !.free = @ \cup freed,
                       !.allocations = @ - Cardinality(freed)]

Collection ==
  /\ records' = [a \in Asset |-> Collected(records[a])]
  /\ pages' = [p \in {q \in DOMAIN pages : LeftOver(q).allocations # 0} |->
                 LeftOver(p)]

-----------------------------------------------------------------------------
(* Setting up and shutting down *)

(* asset::init *)
Start ==
  /\ ~workers /\ generation < MaxGeneration
  /\ workers' = TRUE
  /\ generation' = generation + 1
  /\ UNCHANGED <<added, records, pages, submissions, groups, call, frame,
                 recorded, flight, lost>>

(* asset::exit, by the application when no frame and no call is under way. *)
(* It waits for the workers and for the submissions.                       *)
Exit ==
  /\ workers /\ frame.step = "none"
  /\ \A g \in Group : call[g].step = "idle"
  /\ \A i \in Image : records[i].decoding # "running"
  /\ AllReached(submissions)
  /\ workers' = FALSE
  /\ added' = {} /\ submissions' = {} /\ pages' = <<>>
  /\ records' = [a \in Asset |-> NewRecord]
  /\ lost' = {}
  /\ UNCHANGED <<generation, groups, call, frame, recorded, flight>>

(* add(): the next index of its kind. *)
Add(a) ==
  /\ workers /\ a \notin added
  /\ a \in Image => \A i \in Image : i < a => i \in added
  /\ a \in Shader => \A i \in Shader : i < a => i \in added
  /\ added' = added \cup {a}
  /\ UNCHANGED <<workers, generation, records, pages, submissions, groups,
                 call, frame, recorded, flight, lost>>

(* What load() goes through: the images that were declared, then the       *)
(* shaders.                                                                *)
Declared(g) == groups[g].images \o groups[g].shaders

(* group::include *)
Include(g, a) ==
  /\ a \in added /\ call[g].step = "idle"
  /\ ~Contains(Declared(g), Identifier(a))
  /\ groups' = IF a \in Image
       THEN [groups EXCEPT ![g].images = Append(@, Identifier(a))]
       ELSE [groups EXCEPT ![g].shaders = Append(@, Identifier(a))]
  /\ UNCHANGED <<manager, records, pages, submissions, call, frame, gpu>>

-----------------------------------------------------------------------------
(* load() *)

Demanded(record, held) ==
  IF held THEN record
  ELSE [record EXCEPT !.demand = @ + 1, !.retirement = {}]

(* What loading does to the record of an image or of a shader, of which    *)
(* the latter is built, or cannot be read, or is rejected by the renderer. *)
LoadedImage(record) ==
  IF record.status \in {"idle", "failed"}
  THEN [record EXCEPT !.decoding = "running", !.status = "loading"]
  ELSE record

LoadedShader(record, outcome) ==
  CASE record.status = "ready"   -> record
    [] OTHER -> [record EXCEPT !.program = outcome # "rejected",
                               !.status = IF outcome = "built" THEN "ready"
                                                               ELSE "failed"]

(* One turn of the loops; once it has failed, load() has returned.         *)
LoadOne(sofar, id, outcome) ==
  LET a == id.asset
      record == Demanded(sofar.records[a], id \in sofar.demands)
      loaded == IF a \in Image THEN LoadedImage(record)
                               ELSE LoadedShader(record, outcome[a])
  IN  CASE sofar.status = "failed" -> sofar
        [] sofar.status # "failed" /\ ~Found(id) ->
             [sofar EXCEPT !.status = "failed"]
        [] OTHER ->
             [records |-> [sofar.records EXCEPT ![a] = loaded],
              demands |-> sofar.demands \cup {id},
              status  |-> IF a \in Shader /\ loaded.status = "failed"
                          THEN "failed" ELSE "loading"]

(* The loops of load(), turn by turn.                                      *)
LoadTurns(g, outcome) ==
  LET before == [records |-> records, demands |-> groups[g].demands,
                 status |-> IF ~workers /\ Declared(g) # <<>> THEN "failed"
                                                              ELSE "loading"]
      turn[n \in 0 .. Len(Declared(g))] ==
        IF n = 0 THEN before ELSE LoadOne(turn[n - 1], Declared(g)[n], outcome)
  IN  turn

(* load() *)
Loading(g, outcome) ==
  LET after == LoadTurns(g, outcome)[Len(Declared(g))]
  IN  /\ groups[g].loads < MaxLoads
      /\ records' = after.records
      /\ groups' = [groups EXCEPT ![g] =
                      [groups[g] EXCEPT
                         !.demands = after.demands, !.completed = {},
                         !.progress = "running", !.status = after.status,
                         !.loads = @ + 1]]

Load(g) ==
  /\ g \notin Preparing /\ call[g].step = "idle"
  /\ \E outcome \in [Shader -> {"built", "unreadable", "rejected"}] :
       Loading(g, outcome)
  /\ UNCHANGED <<manager, pages, submissions, call, frame, gpu>>

(* The owner of the stop token gives up. *)
Cancel(g) ==
  /\ groups[g].progress = "running"
  /\ groups' = [groups EXCEPT ![g].progress = "cancelled"]
  /\ UNCHANGED <<manager, records, pages, submissions, call, frame, gpu>>

-----------------------------------------------------------------------------
(* unload() *)

(* Faulty variant: the frames under way are not remembered. *)
UndemandedAtOnce(record) ==
  [record EXCEPT !.demand = IF @ = 0 THEN 0 ELSE @ - 1]

Undemanded(record) ==
  CASE record.demand = 0 -> record
    [] record.demand = 1 -> [record EXCEPT !.demand = 0,
                                           !.retirement = submissions]
    [] OTHER -> [record EXCEPT !.demand = @ - 1]

(* The obligation of a group's owner: what a frame takes from the group    *)
(* stays demanded until the frame has been handed to submitted().          *)
InUse(g) == \E h \in Commands : \E r \in recorded[h].reads : r.group = g

Unloading(g, status) ==
  /\ ~InUse(g)
  /\ records' = [a \in Asset |->
                   IF \E id \in groups[g].demands : id.asset = a /\ Found(id)
                   THEN Undemanded(records[a]) ELSE records[a]]
  /\ groups' = [groups EXCEPT ![g] =
                  [@ EXCEPT !.demands = {}, !.completed = {},
                            !.progress = "none", !.status = status]]

Unload(g) ==
  /\ call[g].step = "idle" /\ groups[g].status # "idle"
  /\ Unloading(g, "idle")
  /\ UNCHANGED <<manager, pages, submissions, call, frame, gpu>>

-----------------------------------------------------------------------------
(* poll(): collect(), then a look at the records. *)

Failing(g) == \E id \in groups[g].demands :
                ~Found(id) \/ records[id.asset].status = "failed"

ReadyOf(g) == {id \in groups[g].demands : records[id.asset].status = "ready"}

Completed(g, completed) == completed = groups[g].demands

(* The group after a look at its records.  What was completed before one   *)
(* fails is left out: nobody reads it until it is cleared.                 *)
Looked(g) ==
  LET completed == groups[g].completed \cup ReadyOf(g)
  IN  CASE groups[g].status # "loading" -> groups[g]
        [] groups[g].status = "loading" /\ Failing(g) ->
             [groups[g] EXCEPT !.status = "failed"]
        [] OTHER -> [groups[g] EXCEPT !.completed = completed,
                                      !.status = IF Completed(g, completed)
                                                 THEN "ready" ELSE "loading"]

(* poll() begins with collect(), and looks at the records under the lock   *)
(* once more.  A group that load() was called for and that was not         *)
(* unloaded has progress.  One without is not loading, and then the second *)
(* section changes nothing; except that a prepare() left by an exception   *)
(* leaves its group loading without progress.  It is the owner's           *)
(* obligation not to poll such a group: poll() would use the progress.     *)
PollCollect(g) ==
  /\ g \notin Preparing /\ call[g].step = "idle"
  /\ groups[g].progress # "none"
  /\ Collection
  /\ call' = [call EXCEPT ![g].step = "poll"]
  /\ UNCHANGED <<manager, submissions, groups, frame, gpu>>

PollRecords(g) ==
  /\ call[g].step = "poll"
  /\ \/ groups[g].progress = "cancelled" /\ Unloading(g, "cancelled")
     \/ /\ groups[g].progress # "cancelled"
        /\ groups' = [groups EXCEPT ![g] = Looked(g)]
        /\ UNCHANGED records
  /\ call' = [call EXCEPT ![g].step = "idle"]
  /\ UNCHANGED <<manager, pages, submissions, frame, gpu>>

-----------------------------------------------------------------------------
(* update() *)

(* Faulty variant: a page is used while another buffer writes to it. *)
UploadingNothing(table, p, h) == FALSE

(* A command buffer other than h has uploads to page p, or h itself had    *)
(* and was submitted.                                                      *)
Uploading(table, p, h) ==
  \E i \in Image : /\ table[i].place # <<>> /\ table[i].place[1] = p
                   /\ table[i].status = "loading"
                   /\ table[i].commands # h \/ table[i].uploaded # 0

(* allocate(): in a page of the same storage, or in a new one.  Regions    *)
(* have one size here; which of those that fit is taken does not matter.   *)
Allocated(sofar, i, h, throws) ==
  LET fitting == {p \in DOMAIN sofar.pages :
                    /\ sofar.pages[p].storage = Lifetime[i]
                    /\ ~Uploading(sofar.records, p, h)
                    /\ sofar.pages[p].free # {}}
      new == fitting = {}
      p == IF new THEN Min(Page \ DOMAIN sofar.pages) ELSE Min(fitting)
      page == IF new THEN [storage |-> Lifetime[i], allocations |-> 0,
                           free |-> Region, contents |-> [r \in Region |-> 0]]
                     ELSE sofar.pages[p]
      r == Min(page.free)
      taken == [page EXCEPT !.free = @ \ {r}, !.allocations = @ + 1]
      placed == [sofar.records[i] EXCEPT
                   !.decoding = "none", !.place = <<p, r>>,
                   !.commands = IF throws THEN @ ELSE h,
                   !.status = IF throws THEN "failed" ELSE @]
  IN  [records |-> [sofar.records EXCEPT ![i] = placed],
       pages   |-> [q \in DOMAIN sofar.pages \cup {p} |->
                      IF q = p THEN taken ELSE sofar.pages[q]],
       uploads |-> IF throws THEN sofar.uploads
                   ELSE sofar.uploads \cup {[image |-> i, place |-> <<p, r>>]}]

(* One turn of the loop of update(). *)
UpdateOne(sofar, i, h, throws) ==
  LET Got(status) == [sofar EXCEPT !.records[i].decoding = "none",
                                   !.records[i].status = status]
  IN  CASE sofar.records[i].demand = 0 -> Got("idle")
        [] /\ sofar.records[i].demand # 0
           /\ sofar.records[i].decoding = "broken" -> Got("failed")
        [] OTHER -> Allocated(sofar, i, h, throws)

(* Faulty variant: an image that cannot be decoded waits for ever. *)
DecodedWell(i) == /\ records[i].status = "loading"
                  /\ records[i].decoding = "decoded"

Decoded(i) == /\ records[i].status = "loading"
              /\ records[i].decoding \in {"decoded", "broken"}

(* The first images of which the decoding has ended, maximum at most.      *)
Chosen(maximum) ==
  {i \in Image : Decoded(i)
                 /\ Cardinality({j \in 1 .. i - 1 : Decoded(j)}) < maximum}

(* The loop of update(), turn by turn.                                     *)
UpdateTurns(h, chosen, throwing) ==
  LET before == [records |-> records, pages |-> pages,
                 uploads |-> recorded[h].uploads]
      turn[i \in 0 .. Images] ==
        IF i = 0 THEN before
        ELSE IF i \in chosen THEN UpdateOne(turn[i - 1], i, h, i \in throwing)
        ELSE turn[i - 1]
  IN  turn

Updating(h, maximum) ==
  /\ Cardinality(DOMAIN pages) + Cardinality(Chosen(maximum)) <= MaxPages
  /\ \E throwing \in SUBSET (IF PlacingThrows THEN Chosen(maximum) ELSE {}) :
       LET after == UpdateTurns(h, Chosen(maximum), throwing)[Images]
       IN  /\ records' = after.records
           /\ pages' = after.pages
           /\ recorded' = [recorded EXCEPT ![h].uploads = after.uploads]
           /\ lost' = lost \ {u.image : u \in after.uploads}

-----------------------------------------------------------------------------
(* Submitting a command buffer, and submitted() *)

(* A timepoint nobody knows. *)
Known == {0} \cup submissions \cup DOMAIN flight \cup {frame.time}
         \cup {call[g].time : g \in Group}
         \cup {records[i].uploaded : i \in Image}

(* rt::Queue::Submit.  What was taken from the groups remains recorded     *)
(* until submitted(), for InUse.                                           *)
Submit(h, t) ==
  /\ t \in 1 .. MaxTimepoint \ Known
  /\ t = Min(1 .. MaxTimepoint \ Known)
  /\ flight' = [u \in DOMAIN flight \cup {t} |->
                  IF u = t THEN recorded[h] ELSE flight[u]]
  /\ recorded' = [recorded EXCEPT ![h].uploads = {}]

(* asset::submitted *)
Register(h, t) ==
  /\ submissions' = submissions \cup ({t} \cap DOMAIN flight)
  /\ records' = [a \in Asset |->
                   IF records[a].commands = h
                   THEN [records[a] EXCEPT !.commands = none, !.uploaded = t]
                   ELSE records[a]]
  /\ recorded' = [recorded EXCEPT ![h] = Nothing]

-----------------------------------------------------------------------------
(* The life of command buffers *)

(* Every window has one; a call of prepare() has one from its loop on.     *)
Live(h) == h = frame.commands \/ \E g \in Group : h = call[g].commands

(* A buffer is destroyed, and with it goes what update() has recorded, of  *)
(* which the records keep the handle.  A new buffer can get this handle.   *)
Destroy(h) ==
  /\ lost' = lost \cup {u.image : u \in recorded[h].uploads}
  /\ recorded' = [recorded EXCEPT ![h] = Nothing]

-----------------------------------------------------------------------------
(* The window's frames *)

(* Window::discard_frame.  If the last frame was not ended, its command    *)
(* buffer is replaced by h.                                                *)
Discard(h) ==
  \/ /\ frame.step = "none" /\ h = frame.commands
     /\ UNCHANGED <<lost, recorded>>
  \/ /\ FramesDropped /\ frame.step = "recording" /\ ~Live(h)
     /\ Destroy(frame.commands)

(* Window::begin_frame to the end of collect() in update().                *)
BeginFrame ==
  \E h \in Commands :
    /\ Discard(h)
    /\ frame' = [step |-> "collected", commands |-> h, time |-> 0]
    /\ Collection
    /\ UNCHANGED <<manager, submissions, groups, call, flight>>

(* Window::begin_frame that finds nothing to draw on.                      *)
SkipFrame ==
  /\ frame.step = "recording"
  /\ \E h \in Commands :
       /\ Discard(h)
       /\ frame' = [step |-> "none", commands |-> h, time |-> 0]
  /\ UNCHANGED <<manager, records, pages, submissions, groups, call, flight>>

(* The rest of begin_frame: update() places one image. *)
UpdateFrame ==
  /\ frame.step = "collected"
  /\ Updating(frame.commands, 1)
  /\ frame' = [frame EXCEPT !.step = "recording"]
  /\ UNCHANGED <<manager, submissions, groups, call, flight>>

(* get(), and a draw that reads what it returns. *)
Draw(g, a) ==
  /\ frame.step = "recording"
  /\ groups[g].status = "ready" /\ call[g].step = "idle"
  /\ Identifier(a) \in groups[g].demands /\ a \in added
  /\ records[a].status = "ready" /\ records[a].demand # 0
  /\ recorded' = [recorded EXCEPT ![frame.commands].reads =
                    @ \cup {[group |-> g, asset |-> a,
                             place |-> records[a].place]}]
  /\ UNCHANGED <<manager, records, pages, submissions, groups, call, frame,
                 flight, lost>>

(* Window::end_frame *)
EndFrame ==
  /\ frame.step = "recording"
  /\ \E t \in 1 .. MaxTimepoint :
       /\ Submit(frame.commands, t)
       /\ frame' = [frame EXCEPT !.step = "submitted", !.time = t]
  /\ UNCHANGED <<manager, records, pages, submissions, groups, call, lost>>

FrameSubmitted ==
  /\ frame.step = "submitted"
  /\ Register(frame.commands, frame.time)
  /\ frame' = [frame EXCEPT !.step = "none", !.time = 0]
  /\ UNCHANGED <<manager, pages, groups, call, flight, lost>>

-----------------------------------------------------------------------------
(* prepare(), which the owner of a group in Preparing calls.  Its polls    *)
(* before the loop are those of the loop.                                  *)

Goto(g, step) == call' = [call EXCEPT ![g].step = step]

Return(g) == call' = [call EXCEPT ![g] = NoCall]

Prepare(g) ==
  /\ g \in Preparing /\ call[g].step = "idle"
  /\ \E outcome \in [Shader -> {"built", "unreadable", "rejected"}] :
       Loading(g, outcome)
  /\ Goto(g, "prepare")
  /\ UNCHANGED <<manager, pages, submissions, frame, gpu>>

PrepareCollect(g) ==
  /\ call[g].step = "prepare"
  /\ Collection
  /\ Goto(g, "look")
  /\ UNCHANGED <<manager, submissions, groups, frame, gpu>>

(* The buffer that a call has: it is created when the loop begins.         *)
Buffer(g, h) == \/ h = call[g].commands
                \/ call[g].commands = none /\ ~Live(h)

(* The verdict ends the call, which resets the progress; or goes on.       *)
PrepareLook(g) ==
  /\ call[g].step = "look"
  /\ \/ /\ groups[g].progress = "cancelled"
        /\ Unloading(g, "cancelled")
        /\ Return(g)
     \/ /\ groups[g].progress # "cancelled" /\ Looked(g).status = "loading"
        /\ groups' = [groups EXCEPT ![g] = Looked(g)]
        /\ \E h \in Commands :
             /\ Buffer(g, h)
             /\ call' = [call EXCEPT ![g] = [step |-> "update", time |-> 0,
                                             commands |-> h]]
        /\ UNCHANGED records
     \/ /\ groups[g].progress # "cancelled" /\ Looked(g).status # "loading"
        /\ groups' = [groups EXCEPT ![g] =
                        [Looked(g) EXCEPT !.progress = "none"]]
        /\ Return(g)
        /\ UNCHANGED records
  /\ UNCHANGED <<manager, pages, submissions, frame, gpu>>

PrepareUpdateCollect(g) ==
  /\ call[g].step = "update"
  /\ Collection
  /\ Goto(g, "record")
  /\ UNCHANGED <<manager, submissions, groups, frame, gpu>>

PrepareUpdate(g) ==
  /\ call[g].step = "record"
  /\ Updating(call[g].commands, 16)
  /\ Goto(g, "submit")
  /\ UNCHANGED <<manager, submissions, groups, frame, flight>>

PrepareSubmit(g) ==
  /\ call[g].step = "submit"
  /\ \E t \in 1 .. MaxTimepoint :
       /\ Submit(call[g].commands, t)
       /\ call' = [call EXCEPT ![g].step = "submitted", ![g].time = t]
  /\ UNCHANGED <<manager, records, pages, submissions, groups, frame, lost>>

PrepareSubmitted(g) ==
  /\ call[g].step = "submitted"
  /\ Register(call[g].commands, call[g].time)
  /\ Goto(g, "wait")
  /\ UNCHANGED <<manager, pages, groups, frame, flight, lost>>

PrepareWait(g) ==
  /\ call[g].step = "wait" /\ Reached(call[g].time)
  /\ Collection
  /\ call' = [call EXCEPT ![g].step = "prepare", ![g].time = 0]
  /\ UNCHANGED <<manager, submissions, groups, frame, gpu>>

(* The renderer throws: when the buffer is created, reset or begun, when   *)
(* it is ended or submitted, or in the wait.  The buffer is destroyed, the *)
(* progress is reset, and the group goes on loading.                       *)
PrepareThrow(g) ==
  /\ PrepareThrows
  /\ call[g].step \in {"update", "submit", "wait"}
  /\ groups' = [groups EXCEPT ![g].progress = "none"]
  /\ Destroy(call[g].commands)
  /\ Return(g)
  /\ UNCHANGED <<manager, records, pages, submissions, frame, flight>>

-----------------------------------------------------------------------------
(* Workers and GPU *)

(* decode() in a worker, with or without an image. *)
Decode(i) ==
  /\ records[i].decoding = "running"
  /\ \E outcome \in {"decoded", "broken"} :
       records' = [records EXCEPT ![i].decoding = outcome]
  /\ UNCHANGED <<manager, pages, submissions, groups, call, frame, gpu>>

(* The GPU reaches a timepoint; what was uploaded is in its place.  It is  *)
(* no longer among submissions and those of retirement: the code skips a   *)
(* timepoint there once it is reached, and its name can be used again.     *)
Finish(t) ==
  /\ t \in DOMAIN flight
  /\ flight' = [u \in DOMAIN flight \ {t} |-> flight[u]]
  /\ pages' = [p \in DOMAIN pages |-> [pages[p] EXCEPT !.contents =
                 [r \in Region |->
                    LET here == {u \in flight[t].uploads : u.place = <<p, r>>}
                    IN  IF here = {} THEN @[r]
                        ELSE (CHOOSE u \in here : TRUE).image]]]
  /\ records' = [a \in Asset |-> [records[a] EXCEPT !.retirement = @ \ {t}]]
  /\ submissions' = submissions \ {t}
  /\ UNCHANGED <<manager, groups, call, frame, recorded,
                 lost>>

-----------------------------------------------------------------------------
PrepareStep(g) ==
  \/ PrepareCollect(g) \/ PrepareLook(g) \/ PrepareUpdateCollect(g)
  \/ PrepareUpdate(g) \/ PrepareSubmit(g) \/ PrepareSubmitted(g)
  \/ PrepareWait(g)

GroupNext(g) ==
  \/ Load(g) \/ Cancel(g) \/ Unload(g) \/ PollCollect(g) \/ PollRecords(g)
  \/ Prepare(g) \/ PrepareStep(g) \/ PrepareThrow(g)
  \/ \E a \in Asset : Include(g, a) \/ Draw(g, a)

FrameStep == BeginFrame \/ UpdateFrame \/ EndFrame \/ FrameSubmitted

Next ==
  \/ Start \/ Exit \/ \E a \in Asset : Add(a)
  \/ \E g \in Group : GroupNext(g)
  \/ FrameStep \/ SkipFrame
  \/ \E i \in Image : Decode(i)
  \/ \E t \in 1 .. MaxTimepoint : Finish(t)

Spec == Init /\ [][Next]_vars

(* Owners poll while they load. *)
PollStep(g) == \/ groups[g].status = "loading" /\ PollCollect(g)
               \/ PollRecords(g)

(* Frames are drawn, calls of poll() and prepare() go on, workers and GPU  *)
(* work.  Nothing obliges an owner to load, cancel or unload, and nothing  *)
(* the renderer to throw.  Strong fairness is for MaxTimepoint, which may  *)
(* keep a submission waiting.                                              *)
FairSpec ==
  /\ Spec
  /\ SF_vars(FrameStep)
  /\ \A g \in Group : SF_vars(PrepareStep(g)) /\ WF_vars(PollStep(g))
  /\ \A i \in Image : WF_vars(Decode(i))
  /\ \A t \in 1 .. MaxTimepoint : WF_vars(Finish(t))

-----------------------------------------------------------------------------
(* Properties *)

(* A record counts the groups that demand it: through repeated loads of a  *)
(* group, loads that fail half-way, cancellation, and identifiers from     *)
(* before exit() and init() that their groups unload later.                *)
DemandCounted ==
  \A a \in added :
    records[a].demand =
      Cardinality({g \in Group : Identifier(a) \in groups[g].demands})

(* A region that an image holds is in a page that exists, is not free, and *)
(* is no other image's; a page counts the regions taken from it.  Holds    *)
(* although an image is unloaded, demanded again and given back while its  *)
(* decoding, its upload or frames that read it are under way.              *)
RegionsHeldOnce ==
  /\ \A i \in Image : records[i].place # <<>> =>
       /\ records[i].place[1] \in DOMAIN pages
       /\ records[i].place[2] \notin pages[records[i].place[1]].free
       /\ \A j \in Image \ {i} : records[j].place # records[i].place
  /\ \A p \in DOMAIN pages :
       pages[p].allocations = Cardinality(Region \ pages[p].free)

Unfinished == {recorded[h] : h \in Commands}
              \cup {flight[t] : t \in DOMAIN flight}

Holds(place, i) == pages[place[1]].contents[place[2]] = i

(* What a frame reads, recorded or under way on the GPU, remains where it  *)
(* was when get() returned it, and nothing is written over it, whoever     *)
(* unloads and loads meanwhile.                                            *)
ReadsIntact ==
  \A batch \in Unfinished : \A read \in batch.reads :
    IF read.asset \in Shader THEN records[read.asset].program
    ELSE /\ records[read.asset].place = read.place
         /\ \A other \in Unfinished : \A upload \in other.uploads :
              upload.place # read.place

(* A group that is ready can draw all it demands: each image is in its     *)
(* region, by an upload that the GPU has done, each shader is built.  Only *)
(* an image whose upload went with a dropped frame, or with a prepare()    *)
(* that was left by an exception, may be missing there: a later buffer     *)
(* with the handle of the one destroyed makes it ready when submitted.     *)
ReadyGroupServed ==
  \A g \in Group : groups[g].status = "ready" =>
    \A id \in groups[g].demands : Found(id) =>
      /\ records[id.asset].status = "ready"
      /\ id.asset \in Shader => records[id.asset].program
      /\ id.asset \in Image \ lost => Holds(records[id.asset].place, id.asset)

(* Never are there two command buffers with unfinished uploads to a page:  *)
(* allocate() passes over a page to which another one has some.            *)
OneUploaderPerPage ==
  \A p \in DOMAIN pages :
    LET Writes(batch) == \E u \in batch.uploads : u.place[1] = p
    IN  Cardinality({h \in Commands : Writes(recorded[h])})
        + Cardinality({t \in DOMAIN flight : Writes(flight[t])}) <= 1

(* An image that was lost, and still has the handle of the buffer that was *)
(* destroyed: until a buffer that gets this handle is submitted, it is not *)
(* ready, it is not uploaded again, and collect() passes over it.          *)
Stranded(i) == i \in lost /\ records[i].commands # none

(* What nothing in the code resolves: the owner has left prepare() by an   *)
(* exception and cannot poll the group, or it demands a stranded image.    *)
Unsettled(g) ==
  \/ call[g] = NoCall /\ groups[g].progress = "none"
  \/ \E id \in groups[g].demands :
       Found(id) /\ id.asset \in Image /\ Stranded(id.asset)

(* A group that loads gets ready, fails, or is cancelled or unloaded,      *)
(* unless the renderer threw in prepare().                                 *)
LoadingSettles ==
  \A g \in Group :
    groups[g].status = "loading" ~> groups[g].status # "loading" \/ Unsettled(g)

Undemanding == \A a \in Asset : records[a].demand = 0

StrandedIn(p) == {i \in Image : Stranded(i) /\ records[i].place[1] = p}

(* Pages are left only for their stranded images, and no other region in   *)
(* them is taken or counted.                                               *)
OnlyStrandedLeft ==
  /\ \A p \in DOMAIN pages :
       /\ StrandedIn(p) # {}
       /\ pages[p].allocations = Cardinality(StrandedIn(p))
       /\ Region \ pages[p].free = {records[i].place[2] : i \in StrandedIn(p)}
  /\ \A a \in Shader : ~records[a].program

(* What nobody demands is given back, regions, pages and shaders, unless   *)
(* there is a new demand.  Only what is stranded remains.                  *)
EverythingReleased == Undemanding ~> ~Undemanding \/ OnlyStrandedLeft
=============================================================================
