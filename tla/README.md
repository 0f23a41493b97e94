# Leaf framework: specifications, model checking and proofs

Leaf is a C++ framework for games. This directory holds TLA+ specifications of
the parts of it whose correctness depends on order, on loss and on what
several actors do at once; TLC configurations that check them on small
instances; and proofs, checked by TLAPS, of the invariants that matter most.
Paths below are relative to the repository.

## The system

| component | code | state it keeps | operations | interacts with |
|---|---|---|---|---|
| network channel | `modules/network/channel.cpp` | outgoing and incoming bytes, four offsets, pieces that came early, three timers | `send`, `receive`, `update`, `take_messages` | one socket; owned by a session |
| lockstep sessions | `modules/lockstep` | host: connections with a state each, tick, inputs; remote: state, tick, buffered frames | `update`, `advance`, `submit`, `accept_login`, `send_snapshot`, `finish_snapshot_load`, `disconnect`... | messages over channels; the application answers events |
| component container | `core/component_container.hpp` | slots, free list, dense storage per component type | `create`, `ensure`, `add`, `erase`, `destroy`, `clear`, `find`, `each` | written to and read back from byte streams |
| container changes | `core/component_container.inl` | entity records | `record`, `record_all`, `merge`, `apply`, `reset` | a source and a destination container |
| asset manager | `modules/manager/asset.cpp` | image and shader records with demand and state, atlas pages, submissions under way | `load`, `unload`, `poll`, `update`, `submitted`, `collect`, `prepare` | a thread pool decodes; command buffers and GPU time points |
| virtual filesystem | `modules/core/filesystem.cpp` | mount table, mappings; directory trees of the volumes | `mount`, `unmount`, `status`, `list`, `write_all`, `remove`, `rename`, `copy`, `move`, `open_volume`... | used by almost everything |
| mod loader | `modules/script/mod_loader.cpp`, `mod_enabled.cpp` | loaded mods, mounts, a worker thread, its result; the flags of mods in a file | `load`, `cancel`, `unload`, `result`, `set_mod_enabled`; sorting by dependency | filesystem, localization, prototypes, texture atlas, progress, installers |
| texture atlas | `modules/manager/texture_atlas.cpp` | frames, groups to upload, futures, the open batch | `build_texture_atlas` | thread pool, command buffers, progress |
| thread pool, progress | `core/thread_pool.hpp`, `modules/core/progress.cpp` | task queue; a tree of phases | `submit`, destruction; `add`, `advance`, `value` | shared by threads |
| localization | `modules/script/localization.cpp` | two tables of texts, the mods they came from | load, reload, clear, look up | mod loader's worker, application threads |
| logging | `modules/core/logging.cpp` | queue, pending counter, sinks | `write`, `flush`, `add_sink`, `clear_sinks` | one worker thread |
| scenes, windows, user interface | `modules/application`, `modules/platform` | documents, key bindings, window state | frame and input callbacks | GLFW, RmlUi, Lua |
| graphics | `modules/graphics` | none of its own | a thin layer | external renderer |
| data formats | `core/binary.hpp`, `core/fixed.hpp`, `zip`, `yaml`, `string`, `time` | none | conversions | everything |
| procedural geometry | `modules/procedural` | none between calls | meshing | |

What is hard in it:

- the channel runs over a socket that loses, duplicates, delays and reorders
  datagrams, and retransmission cuts the stream at other places than before;
- host and remote sessions send messages that cross; both stop by sending one
  last message that nobody repeats; either may die; time limits apply in some
  states only;
- a session downloads a snapshot while the host goes on advancing;
- slots and dense places of a container are used again, and identifiers arrive
  from another container;
- assets are loaded, drawn, unloaded and their memory used again while a
  worker decodes and the GPU still reads what was submitted before;
- a load of mods may fail, throw or be cancelled at any of some twenty places,
  while other threads read its progress and wait for its result;
- a path goes through layers of volumes, mounts in mounts and mounted files,
  by different rules for reading, writing and listing;
- threads that flush the log race the worker, which takes the mutex twice for
  every record and writes in between.

`PROJECT.json` lists the hazards with the line where each bites and the
properties that cover it.

## Modules

| module | models | kind |
|---|---|---|
| `MessageStream` | what a channel promises: two ordered streams of messages | abstract specification |
| `Channel` | `channel.cpp`, both ends and the socket between them | detailed, implements `MessageStream` |
| `ChannelProofs` | | theorems about `Channel` |
| `Lockstep` | `host.cpp`, `remote.cpp`, and the application that answers events | composes any number of remote sessions with a host |
| `EntityStore` | what a component container promises | abstract specification |
| `ComponentContainer` | the operations of a container, as operators on its value | library |
| `ContainerUse` | one container and its users | detailed, implements `EntityStore` |
| `ContainerProofs` | | theorems about `ContainerUse`, its format and `ContainerReplication`: a container is sound, implements `EntityStore` and reads back; a replica follows |
| `BinaryFormat` | `bin`: writers, and readers with their cursor, limits and refusals, as operators on sequences of bytes | library |
| `ContainerFormat` | `process` of a container and of the entities of `Changes` | library |
| `ContainerReplication` | `Changes` between a source and a replica, sent as bytes | composes the container of `ContainerUse`, with all its operations, another, and their format |
| `AssetManager` | `asset.cpp`, with the frames of `window.cpp` and a GPU | composes owners of groups, the frame, workers and GPU |
| `AssetProofs` | | theorems about `AssetManager` |
| `MountTable` | the mount table of `filesystem.cpp` and the mappings that keep mounts alive | component |
| `MountProofs` | | theorems about `MountTable` |
| `VirtualFilesystem` | lookups, listings and the calls that change volumes | composes the mount table with directory trees |
| `Progress` | `progress.cpp`, as operators on one branch of the tree | library |
| `Iteration` | loops that run a number of times, as a function of how often | library |
| `TextureAtlas` | `build_texture_atlas` and its `ThreadPool`, as operators on one record | library |
| `ModLoading` | `mod_loader.cpp`: the loading thread, the program, the pool | composes loader, atlas, pool and progress |
| `ModLoadingProofs` | | theorems about `ModLoading` and `TextureAtlas` |
| `Logging` | `logging.cpp`: threads that log and flush, the worker, the destructor | component |
| `LoggingProofs` | | theorems about `Logging` |
| `LockstepProofs` | | theorems about `Lockstep` |
| `Induction` | | lemmas: induction, functions defined by recursion, loops, powers of two, a set as a sequence |
| `MCChannel`, `MCLockstep`, `MCContainerReplication`, `MCAssetManager`, `MCVirtualFilesystem`, `MCModLoading`, `MCLogging` | | instances for TLC |

Operators called "faulty variant" in a comment are wrong versions of the
definition that follows them. No specification uses them: they record which
mistake each property was seen to detect (`mutants` in `PROJECT.json`).

### Channel

Bytes are modelled as bytes, in a small base with a short header, so that a
stream misaligned by one byte is misread as it would be in the program. The
offsets have the names of the code. `Receive` has three disjuncts for the
ways through `Channel::receive`; the loop that drains `reordered` is stated as
the choice of a set of pieces that tile an interval (`Tiles`), which is
unique. `assemble()` is part of `ReceiveNext`. `Update` takes two Booleans:
whether the retry timer and whether the heartbeat have expired. The network is
a set of datagrams for each direction: a datagram stays in it when it is
received (duplication), and may be received at any time later or never. `sent`,
`accepted`, `posted` and `taken` are history.

### Lockstep

Channels are the FIFO queues `up` and `down`, which is what `Channel` is shown
to implement. Because a stopped session never calls `Channel::update` again,
`LoseTail` drops messages from the end of what it sent, its disconnect message
first: that covers loss at a stop, and a process that dies. Each message
handler of `HostSession::receive` is an action; `RemoteSession::update` is one
action that takes the first *n* messages and drains the frames, as in the code.
Time limits are abstracted to "may expire now", in exactly the states in which
the code lets them. The application is part of the environment: it may accept,
reject or disconnect any session at any time, refuse an input, submit inputs,
and supplies snapshots. It calls `finish_snapshot_load` when the
`snapshot_received` event was raised (see the hazards for what happens if it
does so earlier). A snapshot is identified with its tick. `acknowledged_bytes()
>= acceptance` becomes "the remote has read the welcome": its channel
acknowledges bytes in an `update` that has handled their messages before. `Sorted` is any
arrangement in order: inputs that compare equal are the same input, so that
`std::stable_sort` leaves no other.

### Containers

Identifiers are raw values: 0 is null and `ID{ i }` is `i + 1`, so that slots
and dense places are elements of sequences; the dummy at dense index 0 is left
out. `ReadsBack` is the check that `process` makes of a container it has read.
Users pass only identifiers of entities that exist to `add`, `erase` and
`find`, because the code does not check them. In `ContainerReplication`, `owed`
is what the program has touched and not recorded yet; the properties say
nothing of those. A replica begins empty and is owed everything (`Rejoin`), or
reads what the source wrote (`JoinBySnapshot`).

`BinaryFormat` keeps the format of the code for any number of bits in a byte
and of bytes in a `size_t`: little-endian integers, Booleans that are 0 or 1,
size varints whose last byte may use only the bits that are left. A reader takes
the input and the cursor and answers a value and the next cursor, or an error,
which ends every reader that meets it, as each `if (auto err = ...)` returns
early (`OneMore` for an element of a vector). A component's
type is not known to the container; its value is one byte here, of its own
kind, that is never read as a number, and damage is to the other bytes. Since
numbers and values cannot be taken for each other, damage that would make the
reader do so is refused earlier than in the program.

### Assets

A step is a section under `records_mutex`, or a call of the renderer, so that
everything between two of them can interleave: `poll` is `PollCollect` and
`PollRecords`; `begin_frame` is `BeginFrame` and `UpdateFrame`; `end_frame` is
`EndFrame` (the submission) and `FrameSubmitted` (`asset::submitted`); a turn of
the loop in `prepare` is seven actions, and the renderer may throw in any of its
calls there (`PrepareThrow`). The actors are the thread that draws
frames, one owner for each group (in `Preparing` it calls `prepare`, otherwise
it polls), the workers (`Decode`) and the GPU (`Finish`). Images and shaders
share one kind of record; a shader is ready or failed when `load` returns.

What is abstracted: regions have one size, so that which of the fitting regions
the packer takes does not matter. A time point is a name, used again when nobody
knows it any more; `submissions` and `retirement` hold only those not reached,
which is what every test of them asks. Command buffers have handles
from `Commands`: a buffer that is created gets any that no other has, also one of
a buffer that was destroyed (`Destroy`), of which records may still have the
handle. `contents` says what a region of a page shows, and
`flight` what the GPU has still to write and to read.

Three obligations of the program around it are part of the model: an owner does
not unload a group while a frame that draws from it has not been registered by
`submitted` (`InUse`); it does not poll a group whose `prepare` was left by an
exception, but prepares it again or unloads it (`PollCollect`); and `exit` is called when
nothing else runs, as in `framework/leaf.cpp`. The first two matter, see below. Of
the renderer it is assumed that `Queue::Submit` that throws has submitted nothing
and that `Timepoint::Reached` answers; exceptions in the window's own frame
are left to the program and not modelled.

### Filesystem

A path is the sequence of its components. The vector of mount records is a
function from ids, because records are only appended, with ids that grow; a
mapping, the token that unmounts when it is dropped, is an id in `held` or
`system`. A volume is a directory tree: a function from paths to "missing",
"dir" or the contents of a file. `Node` is `stat` on POSIX: below a file the
error is another one than "no such file", which `resolve` does not pass over.
Native calls are modelled by what they do to the tree, with the checks that
`native_volume` makes before them in their order. The calls are operators
`[ok, why, trees]`, so that the parts of `copy` and `move` compose as in the
code, and what is done before an error stays done. `copy_file_contents` opens
its output before it reads its input.

Before a call something may go wrong with the devices (`DevicesFail`): `faults`
names the nodes that cannot be made or opened for writing, that do not take
their contents, and that cannot be removed. `create_directories` then stops half-way
down a path, a file is left unfinished ("empty", which stands for any part of its
contents), `copy` leaves what it has copied, and `remove_all` what it could not
remove or had not come to (`Left`) with the directories above; any part of a
tree can be left so, as any nodes can be named. A rename is made or not, since the
system's is atomic, but the removal of its destination before it may stop half-way. An
input that cannot be read leaves what an output that cannot be written does. A staging
file of `write_all_atomic` that cannot be removed after an error is not followed.

Each call works on a snapshot of the table and does not hold its mutex; the
model makes calls one at a time. `Fits` keeps what is written within the depth
of the model; copying a directory into itself is left out, where the code does
not come to an end.

### Loading mods

A step of the loading thread is a section between two places where it looks
whether it has been cancelled, or shorter; each may fail or throw where the
code can (`Fails`), and what it has written by then stays until the rollback.
`databases` is what loading fills, each part as a set of mods. `load` and
`unload` are two steps, because they hold `operation_mutex` while they join the
thread (`waiting`). `build` is the texture atlas under construction: `Uploads`
takes a group that is decoded and has the pool begin the one that is due;
`PoolTakes` and `PoolEnds` are the pool's threads; `AtlasThrows` is an exception
of the renderer, after which the destructor of the pool ends what it was given.
`Progress` is the branch of the tree that is under way, from the root that
others read to the innermost node; it has one child at a time in a load.
Versions are compared as numbers.

The atlas itself is computed as in the code, in texels: which frames are kept
and how they are reduced (`Inspected`; the rounding of `lround` is exact, that
of the `f32` scale before it is not modelled), the square that is doubled until
they fit (`Packed`), the number of levels, what each frame writes of each
(`First`, `End`), from which points of the padded frame a texel is averaged and
which pixels of the image those repeat (`Averaged`, `ImagePixel`). The rectangle
packer is external and any that keeps rectangles apart would do; `Shelved` is one.
Colours are left out. The limits of the code's integer types are the constants
`LargestFrame` and `LargestAtlas`.

### Logging

A step is a section under the mutex or a call of the sinks. Both condition
variables are modelled by what they do: a thread in `flush` is asleep until it
is notified or wakes up by itself (`WakesUp`, which no fairness grants), then
looks at the predicate again. The worker's own wait needs no notification in
the model, as whoever makes its predicate true notifies it afterwards.

## Runs

| run | instance | shows |
|---|---|---|
| `channel` | two messages one way, bytes of one bit, header 2, packet 2, window 4 | offsets ordered, the accepted bytes a prefix of those sent, no invalid acknowledgement, framing, bounded buffers, refinement of `MessageStream` |
| `channel_lossy` | one message longer than the window, packets of 1 byte, losses | under fairness every message arrives and everything is acknowledged and trimmed |
| `lockstep` | 2 remotes, one place or no limit, 2 ticks, 2 inputs each | the remotes run the host's frames, nobody breaches the protocol, the two sides agree, inputs once and in order, client limit, distinct identifiers |
| `lockstep_live` | 1 remote, inputs of the host, fairness | a login settles; each side notices that the other has gone |
| `replication` | 2 component types, 2 values, 3 slots; any number of operations on a container alone, 3 on one with a replica; bytes of 3 bits, 3 in a size, at most 5 elements, damage to containers of 2 slots | the container implements `EntityStore` and reads back from its bytes exactly, cut or continued ones are refused, damaged ones refused or coherent; the replica follows, with no entity missing |
| `record_all` | expected violation | `Changes::record_all` never records the entity in the first slot, here the only one |
| `assets` | 2 polling groups, 1 image, 1 region to a page, 2 loads each, `exit` and `init`, exceptions while placing | demand counts the groups that hold it, a region has one holder, what the GPU is still to read is the image that was drawn |
| `assets_prepare` | 1 preparing group and frames, 2 images, 2 regions, 3 handles, dropped frames, exceptions in `prepare` | a ready group finds its images, a page has one command buffer writing to it |
| `assets_live` | 1 preparing group, 1 image, 1 shader, 2 regions, 3 handles, exceptions in `prepare`, fairness | a load settles; what nobody demands is given back; but for what such an exception has stranded |
| `filesystem` | 6 paths of depth 3, 3 directories, 3 mounts (those of `init` count as two), a mounted file, opened volumes, one call that changes a volume, 3 faults of the devices | mounted files stay visible; `status`, `list` and reading show one namespace; writes read back; a move moves all or fails, and leaves what it says |
| `mods` | 8 sets of up to 3 mods, 6 files of textures, 2 pool threads, 2 installers, 2 loads | all or nothing, dependencies first, every frame copied once and kept apart on every level, progress that never falls, every load ends |
| `logging` | 2 threads, 3 records, 3 flushes, 2 levels and none, destruction | records in order; a flush returns, after what was logged before it |

Why the bounds are enough. *Channel*: two messages make six bytes, so there is
more than one window (4), every packet boundary falls inside a header or a
message in some execution, three different cuts of the stream overlap, and
trimming happens on both of its conditions. Only one direction carries
messages; the other carries acknowledgements, and the two directions share no
state but the datagram. The theorems remove all bounds for the safety
properties they cover. *Lockstep*: the remotes are connected only through the
host's inputs, frames and places, so two of them show every interference
between two; two ticks make frames before, during and after a download. Two
inputs of each remote show order and repetition. *Containers*: three slots
hold an erased component, the one that fills its gap and a bystander; two
component types tell whether storages are confused. The replication was also
run with five operations and one component type. Four elements, three
components and the dummy, need a size of two bytes, each of which carries two
bits of nine, so that the last of five may carry one only. *Assets*: with
one image and one region to a page, memory is used again as early as it can be,
which is what makes a premature release visible; two groups make a demand that
outlives one of its holders. Placement needs two images and two regions for
two command buffers to meet in a page. Two time points are a frame under way
and the next. The liveness properties were also checked once with a polling and
a preparing group, and with two images and three time points. Three handles are one
for the window, one for the call of `prepare`, and one more, so that a new buffer
may get an old handle or not. *Filesystem*:
the calls are deterministic functions of table and trees, and the properties
ask every write and every move in every state reached; what matters is that
tables and trees get mixed: mounts before and after a call, layers that hide
each other, a mount in a mounted directory, a removed mount point. The
faults are those that stop a directory's move from one volume to another in its
copy, after a part of the removal of the source, and also in the removal of the
copy. *Mods*: a
failure or cancellation at each step and a second load after it; more groups
of frames than threads of the pool, a frame larger than a batch, files that
cannot be read or decoded, frames of one file in two textures, parts of an image
and whole ones, one part outside its image, one image reduced, padding that
allows two levels of the three asked for. *Logging*: three
records and three markers put a flush before, between and after records of the
other thread; the theorems remove the bounds for safety.

`CHECK_DEADLOCK FALSE` is set where the bounds on messages, inputs, calls and
records let the system come to rest; the container runs and `mods` check for
deadlock.

### Fairness

`LossySpec` in `Channel`: owners call `update()` and `take_messages()` on
every pass of their loop and time passes, hence weak fairness of both with
expired timers. Strong fairness of `Advance`, a receive that changes
`received` or `acknowledged`, says that the socket does not lose every copy of
a datagram that is sent again and again; without it no protocol gets anything
across. `FairSpec` in `Lockstep`: weak fairness of the receives and of the
remote's `update` is what `LossySpec` gives while both sides live; the
application answers the events it is given (`AcceptLogin`, `SendSnapshot`,
`FinishLoad`); a time limit is only relied upon when the other side has
stopped for good. A lost tail is not recovered.

`FairSpec` in `AssetManager`: frames are drawn in a loop, owners poll while they
load, `prepare` goes on by itself, workers decode and the GPU completes what was
submitted; nothing obliges the renderer to throw. The fairness of frames and of `prepare` is strong only because
the bound on time points may block a submission until the GPU has finished
another; in the code nothing blocks it. It relies on a window that stays
drawable: while it is minimised, `begin_frame` returns before `update`, and
nothing is uploaded by frames. No fairness of `Load`, `Cancel` or `Unload`.

`Spec` of `ModLoading`: the loading thread and the threads of the pool are
scheduled, and every call they make returns; a `load` or `unload` that has
been called goes on once it can join. Nothing is assumed of cancelling.
`Spec` of `Logging`: the worker is scheduled, and a thread that was notified
looks at the predicate. Waking up without a notification is possible and never
relied upon. `flush` waits for an empty queue, not for its own marker, so a
thread that is flushing could starve while others go on logging for ever; the
bound on records excludes that, and `FlushReturns` does not speak of it.

## Theorems

All theorems are proved by TLAPS for every value of the constants, from the
named assumptions of the modules.

`ChannelProofs`: `TypeCorrect`, `CountersInOrder`, `StreamIntegrity`,
`NoInvalidAcknowledgement`, `WindowNeverDropsNewBytes` and `MemoryBounded`
are `Spec => []P` for the invariants of run `channel`, except the framing. None
of them is inductive. The inductive invariant `IInv` adds what relates the
buffers to the streams: `outgoing` is the tail of `sent` from `outgoing_base`
(`OutgoingIsTail`); every datagram under way, however old, carries a slice of
the sender's stream at its offset and an acknowledgement that is not ahead of
what its sender had received (`DatagramsAreSlices`); every piece held in
`reordered` is such a slice (`PiecesAreSlices`); trimming keeps up
(`TrimKeepsUp`). `IInv` was checked with TLC first. The step that matters is
`ReceiveNext`: the bytes of the datagram are a slice that begins where
`accepted` ends, the pieces that `Tiles` picks are slices that continue it
without gap, and slices of one stream that meet are one slice.

`MessagesComeWholeAndInOrder` is the framing, and `ChannelImplementsStreams`
rests on it: `Send` is a `Post` of `MessageStream`, `TakeMessages` a `Take`,
and every other step a stutter. The invariant `DInv` adds to `IInv` that there
are places at which the frames of the messages posted begin (`Framed`), that
what was delivered is the messages before one of them, that `incoming` holds
the bytes from there to `received`, and that these do not make up the next
message (`DeliveredBy`). TLC checked it with the bounds of run `channel` before
it was proved. Two facts carry the proof. The header tells the size
(`HeaderTells`): two sizes with the same digits are the same, from the most
significant digit down. And the loop of `assemble()`, begun at a place where a
frame begins, stops at such a place, with every message that lies between, and
only when the next one is not complete (`AssemblyReads`, over `Pass` for one
pass).

The assumptions are `EndAssumption` (two ends), `SizeAssumption` (sizes are
positive), `MessageAssumption` (messages are byte sequences whose length fits
the header), `LimitAssumption`, and `PowerAssumption`, which states of the
powers of `Base` what no installed prover computes; TLC evaluates all of them.

`ContainerProofs`: `TypeCorrect` and `ContainerStaysSound`. Here the
invariant is inductive once the two are joined: `Sound(c)` says that `c` has
its type and reads back, and there is a lemma for each operation, stated of any
sound container, so that they hold for source and replica alike. The hard ones
are erasing, where the last component of a type moves into the gap and its
owner's slot is redirected (`FilledPlace`), and `ensure`, which takes an
identifier out of the middle of the free list.

`ContainerImplementsStore` says that `ContainerUse` implements
`EntityStore`. For each operation a lemma says which entities exist after it on
a sound container and what each of them carries (`AddedEntities`,
`ErasedEntities` and so on), and one more that the step is then a step of the
abstract store or changes nothing there. Soundness is what the argument needs:
the component that fills a gap is found by its owner at the new place, and every
other entity finds its own where it was, because an index in a slot and the
owner at that index point to each other (`FilledValue`). The assumption is
`SlotsAssumption` alone.

`ReplicaStaysInStep` and `BytesReadBackAlways` are about `ContainerReplication`,
for any number of slots, component types, values and operations, and bytes and
sizes of any width. What a replica will show is not inductive: `InStep` adds
that both containers are sound, that what is recorded and what waits to be sent
are changes of different entities, and that the newest change of an entity
decides whether it will exist (`WillExist`), for what exists without a component
shows the same as what does not exist. There is a lemma for each action
(`CreateInStep` to `ReplacedInStep`). The loops of `record_all`, `merge` and
`apply` are followed turn by turn (`RecordAllFollows`, `MergeFollows`,
`AppliedFollows`): after each, what the container or the changes show of the
entities passed is what it should be, and of the others what it was.

Since changes and snapshots travel as bytes, both theorems need that these read
back (`ChangesReadBack`, `ContainerReadsBack`). There are three facts of every
reader: it answers a value of its type or an error (`Readings`); what it accepts
it reads in the same way where the input goes on (`Agrees`); and where the bytes
of a value stand in the input, it answers that value with the cursor behind them
(`At`). They are proved from the bottom: the groups of bits of a number, put
together, are the number (`NumberOfDigits`, from how division and powers of two
behave); a size ends at one place, whose bits are what is left of a `size_t`
(`SizeDigits`, `OneEnd`); then vectors, from elements that are read one by one
(`EachRead`, `VectorRead`), storages, containers and changes. That prefixes are
refused follows from `Agrees` and `At` together: a prefix that were accepted
would be read in the same way in the whole, whose cursor is behind all of it.
And whatever bytes are read as a container have passed the checks at the end of
`process`, from which it follows that slots, owners and free list fit together
(`ReadPartsCoherent`).

Besides `SlotsAssumption` the format has `FormatAssumption` (a byte has two bits
at least, a `size_t` one byte, and limits are numbers a `size_t` can hold),
`ComponentAssumption` (finitely many component types, and their values told
from numbers, see above) and `LimitAssumption`: a container has fewer slots than
`max_vector_elements`, which is the largest `size_t` unless a caller sets it
(`binary.hpp:128`), so that its storages, with their dummies, are not refused.
In the repository, only a test does (`tests/core/binary.cpp:331`).

`LockstepProofs`: all the safety properties of run `lockstep`, for any finite
set of remote sessions, any limit, and any number of frames and inputs. There
are three invariants, each of which rests on the one before.

- `PInv`, for `PlacesAreLimited` and `IdentifiersAreDistinct`, adds that no
  identifier is greater than the number of connections (`PlayersBelow`), from
  which the next one is taken. The actions that matter are `Open` and
  `ReceiveJoin`.
- `SInv`, for `RemotesFollow`, `ProtocolIsKept` and `TheSidesAgree`, says of
  each session that it, its connection and the two queues between them fit
  (`Link`). All that the host ever sends a session is one script: the welcome,
  the announcement of the snapshot, the snapshot, and the frames from there on
  (`Script`). `Position` is how much of it a session has read, and what is on
  its way is the rest of it (`Due`), up to the last frame made if the
  connection gets frames (`UpToDate`); what the session has run and what it
  holds back are frames of the host from its snapshot on (`InOrder`). In the
  other direction, a session sends what the state of its connection allows for
  (`UpFits`, `UpExact`). `Where` has which states of the two sides go together.
  None of the three properties is inductive without this: that no message is
  out of place depends on what is still on its way in both directions. Since
  `RemoteUpdate` reads any number of messages and then drains any number of
  frames, there is a lemma for one message (`HandledFollows`) and for one frame
  (`AppliedFurther`), and the induction of module `Induction` carries them
  through (`HandledFirstFollows`, `DrainedFollows`).
- `CInv`, for `InputsArriveOnceInOrder`, counts: the inputs of a source that
  frames carry or that wait have the numbers 1 to *k*, in order (`Numbered`), the
  inputs on their way have those after *k*, and the session has submitted so
  many in all (`Pending`). `SortedArranged` proves that the sort of `advance`
  rearranges and never drops (existence by insertion, as `Sorted` is a
  `CHOOSE`), and `FrameMoves` that a frame so made leaves the inputs of each
  source in their order.

`SInv` and `CInv` were checked with TLC on instances of the run before.

`MountProofs`: `MountsAreHeld` (every mount has exactly one mapping that will
take it out) and `FilesStayVisible`. `TInv` states of any two records what
`attach_record` compares a new record with (`Disjoint`): mounts at one
destination are all files or all volumes, and nothing is mounted below a file.
It is needed because a later mount is refused by comparison with each record,
while visibility is about the longest of all matching destinations.

`LoggingProofs`: `RecordsInOrder` and `FlushCoversCalls`, for any number of
threads, records and flushes. `LInv` adds that what is written, what the worker
holds and what is queued make the numbers up to `sequence` in order
(`QueueInOrder`), that `pending` counts the last two (`WorkerHolds`), and what
holds once the worker has ended (`AtTheEnd`). The flush is right because
`pending` also counts the record in the worker's hands, which the queue no
longer shows.

`ModLoadingProofs`: `LoadsAreAllOrNothing` (`AllOrNothing`), of which
`FailuresLeaveNothing` is the half about failures, `ResultsAreFinal`,
`BuilderIsServed` (`DecodingAhead`), `DependenciesComeFirst`
(`DependenciesFirst`), `FramesAreCopiedOnce` and `FramesAreKeptApart`, for any
mods, dependencies, files, frames and threads. In
`MInv`, `FailedClean` follows a failure from the rollback to the result,
`OnePromise` says that the one result still pending is that of the load under
way, and `Ahead` that the groups from the next one on are, in this order,
prepared or being decoded, and then queued. The builder's `get()` returns
because the slot of the group it takes is the one that the group begun then
goes to: as many are begun at first as later are ahead.

`LoadsAreAllOrNothing` adds what a load that succeeds leaves. `PlaceInv` says,
for each place the thread can be at, what is in place by then: it follows the
mods from the catalog over those still to be mounted, the enabled ones, their
names, prototypes and textures to the frames of the atlas, through a build that
may be entered many times. `ProgressInv` is about the progress, which is complete
although nobody sets it to one: the root waits for one phase of weight one
(`Reaches`), phases end in the order they began however deep the load was when it
failed, and the end of the outermost is that of the root's only phase
(`Through`). Without the depth, an unwinding could close a node of the caller.

`DependenciesComeFirst` is about the depth-first search. `Search` is a loop
over mods around a recursion, and `Visit`, the recursion, a loop again, so the
proof goes in two inductions: over how deep searches lie within one another
(`SearchSorts`) and over the mods one of them looks at (`VisitSearches`). What
a search knows when it has met no cycle is `Known`: a visited mod is in
`order` or on the stack, never on both, and whatever is in `order` comes after all
that depend on it. That the depth never exceeds the number of mods is part of
it: each search within another adds a mod to the stack. `SortedMeets` concludes
for the reversed order, with names that occur once. `ListInv` carries the list
from the catalog to `loaded_mods`; `SelectedPlaces` says that choosing the enabled
mods keeps their order and takes none twice.

`FramesAreKeptApart` is `FramesKeptApart` for frames of any number and size, any
padding and any number of levels. It has four parts.

- The packer (`PackedApart`). `Shelved` is a loop that puts each rectangle
  beside the one before or, where that does not fit, on a new shelf over all of
  them. What keeps them apart is `SoundShelves`: all that is placed ends below
  the shelf, or is on it and ends before the place of the next. `Packs` says that
  some attempt fits, and `TriedOf` that the loop over growing sides stops at such
  a one; the atlas is then large enough for all of them. Nothing is said of
  frames that no attempt fits, as in the code (see the remarks below).
- What is packed (`InspectedPictures`, `FrameIsPicture`). A frame is a part of
  its image or all of it, reduced if it is too long, and never empty, so that
  the sizes handed to the packer are positive whatever the files contain.
- What is shown (`ShownIsWrittenOnce`, a theorem of its own about any layout of
  frames that lie in the atlas and apart). The texels of a frame are rounded
  outwards, so that on a level of scale *s* neighbours that touch write common
  texels; these hold nothing but padding as long as *s* is at most the padding
  plus one, and `LevelsWithinPadding` says that the loop over levels stops in
  time. `OnOneAxis` has the arithmetic, `Powers` that of powers of two.
- What it is made of (`AveragedPoints`, `PixelWithin`). A texel of level *l*
  that is shown averages the 4 to the power *l* pixels below it, and each of them
  repeats a pixel of the frame's part of the image.

`AtlasFrames` carries the frames and their layout from the step that packs them
to the end of the build (`FramesStayPlaced`).

`FramesAreCopiedOnce` is `FramesCopiedOnce`. The groups are a partition of the
frames (`GroupsPartition`), and `InTurn` is what holds between two frames: those
copied and those in the batch being recorded are, each once, the decodable ones
of the groups taken so far; the batch is empty exactly if its bytes are none, and
within the limit if it has more than one frame. A group adds its frames one after
another (`CopiedOne`, `GroupInTurn`), with a submission before a frame that would
exceed the limit; the last batch is submitted by `Finalized`, which is also the
one place where the texture becomes readable. A batch could be taken for empty
although it has frames if the bytes of one were none; `FrameBytesPositive` excludes
that. The assumptions of both theorems are `AtlasAssumption` (limits are
positive, images have positive extents, sources name parts by natural
numbers) and `ModAssumption` (every mod has a sequence of textures, which may be
empty).

`AssetProofs`: `DemandsAreCounted`, `RegionsAreHeldOnce`, `ReadsStayIntact`,
`ReadyGroupsAreServed` and `PagesHaveOneUploader`, which are all the invariants
of the runs `assets` and `assets_prepare`, for any images, shaders, groups,
command buffers, pages and regions. `IInv` follows an image on its way: it is
being decoded, in a command buffer, or submitted, and only one of them
(`OnItsWay`); an upload that is not done is the business of the record of its
image, which names the command buffer or the timepoint (`UploadsAccounted`); a
read that is not done is of an asset that is ready, and either has a demand or
has the timepoint in its `retirement` (`ReadsAccounted`); a timepoint between
`Queue::Submit` and `asset::submitted` is known to its command buffer alone
(`BuffersInUse`); an upload that was submitted is under way or has arrived
(`ContentsArrive`); and what a group has seen ready stays ready while the group
demands it (`CompletedStaysReady`). None of the five is inductive without these:
that a place is not written over needs both sides of a race, the retirement of
what is unloaded and the upload of what is placed. There is a lemma for each
action. The hard ones are a collection (`CollectionStep`), which gives back what
no unfinished read can be of, `submitted()` (`RegisterStep`), which moves an
image from a command buffer to a timepoint while other buffers are pending, and
`update()` (`UpdatingStep`). The loops of `load()` and `update()` are functions
from turns to what they have made so far (`LoadTurns`, `UpdateTurns`); what
holds after each turn (`LoadedFrom`, `UpdatedFrom`) is proved by induction.

`Induction` makes that possible. An induction over the numbers is stated of a
set, a recursion of a function, so that no lemma takes an operator as a
parameter: `LeastNumber` follows from the well-founded order of finite sets
under inclusion, `SetInduction` and `IntervalInduction` from it, and
`RecursiveFunctionExists` and `RecursionWithin` say that a function defined by
recursion exists, and where its values lie. A recursive function in TLA+ is a
`CHOOSE`; without its existence nothing is known of it. `IteratedSteps` says the
same of the loops of `Iteration`, and `SetAsSequence` what the order of a finite
set's elements is like.

Proved and in no run, as they follow the invariants that are: the types,
`WindowAdmitsNewBytes` and `CountersAdvance` of the channel, and `MountsHeld`.

Only model-checked: liveness (`ImplementsFairly`, `EventuallyAcknowledged`,
`LoginSettles`, `DeparturesNoticed`, `LoadingSettles`, `EverythingReleased`,
`LoadsFinish`, `FlushReturns`), which the prover does not do; the action property
`ProgressNeverFalls`, an inequality between products of weights along the
branch; what rests on the recursive operator
`Copy` in `VirtualFilesystem`, whose module the provers cannot be used on.

## What the work has shown

`Changes::record_all` (`core/component_container.inl:26`) starts at index 1. It
was written for a container whose slot 0 is a dummy; the container counts from
zero, as its test says, so the first entity is never recorded and a replica
that is filled by `record_all` lacks it.

Two states of the lockstep protocol have no time limit on one side: a remote
session that waits for its snapshot, and on the host a session that downloads
one. If the other side goes and its only disconnect message is lost, the first
waits for ever and the second keeps its place under `max_clients`. The
liveness properties except exactly these states.

In the asset manager, six things hold only under conditions the code does not
state. No documentation contradicts them, so they are listed as hazards.

- `Window::discard_frame` replaces a command buffer that was begun and not
  submitted. Uploads recorded in it by `begin_frame` are lost: their
  records keep `commands`, and are loading for ever, or taken for uploaded if
  the handle is used again and submitted. `lost` is the history of them, and
  `ReadyGroupServed` excepts them.
- An exception of the renderer in `prepare` (`asset.cpp:337` to `350`) leaves the
  group loading without progress, and a further `poll` dereferences the progress
  (`asset.cpp:305`, `316`). Between `update` and `submitted` the recorded uploads go
  with the command buffer, while `upload_commands` stays set: `collect` skips such a
  record, its image is loading and its page taken for ever; or another buffer gets the
  handle, and `submitted` makes the image ready though it was never uploaded.
  `ReadyGroupServed` excepts the images in `lost`; `LoadingSettles` excepts groups
  that were left so or wait for a stranded image (`Unsettled`), and `EverythingReleased`
  says that only the regions of stranded images remain (`OnlyStrandedLeft`).
- An exception in `allocate` after the packer gave a region leaves the region
  in a failed record; a reload takes another region and the first is never given
  back.
- An `unload` between `Queue::Submit` and `asset::submitted` does not retire the
  memory after that frame. Hence `InUse`.
- `exit` resets the pool of workers without holding the lock.
- `prepare` called on the frame's thread between `begin_frame` and `end_frame`,
  for an image whose upload is in that frame, waits for a submission that only
  its own thread would make.

Loading mods, the filesystem and logging do what they should within the model,
save for one case of a failing device:

- `move` across volumes copies, then removes the source, and removes the copy if that
  fails (`filesystem.cpp:1703`). `remove_all` may fail after it has removed a part of
  the source, and then the copy, the only whole one, is removed as well: that part is
  lost. No documentation promises more (`filesystem.hpp:246`), so it is not
  a finding; `MovesAllOrFails` says what a failed move leaves, this included, and that
  there is no other way to lose something. A copy that fails leaves its part of the
  destination.

Remarks of the same kind:

- `texture_atlas.cpp:417` says that a padding texel is kept at the coarsest
  level. Frames are not placed at multiples of that level's texel, so the texel
  beside what is shown of a frame may be one that its neighbour wrote, and
  filtering at the edge takes it in; what is shown itself is never overwritten.
- Frames or an atlas too large to pack leave a layout with every frame at the
  origin of a small texture, and the atlas is built with it and reported as done.

- `rename` that may replace removes the destination before it renames
  (`filesystem.cpp:886`). Where the rename then fails, for one because the
  source does not exist, the destination is gone, although the operation is
  described as atomic (`filesystem.hpp:459`). `MovesAllOrFails` speaks of free
  destinations only.
- `copy` of a file onto another path of the same file, which exists when one
  directory is mounted twice, empties it: the output is truncated before the
  input is read.
- `list` fails on a directory that an older layer has as a file, while `status`
  reports the directory (`Clash` in `NamespaceCoherent`); the mount point of a
  volume whose directory was removed is listed and not found (`Lost`).
- A write beneath a mounted file goes to the volume it hides, is reported as
  written, and the mounted file is read (`WritesReadBack` excepts it).
- `mod_enabled.cpp:62` says that new mods are added as disabled; mods of a
  privileged source are added as enabled.
- A `bin::ref` in the value of an `unordered_map` is read into a local
  (`binary.hpp:1110`), and `read_refs::defer` keeps the address of that local
  until the references are resolved.
- The identifiers of a `Changes` that is read from bytes are not checked:
  `apply` of an entity with the null identifier throws in `ensure`.
- `ReloadLocaleFiles` hands the vector of cached mods to a function that assigns
  it to itself, and reads it without the lock.
- In `flush`, `pending == 0` alone would do: a marker left in the queue changes
  nothing that was written. Asking for an empty queue as well is what lets
  others hold a flush up.

## Not modelled, and the plan

Not modelled, because there is no state machine of their own to check: graphics,
window and user interface adapters, sockets, vendored code, procedural geometry,
and data formats save for what containers use of the binary one. The slot map and the swap buffer are templates that nothing
instantiates. Left out of components that are modelled: streams, times, symbolic
links and `begin_atomic_write` in the filesystem; lookup and
`SetLanguage` in localization; what scripts, settings and prototypes hold;
`split`, `set` and `path` of a progress; `add_sink` and `clear_sinks`, which race the worker whatever the order
(see the hazards); `LocalSession`, which has one actor.

Left of the plan:

1. Switching mods and languages while a load is under way, and the key bindings
   of scenes.
2. Streams and staged writes that outlive the mount they were opened through.
3. Strings, maps, versions and graph references of the binary format.
