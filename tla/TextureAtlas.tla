---------------------------- MODULE TextureAtlas ----------------------------
(***************************************************************************)
(* build_texture_atlas() (manager/texture_atlas.cpp): frames are read and  *)
(* placed; a ThreadPool (core/thread_pool.hpp) decodes their files, a few  *)
(* ahead of the builder, which copies the pixels to the texture in batches *)
(* of a bounded size, each waited for.  The state is one record, `build`,  *)
(* of the builder's local variables, the pool's and what the GPU has done. *)
(* Points and extents are pairs of numbers, one for each axis.             *)
(***************************************************************************)
EXTENDS Progress, Iteration, FiniteSets, FiniteSetsExt

CONSTANTS
  Frames,       \* frames of each texture: sequences of files with a part
  Extent,       \* extent of each image file that can be read
  Undecodable,  \* files that can be read and not decoded
  FrameExtent,  \* max_frame_extent, and at least 256
  Padding,      \* options.padding
  MipLevels,    \* options.mip_levels
  MinimumExtent,\* minimum_atlas_extent
  LargestFrame, \* longest side that the packer takes
  LargestAtlas, \* longest side that the packer fills
  BatchLimit,   \* atlas_upload_batch_byte_limit
  Workers       \* threads of the pool

Axis == 1 .. 2
Extents == (Nat \ {0}) \X (Nat \ {0})

ASSUME AtlasAssumption ==
  /\ Workers \in Nat \ {0} /\ BatchLimit \in Nat
  /\ FrameExtent \in Nat \ {0} /\ Padding \in Nat /\ MipLevels \in Nat
  /\ {MinimumExtent, LargestFrame, LargestAtlas} \subseteq Nat \ {0}
  /\ IsFiniteSet(DOMAIN Extent)
  /\ \A file \in DOMAIN Extent : Extent[file] \in Extents
  /\ \A texture \in DOMAIN Frames :
       /\ Frames[texture] \in Seq(Range(Frames[texture]))
       /\ \A source \in Range(Frames[texture]) :
            {source.pos, source.dim} \subseteq Nat \X Nat

NoBuild == [at |-> "none"]

Larger(a, b) == IF a < b THEN b ELSE a
Smaller(a, b) == IF a < b THEN a ELSE b
CeilDiv(a, b) == (a + b - 1) \div b

-----------------------------------------------------------------------------
(* A frame shows a part of an image: all of it if its source names none,   *)
(* reduced if its longer side is too long.                                 *)
IsWhole(source) == 0 \in {source.dim[1], source.dim[2]}

Valid(source) ==
  /\ source.file \in DOMAIN Extent
  /\ \/ IsWhole(source)
     \/ \A d \in Axis : /\ source.pos[d] < Extent[source.file][d]
                        /\ source.pos[d] + source.dim[d]
                             <= Extent[source.file][d]

Reduced(dim) ==
  LET longest == Larger(dim[1], dim[2])
      Rounded(n) == (2 * n * FrameExtent + longest) \div (2 * longest)
  IN  IF longest <= FrameExtent THEN dim
      ELSE [d \in Axis |-> Larger(1, Rounded(dim[d]))]

FrameOf(source) ==
  LET dim == IF IsWhole(source) THEN Extent[source.file] ELSE source.dim
  IN  [file |-> source.file, dim |-> dim, size |-> Reduced(dim),
       pos |-> IF IsWhole(source) THEN <<0, 0>> ELSE source.pos]

(* inspect_frames() keeps the frames whose file can be read and has them.  *)
Inspected(sources) ==
  LET valid == Selected(sources, {i \in DOMAIN sources : Valid(sources[i])})
  IN  [i \in DOMAIN valid |-> FrameOf(valid[i])]

-----------------------------------------------------------------------------
(* pack_frames()                                                           *)
Padded(frame) == [d \in Axis |-> frame.size[d] + 2 * Padding]

BitCeil[n \in Nat] == PowerOfTwo(CHOOSE k \in 0 .. n : PowerOfTwo(k) >= n)

CeilSqrt[n \in Nat] == CHOOSE r \in 0 .. n : r * r >= n

(* stb_rect_pack places rectangles without overlap, here on shelves: each  *)
(* to the right of the one before, or on a new shelf above.                *)
Shelved(sizes, extent) ==
  LET Shelves == [places : Seq(Nat \X Nat), end : Nat, shelf : Nat,
                  height : Nat]
      place == [x \in Shelves \X DOMAIN sizes |->
                  LET last == x[1]
                      size == sizes[x[2]]
                      above == last.shelf + last.height
                  IN  IF last.end + size[1] <= extent[1]
                      THEN [places |-> Append(last.places,
                                              <<last.end, last.shelf>>),
                            end |-> last.end + size[1], shelf |-> last.shelf,
                            height |-> Larger(last.height, size[2])]
                      ELSE [places |-> Append(last.places, <<0, above>>),
                            end |-> size[1], shelf |-> above,
                            height |-> size[2]]]
      none == [places |-> <<>>, end |-> 0, shelf |-> 0, height |-> 0]
  IN  Iterated(place, none, Len(sizes)).places

Fits(sizes, places, extent) ==
  \A i \in DOMAIN sizes : \A d \in Axis : places[i][d] + sizes[i][d] <= extent[d]

Unpacked(sizes) ==
  [extent |-> <<MinimumExtent, MinimumExtent>>,
   places |-> [i \in DOMAIN sizes |-> <<0, 0>>]]

Packable(sizes) ==
  \A i \in DOMAIN sizes : \A d \in Axis : sizes[i][d] <= LargestFrame

(* The square that has the area and the widest frame, and the n-th extent  *)
(* that is tried: one of the sides is doubled each time.                   *)
Square(sizes) ==
  LET area == [x \in Nat \X DOMAIN sizes |->
                 x[1] + sizes[x[2]][1] * sizes[x[2]][2]]
      widest == [x \in Nat \X DOMAIN sizes |-> Larger(x[1], sizes[x[2]][1])]
  IN  Larger(BitCeil[Larger(MinimumExtent,
                            CeilSqrt[Iterated(area, 0, Len(sizes))])],
             BitCeil[Iterated(widest, 1, Len(sizes))])

Tried(side, n) == <<side * PowerOfTwo((n + 1) \div 2),
                    side * PowerOfTwo(n \div 2)>>

TooLarge(extent) == \E d \in Axis : extent[d] > LargestAtlas

(* The first extent that has room for the frames, or is too large.         *)
Ends(sizes, extent) ==
  \/ TooLarge(extent)
  \/ \E places \in {Shelved(sizes, extent)} : Fits(sizes, places, extent)

LastTried[x \in Seq(Extents) \X Nat] ==
  LET sizes == x[1]
      side == x[2]
  IN  Tried(side, CHOOSE n \in 0 .. 2 * LargestAtlas :
                    /\ Ends(sizes, Tried(side, n))
                    /\ \A m \in 0 .. n - 1 : ~ Ends(sizes, Tried(side, m)))

Packs(sizes) ==
  Packable(sizes) /\ ~ TooLarge(LastTried[<<sizes, Square(sizes)>>])

Packed(sizes) ==
  LET extent == LastTried[<<sizes, Square(sizes)>>]
  IN  IF Packs(sizes)
      THEN [extent |-> extent, places |-> Shelved(sizes, extent)]
      ELSE Unpacked(sizes)

(* Faulty variant: levels are added until the texture is one texel. *)
LevelsOfAll(extent) ==
  CHOOSE n \in 1 .. Larger(1, MipLevels) :
    /\ n >= MipLevels \/ \E d \in Axis : extent[d] \div PowerOfTwo(n) = 0
    /\ \A m \in 1 .. n - 1 : \A d \in Axis : extent[d] \div PowerOfTwo(m) # 0

(* Levels are added while a texel of the last one is not more than the     *)
(* padding.                                                                *)
Levels(extent) ==
  LET Stops(n) == \/ n >= MipLevels \/ PowerOfTwo(n) > Padding
                  \/ \E d \in Axis : extent[d] \div PowerOfTwo(n) = 0
  IN  CHOOSE n \in 1 .. Larger(1, MipLevels) :
        Stops(n) /\ \A m \in 1 .. n - 1 : ~ Stops(m)

Arranged(frames) == Packed([i \in DOMAIN frames |-> Padded(frames[i])])

-----------------------------------------------------------------------------
(* The texels of a level, from the first up to and without the end, on one *)
(* axis, that upload_prepared_frame_to_atlas() writes for a frame.         *)
First(layout, i, level, d) == layout.places[i][d] \div PowerOfTwo(level)

End(layout, frames, i, level, d) ==
  Smaller(CeilDiv(layout.places[i][d] + Padded(frames[i])[d],
                  PowerOfTwo(level)),
          Larger(1, layout.extent[d] \div PowerOfTwo(level)))

(* The pixels of a frame: the padded frame, and what it has of each level. *)
FrameBytes(layout, frames, i) ==
  LET Side(level, d) ==
        End(layout, frames, i, level, d) - First(layout, i, level, d)
      add == [x \in Nat \X Nat |-> x[1] + 4 * Side(x[2], 1) * Side(x[2], 2)]
  IN  Iterated(add, 4 * Padded(frames[i])[1] * Padded(frames[i])[2],
               Levels(layout.extent) - 1)

(* append_padded_frame_pixels(): the pixel of the image that is shown at a *)
(* point of the padded frame; its edge is repeated in the padding.         *)
ImagePixel(frame, point) ==
  [d \in Axis |->
     LET inner == Smaller(Larger(point[d], Padding),
                          Padding + frame.size[d] - 1) - Padding
     IN  frame.pos[d] + (inner * frame.dim[d]) \div frame.size[d]]

(* append_mip_pixels(): the points of the padded frame that are averaged   *)
(* in a texel of a level.                                                  *)
Averaged(layout, frames, i, level, texel) ==
  LET place == layout.places[i]
      Local(d, n) == Smaller(Larger(n, place[d]),
                             place[d] + Padded(frames[i])[d] - 1) - place[d]
      scale == PowerOfTwo(level)
      Side(d) == texel[d] * scale .. (texel[d] + 1) * scale - 1
  IN  {[d \in Axis |-> Local(d, p[d])] : p \in Side(1) \X Side(2)}

(* What the packer promises: frames, with their padding, lie in the atlas  *)
(* and not over one another.                                               *)
Arrangement(layout, frames) ==
  /\ layout.extent \in Extents
  /\ \A i \in DOMAIN frames : /\ frames[i].size \in Extents
                              /\ layout.places[i] \in Nat \X Nat
  /\ Fits([i \in DOMAIN frames |-> Padded(frames[i])], layout.places,
          layout.extent)
  /\ \A i, j \in DOMAIN frames : i # j =>
       \E d \in Axis :
         \/ layout.places[i][d] + Padded(frames[i])[d] <= layout.places[j][d]
         \/ layout.places[j][d] + Padded(frames[j])[d] <= layout.places[i][d]

(* The texels of a level where a part of the image of a frame is shown,    *)
(* without its padding, and the frames that are written over a texel.      *)
ShownFrom(layout, i, level, d) ==
  (layout.places[i][d] + Padding) \div PowerOfTwo(level)

ShownTo(layout, frames, i, level, d) ==
  CeilDiv(layout.places[i][d] + Padding + frames[i].size[d],
          PowerOfTwo(level)) - 1

Shown(layout, frames, i, level) ==
  LET Side(d) == ShownFrom(layout, i, level, d)
                   .. ShownTo(layout, frames, i, level, d)
  IN  Side(1) \X Side(2)

Writers(layout, frames, level, texel) ==
  {i \in DOMAIN frames : \A d \in Axis :
     texel[d] \in First(layout, i, level, d)
                    .. End(layout, frames, i, level, d) - 1}

-----------------------------------------------------------------------------
(* The upload order: frames of the same file are one group, in the order   *)
(* that std::sort() leaves equal ones in.                                  *)
UploadGroups(frames) ==
  LET files == SetToSeq({file \in DOMAIN Extent :
                           \E i \in DOMAIN frames : frames[i].file = file})
  IN  [g \in DOMAIN files |->
         SetToSeq({i \in DOMAIN frames : frames[i].file = files[g]})]

PendingCount(groups) == IF Len(groups) < Workers THEN Len(groups) ELSE Workers

Copies ==
  [recorded : Seq(Nat), bytes : Nat, uploaded : Seq(Nat), readable : BOOLEAN,
   batches : SUBSET [bytes : Nat, frames : Nat]]

NoCopies ==
  [recorded |-> <<>>, bytes |-> 0,               \* the open batch
   uploaded |-> <<>>, readable |-> FALSE,        \* what the GPU has done
   batches |-> {}]

(* From the frames and their layout to the first futures. *)
Built(frames, layout) ==
  LET groups == UploadGroups(frames)
  IN  [at |-> "prepare", frames |-> frames, groups |-> groups,
       layout |-> layout,
       bytes |-> [i \in DOMAIN frames |-> FrameBytes(layout, frames, i)],
       next |-> 1,                                  \* group to take
       tasks |-> [g \in 1 .. PendingCount(groups) |-> g], \* pool's queue
       running |-> {}, prepared |-> {},             \* groups
       copies |-> NoCopies]

(* The phases of the builder's progress, up to the preparation of pixels.  *)
Reported(branch, frames) ==
  AddTotal(NextPhase(NextPhase(Begin(Add(branch, <<1, 1, 1, 1>>)))),
           Len(frames))

-----------------------------------------------------------------------------
(* A worker of the pool takes a task, and ends it.                         *)
Taken(build) ==
  [build EXCEPT !.tasks = Tail(@), !.running = @ \cup {Head(build.tasks)}]

CanTake(build) == build.tasks # <<>> /\ Cardinality(build.running) < Workers

Ended(build, g) ==
  [build EXCEPT !.running = @ \ {g}, !.prepared = @ \cup {g}]

(* prepare_atlas_group() skips the frames of a file it cannot decode.      *)
Decoded(build, g) ==
  IF build.frames[build.groups[g][1]].file \in Undecodable THEN <<>>
  ELSE build.groups[g]

(* submit_upload_batch(), and the wait for its timepoint *)
BatchSubmitted(copies) ==
  [copies EXCEPT !.uploaded = @ \o copies.recorded,
                 !.batches = @ \cup {[bytes |-> copies.bytes,
                                      frames |-> Len(copies.recorded)]}]

Full(copies, size) == copies.bytes # 0 /\ copies.bytes + size > BatchLimit

(* Faulty variant: the batch is not reset after it was submitted. *)
CopiedWithoutReset(copies, i, size) ==
  [(IF Full(copies, size) THEN BatchSubmitted(copies) ELSE copies)
     EXCEPT !.recorded = Append(@, i), !.bytes = @ + size]

(* upload_prepared_frame_to_atlas(), in a new batch when this one is full. *)
Copied(copies, i, size) ==
  LET open == IF Full(copies, size)
              THEN [BatchSubmitted(copies) EXCEPT !.recorded = <<>>,
                                                  !.bytes = 0]
              ELSE copies
  IN  [open EXCEPT !.recorded = Append(@, i), !.bytes = @ + size]

CanUpload(build) ==
  build.next <= Len(build.groups) /\ build.next \in build.prepared

CopiedGroup(build) ==
  LET decoded == Decoded(build, build.next)
      copy == [x \in Copies \X DOMAIN decoded |->
                 Copied(x[1], decoded[x[2]], build.bytes[decoded[x[2]]])]
  IN  Iterated(copy, build.copies, Len(decoded))

(* Faulty variant: the group after the one that is due is begun. *)
BegunSkipping(build) ==
  LET ahead == build.next + PendingCount(build.groups) + 1
  IN  IF ahead <= Len(build.groups) THEN <<ahead>> ELSE <<>>

(* The decoding that the pool is to begin when a group is taken.           *)
Begun(build) ==
  LET ahead == build.next + PendingCount(build.groups)
  IN  IF ahead <= Len(build.groups) THEN <<ahead>> ELSE <<>>

(* The builder takes a group and has the pool begin another one.           *)
Uploaded(build) ==
  [build EXCEPT !.next = @ + 1,
                !.prepared = @ \ {build.next},
                !.tasks = @ \o Begun(build),
                !.copies = CopiedGroup(build)]

(* The last batch makes the texture readable by shaders.                   *)
Finalized(build) ==
  LET copies == build.copies
      last == IF copies.bytes # 0
              THEN [BatchSubmitted(copies) EXCEPT !.readable = TRUE]
              ELSE copies
  IN  [build EXCEPT !.at = "none",
                    !.copies = [last EXCEPT !.recorded = <<>>]]

Decodable(frames) ==
  {i \in DOMAIN frames : frames[i].file \notin Undecodable}
=============================================================================
