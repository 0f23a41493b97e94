---------------------------- MODULE AssetProofs -----------------------------
(***************************************************************************)
(* Proofs about AssetManager, for any images, shaders, groups, command     *)
(* buffers and bounds.                                                     *)
(***************************************************************************)
EXTENDS AssetManager, Induction

-----------------------------------------------------------------------------
(* Types *)

Timepoint == 1 .. MaxTimepoint
Place == Page \X Region
Ident == [asset : Asset, generation : Nat]
Upload == [image : Image, place : Place]
Read == [group : Group, asset : Asset, place : {<<>>} \cup Place]
Batch == [uploads : SUBSET Upload, reads : SUBSET Read]

RecordType ==
  [demand : Nat, status : {"idle", "loading", "ready", "failed"},
   retirement : SUBSET Timepoint,
   decoding : {"none", "running", "decoded", "broken"},
   place : {<<>>} \cup Place, commands : Commands \cup {none},
   uploaded : {0} \cup Timepoint, program : BOOLEAN]

PageType ==
  [storage : {Lifetime[i] : i \in Image}, allocations : Nat,
   free : SUBSET Region, contents : [Region -> {0} \cup Image]]

GroupType ==
  [images : Seq(Ident), shaders : Seq(Ident), demands : SUBSET Ident,
   completed : SUBSET Ident, progress : {"none", "running", "cancelled"},
   status : {"idle", "loading", "ready", "failed", "cancelled"}, loads : Nat]

CallStep == {"idle", "poll", "prepare", "look", "update", "record", "submit",
             "submitted", "wait"}

ManagerType == workers \in BOOLEAN /\ generation \in Nat /\ added \subseteq Asset
RecordsType == records \in [Asset -> RecordType]
PagesType == DOMAIN pages \subseteq Page /\ pages \in [DOMAIN pages -> PageType]
GroupsType == groups \in [Group -> GroupType]
CallType == call \in [Group -> [step : CallStep, time : {0} \cup Timepoint,
                                commands : Commands \cup {none}]]
FrameType == frame \in [step : {"none", "collected", "recording", "submitted"},
                        commands : Commands, time : {0} \cup Timepoint]
GpuType ==
  /\ recorded \in [Commands -> Batch]
  /\ DOMAIN flight \subseteq Timepoint /\ flight \in [DOMAIN flight -> Batch]
  /\ submissions \subseteq Timepoint /\ lost \subseteq Image

TypeOK == /\ ManagerType /\ RecordsType /\ PagesType /\ GroupsType
          /\ CallType /\ FrameType /\ GpuType

-----------------------------------------------------------------------------
(* The inductive invariant *)

(* Identifiers that groups hold are not from the future, and those of this *)
(* generation are of assets that exist, until exit().                      *)
HeldBy(g) == groups[g].demands \cup ToSet(Declared(g))

IdentifiersKnown ==
  /\ ~workers => added = {}
  /\ \A a \in Asset \ added : records[a] = NewRecord
  /\ \A g \in Group : \A id \in HeldBy(g) :
       /\ id.generation <= generation
       /\ workers /\ id.generation = generation => id.asset \in added

(* Where an image is on its way: it is decoded, in a command buffer, or    *)
(* submitted, and only one of them.  A shader is on none.                  *)
OnItsWay(record) ==
  /\ record.commands # none =>
       /\ record.status = "loading" /\ record.decoding = "none"
       /\ record.uploaded = 0 /\ record.place # <<>>
  /\ record.uploaded # 0 =>
       /\ record.status = "loading" /\ record.decoding = "none"
       /\ record.commands = none /\ record.place # <<>>
  /\ record.decoding # "none" => record.status \in {"idle", "loading"}

Coherent(a, record) ==
  IF a \in Image
  THEN OnItsWay(record) /\ (record.status = "ready" => record.place # <<>>)
  ELSE /\ record.commands = none /\ record.uploaded = 0
       /\ record.decoding = "none" /\ record.status # "loading"
       /\ record.status = "ready" => record.program

RecordsCoherent == \A a \in Asset : Coherent(a, records[a])

(* Which command buffers hold something, and which were submitted and not  *)
(* registered by submitted().                                              *)
Filling(h) == \/ h = frame.commands /\ frame.step = "recording"
              \/ \E g \in Group : h = call[g].commands /\ call[g].step = "submit"

Pending(h, t) ==
  \/ h = frame.commands /\ frame.step = "submitted" /\ frame.time = t
  \/ \E g \in Group :
       h = call[g].commands /\ call[g].step = "submitted" /\ call[g].time = t

BuffersInUse ==
  /\ \A h \in Commands :
       recorded[h] # Nothing => Filling(h) \/ \E t \in Timepoint : Pending(h, t)
  /\ \A h \in Commands, t \in Timepoint : Pending(h, t) =>
       /\ recorded[h].uploads = {}
       /\ t \notin submissions
       /\ \A i \in Image : records[i].uploaded # t
       /\ \A k \in Commands \ {h} : ~Pending(k, t)
  /\ \A t \in DOMAIN flight :
       t \in submissions \/ \E h \in Commands : Pending(h, t)

(* From its loop on, a call of prepare() has a buffer, and no buffer is    *)
(* that of two.                                                            *)
InLoop == {"update", "record", "submit", "submitted", "wait"}

StepsCoherent ==
  /\ frame.step = "submitted" => frame.time # 0
  /\ \A g \in Group : call[g].step = "submitted" => call[g].time # 0
  /\ \A g \in Group \ Preparing : call[g].step \in {"idle", "poll"}
  /\ \A g \in Group :
       /\ call[g].step \in InLoop => call[g].commands # none
       /\ call[g].commands # frame.commands
  /\ \A g, k \in Group :
       call[g].commands = call[k].commands => g = k \/ call[g].commands = none

(* An unfinished upload is the business of the record of its image.        *)
UploadsAccounted ==
  /\ \A h \in Commands : \A u \in recorded[h].uploads :
       records[u.image].place = u.place /\ records[u.image].commands = h
  /\ \A t \in DOMAIN flight : \A u \in flight[t].uploads :
       /\ records[u.image].place = u.place
       /\ \/ records[u.image].uploaded = t
          \/ Pending(records[u.image].commands, t)

(* An unfinished read is of an asset that is ready and has a demand, or    *)
(* waits for the frame to be over.                                         *)
ReadsAccounted ==
  /\ \A h \in Commands : \A r \in recorded[h].reads :
       /\ r.asset \in added /\ records[r.asset].status = "ready"
       /\ records[r.asset].place = r.place
       /\ Identifier(r.asset) \in groups[r.group].demands
  /\ \A t \in DOMAIN flight : \A r \in flight[t].reads :
       /\ r.asset \in added /\ records[r.asset].status = "ready"
       /\ records[r.asset].place = r.place
       /\ \/ \E h \in Commands : Pending(h, t) /\ r \in recorded[h].reads
          \/ /\ t \in submissions
             /\ records[r.asset].demand # 0 \/ t \in records[r.asset].retirement

Writing(batch, p) == \E u \in batch.uploads : u.place[1] = p

(* The same as OneUploaderPerPage, of any two.                             *)
WritersApart ==
  \A p \in Page :
    /\ \A h, k \in Commands :
         Writing(recorded[h], p) /\ Writing(recorded[k], p) => h = k
    /\ \A t, u \in DOMAIN flight :
         Writing(flight[t], p) /\ Writing(flight[u], p) => t = u
    /\ \A h \in Commands, t \in DOMAIN flight :
         ~(Writing(recorded[h], p) /\ Writing(flight[t], p))

(* An upload that is submitted at t has been done, or will be.             *)
Arrives(i, t) ==
  IF t \in DOMAIN flight
  THEN [image |-> i, place |-> records[i].place] \in flight[t].uploads
  ELSE Holds(records[i].place, i)

ContentsArrive ==
  \A i \in Image \ lost :
    /\ records[i].status = "ready" => Holds(records[i].place, i)
    /\ records[i].uploaded # 0 => Arrives(i, records[i].uploaded)
    /\ records[i].commands # none =>
         \/ [image |-> i, place |-> records[i].place]
              \in recorded[records[i].commands].uploads
         \/ \E t \in Timepoint :
              Pending(records[i].commands, t) /\ Arrives(i, t)

(* What a group has seen ready stays ready while the group demands it.     *)
CompletedStaysReady ==
  \A g \in Group :
    /\ groups[g].completed \subseteq groups[g].demands
    /\ \A id \in groups[g].completed :
         Found(id) => records[id.asset].status = "ready"
    /\ groups[g].status = "ready" => groups[g].completed = groups[g].demands

IInv == /\ TypeOK
        /\ IdentifiersKnown /\ DemandCounted /\ RecordsCoherent
        /\ RegionsHeldOnce
        /\ StepsCoherent /\ BuffersInUse /\ UploadsAccounted /\ WritersApart
        /\ ReadsAccounted /\ ContentsArrive /\ CompletedStaysReady
-----------------------------------------------------------------------------
(* The loops of load() *)

(* What a turn of the loops works on. *)
SofarType == [records : [Asset -> RecordType], demands : SUBSET Ident,
              status : {"loading", "failed"}]

Outcome == {"built", "unreadable", "rejected"}

LEMMA LoadedType ==
  ASSUME NEW record \in RecordType, NEW outcome \in Outcome
  PROVE  /\ \A held \in BOOLEAN : Demanded(record, held) \in RecordType
         /\ LoadedImage(record) \in RecordType
         /\ LoadedShader(record, outcome) \in RecordType
<1>1. [record EXCEPT !.demand = @ + 1, !.retirement = {}] \in RecordType
  <2> DEFINE more == record.demand + 1
  <2>1. more \in Nat
    BY DEF RecordType
  <2> HIDE DEF more
  <2>2. [record EXCEPT !.demand = more, !.retirement = {}] \in RecordType
    BY <2>1 DEF RecordType
  <2> QED BY <2>2 DEF more
<1>2. LoadedImage(record) \in RecordType
  BY DEF LoadedImage, RecordType
<1>3. LoadedShader(record, outcome) \in RecordType
  BY DEF LoadedShader, RecordType
<1> QED BY <1>1, <1>2, <1>3 DEF Demanded

(* What a turn leaves in the record of a. *)
TurnOf(sofar, id, outcome) ==
  LET record == Demanded(sofar.records[id.asset], id \in sofar.demands)
  IN  IF id.asset \in Image THEN LoadedImage(record)
      ELSE LoadedShader(record, outcome[id.asset])

LEMMA LoadOneCases ==
  ASSUME NEW sofar, NEW id, NEW outcome
  PROVE  \/ /\ sofar.status = "failed"
            /\ LoadOne(sofar, id, outcome) = sofar
         \/ /\ sofar.status # "failed" /\ ~Found(id)
            /\ LoadOne(sofar, id, outcome) = [sofar EXCEPT !.status = "failed"]
         \/ /\ sofar.status # "failed" /\ Found(id)
            /\ \E status \in {"loading", "failed"} :
                 LoadOne(sofar, id, outcome) =
                   [records |-> [sofar.records EXCEPT ![id.asset] =
                                   TurnOf(sofar, id, outcome)],
                    demands |-> sofar.demands \cup {id}, status |-> status]
<1>1. CASE sofar.status = "failed"
  BY <1>1 DEF LoadOne
<1>2. CASE sofar.status # "failed" /\ ~Found(id)
  BY <1>2 DEF LoadOne
<1>3. CASE sofar.status # "failed" /\ Found(id)
  BY <1>3 DEF LoadOne, TurnOf
<1> QED BY <1>1, <1>2, <1>3

LEMMA LoadOneType ==
  ASSUME NEW sofar \in SofarType, NEW id \in Ident,
         NEW outcome \in [Shader -> Outcome]
  PROVE  LoadOne(sofar, id, outcome) \in SofarType
<1>1. id.asset \in Asset /\ sofar.records[id.asset] \in RecordType
  BY DEF SofarType, Ident
<1>2. TurnOf(sofar, id, outcome) \in RecordType
  <2>1. (id \in sofar.demands) \in BOOLEAN
    OBVIOUS
  <2>2. Demanded(sofar.records[id.asset], id \in sofar.demands) \in RecordType
    BY <1>1, <2>1, LoadedType DEF Outcome
  <2>3. id.asset \notin Image => outcome[id.asset] \in Outcome
    BY <1>1 DEF Asset
  <2> QED BY <2>2, <2>3, LoadedType DEF TurnOf, Outcome
<1>3. ASSUME NEW status \in {"loading", "failed"}
      PROVE  [records |-> [sofar.records EXCEPT ![id.asset] =
                             TurnOf(sofar, id, outcome)],
              demands |-> sofar.demands \cup {id}, status |-> status]
                \in SofarType
  BY <1>1, <1>2 DEF SofarType
<1>4. [sofar EXCEPT !.status = "failed"] \in SofarType
  BY DEF SofarType
<1> QED BY <1>3, <1>4, LoadOneCases

LEMMA DeclaredType ==
  ASSUME GroupsType, NEW g \in Group
  PROVE  Declared(g) \in Seq(Ident) /\ Len(Declared(g)) \in Nat
<1>1. groups[g].images \in Seq(Ident) /\ groups[g].shaders \in Seq(Ident)
  BY DEF GroupsType, GroupType
<1>2. Declared(g) \in Seq(Ident)
  BY <1>1 DEF Declared
<1> QED BY <1>2

(* The turns of the loops are what their definition says.                  *)
LEMMA LoadTurnsRecur ==
  ASSUME RecordsType, GroupsType, NEW g \in Group,
         NEW outcome \in [Shader -> Outcome]
  PROVE  LET turn == LoadTurns(g, outcome)
             last == Len(Declared(g))
         IN  /\ Declared(g) \in Seq(Ident) /\ last \in Nat
             /\ turn \in [0 .. last -> SofarType]
             /\ turn[0].records = records
             /\ turn[0].demands = groups[g].demands
             /\ \A n \in 1 .. last :
                  turn[n] = LoadOne(turn[n - 1], Declared(g)[n], outcome)
<1> DEFINE last == Len(Declared(g))
           before == [records |-> records, demands |-> groups[g].demands,
                      status |-> IF ~workers /\ Declared(g) # <<>>
                                 THEN "failed" ELSE "loading"]
           One(x, n) == LoadOne(x, Declared(g)[n], outcome)
           step == [x \in SofarType \X Nat |->
                      IF x[2] \in 1 .. last THEN One(x[1], x[2]) ELSE x[1]]
           Eq(f) == f = [n \in 0 .. last |-> IF n = 0 THEN before
                                             ELSE One(f[n - 1], n)]
           turn == LoadTurns(g, outcome)
<1>1. Declared(g) \in Seq(Ident) /\ last \in Nat
  BY DeclaredType
<1>2. before \in SofarType
  BY DEF SofarType, RecordsType, GroupsType, GroupType
<1>3. ASSUME NEW x \in SofarType, NEW n \in 1 .. last
      PROVE  One(x, n) \in SofarType
  BY <1>1, LoadOneType
<1>4. step \in [SofarType \X Nat -> SofarType]
  <2> HIDE DEF One, last
  <2> QED BY <1>3
<1>5. PICK f \in [0 .. last -> SofarType] : Recurs(f, last, before, step)
  <2> HIDE DEF step, last, before
  <2> QED BY <1>1, <1>2, <1>4, RecursiveFunctionExists
<1>6. Eq(f)
  <2>1. ASSUME NEW n \in 0 .. last, n # 0
        PROVE  step[<<f[n - 1], n>>] = One(f[n - 1], n)
    <3>1. <<f[n - 1], n>> \in SofarType \X Nat /\ n \in 1 .. last
      BY <1>1, <2>1
    <3> HIDE DEF One, last
    <3> QED BY <3>1
  <2> HIDE DEF step, last, before, One
  <2> QED BY <1>5, <2>1 DEF Recurs
<1>7. turn = CHOOSE f_1 : Eq(f_1)
  BY DEF LoadTurns
<1>8. Eq(turn)
  <2> HIDE DEF Eq, turn
  <2> QED BY <1>6, <1>7
<1>9. turn \in [0 .. last -> SofarType]
  <2> DEFINE T == {n \in 0 .. last : turn[n] \in SofarType}
  <2>1. 0 \in T
    <3> HIDE DEF turn, before, One, last
    <3> QED BY <1>1, <1>2, <1>8
  <2>2. ASSUME NEW n \in 0 .. last - 1, n \in T PROVE n + 1 \in T
    <3>1. turn[n + 1] = One(turn[n], n + 1)
      <4> HIDE DEF turn, before, One, last
      <4> QED BY <1>1, <1>8
    <3>2. n + 1 \in 1 .. last
      <4> HIDE DEF last
      <4> QED BY <1>1
    <3> HIDE DEF turn, One, last
    <3> QED BY <1>1, <1>3, <2>2, <3>1, <3>2
  <2>3. 0 .. last \subseteq T
    <3> HIDE DEF T, last
    <3> QED BY <1>1, <2>1, <2>2, IntervalInduction
  <2> HIDE DEF turn, before, One, last
  <2> QED BY <1>8, <2>3
<1>10. turn[0] = before /\ \A n \in 1 .. last : turn[n] = One(turn[n - 1], n)
  <2> HIDE DEF turn, before, One, last
  <2> QED BY <1>1, <1>8
<1> HIDE DEF turn
<1> QED BY <1>1, <1>9, <1>10 DEF turn

(* What load(), unload() and a worker do to a record at most: they do not  *)
(* move an asset, do not make an image ready nor a ready asset unready,    *)
(* and retire what they leave without demand.                              *)
RecordKept(a, old, new) ==
  /\ new.place = old.place /\ new.commands = old.commands
  /\ new.uploaded = old.uploaded
  /\ old.status = "ready" => new.status = "ready"
  /\ a \in Image /\ new.status = "ready" => old.status = "ready"
  /\ Coherent(a, new)
  /\ \A t \in submissions : old.demand # 0 \/ t \in old.retirement
                              => new.demand # 0 \/ t \in new.retirement

LEMMA RecordKeptItself ==
  ASSUME NEW a, NEW record, Coherent(a, record)
  PROVE  RecordKept(a, record, record)
BY DEF RecordKept

LEMMA DemandedKept ==
  ASSUME NEW a, NEW old \in RecordType, NEW record \in RecordType,
         RecordKept(a, old, record), NEW held \in BOOLEAN
  PROVE  /\ RecordKept(a, old, Demanded(record, held))
         /\ Demanded(record, held).demand =
              IF held THEN record.demand ELSE record.demand + 1
<1>1. CASE held
  BY <1>1 DEF Demanded
<1>2. CASE ~held
  <2> DEFINE new == Demanded(record, held)
  <2>1. new = [record EXCEPT !.demand = @ + 1, !.retirement = {}]
    BY <1>2 DEF Demanded
  <2>2. /\ new.place = record.place /\ new.commands = record.commands
        /\ new.uploaded = record.uploaded /\ new.status = record.status
        /\ new.decoding = record.decoding /\ new.program = record.program
        /\ new.demand = record.demand + 1
    BY <2>1 DEF RecordType
  <2>3. record.demand + 1 # 0
    BY DEF RecordType
  <2> HIDE DEF new
  <2>4. Coherent(a, new)
    BY <2>2 DEF RecordKept, Coherent, OnItsWay
  <2> QED BY <2>2, <2>3, <2>4, <1>2 DEF RecordKept, new
<1> QED BY <1>1, <1>2

LEMMA LoadedKept ==
  ASSUME NEW a, NEW old \in RecordType, NEW record \in RecordType,
         RecordKept(a, old, record), NEW outcome \in Outcome
  PROVE  /\ a \in Image => /\ RecordKept(a, old, LoadedImage(record))
                           /\ LoadedImage(record).demand = record.demand
         /\ a \notin Image =>
              /\ RecordKept(a, old, LoadedShader(record, outcome))
              /\ LoadedShader(record, outcome).demand = record.demand
<1>1. ASSUME a \in Image
      PROVE  /\ RecordKept(a, old, LoadedImage(record))
             /\ LoadedImage(record).demand = record.demand
  <2>1. CASE record.status \in {"idle", "failed"}
    <3> DEFINE new == LoadedImage(record)
    <3>1. new = [record EXCEPT !.decoding = "running", !.status = "loading"]
      BY <2>1 DEF LoadedImage
    <3>2. /\ new.place = record.place /\ new.commands = record.commands
          /\ new.uploaded = record.uploaded /\ new.status = "loading"
          /\ new.decoding = "running" /\ new.demand = record.demand
          /\ new.retirement = record.retirement
      BY <3>1 DEF RecordType
    <3> HIDE DEF new
    <3>3. Coherent(a, new)
      BY <3>2, <2>1, <1>1 DEF RecordKept, Coherent, OnItsWay
    <3> QED BY <3>2, <3>3, <2>1 DEF RecordKept, new
  <2>2. CASE record.status \notin {"idle", "failed"}
    BY <2>2 DEF LoadedImage
  <2> QED BY <2>1, <2>2
<1>2. ASSUME a \notin Image
      PROVE  /\ RecordKept(a, old, LoadedShader(record, outcome))
             /\ LoadedShader(record, outcome).demand = record.demand
  <2>1. CASE record.status = "ready"
    BY <2>1 DEF LoadedShader
  <2>2. CASE record.status # "ready"
    <3> DEFINE new == LoadedShader(record, outcome)
               built == outcome # "rejected"
               status == IF outcome = "built" THEN "ready" ELSE "failed"
    <3>1. new = [record EXCEPT !.program = built, !.status = status]
      BY <2>2 DEF LoadedShader
    <3>2. /\ new.place = record.place /\ new.commands = record.commands
          /\ new.uploaded = record.uploaded /\ new.status = status
          /\ new.decoding = record.decoding /\ new.demand = record.demand
          /\ new.retirement = record.retirement /\ new.program = built
      BY <3>1 DEF RecordType
    <3> HIDE DEF new
    <3>3. Coherent(a, new)
      BY <3>2, <2>2, <1>2 DEF RecordKept, Coherent
    <3> QED BY <3>2, <3>3, <2>2, <1>2 DEF RecordKept, new
  <2> QED BY <2>1, <2>2
<1> QED BY <1>1, <1>2

(* A turn for an asset that exists. *)
LEMMA TurnKept ==
  ASSUME NEW sofar \in SofarType, NEW id \in Ident,
         NEW outcome \in [Shader -> Outcome], NEW old \in RecordType,
         RecordKept(id.asset, old, sofar.records[id.asset])
  PROVE  /\ RecordKept(id.asset, old, TurnOf(sofar, id, outcome))
         /\ TurnOf(sofar, id, outcome).demand =
              IF id \in sofar.demands THEN sofar.records[id.asset].demand
              ELSE sofar.records[id.asset].demand + 1
<1> DEFINE record == sofar.records[id.asset]
           held == id \in sofar.demands
<1>1. id.asset \in Asset /\ record \in RecordType /\ held \in BOOLEAN
  BY DEF SofarType, Ident
<1>2. /\ Demanded(record, held) \in RecordType
      /\ RecordKept(id.asset, old, Demanded(record, held))
      /\ Demanded(record, held).demand =
           IF held THEN record.demand ELSE record.demand + 1
  <2> HIDE DEF record, held
  <2> QED BY <1>1, LoadedType, DemandedKept DEF record, Outcome
<1>3. id.asset \notin Image => outcome[id.asset] \in Outcome
  BY <1>1 DEF Asset
<1>4. CASE id.asset \in Image
  <2>1. TurnOf(sofar, id, outcome) = LoadedImage(Demanded(record, held))
    BY <1>4 DEF TurnOf
  <2>2. "built" \in Outcome
    BY DEF Outcome
  <2> HIDE DEF record, held
  <2>3. /\ RecordKept(id.asset, old, LoadedImage(Demanded(record, held)))
        /\ LoadedImage(Demanded(record, held)).demand = Demanded(record, held).demand
    BY <1>2, <1>4, <2>2, LoadedKept
  <2> QED BY <2>1, <2>3, <1>2 DEF record, held
<1>5. CASE id.asset \notin Image
  <2>1. TurnOf(sofar, id, outcome) =
          LoadedShader(Demanded(record, held), outcome[id.asset])
    BY <1>5 DEF TurnOf
  <2> HIDE DEF record, held
  <2>2. /\ RecordKept(id.asset, old,
                 LoadedShader(Demanded(record, held), outcome[id.asset]))
        /\ LoadedShader(Demanded(record, held), outcome[id.asset]).demand =
             Demanded(record, held).demand
    BY <1>2, <1>3, <1>5, LoadedKept
  <2> QED BY <2>1, <2>2, <1>2 DEF record, held
<1> QED BY <1>4, <1>5

(* What holds of the records and the demands of g after any turn.          *)
Joined(g, demands, a) == Identifier(a) \in demands \ groups[g].demands

LoadedFrom(g, sofar) ==
  /\ groups[g].demands \subseteq sofar.demands
  /\ sofar.demands \subseteq HeldBy(g)
  /\ \A id \in sofar.demands \ groups[g].demands : Found(id)
  /\ \A a \in Asset :
       /\ RecordKept(a, records[a], sofar.records[a])
       /\ sofar.records[a].demand =
            records[a].demand + IF Joined(g, sofar.demands, a) THEN 1 ELSE 0
       /\ a \notin added => sofar.records[a] = records[a]

LEMMA IdentifierFound ==
  ASSUME NEW id \in Ident, Found(id)
  PROVE  id = Identifier(id.asset)
BY DEF Found, Identifier, Ident

LEMMA LoadOneKeeps ==
  ASSUME ManagerType, RecordsType, NEW g \in Group,
         NEW sofar \in SofarType, NEW id \in Ident, id \in HeldBy(g),
         NEW outcome \in [Shader -> Outcome], LoadedFrom(g, sofar)
  PROVE  LoadedFrom(g, LoadOne(sofar, id, outcome))
<1> DEFINE b == id.asset
           demands == sofar.demands \cup {id}
           turned == TurnOf(sofar, id, outcome)
           new == [sofar.records EXCEPT ![b] = turned]
<1>1. CASE LoadOne(sofar, id, outcome) = sofar
  BY <1>1
<1>2. CASE LoadOne(sofar, id, outcome) = [sofar EXCEPT !.status = "failed"]
  <2>1. /\ LoadOne(sofar, id, outcome).records = sofar.records
        /\ LoadOne(sofar, id, outcome).demands = sofar.demands
    BY <1>2 DEF SofarType
  <2> QED BY <2>1 DEF LoadedFrom
<1>3. ASSUME Found(id), NEW after, after.records = new, after.demands = demands
      PROVE  LoadedFrom(g, after)
  <2>1. b \in Asset /\ b \in added /\ id = Identifier(b)
    BY <1>3, IdentifierFound DEF Ident, Found
  <2>2. /\ RecordKept(b, records[b], turned)
        /\ turned.demand = IF id \in sofar.demands THEN sofar.records[b].demand
                           ELSE sofar.records[b].demand + 1
    <3>1. records[b] \in RecordType
      BY <2>1 DEF RecordsType
    <3> QED BY <2>1, <3>1, TurnKept DEF LoadedFrom
  <2>3. \A a \in Asset \ {b} :
          /\ new[a] = sofar.records[a]
          /\ Joined(g, demands, a) <=> Joined(g, sofar.demands, a)
    <3> SUFFICES ASSUME NEW a \in Asset \ {b}
                 PROVE  /\ new[a] = sofar.records[a]
                        /\ Identifier(a) # id
      BY DEF Joined
    <3> QED BY DEF SofarType, Identifier
  <2>4. new[b] = turned
    BY <2>1 DEF SofarType
  <2>5. turned.demand =
          records[b].demand + IF Joined(g, demands, b) THEN 1 ELSE 0
    <3>1. sofar.records[b].demand =
            records[b].demand + IF Joined(g, sofar.demands, b) THEN 1 ELSE 0
      BY <2>1 DEF LoadedFrom
    <3>2. records[b].demand \in Nat
      BY <2>1 DEF RecordsType, RecordType
    <3>3. CASE id \in sofar.demands
      <4>1. Joined(g, demands, b) <=> Joined(g, sofar.demands, b)
        BY <3>3 DEF Joined
      <4> HIDE DEF turned
      <4> QED BY <4>1, <3>1, <2>2, <3>3
    <3>4. CASE id \notin sofar.demands
      <4>1. Joined(g, demands, b) /\ ~Joined(g, sofar.demands, b)
        BY <2>1, <3>4 DEF Joined, LoadedFrom
      <4> HIDE DEF turned
      <4> QED BY <4>1, <3>1, <3>2, <2>2, <3>4
    <3> QED BY <3>3, <3>4
  <2> HIDE DEF new, turned
  <2>6. ASSUME NEW a \in Asset
        PROVE  /\ RecordKept(a, records[a], new[a])
               /\ new[a].demand =
                    records[a].demand + IF Joined(g, demands, a) THEN 1 ELSE 0
               /\ a \notin added => new[a] = records[a]
    <3>1. CASE a = b
      BY <3>1, <2>1, <2>2, <2>4, <2>5
    <3>2. CASE a # b
      BY <3>2, <2>3 DEF LoadedFrom
    <3> QED BY <3>1, <3>2
  <2>7. /\ groups[g].demands \subseteq demands /\ demands \subseteq HeldBy(g)
        /\ \A i \in demands \ groups[g].demands : Found(i)
    BY <1>3 DEF LoadedFrom
  <2> QED BY <1>3, <2>6, <2>7 DEF LoadedFrom
<1>4. ASSUME Found(id), NEW status \in {"loading", "failed"},
             LoadOne(sofar, id, outcome) =
               [records |-> new, demands |-> demands, status |-> status]
      PROVE  LoadedFrom(g, LoadOne(sofar, id, outcome))
  <2> HIDE DEF new, demands
  <2> QED BY <1>3, <1>4
<1> QED BY <1>1, <1>2, <1>4, LoadOneCases

(* The loops together. *)
LEMMA LoadingKeeps ==
  ASSUME ManagerType, RecordsType, GroupsType, RecordsCoherent,
         NEW g \in Group, NEW outcome \in [Shader -> Outcome]
  PROVE  LET after == LoadTurns(g, outcome)[Len(Declared(g))]
         IN  after \in SofarType /\ LoadedFrom(g, after)
<1> DEFINE turn == LoadTurns(g, outcome)
           last == Len(Declared(g))
           T == {n \in 0 .. last : LoadedFrom(g, turn[n])}
<1>1. /\ Declared(g) \in Seq(Ident) /\ last \in Nat
      /\ turn \in [0 .. last -> SofarType]
      /\ turn[0].records = records /\ turn[0].demands = groups[g].demands
      /\ \A n \in 1 .. last :
           turn[n] = LoadOne(turn[n - 1], Declared(g)[n], outcome)
  BY LoadTurnsRecur
<1> HIDE DEF turn
<1>2. 0 \in T
  <2>1. ASSUME NEW a \in Asset
        PROVE  /\ RecordKept(a, records[a], records[a])
               /\ records[a].demand =
                    records[a].demand
                    + IF Joined(g, groups[g].demands, a) THEN 1 ELSE 0
    <3>1. records[a].demand \in Nat
      BY DEF RecordsType, RecordType
    <3>2. ~Joined(g, groups[g].demands, a)
      BY DEF Joined
    <3>3. RecordKept(a, records[a], records[a])
      BY RecordKeptItself DEF RecordsCoherent
    <3> QED BY <3>1, <3>2, <3>3
  <2>2. LoadedFrom(g, turn[0])
    BY <1>1, <2>1 DEF LoadedFrom, HeldBy
  <2> QED BY <1>1, <2>2
<1>3. ASSUME NEW n \in 0 .. last - 1, n \in T PROVE n + 1 \in T
  <2>1. n + 1 \in 1 .. last /\ n \in 0 .. last /\ (n + 1) - 1 = n
    BY <1>1
  <2>2. Declared(g)[n + 1] \in Ident /\ Declared(g)[n + 1] \in HeldBy(g)
    BY <1>1, <2>1 DEF HeldBy, ToSet
  <2>3. turn[n + 1] = LoadOne(turn[n], Declared(g)[n + 1], outcome)
    BY <1>1, <2>1
  <2>4. turn[n] \in SofarType
    BY <1>1, <2>1
  <2>5. LoadedFrom(g, turn[n + 1])
    BY <1>3, <2>2, <2>3, <2>4, LoadOneKeeps
  <2> QED BY <2>1, <2>5
<1>4. 0 .. last \subseteq T
  <2> HIDE DEF T, last
  <2> QED BY <1>1, <1>2, <1>3, IntervalInduction
<1>5. last \in 0 .. last
  BY <1>1
<1> QED BY <1>1, <1>4, <1>5 DEF turn

-----------------------------------------------------------------------------
(* Steps that leave pages and the GPU alone *)

(* Nothing is submitted or registered. *)
PendingSame ==
  \A h \in Commands \cup {none}, t \in Timepoint : Pending(h, t)' <=> Pending(h, t)

(* Uploads leave command buffers only to be lost. *)
UploadsKeptOrLost ==
  /\ lost \subseteq lost'
  /\ \A h \in Commands : /\ recorded'[h].uploads \subseteq recorded[h].uploads
                         /\ \A u \in recorded[h].uploads \ recorded'[h].uploads :
                              u.image \in lost'

LEMMA KeptStep ==
  ASSUME IInv, RecordsType', GpuType',
         \A a \in Asset : RecordKept(a, records[a], records'[a]),
         UNCHANGED <<pages, flight, submissions>>,
         PendingSame, UploadsKeptOrLost
  PROVE  /\ RecordsCoherent' /\ RegionsHeldOnce' /\ UploadsAccounted'
         /\ WritersApart' /\ ContentsArrive'
<1>1. RecordsCoherent'
  BY DEF RecordsCoherent, RecordKept
<1>2. \A i \in Image : /\ i \in Asset
                       /\ records'[i].place = records[i].place
                       /\ records'[i].commands = records[i].commands
                       /\ records'[i].uploaded = records[i].uploaded
                       /\ records'[i].status = "ready" => records[i].status = "ready"
                       /\ records[i].commands \in Commands \cup {none}
  BY DEF RecordKept, Asset, IInv, TypeOK, RecordsType, RecordType
<1>3. RegionsHeldOnce'
  BY <1>2 DEF IInv, RegionsHeldOnce
<1>4. UploadsAccounted'
  <2>1. ASSUME NEW h \in Commands, NEW u \in recorded'[h].uploads
        PROVE  records'[u.image].place = u.place /\ records'[u.image].commands = h
    <3>1. u \in recorded[h].uploads /\ u.image \in Image
      BY DEF UploadsKeptOrLost, IInv, TypeOK, GpuType, Batch, Upload
    <3> QED BY <3>1, <1>2 DEF IInv, UploadsAccounted
  <2>2. ASSUME NEW t \in DOMAIN flight', NEW u \in flight'[t].uploads
        PROVE  /\ records'[u.image].place = u.place
               /\ \/ records'[u.image].uploaded = t
                  \/ Pending(records[u.image].commands, t)'
    <3>1. t \in Timepoint /\ u \in flight[t].uploads /\ u.image \in Image
      BY DEF IInv, TypeOK, GpuType, Batch, Upload
    <3> QED BY <3>1, <1>2 DEF IInv, UploadsAccounted, PendingSame
  <2> QED BY <2>1, <2>2 DEF UploadsAccounted
<1>5. WritersApart'
  <2>1. ASSUME NEW p \in Page, NEW h \in Commands, Writing(recorded'[h], p)
        PROVE  Writing(recorded[h], p)
    BY <2>1 DEF Writing, UploadsKeptOrLost
  <2> QED BY <2>1 DEF IInv, WritersApart, Writing
<1>6. ContentsArrive'
  <2> SUFFICES ASSUME NEW i \in Image, i \notin lost'
               PROVE  /\ records'[i].status = "ready" => Holds(records[i].place, i)'
                      /\ records'[i].uploaded # 0 => Arrives(i, records[i].uploaded)'
                      /\ records'[i].commands # none =>
                           \/ [image |-> i, place |-> records'[i].place]
                                \in recorded'[records'[i].commands].uploads
                           \/ \E t \in Timepoint :
                                Pending(records[i].commands, t)' /\ Arrives(i, t)'
    BY DEF ContentsArrive
  <2>1. i \in Image \ lost
    BY DEF UploadsKeptOrLost
  <2>2. \A t : Arrives(i, t)' <=> Arrives(i, t)
    BY <1>2 DEF Arrives, Holds
  <2>3. CASE records[i].commands = none
    BY <2>1, <2>2, <2>3, <1>2 DEF IInv, ContentsArrive, Holds
  <2>4. CASE records[i].commands # none
    <3>1. records[i].commands \in Commands
      BY <2>4, <1>2
    <3>2. [image |-> i, place |-> records[i].place]
              \in recorded[records[i].commands].uploads
          => [image |-> i, place |-> records[i].place]
              \in recorded'[records[i].commands].uploads
      BY <3>1 DEF UploadsKeptOrLost
    <3>3. \/ [image |-> i, place |-> records[i].place]
               \in recorded[records[i].commands].uploads
          \/ \E t \in Timepoint :
               Pending(records[i].commands, t) /\ Arrives(i, t)
      BY <2>1, <2>4 DEF IInv, ContentsArrive
    <3>4. \/ [image |-> i, place |-> records'[i].place]
               \in recorded'[records'[i].commands].uploads
          \/ \E t \in Timepoint :
               Pending(records[i].commands, t)' /\ Arrives(i, t)'
      BY <3>1, <3>2, <3>3, <1>2, <2>2 DEF PendingSame
    <3>5. /\ records'[i].status = "ready" => Holds(records[i].place, i)'
          /\ records'[i].uploaded # 0 => Arrives(i, records[i].uploaded)'
      BY <2>1, <2>2, <1>2 DEF IInv, ContentsArrive, Holds
    <3> QED BY <3>4, <3>5
  <2> QED BY <2>3, <2>4
<1> QED BY <1>1, <1>3, <1>4, <1>5, <1>6

LEMMA NoneNotPending ==
  ASSUME IInv, NEW t
  PROVE  ~Pending(none, t)
BY AssetAssumption DEF IInv, TypeOK, FrameType, StepsCoherent, InLoop, Pending

(* What a group demands has a demand. *)
Demanders(a) == {g \in Group : Identifier(a) \in groups[g].demands}

LEMMA DemandersFinite ==
  ASSUME NEW a
  PROVE  IsFiniteSet(Demanders(a)) /\ Cardinality(Demanders(a)) \in Nat
<1>1. IsFiniteSet(Demanders(a))
  BY AssetAssumption, FS_Subset DEF Demanders
<1> QED BY <1>1, FS_CardinalityType

LEMMA DemandPositive ==
  ASSUME DemandCounted, NEW g \in Group, NEW a \in added,
         Identifier(a) \in groups[g].demands
  PROVE  records[a].demand # 0
<1>1. g \in Demanders(a)
  BY DEF Demanders
<1>2. Cardinality(Demanders(a)) # 0
  BY <1>1, DemandersFinite, FS_EmptySet
<1> QED BY <1>2 DEF DemandCounted, Demanders

(* An unfinished read keeps its asset from being given back.               *)
Guarded(a) ==
  /\ a \in added /\ records[a].status = "ready"
  /\ records[a].demand # 0 \/ \E t \in DOMAIN flight : t \in records[a].retirement

LEMMA ReadsGuarded ==
  ASSUME IInv
  PROVE  /\ \A h \in Commands : \A r \in recorded[h].reads : Guarded(r.asset)
         /\ \A t \in DOMAIN flight : \A r \in flight[t].reads : Guarded(r.asset)
<1>1. ASSUME NEW h \in Commands, NEW r \in recorded[h].reads
      PROVE  Guarded(r.asset)
  <2>1. r.group \in Group
    BY DEF IInv, TypeOK, GpuType, Batch, Read
  <2>2. /\ r.asset \in added /\ records[r.asset].status = "ready"
        /\ Identifier(r.asset) \in groups[r.group].demands
    BY DEF IInv, ReadsAccounted
  <2>3. records[r.asset].demand # 0
    BY <2>1, <2>2, DemandPositive DEF IInv
  <2> QED BY <2>2, <2>3 DEF Guarded
<1>2. ASSUME NEW t \in DOMAIN flight, NEW r \in flight[t].reads
      PROVE  Guarded(r.asset)
  <2>1. /\ r.asset \in added /\ records[r.asset].status = "ready"
        /\ \/ \E h \in Commands : r \in recorded[h].reads
           \/ records[r.asset].demand # 0 \/ t \in records[r.asset].retirement
    BY DEF IInv, ReadsAccounted
  <2> QED BY <2>1, <1>1 DEF Guarded
<1> QED BY <1>1, <1>2

(* Reads stay accounted for when what they guard is left as it is.         *)
LEMMA ReadsStep ==
  ASSUME IInv, UNCHANGED <<flight, submissions, generation>>, added \subseteq added',
         PendingSame,
         \A h \in Commands : \/ recorded'[h].reads = recorded[h].reads
                             \/ /\ recorded'[h].reads = {}
                                /\ \A t \in Timepoint : ~Pending(h, t),
         \A h \in Commands : \A r \in recorded'[h].reads :
           Identifier(r.asset) \in groups'[r.group].demands,
         \A a \in Asset : Guarded(a) =>
           /\ records'[a].status = "ready" /\ records'[a].place = records[a].place
           /\ \A t \in submissions : records[a].demand # 0 \/ t \in records[a].retirement
                => records'[a].demand # 0 \/ t \in records'[a].retirement
  PROVE  ReadsAccounted'
<1>1. ASSUME NEW h \in Commands, NEW r \in recorded'[h].reads
      PROVE  /\ r.asset \in added' /\ records'[r.asset].status = "ready"
             /\ records'[r.asset].place = r.place
             /\ Identifier(r.asset)' \in groups'[r.group].demands
  <2>1. r \in recorded[h].reads
    OBVIOUS
  <2>2. r.asset \in Asset
    BY <2>1 DEF IInv, TypeOK, GpuType, Batch, Read
  <2>3. Guarded(r.asset)
    BY <2>1, ReadsGuarded
  <2> QED BY <2>1, <2>2, <2>3 DEF IInv, ReadsAccounted, Identifier
<1>2. ASSUME NEW t \in DOMAIN flight', NEW r \in flight'[t].reads
      PROVE  /\ r.asset \in added' /\ records'[r.asset].status = "ready"
             /\ records'[r.asset].place = r.place
             /\ \/ \E h \in Commands : Pending(h, t)' /\ r \in recorded'[h].reads
                \/ /\ t \in submissions'
                   /\ records'[r.asset].demand # 0 \/ t \in records'[r.asset].retirement
  <2>1. t \in DOMAIN flight /\ t \in Timepoint /\ r \in flight[t].reads
    BY DEF IInv, TypeOK, GpuType
  <2>2. r.asset \in Asset
    BY <2>1 DEF IInv, TypeOK, GpuType, Batch, Read
  <2>3. Guarded(r.asset)
    BY <2>1, ReadsGuarded
  <2>4. CASE \E h \in Commands : Pending(h, t) /\ r \in recorded[h].reads
    <3>1. \E h \in Commands : Pending(h, t)' /\ r \in recorded'[h].reads
      BY <2>1, <2>4 DEF PendingSame
    <3> QED BY <2>1, <2>2, <2>3, <3>1 DEF IInv, ReadsAccounted
  <2>5. CASE /\ t \in submissions
             /\ records[r.asset].demand # 0 \/ t \in records[r.asset].retirement
    BY <2>1, <2>2, <2>3, <2>5 DEF IInv, ReadsAccounted
  <2> QED BY <2>1, <2>4, <2>5 DEF IInv, ReadsAccounted
<1> QED BY <1>1, <1>2 DEF ReadsAccounted

(* Groups and demands that nothing changes. *)
LEMMA GroupsStep ==
  ASSUME IInv, UNCHANGED <<workers, generation, added, groups>>,
         \A a \in Asset : records'[a].demand = records[a].demand,
         \A a \in Asset \ added : records'[a] = records[a],
         \A a \in added : records[a].status = "ready" /\ records[a].demand # 0
                            => records'[a].status = "ready"
  PROVE  IdentifiersKnown' /\ DemandCounted' /\ CompletedStaysReady'
<1>1. IdentifiersKnown'
  BY DEF IInv, IdentifiersKnown, HeldBy, Declared
<1>2. DemandCounted'
  BY DEF IInv, TypeOK, ManagerType, DemandCounted, Identifier
<1>3. CompletedStaysReady'
  <2> SUFFICES ASSUME NEW g \in Group, NEW id \in groups[g].completed, Found(id)
               PROVE  records'[id.asset].status = "ready"
    BY DEF IInv, CompletedStaysReady, Found
  <2>1. id \in Ident /\ id \in groups[g].demands /\ records[id.asset].status = "ready"
    BY DEF IInv, CompletedStaysReady, TypeOK, GroupsType, GroupType
  <2>2. id.asset \in added /\ id = Identifier(id.asset)
    BY <2>1, IdentifierFound DEF Found
  <2>3. records[id.asset].demand # 0
    BY <2>1, <2>2, DemandPositive DEF IInv
  <2> QED BY <2>1, <2>2, <2>3
<1> QED BY <1>1, <1>2, <1>3

(* Command buffers that nothing submits. *)
LEMMA BuffersStep ==
  ASSUME IInv, UNCHANGED <<flight, submissions>>, PendingSame, UploadsKeptOrLost,
         \A i \in Image : records'[i].uploaded \in {records[i].uploaded, 0},
         \A h \in Commands : recorded'[h] # Nothing =>
           Filling(h)' \/ \E t \in Timepoint : Pending(h, t)
  PROVE  BuffersInUse'
<1>1. ASSUME NEW h \in Commands, NEW t \in Timepoint, Pending(h, t)'
      PROVE  /\ recorded'[h].uploads = {}
             /\ t \notin submissions'
             /\ \A i \in Image : records'[i].uploaded # t
             /\ \A k \in Commands \ {h} : ~Pending(k, t)'
  <2>1. Pending(h, t)
    BY <1>1 DEF PendingSame
  <2>2. t # 0
    BY AssetAssumption DEF Timepoint
  <2> QED BY <2>1, <2>2 DEF IInv, BuffersInUse, UploadsKeptOrLost, PendingSame
<1>2. \A h \in Commands : recorded'[h] # Nothing =>
        Filling(h)' \/ \E t \in Timepoint : Pending(h, t)'
  BY DEF PendingSame
<1>3. \A t \in DOMAIN flight' :
        t \in submissions' \/ \E h \in Commands : Pending(h, t)'
  BY DEF IInv, BuffersInUse, PendingSame, TypeOK, GpuType
<1> QED BY <1>1, <1>2, <1>3 DEF BuffersInUse

-----------------------------------------------------------------------------
(* collect() *)

(* The record of an image or shader that is given back, or is not.         *)
AfterRelease(old, new) ==
  /\ old.commands = none /\ old.demand = 0
  /\ AllReached(old.retirement)
  /\ old.uploaded = 0 \/ Reached(old.uploaded)
  /\ new.place = <<>> /\ new.uploaded = 0
  /\ new.status = "idle" /\ new.program = FALSE

AfterUpload(old, new) ==
  /\ new.place = old.place /\ new.program = old.program
  /\ new.retirement = old.retirement
  /\ \/ new = old /\ ~(old.commands = none /\ UploadDone(old))
     \/ /\ old.commands = none /\ UploadDone(old)
        /\ new.uploaded = 0 /\ new.status = "ready"

LEMMA CollectedRecord ==
  ASSUME NEW record \in RecordType
  PROVE  /\ Collected(record) \in RecordType
         /\ Collected(record).demand = record.demand
         /\ Collected(record).decoding = record.decoding
         /\ Collected(record).commands = record.commands
         /\ GivenBack(record) => AfterRelease(record, Collected(record))
         /\ ~GivenBack(record) => AfterUpload(record, Collected(record))
<1> USE DEF AfterRelease, AfterUpload
<1> DEFINE done == [record EXCEPT !.uploaded = 0, !.status = "ready"]
<1>1. done \in RecordType /\ Released(record) \in RecordType
      /\ Released(done) \in RecordType
  BY DEF RecordType, Released
<1>2. /\ done.demand = record.demand /\ done.decoding = record.decoding
      /\ done.commands = record.commands /\ done.place = record.place
      /\ done.program = record.program /\ done.retirement = record.retirement
      /\ done.uploaded = 0 /\ done.status = "ready"
  BY DEF RecordType
<1>3. ASSUME NEW r \in RecordType
      PROVE  /\ Released(r).demand = r.demand /\ Released(r).decoding = r.decoding
             /\ Released(r).commands = r.commands
             /\ Released(r).uploaded = r.uploaded
             /\ Released(r).place = <<>> /\ Released(r).program = FALSE
             /\ Released(r).status = "idle"
  BY DEF RecordType, Released
<1> HIDE DEF done
<1>4. CASE record.commands = none /\ UploadDone(record)
  <2>1. Finished(record) = done
    BY <1>4 DEF Finished, done
  <2>2. CASE GivenBack(record)
    <3>1. Collected(record) = Released(done)
      BY <2>1, <2>2 DEF Collected
    <3>2. record.demand = 0 /\ AllReached(record.retirement)
      BY <2>1, <2>2, <1>2 DEF GivenBack, Free
    <3>3. /\ Released(done).demand = record.demand
          /\ Released(done).decoding = record.decoding
          /\ Released(done).commands = record.commands
          /\ Released(done).uploaded = 0 /\ Released(done).place = <<>>
          /\ Released(done).program = FALSE /\ Released(done).status = "idle"
      BY <1>1, <1>2, <1>3
    <3> QED BY <3>1, <3>2, <3>3, <2>2, <1>1, <1>4 DEF UploadDone
  <2>3. CASE ~GivenBack(record)
    <3>1. Collected(record) = done
      BY <2>1, <2>3 DEF Collected
    <3> QED BY <3>1, <2>3, <1>1, <1>2, <1>4
  <2> QED BY <2>2, <2>3
<1>5. CASE ~(record.commands = none /\ UploadDone(record))
  <2>1. Finished(record) = record
    BY <1>5 DEF Finished
  <2>2. CASE GivenBack(record)
    <3>1. Collected(record) = Released(record)
      BY <2>1, <2>2 DEF Collected
    <3>2. /\ record.uploaded = 0 /\ record.commands = none
          /\ record.demand = 0 /\ AllReached(record.retirement)
      BY <2>1, <2>2 DEF GivenBack, Free
    <3> QED BY <3>1, <3>2, <2>2, <1>1, <1>3
  <2>3. CASE ~GivenBack(record)
    <3>1. Collected(record) = record
      BY <2>1, <2>3 DEF Collected
    <3> QED BY <3>1, <2>3, <1>5
  <2> QED BY <2>2, <2>3
<1> QED BY <1>4, <1>5

(* What the images given back leave on a page. *)
Freed(p) == {r \in Region : \E i \in Image :
               GivenBack(records[i]) /\ records[i].place = <<p, r>>}

LEMMA LeftOverPage ==
  ASSUME IInv, NEW p \in DOMAIN pages
  PROVE  /\ LeftOver(p) \in PageType
         /\ LeftOver(p).free = pages[p].free \cup Freed(p)
         /\ LeftOver(p).storage = pages[p].storage
         /\ LeftOver(p).contents = pages[p].contents
         /\ LeftOver(p).allocations = Cardinality(Region \ LeftOver(p).free)
<1> DEFINE free == pages[p].free \cup Freed(p)
           allocations == pages[p].allocations - Cardinality(Freed(p))
<1>1. pages[p] \in PageType /\ p \in Page
  BY DEF IInv, TypeOK, PagesType
<1>2. Freed(p) \subseteq Region \ pages[p].free
  <2> SUFFICES ASSUME NEW r \in Region, NEW i \in Image,
                      records[i].place = <<p, r>>
               PROVE  r \notin pages[p].free
    BY DEF Freed
  <2>1. records[i].place # <<>> /\ records[i].place[1] = p
        /\ records[i].place[2] = r
    OBVIOUS
  <2> QED BY <2>1 DEF IInv, RegionsHeldOnce
<1>3. IsFiniteSet(Region) /\ IsFiniteSet(Region \ pages[p].free)
  BY AssetAssumption, FS_Subset
<1>4. /\ pages[p].allocations = Cardinality(Region \ pages[p].free)
      /\ pages[p].free \subseteq Region
  BY <1>1 DEF IInv, RegionsHeldOnce, PageType
<1>5. /\ Cardinality(Freed(p)) \in Nat
      /\ Cardinality((Region \ pages[p].free) \ Freed(p)) =
           Cardinality(Region \ pages[p].free) - Cardinality(Freed(p))
  <2>1. IsFiniteSet(Freed(p)) /\ Cardinality(Freed(p)) \in Nat
    BY <1>2, <1>3, FS_Subset, FS_CardinalityType
  <2>2. (Region \ pages[p].free) \cap Freed(p) = Freed(p)
    BY <1>2
  <2> QED BY <2>1, <2>2, <1>3, FS_Difference
<1>6. Region \ free = (Region \ pages[p].free) \ Freed(p)
  OBVIOUS
<1>7. allocations = Cardinality(Region \ free) /\ allocations \in Nat
  <2>1. IsFiniteSet(Region \ free)
    BY <1>3, FS_Subset
  <2>2. Cardinality(Region \ free) \in Nat
    BY <2>1, FS_CardinalityType
  <2> QED BY <2>2, <1>4, <1>5, <1>6
<1>8. LeftOver(p) = [pages[p] EXCEPT !.free = free, !.allocations = allocations]
  BY DEF LeftOver, Freed
<1>9. free \in SUBSET Region
  BY <1>4 DEF Freed
<1> HIDE DEF free, allocations
<1>10. /\ LeftOver(p) \in PageType
       /\ LeftOver(p).free = free
       /\ LeftOver(p).storage = pages[p].storage
       /\ LeftOver(p).contents = pages[p].contents
       /\ LeftOver(p).allocations = allocations
  BY <1>1, <1>7, <1>8, <1>9 DEF PageType
<1> QED BY <1>7, <1>10 DEF free

LEMMA CollectionTypes ==
  ASSUME IInv, Collection
  PROVE  /\ RecordsType' /\ PagesType'
         /\ DOMAIN pages' \subseteq DOMAIN pages
         /\ \A a \in Asset : records'[a] = Collected(records[a])
         /\ \A p \in DOMAIN pages' : pages'[p] = LeftOver(p)
         /\ \A p \in DOMAIN pages : LeftOver(p).allocations # 0 => p \in DOMAIN pages'
<1>1. \A a \in Asset : Collected(records[a]) \in RecordType
  BY CollectedRecord DEF IInv, TypeOK, RecordsType
<1>2. RecordsType' /\ \A a \in Asset : records'[a] = Collected(records[a])
  BY <1>1 DEF Collection, RecordsType
<1> DEFINE D == {q \in DOMAIN pages : LeftOver(q).allocations # 0}
<1>3. pages' = [p \in D |-> LeftOver(p)]
  BY DEF Collection
<1>4. \A p \in D : LeftOver(p) \in PageType
  BY LeftOverPage
<1>5. DOMAIN pages' = D /\ \A p \in D : pages'[p] = LeftOver(p)
  BY <1>3
<1>6. PagesType'
  BY <1>3, <1>4, <1>5 DEF PagesType, IInv, TypeOK
<1> QED BY <1>2, <1>5, <1>6

(* An image whose upload is unfinished is left as it is. *)
LEMMA UploadersLeft ==
  ASSUME IInv, Collection, NEW i \in Image,
         \/ records[i].commands # none
         \/ records[i].uploaded # 0 /\ records[i].uploaded \in DOMAIN flight
  PROVE  records'[i] = records[i] /\ ~GivenBack(records[i])
<1>1. i \in Asset /\ records[i] \in RecordType
  BY DEF Asset, IInv, TypeOK, RecordsType
<1>2. records'[i] = Collected(records[i])
  BY <1>1, CollectionTypes
<1>3. ~(records[i].commands = none /\ UploadDone(records[i]))
  BY DEF UploadDone, Reached
<1>4. ~GivenBack(records[i])
  BY <1>1, CollectedRecord DEF AfterRelease, Reached
<1> QED BY <1>1, <1>2, <1>3, <1>4, CollectedRecord DEF AfterUpload

LEMMA CollectionRegions ==
  ASSUME IInv, Collection
  PROVE  /\ RegionsHeldOnce'
         /\ \A i \in Image : records'[i].place # <<>> =>
              /\ records'[i].place = records[i].place
              /\ \A j : Holds(records[i].place, j)' <=> Holds(records[i].place, j)
<1>1. \A i \in Image : i \in Asset /\ records[i] \in RecordType
  BY DEF Asset, IInv, TypeOK, RecordsType
<1>2. \A i \in Image : records'[i].place # <<>> =>
        records'[i].place = records[i].place /\ ~GivenBack(records[i])
  <2> TAKE i \in Image
  <2>1. records[i] \in RecordType /\ records'[i] = Collected(records[i])
    BY <1>1, CollectionTypes
  <2>2. GivenBack(records[i]) => records'[i].place = <<>>
    BY <2>1, CollectedRecord DEF AfterRelease
  <2>3. ~GivenBack(records[i]) => records'[i].place = records[i].place
    BY <2>1, CollectedRecord DEF AfterUpload
  <2> QED BY <2>2, <2>3
<1>3. ASSUME NEW i \in Image, records'[i].place # <<>>
      PROVE  /\ records[i].place[1] \in DOMAIN pages'
             /\ records[i].place[2] \notin pages'[records[i].place[1]].free
             /\ pages'[records[i].place[1]].contents =
                  pages[records[i].place[1]].contents
  <2> DEFINE p == records[i].place[1]
             r == records[i].place[2]
  <2>1. /\ records[i].place # <<>> /\ records[i].place \in Place
        /\ p \in DOMAIN pages /\ r \notin pages[p].free /\ r \in Region
        /\ records[i].place = <<p, r>>
    BY <1>1, <1>2, <1>3 DEF IInv, RegionsHeldOnce, RecordType, Place
  <2>2. r \notin Freed(p)
    <3> SUFFICES ASSUME NEW j \in Image, GivenBack(records[j]),
                        records[j].place = <<p, r>>
                 PROVE  FALSE
      BY DEF Freed
    <3>1. j # i
      BY <1>2, <1>3
    <3> QED BY <2>1, <3>1 DEF IInv, RegionsHeldOnce
  <2>3. r \in Region \ LeftOver(p).free
    BY <2>1, <2>2, LeftOverPage
  <2>4. IsFiniteSet(Region \ LeftOver(p).free)
    BY AssetAssumption, FS_Subset
  <2>5. Cardinality(Region \ LeftOver(p).free) # 0
    BY <2>3, <2>4, FS_EmptySet
  <2>6. p \in DOMAIN pages' /\ pages'[p] = LeftOver(p)
    BY <2>1, <2>5, LeftOverPage, CollectionTypes
  <2> QED BY <2>1, <2>3, <2>6, LeftOverPage
<1>4. \A p \in DOMAIN pages' :
        pages'[p].allocations = Cardinality(Region \ pages'[p].free)
  BY CollectionTypes, LeftOverPage
<1>5. RegionsHeldOnce'
  <2>1. ASSUME NEW i \in Image, records'[i].place # <<>>, NEW j \in Image \ {i}
        PROVE  records'[j].place # records'[i].place
    BY <2>1, <1>2 DEF IInv, RegionsHeldOnce
  <2> QED BY <2>1, <1>2, <1>3, <1>4 DEF RegionsHeldOnce
<1> QED BY <1>2, <1>3, <1>5 DEF Holds

(* What is recorded or submitted stays, or is dropped with its buffer. *)
ReadsKeptOrDropped ==
  \A h \in Commands : \/ recorded'[h].reads = recorded[h].reads
                      \/ /\ recorded'[h].reads = {}
                         /\ \A t \in Timepoint : ~Pending(h, t)

BuffersStillUsed ==
  \A h \in Commands : recorded'[h] # Nothing =>
    Filling(h)' \/ \E t \in Timepoint : Pending(h, t)

(* The images, when collect() is a part of the step. *)
LEMMA CollectionUploads ==
  ASSUME IInv, Collection, GpuType', UNCHANGED <<flight, submissions>>,
         PendingSame, UploadsKeptOrLost
  PROVE  /\ RecordsCoherent' /\ UploadsAccounted'
         /\ WritersApart' /\ ContentsArrive'
<1>1. \A a \in Asset : /\ records[a] \in RecordType
                       /\ records'[a] = Collected(records[a])
                       /\ Coherent(a, records[a])
  BY CollectionTypes DEF IInv, TypeOK, RecordsType, RecordsCoherent
<1>2. RecordsCoherent'
  <2> SUFFICES ASSUME NEW a \in Asset PROVE Coherent(a, records'[a])
    BY DEF RecordsCoherent
  <2> DEFINE old == records[a]
             new == records'[a]
  <2>1. /\ new = Collected(old) /\ old \in RecordType /\ Coherent(a, old)
    BY <1>1
  <2>2. /\ new.decoding = old.decoding /\ new.commands = old.commands
        /\ GivenBack(old) => AfterRelease(old, new)
        /\ ~GivenBack(old) => AfterUpload(old, new)
    BY <2>1, CollectedRecord
  <2>3. old.status \in {"idle", "loading", "ready", "failed"}
    BY <2>1 DEF RecordType
  <2> HIDE DEF old, new
  <2>4. GivenBack(old) => Coherent(a, new)
    BY <2>1, <2>2 DEF AfterRelease, Coherent, OnItsWay
  <2>5. ~GivenBack(old) => Coherent(a, new)
    BY <2>1, <2>2, <2>3 DEF AfterUpload, Coherent, OnItsWay, UploadDone
  <2> QED BY <2>4, <2>5 DEF new
<1>3. \A i \in Image : /\ i \in Asset
                       /\ records[i].commands \in Commands \cup {none}
                       /\ records[i].commands # none => records'[i] = records[i]
                       /\ records[i].uploaded \in DOMAIN flight /\ records[i].uploaded # 0
                            => records'[i] = records[i]
  BY UploadersLeft, <1>1 DEF Asset, RecordType
<1>4. UploadsAccounted'
  <2>1. ASSUME NEW h \in Commands, NEW u \in recorded'[h].uploads
        PROVE  records'[u.image].place = u.place /\ records'[u.image].commands = h
    <3>1. u \in recorded[h].uploads /\ u.image \in Image
      BY DEF UploadsKeptOrLost, IInv, TypeOK, GpuType, Batch, Upload
    <3>2. records[u.image].place = u.place /\ records[u.image].commands = h
      BY <3>1 DEF IInv, UploadsAccounted
    <3>3. h # none
      BY AssetAssumption
    <3> QED BY <3>1, <3>2, <3>3, <1>3
  <2>2. ASSUME NEW t \in DOMAIN flight', NEW u \in flight'[t].uploads
        PROVE  /\ records'[u.image].place = u.place
               /\ \/ records'[u.image].uploaded = t
                  \/ Pending(records[u.image].commands, t)'
    <3>1. t \in Timepoint /\ t # 0 /\ t \in DOMAIN flight
          /\ u \in flight[t].uploads /\ u.image \in Image
      BY AssetAssumption DEF IInv, TypeOK, GpuType, Batch, Upload, Timepoint
    <3>2. /\ records[u.image].place = u.place
          /\ \/ records[u.image].uploaded = t
             \/ Pending(records[u.image].commands, t)
      BY <3>1 DEF IInv, UploadsAccounted
    <3>3. CASE records[u.image].uploaded = t
      BY <3>1, <3>2, <3>3, <1>3
    <3>4. CASE Pending(records[u.image].commands, t)
      <4>1. records[u.image].commands # none
        BY <3>4, NoneNotPending
      <4>2. Pending(records[u.image].commands, t)'
        BY <3>1, <3>4, <4>1, <1>3 DEF PendingSame
      <4> QED BY <3>1, <3>2, <4>1, <4>2, <1>3
    <3> QED BY <3>2, <3>3, <3>4
  <2> QED BY <2>1, <2>2 DEF UploadsAccounted
<1>5. WritersApart'
  <2>1. ASSUME NEW p \in Page, NEW h \in Commands, Writing(recorded'[h], p)
        PROVE  Writing(recorded[h], p)
    BY <2>1 DEF Writing, UploadsKeptOrLost
  <2> QED BY <2>1 DEF IInv, WritersApart, Writing
<1>6. ContentsArrive'
  <2> SUFFICES ASSUME NEW i \in Image, i \notin lost'
               PROVE  /\ records'[i].status = "ready" => Holds(records[i].place, i)'
                      /\ records'[i].uploaded # 0 => Arrives(i, records[i].uploaded)'
                      /\ records'[i].commands # none =>
                           \/ [image |-> i, place |-> records'[i].place]
                                \in recorded'[records'[i].commands].uploads
                           \/ \E t \in Timepoint :
                                Pending(records[i].commands, t)' /\ Arrives(i, t)'
    BY DEF ContentsArrive
  <2>1. i \in Image \ lost /\ i \in Asset
    BY <1>3 DEF UploadsKeptOrLost
  <2>2. /\ records'[i].commands = records[i].commands
        /\ GivenBack(records[i]) => AfterRelease(records[i], records'[i])
        /\ ~GivenBack(records[i]) => AfterUpload(records[i], records'[i])
    BY <2>1, <1>1, CollectedRecord
  <2>3. ASSUME records'[i].place # <<>>
        PROVE  /\ records'[i].place = records[i].place
               /\ Holds(records[i].place, i)' <=> Holds(records[i].place, i)
               /\ \A t : Arrives(i, t)' <=> Arrives(i, t)
    <3>1. /\ records'[i].place = records[i].place
          /\ Holds(records[i].place, i)' <=> Holds(records[i].place, i)
      BY <2>3, CollectionRegions DEF Holds
    <3> QED BY <3>1 DEF Arrives, Holds
  <2>4. CASE GivenBack(records[i])
    BY <2>2, <2>4 DEF AfterRelease
  <2>5. CASE ~GivenBack(records[i])
    <3>1. AfterUpload(records[i], records'[i])
      BY <2>2, <2>5
    <3>2. CASE records[i].commands # none
      <4>1. records'[i] = records[i] /\ records[i].status = "loading"
            /\ records[i].uploaded = 0 /\ records[i].place # <<>>
        BY <3>2, <1>3, <1>1 DEF Coherent, OnItsWay
      <4>2. records[i].commands \in Commands
        BY <3>2, <1>3
      <4>3. [image |-> i, place |-> records[i].place]
                \in recorded[records[i].commands].uploads
            => [image |-> i, place |-> records[i].place]
                \in recorded'[records[i].commands].uploads
        BY <4>2 DEF UploadsKeptOrLost
      <4>4. \/ [image |-> i, place |-> records[i].place]
                 \in recorded[records[i].commands].uploads
            \/ \E t \in Timepoint :
                 Pending(records[i].commands, t) /\ Arrives(i, t)
        BY <2>1, <3>2 DEF IInv, ContentsArrive
      <4>5. \/ [image |-> i, place |-> records'[i].place]
                 \in recorded'[records'[i].commands].uploads
            \/ \E t \in Timepoint :
                 Pending(records[i].commands, t)' /\ Arrives(i, t)'
        BY <4>1, <4>2, <4>3, <4>4, <2>3 DEF PendingSame
      <4> QED BY <4>1, <4>5
    <3>3. CASE records[i].commands = none /\ UploadDone(records[i])
      <4>1. /\ records'[i].uploaded = 0 /\ records'[i].commands = none
            /\ records'[i].place = records[i].place
        BY <3>1, <3>3, <2>2 DEF AfterUpload
      <4>2. records[i].place # <<>> /\ records[i].uploaded \notin DOMAIN flight
            /\ records[i].uploaded # 0
        BY <3>3, <1>1, <2>1 DEF Coherent, OnItsWay, UploadDone, Reached
      <4>3. Holds(records[i].place, i)
        BY <2>1, <4>2 DEF IInv, ContentsArrive, Arrives
      <4>4. Holds(records[i].place, i)'
        BY <2>3, <4>1, <4>2, <4>3
      <4> QED BY <4>1, <4>4
    <3>4. CASE records[i].commands = none /\ ~UploadDone(records[i])
      <4>1. records'[i] = records[i]
        BY <3>1, <3>4 DEF AfterUpload
      <4>2. records[i].status = "ready" \/ records[i].uploaded # 0
              => records[i].place # <<>>
        BY <1>1, <2>1 DEF Coherent, OnItsWay
      <4>3. /\ records[i].status = "ready" => Holds(records[i].place, i)
            /\ records[i].uploaded # 0 => Arrives(i, records[i].uploaded)
        BY <2>1 DEF IInv, ContentsArrive
      <4>4. records'[i].status = "ready" => Holds(records[i].place, i)'
        BY <4>1, <4>2, <4>3, <2>3
      <4>5. records'[i].uploaded # 0 => Arrives(i, records[i].uploaded)'
        <5> SUFFICES ASSUME records'[i].uploaded # 0
                     PROVE  Arrives(i, records[i].uploaded)'
          OBVIOUS
        <5>1. /\ \A t : Arrives(i, t)' <=> Arrives(i, t)
              /\ Arrives(i, records[i].uploaded)
          BY <4>1, <4>2, <4>3, <2>3
        <5> QED BY <4>1, <5>1 DEF Arrives
      <4> QED BY <4>1, <4>4, <4>5, <3>4
    <3> QED BY <3>2, <3>3, <3>4
  <2> QED BY <2>4, <2>5
<1> QED BY <1>2, <1>4, <1>5, <1>6

LEMMA CollectionStep ==
  ASSUME IInv, Collection, GpuType',
         UNCHANGED <<manager, submissions, groups, flight>>,
         PendingSame, UploadsKeptOrLost, ReadsKeptOrDropped, BuffersStillUsed
  PROVE  /\ RecordsType' /\ PagesType'
         /\ IdentifiersKnown' /\ DemandCounted' /\ CompletedStaysReady'
         /\ RecordsCoherent' /\ RegionsHeldOnce' /\ UploadsAccounted'
         /\ WritersApart' /\ ContentsArrive' /\ BuffersInUse' /\ ReadsAccounted'
<1>1. UNCHANGED <<workers, generation, added, groups, flight, submissions>>
  BY DEF manager
<1>2. /\ RecordsType' /\ PagesType' /\ RegionsHeldOnce' /\ RecordsCoherent'
      /\ UploadsAccounted' /\ WritersApart' /\ ContentsArrive'
  BY CollectionTypes, CollectionRegions, CollectionUploads
<1>3. \A a \in Asset : /\ records[a] \in RecordType
                       /\ records'[a] = Collected(records[a])
                       /\ Coherent(a, records[a])
  BY CollectionTypes DEF IInv, TypeOK, RecordsType, RecordsCoherent
<1>4. ASSUME NEW a \in Asset
      PROVE  /\ records'[a].demand = records[a].demand
             /\ a \in Image => records'[a].uploaded \in {records[a].uploaded, 0}
             /\ a \notin added => records'[a] = records[a]
             /\ records[a].status = "ready" /\ records[a].demand # 0 =>
                  records'[a].status = "ready"
             /\ Guarded(a) =>
                  /\ records'[a].status = "ready"
                  /\ records'[a].place = records[a].place
                  /\ records'[a].retirement = records[a].retirement
  <2> DEFINE old == records[a]
             new == records'[a]
  <2>1. /\ new = Collected(old) /\ old \in RecordType /\ Coherent(a, old)
    BY <1>3
  <2>2. /\ new.demand = old.demand
        /\ GivenBack(old) => AfterRelease(old, new)
        /\ ~GivenBack(old) => AfterUpload(old, new)
    BY <2>1, CollectedRecord
  <2>3. a \notin added => old = NewRecord
    BY DEF IInv, IdentifiersKnown
  <2>4. old = NewRecord => ~GivenBack(old) /\ ~UploadDone(old)
    BY DEF GivenBack, NewRecord, Finished, UploadDone
  <2>5. Guarded(a) => ~GivenBack(old) /\ old.status = "ready"
    BY <2>2 DEF Guarded, AfterRelease, AllReached, Reached
  <2> HIDE DEF old, new
  <2>6. old.status = "ready" => ~UploadDone(old)
    BY <2>1 DEF Coherent, OnItsWay, UploadDone
  <2>7. /\ new.demand = old.demand
        /\ a \in Image => new.uploaded \in {old.uploaded, 0}
        /\ a \notin added => new = old
        /\ old.status = "ready" /\ old.demand # 0 => new.status = "ready"
        /\ Guarded(a) => /\ new.status = "ready" /\ new.place = old.place
                         /\ new.retirement = old.retirement
    BY <2>2, <2>3, <2>4, <2>5, <2>6 DEF AfterRelease, AfterUpload
  <2> QED BY <2>7 DEF old, new
<1>5. IdentifiersKnown' /\ DemandCounted' /\ CompletedStaysReady'
  <2>1. added \subseteq Asset
    BY DEF IInv, TypeOK, ManagerType
  <2> QED BY <1>1, <1>4, <2>1, GroupsStep
<1>6. BuffersInUse'
  <2>1. Image \subseteq Asset
    BY DEF Asset
  <2> QED BY <1>1, <1>4, <2>1, BuffersStep DEF BuffersStillUsed
<1>7. ReadsAccounted'
  <2>1. \A h \in Commands : \A r \in recorded'[h].reads :
          Identifier(r.asset) \in groups'[r.group].demands
    <3> SUFFICES ASSUME NEW h \in Commands, NEW r \in recorded'[h].reads
                 PROVE  Identifier(r.asset) \in groups'[r.group].demands
      OBVIOUS
    <3>1. r \in recorded[h].reads
      BY DEF ReadsKeptOrDropped
    <3> QED BY <1>1, <3>1 DEF IInv, ReadsAccounted
  <2>2. \A a \in Asset : Guarded(a) =>
          /\ records'[a].status = "ready" /\ records'[a].place = records[a].place
          /\ \A t \in submissions :
               records[a].demand # 0 \/ t \in records[a].retirement
               => records'[a].demand # 0 \/ t \in records'[a].retirement
    BY <1>4
  <2>3. UNCHANGED <<flight, submissions, generation>> /\ added \subseteq added'
    BY <1>1
  <2>4. \A h \in Commands : \/ recorded'[h].reads = recorded[h].reads
                            \/ /\ recorded'[h].reads = {}
                               /\ \A t \in Timepoint : ~Pending(h, t)
    BY DEF ReadsKeptOrDropped
  <2> QED BY <2>1, <2>2, <2>3, <2>4, ReadsStep
<1> QED BY <1>2, <1>5, <1>6, <1>7

-----------------------------------------------------------------------------
(* The steps of poll() and prepare() that submit nothing *)

(* What a call may become, when it submits nothing. *)
CallFits(g, c) ==
  /\ c.step \notin {"submit", "submitted"}
  /\ g \notin Preparing => c.step \in {"idle", "poll"}
  /\ c.step \in InLoop => c.commands # none
  /\ c.commands \in {none, call[g].commands} \/ ~Live(c.commands)

LEMMA CallMoves ==
  ASSUME TypeOK, StepsCoherent, NEW g \in Group, CallType',
         \A k \in Group \ {g} : call'[k] = call[k],
         call[g].step \notin {"submit", "submitted"}, CallFits(g, call'[g]),
         UNCHANGED frame
  PROVE  /\ StepsCoherent' /\ PendingSame
         /\ \A h \in Commands : Filling(h)' <=> Filling(h)
<1>1. StepsCoherent'
  <2>1. frame.commands # none
    BY AssetAssumption DEF TypeOK, FrameType
  <2>2. \A k \in Group : /\ call'[k].step \in InLoop => call'[k].commands # none
                         /\ call'[k].commands # frame.commands
    BY <2>1 DEF StepsCoherent, CallFits, Live
  <2>3. \A k, l \in Group : call'[k].commands = call'[l].commands =>
          k = l \/ call'[k].commands = none
    BY DEF StepsCoherent, CallFits, Live
  <2> QED BY <2>2, <2>3 DEF StepsCoherent, CallFits
<1>2. \A k \in Group : /\ call'[k].step = "submit" <=> call[k].step = "submit"
                       /\ call'[k].step = "submitted" <=> call[k].step = "submitted"
                       /\ call[k].step \in {"submit", "submitted"} => call'[k] = call[k]
  BY DEF CallFits
<1> QED BY <1>1, <1>2 DEF PendingSame, Pending, Filling

LEMMA GotoMoves ==
  ASSUME IInv, NEW g \in Group, NEW step \in CallStep \ {"submit", "submitted"},
         Goto(g, step), g \notin Preparing => step \in {"idle", "poll"},
         step \in InLoop => call[g].commands # none
  PROVE  /\ CallType' /\ CallFits(g, call'[g])
         /\ \A k \in Group \ {g} : call'[k] = call[k]
BY DEF IInv, TypeOK, CallType, Goto, CallFits

LEMMA ReturnMoves ==
  ASSUME IInv, NEW g \in Group, Return(g)
  PROVE  /\ CallType' /\ CallFits(g, call'[g]) /\ call'[g] = NoCall
         /\ \A k \in Group \ {g} : call'[k] = call[k]
<1>1. "idle" \in CallStep
  BY DEF CallStep
<1> QED BY <1>1 DEF IInv, TypeOK, CallType, Return, NoCall, CallFits, InLoop

(* The command buffer of a call. *)
LEMMA BufferOwned ==
  ASSUME IInv, NEW g \in Group, call[g].step \in InLoop
  PROVE  /\ call[g].commands \in Commands /\ call[g].commands # none
         /\ call[g].commands # frame.commands /\ g \in Preparing
         /\ \A k \in Group \ {g} : call[k].commands # call[g].commands
<1>1. call[g].commands \in Commands \cup {none}
  BY DEF IInv, TypeOK, CallType
<1>2. g \in Preparing
  BY DEF IInv, StepsCoherent, InLoop
<1> QED BY <1>1, <1>2 DEF IInv, StepsCoherent

(* collect() in poll() and in prepare(). *)
LEMMA CallCollects ==
  ASSUME IInv, Collection, NEW g \in Group, CallType',
         \A k \in Group \ {g} : call'[k] = call[k],
         call[g].step \notin {"submit", "submitted"}, CallFits(g, call'[g]),
         UNCHANGED <<manager, submissions, groups, frame, gpu>>
  PROVE  IInv'
<1>1. /\ UNCHANGED <<recorded, flight, lost, submissions, groups, frame>>
      /\ UNCHANGED <<workers, generation, added>>
  BY DEF manager, gpu
<1>2. /\ StepsCoherent' /\ PendingSame
      /\ \A h \in Commands : Filling(h)' <=> Filling(h)
  BY <1>1, CallMoves DEF IInv
<1>3. GpuType' /\ ManagerType' /\ GroupsType' /\ FrameType'
  BY <1>1 DEF IInv, TypeOK, GpuType, ManagerType, GroupsType, FrameType
<1>4. UploadsKeptOrLost /\ ReadsKeptOrDropped
  BY <1>1 DEF UploadsKeptOrLost, ReadsKeptOrDropped
<1>5. BuffersStillUsed
  BY <1>1, <1>2 DEF IInv, BuffersInUse, BuffersStillUsed
<1>6. /\ RecordsType' /\ PagesType'
      /\ IdentifiersKnown' /\ DemandCounted' /\ CompletedStaysReady'
      /\ RecordsCoherent' /\ RegionsHeldOnce' /\ UploadsAccounted'
      /\ WritersApart' /\ ContentsArrive' /\ BuffersInUse' /\ ReadsAccounted'
  BY <1>1, <1>2, <1>3, <1>4, <1>5, CollectionStep
<1> QED BY <1>2, <1>3, <1>6 DEF IInv, TypeOK

LEMMA PollCollectKeeps ==
  ASSUME IInv, NEW g \in Group, PollCollect(g)
  PROVE  IInv'
<1>1. /\ Collection /\ Goto(g, "poll") /\ call[g].step = "idle"
      /\ UNCHANGED <<manager, submissions, groups, frame, gpu>>
  BY DEF PollCollect, Goto
<1>2. "poll" \in CallStep \ {"submit", "submitted"} /\ "poll" \notin InLoop
  BY DEF CallStep, InLoop
<1>3. /\ CallType' /\ CallFits(g, call'[g])
      /\ \A k \in Group \ {g} : call'[k] = call[k]
  BY <1>1, <1>2, GotoMoves
<1> QED BY <1>1, <1>3, CallCollects

LEMMA PrepareCollectKeeps ==
  ASSUME IInv, NEW g \in Group,
         \/ PrepareCollect(g) \/ PrepareUpdateCollect(g) \/ PrepareWait(g)
  PROVE  IInv'
<1>1. /\ Collection /\ call[g].step \in {"prepare", "update", "wait"}
      /\ UNCHANGED <<manager, submissions, groups, frame, gpu>>
  BY DEF PrepareCollect, PrepareUpdateCollect, PrepareWait
<1>2. g \in Preparing
  BY <1>1 DEF IInv, StepsCoherent
<1>3. /\ CallType' /\ CallFits(g, call'[g])
      /\ \A k \in Group \ {g} : call'[k] = call[k]
  <2>1. CASE PrepareCollect(g)
    <3>1. "look" \in CallStep \ {"submit", "submitted"} /\ "look" \notin InLoop
      BY DEF CallStep, InLoop
    <3> QED BY <1>2, <2>1, <3>1, GotoMoves DEF PrepareCollect
  <2>2. CASE PrepareUpdateCollect(g)
    <3>1. "record" \in CallStep \ {"submit", "submitted"} /\ "update" \in InLoop
      BY DEF CallStep, InLoop
    <3>2. call[g].commands # none
      BY <2>2, <3>1, BufferOwned DEF PrepareUpdateCollect
    <3> QED BY <1>2, <2>2, <3>1, <3>2, GotoMoves DEF PrepareUpdateCollect
  <2>3. CASE PrepareWait(g)
    <3>1. "prepare" \in CallStep /\ "prepare" \notin InLoop
      BY DEF CallStep, InLoop
    <3>2. call' = [call EXCEPT ![g].step = "prepare", ![g].time = 0]
      BY <2>3 DEF PrepareWait
    <3> QED BY <1>2, <3>1, <3>2 DEF IInv, TypeOK, CallType, CallFits
  <2> QED BY <2>1, <2>2, <2>3
<1> QED BY <1>1, <1>3, CallCollects

-----------------------------------------------------------------------------
(* Frames that begin *)

LEMMA DestroyKeeps ==
  ASSUME IInv, NEW c \in Commands, Destroy(c), PendingSame,
         UNCHANGED <<flight, submissions>>, \A t \in Timepoint : ~Pending(c, t),
         \A x \in Commands \ {c} : Filling(x) => Filling(x)'
  PROVE  /\ GpuType' /\ UploadsKeptOrLost /\ ReadsKeptOrDropped /\ BuffersStillUsed
<1>1. /\ lost' = lost \cup {u.image : u \in recorded[c].uploads}
      /\ recorded' = [recorded EXCEPT ![c] = Nothing]
  BY DEF Destroy
<1>2. /\ recorded'[c] = Nothing
      /\ \A x \in Commands \ {c} : recorded'[x] = recorded[x]
  BY <1>1 DEF IInv, TypeOK, GpuType
<1>3. GpuType'
  <2>1. Nothing \in Batch
    BY DEF Nothing, Batch
  <2>2. \A u \in recorded[c].uploads : u.image \in Image
    BY DEF IInv, TypeOK, GpuType, Batch, Upload
  <2> QED BY <1>1, <2>1, <2>2 DEF IInv, TypeOK, GpuType
<1>4. UploadsKeptOrLost
  <2>1. /\ recorded'[c].uploads \subseteq recorded[c].uploads
        /\ \A u \in recorded[c].uploads : u.image \in lost'
    BY <1>1, <1>2 DEF Nothing
  <2> QED BY <1>1, <1>2, <2>1 DEF UploadsKeptOrLost
<1>5. ReadsKeptOrDropped
  BY <1>2 DEF ReadsKeptOrDropped, Nothing
<1>6. BuffersStillUsed
  BY <1>2 DEF BuffersStillUsed, IInv, BuffersInUse
<1> QED BY <1>3, <1>4, <1>5, <1>6

LEMMA DiscardKeeps ==
  ASSUME IInv, NEW h \in Commands, Discard(h),
         FrameType', frame'.commands = h, frame'.step \in {"none", "collected"},
         UNCHANGED <<call, flight, submissions>>
  PROVE  /\ GpuType' /\ StepsCoherent' /\ PendingSame /\ UploadsKeptOrLost
         /\ ReadsKeptOrDropped /\ BuffersStillUsed
<1> DEFINE c == frame.commands
<1>1. /\ c \in Commands /\ c # none /\ frame.step \in {"none", "recording"}
      /\ \A g \in Group : call[g].commands # c
  BY AssetAssumption DEF IInv, TypeOK, FrameType, StepsCoherent, Discard
<1>2. h = c \/ ~Live(h)
  BY DEF Discard
<1>3. StepsCoherent'
  BY <1>1, <1>2 DEF StepsCoherent, IInv, Live
<1>4. /\ PendingSame
      /\ \A t \in Timepoint : ~Pending(c, t)
  BY <1>1 DEF PendingSame, Pending
<1>5. CASE UNCHANGED <<lost, recorded>> /\ frame.step = "none"
  <2>1. GpuType'
    BY <1>5 DEF IInv, TypeOK, GpuType
  <2>2. UploadsKeptOrLost /\ ReadsKeptOrDropped
    BY <1>5 DEF UploadsKeptOrLost, ReadsKeptOrDropped
  <2>3. \A x \in Commands : Filling(x) => Filling(x)'
    BY <1>5 DEF Filling
  <2>4. BuffersStillUsed
    BY <1>5, <2>3 DEF BuffersStillUsed, IInv, BuffersInUse
  <2> QED BY <1>3, <1>4, <2>1, <2>2, <2>4
<1>6. CASE Destroy(c)
  <2>1. \A x \in Commands \ {c} : Filling(x) => Filling(x)'
    BY DEF Filling
  <2> QED BY <1>1, <1>3, <1>4, <1>6, <2>1, DestroyKeeps
<1> QED BY <1>5, <1>6 DEF Discard

LEMMA BeginFrameKeeps ==
  ASSUME IInv, BeginFrame
  PROVE  IInv'
<1>1. PICK h \in Commands :
        /\ Discard(h) /\ Collection
        /\ frame' = [step |-> "collected", commands |-> h, time |-> 0]
        /\ UNCHANGED <<manager, submissions, groups, call, flight>>
  BY DEF BeginFrame
<1>2. FrameType' /\ frame'.commands = h /\ frame'.step = "collected"
  BY <1>1 DEF FrameType
<1>3. UNCHANGED <<call, flight, submissions, groups, workers, generation, added>>
  BY <1>1 DEF manager
<1>4. /\ GpuType' /\ StepsCoherent' /\ PendingSame /\ UploadsKeptOrLost
      /\ ReadsKeptOrDropped /\ BuffersStillUsed
  BY <1>1, <1>2, <1>3, DiscardKeeps
<1>5. ManagerType' /\ GroupsType' /\ CallType'
  BY <1>3 DEF IInv, TypeOK, ManagerType, GroupsType, CallType
<1>6. /\ RecordsType' /\ PagesType'
      /\ IdentifiersKnown' /\ DemandCounted' /\ CompletedStaysReady'
      /\ RecordsCoherent' /\ RegionsHeldOnce' /\ UploadsAccounted'
      /\ WritersApart' /\ ContentsArrive' /\ BuffersInUse' /\ ReadsAccounted'
  BY <1>1, <1>3, <1>4, CollectionStep
<1> QED BY <1>2, <1>4, <1>5, <1>6 DEF IInv, TypeOK

-----------------------------------------------------------------------------
(* Steps of the groups and of the workers *)

(* What a frame takes from a group stays demanded. *)
ReadsDemanded ==
  \A h \in Commands : \A r \in recorded'[h].reads :
    Identifier(r.asset) \in groups'[r.group].demands

LEMMA QuietStep ==
  ASSUME IInv, RecordsType', GpuType',
         \A a \in Asset : RecordKept(a, records[a], records'[a]),
         UNCHANGED <<pages, flight, submissions, generation>>,
         added \subseteq added', PendingSame, UploadsKeptOrLost,
         ReadsKeptOrDropped, ReadsDemanded, BuffersStillUsed
  PROVE  /\ RecordsCoherent' /\ RegionsHeldOnce' /\ UploadsAccounted'
         /\ WritersApart' /\ ContentsArrive' /\ BuffersInUse' /\ ReadsAccounted'
<1>1. /\ RecordsCoherent' /\ RegionsHeldOnce' /\ UploadsAccounted'
      /\ WritersApart' /\ ContentsArrive'
  BY KeptStep
<1>2. BuffersInUse'
  <2>1. \A i \in Image : records'[i].uploaded \in {records[i].uploaded, 0}
    BY DEF RecordKept, Asset
  <2> QED BY <2>1, BuffersStep DEF BuffersStillUsed
<1>3. ReadsAccounted'
  <2>1. \A a \in Asset : Guarded(a) =>
          /\ records'[a].status = "ready" /\ records'[a].place = records[a].place
          /\ \A t \in submissions :
               records[a].demand # 0 \/ t \in records[a].retirement
               => records'[a].demand # 0 \/ t \in records'[a].retirement
    BY DEF RecordKept, Guarded
  <2> QED BY <2>1, ReadsStep DEF ReadsKeptOrDropped, ReadsDemanded
<1> QED BY <1>1, <1>2, <1>3

(* The same when the GPU and the command buffers are not touched at all. *)
LEMMA GpuSame ==
  ASSUME IInv, UNCHANGED <<gpu, submissions>>, PendingSame,
         \A h \in Commands : Filling(h)' <=> Filling(h)
  PROVE  /\ GpuType' /\ UploadsKeptOrLost /\ ReadsKeptOrDropped
         /\ BuffersStillUsed /\ UNCHANGED flight
<1>1. UNCHANGED <<recorded, flight, lost, submissions>>
  BY DEF gpu
<1>2. GpuType'
  BY <1>1 DEF IInv, TypeOK, GpuType
<1>3. BuffersStillUsed
  BY <1>1 DEF IInv, BuffersInUse, BuffersStillUsed
<1> QED BY <1>1, <1>2, <1>3 DEF UploadsKeptOrLost, ReadsKeptOrDropped

LEMMA CallFrameSame ==
  ASSUME IInv, UNCHANGED <<call, frame>>
  PROVE  /\ CallType' /\ FrameType' /\ StepsCoherent' /\ PendingSame
         /\ \A h \in Commands : Filling(h)' <=> Filling(h)
BY DEF IInv, TypeOK, CallType, FrameType, StepsCoherent, PendingSame, Pending,
       Filling

LEMMA RecordsSame ==
  ASSUME IInv, UNCHANGED records
  PROVE  RecordsType' /\ \A a \in Asset : RecordKept(a, records[a], records'[a])
BY RecordKeptItself DEF IInv, TypeOK, RecordsType, RecordsCoherent

(* How many groups demand an asset after a step of one of them.            *)
LEMMA DemandersChange ==
  ASSUME NEW g \in Group, NEW a, UNCHANGED generation,
         \A k \in Group \ {g} : groups'[k].demands = groups[k].demands
  PROVE  Cardinality(Demanders(a)') =
           Cardinality(Demanders(a))
           + IF Identifier(a) \in groups'[g].demands \ groups[g].demands THEN 1
             ELSE IF Identifier(a) \in groups[g].demands \ groups'[g].demands
             THEN -1 ELSE 0
<1>1. UNCHANGED Identifier(a)
  BY DEF Identifier
<1>2. IsFiniteSet(Demanders(a)) /\ Cardinality(Demanders(a)) \in Nat
  BY DemandersFinite
<1>3. CASE Identifier(a) \in groups'[g].demands \ groups[g].demands
  <2>1. Demanders(a)' = Demanders(a) \cup {g} /\ g \notin Demanders(a)
    BY <1>1, <1>3 DEF Demanders
  <2> QED BY <1>2, <1>3, <2>1, FS_AddElement
<1>4. CASE Identifier(a) \in groups[g].demands \ groups'[g].demands
  <2>1. Demanders(a)' = Demanders(a) \ {g} /\ g \in Demanders(a)
    BY <1>1, <1>4 DEF Demanders
  <2> QED BY <1>2, <1>4, <2>1, FS_RemoveElement
<1>5. CASE Identifier(a) \in groups[g].demands <=> Identifier(a) \in groups'[g].demands
  <2>1. Demanders(a)' = Demanders(a)
    BY <1>1, <1>5 DEF Demanders
  <2> QED BY <1>2, <1>5, <2>1
<1> QED BY <1>3, <1>4, <1>5

(* A step of group g alone. *)
LEMMA GroupStep ==
  ASSUME IInv, NEW g \in Group, UNCHANGED manager,
         \A k \in Group \ {g} : groups'[k] = groups[k],
         \A a \in Asset : RecordKept(a, records[a], records'[a]),
         \A a \in Asset \ added : records'[a] = records[a],
         HeldBy(g)' \subseteq HeldBy(g) \cup {Identifier(a) : a \in added},
         groups'[g].completed \subseteq groups'[g].demands,
         \A id \in groups'[g].completed :
           Found(id) => records'[id.asset].status = "ready",
         groups'[g].status = "ready" => groups'[g].completed = groups'[g].demands
  PROVE  IdentifiersKnown' /\ CompletedStaysReady'
<1>1. UNCHANGED <<workers, generation, added>> /\ added \subseteq Asset
      /\ generation \in Nat
  BY DEF manager, IInv, TypeOK, ManagerType
<1>2. IdentifiersKnown'
  <2>1. ASSUME NEW k \in Group, NEW id \in HeldBy(k)'
        PROVE  /\ id.generation <= generation
               /\ workers /\ id.generation = generation => id.asset \in added
    <3>1. CASE id \in HeldBy(k)
      BY <3>1 DEF IInv, IdentifiersKnown
    <3>2. CASE k # g
      BY <2>1, <3>1, <3>2 DEF HeldBy, Declared
    <3>3. CASE k = g /\ id \notin HeldBy(k)
      <4>1. PICK a \in added : id = Identifier(a)
        BY <2>1, <3>3
      <4> QED BY <4>1, <1>1 DEF Identifier
    <3> QED BY <3>1, <3>2, <3>3
  <2>2. (~workers => added = {}) /\ \A a \in Asset \ added : records'[a] = NewRecord
    BY DEF IInv, IdentifiersKnown
  <2> QED BY <1>1, <2>1, <2>2 DEF IdentifiersKnown
<1>3. CompletedStaysReady'
  <2> SUFFICES ASSUME NEW k \in Group
               PROVE  /\ groups'[k].completed \subseteq groups'[k].demands
                      /\ \A id \in groups'[k].completed :
                           Found(id)' => records'[id.asset].status = "ready"
                      /\ groups'[k].status = "ready" =>
                           groups'[k].completed = groups'[k].demands
    BY DEF CompletedStaysReady
  <2>1. \A id : Found(id)' <=> Found(id)
    BY <1>1 DEF Found
  <2>2. CASE k = g
    BY <2>1, <2>2
  <2>3. CASE k # g
    <3>1. groups'[k] = groups[k]
      BY <2>3
    <3>2. ASSUME NEW id \in groups[k].completed, Found(id)
          PROVE  records'[id.asset].status = "ready"
      <4>1. records[id.asset].status = "ready"
        BY <3>2 DEF IInv, CompletedStaysReady
      <4>2. id.asset \in Asset
        BY <3>2, <1>1 DEF Found
      <4> QED BY <4>1, <4>2 DEF RecordKept
    <3> QED BY <2>1, <3>1, <3>2 DEF IInv, CompletedStaysReady
  <2> QED BY <2>2, <2>3
<1> QED BY <1>2, <1>3

LEMMA StartKeeps ==
  ASSUME IInv, Start
  PROVE  IInv'
<1>1. /\ ~workers /\ workers' = TRUE /\ generation' = generation + 1
      /\ UNCHANGED <<added, records, pages, submissions, groups, call, frame,
                     recorded, flight, lost>>
  BY DEF Start
<1>2. added = {} /\ generation \in Nat
  BY <1>1 DEF IInv, IdentifiersKnown, TypeOK, ManagerType
<1>3. /\ CallType' /\ FrameType' /\ StepsCoherent' /\ PendingSame
      /\ \A h \in Commands : Filling(h)' <=> Filling(h)
  BY <1>1, CallFrameSame
<1>4. UNCHANGED <<gpu, submissions>>
  BY <1>1 DEF gpu
<1>5. /\ GpuType' /\ UploadsKeptOrLost /\ ReadsKeptOrDropped
      /\ BuffersStillUsed /\ UNCHANGED flight
  BY <1>3, <1>4, GpuSame
<1>6. RecordsType' /\ \A a \in Asset : RecordKept(a, records[a], records'[a])
  BY <1>1, RecordsSame
<1>7. /\ RecordsCoherent' /\ RegionsHeldOnce' /\ UploadsAccounted'
      /\ WritersApart' /\ ContentsArrive'
  BY <1>1, <1>3, <1>5, <1>6, KeptStep
<1>8. BuffersInUse'
  BY <1>1, <1>3, <1>5, BuffersStep DEF BuffersStillUsed
<1>9. ReadsAccounted'
  BY <1>1, <1>2 DEF IInv, ReadsAccounted
<1>10. IdentifiersKnown'
  <2>1. ASSUME NEW g \in Group, NEW id \in HeldBy(g)'
        PROVE  id.generation <= generation /\ id.generation \in Nat
    <3>1. id \in HeldBy(g)
      BY <1>1, <2>1 DEF HeldBy, Declared
    <3>2. id \in Ident
      <4>1. Declared(g) \in Seq(Ident) /\ groups[g].demands \subseteq Ident
        BY DeclaredType DEF IInv, TypeOK, GroupsType, GroupType
      <4> QED BY <3>1, <4>1 DEF HeldBy, ToSet
    <3> QED BY <3>1, <3>2 DEF IInv, IdentifiersKnown, Ident
  <2>2. ASSUME NEW g \in Group, NEW id \in HeldBy(g)'
        PROVE  id.generation <= generation' /\ id.generation # generation'
    BY <1>1, <1>2, <2>1
  <2> QED BY <1>1, <1>2, <2>2 DEF IdentifiersKnown, IInv
<1>11. DemandCounted' /\ CompletedStaysReady'
  <2>1. \A id : ~Found(id)'
    BY <1>1, <1>2 DEF Found
  <2> QED BY <1>1, <1>2, <2>1 DEF IInv, DemandCounted, CompletedStaysReady
<1>12. ManagerType' /\ PagesType' /\ GroupsType'
  BY <1>1, <1>2 DEF IInv, TypeOK, ManagerType, PagesType, GroupsType
<1> QED BY <1>3, <1>5, <1>6, <1>7, <1>8, <1>9, <1>10, <1>11, <1>12
        DEF IInv, TypeOK

LEMMA AddKeeps ==
  ASSUME IInv, NEW a \in Asset, Add(a)
  PROVE  IInv'
<1>1. /\ workers /\ a \notin added /\ added' = added \cup {a}
      /\ UNCHANGED <<workers, generation, records, pages, submissions, groups,
                     call, frame, recorded, flight, lost>>
  BY DEF Add
<1>2. /\ CallType' /\ FrameType' /\ StepsCoherent' /\ PendingSame
      /\ \A h \in Commands : Filling(h)' <=> Filling(h)
  BY <1>1, CallFrameSame
<1>3. UNCHANGED <<gpu, submissions>>
  BY <1>1 DEF gpu
<1>4. /\ GpuType' /\ UploadsKeptOrLost /\ ReadsKeptOrDropped
      /\ BuffersStillUsed /\ UNCHANGED flight
  BY <1>2, <1>3, GpuSame
<1>5. RecordsType' /\ \A b \in Asset : RecordKept(b, records[b], records'[b])
  BY <1>1, RecordsSame
<1>6. ReadsDemanded
  BY <1>1 DEF IInv, ReadsAccounted, ReadsDemanded
<1>7. /\ RecordsCoherent' /\ RegionsHeldOnce' /\ UploadsAccounted'
      /\ WritersApart' /\ ContentsArrive' /\ BuffersInUse' /\ ReadsAccounted'
  BY <1>1, <1>2, <1>4, <1>5, <1>6, QuietStep
<1>8. ManagerType' /\ PagesType' /\ GroupsType'
  BY <1>1 DEF IInv, TypeOK, ManagerType, PagesType, GroupsType
<1>9. \A g \in Group : HeldBy(g)' = HeldBy(g)
  BY <1>1 DEF HeldBy, Declared
<1>10. \A g \in Group : \A id \in HeldBy(g) :
         id.generation = generation => id.asset # a
  BY <1>1 DEF IInv, IdentifiersKnown
<1>11. IdentifiersKnown'
  BY <1>1, <1>9 DEF IInv, IdentifiersKnown
<1>12. DemandCounted'
  <2>1. Identifier(a).asset = a /\ Identifier(a).generation = generation
    BY DEF Identifier
  <2>2. Demanders(a) = {}
    BY <1>10, <2>1 DEF Demanders, HeldBy
  <2>3. records[a].demand = 0
    BY <1>1 DEF IInv, IdentifiersKnown, NewRecord
  <2>4. Cardinality(Demanders(a)) = 0
    BY <2>2, FS_EmptySet
  <2>5. \A b \in added' : records[b].demand = Cardinality(Demanders(b))
    BY <1>1, <2>3, <2>4 DEF IInv, DemandCounted, Demanders
  <2> QED BY <1>1, <2>5 DEF DemandCounted, Demanders, Identifier
<1>13. CompletedStaysReady'
  <2> SUFFICES ASSUME NEW g \in Group, NEW id \in groups[g].completed, Found(id)'
               PROVE  records[id.asset].status = "ready"
    BY <1>1 DEF IInv, CompletedStaysReady
  <2>1. id \in HeldBy(g)
    BY DEF IInv, CompletedStaysReady, HeldBy
  <2>2. Found(id)
    BY <1>1, <1>10, <2>1 DEF Found
  <2> QED BY <2>2 DEF IInv, CompletedStaysReady
<1> QED BY <1>2, <1>4, <1>5, <1>7, <1>8, <1>11, <1>12, <1>13
        DEF IInv, TypeOK

(* Include and Cancel change nothing that a record or a frame depends on.  *)
LEMMA GroupAloneKeeps ==
  ASSUME IInv, NEW g \in Group, GroupsType',
         \A k \in Group \ {g} : groups'[k] = groups[k],
         groups'[g].demands = groups[g].demands,
         groups'[g].completed = groups[g].completed,
         groups'[g].status = groups[g].status,
         HeldBy(g)' \subseteq HeldBy(g) \cup {Identifier(a) : a \in added},
         UNCHANGED <<manager, records, pages, submissions, call, frame, gpu>>
  PROVE  IInv'
<1>1. UNCHANGED <<workers, generation, added, records, pages, submissions,
                  call, frame, recorded, flight, lost>>
  BY DEF manager, gpu
<1>2. /\ CallType' /\ FrameType' /\ StepsCoherent' /\ PendingSame
      /\ \A h \in Commands : Filling(h)' <=> Filling(h)
  BY <1>1, CallFrameSame
<1>3. /\ GpuType' /\ UploadsKeptOrLost /\ ReadsKeptOrDropped
      /\ BuffersStillUsed /\ UNCHANGED flight
  BY <1>2, GpuSame
<1>4. RecordsType' /\ \A b \in Asset : RecordKept(b, records[b], records'[b])
  BY <1>1, RecordsSame
<1>5. \A k \in Group : groups'[k].demands = groups[k].demands
  OBVIOUS
<1>6. ReadsDemanded
  <2> SUFFICES ASSUME NEW h \in Commands, NEW r \in recorded[h].reads
               PROVE  Identifier(r.asset) \in groups'[r.group].demands
    BY <1>1 DEF ReadsDemanded
  <2>1. r.group \in Group
    BY DEF IInv, TypeOK, GpuType, Batch, Read
  <2> QED BY <1>5, <2>1 DEF IInv, ReadsAccounted
<1>7. /\ RecordsCoherent' /\ RegionsHeldOnce' /\ UploadsAccounted'
      /\ WritersApart' /\ ContentsArrive' /\ BuffersInUse' /\ ReadsAccounted'
  BY <1>1, <1>2, <1>3, <1>4, <1>6, QuietStep
<1>8. IdentifiersKnown' /\ CompletedStaysReady'
  BY <1>1, <1>4, GroupStep DEF IInv, CompletedStaysReady
<1>9. DemandCounted'
  BY <1>1, <1>5 DEF IInv, DemandCounted, Identifier
<1>10. ManagerType' /\ PagesType'
  BY <1>1 DEF IInv, TypeOK, ManagerType, PagesType
<1> QED BY <1>2, <1>3, <1>4, <1>7, <1>8, <1>9, <1>10 DEF IInv, TypeOK

LEMMA CancelKeeps ==
  ASSUME IInv, NEW g \in Group, Cancel(g)
  PROVE  IInv'
<1>1. /\ groups' = [groups EXCEPT ![g].progress = "cancelled"]
      /\ UNCHANGED <<manager, records, pages, submissions, call, frame, gpu>>
  BY DEF Cancel
<1>2. /\ GroupsType' /\ \A k \in Group \ {g} : groups'[k] = groups[k]
      /\ groups'[g].demands = groups[g].demands
      /\ groups'[g].completed = groups[g].completed
      /\ groups'[g].status = groups[g].status
      /\ groups'[g].images = groups[g].images
      /\ groups'[g].shaders = groups[g].shaders
  BY <1>1 DEF IInv, TypeOK, GroupsType, GroupType
<1>3. HeldBy(g)' = HeldBy(g)
  BY <1>2 DEF HeldBy, Declared
<1> QED BY <1>1, <1>2, <1>3, GroupAloneKeeps

(* One more element at the end of a list of those that are declared. *)
LEMMA DeclaredMore ==
  ASSUME NEW s \in Seq(Ident), NEW t \in Seq(Ident), NEW x \in Ident
  PROVE  /\ ToSet(Append(s, x) \o t) \subseteq ToSet(s \o t) \cup {x}
         /\ ToSet(s \o Append(t, x)) \subseteq ToSet(s \o t) \cup {x}
<1>1. ASSUME NEW y \in ToSet(Append(s, x) \o t)
      PROVE  y \in ToSet(s \o t) \cup {x}
  <2>1. PICK n \in 1 .. Len(s) + 1 + Len(t) : y = (Append(s, x) \o t)[n]
    BY DEF ToSet
  <2>2. CASE n <= Len(s)
    <3>1. n \in DOMAIN (s \o t) /\ y = (s \o t)[n]
      BY <2>1, <2>2
    <3> QED BY <3>1 DEF ToSet
  <2>3. CASE n = Len(s) + 1
    BY <2>1, <2>3
  <2>4. CASE n > Len(s) + 1
    <3>1. n - 1 \in DOMAIN (s \o t) /\ y = (s \o t)[n - 1]
      BY <2>1, <2>4
    <3> QED BY <3>1 DEF ToSet
  <2> QED BY <2>1, <2>2, <2>3, <2>4
<1>2. ASSUME NEW y \in ToSet(s \o Append(t, x))
      PROVE  y \in ToSet(s \o t) \cup {x}
  <2>1. PICK n \in 1 .. Len(s) + Len(t) + 1 : y = (s \o Append(t, x))[n]
    BY DEF ToSet
  <2>2. CASE n <= Len(s) + Len(t)
    <3>1. n \in DOMAIN (s \o t) /\ y = (s \o t)[n]
      BY <2>1, <2>2
    <3> QED BY <3>1 DEF ToSet
  <2>3. CASE n = Len(s) + Len(t) + 1
    BY <2>1, <2>3
  <2> QED BY <2>1, <2>2, <2>3
<1> QED BY <1>1, <1>2

LEMMA IncludeKeeps ==
  ASSUME IInv, NEW g \in Group, NEW a \in Asset, Include(g, a)
  PROVE  IInv'
<1> DEFINE id == Identifier(a)
<1>1. /\ a \in added
      /\ groups' = IF a \in Image
           THEN [groups EXCEPT ![g].images = Append(@, id)]
           ELSE [groups EXCEPT ![g].shaders = Append(@, id)]
      /\ UNCHANGED <<manager, records, pages, submissions, call, frame, gpu>>
  BY DEF Include
<1>2. id \in Ident
  BY DEF Identifier, Ident, IInv, TypeOK, ManagerType
<1> HIDE DEF id
<1>3. /\ groups[g] \in GroupType
      /\ groups[g].images \in Seq(Ident) /\ groups[g].shaders \in Seq(Ident)
  BY DEF IInv, TypeOK, GroupsType, GroupType
<1> DEFINE images == Append(groups[g].images, id)
           shaders == Append(groups[g].shaders, id)
<1>4. images \in Seq(Ident) /\ shaders \in Seq(Ident)
  BY <1>2, <1>3
<1>5. \/ /\ groups' = [groups EXCEPT ![g].images = images]
         /\ HeldBy(g)' \subseteq HeldBy(g) \cup {id}
         /\ GroupsType'
      \/ /\ groups' = [groups EXCEPT ![g].shaders = shaders]
         /\ HeldBy(g)' \subseteq HeldBy(g) \cup {id}
         /\ GroupsType'
  <2>1. CASE a \in Image
    <3>1. groups' = [groups EXCEPT ![g].images = images]
      BY <1>1, <2>1
    <3>2. ToSet(images \o groups[g].shaders)
            \subseteq ToSet(groups[g].images \o groups[g].shaders) \cup {id}
      BY <1>2, <1>3, DeclaredMore
    <3> HIDE DEF images
    <3>3. /\ groups'[g].images = images /\ groups'[g].shaders = groups[g].shaders
          /\ groups'[g].demands = groups[g].demands
      BY <3>1, <1>3 DEF GroupType, IInv, TypeOK, GroupsType
    <3>4. HeldBy(g)' \subseteq HeldBy(g) \cup {id}
      BY <3>2, <3>3 DEF HeldBy, Declared
    <3>5. GroupsType'
      BY <3>1, <1>3, <1>4 DEF IInv, TypeOK, GroupsType, GroupType
    <3> QED BY <3>1, <3>4, <3>5
  <2>2. CASE a \notin Image
    <3>1. groups' = [groups EXCEPT ![g].shaders = shaders]
      BY <1>1, <2>2
    <3>2. ToSet(groups[g].images \o shaders)
            \subseteq ToSet(groups[g].images \o groups[g].shaders) \cup {id}
      BY <1>2, <1>3, DeclaredMore
    <3> HIDE DEF shaders
    <3>3. /\ groups'[g].images = groups[g].images /\ groups'[g].shaders = shaders
          /\ groups'[g].demands = groups[g].demands
      BY <3>1, <1>3 DEF GroupType, IInv, TypeOK, GroupsType
    <3>4. HeldBy(g)' \subseteq HeldBy(g) \cup {id}
      BY <3>2, <3>3 DEF HeldBy, Declared
    <3>5. GroupsType'
      BY <3>1, <1>3, <1>4 DEF IInv, TypeOK, GroupsType, GroupType
    <3> QED BY <3>1, <3>4, <3>5
  <2> QED BY <2>1, <2>2
<1> HIDE DEF images, shaders
<1>6. /\ GroupsType' /\ \A k \in Group \ {g} : groups'[k] = groups[k]
      /\ groups'[g].demands = groups[g].demands
      /\ groups'[g].completed = groups[g].completed
      /\ groups'[g].status = groups[g].status
  BY <1>3, <1>5 DEF GroupType, IInv, TypeOK, GroupsType
<1>7. HeldBy(g)' \subseteq HeldBy(g) \cup {Identifier(b) : b \in added}
  BY <1>1, <1>5 DEF id
<1> QED BY <1>1, <1>6, <1>7, GroupAloneKeeps

(* A step of group g that also changes records. *)
LEMMA GroupAndRecordsStep ==
  ASSUME IInv, NEW g \in Group, GroupsType', RecordsType', CallType',
         UNCHANGED <<manager, pages, submissions, frame, gpu>>,
         StepsCoherent', PendingSame,
         \A h \in Commands : Filling(h)' <=> Filling(h),
         \A k \in Group \ {g} : groups'[k] = groups[k],
         \A a \in Asset : RecordKept(a, records[a], records'[a]),
         \A a \in Asset \ added : records'[a] = records[a],
         HeldBy(g)' \subseteq HeldBy(g),
         groups'[g].completed \subseteq groups'[g].demands,
         \A id \in groups'[g].completed :
           Found(id) => records'[id.asset].status = "ready",
         groups'[g].status = "ready" => groups'[g].completed = groups'[g].demands,
         DemandCounted',
         groups[g].demands \subseteq groups'[g].demands \/ ~InUse(g)
  PROVE  IInv'
<1>1. UNCHANGED <<workers, generation, added, pages, submissions, frame,
                  recorded, flight, lost>>
  BY DEF manager, gpu
<1>2. /\ GpuType' /\ UploadsKeptOrLost /\ ReadsKeptOrDropped
      /\ BuffersStillUsed /\ UNCHANGED flight
  BY <1>1, GpuSame
<1>3. ReadsDemanded
  <2> SUFFICES ASSUME NEW h \in Commands, NEW r \in recorded[h].reads
               PROVE  Identifier(r.asset) \in groups'[r.group].demands
    BY <1>1 DEF ReadsDemanded
  <2>1. r.group \in Group /\ Identifier(r.asset) \in groups[r.group].demands
    BY DEF IInv, TypeOK, GpuType, Batch, Read, ReadsAccounted
  <2>2. r.group = g => InUse(g)
    BY DEF InUse
  <2>3. CASE r.group = g
    BY <2>1, <2>2, <2>3
  <2>4. CASE r.group # g
    BY <2>1, <2>4
  <2> QED BY <2>3, <2>4
<1>4. /\ RecordsCoherent' /\ RegionsHeldOnce' /\ UploadsAccounted'
      /\ WritersApart' /\ ContentsArrive' /\ BuffersInUse' /\ ReadsAccounted'
  BY <1>1, <1>2, <1>3, QuietStep
<1>5. IdentifiersKnown' /\ CompletedStaysReady'
  BY GroupStep
<1>6. ManagerType' /\ PagesType' /\ FrameType'
  BY <1>1 DEF IInv, TypeOK, ManagerType, PagesType, FrameType
<1> QED BY <1>2, <1>4, <1>5, <1>6 DEF IInv, TypeOK

-----------------------------------------------------------------------------
(* load() and unload() *)

LEMMA LoadingStep ==
  ASSUME IInv, NEW g \in Group, NEW outcome \in [Shader -> Outcome],
         Loading(g, outcome), CallType',
         UNCHANGED <<manager, pages, submissions, frame, gpu>>,
         StepsCoherent', PendingSame,
         \A h \in Commands : Filling(h)' <=> Filling(h)
  PROVE  IInv'
<1> DEFINE after == LoadTurns(g, outcome)[Len(Declared(g))]
           loads == groups[g].loads + 1
<1>1. /\ records' = after.records
      /\ groups' = [groups EXCEPT ![g] =
                      [groups[g] EXCEPT
                         !.demands = after.demands, !.completed = {},
                         !.progress = "running", !.status = after.status,
                         !.loads = loads]]
  BY DEF Loading
<1>2. after \in SofarType /\ LoadedFrom(g, after)
  BY LoadingKeeps DEF IInv, TypeOK
<1> HIDE DEF after
<1>3. groups[g] \in GroupType /\ loads \in Nat
  BY DEF IInv, TypeOK, GroupsType, GroupType
<1> HIDE DEF loads
<1>4. /\ GroupsType'
      /\ \A k \in Group \ {g} : groups'[k] = groups[k]
      /\ groups'[g].demands = after.demands /\ groups'[g].completed = {}
      /\ groups'[g].status = after.status
      /\ groups'[g].images = groups[g].images
      /\ groups'[g].shaders = groups[g].shaders
  BY <1>1, <1>2, <1>3 DEF IInv, TypeOK, GroupsType, GroupType, SofarType
<1>5. after.status \in {"loading", "failed"}
  BY <1>2 DEF SofarType
<1>6. /\ RecordsType'
      /\ \A a \in Asset : RecordKept(a, records[a], records'[a])
      /\ \A a \in Asset \ added : records'[a] = records[a]
  BY <1>1, <1>2 DEF RecordsType, SofarType, LoadedFrom
<1>7. HeldBy(g)' \subseteq HeldBy(g)
  BY <1>2, <1>4 DEF HeldBy, Declared, LoadedFrom
<1>8. groups[g].demands \subseteq groups'[g].demands
  BY <1>2, <1>4 DEF LoadedFrom
<1>9. DemandCounted'
  <2>1. UNCHANGED <<generation, added>> /\ added \subseteq Asset
    BY DEF manager, IInv, TypeOK, ManagerType
  <2>2. ASSUME NEW a \in added
        PROVE  records'[a].demand = Cardinality(Demanders(a)')
    <3>1. records[a].demand = Cardinality(Demanders(a))
      BY DEF IInv, DemandCounted, Demanders
    <3>2. Joined(g, after.demands, a) <=>
            Identifier(a) \in groups'[g].demands \ groups[g].demands
      BY <1>4 DEF Joined
    <3>3. records'[a].demand =
            records[a].demand + IF Joined(g, after.demands, a) THEN 1 ELSE 0
      BY <1>1, <1>2, <2>1 DEF LoadedFrom
    <3>4. \A k \in Group \ {g} : groups'[k].demands = groups[k].demands
      BY <1>4
    <3>5. Cardinality(Demanders(a)') =
            Cardinality(Demanders(a))
            + IF Identifier(a) \in groups'[g].demands \ groups[g].demands THEN 1
              ELSE IF Identifier(a) \in groups[g].demands \ groups'[g].demands
              THEN -1 ELSE 0
      BY <2>1, <3>4, DemandersChange
    <3>6. ~(Identifier(a) \in groups[g].demands \ groups'[g].demands)
      BY <1>8
    <3> QED BY <3>1, <3>2, <3>3, <3>5, <3>6
  <2> QED BY <2>1, <2>2 DEF DemandCounted, Demanders, Identifier
<1> QED BY <1>4, <1>5, <1>6, <1>7, <1>8, <1>9, GroupAndRecordsStep

LEMMA LoadKeeps ==
  ASSUME IInv, NEW g \in Group, Load(g)
  PROVE  IInv'
<1>1. PICK outcome \in [Shader -> Outcome] : Loading(g, outcome)
  BY DEF Load, Outcome
<1>2. UNCHANGED <<manager, pages, submissions, call, frame, gpu>>
  BY DEF Load
<1>3. /\ CallType' /\ FrameType' /\ StepsCoherent' /\ PendingSame
      /\ \A h \in Commands : Filling(h)' <=> Filling(h)
  BY <1>2, CallFrameSame
<1> QED BY <1>1, <1>2, <1>3, LoadingStep

LEMMA PrepareKeeps ==
  ASSUME IInv, NEW g \in Group, Prepare(g)
  PROVE  IInv'
<1>1. PICK outcome \in [Shader -> Outcome] : Loading(g, outcome)
  BY DEF Prepare, Outcome
<1>2. /\ g \in Preparing /\ call[g].step = "idle" /\ Goto(g, "prepare")
      /\ UNCHANGED <<manager, pages, submissions, frame, gpu>>
  BY DEF Prepare
<1>3. "prepare" \in CallStep \ {"submit", "submitted"} /\ "prepare" \notin InLoop
  BY DEF CallStep, InLoop
<1>4. /\ CallType' /\ CallFits(g, call'[g])
      /\ \A k \in Group \ {g} : call'[k] = call[k]
  BY <1>2, <1>3, GotoMoves
<1>5. /\ StepsCoherent' /\ PendingSame
      /\ \A h \in Commands : Filling(h)' <=> Filling(h)
  BY <1>2, <1>4, CallMoves DEF IInv
<1> QED BY <1>1, <1>2, <1>4, <1>5, LoadingStep

LEMMA UndemandedKept ==
  ASSUME NEW a, NEW old \in RecordType, Coherent(a, old), old.demand # 0,
         submissions \subseteq Timepoint
  PROVE  /\ Undemanded(old) \in RecordType
         /\ RecordKept(a, old, Undemanded(old))
         /\ Undemanded(old).demand = old.demand - 1
<1> DEFINE new == Undemanded(old)
           less == old.demand - 1
<1>1. less \in Nat
  BY DEF RecordType
<1>2. CASE old.demand = 1
  <2>1. new = [old EXCEPT !.demand = 0, !.retirement = submissions]
    BY <1>2 DEF Undemanded
  <2>2. new \in RecordType
    <3>1. 0 \in Nat /\ submissions \in SUBSET Timepoint
      OBVIOUS
    <3> QED BY <2>1, <3>1 DEF RecordType
  <2>3. /\ new.place = old.place /\ new.commands = old.commands
        /\ new.uploaded = old.uploaded /\ new.status = old.status
        /\ new.decoding = old.decoding /\ new.program = old.program
        /\ new.demand = 0 /\ new.retirement = submissions
    BY <2>1 DEF RecordType
  <2> HIDE DEF new
  <2>4. Coherent(a, new)
    BY <2>3 DEF Coherent, OnItsWay
  <2>5. RecordKept(a, old, new)
    BY <2>3, <2>4 DEF RecordKept
  <2> QED BY <1>2, <2>2, <2>3, <2>5 DEF new
<1>3. CASE old.demand # 1
  <2>1. new = [old EXCEPT !.demand = less]
    BY <1>3 DEF Undemanded
  <2>2. less # 0
    BY <1>3, <1>1 DEF RecordType
  <2> HIDE DEF less
  <2>3. new \in RecordType
    BY <1>1, <2>1 DEF RecordType
  <2>4. /\ new.place = old.place /\ new.commands = old.commands
        /\ new.uploaded = old.uploaded /\ new.status = old.status
        /\ new.decoding = old.decoding /\ new.program = old.program
        /\ new.demand = less
    BY <2>1 DEF RecordType
  <2> HIDE DEF new
  <2>5. Coherent(a, new)
    BY <2>4 DEF Coherent, OnItsWay
  <2>6. RecordKept(a, old, new)
    BY <2>2, <2>4, <2>5 DEF RecordKept
  <2> QED BY <2>3, <2>4, <2>6 DEF new, less
<1> QED BY <1>2, <1>3

LEMMA UnloadingStep ==
  ASSUME IInv, NEW g \in Group, NEW status \in {"idle", "cancelled"},
         Unloading(g, status), CallType',
         UNCHANGED <<manager, pages, submissions, frame, gpu>>,
         StepsCoherent', PendingSame,
         \A h \in Commands : Filling(h)' <=> Filling(h)
  PROVE  IInv'
<1> DEFINE Leaving(a) == \E id \in groups[g].demands : id.asset = a /\ Found(id)
<1>1. /\ ~InUse(g)
      /\ records' = [a \in Asset |-> IF Leaving(a) THEN Undemanded(records[a])
                                                   ELSE records[a]]
      /\ groups' = [groups EXCEPT ![g] =
                     [@ EXCEPT !.demands = {}, !.completed = {},
                               !.progress = "none", !.status = status]]
  BY DEF Unloading
<1>2. /\ GroupsType'
      /\ \A k \in Group \ {g} : groups'[k] = groups[k]
      /\ groups'[g].demands = {} /\ groups'[g].completed = {}
      /\ groups'[g].status = status
      /\ groups'[g].images = groups[g].images
      /\ groups'[g].shaders = groups[g].shaders
  BY <1>1 DEF IInv, TypeOK, GroupsType, GroupType
<1>3. \A a \in Asset : Leaving(a) <=> a \in added /\ Identifier(a) \in groups[g].demands
  <2> SUFFICES ASSUME NEW a \in Asset
               PROVE  Leaving(a) <=> a \in added /\ Identifier(a) \in groups[g].demands
    OBVIOUS
  <2>1. ASSUME Leaving(a)
        PROVE  a \in added /\ Identifier(a) \in groups[g].demands
    <3>1. PICK id \in groups[g].demands : id.asset = a /\ Found(id)
      BY <2>1
    <3>2. id \in Ident
      BY DEF IInv, TypeOK, GroupsType, GroupType
    <3> QED BY <3>1, <3>2, IdentifierFound DEF Found
  <2>2. ASSUME a \in added, Identifier(a) \in groups[g].demands
        PROVE  Leaving(a)
    <3>1. Identifier(a).asset = a /\ Found(Identifier(a))
      BY <2>2 DEF Identifier, Found
    <3> QED BY <2>2, <3>1
  <2> QED BY <2>1, <2>2
<1> HIDE DEF Leaving
<1>4. ASSUME NEW a \in Asset
      PROVE  /\ records'[a] \in RecordType
             /\ RecordKept(a, records[a], records'[a])
             /\ ~Leaving(a) => records'[a] = records[a]
             /\ Leaving(a) => records'[a].demand = records[a].demand - 1
  <2>1. records[a] \in RecordType /\ Coherent(a, records[a])
    BY DEF IInv, TypeOK, RecordsType, RecordsCoherent
  <2>2. submissions \subseteq Timepoint
    BY DEF IInv, TypeOK, GpuType
  <2>3. CASE Leaving(a)
    <3>1. records[a].demand # 0
      BY <1>3, <2>3, DemandPositive DEF IInv
    <3>2. records'[a] = Undemanded(records[a])
      BY <1>1, <2>3
    <3> QED BY <2>1, <2>2, <2>3, <3>1, <3>2, UndemandedKept
  <2>4. CASE ~Leaving(a)
    <3>1. records'[a] = records[a]
      BY <1>1, <2>4
    <3> QED BY <2>1, <2>4, <3>1, RecordKeptItself
  <2> QED BY <2>3, <2>4
<1>5. RecordsType'
  BY <1>1, <1>4 DEF RecordsType
<1>6. \A a \in Asset \ added : records'[a] = records[a]
  BY <1>3, <1>4
<1>7. HeldBy(g)' \subseteq HeldBy(g)
  BY <1>2 DEF HeldBy, Declared
<1>8. DemandCounted'
  <2>1. UNCHANGED <<generation, added>> /\ added \subseteq Asset
    BY DEF manager, IInv, TypeOK, ManagerType
  <2>2. ASSUME NEW a \in added
        PROVE  records'[a].demand = Cardinality(Demanders(a)')
    <3>1. records[a].demand = Cardinality(Demanders(a)) /\ records[a].demand \in Nat
      BY <2>1 DEF IInv, DemandCounted, Demanders, TypeOK, RecordsType, RecordType
    <3>2. \A k \in Group \ {g} : groups'[k].demands = groups[k].demands
      BY <1>2
    <3>3. Cardinality(Demanders(a)') =
            Cardinality(Demanders(a))
            + IF Identifier(a) \in groups'[g].demands \ groups[g].demands THEN 1
              ELSE IF Identifier(a) \in groups[g].demands \ groups'[g].demands
              THEN -1 ELSE 0
      BY <2>1, <3>2, DemandersChange
    <3>4. Leaving(a) <=> Identifier(a) \in groups[g].demands \ groups'[g].demands
      BY <1>2, <1>3, <2>1
    <3>5. ~(Identifier(a) \in groups'[g].demands \ groups[g].demands)
      BY <1>2
    <3>6. /\ ~Leaving(a) => records'[a] = records[a]
          /\ Leaving(a) => records'[a].demand = records[a].demand - 1
      BY <1>4, <2>1
    <3> QED BY <3>1, <3>3, <3>4, <3>5, <3>6
  <2> QED BY <2>1, <2>2 DEF DemandCounted, Demanders, Identifier
<1> QED BY <1>1, <1>2, <1>4, <1>5, <1>6, <1>7, <1>8, GroupAndRecordsStep

LEMMA UnloadKeeps ==
  ASSUME IInv, NEW g \in Group, Unload(g)
  PROVE  IInv'
<1>1. /\ Unloading(g, "idle")
      /\ UNCHANGED <<manager, pages, submissions, call, frame, gpu>>
  BY DEF Unload
<1>2. /\ CallType' /\ FrameType' /\ StepsCoherent' /\ PendingSame
      /\ \A h \in Commands : Filling(h)' <=> Filling(h)
  BY <1>1, CallFrameSame
<1> QED BY <1>1, <1>2, UnloadingStep

-----------------------------------------------------------------------------
(* The second half of poll(), workers, and the ends of things *)

LEMMA LookedGroup ==
  ASSUME IInv, NEW g \in Group
  PROVE  /\ Looked(g) \in GroupType
         /\ Looked(g).demands = groups[g].demands
         /\ Looked(g).images = groups[g].images
         /\ Looked(g).shaders = groups[g].shaders
         /\ Looked(g).completed \subseteq Looked(g).demands
         /\ \A id \in Looked(g).completed :
              Found(id) => records[id.asset].status = "ready"
         /\ Looked(g).status = "ready" => Looked(g).completed = Looked(g).demands
<1> DEFINE old == groups[g]
           completed == old.completed \cup ReadyOf(g)
<1>1. old \in GroupType
  BY DEF IInv, TypeOK, GroupsType
<1>2. /\ old.completed \subseteq old.demands
      /\ \A id \in old.completed : Found(id) => records[id.asset].status = "ready"
      /\ old.status = "ready" => old.completed = old.demands
  BY DEF IInv, CompletedStaysReady
<1>3. /\ completed \subseteq old.demands
      /\ \A id \in completed : Found(id) => records[id.asset].status = "ready"
  BY <1>2 DEF ReadyOf
<1>4. completed \in SUBSET Ident
  BY <1>1, <1>3 DEF GroupType
<1>5. CASE Looked(g) = old
  BY <1>1, <1>2, <1>5
<1>6. CASE Looked(g) = [old EXCEPT !.status = "failed"]
  <2> HIDE DEF old
  <2> QED BY <1>1, <1>2, <1>6 DEF GroupType, old
<1>7. CASE Looked(g) = [old EXCEPT !.completed = completed,
                                   !.status = IF Completed(g, completed)
                                              THEN "ready" ELSE "loading"]
  <2>1. Completed(g, completed) <=> completed = old.demands
    BY DEF Completed
  <2> DEFINE status == IF Completed(g, completed) THEN "ready" ELSE "loading"
  <2>2. /\ status \in {"ready", "loading"}
        /\ status = "ready" => completed = old.demands
    BY <2>1
  <2> HIDE DEF status, completed, old
  <2>3. Looked(g) = [old EXCEPT !.completed = completed, !.status = status]
    BY <1>7 DEF status
  <2>4. /\ Looked(g) \in GroupType /\ Looked(g).demands = old.demands
        /\ Looked(g).images = old.images /\ Looked(g).shaders = old.shaders
        /\ Looked(g).completed = completed /\ Looked(g).status = status
    BY <2>2, <2>3, <1>1, <1>4 DEF GroupType
  <2> QED BY <2>2, <2>4, <1>3 DEF old
<1>8. \/ Looked(g) = old \/ Looked(g) = [old EXCEPT !.status = "failed"]
      \/ Looked(g) = [old EXCEPT !.completed = completed,
                                 !.status = IF Completed(g, completed)
                                            THEN "ready" ELSE "loading"]
  <2>1. CASE groups[g].status # "loading"
    BY <2>1 DEF Looked
  <2>2. CASE groups[g].status = "loading" /\ Failing(g)
    BY <2>2 DEF Looked
  <2>3. CASE groups[g].status = "loading" /\ ~Failing(g)
    BY <2>3 DEF Looked
  <2> QED BY <2>1, <2>2, <2>3
<1> QED BY <1>5, <1>6, <1>7, <1>8

LEMMA LookedStep ==
  ASSUME IInv, NEW g \in Group,
         \/ groups' = [groups EXCEPT ![g] = Looked(g)]
         \/ groups' = [groups EXCEPT ![g] =
                         [Looked(g) EXCEPT !.progress = "none"]],
         CallType', UNCHANGED <<manager, records, pages, submissions, frame, gpu>>,
         StepsCoherent', PendingSame,
         \A h \in Commands : Filling(h)' <=> Filling(h)
  PROVE  IInv'
<1>1. /\ Looked(g) \in GroupType
      /\ Looked(g).demands = groups[g].demands
      /\ Looked(g).images = groups[g].images
      /\ Looked(g).shaders = groups[g].shaders
      /\ Looked(g).completed \subseteq Looked(g).demands
      /\ \A id \in Looked(g).completed :
           Found(id) => records[id.asset].status = "ready"
      /\ Looked(g).status = "ready" => Looked(g).completed = Looked(g).demands
  BY LookedGroup
<1>2. /\ GroupsType' /\ \A k \in Group \ {g} : groups'[k] = groups[k]
      /\ groups'[g].demands = Looked(g).demands
      /\ groups'[g].completed = Looked(g).completed
      /\ groups'[g].status = Looked(g).status
      /\ groups'[g].images = Looked(g).images
      /\ groups'[g].shaders = Looked(g).shaders
  <2>1. CASE groups' = [groups EXCEPT ![g] = Looked(g)]
    BY <2>1, <1>1 DEF IInv, TypeOK, GroupsType
  <2>2. CASE groups' = [groups EXCEPT ![g] = [Looked(g) EXCEPT !.progress = "none"]]
    <3> DEFINE new == [Looked(g) EXCEPT !.progress = "none"]
    <3>1. /\ new \in GroupType /\ new.demands = Looked(g).demands
          /\ new.completed = Looked(g).completed /\ new.status = Looked(g).status
          /\ new.images = Looked(g).images /\ new.shaders = Looked(g).shaders
      BY <1>1 DEF GroupType
    <3>2. groups' = [groups EXCEPT ![g] = new]
      BY <2>2
    <3> HIDE DEF new
    <3> QED BY <3>1, <3>2 DEF IInv, TypeOK, GroupsType
  <2> QED BY <2>1, <2>2
<1>3. HeldBy(g)' \subseteq HeldBy(g)
  BY <1>1, <1>2 DEF HeldBy, Declared
<1>4. RecordsType' /\ \A a \in Asset : RecordKept(a, records[a], records'[a])
  BY RecordsSame
<1>5. DemandCounted'
  <2>1. \A k \in Group : groups'[k].demands = groups[k].demands
    BY <1>1, <1>2
  <2> QED BY <2>1 DEF IInv, DemandCounted, Identifier, manager
<1> QED BY <1>1, <1>2, <1>3, <1>4, <1>5, GroupAndRecordsStep

LEMMA PollRecordsKeeps ==
  ASSUME IInv, NEW g \in Group, PollRecords(g)
  PROVE  IInv'
<1>1. /\ call[g].step = "poll" /\ Goto(g, "idle")
      /\ UNCHANGED <<manager, pages, submissions, frame, gpu>>
  BY DEF PollRecords, Goto
<1>2. "idle" \in CallStep \ {"submit", "submitted"} /\ "idle" \notin InLoop
  BY DEF CallStep, InLoop
<1>3. /\ CallType' /\ CallFits(g, call'[g])
      /\ \A k \in Group \ {g} : call'[k] = call[k]
  BY <1>1, <1>2, GotoMoves
<1>4. /\ StepsCoherent' /\ PendingSame
      /\ \A h \in Commands : Filling(h)' <=> Filling(h)
  BY <1>1, <1>3, CallMoves DEF IInv
<1>5. CASE Unloading(g, "cancelled")
  BY <1>1, <1>3, <1>4, <1>5, UnloadingStep
<1>6. CASE groups' = [groups EXCEPT ![g] = Looked(g)] /\ UNCHANGED records
  BY <1>1, <1>3, <1>4, <1>6, LookedStep
<1> QED BY <1>5, <1>6 DEF PollRecords

LEMMA PrepareLookKeeps ==
  ASSUME IInv, NEW g \in Group, PrepareLook(g)
  PROVE  IInv'
<1>1. \/ Return(g)
      \/ \E h \in Commands :
           /\ Buffer(g, h)
           /\ call' = [call EXCEPT ![g] = [step |-> "update", time |-> 0,
                                           commands |-> h]]
  BY DEF PrepareLook
<1>2. /\ call[g].step = "look"
      /\ UNCHANGED <<manager, pages, submissions, frame, gpu>>
  BY DEF PrepareLook
<1>3. g \in Preparing
  BY <1>2 DEF IInv, StepsCoherent
<1>4. ASSUME NEW h \in Commands, Buffer(g, h),
             call' = [call EXCEPT ![g] = [step |-> "update", time |-> 0,
                                          commands |-> h]]
      PROVE  /\ CallType' /\ CallFits(g, call'[g])
             /\ \A k \in Group \ {g} : call'[k] = call[k]
  <2>1. "update" \in CallStep /\ h # none
    BY AssetAssumption DEF CallStep
  <2> QED BY <1>3, <1>4, <2>1 DEF IInv, TypeOK, CallType, CallFits, Buffer
<1>5. /\ CallType' /\ CallFits(g, call'[g])
      /\ \A k \in Group \ {g} : call'[k] = call[k]
  BY <1>1, <1>4, ReturnMoves
<1>6. /\ StepsCoherent' /\ PendingSame
      /\ \A h \in Commands : Filling(h)' <=> Filling(h)
  BY <1>2, <1>5, CallMoves DEF IInv
<1>7. CASE Unloading(g, "cancelled")
  BY <1>2, <1>5, <1>6, <1>7, UnloadingStep
<1>8. CASE /\ \/ groups' = [groups EXCEPT ![g] = Looked(g)]
              \/ groups' = [groups EXCEPT ![g] =
                              [Looked(g) EXCEPT !.progress = "none"]]
           /\ UNCHANGED records
  BY <1>2, <1>5, <1>6, <1>8, LookedStep
<1> QED BY <1>7, <1>8 DEF PrepareLook

LEMMA DecodeKeeps ==
  ASSUME IInv, NEW i \in Image, Decode(i)
  PROVE  IInv'
<1>1. PICK outcome \in {"decoded", "broken"} :
        records' = [records EXCEPT ![i].decoding = outcome]
  BY DEF Decode
<1>2. /\ records[i].decoding = "running"
      /\ UNCHANGED <<manager, pages, submissions, groups, call, frame, gpu>>
  BY DEF Decode
<1>3. i \in Asset /\ records \in [Asset -> RecordType] /\ Coherent(i, records[i])
  BY DEF Asset, IInv, TypeOK, RecordsType, RecordsCoherent
<1>4. \A a \in Asset \ {i} : records'[a] = records[a]
  BY <1>1, <1>3
<1> DEFINE old == records[i]
           new == [old EXCEPT !.decoding = outcome]
<1>5. /\ new \in RecordType /\ new.place = old.place
      /\ new.commands = old.commands /\ new.uploaded = old.uploaded
      /\ new.status = old.status /\ new.demand = old.demand
      /\ new.retirement = old.retirement /\ new.decoding = outcome
  BY <1>3 DEF RecordType
<1>6. records' = [records EXCEPT ![i] = new]
  BY <1>1, <1>3
<1> HIDE DEF old, new
<1>7. Coherent(i, new)
  BY <1>2, <1>3, <1>5 DEF Coherent, OnItsWay, old
<1>8. RecordKept(i, old, new)
  BY <1>5, <1>7 DEF RecordKept
<1>9. RecordsType' /\ records'[i] = new
  BY <1>3, <1>5, <1>6 DEF RecordsType
<1>10. /\ \A a \in Asset : RecordKept(a, records[a], records'[a])
       /\ \A a \in Asset : records'[a].demand = records[a].demand
       /\ \A a \in Asset : records[a].status = "ready" => records'[a].status = "ready"
  BY <1>4, <1>5, <1>8, <1>9, RecordKeptItself DEF old, IInv, RecordsCoherent
<1>11. /\ CallType' /\ FrameType' /\ StepsCoherent' /\ PendingSame
       /\ \A h \in Commands : Filling(h)' <=> Filling(h)
  BY <1>2, CallFrameSame
<1>12. /\ GpuType' /\ UploadsKeptOrLost /\ ReadsKeptOrDropped
       /\ BuffersStillUsed /\ UNCHANGED flight
  BY <1>2, <1>11, GpuSame
<1>13. UNCHANGED <<workers, generation, added, recorded>>
  BY <1>2 DEF manager, gpu
<1>14. ReadsDemanded
  BY <1>2, <1>13 DEF IInv, ReadsAccounted, ReadsDemanded
<1>15. /\ RecordsCoherent' /\ RegionsHeldOnce' /\ UploadsAccounted'
       /\ WritersApart' /\ ContentsArrive' /\ BuffersInUse' /\ ReadsAccounted'
  BY <1>2, <1>9, <1>10, <1>11, <1>12, <1>13, <1>14, QuietStep
<1>16. \A a \in Asset \ added : records'[a] = records[a]
  <2>1. i \in added
    BY <1>2, <1>3 DEF IInv, IdentifiersKnown, NewRecord
  <2> QED BY <2>1, <1>4
<1>17. IdentifiersKnown' /\ DemandCounted' /\ CompletedStaysReady'
  <2>1. added \subseteq Asset
    BY DEF IInv, TypeOK, ManagerType
  <2> QED BY <1>2, <1>10, <1>13, <1>16, <2>1, GroupsStep
<1>18. ManagerType' /\ PagesType' /\ GroupsType'
  BY <1>2, <1>13 DEF IInv, TypeOK, ManagerType, PagesType, GroupsType
<1> QED BY <1>9, <1>11, <1>12, <1>15, <1>17, <1>18 DEF IInv, TypeOK

LEMMA SkipFrameKeeps ==
  ASSUME IInv, SkipFrame
  PROVE  IInv'
<1>1. PICK h \in Commands :
        Discard(h) /\ frame' = [step |-> "none", commands |-> h, time |-> 0]
  BY DEF SkipFrame
<1>2. /\ UNCHANGED <<records, pages, submissions, groups, call, flight>>
      /\ UNCHANGED <<workers, generation, added>>
  BY DEF SkipFrame, manager
<1>3. FrameType' /\ frame'.commands = h /\ frame'.step = "none"
  BY <1>1 DEF FrameType
<1>4. /\ GpuType' /\ StepsCoherent' /\ PendingSame /\ UploadsKeptOrLost
      /\ ReadsKeptOrDropped /\ BuffersStillUsed
  BY <1>1, <1>2, <1>3, DiscardKeeps
<1>5. RecordsType' /\ \A a \in Asset : RecordKept(a, records[a], records'[a])
  BY <1>2, RecordsSame
<1>6. ReadsDemanded
  <2> SUFFICES ASSUME NEW x \in Commands, NEW r \in recorded'[x].reads
               PROVE  Identifier(r.asset) \in groups[r.group].demands
    BY <1>2 DEF ReadsDemanded
  <2>1. r \in recorded[x].reads
    BY <1>4 DEF ReadsKeptOrDropped
  <2> QED BY <2>1 DEF IInv, ReadsAccounted
<1>7. /\ RecordsCoherent' /\ RegionsHeldOnce' /\ UploadsAccounted'
      /\ WritersApart' /\ ContentsArrive' /\ BuffersInUse' /\ ReadsAccounted'
  BY <1>2, <1>4, <1>5, <1>6, QuietStep
<1>8. IdentifiersKnown' /\ DemandCounted' /\ CompletedStaysReady'
  BY <1>2, GroupsStep
<1>9. ManagerType' /\ PagesType' /\ GroupsType' /\ CallType'
  BY <1>2 DEF IInv, TypeOK, ManagerType, PagesType, GroupsType, CallType
<1> QED BY <1>3, <1>4, <1>5, <1>7, <1>8, <1>9 DEF IInv, TypeOK

LEMMA InitKeeps ==
  ASSUME Init
  PROVE  IInv
<1>1. /\ workers = FALSE /\ generation = 0 /\ added = {}
      /\ records = [a \in Asset |-> NewRecord]
      /\ pages = <<>> /\ submissions = {} /\ flight = <<>> /\ lost = {}
      /\ groups = [g \in Group |-> NewGroup]
      /\ call = [g \in Group |-> NoCall]
      /\ recorded = [h \in Commands |-> Nothing]
  BY DEF Init
<1>2. PICK h \in Commands : frame = [step |-> "none", commands |-> h, time |-> 0]
  BY DEF Init
<1>3. TypeOK
  <2>1. NewRecord \in RecordType
    BY DEF NewRecord, RecordType
  <2>2. NewGroup \in GroupType
    BY DEF NewGroup, GroupType
  <2>3. Nothing \in Batch
    BY DEF Nothing, Batch
  <2>4. NoCall \in [step : CallStep, time : {0} \cup Timepoint,
                    commands : Commands \cup {none}]
    BY DEF CallStep, NoCall
  <2>5. PagesType
    BY <1>1 DEF PagesType
  <2>6. GpuType
    BY <1>1, <2>3 DEF GpuType
  <2> QED BY <1>1, <1>2, <2>1, <2>2, <2>4, <2>5, <2>6
          DEF TypeOK, ManagerType, RecordsType, GroupsType, CallType, FrameType
<1>4. IdentifiersKnown
  <2>1. \A g \in Group : HeldBy(g) = {}
    BY <1>1 DEF HeldBy, Declared, NewGroup, ToSet
  <2> QED BY <1>1, <2>1 DEF IdentifiersKnown
<1>5. DemandCounted /\ CompletedStaysReady
  BY <1>1 DEF DemandCounted, CompletedStaysReady, NewGroup
<1>6. RecordsCoherent /\ RegionsHeldOnce
  BY <1>1 DEF RecordsCoherent, Coherent, OnItsWay, NewRecord, RegionsHeldOnce, Asset
<1>7. \A h_1 \in Commands, t \in Timepoint : ~Pending(h_1, t)
  BY <1>1, <1>2 DEF Pending, NoCall
<1>8. StepsCoherent /\ BuffersInUse
  BY <1>1, <1>2, <1>7, AssetAssumption
     DEF StepsCoherent, BuffersInUse, NoCall, InLoop
<1>9. UploadsAccounted /\ WritersApart /\ ReadsAccounted
  BY <1>1 DEF UploadsAccounted, WritersApart, Writing, ReadsAccounted, Nothing
<1>10. ContentsArrive
  BY <1>1 DEF ContentsArrive, NewRecord, Asset
<1> QED BY <1>3, <1>4, <1>5, <1>6, <1>8, <1>9, <1>10 DEF IInv

LEMMA ExitKeeps ==
  ASSUME IInv, Exit
  PROVE  IInv'
<1>1. /\ workers' = FALSE /\ added' = {} /\ submissions' = {} /\ pages' = <<>>
      /\ records' = [a \in Asset |-> NewRecord] /\ lost' = {}
      /\ UNCHANGED <<generation, groups, call, frame, recorded, flight>>
      /\ frame.step = "none" /\ \A g \in Group : call[g].step = "idle"
      /\ AllReached(submissions)
  BY DEF Exit
<1>2. \A h, t : ~Pending(h, t) /\ ~Filling(h)
  BY <1>1, AssetAssumption DEF Pending, Filling
<1>3. DOMAIN flight = {} /\ \A h \in Commands : recorded[h] = Nothing
  BY <1>1, <1>2 DEF IInv, BuffersInUse, AllReached, Reached
<1>4. TypeOK'
  <2>1. NewRecord \in RecordType
    BY DEF NewRecord, RecordType
  <2>2. RecordsType' /\ ManagerType' /\ GpuType'
    BY <1>1, <2>1 DEF IInv, TypeOK, RecordsType, ManagerType, GpuType
  <2>3. PagesType'
    BY <1>1 DEF PagesType
  <2> QED BY <1>1, <2>2, <2>3 DEF IInv, TypeOK, GroupsType, CallType, FrameType
<1>5. IdentifiersKnown'
  <2>1. \A g \in Group : HeldBy(g)' = HeldBy(g)
    BY <1>1 DEF HeldBy, Declared
  <2> QED BY <1>1, <2>1 DEF IInv, IdentifiersKnown
<1>6. DemandCounted' /\ CompletedStaysReady'
  <2>1. \A id : ~Found(id)'
    BY <1>1 DEF Found
  <2> QED BY <1>1, <2>1 DEF IInv, DemandCounted, CompletedStaysReady
<1>7. RecordsCoherent' /\ RegionsHeldOnce'
  BY <1>1 DEF RecordsCoherent, Coherent, OnItsWay, NewRecord, RegionsHeldOnce, Asset
<1>8. \A h, t : ~Pending(h, t)'
  BY <1>1, AssetAssumption DEF Pending
<1>9. StepsCoherent' /\ BuffersInUse'
  BY <1>1, <1>3, <1>8 DEF IInv, StepsCoherent, BuffersInUse
<1>10. UploadsAccounted' /\ WritersApart' /\ ReadsAccounted'
  BY <1>1, <1>3 DEF UploadsAccounted, WritersApart, Writing, ReadsAccounted, Nothing
<1>11. ContentsArrive'
  BY <1>1 DEF ContentsArrive, NewRecord, Asset
<1> QED BY <1>4, <1>5, <1>6, <1>7, <1>9, <1>10, <1>11 DEF IInv

LEMMA DrawKeeps ==
  ASSUME IInv, NEW g \in Group, NEW a \in Asset, Draw(g, a)
  PROVE  IInv'
<1> DEFINE c == frame.commands
           read == [group |-> g, asset |-> a, place |-> records[a].place]
           reads == recorded[c].reads \cup {read}
<1>1. /\ frame.step = "recording" /\ a \in added /\ records[a].status = "ready"
      /\ Identifier(a) \in groups[g].demands
      /\ recorded' = [recorded EXCEPT ![c].reads = reads]
      /\ UNCHANGED <<manager, records, pages, submissions, groups, call, frame,
                     flight, lost>>
  BY DEF Draw
<1>2. c \in Commands /\ recorded[c] \in Batch
  BY DEF IInv, TypeOK, FrameType, GpuType
<1>3. read \in Read
  BY DEF Read, IInv, TypeOK, RecordsType, RecordType
<1>4. reads \in SUBSET Read
  BY <1>2, <1>3 DEF Batch
<1>5. /\ recorded'[c].uploads = recorded[c].uploads
      /\ recorded'[c].reads = recorded[c].reads \cup {read}
      /\ \A h \in Commands \ {c} : recorded'[h] = recorded[h]
      /\ recorded' \in [Commands -> Batch]
  <2> DEFINE new == [recorded[c] EXCEPT !.reads = reads]
  <2>1. new \in Batch /\ new.uploads = recorded[c].uploads /\ new.reads = reads
    BY <1>2, <1>4 DEF Batch
  <2>2. recorded' = [recorded EXCEPT ![c] = new]
    BY <1>1, <1>2 DEF IInv, TypeOK, GpuType
  <2> HIDE DEF new
  <2> QED BY <1>2, <2>1, <2>2 DEF IInv, TypeOK, GpuType
<1> HIDE DEF reads
<1>6. UNCHANGED <<workers, generation, added>>
  BY <1>1 DEF manager
<1>7. /\ CallType' /\ FrameType' /\ StepsCoherent' /\ PendingSame
      /\ \A h \in Commands : Filling(h)' <=> Filling(h)
  BY <1>1, CallFrameSame
<1>8. GpuType' /\ UploadsKeptOrLost
  BY <1>1, <1>5 DEF IInv, TypeOK, GpuType, UploadsKeptOrLost
<1>9. RecordsType' /\ \A b \in Asset : RecordKept(b, records[b], records'[b])
  BY <1>1, RecordsSame
<1>10. /\ RecordsCoherent' /\ RegionsHeldOnce' /\ UploadsAccounted'
       /\ WritersApart' /\ ContentsArrive'
  BY <1>1, <1>7, <1>8, <1>9, KeptStep
<1>11. BuffersInUse'
  <2>1. Filling(c)
    BY <1>1 DEF Filling
  <2>2. \A h \in Commands : recorded'[h] # Nothing =>
          Filling(h)' \/ \E t \in Timepoint : Pending(h, t)
    BY <1>5, <1>7, <2>1 DEF IInv, BuffersInUse
  <2> QED BY <1>1, <1>7, <1>8, <2>2, BuffersStep
<1>12. ReadsAccounted'
  <2>1. ASSUME NEW h \in Commands, NEW r \in recorded'[h].reads
        PROVE  /\ r.asset \in added /\ records[r.asset].status = "ready"
               /\ records[r.asset].place = r.place
               /\ Identifier(r.asset) \in groups[r.group].demands
    <3>1. CASE h = c /\ r = read
      BY <3>1, <1>1
    <3>2. CASE r \in recorded[h].reads
      BY <3>2 DEF IInv, ReadsAccounted
    <3> QED BY <3>1, <3>2, <2>1, <1>5
  <2>2. ASSUME NEW t \in DOMAIN flight, NEW r \in flight[t].reads
        PROVE  /\ r.asset \in added /\ records[r.asset].status = "ready"
               /\ records[r.asset].place = r.place
               /\ \/ \E h \in Commands : Pending(h, t)' /\ r \in recorded'[h].reads
                  \/ /\ t \in submissions
                     /\ \/ records[r.asset].demand # 0
                        \/ t \in records[r.asset].retirement
    <3>1. t \in Timepoint
      BY DEF IInv, TypeOK, GpuType
    <3>2. ASSUME NEW h \in Commands, Pending(h, t), r \in recorded[h].reads
          PROVE  Pending(h, t)' /\ r \in recorded'[h].reads
      BY <3>1, <3>2, <1>5, <1>7 DEF PendingSame
    <3> QED BY <3>2 DEF IInv, ReadsAccounted
  <2> QED BY <1>1, <1>6, <2>1, <2>2 DEF ReadsAccounted, Identifier
<1>13. IdentifiersKnown' /\ DemandCounted' /\ CompletedStaysReady'
  BY <1>1, <1>6, GroupsStep
<1>14. ManagerType' /\ PagesType' /\ GroupsType'
  BY <1>1, <1>6 DEF IInv, TypeOK, ManagerType, PagesType, GroupsType
<1> QED BY <1>7, <1>8, <1>9, <1>10, <1>11, <1>12, <1>13, <1>14 DEF IInv, TypeOK

-----------------------------------------------------------------------------
(* Submissions *)

(* A command buffer is the window's or that of a group, never both.        *)
LEMMA PendingOnce ==
  ASSUME IInv, NEW h \in Commands, NEW t, NEW u, Pending(h, t), Pending(h, u)
  PROVE  t = u /\ ~Filling(h)
<1>1. \A g \in Group : h = call[g].commands =>
        /\ h # frame.commands
        /\ \A k \in Group : h = call[k].commands => k = g
  BY AssetAssumption DEF IInv, StepsCoherent
<1> QED BY <1>1 DEF Pending, Filling

(* Places that hold uploads are those of records.                          *)
LEMMA SubmitStep ==
  ASSUME IInv, NEW h \in Commands, NEW t \in Timepoint, Filling(h), Submit(h, t),
         UNCHANGED <<manager, records, pages, submissions, groups, lost>>,
         \A k \in Commands \cup {none}, u \in Timepoint :
           Pending(k, u)' <=> Pending(k, u) \/ (k = h /\ u = t),
         \A k \in Commands \ {h} : Filling(k)' <=> Filling(k),
         CallType', FrameType', StepsCoherent'
  PROVE  IInv'
<1> DEFINE batch == recorded[h]
<1>1. /\ t \notin Known /\ t # 0 /\ t \notin DOMAIN flight /\ t \notin submissions
      /\ \A i \in Image : records[i].uploaded # t
      /\ \A k \in Commands : ~Pending(k, t)
  <2>1. t \notin Known
    BY DEF Submit
  <2> QED BY <2>1 DEF Known, Pending
<1>2. /\ flight' = [u \in DOMAIN flight \cup {t} |->
                      IF u = t THEN batch ELSE flight[u]]
      /\ recorded' = [recorded EXCEPT ![h].uploads = {}]
  BY DEF Submit
<1>3. /\ recorded \in [Commands -> Batch] /\ batch \in Batch
      /\ DOMAIN flight \subseteq Timepoint /\ flight \in [DOMAIN flight -> Batch]
  BY DEF IInv, TypeOK, GpuType
<1>4. /\ recorded' \in [Commands -> Batch]
      /\ recorded'[h].uploads = {} /\ recorded'[h].reads = batch.reads
      /\ \A k \in Commands \ {h} : recorded'[k] = recorded[k]
  <2> DEFINE new == [batch EXCEPT !.uploads = {}]
  <2>1. new \in Batch /\ new.uploads = {} /\ new.reads = batch.reads
    BY <1>3 DEF Batch
  <2>2. recorded' = [recorded EXCEPT ![h] = new]
    BY <1>2, <1>3
  <2> HIDE DEF new, batch
  <2> QED BY <1>3, <2>1, <2>2
<1>5. /\ DOMAIN flight' = DOMAIN flight \cup {t} /\ flight'[t] = batch
      /\ \A u \in DOMAIN flight : flight'[u] = flight[u]
      /\ flight' \in [DOMAIN flight' -> Batch]
  <2> HIDE DEF batch
  <2> QED BY <1>1, <1>2, <1>3
<1>6. GpuType'
  BY <1>3, <1>4, <1>5 DEF IInv, TypeOK, GpuType
<1>7. UNCHANGED <<workers, generation, added>>
  BY DEF manager
<1>8. /\ ManagerType' /\ RecordsType' /\ PagesType' /\ GroupsType'
  BY <1>7 DEF IInv, TypeOK, ManagerType, RecordsType, PagesType, GroupsType
<1>9. /\ IdentifiersKnown' /\ DemandCounted' /\ CompletedStaysReady'
      /\ RecordsCoherent' /\ RegionsHeldOnce'
  <2>1. IdentifiersKnown' /\ DemandCounted' /\ CompletedStaysReady'
    BY <1>7, GroupsStep
  <2> QED BY <2>1 DEF IInv, RecordsCoherent, RegionsHeldOnce
<1>10. UploadsAccounted'
  <2>1. ASSUME NEW k \in Commands, NEW u \in recorded'[k].uploads
        PROVE  records[u.image].place = u.place /\ records[u.image].commands = k
    BY <2>1, <1>4 DEF IInv, UploadsAccounted
  <2>2. ASSUME NEW v \in DOMAIN flight', NEW u \in flight'[v].uploads
        PROVE  /\ records[u.image].place = u.place
               /\ \/ records[u.image].uploaded = v
                  \/ Pending(records[u.image].commands, v)'
    <3>1. CASE v = t
      <4>1. u \in recorded[h].uploads
        BY <2>2, <3>1, <1>5
      <4>2. records[u.image].place = u.place /\ records[u.image].commands = h
        BY <4>1 DEF IInv, UploadsAccounted
      <4> QED BY <3>1, <4>2
    <3>2. CASE v # t
      <4>1. v \in DOMAIN flight /\ v \in Timepoint /\ u \in flight[v].uploads
        BY <2>2, <3>2, <1>3, <1>5
      <4>2. u.image \in Image
        BY <4>1, <1>3 DEF Batch, Upload
      <4>3. records[u.image].commands \in Commands \cup {none}
        BY <4>2 DEF Asset, IInv, TypeOK, RecordsType, RecordType
      <4> QED BY <4>1, <4>3 DEF IInv, UploadsAccounted
    <3> QED BY <3>1, <3>2
  <2> QED BY <2>1, <2>2 DEF UploadsAccounted
<1>11. WritersApart'
  <2> SUFFICES ASSUME NEW p \in Page
               PROVE  /\ \A k, l \in Commands :
                           Writing(recorded'[k], p) /\ Writing(recorded'[l], p)
                             => k = l
                      /\ \A v, w \in DOMAIN flight' :
                           Writing(flight'[v], p) /\ Writing(flight'[w], p)
                             => v = w
                      /\ \A k \in Commands, v \in DOMAIN flight' :
                           ~(Writing(recorded'[k], p) /\ Writing(flight'[v], p))
    BY DEF WritersApart, Writing
  <2>1. \A k \in Commands : Writing(recorded'[k], p) =>
          k # h /\ Writing(recorded[k], p)
    BY <1>4 DEF Writing
  <2>2. \A v \in DOMAIN flight' : Writing(flight'[v], p) =>
          \/ v = t /\ Writing(recorded[h], p)
          \/ v \in DOMAIN flight /\ Writing(flight[v], p)
    BY <1>5
  <2> QED BY <2>1, <2>2 DEF IInv, WritersApart
<1>12. ContentsArrive'
  <2> SUFFICES ASSUME NEW i \in Image, i \notin lost
               PROVE  /\ records[i].status = "ready" => Holds(records[i].place, i)
                      /\ records[i].uploaded # 0 => Arrives(i, records[i].uploaded)'
                      /\ records[i].commands # none =>
                           \/ [image |-> i, place |-> records[i].place]
                                \in recorded'[records[i].commands].uploads
                           \/ \E u \in Timepoint :
                                Pending(records[i].commands, u)' /\ Arrives(i, u)'
    BY DEF ContentsArrive, Holds
  <2>1. \A u : u # t => (Arrives(i, u)' <=> Arrives(i, u))
    BY <1>5 DEF Arrives, Holds
  <2>2. /\ records[i].status = "ready" => Holds(records[i].place, i)
        /\ records[i].uploaded # 0 => Arrives(i, records[i].uploaded)
        /\ records[i].commands # none =>
             \/ [image |-> i, place |-> records[i].place]
                  \in recorded[records[i].commands].uploads
             \/ \E u \in Timepoint :
                  Pending(records[i].commands, u) /\ Arrives(i, u)
    BY DEF IInv, ContentsArrive
  <2>3. records[i].uploaded # 0 => Arrives(i, records[i].uploaded)'
    <3> SUFFICES ASSUME records[i].uploaded # 0
                 PROVE  Arrives(i, records[i].uploaded)'
      OBVIOUS
    <3>1. records[i].uploaded # t /\ Arrives(i, records[i].uploaded)
      BY <1>1, <2>2
    <3>2. IF records[i].uploaded \in DOMAIN flight'
          THEN [image |-> i, place |-> records[i].place]
                 \in flight'[records[i].uploaded].uploads
          ELSE Holds(records[i].place, i)
      BY <3>1, <1>5 DEF Arrives
    <3> QED BY <3>2 DEF Arrives, Holds
  <2>4. ASSUME records[i].commands # none
        PROVE  \/ [image |-> i, place |-> records[i].place]
                    \in recorded'[records[i].commands].uploads
               \/ \E u \in Timepoint :
                    Pending(records[i].commands, u)' /\ Arrives(i, u)'
    <3>1. records[i].commands \in Commands
      BY <2>4 DEF Asset, IInv, TypeOK, RecordsType, RecordType
    <3>2. CASE /\ [image |-> i, place |-> records[i].place]
                    \in recorded[records[i].commands].uploads
               /\ records[i].commands # h
      BY <3>1, <3>2, <1>4
    <3>3. CASE /\ [image |-> i, place |-> records[i].place]
                    \in recorded[records[i].commands].uploads
               /\ records[i].commands = h
      <4>1. Arrives(i, t)'
        BY <3>3, <1>5 DEF Arrives
      <4> QED BY <4>1, <3>3, <3>1
    <3>4. CASE \E u \in Timepoint :
                 Pending(records[i].commands, u) /\ Arrives(i, u)
      <4>1. PICK u \in Timepoint :
              Pending(records[i].commands, u) /\ Arrives(i, u)
        BY <3>4
      <4>2. u # t
        BY <4>1, <3>1, <1>1
      <4> QED BY <4>1, <4>2, <3>1, <2>1
    <3> QED BY <2>2, <2>4, <3>2, <3>3, <3>4
  <2> QED BY <2>2, <2>3, <2>4
<1>13. BuffersInUse'
  <2>1. \A k \in Commands : recorded'[k] # Nothing =>
          Filling(k)' \/ \E u \in Timepoint : Pending(k, u)'
    BY <1>4 DEF IInv, BuffersInUse
  <2>2. ASSUME NEW k \in Commands, NEW u \in Timepoint, Pending(k, u)'
        PROVE  /\ recorded'[k].uploads = {}
               /\ u \notin submissions
               /\ \A i \in Image : records[i].uploaded # u
               /\ \A l \in Commands \ {k} : ~Pending(l, u)'
    <3>1. CASE k = h /\ u = t
      BY <3>1, <1>1, <1>4
    <3>2. CASE Pending(k, u)
      <4>1. u # t
        BY <3>2, <1>1
      <4> QED BY <3>2, <4>1, <1>4 DEF IInv, BuffersInUse
    <3> QED BY <2>2, <3>1, <3>2
  <2>3. \A v \in DOMAIN flight' :
          v \in submissions \/ \E k \in Commands : Pending(k, v)'
    BY <1>3, <1>5 DEF IInv, BuffersInUse
  <2> QED BY <2>1, <2>2, <2>3 DEF BuffersInUse
<1>14. ReadsAccounted'
  <2>1. ASSUME NEW k \in Commands, NEW r \in recorded'[k].reads
        PROVE  /\ r \in recorded[k].reads
               /\ r.asset \in added /\ records[r.asset].status = "ready"
               /\ records[r.asset].place = r.place
               /\ Identifier(r.asset) \in groups[r.group].demands
    <3>1. r \in recorded[k].reads
      BY <2>1, <1>4
    <3> QED BY <3>1 DEF IInv, ReadsAccounted
  <2>2. ASSUME NEW v \in DOMAIN flight', NEW r \in flight'[v].reads
        PROVE  /\ r.asset \in added /\ records[r.asset].status = "ready"
               /\ records[r.asset].place = r.place
               /\ \/ \E k \in Commands : Pending(k, v)' /\ r \in recorded'[k].reads
                  \/ /\ v \in submissions
                     /\ \/ records[r.asset].demand # 0
                        \/ v \in records[r.asset].retirement
    <3>1. CASE v = t
      <4>1. r \in recorded'[h].reads /\ Pending(h, v)'
        BY <2>2, <3>1, <1>4, <1>5
      <4> QED BY <4>1, <2>1
    <3>2. CASE v # t
      <4>1. v \in DOMAIN flight /\ v \in Timepoint /\ r \in flight[v].reads
        BY <2>2, <3>2, <1>3, <1>5
      <4>2. \A k \in Commands : recorded'[k].reads = recorded[k].reads
        BY <1>4
      <4> QED BY <4>1, <4>2 DEF IInv, ReadsAccounted
    <3> QED BY <3>1, <3>2
  <2> QED BY <1>7, <2>1, <2>2 DEF ReadsAccounted, Identifier
<1> QED BY <1>6, <1>8, <1>9, <1>10, <1>11, <1>12, <1>13, <1>14 DEF IInv, TypeOK

LEMMA EndFrameKeeps ==
  ASSUME IInv, EndFrame
  PROVE  IInv'
<1> DEFINE c == frame.commands
<1>1. PICK t \in Timepoint : /\ Submit(c, t)
                             /\ frame' = [frame EXCEPT !.step = "submitted",
                                                       !.time = t]
  BY DEF EndFrame, Timepoint
<1>2. /\ frame.step = "recording"
      /\ UNCHANGED <<manager, records, pages, submissions, groups, call, lost>>
  BY DEF EndFrame
<1>3. /\ c \in Commands /\ c # none
      /\ \A g \in Group : call[g].commands # c
  BY AssetAssumption DEF IInv, TypeOK, FrameType, StepsCoherent
<1>4. /\ FrameType' /\ frame'.step = "submitted" /\ frame'.time = t
      /\ frame'.commands = c
  BY <1>1 DEF IInv, TypeOK, FrameType
<1>5. t # 0
  BY AssetAssumption DEF Timepoint
<1>6. CallType' /\ StepsCoherent'
  BY <1>2, <1>4, <1>5 DEF IInv, TypeOK, CallType, StepsCoherent
<1>7. Filling(c)
  BY <1>2 DEF Filling
<1>8. \A k \in Commands \cup {none}, u \in Timepoint :
        Pending(k, u)' <=> Pending(k, u) \/ (k = c /\ u = t)
  BY <1>2, <1>3, <1>4 DEF Pending
<1>9. \A k \in Commands \ {c} : Filling(k)' <=> Filling(k)
  BY <1>2, <1>4 DEF Filling
<1> HIDE DEF c
<1> QED BY <1>1, <1>2, <1>3, <1>4, <1>6, <1>7, <1>8, <1>9, SubmitStep

LEMMA PrepareSubmitKeeps ==
  ASSUME IInv, NEW g \in Group, PrepareSubmit(g)
  PROVE  IInv'
<1> DEFINE c == call[g].commands
<1>1. PICK t \in Timepoint :
        /\ Submit(c, t)
        /\ call' = [call EXCEPT ![g].step = "submitted", ![g].time = t]
  BY DEF PrepareSubmit, Timepoint
<1>2. /\ call[g].step = "submit"
      /\ UNCHANGED <<manager, records, pages, submissions, groups, frame, lost>>
  BY DEF PrepareSubmit
<1>3. /\ c \in Commands /\ c # none /\ c # frame.commands /\ g \in Preparing
      /\ \A k \in Group \ {g} : call[k].commands # c
  BY <1>2, BufferOwned DEF InLoop
<1>4. /\ CallType' /\ call'[g].step = "submitted" /\ call'[g].time = t
      /\ call'[g].commands = c
      /\ \A k \in Group \ {g} : call'[k] = call[k]
  <2>1. "submitted" \in CallStep
    BY DEF CallStep
  <2> QED BY <1>1, <2>1 DEF IInv, TypeOK, CallType
<1>5. t # 0
  BY AssetAssumption DEF Timepoint
<1>6. FrameType'
  BY <1>2 DEF IInv, TypeOK, FrameType
<1>7. StepsCoherent'
  BY <1>2, <1>3, <1>4, <1>5 DEF IInv, StepsCoherent
<1>8. Filling(c)
  BY <1>2 DEF Filling
<1>9. \A k \in Commands \cup {none}, u \in Timepoint :
        Pending(k, u)' <=> Pending(k, u) \/ (k = c /\ u = t)
  BY <1>2, <1>3, <1>4 DEF Pending
<1>10. \A k \in Commands \ {c} : Filling(k)' <=> Filling(k)
  BY <1>2, <1>3, <1>4 DEF Filling
<1> HIDE DEF c
<1> QED BY <1>1, <1>2, <1>3, <1>4, <1>6, <1>7, <1>8, <1>9, <1>10, SubmitStep

LEMMA RegisterStep ==
  ASSUME IInv, NEW h \in Commands, NEW t \in Timepoint, Pending(h, t),
         Register(h, t), UNCHANGED <<manager, pages, groups, flight, lost>>,
         \A k \in Commands \cup {none}, u \in Timepoint :
           Pending(k, u)' <=> Pending(k, u) /\ k # h,
         \A k \in Commands : Filling(k)' <=> Filling(k),
         CallType', FrameType', StepsCoherent'
  PROVE  IInv'
<1>1. /\ submissions' = submissions \cup ({t} \cap DOMAIN flight)
      /\ records' = [a \in Asset |->
                       IF records[a].commands = h
                       THEN [records[a] EXCEPT !.commands = none, !.uploaded = t]
                       ELSE records[a]]
      /\ recorded' = [recorded EXCEPT ![h] = Nothing]
  BY DEF Register
<1>2. /\ recorded \in [Commands -> Batch] /\ DOMAIN flight \subseteq Timepoint
      /\ flight \in [DOMAIN flight -> Batch]
      /\ recorded[h].uploads = {} /\ t # 0 /\ h # none
      /\ t \notin submissions /\ \A i \in Image : records[i].uploaded # t
      /\ \A k \in Commands \ {h} : ~Pending(k, t)
  BY AssetAssumption DEF IInv, TypeOK, GpuType, BuffersInUse, Timepoint
<1>3. /\ recorded' \in [Commands -> Batch] /\ recorded'[h] = Nothing
      /\ \A k \in Commands \ {h} : recorded'[k] = recorded[k]
  <2>1. Nothing \in Batch
    BY DEF Nothing, Batch
  <2> QED BY <1>1, <1>2, <2>1
<1>4. ASSUME NEW a \in Asset
      PROVE  /\ records'[a] \in RecordType
             /\ Coherent(a, records'[a])
             /\ records'[a].place = records[a].place
             /\ records'[a].status = records[a].status
             /\ records'[a].demand = records[a].demand
             /\ records'[a].retirement = records[a].retirement
             /\ records[a].commands # h => records'[a] = records[a]
             /\ records[a].commands = h =>
                  /\ records'[a].commands = none /\ records'[a].uploaded = t
                  /\ records[a].uploaded = 0 /\ a \in Image
  <2>1. records[a] \in RecordType /\ Coherent(a, records[a])
    BY DEF IInv, TypeOK, RecordsType, RecordsCoherent
  <2>2. CASE records[a].commands # h
    <3>1. records'[a] = records[a]
      BY <1>1, <2>2
    <3> QED BY <2>1, <2>2, <3>1
  <2>3. CASE records[a].commands = h
    <3> DEFINE old == records[a]
               new == [old EXCEPT !.commands = none, !.uploaded = t]
    <3>1. records'[a] = new
      BY <1>1, <2>3
    <3>2. /\ new \in RecordType /\ new.place = old.place
          /\ new.status = old.status /\ new.demand = old.demand
          /\ new.retirement = old.retirement /\ new.decoding = old.decoding
          /\ new.commands = none /\ new.uploaded = t
      BY <2>1 DEF RecordType
    <3>3. a \in Image /\ old.uploaded = 0
      BY <2>1, <2>3, <1>2 DEF Coherent, OnItsWay
    <3> HIDE DEF new
    <3>4. Coherent(a, new)
      BY <2>1, <2>3, <1>2, <3>2, <3>3 DEF Coherent, OnItsWay
    <3> QED BY <2>3, <3>1, <3>2, <3>3, <3>4
  <2> QED BY <2>2, <2>3
<1>5. RecordsType'
  BY <1>1, <1>4 DEF RecordsType
<1>6. GpuType'
  BY <1>1, <1>2, <1>3 DEF IInv, TypeOK, GpuType
<1>7. UNCHANGED <<workers, generation, added>>
  BY DEF manager
<1>8. ManagerType' /\ PagesType' /\ GroupsType'
  BY <1>7 DEF IInv, TypeOK, ManagerType, PagesType, GroupsType
<1>9. IdentifiersKnown' /\ DemandCounted' /\ CompletedStaysReady'
  <2>1. \A a \in Asset \ added : records'[a] = records[a]
    BY <1>2, <1>4 DEF IInv, IdentifiersKnown, NewRecord
  <2>2. added \subseteq Asset
    BY DEF IInv, TypeOK, ManagerType
  <2> QED BY <1>4, <1>7, <2>1, <2>2, GroupsStep
<1>10. RecordsCoherent'
  BY <1>4 DEF RecordsCoherent
<1>11. RegionsHeldOnce'
  <2>1. \A i \in Image : records'[i].place = records[i].place
    BY <1>4 DEF Asset
  <2> QED BY <2>1 DEF IInv, RegionsHeldOnce
<1>12. \A i \in Image : i \in Asset /\ records[i].commands \in Commands \cup {none}
                        /\ Coherent(i, records[i])
  BY DEF Asset, IInv, TypeOK, RecordsType, RecordType, RecordsCoherent
<1>13. UploadsAccounted'
  <2>1. ASSUME NEW k \in Commands, NEW u \in recorded'[k].uploads
        PROVE  records'[u.image].place = u.place /\ records'[u.image].commands = k
    <3>1. k # h /\ u \in recorded[k].uploads
      BY <2>1, <1>3 DEF Nothing
    <3>2. u.image \in Asset
      BY <3>1, <1>2 DEF Batch, Upload, Asset
    <3>3. records[u.image].place = u.place /\ records[u.image].commands = k
      BY <3>1 DEF IInv, UploadsAccounted
    <3> QED BY <3>1, <3>2, <3>3, <1>4
  <2>2. ASSUME NEW v \in DOMAIN flight, NEW u \in flight[v].uploads
        PROVE  /\ records'[u.image].place = u.place
               /\ \/ records'[u.image].uploaded = v
                  \/ Pending(records[u.image].commands, v)'
    <3>1. v \in Timepoint /\ v # 0 /\ u.image \in Image
      BY <1>2, AssetAssumption DEF Batch, Upload, Timepoint
    <3>2. /\ records[u.image].place = u.place
          /\ \/ records[u.image].uploaded = v
             \/ Pending(records[u.image].commands, v)
      BY DEF IInv, UploadsAccounted
    <3>3. CASE records[u.image].uploaded = v
      <4>1. records[u.image].commands # h
        BY <3>1, <3>3, <1>2, <1>4, <1>12
      <4>2. records'[u.image] = records[u.image]
        BY <4>1, <3>1, <1>4, <1>12
      <4> QED BY <3>2, <3>3, <4>2
    <3>4. CASE Pending(records[u.image].commands, v) /\ records[u.image].commands = h
      <4>1. v = t
        BY <3>4, PendingOnce
      <4> QED BY <3>1, <3>2, <3>4, <4>1, <1>4, <1>12
    <3>5. CASE Pending(records[u.image].commands, v) /\ records[u.image].commands # h
      <4>1. records'[u.image] = records[u.image]
        BY <3>1, <3>5, <1>4, <1>12
      <4>2. Pending(records[u.image].commands, v)'
        BY <3>1, <3>5, <4>1, <1>12
      <4> QED BY <3>2, <4>1, <4>2
    <3> QED BY <3>2, <3>3, <3>4, <3>5
  <2> QED BY <2>1, <2>2 DEF UploadsAccounted
<1>14. WritersApart'
  <2>1. ASSUME NEW p \in Page, NEW k \in Commands, Writing(recorded'[k], p)
        PROVE  Writing(recorded[k], p)
    BY <2>1, <1>3 DEF Writing, Nothing
  <2> QED BY <2>1 DEF IInv, WritersApart, Writing
<1>15. ContentsArrive'
  <2> SUFFICES ASSUME NEW i \in Image, i \notin lost
               PROVE  /\ records'[i].status = "ready" => Holds(records[i].place, i)'
                      /\ records'[i].uploaded # 0 => Arrives(i, records[i].uploaded)'
                      /\ records'[i].commands # none =>
                           \/ [image |-> i, place |-> records'[i].place]
                                \in recorded'[records'[i].commands].uploads
                           \/ \E u \in Timepoint :
                                Pending(records[i].commands, u)' /\ Arrives(i, u)'
    BY DEF ContentsArrive
  <2>1. /\ records[i].status = "ready" => Holds(records[i].place, i)
        /\ records[i].uploaded # 0 => Arrives(i, records[i].uploaded)
        /\ records[i].commands # none =>
             \/ [image |-> i, place |-> records[i].place]
                  \in recorded[records[i].commands].uploads
             \/ \E u \in Timepoint :
                  Pending(records[i].commands, u) /\ Arrives(i, u)
    BY DEF IInv, ContentsArrive
  <2>2. records'[i].place = records[i].place
    BY <1>4, <1>12
  <2>3. /\ \A u : Arrives(i, u)' <=> Arrives(i, u)
        /\ Holds(records[i].place, i)' <=> Holds(records[i].place, i)
    BY <2>2 DEF Arrives, Holds
  <2>4. CASE records[i].commands = h
    <3>1. /\ records'[i].commands = none /\ records'[i].uploaded = t
          /\ records'[i].status = records[i].status
      BY <2>4, <1>4, <1>12
    <3>2. \E u \in Timepoint : Pending(h, u) /\ Arrives(i, u)
      BY <2>1, <2>4, <1>2
    <3>3. Arrives(i, t)
      BY <3>2, PendingOnce
    <3>4. Arrives(i, t)'
      BY <3>3, <2>3
    <3>5. Arrives(i, records[i].uploaded)'
      BY <3>1, <3>4 DEF Arrives, Holds
    <3> QED BY <3>1, <3>5, <2>1, <2>3
  <2>5. CASE records[i].commands # h
    <3>1. records'[i] = records[i]
      BY <2>5, <1>4, <1>12
    <3>2. records'[i].uploaded # 0 => Arrives(i, records[i].uploaded)'
      <4> SUFFICES ASSUME records[i].uploaded # 0
                   PROVE  Arrives(i, records[i].uploaded)'
        BY <3>1
      <4>1. Arrives(i, records[i].uploaded)
        BY <2>1
      <4> QED BY <4>1, <3>1 DEF Arrives, Holds
    <3>3. ASSUME records[i].commands # none
          PROVE  \/ [image |-> i, place |-> records'[i].place]
                      \in recorded'[records'[i].commands].uploads
                 \/ \E u \in Timepoint :
                      Pending(records[i].commands, u)' /\ Arrives(i, u)'
      <4>1. records[i].commands \in Commands
        BY <3>3, <1>12
      <4>2. recorded'[records[i].commands] = recorded[records[i].commands]
        BY <4>1, <2>5, <1>3
      <4>3. CASE [image |-> i, place |-> records[i].place]
                   \in recorded[records[i].commands].uploads
        BY <4>2, <4>3, <3>1
      <4>4. CASE \E u \in Timepoint :
                   Pending(records[i].commands, u) /\ Arrives(i, u)
        <5>1. PICK u \in Timepoint :
                Pending(records[i].commands, u) /\ Arrives(i, u)
          BY <4>4
        <5>2. Pending(records[i].commands, u)'
          BY <5>1, <4>1, <2>5, <3>1
        <5> QED BY <5>1, <5>2, <2>3
      <4> QED BY <2>1, <3>3, <4>3, <4>4
    <3> QED BY <3>1, <3>2, <3>3, <2>1, <2>3
  <2> QED BY <2>4, <2>5
<1>16. BuffersInUse'
  <2>1. \A k \in Commands : recorded'[k] # Nothing =>
          Filling(k)' \/ \E u \in Timepoint : Pending(k, u)'
    BY <1>3 DEF IInv, BuffersInUse
  <2>2. ASSUME NEW k \in Commands, NEW u \in Timepoint, Pending(k, u)'
        PROVE  /\ recorded'[k].uploads = {}
               /\ u \notin submissions'
               /\ \A i \in Image : records'[i].uploaded # u
               /\ \A l \in Commands \ {k} : ~Pending(l, u)'
    <3>1. Pending(k, u) /\ k # h /\ u # t
      BY <2>2, <1>2
    <3>2. \A i \in Image : records'[i].uploaded \in {records[i].uploaded, t}
      BY <1>4, <1>12
    <3> QED BY <3>1, <3>2, <1>1, <1>3 DEF IInv, BuffersInUse
  <2>3. ASSUME NEW v \in DOMAIN flight
        PROVE  v \in submissions' \/ \E k \in Commands : Pending(k, v)'
    <3>1. v \in Timepoint
      BY <1>2
    <3>2. v \in submissions \/ \E k \in Commands : Pending(k, v)
      BY DEF IInv, BuffersInUse
    <3>3. Pending(h, v) => v = t
      BY PendingOnce
    <3> QED BY <3>1, <3>2, <3>3, <1>1
  <2> QED BY <2>1, <2>2, <2>3 DEF BuffersInUse
<1>17. ReadsAccounted'
  <2>1. ASSUME NEW k \in Commands, NEW r \in recorded'[k].reads
        PROVE  /\ r.asset \in added /\ records'[r.asset].status = "ready"
               /\ records'[r.asset].place = r.place
               /\ Identifier(r.asset) \in groups[r.group].demands
    <3>1. r \in recorded[k].reads
      BY <2>1, <1>3 DEF Nothing
    <3>2. r.asset \in Asset
      BY <3>1, <1>2 DEF Batch, Read
    <3> QED BY <3>1, <3>2, <1>4 DEF IInv, ReadsAccounted
  <2>2. ASSUME NEW v \in DOMAIN flight, NEW r \in flight[v].reads
        PROVE  /\ r.asset \in added /\ records'[r.asset].status = "ready"
               /\ records'[r.asset].place = r.place
               /\ \/ \E k \in Commands : Pending(k, v)' /\ r \in recorded'[k].reads
                  \/ /\ v \in submissions'
                     /\ \/ records'[r.asset].demand # 0
                        \/ v \in records'[r.asset].retirement
    <3>1. v \in Timepoint /\ r.asset \in Asset
      BY <1>2 DEF Batch, Read
    <3>2. /\ r.asset \in added /\ records[r.asset].status = "ready"
          /\ records[r.asset].place = r.place
          /\ \/ \E k \in Commands : Pending(k, v) /\ r \in recorded[k].reads
             \/ /\ v \in submissions
                /\ \/ records[r.asset].demand # 0
                   \/ v \in records[r.asset].retirement
      BY DEF IInv, ReadsAccounted
    <3>3. ASSUME Pending(h, v), r \in recorded[h].reads
          PROVE  v \in submissions' /\ records'[r.asset].demand # 0
      <4>1. v = t
        BY <3>3, PendingOnce
      <4>2. r.group \in Group /\ Identifier(r.asset) \in groups[r.group].demands
        BY <3>3, <1>2 DEF IInv, ReadsAccounted, Batch, Read
      <4>3. records[r.asset].demand # 0
        BY <3>2, <4>2, DemandPositive DEF IInv
      <4> QED BY <4>1, <4>3, <1>1, <1>4, <3>1
    <3>4. ASSUME NEW k \in Commands, k # h, Pending(k, v), r \in recorded[k].reads
          PROVE  Pending(k, v)' /\ r \in recorded'[k].reads
      BY <3>1, <3>4, <1>3
    <3>5. v \in submissions => v \in submissions'
      BY <1>1
    <3> QED BY <3>1, <3>2, <3>3, <3>4, <3>5, <1>4
  <2> QED BY <1>7, <2>1, <2>2 DEF ReadsAccounted, Identifier
<1> QED BY <1>5, <1>6, <1>8, <1>9, <1>10, <1>11, <1>13, <1>14, <1>15, <1>16, <1>17
        DEF IInv, TypeOK

LEMMA FrameSubmittedKeeps ==
  ASSUME IInv, FrameSubmitted
  PROVE  IInv'
<1> DEFINE c == frame.commands
           t == frame.time
<1>1. /\ frame.step = "submitted" /\ Register(c, t)
      /\ frame' = [frame EXCEPT !.step = "none", !.time = 0]
      /\ UNCHANGED <<manager, pages, groups, call, flight, lost>>
  BY DEF FrameSubmitted
<1>2. /\ c \in Commands /\ c # none
      /\ \A g \in Group : call[g].commands # c
  BY AssetAssumption DEF IInv, TypeOK, FrameType, StepsCoherent
<1>3. t \in Timepoint
  BY <1>1 DEF IInv, TypeOK, FrameType, StepsCoherent
<1>4. FrameType' /\ frame'.step = "none" /\ frame'.commands = c
  BY DEF IInv, TypeOK, FrameType, FrameSubmitted
<1>5. CallType' /\ StepsCoherent'
  BY <1>1, <1>4 DEF IInv, TypeOK, CallType, StepsCoherent
<1>6. Pending(c, t)
  BY <1>1 DEF Pending
<1>7. \A k \in Commands \cup {none}, u \in Timepoint :
        Pending(k, u)' <=> Pending(k, u) /\ k # c
  BY <1>1, <1>2, <1>4 DEF Pending
<1>8. \A k \in Commands : Filling(k)' <=> Filling(k)
  BY <1>1, <1>4 DEF Filling
<1> HIDE DEF c, t
<1> QED BY <1>1, <1>2, <1>3, <1>4, <1>5, <1>6, <1>7, <1>8, RegisterStep

LEMMA PrepareSubmittedKeeps ==
  ASSUME IInv, NEW g \in Group, PrepareSubmitted(g)
  PROVE  IInv'
<1> DEFINE c == call[g].commands
           t == call[g].time
<1>1. /\ call[g].step = "submitted" /\ Register(c, t) /\ Goto(g, "wait")
      /\ UNCHANGED <<manager, pages, groups, frame, flight, lost>>
  BY DEF PrepareSubmitted
<1>2. t \in Timepoint
  BY <1>1 DEF IInv, TypeOK, CallType, StepsCoherent
<1>3. /\ c \in Commands /\ c # none /\ c # frame.commands /\ g \in Preparing
      /\ \A k \in Group \ {g} : call[k].commands # c
  BY <1>1, BufferOwned DEF InLoop
<1>4. /\ CallType' /\ call'[g].step = "wait" /\ call'[g].commands = c
      /\ \A k \in Group \ {g} : call'[k] = call[k]
  <2>1. "wait" \in CallStep
    BY DEF CallStep
  <2> QED BY <1>1, <2>1 DEF IInv, TypeOK, CallType, Goto
<1>5. FrameType'
  BY <1>1 DEF IInv, TypeOK, FrameType
<1>6. StepsCoherent'
  BY <1>1, <1>3, <1>4 DEF IInv, StepsCoherent
<1>7. Pending(c, t)
  BY <1>1 DEF Pending
<1>8. \A k \in Commands \cup {none}, u \in Timepoint :
        Pending(k, u)' <=> Pending(k, u) /\ k # c
  BY <1>1, <1>3, <1>4 DEF Pending
<1>9. \A k \in Commands : Filling(k)' <=> Filling(k)
  BY <1>1, <1>3, <1>4 DEF Filling
<1> HIDE DEF c, t
<1> QED BY <1>1, <1>2, <1>3, <1>4, <1>5, <1>6, <1>7, <1>8, <1>9, RegisterStep

-----------------------------------------------------------------------------
(* The GPU *)

(* The upload that a submission brings to a place is of the image there.   *)
LEMMA UploadLands ==
  ASSUME IInv, NEW t \in DOMAIN flight, NEW u \in flight[t].uploads
  PROVE  /\ u.image \in Image /\ u = [image |-> u.image, place |-> u.place]
         /\ u.place \in Place /\ records[u.image].place = u.place
         /\ \A i \in Image : records[i].place = u.place => i = u.image
<1>1. /\ u \in Upload
      /\ records[u.image].place = u.place
  <2>1. flight[t].uploads \subseteq Upload
    BY DEF IInv, TypeOK, GpuType, Batch
  <2> QED BY <2>1 DEF IInv, UploadsAccounted
<1>2. /\ u.image \in Image /\ u = [image |-> u.image, place |-> u.place]
      /\ u.place \in Place /\ u.place # <<>>
  <2>1. u.image \in Image /\ u = [image |-> u.image, place |-> u.place]
        /\ u.place \in Place
    BY <1>1 DEF Upload
  <2>2. <<>> \notin Place
    BY DEF Place
  <2> QED BY <2>1, <2>2
<1>3. \A i \in Image : records[i].place # <<>> =>
        \A j \in Image \ {i} : records[j].place # records[i].place
  BY DEF IInv, RegionsHeldOnce
<1> QED BY <1>1, <1>2, <1>3

(* What the GPU writes at a place, when it writes there. *)
Written(t, p, old) ==
  [r \in Region |->
     LET here == {u \in flight[t].uploads : u.place = <<p, r>>}
     IN  IF here = {} THEN old[r] ELSE (CHOOSE u \in here : TRUE).image]

LEMMA FinishPages ==
  ASSUME IInv, NEW t \in DOMAIN flight, Finish(t)
  PROVE  /\ DOMAIN pages' = DOMAIN pages /\ PagesType'
         /\ \A p \in DOMAIN pages :
              /\ pages'[p].free = pages[p].free
              /\ pages'[p].allocations = pages[p].allocations
         /\ \A i \in Image : records[i].place # <<>> =>
              /\ Holds(records[i].place, i) => pages'[records[i].place[1]].contents[
                                                 records[i].place[2]] = i
              /\ [image |-> i, place |-> records[i].place] \in flight[t].uploads
                   => pages'[records[i].place[1]].contents[records[i].place[2]] = i
<1>1. pages' = [p \in DOMAIN pages |-> [pages[p] EXCEPT !.contents =
                  Written(t, p, pages[p].contents)]]
  BY DEF Finish, Written
<1>2. ASSUME NEW p \in DOMAIN pages
      PROVE  Written(t, p, pages[p].contents) \in [Region -> {0} \cup Image]
  <2>1. pages[p].contents \in [Region -> {0} \cup Image]
    BY DEF IInv, TypeOK, PagesType, PageType
  <2>2. ASSUME NEW r \in Region,
               NEW here, here = {u \in flight[t].uploads : u.place = <<p, r>>},
               here # {}
        PROVE  (CHOOSE u \in here : TRUE).image \in Image
    <3>1. (CHOOSE u \in here : TRUE) \in flight[t].uploads
      BY <2>2
    <3> QED BY <3>1, UploadLands
  <2> QED BY <2>1, <2>2 DEF Written
<1>3. ASSUME NEW p \in DOMAIN pages
      PROVE  /\ pages'[p] \in PageType
             /\ pages'[p].free = pages[p].free
             /\ pages'[p].allocations = pages[p].allocations
             /\ pages'[p].contents = Written(t, p, pages[p].contents)
  <2>1. pages[p] \in PageType
    BY DEF IInv, TypeOK, PagesType
  <2>2. pages'[p] = [pages[p] EXCEPT !.contents = Written(t, p, pages[p].contents)]
    BY <1>1
  <2> QED BY <2>1, <2>2, <1>2 DEF PageType
<1>4. DOMAIN pages' = DOMAIN pages /\ PagesType'
  <2>1. DOMAIN pages' = DOMAIN pages
    BY <1>1
  <2>2. pages' = [p \in DOMAIN pages' |-> pages'[p]]
    BY <1>1
  <2> QED BY <1>3, <2>1, <2>2 DEF IInv, TypeOK, PagesType
<1>5. ASSUME NEW i \in Image, records[i].place # <<>>
      PROVE  /\ Holds(records[i].place, i) => pages'[records[i].place[1]].contents[
                                                records[i].place[2]] = i
             /\ [image |-> i, place |-> records[i].place] \in flight[t].uploads
                  => pages'[records[i].place[1]].contents[records[i].place[2]] = i
  <2> DEFINE p == records[i].place[1]
             r == records[i].place[2]
             here == {u \in flight[t].uploads : u.place = <<p, r>>}
  <2>1. /\ p \in DOMAIN pages /\ r \in Region /\ records[i].place = <<p, r>>
    BY <1>5 DEF IInv, RegionsHeldOnce, TypeOK, RecordsType, RecordType, Place, Asset
  <2>2. pages'[p].contents = Written(t, p, pages[p].contents)
    BY <2>1, <1>3
  <2>3. Written(t, p, pages[p].contents)[r] =
          IF here = {} THEN pages[p].contents[r] ELSE (CHOOSE u \in here : TRUE).image
    BY <2>1 DEF Written
  <2>4. ASSUME here # {}
        PROVE  (CHOOSE u \in here : TRUE).image = i
    <3>1. PICK u \in here : u = CHOOSE x \in here : TRUE
      BY <2>4
    <3>2. u \in flight[t].uploads /\ u.place = records[i].place
      BY <3>1, <2>1
    <3>3. u.image = i
      BY <3>2, UploadLands
    <3> QED BY <3>1, <3>3
  <2>5. [image |-> i, place |-> records[i].place] \in flight[t].uploads => here # {}
    <3>1. [image |-> i, place |-> records[i].place].place = <<p, r>>
      BY <2>1
    <3> QED BY <3>1
  <2> HIDE DEF here
  <2>6. pages'[p].contents[r] = i \/ (here = {} /\ pages'[p].contents[r] = pages[p].contents[r])
    BY <2>2, <2>3, <2>4
  <2> QED BY <2>5, <2>6 DEF Holds
<1> QED BY <1>3, <1>4, <1>5

LEMMA FinishKeeps ==
  ASSUME IInv, NEW t \in Timepoint, Finish(t)
  PROVE  IInv'
<1>1. /\ t \in DOMAIN flight
      /\ flight' = [u \in DOMAIN flight \ {t} |-> flight[u]]
      /\ records' = [a \in Asset |-> [records[a] EXCEPT !.retirement = @ \ {t}]]
      /\ submissions' = submissions \ {t}
      /\ UNCHANGED <<manager, groups, call, frame, recorded, lost>>
  BY DEF Finish
<1>2. /\ UNCHANGED <<workers, generation, added>>
      /\ DOMAIN flight \subseteq Timepoint /\ flight \in [DOMAIN flight -> Batch]
  BY <1>1 DEF manager, IInv, TypeOK, GpuType
<1>3. ASSUME NEW a \in Asset
      PROVE  /\ records'[a] \in RecordType /\ Coherent(a, records'[a])
             /\ records'[a].place = records[a].place
             /\ records'[a].status = records[a].status
             /\ records'[a].demand = records[a].demand
             /\ records'[a].commands = records[a].commands
             /\ records'[a].uploaded = records[a].uploaded
             /\ records'[a].retirement = records[a].retirement \ {t}
  <2> DEFINE old == records[a]
             less == old.retirement \ {t}
             new == [old EXCEPT !.retirement = less]
  <2>1. old \in RecordType /\ Coherent(a, old)
    BY DEF IInv, TypeOK, RecordsType, RecordsCoherent
  <2>2. records'[a] = new
    BY <1>1
  <2>3. less \in SUBSET Timepoint
    BY <2>1 DEF RecordType
  <2> HIDE DEF less
  <2>4. /\ new \in RecordType /\ new.place = old.place
        /\ new.status = old.status /\ new.demand = old.demand
        /\ new.commands = old.commands /\ new.uploaded = old.uploaded
        /\ new.decoding = old.decoding /\ new.program = old.program
        /\ new.retirement = less
    BY <2>1, <2>3 DEF RecordType
  <2> HIDE DEF new
  <2>5. Coherent(a, new)
    BY <2>1, <2>4 DEF Coherent, OnItsWay
  <2> QED BY <2>2, <2>4, <2>5 DEF less
<1>4. RecordsType' /\ RecordsCoherent'
  BY <1>1, <1>3 DEF RecordsType, RecordsCoherent
<1>5. /\ DOMAIN pages' = DOMAIN pages /\ PagesType'
      /\ \A p \in DOMAIN pages :
           /\ pages'[p].free = pages[p].free
           /\ pages'[p].allocations = pages[p].allocations
      /\ \A i \in Image : records[i].place # <<>> =>
           /\ Holds(records[i].place, i) => pages'[records[i].place[1]].contents[
                                              records[i].place[2]] = i
           /\ [image |-> i, place |-> records[i].place] \in flight[t].uploads
                => pages'[records[i].place[1]].contents[records[i].place[2]] = i
  BY <1>1, FinishPages
<1>6. /\ DOMAIN flight' = DOMAIN flight \ {t}
      /\ \A u \in DOMAIN flight' : flight'[u] = flight[u]
      /\ GpuType'
  BY <1>1, <1>2 DEF IInv, TypeOK, GpuType
<1>7. /\ CallType' /\ FrameType' /\ StepsCoherent' /\ PendingSame
      /\ \A h \in Commands : Filling(h)' <=> Filling(h)
  BY <1>1, CallFrameSame
<1>8. ManagerType' /\ GroupsType'
  BY <1>1, <1>2 DEF IInv, TypeOK, ManagerType, GroupsType
<1>9. IdentifiersKnown' /\ DemandCounted' /\ CompletedStaysReady'
  <2>1. \A a \in Asset \ added : records'[a] = records[a]
    <3> SUFFICES ASSUME NEW a \in Asset \ added
                 PROVE  records'[a] = records[a]
      OBVIOUS
    <3>1. records[a] = NewRecord
      BY DEF IInv, IdentifiersKnown
    <3>2. NewRecord.retirement \ {t} = {}
      BY DEF NewRecord
    <3>3. records'[a] = [NewRecord EXCEPT !.retirement = NewRecord.retirement \ {t}]
      BY <3>1, <1>1
    <3> QED BY <3>1, <3>2, <3>3 DEF NewRecord
  <2>2. added \subseteq Asset
    BY DEF IInv, TypeOK, ManagerType
  <2> QED BY <1>1, <1>2, <1>3, <2>1, <2>2, GroupsStep
<1>10. \A i \in Image : /\ i \in Asset /\ Coherent(i, records[i])
                        /\ records'[i].place = records[i].place
                        /\ records'[i].status = records[i].status
                        /\ records'[i].commands = records[i].commands
                        /\ records'[i].uploaded = records[i].uploaded
                        /\ records[i].commands \in Commands \cup {none}
  BY <1>3 DEF Asset, IInv, RecordsCoherent, TypeOK, RecordsType, RecordType
<1>11. RegionsHeldOnce'
  BY <1>5, <1>10 DEF IInv, RegionsHeldOnce
<1>12. UploadsAccounted'
  <2>1. ASSUME NEW h \in Commands, NEW u \in recorded[h].uploads
        PROVE  records'[u.image].place = u.place /\ records'[u.image].commands = h
    <3>1. u.image \in Image
      BY DEF IInv, TypeOK, GpuType, Batch, Upload
    <3> QED BY <3>1, <1>10 DEF IInv, UploadsAccounted
  <2>2. ASSUME NEW v \in DOMAIN flight', NEW u \in flight'[v].uploads
        PROVE  /\ records'[u.image].place = u.place
               /\ \/ records'[u.image].uploaded = v
                  \/ Pending(records[u.image].commands, v)'
    <3>1. v \in DOMAIN flight /\ v \in Timepoint /\ u \in flight[v].uploads
      BY <2>2, <1>2, <1>6
    <3>2. u.image \in Image
      BY <3>1, UploadLands
    <3> QED BY <3>1, <3>2, <1>7, <1>10 DEF IInv, UploadsAccounted, PendingSame
  <2> QED BY <1>1, <2>1, <2>2 DEF UploadsAccounted
<1>13. WritersApart'
  BY <1>1, <1>6 DEF IInv, WritersApart, Writing
<1>14. ContentsArrive'
  <2> SUFFICES ASSUME NEW i \in Image, i \notin lost
               PROVE  /\ records'[i].status = "ready" => Holds(records[i].place, i)'
                      /\ records'[i].uploaded # 0 => Arrives(i, records[i].uploaded)'
                      /\ records'[i].commands # none =>
                           \/ [image |-> i, place |-> records'[i].place]
                                \in recorded'[records'[i].commands].uploads
                           \/ \E u \in Timepoint :
                                Pending(records[i].commands, u)' /\ Arrives(i, u)'
    BY <1>1 DEF ContentsArrive
  <2>1. /\ records[i].status = "ready" => Holds(records[i].place, i)
        /\ records[i].uploaded # 0 => Arrives(i, records[i].uploaded)
        /\ records[i].commands # none =>
             \/ [image |-> i, place |-> records[i].place]
                  \in recorded[records[i].commands].uploads
             \/ \E u \in Timepoint :
                  Pending(records[i].commands, u) /\ Arrives(i, u)
    BY DEF IInv, ContentsArrive
  <2>2. (records[i].status = "ready" \/ records[i].uploaded # 0
          \/ records[i].commands # none) => records[i].place # <<>>
    BY <1>10 DEF Coherent, OnItsWay
  <2>3. ASSUME records[i].place # <<>>, NEW u, Arrives(i, u)
        PROVE  Arrives(i, u)'
    <3>1. CASE u \in DOMAIN flight'
      <4>1. [image |-> i, place |-> records'[i].place] \in flight'[u].uploads
        BY <2>3, <3>1, <1>6, <1>10 DEF Arrives
      <4> QED BY <3>1, <4>1 DEF Arrives
    <3>2. CASE u \notin DOMAIN flight'
      <4>1. \/ Holds(records[i].place, i)
            \/ [image |-> i, place |-> records[i].place] \in flight[t].uploads
        BY <2>3, <3>2, <1>6 DEF Arrives
      <4>2. pages'[records[i].place[1]].contents[records[i].place[2]] = i
        BY <4>1, <2>3, <1>5
      <4>3. pages'[records'[i].place[1]].contents[records'[i].place[2]] = i
        BY <4>2, <1>10
      <4> QED BY <3>2, <4>3 DEF Arrives, Holds
    <3> QED BY <3>1, <3>2
  <2>4. records[i].status = "ready" => Holds(records[i].place, i)'
    BY <2>1, <2>2, <1>5, <1>10 DEF Holds
  <2>5. records[i].uploaded # 0 => Arrives(i, records[i].uploaded)'
    <3> SUFFICES ASSUME records[i].uploaded # 0
                 PROVE  Arrives(i, records[i].uploaded)'
      OBVIOUS
    <3> DEFINE v == records[i].uploaded
    <3>1. Arrives(i, v) /\ records[i].place # <<>>
      BY <2>1, <2>2
    <3>2. CASE v \in DOMAIN flight'
      <4>1. [image |-> i, place |-> records'[i].place] \in flight'[v].uploads
        BY <3>1, <3>2, <1>6, <1>10 DEF Arrives
      <4> QED BY <3>2, <4>1, <1>10 DEF Arrives
    <3>3. CASE v \notin DOMAIN flight'
      <4>1. \/ Holds(records[i].place, i)
            \/ [image |-> i, place |-> records[i].place] \in flight[t].uploads
        BY <3>1, <3>3, <1>6 DEF Arrives
      <4>2. pages'[records[i].place[1]].contents[records[i].place[2]] = i
        BY <4>1, <3>1, <1>5
      <4>3. pages'[records'[i].place[1]].contents[records'[i].place[2]] = i
        BY <4>2, <1>10
      <4> QED BY <3>3, <4>3, <1>10 DEF Arrives, Holds
    <3> QED BY <3>2, <3>3
  <2>6. ASSUME records[i].commands # none
        PROVE  \/ [image |-> i, place |-> records'[i].place]
                    \in recorded'[records'[i].commands].uploads
               \/ \E u \in Timepoint :
                    Pending(records[i].commands, u)' /\ Arrives(i, u)'
    <3>1. CASE [image |-> i, place |-> records[i].place]
                 \in recorded[records[i].commands].uploads
      BY <3>1, <1>1, <1>10
    <3>2. CASE \E u \in Timepoint :
                 Pending(records[i].commands, u) /\ Arrives(i, u)
      <4>1. PICK u \in Timepoint :
              Pending(records[i].commands, u) /\ Arrives(i, u)
        BY <3>2
      <4>2. Pending(records[i].commands, u)'
        BY <4>1, <1>7, <1>10 DEF PendingSame
      <4>3. Arrives(i, u)'
        BY <4>1, <2>2, <2>3, <2>6
      <4> QED BY <4>2, <4>3
    <3> QED BY <2>1, <2>6, <3>1, <3>2
  <2> QED BY <2>4, <2>5, <2>6, <1>10
<1>15. BuffersInUse'
  <2>1. ASSUME NEW h \in Commands, NEW u \in Timepoint, Pending(h, u)'
        PROVE  /\ recorded[h].uploads = {} /\ u \notin submissions'
               /\ \A i \in Image : records'[i].uploaded # u
               /\ \A k \in Commands \ {h} : ~Pending(k, u)'
    <3>1. Pending(h, u)
      BY <2>1, <1>7 DEF PendingSame
    <3> QED BY <3>1, <1>1, <1>7, <1>10 DEF IInv, BuffersInUse, PendingSame
  <2>2. \A h \in Commands : recorded[h] # Nothing =>
          Filling(h)' \/ \E u \in Timepoint : Pending(h, u)'
    BY <1>7 DEF IInv, BuffersInUse, PendingSame
  <2>3. \A v \in DOMAIN flight' :
          v \in submissions' \/ \E h \in Commands : Pending(h, v)'
    BY <1>1, <1>2, <1>6, <1>7 DEF IInv, BuffersInUse, PendingSame
  <2> QED BY <1>1, <2>1, <2>2, <2>3 DEF BuffersInUse
<1>16. ReadsAccounted'
  <2>1. ASSUME NEW h \in Commands, NEW r \in recorded'[h].reads
        PROVE  /\ r.asset \in added /\ records'[r.asset].status = "ready"
               /\ records'[r.asset].place = r.place
               /\ Identifier(r.asset) \in groups[r.group].demands
    <3>1. r.asset \in Asset /\ r \in recorded[h].reads
      BY <1>1 DEF IInv, TypeOK, GpuType, Batch, Read
    <3> QED BY <3>1, <1>3 DEF IInv, ReadsAccounted
  <2>2. ASSUME NEW v \in DOMAIN flight', NEW r \in flight'[v].reads
        PROVE  /\ r.asset \in added /\ records'[r.asset].status = "ready"
               /\ records'[r.asset].place = r.place
               /\ \/ \E h \in Commands : Pending(h, v)' /\ r \in recorded'[h].reads
                  \/ /\ v \in submissions'
                     /\ \/ records'[r.asset].demand # 0
                        \/ v \in records'[r.asset].retirement
    <3>1. v \in DOMAIN flight /\ v # t /\ v \in Timepoint /\ r \in flight[v].reads
      BY <2>2, <1>2, <1>6
    <3>2. r.asset \in Asset
      BY <3>1, <1>2 DEF Batch, Read
    <3>3. /\ r.asset \in added /\ records[r.asset].status = "ready"
          /\ records[r.asset].place = r.place
          /\ \/ \E h \in Commands : Pending(h, v) /\ r \in recorded[h].reads
             \/ /\ v \in submissions
                /\ \/ records[r.asset].demand # 0
                   \/ v \in records[r.asset].retirement
      BY <3>1 DEF IInv, ReadsAccounted
    <3>4. \A h \in Commands : Pending(h, v)' <=> Pending(h, v)
      BY <3>1, <1>7 DEF PendingSame
    <3> QED BY <3>1, <3>2, <3>3, <3>4, <1>1, <1>3
  <2>3. UNCHANGED <<added, generation, groups>>
    BY <1>1, <1>2
  <2> QED BY <2>1, <2>2, <2>3 DEF ReadsAccounted, Identifier
<1> QED BY <1>4, <1>5, <1>6, <1>7, <1>8, <1>9, <1>11, <1>12, <1>13, <1>14, <1>15,
           <1>16 DEF IInv, TypeOK

-----------------------------------------------------------------------------
(* The loop of update() *)

UpdateType ==
  [records : [Asset -> RecordType],
   pages : UNION {[D -> PageType] : D \in SUBSET Page},
   uploads : SUBSET Upload]

LEMMA MinNatural ==
  ASSUME NEW S \in SUBSET Nat, S # {}
  PROVE  Min(S) \in S /\ \A n \in S : Min(S) <= n
<1>1. \E n \in S : \A m \in S : n <= m
  BY LeastNumber
<1> QED BY <1>1 DEF Min

(* What update() leaves of an image that it does not place. *)
Got(sofar, i, status) == [sofar EXCEPT !.records[i].decoding = "none",
                                       !.records[i].status = status]

PassedRecord(record, status) ==
  [record EXCEPT !.decoding = "none", !.status = status]

LEMMA GotRecord ==
  ASSUME NEW sofar \in UpdateType, NEW i \in Image, NEW status \in {"idle", "failed"}
  PROVE  LET got == Got(sofar, i, status)
             new == PassedRecord(sofar.records[i], status)
         IN  /\ got.pages = sofar.pages /\ got.uploads = sofar.uploads
             /\ got.records = [sofar.records EXCEPT ![i] = new]
             /\ new \in RecordType /\ got \in UpdateType
<1> DEFINE new == PassedRecord(sofar.records[i], status)
           placed == [sofar.records EXCEPT ![i] = new]
<1>1. i \in Asset /\ sofar.records[i] \in RecordType
  BY DEF Asset, UpdateType
<1>2. Got(sofar, i, status) = [sofar EXCEPT !.records = placed]
  BY <1>1 DEF UpdateType, RecordType, Got, PassedRecord
<1>3. new \in RecordType
  BY <1>1 DEF RecordType, PassedRecord
<1>4. placed \in [Asset -> RecordType]
  <2> HIDE DEF new
  <2> QED BY <1>1, <1>3 DEF UpdateType
<1>5. /\ Got(sofar, i, status).pages = sofar.pages
      /\ Got(sofar, i, status).uploads = sofar.uploads
      /\ Got(sofar, i, status).records = placed
      /\ Got(sofar, i, status) \in UpdateType
  <2> HIDE DEF placed
  <2> QED BY <1>2, <1>4 DEF UpdateType
<1> QED BY <1>3, <1>5

(* The page and the region that allocate() takes. *)
Took(sofar, i, h, p, page, r) ==
  /\ p \in Page /\ page \in PageType /\ r \in page.free
  /\ \/ /\ p \in DOMAIN sofar.pages /\ page = sofar.pages[p]
        /\ ~Uploading(sofar.records, p, h)
     \/ /\ p \notin DOMAIN sofar.pages
        /\ page.free = Region /\ page.allocations = 0

Taken(page, r) == [page EXCEPT !.free = @ \ {r}, !.allocations = @ + 1]

PlacedRecord(record, p, r, h, throws) ==
  [record EXCEPT !.decoding = "none", !.place = <<p, r>>,
                 !.commands = IF throws THEN @ ELSE h,
                 !.status = IF throws THEN "failed" ELSE @]

Placed(sofar, i, h, throws, p, page, r) ==
  [records |-> [sofar.records EXCEPT ![i] =
                  PlacedRecord(sofar.records[i], p, r, h, throws)],
   pages   |-> [q \in DOMAIN sofar.pages \cup {p} |->
                  IF q = p THEN Taken(page, r) ELSE sofar.pages[q]],
   uploads |-> IF throws THEN sofar.uploads
               ELSE sofar.uploads \cup {[image |-> i, place |-> <<p, r>>]}]

LEMMA AllocatedPlaced ==
  ASSUME NEW sofar \in UpdateType, NEW i \in Image, NEW h, NEW throws \in BOOLEAN,
         Page \ DOMAIN sofar.pages # {}
  PROVE  \E p, page, r : /\ Took(sofar, i, h, p, page, r)
                         /\ Allocated(sofar, i, h, throws) =
                              Placed(sofar, i, h, throws, p, page, r)
<1> DEFINE fitting == {q \in DOMAIN sofar.pages :
                         /\ sofar.pages[q].storage = Lifetime[i]
                         /\ ~Uploading(sofar.records, q, h)
                         /\ sofar.pages[q].free # {}}
           p == IF fitting = {} THEN Min(Page \ DOMAIN sofar.pages) ELSE Min(fitting)
           page == IF fitting = {}
                   THEN [storage |-> Lifetime[i], allocations |-> 0,
                         free |-> Region, contents |-> [r \in Region |-> 0]]
                   ELSE sofar.pages[p]
           r == Min(page.free)
<1>1. Allocated(sofar, i, h, throws) = Placed(sofar, i, h, throws, p, page, r)
  BY DEF Allocated, Placed, PlacedRecord, Taken
<1>2. /\ DOMAIN sofar.pages \subseteq Page
      /\ \A q \in DOMAIN sofar.pages : sofar.pages[q] \in PageType
  BY DEF UpdateType
<1>3. Took(sofar, i, h, p, page, r)
  <2>1. CASE fitting = {}
    <3>1. p \in Page /\ p \notin DOMAIN sofar.pages
      <4>1. Page \ DOMAIN sofar.pages \in SUBSET Nat
        BY AssetAssumption DEF Page
      <4>2. Min(Page \ DOMAIN sofar.pages) \in Page \ DOMAIN sofar.pages
        BY <4>1, MinNatural
      <4> HIDE DEF fitting
      <4> QED BY <2>1, <4>2
    <3>2. page = [storage |-> Lifetime[i], allocations |-> 0,
                  free |-> Region, contents |-> [x \in Region |-> 0]]
      BY <2>1
    <3>3. page \in PageType /\ page.free = Region /\ page.allocations = 0
      <4> HIDE DEF page
      <4> QED BY <3>2 DEF PageType
    <3>4. r \in Region
      <4>1. Min(Region) \in Region
        BY AssetAssumption, MinNatural
      <4> HIDE DEF page
      <4> QED BY <3>3, <4>1
    <3> HIDE DEF p, page, r
    <3> QED BY <3>1, <3>3, <3>4 DEF Took
  <2>2. CASE fitting # {}
    <3>1. p \in fitting
      <4>1. fitting \in SUBSET Nat
        BY <1>2, AssetAssumption DEF Page
      <4> HIDE DEF fitting
      <4>2. Min(fitting) \in fitting
        BY <2>2, <4>1, MinNatural
      <4> QED BY <2>2, <4>2
    <3>2. page = sofar.pages[p]
      BY <2>2
    <3>3. p \in DOMAIN sofar.pages /\ ~Uploading(sofar.records, p, h)
          /\ page.free # {}
      <4> HIDE DEF p, page
      <4> QED BY <3>1, <3>2
    <3>4. page \in PageType /\ p \in Page
      <4> HIDE DEF p, page
      <4> QED BY <3>2, <3>3, <1>2
    <3>5. r \in page.free
      <4> HIDE DEF page
      <4>1. page.free \in SUBSET Nat
        BY <3>4, AssetAssumption DEF PageType
      <4> QED BY <3>3, <4>1, MinNatural
    <3> HIDE DEF p, page, r
    <3> QED BY <3>2, <3>3, <3>4, <3>5 DEF Took
  <2> QED BY <2>1, <2>2
<1> HIDE DEF p, page, r
<1> QED BY <1>1, <1>3

LEMMA PlacedType ==
  ASSUME NEW sofar \in UpdateType, NEW i \in Image, NEW h \in Commands,
         NEW throws \in BOOLEAN, NEW p, NEW page, NEW r,
         Took(sofar, i, h, p, page, r)
  PROVE  LET record == sofar.records[i]
             new == PlacedRecord(record, p, r, h, throws)
         IN  /\ Placed(sofar, i, h, throws, p, page, r) \in UpdateType
             /\ <<p, r>> \in Place
             /\ new \in RecordType /\ new.demand = record.demand
             /\ new.retirement = record.retirement
             /\ new.uploaded = record.uploaded /\ new.program = record.program
             /\ new.decoding = "none" /\ new.place = <<p, r>>
             /\ new.commands = IF throws THEN record.commands ELSE h
             /\ new.status = IF throws THEN "failed" ELSE record.status
             /\ Taken(page, r) \in PageType
             /\ Taken(page, r).free = page.free \ {r}
             /\ Taken(page, r).allocations = page.allocations + 1
             /\ Taken(page, r).contents = page.contents
<1> DEFINE record == sofar.records[i]
           new == PlacedRecord(record, p, r, h, throws)
           allocations == page.allocations + 1
           free == page.free \ {r}
<1>1. /\ i \in Asset /\ record \in RecordType /\ p \in Page /\ page \in PageType
      /\ r \in Region /\ r \in page.free
  BY DEF Asset, UpdateType, Took, PageType
<1>2. <<p, r>> \in Place
  BY <1>1 DEF Place
<1>3. /\ new \in RecordType /\ new.demand = record.demand
      /\ new.retirement = record.retirement
      /\ new.uploaded = record.uploaded /\ new.program = record.program
      /\ new.decoding = "none" /\ new.place = <<p, r>>
      /\ new.commands = IF throws THEN record.commands ELSE h
      /\ new.status = IF throws THEN "failed" ELSE record.status
  <2> HIDE DEF record
  <2>1. CASE throws
    BY <1>1, <1>2, <2>1 DEF PlacedRecord, RecordType
  <2>2. CASE ~throws
    BY <1>1, <1>2, <2>2 DEF PlacedRecord, RecordType
  <2> QED BY <2>1, <2>2
<1>4. /\ Taken(page, r) \in PageType
      /\ Taken(page, r).free = page.free \ {r}
      /\ Taken(page, r).allocations = page.allocations + 1
      /\ Taken(page, r).contents = page.contents
  <2>1. allocations \in Nat /\ free \in SUBSET Region
    BY <1>1 DEF PageType
  <2>2. Taken(page, r) = [page EXCEPT !.free = free, !.allocations = allocations]
    BY DEF Taken
  <2> HIDE DEF allocations, free
  <2>3. /\ Taken(page, r) \in PageType
        /\ Taken(page, r).free = free
        /\ Taken(page, r).allocations = allocations
        /\ Taken(page, r).contents = page.contents
    BY <1>1, <2>1, <2>2 DEF PageType
  <2> QED BY <2>3 DEF allocations, free
<1>5. Placed(sofar, i, h, throws, p, page, r) \in UpdateType
  <2> DEFINE records1 == [sofar.records EXCEPT ![i] = new]
             pages1 == [q \in DOMAIN sofar.pages \cup {p} |->
                          IF q = p THEN Taken(page, r) ELSE sofar.pages[q]]
             uploads1 == IF throws THEN sofar.uploads
                         ELSE sofar.uploads \cup {[image |-> i, place |-> <<p, r>>]}
  <2>1. records1 \in [Asset -> RecordType]
    <3> HIDE DEF new
    <3> QED BY <1>1, <1>3 DEF UpdateType
  <2>2. pages1 \in UNION {[D -> PageType] : D \in SUBSET Page}
    <3>1. /\ DOMAIN sofar.pages \subseteq Page
          /\ \A q \in DOMAIN sofar.pages : sofar.pages[q] \in PageType
      BY DEF UpdateType
    <3>2. /\ DOMAIN sofar.pages \cup {p} \in SUBSET Page
          /\ pages1 \in [DOMAIN sofar.pages \cup {p} -> PageType]
      BY <1>1, <1>4, <3>1
    <3> HIDE DEF pages1
    <3> QED BY <3>2
  <2>3. uploads1 \in SUBSET Upload
    BY <1>2 DEF UpdateType, Upload
  <2>4. Placed(sofar, i, h, throws, p, page, r) =
          [records |-> records1, pages |-> pages1, uploads |-> uploads1]
    BY DEF Placed
  <2> HIDE DEF records1, pages1, uploads1
  <2> QED BY <2>1, <2>2, <2>3, <2>4 DEF UpdateType
<1> HIDE DEF record, new
<1> QED BY <1>2, <1>3, <1>4, <1>5 DEF record, new

(* Only the command buffer h can have uploads to page p. *)
Apart(h, p) == /\ \A k \in Commands \ {h} : ~Writing(recorded[k], p)
               /\ \A t \in DOMAIN flight : ~Writing(flight[t], p)

(* What update() has made of the record of an image that it took up.       *)
RecordTurned(i, old, new, h, uploads) ==
  /\ new.demand = old.demand /\ new.retirement = old.retirement
  /\ new.uploaded = old.uploaded
  /\ Coherent(i, new) /\ new.status # "ready"
  /\ new.commands # none =>
       new.commands = h /\ [image |-> i, place |-> new.place] \in uploads

(* RegionsHeldOnce, in the middle of the loop. *)
RegionsOf(sofar) ==
  /\ \A i \in Image : sofar.records[i].place # <<>> =>
       /\ sofar.records[i].place[1] \in DOMAIN sofar.pages
       /\ sofar.records[i].place[2] \notin sofar.pages[sofar.records[i].place[1]].free
       /\ \A j \in Image \ {i} : sofar.records[j].place # sofar.records[i].place
  /\ \A p \in DOMAIN sofar.pages :
       sofar.pages[p].allocations = Cardinality(Region \ sofar.pages[p].free)

(* What holds after n turns of the loop. *)
UpdatedRecords(n, h, chosen, sofar) ==
  \A a \in Asset :
    /\ a \notin chosen \/ n < a => sofar.records[a] = records[a]
    /\ a \in chosen /\ a <= n =>
         RecordTurned(a, records[a], sofar.records[a], h, sofar.uploads)

UpdatedPages(n, chosen, sofar) ==
  /\ DOMAIN pages \subseteq DOMAIN sofar.pages
  /\ \A p \in DOMAIN pages : sofar.pages[p].contents = pages[p].contents
  /\ Cardinality(DOMAIN sofar.pages)
       <= Cardinality(DOMAIN pages) + Cardinality(chosen \cap 1 .. n)

UpdatedUploads(n, h, chosen, sofar) ==
  \A u \in sofar.uploads :
    /\ u.image \in chosen /\ u.image <= n
    /\ sofar.records[u.image].place = u.place
    /\ sofar.records[u.image].commands = h
    /\ Apart(h, u.place[1])

UpdatedFrom(n, h, chosen, sofar) ==
  /\ UpdatedRecords(n, h, chosen, sofar) /\ RegionsOf(sofar)
  /\ UpdatedPages(n, chosen, sofar) /\ UpdatedUploads(n, h, chosen, sofar)

(* What update() begins with. *)
Updatable(h, chosen) ==
  /\ h \in Commands /\ recorded[h] = Nothing
  /\ \A t \in Timepoint : ~Pending(h, t)
  /\ chosen \subseteq {i \in Image : Decoded(i)}
  /\ Cardinality(DOMAIN pages) + Cardinality(chosen) <= MaxPages

(* One turn of the loop. *)
Turned(sofar, i, h, chosen, throwing) ==
  IF i \in chosen THEN UpdateOne(sofar, i, h, i \in throwing) ELSE sofar

LEMMA ChosenRecord ==
  ASSUME IInv, NEW h, NEW chosen, Updatable(h, chosen), NEW i \in chosen
  PROVE  /\ i \in Image /\ i \in Asset /\ i \in added
         /\ records[i].status = "loading" /\ records[i].decoding # "none"
         /\ records[i].commands = none /\ records[i].uploaded = 0
         /\ Coherent(i, records[i])
<1>1. /\ i \in Image /\ i \in Asset /\ records[i].status = "loading"
      /\ records[i].decoding \in {"decoded", "broken"}
  BY DEF Updatable, Decoded, Asset
<1>2. Coherent(i, records[i])
  BY <1>1 DEF IInv, RecordsCoherent
<1>3. i \in added
  BY <1>1 DEF IInv, IdentifiersKnown, NewRecord
<1> QED BY <1>1, <1>2, <1>3 DEF Coherent, OnItsWay

(* A page that has no other uploads, to the eyes of allocate(), has none.  *)
LEMMA PageApart ==
  ASSUME IInv, NEW h, NEW chosen, Updatable(h, chosen),
         NEW n \in Nat, NEW sofar \in UpdateType, UpdatedFrom(n, h, chosen, sofar),
         NEW p, NEW page, NEW r, NEW i, Took(sofar, i, h, p, page, r)
  PROVE  Apart(h, p)
<1>1. ASSUME NEW j \in Image,
             \/ records[j].commands \in Commands \ {h}
             \/ records[j].uploaded # 0,
             records[j].place # <<>>, records[j].place[1] = p
      PROVE  FALSE
  <2>1. j \in Asset /\ none \notin Commands /\ Coherent(j, records[j])
    BY AssetAssumption DEF Asset, IInv, RecordsCoherent
  <2>2. j \notin chosen
    BY <1>1, <2>1, ChosenRecord
  <2>3. sofar.records[j] = records[j]
    BY <2>1, <2>2 DEF UpdatedFrom, UpdatedRecords
  <2>4. records[j].status = "loading"
    BY <1>1, <2>1 DEF Coherent, OnItsWay
  <2>5. records[j].commands # h \/ records[j].uploaded # 0
    BY <1>1
  <2>6. Uploading(sofar.records, p, h)
    BY <1>1, <2>3, <2>4, <2>5 DEF Uploading
  <2>7. p \in DOMAIN sofar.pages
    <3>1. sofar.records[j].place[1] \in DOMAIN sofar.pages
      BY <1>1, <2>3 DEF UpdatedFrom, RegionsOf
    <3> QED BY <3>1, <1>1, <2>3
  <2> QED BY <2>6, <2>7 DEF Took
<1>2. ASSUME NEW k \in Commands \ {h}, NEW u \in recorded[k].uploads, u.place[1] = p
      PROVE  FALSE
  <2>1. recorded \in [Commands -> Batch] /\ k \in Commands
    BY DEF IInv, TypeOK, GpuType
  <2>2. u \in Upload
    BY <2>1 DEF Batch
  <2>3. u.image \in Image /\ u.place # <<>>
    BY <2>2 DEF Upload, Place
  <2>4. records[u.image].place = u.place /\ records[u.image].commands = k
    BY DEF IInv, UploadsAccounted
  <2> QED BY <1>1, <1>2, <2>3, <2>4
<1>3. ASSUME NEW t \in DOMAIN flight, NEW u \in flight[t].uploads, u.place[1] = p
      PROVE  FALSE
  <2>1. /\ u.image \in Image /\ u.place # <<>>
        /\ records[u.image].place = u.place
    BY UploadLands DEF Place
  <2>2. t \in Timepoint /\ t # 0
    BY AssetAssumption DEF IInv, TypeOK, GpuType, Timepoint
  <2>3. records[u.image].commands \in Commands \cup {none} /\ ~Pending(none, t)
    BY <2>1, NoneNotPending DEF IInv, TypeOK, RecordsType, RecordType, Asset
  <2>4. \/ records[u.image].uploaded = t
        \/ Pending(records[u.image].commands, t)
    BY DEF IInv, UploadsAccounted
  <2>5. \/ records[u.image].commands \in Commands \ {h}
        \/ records[u.image].uploaded # 0
    BY <2>2, <2>3, <2>4 DEF Updatable
  <2> QED BY <1>1, <1>3, <2>1, <2>5
<1> QED BY <1>2, <1>3 DEF Apart, Writing

(* There is a page left for each image that update() takes up. *)
LEMMA PagesLeft ==
  ASSUME IInv, NEW h, NEW chosen, Updatable(h, chosen),
         NEW i \in chosen, NEW sofar \in UpdateType,
         UpdatedPages(i - 1, chosen, sofar)
  PROVE  /\ Page \ DOMAIN sofar.pages # {}
         /\ IsFiniteSet(DOMAIN sofar.pages)
         /\ Cardinality(chosen \cap 1 .. i) = Cardinality(chosen \cap 1 .. i - 1) + 1
         /\ Cardinality(chosen \cap 1 .. i - 1) \in Nat
         /\ Cardinality(DOMAIN pages) \in Nat
<1>1. /\ MaxPages \in Nat /\ IsFiniteSet(Page) /\ Cardinality(Page) = MaxPages
      /\ IsFiniteSet(Image)
  BY AssetAssumption, FS_Interval DEF Page, Image
<1>2. chosen \in SUBSET Image /\ i \in Nat
  BY AssetAssumption DEF Updatable, Image
<1>3. IsFiniteSet(chosen) /\ Cardinality(chosen) \in Nat
  BY <1>1, <1>2, FS_Subset, FS_CardinalityType
<1> DEFINE before == chosen \cap 1 .. i - 1
           upto == chosen \cap 1 .. i
<1>4. upto = before \cup {i} /\ i \notin before
  BY <1>2, AssetAssumption DEF Image
<1>5. before \in SUBSET chosen /\ upto \in SUBSET chosen
  OBVIOUS
<1> HIDE DEF before, upto
<1>6. IsFiniteSet(before) /\ Cardinality(before) \in Nat
  BY <1>3, <1>5, FS_Subset, FS_CardinalityType
<1>7. Cardinality(upto) = Cardinality(before) + 1
  BY <1>4, <1>6, FS_AddElement
<1>8. Cardinality(upto) <= Cardinality(chosen)
  BY <1>3, <1>5, FS_Subset
<1>9. DOMAIN sofar.pages \in SUBSET Page /\ DOMAIN pages \in SUBSET Page
  BY DEF UpdateType, IInv, TypeOK, PagesType
<1>10. /\ IsFiniteSet(DOMAIN sofar.pages)
       /\ Cardinality(DOMAIN sofar.pages) \in Nat /\ Cardinality(DOMAIN pages) \in Nat
  BY <1>1, <1>9, FS_Subset, FS_CardinalityType
<1>11. Cardinality(DOMAIN sofar.pages) < MaxPages
  <2>1. /\ Cardinality(DOMAIN sofar.pages)
             <= Cardinality(DOMAIN pages) + Cardinality(before)
        /\ Cardinality(DOMAIN pages) + Cardinality(chosen) <= MaxPages
    BY DEF UpdatedPages, Updatable, before
  <2> QED BY <2>1, <1>1, <1>3, <1>6, <1>7, <1>8, <1>10
<1>12. DOMAIN sofar.pages # Page
  BY <1>1, <1>11
<1> QED BY <1>6, <1>7, <1>9, <1>10, <1>12 DEF before, upto

-----------------------------------------------------------------------------
(* One turn of the loop of update() *)

LEMMA ImageNumbers ==
  /\ Asset \subseteq Nat /\ Image \subseteq Asset
  /\ \A i \in Image : i >= 1 /\ i <= Images /\ i - 1 \in Nat
BY AssetAssumption DEF Asset, Image, Shader

(* The records other than that of i are as they were a turn ago.           *)
LEMMA RecordsTurn ==
  ASSUME NEW i \in Image, NEW h, NEW chosen,
         NEW sofar, NEW after, sofar.uploads \subseteq after.uploads,
         UpdatedRecords(i - 1, h, chosen, sofar),
         \A a \in Asset \ {i} : after.records[a] = sofar.records[a],
         i \in chosen => RecordTurned(i, records[i], after.records[i], h, after.uploads),
         i \notin chosen => after.records[i] = records[i]
  PROVE  UpdatedRecords(i, h, chosen, after)
<1> SUFFICES ASSUME NEW a \in Asset
             PROVE  /\ a \notin chosen \/ i < a => after.records[a] = records[a]
                    /\ a \in chosen /\ a <= i =>
                         RecordTurned(a, records[a], after.records[a], h, after.uploads)
  BY DEF UpdatedRecords
<1>1. CASE a = i
  BY <1>1, ImageNumbers
<1>2. CASE a # i
  <2>1. /\ a \notin chosen \/ i - 1 < a => sofar.records[a] = records[a]
        /\ a \in chosen /\ a <= i - 1 =>
             RecordTurned(a, records[a], sofar.records[a], h, sofar.uploads)
    BY DEF UpdatedRecords
  <2>2. after.records[a] = sofar.records[a]
    BY <1>2
  <2>3. /\ i < a => i - 1 < a
        /\ a <= i => a <= i - 1
    BY <1>2, ImageNumbers
  <2> QED BY <2>1, <2>2, <2>3 DEF RecordTurned
<1> QED BY <1>1, <1>2

(* An image that update() does not take up. *)
LEMMA PassedOver ==
  ASSUME NEW h, NEW chosen \in SUBSET Image, NEW i \in Image, i \notin chosen,
         NEW sofar, UpdatedFrom(i - 1, h, chosen, sofar)
  PROVE  UpdatedFrom(i, h, chosen, sofar)
<1>1. i \in Asset /\ i - 1 < i /\ i >= 1
  BY ImageNumbers
<1>2. UpdatedRecords(i, h, chosen, sofar)
  <2>1. sofar.records[i] = records[i]
    BY <1>1 DEF UpdatedFrom, UpdatedRecords
  <2> QED BY <2>1, RecordsTurn DEF UpdatedFrom
<1>3. chosen \cap 1 .. i = chosen \cap 1 .. i - 1
  BY ImageNumbers
<1>4. UpdatedPages(i, chosen, sofar)
  BY <1>3 DEF UpdatedFrom, UpdatedPages
<1>5. UpdatedUploads(i, h, chosen, sofar)
  <2> SUFFICES ASSUME NEW u \in sofar.uploads
               PROVE  u.image <= i
    BY DEF UpdatedFrom, UpdatedUploads
  <2>1. u.image <= i - 1 /\ u.image \in chosen
    BY DEF UpdatedFrom, UpdatedUploads
  <2>2. u.image \in Nat /\ i \in Nat
    BY <2>1, ImageNumbers
  <2> QED BY <2>1, <2>2
<1> QED BY <1>2, <1>4, <1>5 DEF UpdatedFrom

(* What is uploaded so far is of other images. *)
LEMMA UploadsBefore ==
  ASSUME IInv, NEW h, NEW chosen, Updatable(h, chosen), NEW i \in Image,
         NEW sofar, UpdatedUploads(i - 1, h, chosen, sofar),
         NEW u \in sofar.uploads
  PROVE  u.image \in Asset /\ u.image # i /\ u.image <= i
<1>1. u.image \in chosen /\ u.image <= i - 1
  BY DEF UpdatedUploads
<1>2. u.image \in Image
  BY <1>1 DEF Updatable
<1>3. u.image \in Asset /\ u.image \in Nat /\ i \in Nat
  BY <1>2, ImageNumbers
<1> QED BY <1>1, <1>3

(* An image that nobody demands any more, or that could not be decoded.    *)
LEMMA GotKeeps ==
  ASSUME IInv, NEW h, NEW chosen, Updatable(h, chosen),
         NEW i \in chosen, NEW sofar \in UpdateType,
         UpdatedFrom(i - 1, h, chosen, sofar),
         NEW status \in {"idle", "failed"}, NEW after,
         after = Got(sofar, i, status)
  PROVE  after \in UpdateType /\ UpdatedFrom(i, h, chosen, after)
<1> DEFINE new == PassedRecord(sofar.records[i], status)
<1>1. /\ i \in Image /\ i \in Asset
      /\ records[i].commands = none /\ records[i].uploaded = 0
  BY ChosenRecord
<1>2. /\ after.pages = sofar.pages /\ after.uploads = sofar.uploads
      /\ after.records = [sofar.records EXCEPT ![i] = new]
      /\ new \in RecordType /\ after \in UpdateType
  <2>1. LET got == Got(sofar, i, status)
            it == PassedRecord(sofar.records[i], status)
        IN  /\ got.pages = sofar.pages /\ got.uploads = sofar.uploads
            /\ got.records = [sofar.records EXCEPT ![i] = it]
            /\ it \in RecordType /\ got \in UpdateType
    BY <1>1, GotRecord
  <2> QED BY <2>1
<1>3. sofar.records[i] = records[i] /\ sofar.records \in [Asset -> RecordType]
  <2>1. i - 1 < i
    BY <1>1, ImageNumbers
  <2> QED BY <1>1, <2>1 DEF UpdatedFrom, UpdatedRecords, UpdateType
<1>4. /\ new.demand = records[i].demand /\ new.retirement = records[i].retirement
      /\ new.uploaded = 0 /\ new.commands = none /\ new.decoding = "none"
      /\ new.status = status /\ new.place = records[i].place
  BY <1>1, <1>3 DEF RecordType, PassedRecord
<1> HIDE DEF new
<1>5. /\ after.records[i] = new
      /\ \A a \in Asset \ {i} : after.records[a] = sofar.records[a]
  BY <1>1, <1>2, <1>3
<1>6. UpdatedRecords(i, h, chosen, after)
  <2>1. Coherent(i, new)
    BY <1>1, <1>4 DEF Coherent, OnItsWay
  <2>2. RecordTurned(i, records[i], after.records[i], h, after.uploads)
    BY <1>1, <1>4, <1>5, <2>1 DEF RecordTurned
  <2>3. UpdatedRecords(i - 1, h, chosen, sofar)
    BY DEF UpdatedFrom
  <2>4. sofar.uploads \subseteq after.uploads
    BY <1>2
  <2> QED BY <1>1, <1>5, <2>2, <2>3, <2>4, RecordsTurn
<1>7. \A j \in Image : after.records[j].place = sofar.records[j].place
  BY <1>3, <1>4, <1>5, ImageNumbers
<1>8. RegionsOf(after)
  <2>1. RegionsOf(sofar)
    BY DEF UpdatedFrom
  <2>2. after.pages = sofar.pages
    BY <1>2
  <2> QED BY <1>7, <2>1, <2>2 DEF RegionsOf
<1>9. UpdatedPages(i, chosen, after)
  <2>1. /\ IsFiniteSet(DOMAIN sofar.pages)
        /\ Cardinality(chosen \cap 1 .. i) = Cardinality(chosen \cap 1 .. i - 1) + 1
        /\ Cardinality(chosen \cap 1 .. i - 1) \in Nat
        /\ Cardinality(DOMAIN pages) \in Nat
    BY PagesLeft DEF UpdatedFrom
  <2>2. Cardinality(DOMAIN sofar.pages) \in Nat
    BY <2>1, FS_CardinalityType
  <2>3. /\ DOMAIN pages \subseteq DOMAIN sofar.pages
        /\ \A p \in DOMAIN pages : sofar.pages[p].contents = pages[p].contents
        /\ Cardinality(DOMAIN sofar.pages)
             <= Cardinality(DOMAIN pages) + Cardinality(chosen \cap 1 .. i - 1)
    BY DEF UpdatedFrom, UpdatedPages
  <2>4. Cardinality(DOMAIN sofar.pages)
          <= Cardinality(DOMAIN pages) + Cardinality(chosen \cap 1 .. i)
    BY <2>1, <2>2, <2>3
  <2> QED BY <1>2, <2>3, <2>4 DEF UpdatedPages
<1>10. UpdatedUploads(i, h, chosen, after)
  <2> SUFFICES ASSUME NEW u \in sofar.uploads
               PROVE  /\ u.image \in chosen /\ u.image <= i
                      /\ after.records[u.image].place = u.place
                      /\ after.records[u.image].commands = h
                      /\ Apart(h, u.place[1])
    BY <1>2 DEF UpdatedUploads
  <2>1. u.image \in Asset /\ u.image # i /\ u.image <= i
    BY <1>1, UploadsBefore DEF UpdatedFrom
  <2>2. after.records[u.image] = sofar.records[u.image]
    BY <2>1, <1>5
  <2> QED BY <2>1, <2>2 DEF UpdatedFrom, UpdatedUploads
<1> QED BY <1>2, <1>6, <1>8, <1>9, <1>10 DEF UpdatedFrom

(* What changes when update() places image i. *)
PlacedAs(sofar, after, i, h, throws, p, page, r) ==
  /\ after \in UpdateType
  /\ \A a \in Asset \ {i} : after.records[a] = sofar.records[a]
  /\ after.records[i] = PlacedRecord(sofar.records[i], p, r, h, throws)
  /\ after.records[i].place = <<p, r>> /\ <<p, r>> # <<>>
  /\ DOMAIN after.pages = DOMAIN sofar.pages \cup {p}
  /\ \A q \in DOMAIN sofar.pages \ {p} : after.pages[q] = sofar.pages[q]
  /\ after.pages[p].free = page.free \ {r}
  /\ after.pages[p].allocations = page.allocations + 1
  /\ after.pages[p].contents = page.contents
  /\ after.uploads = IF throws THEN sofar.uploads
       ELSE sofar.uploads \cup {[image |-> i, place |-> <<p, r>>]}

LEMMA PlacedChanges ==
  ASSUME NEW sofar \in UpdateType, NEW i \in Image, NEW h \in Commands,
         NEW throws \in BOOLEAN, NEW p, NEW page, NEW r,
         Took(sofar, i, h, p, page, r),
         NEW after, after = Placed(sofar, i, h, throws, p, page, r)
  PROVE  PlacedAs(sofar, after, i, h, throws, p, page, r)
<1> DEFINE new == PlacedRecord(sofar.records[i], p, r, h, throws)
<1>1. i \in Asset /\ sofar.records \in [Asset -> RecordType]
  BY DEF Asset, UpdateType
<1>2. /\ after \in UpdateType /\ <<p, r>> \in Place
      /\ new.place = <<p, r>>
      /\ Taken(page, r).free = page.free \ {r}
      /\ Taken(page, r).allocations = page.allocations + 1
      /\ Taken(page, r).contents = page.contents
  BY PlacedType
<1> HIDE DEF new
<1>3. after.records = [sofar.records EXCEPT ![i] = new]
  BY DEF Placed, new
<1>4. /\ \A a \in Asset \ {i} : after.records[a] = sofar.records[a]
      /\ after.records[i] = new
  BY <1>1, <1>3
<1>5. after.pages = [q \in DOMAIN sofar.pages \cup {p} |->
                       IF q = p THEN Taken(page, r) ELSE sofar.pages[q]]
  BY DEF Placed
<1>6. /\ DOMAIN after.pages = DOMAIN sofar.pages \cup {p}
      /\ \A q \in DOMAIN sofar.pages \ {p} : after.pages[q] = sofar.pages[q]
      /\ after.pages[p] = Taken(page, r)
  BY <1>5
<1>7. after.uploads = IF throws THEN sofar.uploads
        ELSE sofar.uploads \cup {[image |-> i, place |-> <<p, r>>]}
  BY DEF Placed
<1>8. <<p, r>> # <<>>
  BY <1>2 DEF Place
<1> QED BY <1>2, <1>4, <1>6, <1>7, <1>8 DEF new, PlacedAs

(* The region was free: no other image has it. *)
LEMMA PlacedRegions ==
  ASSUME NEW sofar \in UpdateType, NEW i \in Image, NEW h \in Commands,
         NEW throws \in BOOLEAN, NEW p, NEW page, NEW r,
         Took(sofar, i, h, p, page, r), RegionsOf(sofar),
         NEW after, PlacedAs(sofar, after, i, h, throws, p, page, r)
  PROVE  RegionsOf(after)
<1>1. /\ \A a \in Asset \ {i} : after.records[a] = sofar.records[a]
      /\ after.records[i].place = <<p, r>>
      /\ DOMAIN after.pages = DOMAIN sofar.pages \cup {p}
      /\ \A q \in DOMAIN sofar.pages \ {p} : after.pages[q] = sofar.pages[q]
      /\ after.pages[p].free = page.free \ {r}
      /\ after.pages[p].allocations = page.allocations + 1
  BY DEF PlacedAs
<1>2. \A j \in Image \ {i} : after.records[j].place = sofar.records[j].place
  BY <1>1, ImageNumbers
<1>3. ASSUME NEW j \in Image \ {i}, sofar.records[j].place # <<>>
      PROVE  /\ sofar.records[j].place[1] \in DOMAIN after.pages
             /\ sofar.records[j].place[2]
                  \notin after.pages[sofar.records[j].place[1]].free
             /\ sofar.records[j].place # <<p, r>>
             /\ \A k \in Image \ {i, j} : sofar.records[k].place # sofar.records[j].place
  <2> DEFINE q == sofar.records[j].place[1]
             s == sofar.records[j].place[2]
  <2>1. /\ q \in DOMAIN sofar.pages /\ s \notin sofar.pages[q].free
        /\ \A k \in Image \ {j} : sofar.records[k].place # sofar.records[j].place
    BY <1>3 DEF RegionsOf
  <2>2. q = p => page = sofar.pages[p]
    BY <2>1 DEF Took
  <2>3. s \notin after.pages[q].free
    BY <1>1, <2>1, <2>2
  <2>4. sofar.records[j].place # <<p, r>>
    <3> SUFFICES ASSUME sofar.records[j].place = <<p, r>> PROVE FALSE
      OBVIOUS
    <3>1. q = p /\ s = r
      OBVIOUS
    <3> QED BY <2>1, <2>2, <3>1 DEF Took
  <2> QED BY <1>1, <2>1, <2>3, <2>4
<1>4. ASSUME NEW j \in Image, after.records[j].place # <<>>
      PROVE  /\ after.records[j].place[1] \in DOMAIN after.pages
             /\ after.records[j].place[2]
                  \notin after.pages[after.records[j].place[1]].free
             /\ \A k \in Image \ {j} : after.records[k].place # after.records[j].place
  <2>1. CASE j = i
    <3>1. p \in DOMAIN after.pages /\ r \notin after.pages[p].free
      BY <1>1
    <3>2. \A k \in Image \ {i} : after.records[k].place # <<p, r>>
      <4> SUFFICES ASSUME NEW k \in Image \ {i}, after.records[k].place = <<p, r>>
                   PROVE  FALSE
        OBVIOUS
      <4>1. sofar.records[k].place = <<p, r>> /\ <<p, r>> # <<>>
        BY <1>2
      <4> QED BY <4>1, <1>3
    <3> QED BY <2>1, <3>1, <3>2, <1>1
  <2>2. CASE j # i
    <3>1. /\ after.records[j].place = sofar.records[j].place
          /\ sofar.records[j].place # <<>>
      BY <2>2, <1>2, <1>4
    <3>2. \A k \in Image \ {j} : after.records[k].place # sofar.records[j].place
      BY <2>2, <3>1, <1>1, <1>2, <1>3
    <3> QED BY <2>2, <3>1, <3>2, <1>3
  <2> QED BY <2>1, <2>2
<1>5. ASSUME NEW q \in DOMAIN after.pages
      PROVE  after.pages[q].allocations = Cardinality(Region \ after.pages[q].free)
  <2>1. CASE q # p
    <3>1. q \in DOMAIN sofar.pages \ {p}
      BY <2>1, <1>1
    <3> QED BY <3>1, <1>1 DEF RegionsOf
  <2>2. CASE q = p
    <3> DEFINE used == Region \ page.free
    <3>1. page.allocations = Cardinality(used)
      <4>1. CASE p \in DOMAIN sofar.pages
        BY <4>1 DEF Took, RegionsOf
      <4>2. CASE p \notin DOMAIN sofar.pages
        <5>1. page.free = Region /\ page.allocations = 0
          BY <4>2 DEF Took
        <5>2. used = {}
          BY <5>1
        <5> QED BY <5>1, <5>2, FS_EmptySet
      <4> QED BY <4>1, <4>2
    <3>2. r \in Region /\ r \in page.free
      BY DEF Took, PageType
    <3>3. Region \ (page.free \ {r}) = used \cup {r} /\ r \notin used
      BY <3>2
    <3>4. IsFiniteSet(used)
      BY AssetAssumption, FS_Subset
    <3>5. Cardinality(used \cup {r}) = Cardinality(used) + 1
      <4> HIDE DEF used
      <4> QED BY <3>3, <3>4, FS_AddElement
    <3> QED BY <2>2, <1>1, <3>1, <3>3, <3>5
  <2> QED BY <2>1, <2>2
<1> QED BY <1>4, <1>5 DEF RegionsOf

LEMMA PlacedRecordFields ==
  ASSUME NEW record \in RecordType, NEW h \in Commands, NEW throws \in BOOLEAN,
         NEW p, NEW r, NEW new, new = PlacedRecord(record, p, r, h, throws)
  PROVE  /\ new.demand = record.demand /\ new.retirement = record.retirement
         /\ new.uploaded = record.uploaded /\ new.decoding = "none"
         /\ new.place = <<p, r>>
         /\ new.commands = IF throws THEN record.commands ELSE h
         /\ new.status = IF throws THEN "failed" ELSE record.status
<1>1. CASE throws
  BY <1>1 DEF PlacedRecord, RecordType
<1>2. CASE ~throws
  BY <1>2 DEF PlacedRecord, RecordType
<1> QED BY <1>1, <1>2

(* The turn of an image that update() places, or fails to place.           *)
LEMMA PlacedKeeps ==
  ASSUME IInv, NEW h, NEW chosen, Updatable(h, chosen),
         NEW i \in chosen, NEW sofar \in UpdateType,
         UpdatedFrom(i - 1, h, chosen, sofar),
         NEW throws \in BOOLEAN, NEW p, NEW page, NEW r,
         Took(sofar, i, h, p, page, r),
         NEW after, PlacedAs(sofar, after, i, h, throws, p, page, r)
  PROVE  after \in UpdateType /\ UpdatedFrom(i, h, chosen, after)
<1>1. /\ i \in Image /\ i \in Asset /\ i - 1 \in Nat /\ i - 1 < i
      /\ records[i].commands = none /\ records[i].uploaded = 0
      /\ records[i].status = "loading" /\ h \in Commands
  <2>1. /\ i \in Image /\ i \in Asset /\ records[i].commands = none
        /\ records[i].uploaded = 0 /\ records[i].status = "loading"
    BY ChosenRecord
  <2>2. i \in Nat /\ i - 1 \in Nat /\ h \in Commands
    BY <2>1, ImageNumbers DEF Updatable
  <2> QED BY <2>1, <2>2
<1>2. /\ sofar.records[i] = records[i] /\ records[i] \in RecordType
      /\ UpdatedRecords(i - 1, h, chosen, sofar) /\ RegionsOf(sofar)
      /\ UpdatedPages(i - 1, chosen, sofar)
      /\ UpdatedUploads(i - 1, h, chosen, sofar)
  BY <1>1 DEF UpdatedFrom, UpdatedRecords, IInv, TypeOK, RecordsType
<1>3. UpdatedRecords(i, h, chosen, after)
  <2> DEFINE new == PlacedRecord(records[i], p, r, h, throws)
  <2>1. /\ new.demand = records[i].demand /\ new.retirement = records[i].retirement
        /\ new.uploaded = 0 /\ new.decoding = "none" /\ new.place = <<p, r>>
        /\ new.commands = IF throws THEN none ELSE h
        /\ new.status = IF throws THEN "failed" ELSE "loading"
    <3>1. new = PlacedRecord(records[i], p, r, h, throws)
      OBVIOUS
    <3> HIDE DEF new
    <3> QED BY <1>1, <1>2, <3>1, PlacedRecordFields
  <2>2. /\ after.records[i] = new /\ new.place # <<>>
        /\ \A a \in Asset \ {i} : after.records[a] = sofar.records[a]
        /\ after.uploads = IF throws THEN sofar.uploads
             ELSE sofar.uploads \cup {[image |-> i, place |-> <<p, r>>]}
    BY <1>2, <2>1 DEF PlacedAs
  <2> HIDE DEF new
  <2>3. h # none
    BY <1>1, AssetAssumption
  <2>4. Coherent(i, new) /\ new.status # "ready"
    BY <1>1, <2>1, <2>2, <2>3 DEF Coherent, OnItsWay
  <2>5. RecordTurned(i, records[i], after.records[i], h, after.uploads)
    <3>1. CASE throws
      BY <1>1, <2>1, <2>2, <2>4, <3>1 DEF RecordTurned
    <3>2. CASE ~throws
      BY <1>1, <2>1, <2>2, <2>4, <3>2 DEF RecordTurned
    <3> QED BY <3>1, <3>2
  <2>6. sofar.uploads \subseteq after.uploads
    BY <2>2
  <2> QED BY <1>1, <1>2, <2>2, <2>5, <2>6, RecordsTurn
<1>4. RegionsOf(after)
  BY <1>1, <1>2, PlacedRegions
<1>5. UpdatedPages(i, chosen, after)
  <2>1. /\ IsFiniteSet(DOMAIN sofar.pages)
        /\ Cardinality(chosen \cap 1 .. i) = Cardinality(chosen \cap 1 .. i - 1) + 1
        /\ Cardinality(chosen \cap 1 .. i - 1) \in Nat
        /\ Cardinality(DOMAIN pages) \in Nat
    BY <1>2, PagesLeft
  <2>2. Cardinality(DOMAIN sofar.pages) \in Nat
    BY <2>1, FS_CardinalityType
  <2>3. /\ DOMAIN pages \subseteq DOMAIN sofar.pages
        /\ \A q \in DOMAIN pages : sofar.pages[q].contents = pages[q].contents
        /\ Cardinality(DOMAIN sofar.pages)
             <= Cardinality(DOMAIN pages) + Cardinality(chosen \cap 1 .. i - 1)
    BY <1>2 DEF UpdatedPages
  <2>4. Cardinality(DOMAIN sofar.pages \cup {p}) <= Cardinality(DOMAIN sofar.pages) + 1
    <3> DEFINE D == DOMAIN sofar.pages
    <3>1. IsFiniteSet(D) /\ Cardinality(D) \in Nat
      BY <2>1, <2>2
    <3> HIDE DEF D
    <3>2. CASE p \in D
      <4>1. D \cup {p} = D
        BY <3>2
      <4>2. Cardinality(D) <= Cardinality(D) + 1
        BY <3>1
      <4> QED BY <4>1, <4>2 DEF D
    <3>3. CASE p \notin D
      <4>1. Cardinality(D \cup {p}) = Cardinality(D) + 1
        BY <3>1, <3>3, FS_AddElement
      <4>2. Cardinality(D \cup {p}) <= Cardinality(D) + 1
        BY <3>1, <4>1
      <4> QED BY <4>2 DEF D
    <3> QED BY <3>2, <3>3
  <2>5. /\ DOMAIN after.pages = DOMAIN sofar.pages \cup {p}
        /\ \A q \in DOMAIN sofar.pages \ {p} : after.pages[q] = sofar.pages[q]
        /\ after.pages[p].contents = page.contents
    BY DEF PlacedAs
  <2>6. Cardinality(DOMAIN after.pages) \in Nat
    BY <2>1, <2>5, FS_AddElement, FS_CardinalityType
  <2>7. Cardinality(DOMAIN after.pages)
          <= Cardinality(DOMAIN pages) + Cardinality(chosen \cap 1 .. i)
    BY <2>1, <2>2, <2>3, <2>4, <2>5, <2>6
  <2>8. \A q \in DOMAIN pages : after.pages[q].contents = pages[q].contents
    BY <2>3, <2>5 DEF Took
  <2> QED BY <2>3, <2>5, <2>7, <2>8 DEF UpdatedPages
<1>6. UpdatedUploads(i, h, chosen, after)
  <2> DEFINE upload == [image |-> i, place |-> <<p, r>>]
  <2>1. /\ \A a \in Asset \ {i} : after.records[a] = sofar.records[a]
        /\ after.records[i] = PlacedRecord(records[i], p, r, h, throws)
        /\ after.uploads = IF throws THEN sofar.uploads
                                     ELSE sofar.uploads \cup {upload}
    BY <1>2 DEF PlacedAs
  <2>2. ASSUME NEW u \in sofar.uploads
        PROVE  /\ u.image \in chosen /\ u.image <= i
               /\ after.records[u.image].place = u.place
               /\ after.records[u.image].commands = h
               /\ Apart(h, u.place[1])
    <3>1. u.image \in Asset /\ u.image # i /\ u.image <= i
      BY <1>1, <1>2, UploadsBefore
    <3>2. after.records[u.image] = sofar.records[u.image]
      BY <2>1, <3>1
    <3> QED BY <1>2, <3>1, <3>2 DEF UpdatedUploads
  <2>3. ASSUME ~throws
        PROVE  /\ upload.image \in chosen /\ upload.image <= i
               /\ after.records[upload.image].place = upload.place
               /\ after.records[upload.image].commands = h
               /\ Apart(h, upload.place[1])
    <3>1. /\ PlacedRecord(records[i], p, r, h, throws).place = <<p, r>>
          /\ PlacedRecord(records[i], p, r, h, throws).commands = h
      BY <1>1, <1>2, <2>3, PlacedRecordFields
    <3>2. Apart(h, p)
      BY <1>1, PageApart
    <3>3. upload.image = i /\ upload.place = <<p, r>> /\ upload.place[1] = p
      OBVIOUS
    <3>4. i <= i /\ i \in chosen
      <4>1. i \in Nat
        BY <1>1, ImageNumbers
      <4> QED BY <4>1
    <3> HIDE DEF upload
    <3> QED BY <2>1, <3>1, <3>2, <3>3, <3>4
  <2> HIDE DEF upload
  <2> QED BY <2>1, <2>2, <2>3 DEF UpdatedUploads
<1>7. after \in UpdateType
  BY DEF PlacedAs
<1> QED BY <1>3, <1>4, <1>5, <1>6, <1>7 DEF UpdatedFrom

LEMMA UpdateOneKeeps ==
  ASSUME IInv, NEW h, NEW chosen, Updatable(h, chosen),
         NEW i \in Image, NEW sofar \in UpdateType, NEW throwing,
         UpdatedFrom(i - 1, h, chosen, sofar)
  PROVE  /\ Turned(sofar, i, h, chosen, throwing) \in UpdateType
         /\ UpdatedFrom(i, h, chosen, Turned(sofar, i, h, chosen, throwing))
<1> DEFINE throws == i \in throwing
           after == UpdateOne(sofar, i, h, throws)
<1>1. CASE i \notin chosen
  <2>1. Turned(sofar, i, h, chosen, throwing) = sofar
    BY <1>1 DEF Turned
  <2>2. chosen \in SUBSET Image
    BY DEF Updatable
  <2> QED BY <1>1, <2>1, <2>2, PassedOver
<1>2. CASE i \in chosen
  <2>1. Turned(sofar, i, h, chosen, throwing) = after
    BY <1>2 DEF Turned
  <2>2. ASSUME NEW status \in {"idle", "failed"}, after = Got(sofar, i, status)
        PROVE  after \in UpdateType /\ UpdatedFrom(i, h, chosen, after)
    <3> HIDE DEF after
    <3> QED BY <1>2, <2>2, GotKeeps
  <2>3. ASSUME after = Allocated(sofar, i, h, throws)
        PROVE  after \in UpdateType /\ UpdatedFrom(i, h, chosen, after)
    <3> throws \in BOOLEAN
      OBVIOUS
    <3> HIDE DEF after, throws
    <3>1. Page \ DOMAIN sofar.pages # {}
      BY <1>2, PagesLeft DEF UpdatedFrom
    <3>2. PICK p, page, r : /\ Took(sofar, i, h, p, page, r)
                            /\ after = Placed(sofar, i, h, throws, p, page, r)
      BY <2>3, <3>1, AllocatedPlaced
    <3>3. PlacedAs(sofar, after, i, h, throws, p, page, r)
      BY <3>2, PlacedChanges DEF Updatable
    <3> QED BY <1>2, <3>2, <3>3, PlacedKeeps
  <2>4. \/ after = Got(sofar, i, "idle") \/ after = Got(sofar, i, "failed")
        \/ after = Allocated(sofar, i, h, throws)
    BY DEF UpdateOne, Got
  <2> HIDE DEF after
  <2> QED BY <2>1, <2>2, <2>3, <2>4
<1> QED BY <1>1, <1>2

-----------------------------------------------------------------------------
(* update() *)

LEMMA UpdateTurnsKeep ==
  ASSUME IInv, NEW h, NEW chosen, Updatable(h, chosen), NEW throwing
  PROVE  LET after == UpdateTurns(h, chosen, throwing)[Images]
         IN  after \in UpdateType /\ UpdatedFrom(Images, h, chosen, after)
<1> DEFINE before == [records |-> records, pages |-> pages,
                      uploads |-> recorded[h].uploads]
           One(x, i) == Turned(x, i, h, chosen, throwing)
           I == [n \in 0 .. Images |->
                   {x \in UpdateType : UpdatedFrom(n, h, chosen, x)}]
           step == [x \in UpdateType \X Nat |-> One(x[1], x[2])]
           Eq(f) == f = [i \in 0 .. Images |->
                           IF i = 0 THEN before ELSE One(f[i - 1], i)]
           turn == UpdateTurns(h, chosen, throwing)
<1>1. Images \in Nat
  BY AssetAssumption
<1>2. before \in I[0]
  <2>1. before \in UpdateType
    <3>1. recorded[h].uploads = {} /\ records \in [Asset -> RecordType]
      BY DEF Updatable, Nothing, IInv, TypeOK, RecordsType
    <3>2. pages \in UNION {[D -> PageType] : D \in SUBSET Page}
      BY DEF IInv, TypeOK, PagesType
    <3> QED BY <3>1, <3>2 DEF UpdateType
  <2>2. /\ before.records = records /\ before.pages = pages /\ before.uploads = {}
    BY DEF Updatable, Nothing
  <2> HIDE DEF before
  <2>3. UpdatedRecords(0, h, chosen, before)
    <3> SUFFICES ASSUME NEW a \in Asset
                 PROVE  ~(a \in chosen /\ a <= 0)
      BY <2>2 DEF UpdatedRecords
    <3>1. a \in chosen => a \in Image /\ a >= 1 /\ a \in Nat
      BY ImageNumbers DEF Updatable
    <3> QED BY <3>1
  <2>4. RegionsOf(before)
    BY <2>2 DEF IInv, RegionsHeldOnce, RegionsOf
  <2>5. UpdatedPages(0, chosen, before)
    <3>1. DOMAIN pages \in SUBSET Page
      BY DEF IInv, TypeOK, PagesType
    <3>2. IsFiniteSet(Page)
      BY AssetAssumption, FS_Interval DEF Page
    <3>3. Cardinality(DOMAIN pages) \in Nat
      BY <3>1, <3>2, FS_Subset, FS_CardinalityType
    <3>4. chosen \cap 1 .. 0 = {}
      OBVIOUS
    <3>5. Cardinality(chosen \cap 1 .. 0) = 0
      BY <3>4, FS_EmptySet
    <3> QED BY <2>2, <3>3, <3>5 DEF UpdatedPages
  <2>6. UpdatedUploads(0, h, chosen, before)
    BY <2>2 DEF UpdatedUploads
  <2>7. UpdatedFrom(0, h, chosen, before)
    BY <2>3, <2>4, <2>5, <2>6 DEF UpdatedFrom
  <2>8. I[0] = {x \in UpdateType : UpdatedFrom(0, h, chosen, x)}
    BY <1>1
  <2> HIDE DEF I
  <2> QED BY <2>1, <2>7, <2>8
<1>3. ASSUME NEW n \in 1 .. Images, NEW x \in I[n - 1]
      PROVE  x \in UpdateType /\ One(x, n) \in I[n]
  <2>1. n \in Image /\ n - 1 \in 0 .. Images /\ n \in 0 .. Images
    BY <1>1 DEF Image
  <2>2. x \in UpdateType /\ UpdatedFrom(n - 1, h, chosen, x)
    BY <2>1
  <2>3. One(x, n) \in UpdateType /\ UpdatedFrom(n, h, chosen, One(x, n))
    BY <2>1, <2>2, UpdateOneKeeps
  <2> HIDE DEF One
  <2> QED BY <2>1, <2>2, <2>3
<1>4. \A n \in 1 .. Images : \A x \in I[n - 1] :
        step[<<x, n>>] = One(x, n) /\ step[<<x, n>>] \in I[n]
  <2> SUFFICES ASSUME NEW n \in 1 .. Images, NEW x \in I[n - 1]
               PROVE  step[<<x, n>>] = One(x, n) /\ step[<<x, n>>] \in I[n]
    OBVIOUS
  <2>1. <<x, n>> \in UpdateType \X Nat
    BY <1>1, <1>3
  <2> HIDE DEF I, One
  <2>2. step[<<x, n>>] = One(x, n)
    BY <2>1
  <2> HIDE DEF step
  <2> QED BY <1>3, <2>2
<1>5. PICK f : Recurs(f, Images, before, step)
  <2> HIDE DEF before, step, I
  <2> QED BY <1>1, <1>2, <1>4, RecursionWithin
<1>6. Eq(f)
  <2> HIDE DEF before, step, I, One
  <2>1. \A n \in 0 .. Images : f[n] \in I[n]
    BY <1>1, <1>2, <1>4, <1>5, RecursionStays
  <2>2. ASSUME NEW n \in 0 .. Images, n # 0
        PROVE  step[<<f[n - 1], n>>] = One(f[n - 1], n)
    <3>1. n \in 1 .. Images /\ n - 1 \in 0 .. Images
      BY <1>1, <2>2
    <3> QED BY <1>4, <2>1, <3>1
  <2> QED BY <1>5, <2>2 DEF Recurs
<1>7. turn = CHOOSE f_1 : Eq(f_1)
  BY DEF UpdateTurns, Turned
<1>8. Eq(turn)
  <2> HIDE DEF Eq, turn
  <2> QED BY <1>6, <1>7
<1> DEFINE T == {n \in 0 .. Images : turn[n] \in I[n]}
<1> HIDE DEF turn, before, One, I
<1>9. 0 \in T
  BY <1>1, <1>2, <1>8
<1>10. ASSUME NEW n \in 0 .. Images - 1, n \in T PROVE n + 1 \in T
  <2>1. n + 1 \in 1 .. Images /\ (n + 1) - 1 = n /\ n + 1 # 0
    BY <1>1
  <2>2. turn[n + 1] = One(turn[n], n + 1)
    BY <1>1, <1>8, <2>1
  <2>3. turn[n] \in I[(n + 1) - 1]
    BY <1>10, <2>1
  <2>4. One(turn[n], n + 1) \in I[n + 1]
    BY <1>3, <2>1, <2>3
  <2> QED BY <1>1, <2>1, <2>2, <2>4
<1>11. 0 .. Images \subseteq T
  <2> HIDE DEF T
  <2> QED BY <1>1, <1>9, <1>10, IntervalInduction
<1>12. turn[Images] \in I[Images] /\ Images \in 0 .. Images
  BY <1>1, <1>11
<1> QED BY <1>12 DEF I, turn

UpdatesTo(h, chosen, after) ==
  /\ after \in UpdateType /\ UpdatedFrom(Images, h, chosen, after)
  /\ records' = after.records /\ pages' = after.pages
  /\ recorded' = [recorded EXCEPT ![h].uploads = after.uploads]
  /\ lost' = lost \ {u.image : u \in after.uploads}

(* Nobody else's uploads change when update() fills command buffer h.      *)
LEMMA UpdatedRest ==
  ASSUME IInv, NEW h, NEW chosen, Updatable(h, chosen),
         NEW after, UpdatesTo(h, chosen, after)
  PROVE  /\ RecordsType' /\ PagesType' /\ RecordsCoherent' /\ RegionsHeldOnce'
         /\ recorded' \in [Commands -> Batch] /\ lost' \subseteq Image
         /\ \A a \in Asset : /\ records'[a].demand = records[a].demand
                             /\ records'[a].uploaded = records[a].uploaded
                             /\ a \notin chosen => records'[a] = records[a]
         /\ \A k \in Commands \ {h} : recorded'[k] = recorded[k]
         /\ \A k \in Commands : recorded'[k].reads = recorded[k].reads
         /\ recorded'[h].uploads = after.uploads /\ recorded[h].uploads = {}
<1>1. /\ h \in Commands /\ recorded[h] = Nothing /\ chosen \subseteq Image
      /\ recorded \in [Commands -> Batch]
  BY DEF Updatable, IInv, TypeOK, GpuType
<1>2. RecordsType'
  BY DEF UpdatesTo, UpdateType, RecordsType
<1>3. PagesType'
  BY DEF UpdatesTo, UpdateType, PagesType
<1>4. /\ \A k \in Commands \ {h} : recorded'[k] = recorded[k]
      /\ recorded'[h].uploads = after.uploads
      /\ recorded'[h].reads = recorded[h].reads /\ recorded[h].uploads = {}
      /\ recorded' \in [Commands -> Batch]
  <2> DEFINE new == [recorded[h] EXCEPT !.uploads = after.uploads]
  <2>1. recorded' = [recorded EXCEPT ![h] = new]
    BY DEF UpdatesTo
  <2>2. after.uploads \in SUBSET Upload
    BY DEF UpdatesTo, UpdateType
  <2>3. /\ new \in Batch /\ new.uploads = after.uploads
        /\ new.reads = recorded[h].reads
    BY <1>1, <2>2 DEF Batch
  <2> HIDE DEF new
  <2>4. recorded[h].uploads = {}
    BY <1>1 DEF Nothing
  <2> QED BY <1>1, <2>1, <2>3, <2>4
<1>5. \A a \in Asset : a \notin chosen => records'[a] = records[a]
  BY DEF UpdatesTo, UpdatedFrom, UpdatedRecords
<1>6. \A a \in chosen :
        RecordTurned(a, records[a], records'[a], h, after.uploads)
  <2> SUFFICES ASSUME NEW a \in chosen
               PROVE  RecordTurned(a, records[a], after.records[a], h, after.uploads)
    BY DEF UpdatesTo
  <2>1. a \in Asset /\ a <= Images
    BY <1>1, ImageNumbers
  <2> QED BY <2>1 DEF UpdatesTo, UpdatedFrom, UpdatedRecords
<1>7. ASSUME NEW a \in Asset
      PROVE  /\ records'[a].demand = records[a].demand
             /\ records'[a].uploaded = records[a].uploaded
             /\ Coherent(a, records'[a])
  <2>1. CASE a \in chosen
    BY <2>1, <1>6 DEF RecordTurned
  <2>2. CASE a \notin chosen
    BY <2>2, <1>5 DEF IInv, RecordsCoherent
  <2> QED BY <2>1, <2>2
<1>8. RegionsHeldOnce'
  <2>1. RegionsOf(after) /\ records' = after.records /\ pages' = after.pages
    BY DEF UpdatesTo, UpdatedFrom
  <2> QED BY <2>1 DEF RegionsOf, RegionsHeldOnce
<1>9. lost' \subseteq Image
  BY DEF UpdatesTo, IInv, TypeOK, GpuType
<1> QED BY <1>2, <1>3, <1>4, <1>5, <1>7, <1>8, <1>9 DEF RecordsCoherent

LEMMA UpdatedContents ==
  ASSUME IInv, NEW h, NEW chosen, Updatable(h, chosen),
         NEW after, UpdatesTo(h, chosen, after),
         UNCHANGED flight, PendingSame
  PROVE  ContentsArrive'
<1>1. /\ \A a \in Asset : /\ records'[a].uploaded = records[a].uploaded
                          /\ a \notin chosen => records'[a] = records[a]
      /\ \A k \in Commands \ {h} : recorded'[k] = recorded[k]
      /\ recorded'[h].uploads = after.uploads /\ recorded[h].uploads = {}
  BY UpdatedRest
<1> SUFFICES ASSUME NEW i \in Image, i \notin lost'
             PROVE  /\ records'[i].status = "ready" => Holds(records[i].place, i)'
                    /\ records'[i].uploaded # 0 => Arrives(i, records[i].uploaded)'
                    /\ records'[i].commands # none =>
                         \/ [image |-> i, place |-> records'[i].place]
                              \in recorded'[records'[i].commands].uploads
                         \/ \E t \in Timepoint :
                              Pending(records[i].commands, t)' /\ Arrives(i, t)'
  BY DEF ContentsArrive
<1>2. i \in Asset /\ i <= Images
  BY ImageNumbers
<1>3. CASE i \in chosen
  <2>1. RecordTurned(i, records[i], records'[i], h, after.uploads)
    BY <1>2, <1>3 DEF UpdatesTo, UpdatedFrom, UpdatedRecords
  <2>2. records[i].uploaded = 0
    BY <1>3, ChosenRecord
  <2> QED BY <1>1, <2>1, <2>2 DEF RecordTurned
<1>4. CASE i \notin chosen
  <2>1. records'[i] = records[i] /\ Coherent(i, records[i])
        /\ records[i].commands \in Commands \cup {none}
    BY <1>1, <1>2, <1>4 DEF IInv, RecordsCoherent, TypeOK, RecordsType, RecordType
  <2>2. i \notin lost
    <3>1. \A u \in after.uploads : u.image # i
      BY <1>4 DEF UpdatesTo, UpdatedFrom, UpdatedUploads
    <3> QED BY <3>1 DEF UpdatesTo
  <2>3. /\ records[i].status = "ready" => Holds(records[i].place, i)
        /\ records[i].uploaded # 0 => Arrives(i, records[i].uploaded)
        /\ records[i].commands # none =>
             \/ [image |-> i, place |-> records[i].place]
                  \in recorded[records[i].commands].uploads
             \/ \E t \in Timepoint :
                  Pending(records[i].commands, t) /\ Arrives(i, t)
    BY <2>2 DEF IInv, ContentsArrive
  <2>4. ASSUME \/ records[i].status = "ready" \/ records[i].uploaded # 0
               \/ records[i].commands # none
        PROVE  /\ Holds(records[i].place, i) => Holds(records[i].place, i)'
               /\ \A t : Arrives(i, t) => Arrives(i, t)'
    <3>1. records[i].place # <<>>
      BY <2>1, <2>4 DEF Coherent, OnItsWay
    <3>2. records[i].place[1] \in DOMAIN pages
      BY <3>1 DEF IInv, RegionsHeldOnce
    <3>3. pages'[records[i].place[1]].contents = pages[records[i].place[1]].contents
      BY <3>2 DEF UpdatesTo, UpdatedFrom, UpdatedPages
    <3> QED BY <2>1, <3>3 DEF Holds, Arrives
  <2>5. records[i].status = "ready" => Holds(records[i].place, i)'
    BY <2>3, <2>4
  <2>6. records[i].uploaded # 0 => Arrives(i, records[i].uploaded)'
    <3> SUFFICES ASSUME records[i].uploaded # 0
                 PROVE  Arrives(i, records[i].uploaded)'
      OBVIOUS
    <3> DEFINE t == records[i].uploaded
    <3>1. Arrives(i, t) => Arrives(i, t)'
      <4> HIDE DEF t
      <4>1. records[i].uploaded # 0
        OBVIOUS
      <4>2. pages'[records[i].place[1]].contents
              = pages[records[i].place[1]].contents
        <5>1. records[i].place # <<>>
          BY <2>1, <4>1 DEF Coherent, OnItsWay
        <5>2. records[i].place[1] \in DOMAIN pages
          BY <5>1 DEF IInv, RegionsHeldOnce
        <5> QED BY <5>2 DEF UpdatesTo, UpdatedFrom, UpdatedPages
      <4>3. t' = t
        BY <1>1, <1>2 DEF t
      <4> QED BY <2>1, <4>2, <4>3 DEF Arrives, Holds
    <3> QED BY <2>3, <3>1
  <2>7. ASSUME records[i].commands # none
        PROVE  \/ [image |-> i, place |-> records'[i].place]
                    \in recorded'[records'[i].commands].uploads
               \/ \E t \in Timepoint :
                    Pending(records[i].commands, t)' /\ Arrives(i, t)'
    <3>1. records[i].commands \in Commands
      BY <2>1, <2>7
    <3>2. CASE [image |-> i, place |-> records[i].place]
                 \in recorded[records[i].commands].uploads
      <4>1. records[i].commands # h
        BY <1>1, <3>2
      <4> QED BY <1>1, <2>1, <3>1, <3>2, <4>1
    <3>3. CASE \E t \in Timepoint :
                 Pending(records[i].commands, t) /\ Arrives(i, t)
      <4>1. PICK t \in Timepoint :
              Pending(records[i].commands, t) /\ Arrives(i, t)
        BY <3>3
      <4>2. Pending(records[i].commands, t)'
        BY <2>1, <3>1, <4>1 DEF PendingSame
      <4>3. Arrives(i, t)'
        BY <2>4, <2>7, <4>1
      <4> QED BY <4>2, <4>3
    <3> QED BY <2>3, <2>7, <3>2, <3>3
  <2> QED BY <2>1, <2>5, <2>6, <2>7
<1> QED BY <1>3, <1>4

LEMMA UpdatingStep ==
  ASSUME IInv, NEW h, NEW maximum, Updating(h, maximum),
         h \in Commands, recorded[h] = Nothing,
         \A t \in Timepoint : ~Pending(h, t),
         UNCHANGED <<manager, submissions, groups, flight>>,
         CallType', FrameType', StepsCoherent', PendingSame, Filling(h)',
         \A k \in Commands \ {h} : Filling(k) => Filling(k)'
  PROVE  IInv'
<1> DEFINE chosen == Chosen(maximum)
<1>1. PICK throwing :
        LET after == UpdateTurns(h, chosen, throwing)[Images]
        IN  /\ records' = after.records
            /\ pages' = after.pages
            /\ recorded' = [recorded EXCEPT ![h].uploads = after.uploads]
            /\ lost' = lost \ {u.image : u \in after.uploads}
  BY DEF Updating
<1>2. Cardinality(DOMAIN pages) + Cardinality(chosen) <= MaxPages
  BY DEF Updating
<1>3. Updatable(h, chosen)
  BY <1>2 DEF Updatable, Chosen
<1> HIDE DEF chosen
<1> DEFINE after == UpdateTurns(h, chosen, throwing)[Images]
<1>4. UpdatesTo(h, chosen, after)
  <2>1. after \in UpdateType /\ UpdatedFrom(Images, h, chosen, after)
    BY <1>3, UpdateTurnsKeep
  <2>2. /\ records' = after.records /\ pages' = after.pages
        /\ recorded' = [recorded EXCEPT ![h].uploads = after.uploads]
        /\ lost' = lost \ {u.image : u \in after.uploads}
    BY <1>1
  <2> HIDE DEF after
  <2> QED BY <2>1, <2>2 DEF UpdatesTo
<1> HIDE DEF after
<1>5. /\ RecordsType' /\ PagesType' /\ RecordsCoherent' /\ RegionsHeldOnce'
      /\ recorded' \in [Commands -> Batch] /\ lost' \subseteq Image
      /\ \A a \in Asset : /\ records'[a].demand = records[a].demand
                          /\ records'[a].uploaded = records[a].uploaded
                          /\ a \notin chosen => records'[a] = records[a]
      /\ \A k \in Commands \ {h} : recorded'[k] = recorded[k]
      /\ \A k \in Commands : recorded'[k].reads = recorded[k].reads
      /\ recorded'[h].uploads = after.uploads /\ recorded[h].uploads = {}
  BY <1>3, <1>4, UpdatedRest
<1>6. UNCHANGED <<workers, generation, added, submissions, groups, flight>>
  BY DEF manager
<1>7. GpuType' /\ ManagerType' /\ GroupsType'
  BY <1>5, <1>6 DEF IInv, TypeOK, GpuType, ManagerType, GroupsType
<1>8. \A a \in chosen : /\ a \in Image /\ a \in Asset /\ a \in added
                        /\ records[a].status = "loading"
                        /\ records[a].commands = none /\ records[a].uploaded = 0
  BY <1>3, ChosenRecord
<1>9. IdentifiersKnown' /\ DemandCounted' /\ CompletedStaysReady'
  <2>1. \A a \in Asset \ added : records'[a] = records[a]
    BY <1>5, <1>8
  <2>2. \A a \in added : records[a].status = "ready" /\ records[a].demand # 0
                            => records'[a].status = "ready"
    BY <1>5, <1>8 DEF IInv, TypeOK, ManagerType
  <2> QED BY <1>5, <1>6, <2>1, <2>2, GroupsStep
<1>10. BuffersInUse'
  <2>1. \A k \in Commands, t \in Timepoint : Pending(k, t)' =>
          /\ recorded'[k].uploads = {} /\ t \notin submissions'
          /\ \A i \in Image : records'[i].uploaded # t
          /\ \A l \in Commands \ {k} : ~Pending(l, t)'
    <3> SUFFICES ASSUME NEW k \in Commands, NEW t \in Timepoint, Pending(k, t)'
                 PROVE  /\ recorded'[k].uploads = {} /\ t \notin submissions'
                        /\ \A i \in Image : records'[i].uploaded # t
                        /\ \A l \in Commands \ {k} : ~Pending(l, t)'
      OBVIOUS
    <3>1. Pending(k, t) /\ k # h
      BY DEF PendingSame
    <3>2. /\ recorded[k].uploads = {} /\ t \notin submissions
          /\ \A i \in Image : records[i].uploaded # t
          /\ \A l \in Commands \ {k} : ~Pending(l, t)
      BY <3>1 DEF IInv, BuffersInUse
    <3>3. \A l \in Commands \ {k} : ~Pending(l, t)'
      BY <3>2 DEF PendingSame
    <3>4. \A i \in Image : records'[i].uploaded # t
      BY <1>5, <3>2, ImageNumbers
    <3> QED BY <1>5, <1>6, <3>1, <3>2, <3>3, <3>4
  <2>2. \A k \in Commands : recorded'[k] # Nothing =>
          Filling(k)' \/ \E t \in Timepoint : Pending(k, t)'
    BY <1>5 DEF IInv, BuffersInUse, PendingSame
  <2>3. \A t \in DOMAIN flight' :
          t \in submissions' \/ \E k \in Commands : Pending(k, t)'
    BY <1>6 DEF IInv, BuffersInUse, PendingSame, TypeOK, GpuType
  <2> QED BY <2>1, <2>2, <2>3 DEF BuffersInUse
<1>11. UploadsAccounted'
  <2>1. ASSUME NEW k \in Commands, NEW u \in recorded'[k].uploads
        PROVE  records'[u.image].place = u.place /\ records'[u.image].commands = k
    <3>1. CASE k = h
      BY <3>1, <1>4, <1>5 DEF UpdatesTo, UpdatedFrom, UpdatedUploads
    <3>2. CASE k # h
      <4>1. u \in recorded[k].uploads
        BY <3>2, <1>5
      <4>2. /\ u.image \in Image /\ records[u.image].place = u.place
            /\ records[u.image].commands = k
        BY <4>1 DEF IInv, TypeOK, GpuType, Batch, Upload, UploadsAccounted
      <4>3. u.image \notin chosen /\ u.image \in Asset
        BY <4>2, <1>8, ImageNumbers, AssetAssumption
      <4> QED BY <4>2, <4>3, <1>5
    <3> QED BY <3>1, <3>2
  <2>2. ASSUME NEW t \in DOMAIN flight', NEW u \in flight'[t].uploads
        PROVE  /\ records'[u.image].place = u.place
               /\ \/ records'[u.image].uploaded = t
                  \/ Pending(records[u.image].commands, t)'
    <3>1. t \in DOMAIN flight /\ t \in Timepoint /\ u \in flight[t].uploads
      BY <1>6 DEF IInv, TypeOK, GpuType
    <3>2. /\ u.image \in Image /\ u.image \in Asset
          /\ records[u.image].place = u.place
      BY <3>1, UploadLands, ImageNumbers
    <3>3. \/ records[u.image].uploaded = t
          \/ Pending(records[u.image].commands, t)
      BY <3>1 DEF IInv, UploadsAccounted
    <3>4. t # 0 /\ ~Pending(none, t)
      BY <3>1, NoneNotPending, AssetAssumption DEF Timepoint
    <3>5. u.image \notin chosen
      BY <3>3, <3>4, <1>8
    <3>6. records'[u.image] = records[u.image]
      BY <3>2, <3>5, <1>5
    <3>7. records[u.image].commands \in Commands \cup {none}
      BY <3>2 DEF IInv, TypeOK, RecordsType, RecordType
    <3> QED BY <3>1, <3>2, <3>3, <3>6, <3>7 DEF PendingSame
  <2> QED BY <2>1, <2>2 DEF UploadsAccounted
<1>12. WritersApart'
  <2>1. \A p : Writing(recorded'[h], p) => Apart(h, p)
    BY <1>4, <1>5 DEF Writing, UpdatesTo, UpdatedFrom, UpdatedUploads
  <2>2. \A k \in Commands \ {h} : recorded'[k] = recorded[k]
    BY <1>5
  <2>3. flight' = flight
    BY <1>6
  <2>4. ASSUME NEW p \in Page, NEW k \in Commands, NEW l \in Commands,
               Writing(recorded'[k], p), Writing(recorded'[l], p)
        PROVE  k = l
    <3>1. CASE k = h \/ l = h
      BY <3>1, <2>1, <2>2, <2>4 DEF Apart
    <3>2. CASE k # h /\ l # h
      BY <3>2, <2>2, <2>4 DEF IInv, WritersApart
    <3> QED BY <3>1, <3>2
  <2>5. ASSUME NEW p \in Page, NEW k \in Commands, NEW t \in DOMAIN flight,
               Writing(recorded'[k], p)
        PROVE  ~Writing(flight[t], p)
    <3>1. CASE k = h
      BY <3>1, <2>1, <2>5 DEF Apart
    <3>2. CASE k # h
      BY <3>2, <2>2, <2>5 DEF IInv, WritersApart
    <3> QED BY <3>1, <3>2
  <2>6. \A p \in Page : \A t, u \in DOMAIN flight :
          Writing(flight[t], p) /\ Writing(flight[u], p) => t = u
    BY DEF IInv, WritersApart
  <2> QED BY <2>3, <2>4, <2>5, <2>6 DEF WritersApart
<1>13. ReadsAccounted'
  <2>1. \A k \in Commands : \A r \in recorded'[k].reads :
          Identifier(r.asset) \in groups'[r.group].demands
    BY <1>5, <1>6 DEF IInv, ReadsAccounted
  <2>2. \A a \in Asset : Guarded(a) => records'[a] = records[a]
    BY <1>5, <1>8 DEF Guarded
  <2>3. \A a \in Asset : Guarded(a) =>
           /\ records'[a].status = "ready" /\ records'[a].place = records[a].place
           /\ \A t \in submissions :
                records[a].demand # 0 \/ t \in records[a].retirement
                => records'[a].demand # 0 \/ t \in records'[a].retirement
    BY <2>2 DEF Guarded
  <2> QED BY <1>5, <1>6, <2>1, <2>3, ReadsStep
<1>14. ContentsArrive'
  BY <1>3, <1>4, UpdatedContents
<1> QED BY <1>5, <1>7, <1>9, <1>10, <1>11, <1>12, <1>13, <1>14 DEF IInv, TypeOK

LEMMA UpdateFrameKeeps ==
  ASSUME IInv, UpdateFrame
  PROVE  IInv'
<1>0. PICK h : h = frame.commands
  OBVIOUS
<1>1. /\ frame.step = "collected" /\ Updating(h, 1)
      /\ frame' = [frame EXCEPT !.step = "recording"]
      /\ UNCHANGED <<manager, submissions, groups, call, flight>>
  BY <1>0 DEF UpdateFrame
<1>2. /\ h \in Commands /\ h # none /\ \A g \in Group : call[g].commands # h
      /\ FrameType' /\ frame'.commands = h /\ frame'.step = "recording"
  BY <1>0, <1>1, AssetAssumption DEF IInv, TypeOK, FrameType, StepsCoherent
<1>3. \A t \in Timepoint : ~Pending(h, t)
  BY <1>0, <1>1, <1>2 DEF Pending
<1>4. recorded[h] = Nothing
  BY <1>0, <1>1, <1>2, <1>3 DEF IInv, BuffersInUse, Filling
<1>5. CallType' /\ StepsCoherent' /\ PendingSame
  BY <1>0, <1>1, <1>2 DEF IInv, TypeOK, CallType, StepsCoherent, PendingSame, Pending
<1>6. /\ Filling(h)'
      /\ \A k \in Commands \ {h} : Filling(k) => Filling(k)'
  BY <1>1, <1>2 DEF Filling
<1> QED BY <1>1, <1>2, <1>3, <1>4, <1>5, <1>6, UpdatingStep

LEMMA PrepareUpdateKeeps ==
  ASSUME IInv, NEW g \in Group, PrepareUpdate(g)
  PROVE  IInv'
<1>0. PICK c : c = call[g].commands
  OBVIOUS
<1>1. /\ call[g].step = "record" /\ Updating(c, 16) /\ Goto(g, "submit")
      /\ UNCHANGED <<manager, submissions, groups, frame, flight>>
  BY <1>0 DEF PrepareUpdate
<1>2. /\ c \in Commands /\ c # none /\ c # frame.commands /\ g \in Preparing
      /\ \A k \in Group \ {g} : call[k].commands # c
  BY <1>0, <1>1, BufferOwned DEF InLoop
<1>3. /\ CallType' /\ call'[g].step = "submit" /\ call'[g].commands = c
      /\ \A k \in Group \ {g} : call'[k] = call[k]
  <2>1. "submit" \in CallStep
    BY DEF CallStep
  <2> QED BY <1>0, <1>1, <2>1 DEF IInv, TypeOK, CallType, Goto
<1>4. \A t \in Timepoint : ~Pending(c, t)
  BY <1>0, <1>1, <1>2 DEF Pending
<1>5. recorded[c] = Nothing
  BY <1>0, <1>1, <1>2, <1>4 DEF IInv, BuffersInUse, Filling
<1>6. FrameType'
  BY <1>1 DEF IInv, TypeOK, FrameType
<1>7. StepsCoherent'
  BY <1>0, <1>1, <1>2, <1>3 DEF IInv, StepsCoherent
<1>8. PendingSame
  BY <1>0, <1>1, <1>2, <1>3 DEF PendingSame, Pending
<1>9. Filling(c)'
  BY <1>3 DEF Filling
<1>10. \A k \in Commands \ {c} : Filling(k) => Filling(k)'
  BY <1>0, <1>1, <1>2, <1>3 DEF Filling
<1> QED BY <1>1, <1>2, <1>3, <1>4, <1>5, <1>6, <1>7, <1>8, <1>9,
           <1>10, UpdatingStep

(* An exception leaves prepare().                                          *)
LEMMA PrepareThrowKeeps ==
  ASSUME IInv, NEW g \in Group, PrepareThrow(g)
  PROVE  IInv'
<1> DEFINE c == call[g].commands
<1>1. /\ call[g].step \in {"update", "submit", "wait"}
      /\ groups' = [groups EXCEPT ![g].progress = "none"]
      /\ Destroy(c) /\ Return(g)
      /\ UNCHANGED <<records, pages, submissions, frame, flight>>
      /\ UNCHANGED <<manager, workers, generation, added>>
  BY DEF PrepareThrow, manager
<1>2. /\ c \in Commands /\ c # none /\ c # frame.commands
      /\ \A k \in Group \ {g} : call[k].commands # c
  BY <1>1, BufferOwned DEF InLoop
<1>3. /\ CallType' /\ call'[g] = NoCall
      /\ \A k \in Group \ {g} : call'[k] = call[k]
  BY <1>1, ReturnMoves
<1>4. StepsCoherent'
  <2>1. frame.commands # none
    BY AssetAssumption DEF IInv, TypeOK, FrameType
  <2> QED BY <1>1, <1>3, <2>1 DEF IInv, StepsCoherent, NoCall, InLoop
<1>5. PendingSame /\ \A t \in Timepoint : ~Pending(c, t)
  BY <1>1, <1>2, <1>3 DEF PendingSame, Pending, NoCall
<1>6. \A x \in Commands \ {c} : Filling(x) => Filling(x)'
  BY <1>1, <1>2, <1>3 DEF Filling
<1>7. /\ GpuType' /\ UploadsKeptOrLost /\ ReadsKeptOrDropped /\ BuffersStillUsed
  <2> HIDE DEF c
  <2> QED BY <1>1, <1>2, <1>5, <1>6, DestroyKeeps
<1>8. RecordsType' /\ \A a \in Asset : RecordKept(a, records[a], records'[a])
  BY <1>1, RecordsSame
<1>9. /\ GroupsType' /\ \A k \in Group \ {g} : groups'[k] = groups[k]
      /\ groups'[g].demands = groups[g].demands
      /\ groups'[g].completed = groups[g].completed
      /\ groups'[g].status = groups[g].status
      /\ groups'[g].images = groups[g].images
      /\ groups'[g].shaders = groups[g].shaders
  BY <1>1 DEF IInv, TypeOK, GroupsType, GroupType
<1>10. \A k \in Group : groups'[k].demands = groups[k].demands
  BY <1>9
<1>11. ReadsDemanded
  <2> SUFFICES ASSUME NEW h \in Commands, NEW r \in recorded'[h].reads
               PROVE  Identifier(r.asset) \in groups'[r.group].demands
    BY DEF ReadsDemanded
  <2>1. r \in recorded[h].reads
    BY <1>7 DEF ReadsKeptOrDropped
  <2>2. r.group \in Group
    BY <2>1 DEF IInv, TypeOK, GpuType, Batch, Read
  <2> QED BY <1>10, <2>1, <2>2 DEF IInv, ReadsAccounted
<1>12. /\ RecordsCoherent' /\ RegionsHeldOnce' /\ UploadsAccounted'
       /\ WritersApart' /\ ContentsArrive' /\ BuffersInUse' /\ ReadsAccounted'
  BY <1>1, <1>5, <1>7, <1>8, <1>11, QuietStep
<1>13. IdentifiersKnown' /\ CompletedStaysReady'
  <2>1. HeldBy(g)' = HeldBy(g)
    BY <1>9 DEF HeldBy, Declared
  <2> QED BY <1>1, <1>8, <1>9, <2>1, GroupStep DEF IInv, CompletedStaysReady
<1>14. DemandCounted'
  BY <1>1, <1>10 DEF IInv, DemandCounted, Identifier
<1>15. ManagerType' /\ PagesType' /\ FrameType'
  BY <1>1 DEF IInv, TypeOK, ManagerType, PagesType, FrameType
<1> QED BY <1>3, <1>4, <1>7, <1>8, <1>9, <1>12, <1>13, <1>14, <1>15 DEF IInv, TypeOK

-----------------------------------------------------------------------------
(* The invariant of the whole system *)

LEMMA StutterKeeps ==
  ASSUME IInv, UNCHANGED vars
  PROVE  IInv'
<1>1. /\ UNCHANGED <<workers, generation, added, records, pages, submissions>>
      /\ UNCHANGED <<groups, call, frame, recorded, flight, lost>>
  BY DEF vars
<1>2. TypeOK'
  BY <1>1 DEF IInv, TypeOK, ManagerType, RecordsType, PagesType, GroupsType,
              CallType, FrameType, GpuType
<1>3. IdentifiersKnown' /\ DemandCounted' /\ RecordsCoherent' /\ CompletedStaysReady'
  BY <1>1 DEF IInv, IdentifiersKnown, HeldBy, Declared, DemandCounted, Identifier,
              RecordsCoherent, CompletedStaysReady, Found
<1>4. RegionsHeldOnce' /\ StepsCoherent' /\ BuffersInUse'
  BY <1>1 DEF IInv, RegionsHeldOnce, StepsCoherent, BuffersInUse, Filling, Pending
<1>5. UploadsAccounted' /\ WritersApart'
  BY <1>1 DEF IInv, UploadsAccounted, WritersApart, Pending, Writing
<1>6. ReadsAccounted'
  BY <1>1 DEF IInv, ReadsAccounted, Pending, Identifier
<1>7. ContentsArrive'
  BY <1>1 DEF IInv, ContentsArrive, Arrives, Holds, Pending
<1> QED BY <1>2, <1>3, <1>4, <1>5, <1>6, <1>7 DEF IInv

LEMMA GroupKeeps ==
  ASSUME IInv, NEW g \in Group, GroupNext(g)
  PROVE  IInv'
<1>1. CASE Load(g)
  BY <1>1, LoadKeeps
<1>2. CASE Cancel(g)
  BY <1>2, CancelKeeps
<1>3. CASE Unload(g)
  BY <1>3, UnloadKeeps
<1>4. CASE PollCollect(g)
  BY <1>4, PollCollectKeeps
<1>5. CASE PollRecords(g)
  BY <1>5, PollRecordsKeeps
<1>6. CASE Prepare(g)
  BY <1>6, PrepareKeeps
<1>7. CASE PrepareCollect(g) \/ PrepareUpdateCollect(g) \/ PrepareWait(g)
  BY <1>7, PrepareCollectKeeps
<1>8. CASE PrepareLook(g)
  BY <1>8, PrepareLookKeeps
<1>9. CASE PrepareUpdate(g)
  BY <1>9, PrepareUpdateKeeps
<1>10. CASE PrepareSubmit(g)
  BY <1>10, PrepareSubmitKeeps
<1>11. CASE PrepareSubmitted(g)
  BY <1>11, PrepareSubmittedKeeps
<1>12. CASE PrepareThrow(g)
  BY <1>12, PrepareThrowKeeps
<1>13. ASSUME NEW a \in Asset, Include(g, a) PROVE IInv'
  BY <1>13, IncludeKeeps
<1>14. ASSUME NEW a \in Asset, Draw(g, a) PROVE IInv'
  BY <1>14, DrawKeeps
<1> QED BY <1>1, <1>2, <1>3, <1>4, <1>5, <1>6, <1>7, <1>8, <1>9, <1>10, <1>11,
           <1>12, <1>13, <1>14 DEF GroupNext, PrepareStep

LEMMA NextKeeps ==
  ASSUME IInv, [Next]_vars
  PROVE  IInv'
<1>1. CASE Start
  BY <1>1, StartKeeps
<1>2. CASE Exit
  BY <1>2, ExitKeeps
<1>3. ASSUME NEW a \in Asset, Add(a) PROVE IInv'
  BY <1>3, AddKeeps
<1>4. ASSUME NEW g \in Group, GroupNext(g) PROVE IInv'
  BY <1>4, GroupKeeps
<1>5. CASE BeginFrame
  BY <1>5, BeginFrameKeeps
<1>6. CASE UpdateFrame
  BY <1>6, UpdateFrameKeeps
<1>7. CASE EndFrame
  BY <1>7, EndFrameKeeps
<1>8. CASE FrameSubmitted
  BY <1>8, FrameSubmittedKeeps
<1>9. CASE SkipFrame
  BY <1>9, SkipFrameKeeps
<1>10. ASSUME NEW i \in Image, Decode(i) PROVE IInv'
  BY <1>10, DecodeKeeps
<1>11. ASSUME NEW t \in Timepoint, Finish(t) PROVE IInv'
  BY <1>11, FinishKeeps
<1>12. CASE UNCHANGED vars
  BY <1>12, StutterKeeps
<1> QED BY <1>1, <1>2, <1>3, <1>4, <1>5, <1>6, <1>7, <1>8, <1>9, <1>10, <1>11,
           <1>12 DEF Next, FrameStep, Timepoint

(* The inductive invariant holds of the asset manager with its groups,     *)
(* frames, workers and GPU, whatever their numbers.                        *)
THEOREM Invariance == Spec => []IInv
<1>1. Init => IInv
  BY InitKeeps
<1>2. IInv /\ [Next]_vars => IInv'
  BY NextKeeps
<1> QED BY <1>1, <1>2, PTL DEF Spec

(* Every record, page, group, command buffer and submission is well formed: *)
(* timepoints are known ones, places are regions of pages that can exist.   *)
THEOREM TypeCorrect == Spec => []TypeOK
<1>1. IInv => TypeOK
  BY DEF IInv
<1> QED BY <1>1, Invariance, PTL

(* A record counts the groups that demand it.                              *)
THEOREM DemandsAreCounted == Spec => []DemandCounted
<1>1. IInv => DemandCounted
  BY DEF IInv
<1> QED BY <1>1, Invariance, PTL

(* No region of a page is held by two images, or free and held, and pages  *)
(* count the regions that are taken.                                       *)
THEOREM RegionsAreHeldOnce == Spec => []RegionsHeldOnce
<1>1. IInv => RegionsHeldOnce
  BY DEF IInv
<1> QED BY <1>1, Invariance, PTL

LEMMA UnfinishedRead ==
  ASSUME IInv, NEW batch \in Unfinished, NEW read \in batch.reads
  PROVE  /\ read.asset \in Asset /\ records[read.asset].status = "ready"
         /\ records[read.asset].place = read.place
<1>1. CASE \E h \in Commands : batch = recorded[h]
  <2>1. PICK h \in Commands : batch = recorded[h]
    BY <1>1
  <2> QED BY <2>1 DEF IInv, ReadsAccounted, TypeOK, ManagerType
<1>2. CASE \E t \in DOMAIN flight : batch = flight[t]
  <2>1. PICK t \in DOMAIN flight : batch = flight[t]
    BY <1>2
  <2> QED BY <2>1 DEF IInv, ReadsAccounted, TypeOK, ManagerType
<1> QED BY <1>1, <1>2 DEF Unfinished

LEMMA UnfinishedUpload ==
  ASSUME IInv, NEW batch \in Unfinished, NEW upload \in batch.uploads
  PROVE  /\ upload.image \in Image /\ upload.place # <<>>
         /\ records[upload.image].place = upload.place
         /\ records[upload.image].status = "loading"
<1>1. CASE \E h \in Commands : batch = recorded[h]
  <2>1. PICK h \in Commands : batch = recorded[h]
    BY <1>1
  <2>2. upload \in Upload
    BY <2>1 DEF IInv, TypeOK, GpuType, Batch
  <2>3. upload.image \in Image /\ upload.place # <<>>
    <3>1. upload.image \in Image /\ upload.place \in Place
      BY <2>2 DEF Upload
    <3>2. PICK p \in Page, r \in Region : upload.place = <<p, r>>
      BY <3>1 DEF Place
    <3> QED BY <3>1, <3>2
  <2>4. /\ records[upload.image].place = upload.place
        /\ records[upload.image].commands = h /\ h # none
    BY <2>1, AssetAssumption DEF IInv, UploadsAccounted
  <2>5. Coherent(upload.image, records[upload.image])
    BY <2>3, ImageNumbers DEF IInv, RecordsCoherent
  <2> QED BY <2>3, <2>4, <2>5 DEF Coherent, OnItsWay
<1>2. CASE \E t \in DOMAIN flight : batch = flight[t]
  <2>1. PICK t \in DOMAIN flight : batch = flight[t]
    BY <1>2
  <2>2. /\ upload.image \in Image /\ upload.place # <<>>
        /\ records[upload.image].place = upload.place
    BY <2>1, UploadLands DEF Place
  <2>3. t \in Timepoint /\ t # 0
    BY <2>1, AssetAssumption DEF IInv, TypeOK, GpuType, Timepoint
  <2>4. ~Pending(none, t)
    BY NoneNotPending
  <2>5. records[upload.image].uploaded # 0 \/ records[upload.image].commands # none
    BY <2>1, <2>3, <2>4 DEF IInv, UploadsAccounted
  <2>6. Coherent(upload.image, records[upload.image])
    BY <2>2, ImageNumbers DEF IInv, RecordsCoherent
  <2> QED BY <2>2, <2>5, <2>6 DEF Coherent, OnItsWay
<1> QED BY <1>1, <1>2 DEF Unfinished

(* What a frame reads stays as get() returned it until the GPU has drawn   *)
(* the frame, whoever unloads, collects, places and uploads meanwhile.     *)
THEOREM ReadsStayIntact == Spec => []ReadsIntact
<1>1. IInv => ReadsIntact
  <2> SUFFICES ASSUME IInv, NEW batch \in Unfinished, NEW read \in batch.reads
               PROVE  IF read.asset \in Shader THEN records[read.asset].program
                      ELSE /\ records[read.asset].place = read.place
                           /\ \A other \in Unfinished : \A upload \in other.uploads :
                                upload.place # read.place
    BY DEF ReadsIntact
  <2>1. /\ read.asset \in Asset /\ records[read.asset].status = "ready"
        /\ records[read.asset].place = read.place
        /\ Coherent(read.asset, records[read.asset])
    BY UnfinishedRead DEF IInv, RecordsCoherent
  <2>2. CASE read.asset \in Shader
    <3>1. read.asset \notin Image
      BY <2>2, AssetAssumption DEF Shader, Image
    <3> QED BY <2>1, <2>2, <3>1 DEF Coherent
  <2>3. CASE read.asset \notin Shader
    <3>1. read.asset \in Image
      BY <2>1, <2>3 DEF Asset
    <3>2. ASSUME NEW other \in Unfinished, NEW upload \in other.uploads,
                 upload.place = read.place
          PROVE  FALSE
      <4>1. /\ upload.image \in Image /\ upload.place # <<>>
            /\ records[upload.image].place = upload.place
            /\ records[upload.image].status = "loading"
        BY UnfinishedUpload
      <4>2. upload.image # read.asset
        BY <2>1, <4>1
      <4> QED BY <2>1, <3>1, <3>2, <4>1, <4>2 DEF IInv, RegionsHeldOnce
    <3> QED BY <2>1, <2>3, <3>2
  <2> QED BY <2>2, <2>3
<1> QED BY <1>1, Invariance, PTL

(* A group whose poll() says that it is ready can draw all it demands.     *)
THEOREM ReadyGroupsAreServed == Spec => []ReadyGroupServed
<1>1. IInv => ReadyGroupServed
  <2> SUFFICES ASSUME IInv, NEW g \in Group, groups[g].status = "ready",
                      NEW id \in groups[g].demands, Found(id)
               PROVE  /\ records[id.asset].status = "ready"
                      /\ id.asset \in Shader => records[id.asset].program
                      /\ id.asset \in Image \ lost =>
                           Holds(records[id.asset].place, id.asset)
    BY DEF ReadyGroupServed
  <2>1. records[id.asset].status = "ready"
    BY DEF IInv, CompletedStaysReady
  <2>2. id.asset \in Asset
    BY DEF Found, IInv, TypeOK, ManagerType
  <2>3. id.asset \in Shader => records[id.asset].program
    <3>1. id.asset \in Shader => id.asset \notin Image
      BY AssetAssumption DEF Shader, Image
    <3> QED BY <2>1, <2>2, <3>1 DEF IInv, RecordsCoherent, Coherent
  <2>4. id.asset \in Image \ lost => Holds(records[id.asset].place, id.asset)
    BY <2>1 DEF IInv, ContentsArrive
  <2> QED BY <2>1, <2>3, <2>4
<1> QED BY <1>1, Invariance, PTL

LEMMA AtMostOne ==
  ASSUME NEW S, \A x, y \in S : x = y
  PROVE  Cardinality(S) = IF S = {} THEN 0 ELSE 1
<1>1. CASE S = {}
  BY <1>1, FS_EmptySet
<1>2. CASE S # {}
  <2>1. PICK x \in S : TRUE
    BY <1>2
  <2>2. S = {x}
    BY <2>1
  <2> QED BY <1>2, <2>2, FS_Singleton
<1> QED BY <1>1, <1>2

(* Of all command buffers and submissions at most one has uploads to a     *)
(* page that are not done.                                                 *)
THEOREM PagesHaveOneUploader == Spec => []OneUploaderPerPage
<1>1. IInv => OneUploaderPerPage
  <2> SUFFICES ASSUME IInv, NEW p \in DOMAIN pages
               PROVE  Cardinality({h \in Commands : Writing(recorded[h], p)})
                      + Cardinality({t \in DOMAIN flight : Writing(flight[t], p)}) <= 1
    BY DEF OneUploaderPerPage, Writing
  <2> DEFINE H == {h \in Commands : Writing(recorded[h], p)}
             T == {t \in DOMAIN flight : Writing(flight[t], p)}
  <2>1. p \in Page /\ WritersApart
    BY DEF IInv, TypeOK, PagesType
  <2>2. \A h, k \in H : h = k
    BY <2>1 DEF WritersApart
  <2>3. \A t, u \in T : t = u
    BY <2>1 DEF WritersApart
  <2>4. H = {} \/ T = {}
    BY <2>1 DEF WritersApart
  <2> HIDE DEF H, T
  <2>5. Cardinality(H) = IF H = {} THEN 0 ELSE 1
    BY <2>2, AtMostOne
  <2>6. Cardinality(T) = IF T = {} THEN 0 ELSE 1
    BY <2>3, AtMostOne
  <2>7. Cardinality(H) + Cardinality(T) <= 1
    BY <2>4, <2>5, <2>6
  <2> QED BY <2>7 DEF H, T
<1> QED BY <1>1, Invariance, PTL
=============================================================================
