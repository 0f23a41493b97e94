--------------------------- MODULE LoggingProofs ---------------------------
(* Proofs about Logging: for any number of threads, levels and records,    *)
(* flush() returns when everything accepted before it has been written.    *)
EXTENDS Logging, TLAPS

(* The record that the worker has popped and not yet written.              *)
Held == IF worker.at = "writing" THEN 1 ELSE 0

(* The record that it has written and still counts as pending.             *)
Counted == IF worker.at = "written" THEN 1 ELSE 0

(* The queue holds, in order, the records after those popped.              *)
QueueInOrder ==
  /\ \A i \in 1 .. Len(queue) : queue[i] # Marker =>
       Len(written) + Held < queue[i] /\ queue[i] <= sequence
  /\ \A i, j \in 1 .. Len(queue) :
       i < j /\ queue[i] # Marker /\ queue[j] # Marker => queue[i] < queue[j]
  /\ \A n \in Nat : Len(written) + Held < n /\ n <= sequence =>
       \E i \in 1 .. Len(queue) : queue[i] = n

WorkerHolds ==
  /\ worker.at = "writing" => worker.record = Len(written) + 1
  /\ Len(written) + Held <= sequence
  /\ pending = sequence - Len(written) + Counted

(* Accepted before a call is not more than accepted.                       *)
Before == \A t \in Thread : before[t] <= sequence

AtTheEnd ==
  /\ worker.at = "ended" => flushed = Len(written)
  /\ thread[Owner] = "gone" => worker.at = "ended"

LInv == TypeOK /\ InOrder /\ FlushWrites /\ QueueInOrder /\ WorkerHolds
        /\ Before /\ AtTheEnd

-----------------------------------------------------------------------------
LEMMA InitHolds == Init => LInv
<1> SUFFICES ASSUME Init PROVE LInv
  OBVIOUS
<1>1. /\ queue = <<>> /\ written = <<>> /\ sequence = 0 /\ pending = 0
      /\ Len(queue) = 0 /\ Len(written) = 0
      /\ worker = [at |-> "waiting", record |-> 0]
      /\ Held = 0 /\ Counted = 0
  BY DEF Init, Held, Counted
<1>2. TypeOK
  <2>1. <<>> \in Seq(Nat)
    OBVIOUS
  <2>2. worker \in [at : {"waiting", "flushing", "notifying", "writing",
                         "written", "ended"}, record : Nat]
    BY <1>1
  <2> QED  BY <2>1, <2>2 DEF Init, TypeOK
<1>3. InOrder /\ QueueInOrder /\ WorkerHolds
  <2>1. DOMAIN written = {} /\ 1 .. Len(queue) = {}
    BY <1>1
  <2>2. worker.at # "writing"
    BY <1>1
  <2>3. InOrder
    BY <2>1 DEF InOrder
  <2>4. QueueInOrder
    <3>1. \A n \in Nat : ~ (Len(written) + Held < n /\ n <= sequence)
      BY <1>1
    <3> QED  BY <2>1, <3>1 DEF QueueInOrder
  <2>5. WorkerHolds
    <3>1. 0 + 0 <= 0 /\ 0 = 0 - 0 + 0
      OBVIOUS
    <3>2. Len(written) + Held <= sequence /\ pending = sequence - Len(written) + Counted
      BY <3>1, <1>1, Zenon
    <3> QED  BY <2>2, <3>2 DEF WorkerHolds
  <2> QED  BY <2>3, <2>4, <2>5
<1>4. FlushWrites /\ Before /\ AtTheEnd
  BY <1>1, LoggingAssumption DEF Init, FlushWrites, Before, AtTheEnd
<1> QED  BY <1>2, <1>3, <1>4 DEF LInv

(* The sequences that the steps build. *)
LEMMA Appended ==
  ASSUME NEW s \in Seq(Nat), NEW e \in Nat
  PROVE  /\ Append(s, e) \in Seq(Nat) /\ Len(Append(s, e)) = Len(s) + 1
         /\ \A i \in 1 .. Len(s) : Append(s, e)[i] = s[i]
         /\ Append(s, e)[Len(s) + 1] = e
  OBVIOUS

LEMMA Popped ==
  ASSUME NEW s \in Seq(Nat), s # <<>>
  PROVE  /\ Head(s) = s[1] /\ s[1] \in Nat
         /\ Len(s) \in Nat \ {0}
         /\ Tail(s) \in Seq(Nat) /\ Len(Tail(s)) = Len(s) - 1
         /\ \A i \in 1 .. Len(s) - 1 : Tail(s)[i] = s[i + 1]
  OBVIOUS

LEMMA WritePreserves ==
  ASSUME LInv, NEW t \in Thread, NEW level \in Level \cup {None},
         Write(t, level)
  PROVE  LInv'
<1> USE DEF LInv
<1>1. /\ queue \in Seq(Nat) /\ sequence \in Nat /\ sequence' = sequence + 1
      /\ queue' = Append(queue, sequence + 1) /\ pending' = pending + 1
      /\ Len(queue) \in Nat /\ Len(written) \in Nat
  BY DEF Write, TypeOK
<1>2. /\ queue' \in Seq(Nat) /\ Len(queue') = Len(queue) + 1
      /\ \A i \in 1 .. Len(queue) : queue'[i] = queue[i]
      /\ queue'[Len(queue) + 1] = sequence + 1
  BY <1>1, Appended
<1>3. UNCHANGED <<worker, written, flushed, thread, before, min_level, stopping,
                  markers>>
  BY DEF Write, sinks, history
<1>4. Held' = Held /\ Counted' = Counted /\ Held \in {0, 1} /\ Counted \in {0, 1}
  BY <1>3 DEF Held, Counted
<1>5. TypeOK'
  BY <1>1, <1>2, <1>3 DEF TypeOK
<1>6. InOrder' /\ FlushWrites' /\ AtTheEnd'
  BY <1>3 DEF InOrder, FlushWrites, AtTheEnd
<1>7. QueueInOrder'
  <2>1. \A i \in 1 .. Len(queue') : queue'[i] # Marker =>
          Len(written') + Held' < queue'[i] /\ queue'[i] <= sequence'
    <3>1. Len(written) + Held < sequence + 1
      BY <1>1, <1>4 DEF WorkerHolds
    <3>2. \A i \in 1 .. Len(queue) :
            queue[i] \in Nat /\ (queue[i] <= sequence => queue[i] <= sequence')
      BY <1>1
    <3>3. \A i \in 1 .. Len(queue) : queue[i] # Marker =>
            Len(written) + Held < queue[i] /\ queue[i] <= sequence
      BY DEF QueueInOrder
    <3>4. \A i \in 1 .. Len(queue') :
            i \in 1 .. Len(queue) \/ i = Len(queue) + 1
      BY <1>1, <1>2
    <3>5. written' = written /\ Held' = Held /\ sequence + 1 <= sequence'
      BY <1>1, <1>3, <1>4
    <3> HIDE DEF LInv
    <3> QED  BY <3>1, <3>2, <3>3, <3>4, <3>5, <1>2
  <2>2. \A i, j \in 1 .. Len(queue') :
          i < j /\ queue'[i] # Marker /\ queue'[j] # Marker
            => queue'[i] < queue'[j]
    <3> TAKE i, j \in 1 .. Len(queue')
    <3> HAVE i < j /\ queue'[i] # Marker /\ queue'[j] # Marker
    <3>1. i \in 1 .. Len(queue) /\ queue'[i] = queue[i] /\ queue[i] <= sequence
          /\ queue[i] \in Nat
      <4>1. i \in 1 .. Len(queue)
        BY <1>1, <1>2
      <4>2. queue'[i] = queue[i] /\ queue[i] \in Nat
        BY <4>1, <1>1, <1>2
      <4> QED  BY <4>1, <4>2 DEF QueueInOrder
    <3>2. CASE j = Len(queue) + 1
      <4>1. queue[i] < sequence + 1
        BY <3>1, <1>1
      <4> QED  BY <3>1, <3>2, <4>1, <1>2
    <3>3. CASE j \in 1 .. Len(queue)
      BY <3>1, <3>3, <1>1, <1>2 DEF QueueInOrder
    <3>4. j = Len(queue) + 1 \/ j \in 1 .. Len(queue)
      <4>1. Len(queue) \in Nat /\ Len(queue') = Len(queue) + 1
        BY <1>1, <1>2
      <4> HIDE DEF LInv
      <4> QED  BY <4>1
    <3> QED  BY <3>2, <3>3, <3>4, Zenon
  <2>3. \A n \in Nat : Len(written') + Held' < n /\ n <= sequence' =>
          \E i \in 1 .. Len(queue') : queue'[i] = n
    <3> TAKE n \in Nat
    <3> HAVE Len(written') + Held' < n /\ n <= sequence'
    <3>1. CASE n = sequence + 1
      BY <3>1, <1>1, <1>2
    <3>2. CASE n <= sequence
      <4>1. PICK i \in 1 .. Len(queue) : queue[i] = n
        BY <3>2, <1>3, <1>4 DEF QueueInOrder
      <4> QED  BY <4>1, <1>1, <1>2
    <3> QED  BY <3>1, <3>2, <1>1
  <2> QED  BY <2>1, <2>2, <2>3 DEF QueueInOrder
<1>8. WorkerHolds'
  BY <1>1, <1>3, <1>4 DEF WorkerHolds, TypeOK
<1>9. Before'
  BY <1>1, <1>3 DEF Before, TypeOK
<1> QED  BY <1>5, <1>6, <1>7, <1>8, <1>9

LEMMA FlushPreserves ==
  ASSUME LInv, NEW t \in Thread, Flush(t)
  PROVE  LInv'
<1> USE DEF LInv
<1>1. /\ queue \in Seq(Nat) /\ queue' = Append(queue, Marker)
      /\ Marker \in Nat /\ Len(queue) \in Nat
      /\ sequence \in Nat /\ Len(written) \in Nat
  BY DEF Flush, TypeOK, Marker
<1>2. /\ queue' \in Seq(Nat) /\ Len(queue') = Len(queue) + 1
      /\ \A i \in 1 .. Len(queue) : queue'[i] = queue[i]
      /\ queue'[Len(queue) + 1] = Marker
  BY <1>1, Appended
<1>3. /\ UNCHANGED <<worker, written, flushed, sequence, pending, min_level,
                     stopping>>
      /\ thread[t] = "running" /\ thread' = [thread EXCEPT ![t] = "asleep"]
      /\ before' = [before EXCEPT ![t] = sequence] /\ markers' = markers + 1
  BY DEF Flush, sinks
<1>4. Held' = Held /\ Counted' = Counted
  BY <1>3 DEF Held, Counted
<1>5. TypeOK'
  BY <1>1, <1>2, <1>3 DEF TypeOK
<1>6. InOrder' /\ AtTheEnd' /\ WorkerHolds' /\ Before'
  BY <1>1, <1>3, <1>4, LoggingAssumption
     DEF InOrder, AtTheEnd, WorkerHolds, Before, TypeOK
<1>7. FlushWrites'
  BY <1>3, LoggingAssumption DEF FlushWrites, TypeOK
<1>8. QueueInOrder'
  <2>1. \A i \in 1 .. Len(queue') : queue'[i] # Marker =>
          i \in 1 .. Len(queue) /\ queue'[i] = queue[i]
    BY <1>1, <1>2
  <2>2. \A n \in Nat : Len(written') + Held' < n /\ n <= sequence' =>
          \E i \in 1 .. Len(queue') : queue'[i] = n
    <3> TAKE n \in Nat
    <3> HAVE Len(written') + Held' < n /\ n <= sequence'
    <3>1. PICK i \in 1 .. Len(queue) : queue[i] = n
      BY <1>3, <1>4 DEF QueueInOrder
    <3> QED  BY <3>1, <1>1, <1>2
  <2> QED  BY <2>1, <2>2, <1>3, <1>4 DEF QueueInOrder
<1> QED  BY <1>5, <1>6, <1>7, <1>8

(* Steps of threads that change neither the queue nor the sinks. *)
LEMMA ThreadPreserves ==
  ASSUME LInv,
         UNCHANGED <<sequence, queue, pending, worker, written, flushed,
                     before, markers>>,
         TypeOK', thread'[Owner] = "gone" => worker.at = "ended",
         \A t \in Thread : thread'[t] \in {"flushed", "joining", "gone"} =>
                            thread[t] \in {"flushed", "joining", "gone"}
                            \/ Drained
  PROVE  LInv'
<1> USE DEF LInv
<1>1. Held' = Held /\ Counted' = Counted
  BY DEF Held, Counted
<1>2. InOrder' /\ QueueInOrder' /\ WorkerHolds' /\ Before'
  BY <1>1 DEF InOrder, QueueInOrder, WorkerHolds, Before
<1>3. Drained => Len(written) = sequence
  <2> SUFFICES ASSUME Drained PROVE Len(written) = sequence
    OBVIOUS
  <2>1. Len(queue) = 0 /\ Len(written) \in Nat /\ sequence \in Nat
    BY DEF Drained, TypeOK
  <2>2. Held \in {0, 1} /\ Counted \in {0, 1} /\ (Held = 1 => Counted = 0)
    BY DEF Held, Counted
  <2>3. ~ Len(written) + Held < sequence
    BY <2>1 DEF QueueInOrder
  <2> QED  BY <2>1, <2>2, <2>3 DEF Drained, WorkerHolds
<1>4. AtTheEnd'
  BY DEF AtTheEnd
<1>5. FlushWrites'
  <2>1. \A t \in Thread : thread'[t] \in {"flushed", "joining", "gone"} =>
                           before'[t] <= Len(written')
    BY <1>3 DEF FlushWrites, Before
  <2> QED  BY <2>1, <1>4 DEF FlushWrites, AtTheEnd
<1> QED  BY <1>2, <1>4, <1>5

LEMMA PopPreserves ==
  ASSUME LInv, Pop
  PROVE  LInv'
<1> USE DEF LInv
<1>1. /\ queue \in Seq(Nat) /\ queue # <<>> /\ queue' = Tail(queue)
      /\ worker.at = "waiting"
      /\ worker' = [at |-> IF Head(queue) = Marker THEN "flushing"
                           ELSE "writing", record |-> Head(queue)]
      /\ sequence \in Nat /\ Len(written) \in Nat
      /\ UNCHANGED <<min_level, sequence, pending, stopping, written, flushed,
                     thread, before, markers>>
  BY DEF Pop, TypeOK, sinks, history
<1>2. /\ Head(queue) = queue[1] /\ queue[1] \in Nat /\ Len(queue) \in Nat \ {0}
      /\ queue' \in Seq(Nat) /\ Len(queue') = Len(queue) - 1
      /\ \A i \in 1 .. Len(queue) - 1 : queue'[i] = queue[i + 1]
  BY <1>1, Popped
<1>3. Held = 0 /\ Counted = 0 /\ Counted' = 0 /\ worker'.record = queue[1]
      /\ Held' = (IF queue[1] = Marker THEN 0 ELSE 1)
  BY <1>1, <1>2 DEF Held, Counted
<1>4. queue[1] # Marker => queue[1] = Len(written) + 1
  <2> SUFFICES ASSUME queue[1] # Marker PROVE queue[1] = Len(written) + 1
    OBVIOUS
  <2>1. Len(written) < queue[1] /\ queue[1] <= sequence
    BY <1>2, <1>3 DEF QueueInOrder
  <2> DEFINE next == Len(written) + 1
  <2>4. next \in Nat /\ Len(written) + Held < next /\ next <= sequence
    BY <2>1, <1>1, <1>2, <1>3
  <2>2. PICK i \in 1 .. Len(queue) : queue[i] = next
    <3> HIDE DEF next
    <3> QED  BY <2>4 DEF QueueInOrder
  <2>3. i = 1 \/ queue[1] < queue[i]
    BY <2>2, <1>1, <1>2 DEF QueueInOrder, Marker
  <2> QED  BY <2>1, <2>2, <2>3, <1>1, <1>2
<1>5. TypeOK'
  BY <1>1, <1>2 DEF TypeOK
<1>6. WorkerHolds'
  BY <1>1, <1>2, <1>3, <1>4 DEF WorkerHolds, QueueInOrder, TypeOK
<1>7. InOrder' /\ Before' /\ FlushWrites' /\ AtTheEnd'
  BY <1>1 DEF InOrder, Before, FlushWrites, AtTheEnd
<1>8. QueueInOrder'
  <2>1. \A i \in 1 .. Len(queue') :
          i + 1 \in 1 .. Len(queue) /\ queue'[i] = queue[i + 1]
          /\ queue[i + 1] \in Nat
    BY <1>1, <1>2
  <2>2. \A i \in 1 .. Len(queue') : queue'[i] # Marker =>
          Len(written') + Held' < queue'[i] /\ queue'[i] <= sequence'
    <3> TAKE i \in 1 .. Len(queue')
    <3> HAVE queue'[i] # Marker
    <3>1. Len(written) < queue[i + 1] /\ queue[i + 1] <= sequence
      BY <2>1, <1>3 DEF QueueInOrder
    <3>2. queue[1] # Marker => queue[1] < queue[i + 1]
      <4>1. i + 1 \in 1 .. Len(queue) /\ queue[i + 1] # Marker
            /\ 1 \in 1 .. Len(queue) /\ 1 < i + 1
        BY <2>1, <1>2
      <4> QED  BY <4>1 DEF QueueInOrder
    <3> QED  BY <3>1, <3>2, <2>1, <1>1, <1>2, <1>3, <1>4
  <2>3. \A i, j \in 1 .. Len(queue') :
          i < j /\ queue'[i] # Marker /\ queue'[j] # Marker
            => queue'[i] < queue'[j]
    <3> TAKE i, j \in 1 .. Len(queue')
    <3> HAVE i < j /\ queue'[i] # Marker /\ queue'[j] # Marker
    <3>1. i + 1 < j + 1 /\ i + 1 \in 1 .. Len(queue) /\ j + 1 \in 1 .. Len(queue)
      BY <2>1, <1>2
    <3>2. queue[i + 1] # Marker /\ queue[j + 1] # Marker
      BY <2>1
    <3>3. queue[i + 1] < queue[j + 1]
      BY <3>1, <3>2 DEF QueueInOrder
    <3> QED  BY <3>3, <2>1
  <2>4. \A n \in Nat : Len(written') + Held' < n /\ n <= sequence' =>
          \E i \in 1 .. Len(queue') : queue'[i] = n
    <3> TAKE n \in Nat
    <3> HAVE Len(written') + Held' < n /\ n <= sequence'
    <3>1. PICK i \in 1 .. Len(queue) : queue[i] = n
      BY <1>1, <1>3 DEF QueueInOrder
    <3>2. i # 1
      BY <3>1, <1>1, <1>3, <1>4 DEF Marker
    <3>3. i - 1 \in 1 .. Len(queue') /\ queue'[i - 1] = n
      BY <3>1, <3>2, <1>2
    <3> QED  BY <3>3
  <2> QED  BY <2>2, <2>3, <2>4 DEF QueueInOrder
<1> QED  BY <1>5, <1>6, <1>7, <1>8

LEMMA WriteSinksPreserves ==
  ASSUME LInv, WriteSinks
  PROVE  LInv'
<1> USE DEF LInv
<1>1. /\ worker.at = "writing" /\ worker' = [worker EXCEPT !.at = "written"]
      /\ written' = Append(written, worker.record)
      /\ worker.record = Len(written) + 1
      /\ written \in Seq(Nat) /\ Len(written) \in Nat /\ sequence \in Nat
      /\ UNCHANGED <<min_level, sequence, queue, pending, stopping, flushed,
                     thread, before, markers>>
  BY DEF WriteSinks, TypeOK, WorkerHolds, history
<1>2. /\ written' \in Seq(Nat) /\ Len(written') = Len(written) + 1
      /\ \A i \in 1 .. Len(written) : written'[i] = written[i]
      /\ written'[Len(written) + 1] = Len(written) + 1
  BY <1>1, Appended
<1>3. /\ Held = 1 /\ Held' = 0 /\ Counted = 0 /\ Counted' = 1
      /\ worker'.at = "written"
  BY <1>1 DEF Held, Counted, TypeOK
<1>4. TypeOK'
  BY <1>1, <1>2 DEF TypeOK
<1>5. InOrder'
  BY <1>1, <1>2 DEF InOrder
<1>6. QueueInOrder' /\ WorkerHolds'
  BY <1>1, <1>2, <1>3 DEF QueueInOrder, WorkerHolds, TypeOK
<1>7. AtTheEnd' /\ Before'
  BY <1>1, <1>3, LoggingAssumption DEF AtTheEnd, Before
<1>8. FlushWrites'
  BY <1>1, <1>2, LoggingAssumption DEF FlushWrites, AtTheEnd, TypeOK
<1> QED  BY <1>4, <1>5, <1>6, <1>7, <1>8

(* The other steps of the worker move neither records nor the queue. *)
LEMMA OtherWorkerPreserves ==
  ASSUME LInv, FlushSinks \/ Notify \/ RecordDone \/ Ends
  PROVE  LInv'
<1> USE DEF LInv
<1>1. UNCHANGED <<min_level, sequence, queue, written, stopping, before, markers>>
  BY DEF FlushSinks, Notify, RecordDone, Ends, history, sinks
<1>2. thread' = thread \/ thread' = NotifyAll(thread)
  BY DEF FlushSinks, Notify, RecordDone, Ends
<1>3. /\ thread' \in [Thread -> {"running", "asleep", "awake", "flushed",
                                 "joining", "gone"}]
      /\ \A t \in Thread : thread'[t] \in {"flushed", "joining", "gone"} =>
                            thread'[t] = thread[t]
  BY <1>2 DEF NotifyAll, TypeOK
<1>4. worker.at # "writing" /\ worker'.at # "writing" /\ worker.at # "ended"
  BY DEF FlushSinks, Notify, RecordDone, Ends, TypeOK
<1>5. Held = 0 /\ Held' = 0
  BY <1>4 DEF Held
<1>6. pending' \in Nat /\ pending' = sequence - Len(written) + Counted'
  <2>1. CASE RecordDone
    BY <2>1, <1>5 DEF RecordDone, Counted, WorkerHolds, TypeOK
  <2>2. CASE FlushSinks \/ Notify \/ Ends
    BY <2>2 DEF FlushSinks, Notify, Ends, Counted, WorkerHolds, TypeOK
  <2> QED  BY <2>1, <2>2
<1>7. worker' \in [at : {"waiting", "flushing", "notifying", "writing",
                         "written", "ended"}, record : Nat]
      /\ flushed' \in Nat
  BY DEF FlushSinks, Notify, RecordDone, Ends, sinks, TypeOK
<1>8. TypeOK'
  BY <1>1, <1>3, <1>6, <1>7 DEF TypeOK
<1>9. InOrder' /\ QueueInOrder' /\ WorkerHolds' /\ Before'
  BY <1>1, <1>4, <1>5, <1>6 DEF InOrder, QueueInOrder, WorkerHolds, Before
<1>10. thread'[Owner] # "gone"
  BY <1>3, <1>4, LoggingAssumption DEF AtTheEnd
<1>11. AtTheEnd'
  BY <1>1, <1>10 DEF AtTheEnd, FlushSinks, Notify, RecordDone, Ends, TypeOK
<1>12. FlushWrites'
  BY <1>1, <1>3, <1>10 DEF FlushWrites
<1> QED  BY <1>8, <1>9, <1>11, <1>12

LEMMA StepPreserves == LInv /\ [Next]_vars => LInv'
<1> SUFFICES ASSUME LInv, [Next]_vars PROVE LInv'
  OBVIOUS
<1>1. ASSUME NEW t \in Thread, NEW level \in Level \cup {None}, Write(t, level)
      PROVE LInv'
  BY <1>1, WritePreserves
<1>2. ASSUME NEW t \in Thread, Flush(t) PROVE LInv'
  BY <1>2, FlushPreserves
<1>3. CASE WorkerStep
  BY <1>3, PopPreserves, WriteSinksPreserves, OtherWorkerPreserves
     DEF WorkerStep
<1>4. ASSUME \/ \E t \in Thread :
                   \/ \E level \in Level \cup {None} : SetMinimumLevel(t, level)
                   \/ WakesUp(t) \/ Looks(t) \/ Returns(t)
             \/ Destroy \/ Destroyed \/ UNCHANGED vars
      PROVE LInv'
  <2>1. UNCHANGED <<sequence, queue, pending, worker, written, flushed,
                    before, markers>>
    BY <1>4 DEF SetMinimumLevel, WakesUp, Looks, Returns, Destroy, Destroyed,
                vars, sinks, history
  <2>2. TypeOK'
    BY <1>4, <2>1, LoggingAssumption
       DEF LInv, TypeOK, SetMinimumLevel, WakesUp, Looks, Returns, Destroy,
           Destroyed, vars
  <2>3. thread'[Owner] = "gone" => worker.at = "ended"
    BY <1>4, LoggingAssumption
       DEF LInv, TypeOK, AtTheEnd, SetMinimumLevel, WakesUp, Looks, Returns,
           Destroy, Destroyed, vars
  <2>4. \A t \in Thread : thread'[t] \in {"flushed", "joining", "gone"} =>
          thread[t] \in {"flushed", "joining", "gone"} \/ Drained
    BY <1>4, LoggingAssumption
       DEF LInv, TypeOK, SetMinimumLevel, WakesUp, Looks, Returns, Destroy,
           Destroyed, vars
  <2> QED  BY <2>1, <2>2, <2>3, <2>4, ThreadPreserves
<1> QED  BY <1>1, <1>2, <1>3, <1>4 DEF Next

-----------------------------------------------------------------------------
(* Whatever threads log, and however their calls interleave with the       *)
(* worker, the sinks get the records once and in order.                    *)
THEOREM RecordsInOrder == Spec => []InOrder
<1>1. LInv => InOrder
  BY DEF LInv
<1> QED  BY <1>1, InitHolds, StepPreserves, PTL DEF Spec

(* flush() never returns before everything accepted when it was called has *)
(* been written, though the worker notifies without the mutex, threads     *)
(* wake up by themselves and other threads go on logging.                  *)
THEOREM FlushCoversCalls == Spec => []FlushWrites
<1>1. LInv => FlushWrites
  BY DEF LInv
<1> QED  BY <1>1, InitHolds, StepPreserves, PTL DEF Spec
=============================================================================
