------------------------------ MODULE Logging ------------------------------
(***************************************************************************)
(* log::Logger (core/logging.cpp): threads append records to a queue, one  *)
(* worker writes them to the sinks.  flush() appends a marker and waits on *)
(* the condition `drained`, which the worker notifies, at times without    *)
(* the mutex.  A step is a section under the mutex or a call of the sinks. *)
(* A record is named by its sequence number.                               *)
(***************************************************************************)
EXTENDS Naturals, Sequences, FiniteSets, SequencesExt

CONSTANTS
  Thread,     \* threads that log
  Owner,      \* the thread that destroys the logger
  Level,      \* levels of records, least severe first
  None,       \* the level above all, at which nothing is logged
  MaxRecords, \* bound: records accepted
  MaxFlushes  \* bound: markers

ASSUME LoggingAssumption ==
  /\ Owner \in Thread /\ MaxRecords \in Nat /\ MaxFlushes \in Nat
  /\ None \in Nat /\ Level \subseteq 0 .. None - 1

VARIABLES
  min_level, \* records below are dropped
  sequence,  \* number of records accepted
  queue,     \* records and markers
  pending,   \* records accepted and not yet written
  stopping,  \* the logger is being destroyed
  worker,    \* where the worker is, and the record it holds
  written,   \* records that the sinks have got
  flushed,   \* records that the sinks had got when they were last flushed
  thread,    \* where a thread is in flush()
  before,    \* history: records accepted when a thread called flush()
  markers    \* history: markers appended

vars == <<min_level, sequence, queue, pending, stopping, worker, written,
          flushed, thread, before, markers>>
sinks == <<written, flushed>>
history == <<before, markers>>

Marker == 0

Init ==
  /\ min_level \in Level
  /\ sequence = 0 /\ queue = <<>> /\ pending = 0 /\ stopping = FALSE
  /\ worker = [at |-> "waiting", record |-> 0]
  /\ written = <<>> /\ flushed = 0
  /\ thread = [t \in Thread |-> "running"]
  /\ before = [t \in Thread |-> 0] /\ markers = 0

-----------------------------------------------------------------------------
(* drained.wait(): a thread that is notified looks at the predicate again; *)
(* it may also wake up by itself.                                          *)

(* Faulty variant: being notified is enough. *)
Notified == TRUE

Drained == pending = 0 /\ queue = <<>>

NotifyAll(states) ==
  [t \in Thread |-> IF states[t] = "asleep" THEN "awake" ELSE states[t]]

(* write(), also while the logger is being destroyed                       *)
Accepted(level) ==
  level # None /\ min_level # None /\ level >= min_level

Write(t, level) ==
  /\ thread[t] = "running" /\ thread[Owner] # "gone"
  /\ sequence < MaxRecords
  /\ Accepted(level)
  /\ sequence' = sequence + 1
  /\ queue' = Append(queue, sequence')
  /\ pending' = pending + 1
  /\ UNCHANGED <<min_level, stopping, worker, sinks, thread, history>>

SetMinimumLevel(t, level) ==
  /\ thread[t] = "running"
  /\ min_level' = level
  /\ UNCHANGED <<sequence, queue, pending, stopping, worker, sinks, thread,
                 history>>

(* flush(), up to the first look at the predicate, which is false; nobody  *)
(* calls it when the logger is being destroyed.                            *)
Flush(t) ==
  /\ thread[t] = "running" /\ ~ stopping
  /\ markers < MaxFlushes
  /\ queue' = Append(queue, Marker)
  /\ thread' = [thread EXCEPT ![t] = "asleep"]
  /\ before' = [before EXCEPT ![t] = sequence]
  /\ markers' = markers + 1
  /\ UNCHANGED <<min_level, sequence, pending, stopping, worker, sinks>>

WakesUp(t) ==
  /\ thread[t] = "asleep"
  /\ thread' = [thread EXCEPT ![t] = "awake"]
  /\ UNCHANGED <<min_level, sequence, queue, pending, stopping, worker, sinks,
                 history>>

Looks(t) ==
  /\ thread[t] = "awake"
  /\ thread' = [thread EXCEPT ![t] = IF Drained THEN "flushed" ELSE "asleep"]
  /\ UNCHANGED <<min_level, sequence, queue, pending, stopping, worker, sinks,
                 history>>

Returns(t) ==
  /\ thread[t] = "flushed"
  /\ thread' = [thread EXCEPT ![t] = "running"]
  /\ UNCHANGED <<min_level, sequence, queue, pending, stopping, worker, sinks,
                 history>>

(* ~Logger(), after its flush(): it joins the worker.                      *)
Destroy ==
  /\ thread[Owner] = "flushed" /\ ~ stopping
  /\ stopping' = TRUE
  /\ thread' = [thread EXCEPT ![Owner] = "joining"]
  /\ UNCHANGED <<min_level, sequence, queue, pending, worker, sinks, history>>

Destroyed ==
  /\ thread[Owner] = "joining" /\ worker.at = "ended"
  /\ thread' = [thread EXCEPT ![Owner] = "gone"]
  /\ UNCHANGED <<min_level, sequence, queue, pending, stopping, worker, sinks,
                 history>>

-----------------------------------------------------------------------------
(* Faulty variant: what came last goes first. *)
PopLast ==
  /\ worker.at = "waiting" /\ queue # <<>>
  /\ worker' = [at |-> IF Last(queue) = Marker THEN "flushing" ELSE "writing",
                record |-> Last(queue)]
  /\ queue' = Front(queue)
  /\ UNCHANGED <<min_level, sequence, pending, stopping, sinks, thread, history>>

(* worker_loop(): the head of the queue, whether it is a marker, and the   *)
(* end.  wake.wait() needs no notification of its own: whoever makes its   *)
(* predicate true notifies it after that.                                  *)
Pop ==
  /\ worker.at = "waiting" /\ queue # <<>>
  /\ worker' = [at |-> IF Head(queue) = Marker THEN "flushing" ELSE "writing",
                record |-> Head(queue)]
  /\ queue' = Tail(queue)
  /\ UNCHANGED <<min_level, sequence, pending, stopping, sinks, thread, history>>

FlushSinks ==
  /\ worker.at = "flushing"
  /\ flushed' = Len(written)
  /\ worker' = [worker EXCEPT !.at = "notifying"]
  /\ UNCHANGED <<min_level, sequence, queue, pending, stopping, written,
                 thread, history>>

Notify ==
  /\ worker.at = "notifying"
  /\ thread' = NotifyAll(thread)
  /\ worker' = [worker EXCEPT !.at = "waiting"]
  /\ UNCHANGED <<min_level, sequence, queue, pending, stopping, sinks, history>>

WriteSinks ==
  /\ worker.at = "writing"
  /\ written' = Append(written, worker.record)
  /\ worker' = [worker EXCEPT !.at = "written"]
  /\ UNCHANGED <<min_level, sequence, queue, pending, stopping, flushed,
                 thread, history>>

(* Faulty variant: only a marker has the threads notified. *)
RecordDoneSilently ==
  /\ worker.at = "written"
  /\ pending' = pending - 1
  /\ worker' = [at |-> "waiting", record |-> 0]
  /\ UNCHANGED <<min_level, sequence, queue, stopping, sinks, thread, history>>

RecordDone ==
  /\ worker.at = "written"
  /\ pending' = IF pending > 0 THEN pending - 1 ELSE pending
  /\ thread' = IF pending' = 0 /\ queue = <<>> THEN NotifyAll(thread)
               ELSE thread
  /\ worker' = [at |-> "waiting", record |-> 0]
  /\ UNCHANGED <<min_level, sequence, queue, stopping, sinks, history>>

Ends ==
  /\ worker.at = "waiting" /\ queue = <<>> /\ stopping
  /\ flushed' = Len(written)
  /\ thread' = NotifyAll(thread)
  /\ worker' = [worker EXCEPT !.at = "ended"]
  /\ UNCHANGED <<min_level, sequence, queue, pending, stopping, written,
                 history>>

WorkerStep == Pop \/ FlushSinks \/ Notify \/ WriteSinks \/ RecordDone \/ Ends

Next ==
  \/ \E t \in Thread :
       \/ \E level \in Level \cup {None} : Write(t, level)
       \/ \E level \in Level \cup {None} : SetMinimumLevel(t, level)
       \/ Flush(t) \/ WakesUp(t) \/ Looks(t) \/ Returns(t)
  \/ Destroy \/ Destroyed \/ WorkerStep

(* The worker is scheduled, and so is a thread that has been notified; no  *)
(* thread wakes up by itself for certain.                                  *)
Spec == /\ Init /\ [][Next]_vars /\ WF_vars(WorkerStep)
        /\ \A t \in Thread : WF_vars(Looks(t))

-----------------------------------------------------------------------------
TypeOK ==
  /\ min_level \in Level \cup {None}
  /\ sequence \in Nat /\ pending \in Nat /\ stopping \in BOOLEAN
  /\ queue \in Seq(Nat)
  /\ worker \in [at : {"waiting", "flushing", "notifying", "writing",
                       "written", "ended"},
                 record : Nat]
  /\ written \in Seq(Nat) /\ flushed \in Nat
  /\ thread \in [Thread -> {"running", "asleep", "awake", "flushed",
                            "joining", "gone"}]
  /\ before \in [Thread -> Nat] /\ markers \in Nat

(* The sinks get every record once, in the order in which they were        *)
(* accepted from whatever threads.                                         *)
InOrder == \A i \in DOMAIN written : written[i] = i

(* When flush() returns, also in the destructor, the sinks have got every  *)
(* record that had been accepted when it was called, by whatever threads;  *)
(* when the logger is gone they have been flushed after the last record.   *)
FlushWrites ==
  /\ \A t \in Thread : thread[t] \in {"flushed", "joining", "gone"} =>
                        before[t] <= Len(written)
  /\ thread[Owner] = "gone" => flushed = Len(written)

(* A thread in flush() comes back, though other threads go on logging for  *)
(* a while and the notification may come before it waits again.            *)
FlushReturns ==
  \A t \in Thread :
    thread[t] = "asleep" ~> thread[t] \notin {"asleep", "awake"}
=============================================================================
