----------------------------- MODULE Telemetry ------------------------------
(***************************************************************************)
(* The telemetry writer of src/evaluation/online_monitor.py: requests put  *)
(* rows into a bounded queue, a daemon thread writes them to SQLite in     *)
(* batches, and the shutdown flushes the queue from its own thread, then   *)
(* sends the sentinel None and joins the writer for five seconds.          *)
(*                                                                         *)
(* A batch is one transaction.  The publication to a Redis stream after it *)
(* and the counter of dropped rows, which nobody reads, are left out.      *)
(***************************************************************************)
EXTENDS Naturals, Sequences, SequencesExt

CONSTANTS
    Rows,        \* rows requests append, each once
    Sentinel,    \* the None that ends the writer
    QueueSize,   \* capacity of _TELEMETRY_QUEUE (10000)
    BatchSize,   \* most items of a batch (100)
    WriteFails,  \* TRUE: a transaction may fail
    SlowWrites   \* TRUE: a batch may take longer than the join waits

ASSUME TelemetryAssumption ==
    /\ Sentinel \notin Rows
    /\ QueueSize \in Nat \ {0} /\ BatchSize \in Nat \ {0}
    /\ WriteFails \in BOOLEAN /\ SlowWrites \in BOOLEAN

VARIABLES
    rowQueue,    \* _TELEMETRY_QUEUE
    accepted,    \* the rows put into it so far
    writer,      \* where the writer thread is
    batch,       \* the items it took
    flushed,     \* the rows flush_telemetry took
    stored,      \* the rows in SQLite
    discarded,   \* the rows of transactions that failed
    stop         \* where stop_telemetry_writer is

rowVars == <<rowQueue, accepted, writer, batch, flushed, stored, discarded, stop>>

InitRows ==
    /\ rowQueue = <<>> /\ batch = <<>> /\ flushed = <<>>
    /\ stored = <<>>
    /\ discarded = {} /\ accepted = {}
    /\ writer = "none"
    /\ stop = "no"

\* append_telemetry, append_feedback with _ensure_writer: a full queue drops the row
AppendRow(r) ==
    /\ stop = "no"
    /\ writer' = IF writer = "none" THEN "waiting" ELSE writer
    /\ IF Len(rowQueue) < QueueSize
         THEN rowQueue' = Append(rowQueue, r) /\ accepted' = accepted \cup {r}
         ELSE UNCHANGED <<rowQueue, accepted>>
    /\ UNCHANGED <<batch, flushed, stored, discarded, stop>>

-----------------------------------------------------------------------------
TakeItem ==
    /\ batch' = Append(batch, Head(rowQueue))
    /\ rowQueue' = Tail(rowQueue)

WriterGets ==
    /\ writer = "waiting"
    /\ rowQueue # <<>>
    /\ IF Head(rowQueue) = Sentinel
         THEN writer' = "ended" /\ rowQueue' = Tail(rowQueue) /\ UNCHANGED batch
         ELSE writer' = "collecting" /\ TakeItem
    /\ UNCHANGED <<accepted, flushed, stored, discarded, stop>>

WriterCollects ==
    /\ writer = "collecting"
    /\ Len(batch) < BatchSize
    /\ rowQueue # <<>>
    /\ TakeItem
    /\ UNCHANGED <<accepted, writer, flushed, stored, discarded, stop>>

WriterHasBatch ==
    /\ writer = "collecting"
    /\ Len(batch) = BatchSize \/ rowQueue = <<>>
    /\ writer' = "writing"
    /\ UNCHANGED <<rowQueue, accepted, batch, flushed, stored, discarded, stop>>

RowsOf(items) == ToSet(items) \ {Sentinel}

\* changed WriteBatch: the batch is not reset; a failing write ends the thread
WriteKeepsBatch(ok) ==
    /\ writer = "writing"
    /\ ok /\ ~Contains(batch, Sentinel)
    /\ stored' = stored \o batch
    /\ writer' = "waiting"
    /\ UNCHANGED <<rowQueue, accepted, batch, flushed, discarded, stop>>

\* unpacking a sentinel among the rows raises before anything is written
WriteBatch(ok) ==
    /\ writer = "writing"
    /\ ok => ~Contains(batch, Sentinel)
    /\ ~ok => WriteFails \/ Contains(batch, Sentinel)
    /\ IF ok THEN stored' = stored \o batch /\ UNCHANGED discarded
             ELSE discarded' = discarded \cup RowsOf(batch) /\ UNCHANGED stored
    /\ batch' = <<>>
    /\ writer' = "waiting"
    /\ UNCHANGED <<rowQueue, accepted, flushed, stop>>

WriterStep == WriterGets \/ WriterCollects \/ WriterHasBatch \/ \E ok \in BOOLEAN : WriteBatch(ok)

-----------------------------------------------------------------------------
BeginStop ==
    /\ stop = "no"
    /\ stop' = "flush"
    /\ UNCHANGED <<rowQueue, accepted, writer, batch, flushed, stored, discarded>>

FlushTakes ==
    /\ stop = "flush"
    /\ rowQueue # <<>>
    /\ flushed' = Append(flushed, Head(rowQueue))
    /\ rowQueue' = Tail(rowQueue)
    /\ UNCHANGED <<accepted, writer, batch, stored, discarded, stop>>

\* a failing transaction of the flush is not caught: the shutdown ends there
FlushWrites(ok) ==
    /\ stop = "flush"
    /\ rowQueue = <<>>
    /\ ~ok => WriteFails /\ flushed # <<>>
    /\ IF ok THEN stored' = stored \o flushed /\ stop' = "sentinel" /\ UNCHANGED discarded
             ELSE discarded' = discarded \cup RowsOf(flushed) /\ stop' = "raised" /\ UNCHANGED stored
    /\ flushed' = <<>>
    /\ UNCHANGED <<rowQueue, accepted, writer, batch>>

PutSentinel ==
    /\ stop = "sentinel"
    /\ IF writer = "none"
         THEN stop' = "stopped" /\ UNCHANGED rowQueue
         ELSE stop' = "join" /\ rowQueue' = Append(rowQueue, Sentinel)
    /\ UNCHANGED <<accepted, writer, batch, flushed, stored, discarded>>

\* a changed Join: no timeout
JoinForever ==
    /\ stop = "join"
    /\ writer = "ended"
    /\ stop' = "stopped"
    /\ UNCHANGED <<rowQueue, accepted, writer, batch, flushed, stored, discarded>>

\* the writer ended, or the five seconds are over
Join ==
    /\ stop = "join"
    /\ \/ writer = "ended"
       \/ writer = "waiting" /\ rowQueue = <<>>
       \/ SlowWrites
    /\ stop' = "stopped"
    /\ UNCHANGED <<rowQueue, accepted, writer, batch, flushed, stored, discarded>>

StopStep == FlushTakes \/ (\E ok \in BOOLEAN : FlushWrites(ok)) \/ PutSentinel \/ Join

-----------------------------------------------------------------------------
\* where the rows are
Places == {"queue", "batch", "flush", "database", "lost"}

RowsIn(place) ==
    CASE place = "queue"    -> RowsOf(rowQueue)
      [] place = "batch"    -> RowsOf(batch)
      [] place = "flush"    -> ToSet(flushed)
      [] place = "database" -> ToSet(stored)
      [] place = "lost"     -> discarded

(***************************************************************************)
(* A row the queue accepted is in one place, once: waiting, in a batch, in *)
(* the database, or lost with a transaction that failed; the writer and    *)
(* the flush, which take from the same queue, never write it twice, and    *)
(* once the flush is over none is left in the queue.  The queue is bounded *)
(* however many requests are answered.                                     *)
(***************************************************************************)
RowsKept ==
    /\ \A items \in {rowQueue, batch, flushed, stored} : IsInjective(items)
    /\ \A p, q \in Places : p # q => RowsIn(p) \cap RowsIn(q) = {}
    /\ UNION {RowsIn(p) : p \in Places} = accepted
    /\ Len(rowQueue) <= QueueSize
    /\ stop \in {"sentinel", "join", "stopped", "raised"} => RowsOf(rowQueue) = {}

=============================================================================
