---------------------------- MODULE BatchOrders -----------------------------
(***************************************************************************)
(* execution/batch.py: a BatchOrderManager that several coroutines add to  *)
(* and flush.  The exchange client is external and runs in a thread: when  *)
(* wait_for gives up on it, the request is not undone and may still go     *)
(* through.  Orders are numbered in the order they are added.              *)
(***************************************************************************)
EXTENDS Integers, SequencesExt

CONSTANTS Flushers,   \* coroutines that call flush or flush_if_full
          BatchSize,  \* max_batch_size
          MaxOrders   \* bound: orders added in a run

ASSUME BatchAssumption ==
    /\ BatchSize \in Nat \ {0} /\ MaxOrders \in Nat

Orders == 1..MaxOrders

VARIABLES client,    \* _client: it has create_and_post_batch_order, it has not, or dry_run
          pending,   \* _pending
          added,     \* orders added so far
          flusher,   \* per coroutine: what it awaits, its batch, how many it has asked for, ids got
          totals,    \* _total_submitted, _total_succeeded, _total_failed
          cleared,   \* history: orders dropped by clear()
          reported,  \* history: orders of batches a result was made of
          lost,      \* history: orders of a flush that was cancelled
          live       \* external: per order, times the exchange took it

batchVars == <<client, pending, added, flusher, totals, cleared, reported, lost, live>>

NoBatch == [at |-> "idle", batch |-> <<>>, asked |-> 0, ids |-> {}]

BatchTypeOK ==
    /\ client \in {"batch", "single", "dry_run"}
    /\ pending \in Seq(Orders) /\ added \in 0..MaxOrders
    /\ \A f \in Flushers :
          /\ flusher[f].at \in {"idle", "submitting", "pausing"}
          /\ flusher[f].batch \in Seq(Orders) /\ Len(flusher[f].batch) <= BatchSize
          /\ flusher[f].asked \in 0..Len(flusher[f].batch) /\ flusher[f].ids \subseteq Orders
    /\ totals \in [submitted : Nat, succeeded : Nat, failed : Nat]
    /\ cleared \subseteq Orders /\ reported \subseteq Orders /\ lost \subseteq Orders
    /\ live \in [Orders -> Nat]

BatchInit ==
    /\ client \in {"batch", "single", "dry_run"}
    /\ pending = <<>> /\ added = 0 /\ flusher = [f \in Flushers |-> NoBatch]
    /\ totals = [submitted |-> 0, succeeded |-> 0, failed |-> 0]
    /\ cleared = {} /\ reported = {} /\ lost = {} /\ live = [o \in Orders |-> 0]

AddOrder ==
    /\ added < MaxOrders
    /\ added' = added + 1
    /\ pending' = Append(pending, added')
    /\ UNCHANGED <<client, flusher, totals, cleared, reported, lost, live>>

ClearPending ==
    /\ pending # <<>>
    /\ cleared' = cleared \cup ToSet(pending)
    /\ pending' = <<>>
    /\ UNCHANGED <<client, added, flusher, totals, reported, lost, live>>

FirstBatch == SubSeq(pending, 1, IF Len(pending) < BatchSize THEN Len(pending) ELSE BatchSize)

\* Mutant of Remaining: the batch leaves the queue with its result only, after the awaits.
RemainingAll == pending

Remaining == SubSeq(pending, Len(FirstBatch) + 1, Len(pending))

\* flush (and flush_if_full, which calls it on a full batch), at its start or after the pause
\* between two batches: the batch leaves the queue before the first await.
TakeBatch(f) ==
    /\ flusher[f].at \in {"idle", "pausing"} /\ pending # <<>>
    /\ flusher' = [flusher EXCEPT ![f] = [NoBatch EXCEPT !.at = "submitting", !.batch = FirstBatch]]
    /\ pending' = Remaining
    /\ UNCHANGED <<client, added, totals, cleared, reported, lost, live>>

\* flush returns when another flush emptied the queue during its pause.
EndFlush(f) ==
    /\ flusher[f].at = "pausing" /\ pending = <<>>
    /\ flusher' = [flusher EXCEPT ![f] = NoBatch]
    /\ UNCHANGED <<client, pending, added, totals, cleared, reported, lost, live>>

Took(orders) == [o \in Orders |-> IF o \in orders THEN live[o] + 1 ELSE live[o]]

\* One call of create_and_post_batch_order: ids for the orders it accepted; or a timeout or
\* an error, after which the exchange may or may not have accepted some.
PostBatch(f) ==
    /\ client = "batch" /\ flusher[f].at = "submitting" /\ flusher[f].asked = 0
    /\ \E accepted \in SUBSET ToSet(flusher[f].batch), answered \in BOOLEAN :
          /\ live' = Took(accepted)
          /\ flusher' = [flusher EXCEPT ![f].asked = Len(flusher[f].batch),
                                        ![f].ids = IF answered THEN accepted ELSE {}]
    /\ UNCHANGED <<client, pending, added, totals, cleared, reported, lost>>

\* Without the batch call, one create_and_post_order after the other.
PostNext(f) ==
    /\ client = "single" /\ flusher[f].at = "submitting"
    /\ flusher[f].asked < Len(flusher[f].batch)
    /\ LET o == flusher[f].batch[flusher[f].asked + 1] IN
       \E accepted \in SUBSET {o}, answered \in BOOLEAN :
          /\ live' = Took(accepted)
          /\ flusher' = [flusher EXCEPT ![f].asked = @ + 1,
                                        ![f].ids = IF answered THEN @ \cup accepted ELSE @]
    /\ UNCHANGED <<client, pending, added, totals, cleared, reported, lost>>

\* The end of _submit_batch: the totals; then the pause if more is pending.
ReportBatch(f) ==
    LET b == flusher[f].batch
        ok == IF client = "dry_run" THEN Len(b) ELSE Cardinality(flusher[f].ids) IN
    /\ flusher[f].at = "submitting" /\ (client = "dry_run" \/ flusher[f].asked = Len(b))
    /\ totals' = [submitted |-> totals.submitted + Len(b),
                  succeeded |-> totals.succeeded + ok, failed |-> totals.failed + Len(b) - ok]
    /\ reported' = reported \cup ToSet(b)
    /\ flusher' = [flusher EXCEPT ![f] = [NoBatch EXCEPT !.at = IF pending = <<>> THEN "idle" ELSE "pausing"]]
    /\ UNCHANGED <<client, pending, added, cleared, lost, live>>

\* The coroutine is cancelled in an await: its batch is in no queue and in no total.
CancelFlush(f) ==
    /\ flusher[f].at # "idle"
    /\ lost' = lost \cup ToSet(flusher[f].batch)
    /\ flusher' = [flusher EXCEPT ![f] = NoBatch]
    /\ UNCHANGED <<client, pending, added, totals, cleared, reported, live>>

BatchNext ==
    \/ AddOrder \/ ClearPending
    \/ \E f \in Flushers :
          TakeBatch(f) \/ EndFlush(f) \/ PostBatch(f) \/ PostNext(f) \/ ReportBatch(f) \/ CancelFlush(f)

BatchSpec == BatchInit /\ [][BatchNext]_batchVars

-----------------------------------------------------------------------------
\* Safety.  However flushes, additions, clears, timeouts and cancellations interleave, the
\* exchange takes no order twice, an order that is still pending or was cleared has not
\* been sent, and the totals count each reported order once.
NoOrderIsSentTwice ==
    /\ \A o \in Orders : live[o] <= 1
    /\ \A o \in ToSet(pending) \cup cleared : live[o] = 0
    /\ totals.submitted = totals.succeeded + totals.failed
    /\ totals.submitted = Cardinality(reported)
=============================================================================
