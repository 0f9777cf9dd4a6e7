-------------------------- MODULE RuntimeStatistics --------------------------
(***************************************************************************)
(* The counters of the runtime: those of the ingress, processing and       *)
(* egress queues and of the egress stage (src/aismixer.py), which the      *)
(* control server reads for a statistics request.  It may do so wherever   *)
(* the tasks of module Runtime are suspended, that is in every state, and  *)
(* src/core/metrics.py refuses counters that do not add up.                *)
(*                                                                         *)
(* Counters only grow: a queue keeps net, enqueued less dequeued, and the  *)
(* stage keeps open, batches started less those completed, failed and      *)
(* cancelled.  A batch's outputs are counted like the batch, and who waits *)
(* in put of a full ingress queue like who waits for capacity: both are    *)
(* left out.                                                               *)
(***************************************************************************)
EXTENDS Runtime, Integers

VARIABLES
  counts,   \* [ingress, processing, egress, waiters, batches]
  waited    \* the readers whose admit found no capacity: waited_for_capacity

counted == <<counts, waited>>

EgressCapacity == 1

-----------------------------------------------------------------------------
(* The counters' owners.                                                   *)

\* put_nowait, which leaves depth items in the queue; admit counts alike.
Put(q, depth) == [net |-> q.net + 1, peak |-> IF depth > q.peak THEN depth ELSE q.peak]

\* get_nowait, and get of the processing queue.
Got(q) == [q EXCEPT !.net = @ - 1]

BatchStarted(b) == [open |-> b.open + 1, active |-> b.active + 1]

\* batch_completed, batch_failed and batch_cancelled.
BatchEnded(b) == [open |-> b.open - 1, active |-> b.active - 1]

\* admit has acquired a permit or been cancelled: it no longer waits.
WaitOver(s) ==
  /\ waited' = waited \ {s}
  /\ counts' = [counts EXCEPT !.waiters = IF s \in waited THEN @ - 1 ELSE @]

-----------------------------------------------------------------------------
(* The steps of Runtime that count.                                        *)

ArriveCounts(s) ==
  /\ Arrive(s)
  /\ counts' = [counts EXCEPT !.ingress[s] = Put(@, Len(inbox'[s]))]
  /\ UNCHANGED waited

ReadCounts(s) ==
  /\ Read(s)
  /\ IF Queue!Free
     THEN /\ counts' = [counts EXCEPT !.ingress[s] = Got(@),
                                      !.processing = Put(@, Len(work'))]
          /\ UNCHANGED waited
     ELSE /\ counts' = [counts EXCEPT !.ingress[s] = Got(@), !.waiters = @ + 1]
          /\ waited' = waited \cup {s}

AdmittedCounts(s) ==
  /\ Admitted(s)
  /\ waited' = waited \ {s}
  /\ counts' = [counts EXCEPT !.waiters = @ - 1, !.processing = Put(@, Len(work'))]

\* At once, or when the reader has waited.
BindingFailsCounts(s) ==
  /\ BindingFails(s)
  /\ IF s \in waited THEN WaitOver(s)
     ELSE counts' = [counts EXCEPT !.ingress[s] = Got(@)] /\ UNCHANGED waited

ReaderCancelledCounts_Bug(s) == ReaderCancelled(s) /\ UNCHANGED counted

ReaderCancelledCounts(s) == ReaderCancelled(s) /\ WaitOver(s)

ProcessCounts ==
  /\ Process
  /\ counts' = [counts EXCEPT
       !.processing = Got(@),
       !.egress = IF egressQueue' = egressQueue THEN @ ELSE Put(@, Len(egressQueue'))]
  /\ UNCHANGED waited

ProcessFailsCounts ==
  /\ ProcessFails
  /\ counts' = [counts EXCEPT !.processing = Got(@)]
  /\ UNCHANGED waited

EgressTakesCounts ==
  /\ EgressTakes
  /\ counts' = [counts EXCEPT !.egress = Got(@), !.batches = BatchStarted(@)]
  /\ UNCHANGED waited

DispatchCounts ==
  /\ Dispatch
  /\ counts' = [counts EXCEPT !.batches = IF hand' = <<>> THEN BatchEnded(@) ELSE @]
  /\ UNCHANGED waited

DispatchFailsCounts ==
  /\ DispatchFails
  /\ counts' = [counts EXCEPT !.batches = BatchEnded(@)]
  /\ UNCHANGED waited

EgressCancelledCounts ==
  /\ EgressCancelled
  /\ counts' = [counts EXCEPT !.batches = IF hand # <<>> THEN BatchEnded(@) ELSE @]
  /\ UNCHANGED waited

Uncounted ==
  \/ \E s \in Sources : ListenerEnds(s)
  \/ Completed \/ CompletionFails \/ ProcessorCancelled
  \/ Supervision \/ Interrupt \/ Replace

-----------------------------------------------------------------------------

CountedInit ==
  /\ Init
  /\ LET q == [net |-> 0, peak |-> 0]
     IN  counts = [ingress |-> [s \in Sources |-> q], processing |-> q, egress |-> q,
                   waiters |-> 0, batches |-> [open |-> 0, active |-> 0]]
  /\ waited = {}

CountedNext ==
  \/ \E s \in Sources :
       \/ ArriveCounts(s) \/ ReadCounts(s) \/ AdmittedCounts(s)
       \/ BindingFailsCounts(s) \/ ReaderCancelledCounts(s)
  \/ ProcessCounts \/ ProcessFailsCounts
  \/ EgressTakesCounts \/ DispatchCounts \/ DispatchFailsCounts \/ EgressCancelledCounts
  \/ Uncounted /\ UNCHANGED counted

CountedSpec == CountedInit /\ [][CountedNext]_<<vars, counted>>

CountedFairSpec == CountedSpec /\ Fairness

-----------------------------------------------------------------------------
(* Properties.                                                             *)

\* QueueMetricsSnapshot accepts the counters of a queue of depth items.
QueueAccepted(q, depth, capacity) ==
  /\ depth <= capacity
  /\ depth <= q.peak /\ q.peak <= capacity
  /\ q.net = depth

\* A statistics request is answered whenever it comes, because the counters add
\* up wherever the tasks are suspended: what is queued, who waits for capacity,
\* and the batch under way, however each of them ends.  Nobody is said to wait
\* and nothing to be under way once everything has ended.
StatisticsAddUp ==
  /\ \A s \in Sources : QueueAccepted(counts.ingress[s], Len(inbox[s]), InboxCapacity)
  /\ QueueAccepted(counts.processing, Len(work), Capacity)
  /\ QueueAccepted(counts.egress, Len(egressQueue), EgressCapacity)
  /\ counts.waiters = Cardinality(waited)
  /\ \A s \in waited : ~Ended(Reader(s))
  /\ counts.batches.open = counts.batches.active
  /\ counts.batches.active = IF hand # <<>> /\ ~Ended(EgressStage) THEN 1 ELSE 0
=============================================================================
