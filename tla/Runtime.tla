------------------------------- MODULE Runtime -------------------------------
(***************************************************************************)
(* The tasks of src/aismixer.py and how they live and die together: a      *)
(* listener and an ingress reader for each source, the fan-in task that    *)
(* owns the readers, the processor stage, the egress stage, and main,      *)
(* which supervises all of them.  The admission queue is module Admission; *)
(* processing a frame is abstracted to the dispatches it leads to (module  *)
(* Processor has the detail).  A step is what one task does between two    *)
(* suspensions; one that cancels a task only marks it, and the task ends   *)
(* when it is next scheduled.  An interrupt that comes when the program is *)
(* already ending is left out.                                             *)
(***************************************************************************)
EXTENDS Naturals, Sequences, FiniteSets

CONSTANTS
  Sources,         \* the inputs: one listener, queue and reader each
  InboxCapacity,   \* ingress_queue_maxsize
  Capacity,        \* processing_queue_maxsize
  Targets,         \* the forwarder's destinations
  Endpoint,        \* host, port and source address of each: targets may share one
  Batches,         \* the dispatches a frame can lead to: sequences of targets
  MaxFrames,       \* bound of the model: frames from each source
  MaxGeneration    \* bound of the model: routing replacements

ASSUME RuntimeAssumption ==
  /\ IsFiniteSet(Sources)
  /\ InboxCapacity \in Nat \ {0}
  /\ Capacity \in Nat \ {0}
  /\ Batches \subseteq Seq(Targets)
  /\ MaxFrames \in Nat
  /\ MaxGeneration \in Nat

VARIABLES
  inbox,        \* the queue of each source
  arrived,      \* history: frames queued by each source
  value, sleeping, granted, work, generation,   \* see Admission
  begun,        \* history: frames of each source that were processed
  egressQueue,  \* batches put by the processor
  hand,         \* the batch the egress stage is dispatching, if any
  completion,   \* the future the processor waits on
  transports,   \* endpoints whose transport is open
  sent,         \* history: the dispatches made
  task,         \* state of every task
  supervisor    \* state of main

ingressVars == <<inbox, arrived>>
semaphoreVars == <<value, sleeping, granted>>
queueVars == <<semaphoreVars, work>>
egressVars == <<egressQueue, hand, transports, sent>>
taskVars == <<task, supervisor>>
vars == <<ingressVars, queueVars, generation, begun, egressVars, completion,
          taskVars>>

Endpoints == {Endpoint[t] : t \in Targets}

Frame == [source : Sources, number : 1 .. MaxFrames]

Queue == INSTANCE Admission WITH Readers <- Sources, Frames <- Frame

-----------------------------------------------------------------------------
(* Tasks.                                                                  *)

Listener(s) == <<"listener", s>>
Reader(s) == <<"reader", s>>
FanIn == <<"ingress-fan-in">>
ProcessorStage == <<"processor-stage">>
EgressStage == <<"egress-stage">>

\* The tasks main owns, and those the fan-in task owns.
Owned == {Listener(s) : s \in Sources} \cup {FanIn, ProcessorStage, EgressStage}
ReaderTasks == {Reader(s) : s \in Sources}
Tasks == Owned \cup ReaderTasks

Runs(t) == task[t] = "runs"
Ended(t) == task[t] = "ended"
End(t) == task' = [task EXCEPT ![t] = "ended"] /\ UNCHANGED supervisor

\* cancel() on each of the tasks ts that is not done.  The fan-in task that is
\* already waiting for its readers goes on doing so.
Cancelled(ts, state) ==
  [t \in Tasks |-> IF t \in ts /\ state[t] = "runs" THEN "cancelled" ELSE state[t]]

-----------------------------------------------------------------------------
(* Listeners.                                                              *)

\* A frame is received and put; with a full queue the listener waits.
Arrive(s) ==
  /\ Runs(Listener(s))
  /\ arrived[s] < MaxFrames
  /\ Len(inbox[s]) < InboxCapacity
  /\ arrived' = [arrived EXCEPT ![s] = @ + 1]
  /\ inbox' = [inbox EXCEPT ![s] = Append(@, [source |-> s, number |-> arrived[s] + 1])]
  /\ UNCHANGED <<queueVars, generation, begun, egressVars, completion, taskVars>>

\* The socket fails, or the cancellation is delivered.
ListenerEnds(s) ==
  /\ task[Listener(s)] \in {"runs", "cancelled"}
  /\ End(Listener(s))
  /\ UNCHANGED <<ingressVars, queueVars, generation, begun, egressVars, completion>>

-----------------------------------------------------------------------------
(* Ingress readers and the fan-in task.                                    *)

Dequeue(s) ==
  /\ inbox[s] # <<>>
  /\ inbox' = [inbox EXCEPT ![s] = Tail(@)]
  /\ UNCHANGED arrived

\* q.get, then admit: at once, or asleep until a permit is handed over.
Read(s) ==
  /\ Runs(Reader(s))
  /\ Dequeue(s)
  /\ Queue!Admit(s, Head(inbox[s]))
  /\ UNCHANGED <<generation, begun, egressVars, completion, taskVars>>

Admitted(s) ==
  /\ Runs(Reader(s))
  /\ \E w \in granted : w.reader = s /\ Queue!Resume(w)
  /\ UNCHANGED <<ingressVars, generation, begun, egressVars, completion, taskVars>>

\* Binding the frame raises: the frame is lost and the reader ends.
BindingFails(s) ==
  /\ Runs(Reader(s))
  /\ \/ Dequeue(s) /\ ~Queue!Busy(s) /\ Queue!Free /\ UNCHANGED queueVars
     \/ UNCHANGED ingressVars /\ \E w \in granted : w.reader = s /\ Queue!BindingFails(w)
  /\ End(Reader(s))
  /\ UNCHANGED <<generation, begun, egressVars, completion>>

\* A reader handles its cancellation; a permit it was handed goes back.
ReaderCancelled(s) ==
  /\ task[Reader(s)] = "cancelled"
  /\ IF \E w \in granted : w.reader = s
     THEN \E w \in granted : w.reader = s /\ Queue!CancelGranted(w)
     ELSE UNCHANGED queueVars
  /\ End(Reader(s))
  /\ UNCHANGED <<ingressVars, generation, begun, egressVars, completion>>

\* A reader has ended, or the fan-in task is cancelled: it cancels all readers,
\* whose waits for a permit end there and then.
CancelReaders ==
  /\ \/ Runs(FanIn) /\ \E t \in ReaderTasks : Ended(t)
     \/ task[FanIn] = "cancelled"
  /\ task' = Cancelled(ReaderTasks, [task EXCEPT ![FanIn] = "cleaning"])
  /\ sleeping' = <<>>
  /\ UNCHANGED <<ingressVars, value, granted, work, generation, begun, egressVars,
                 completion, supervisor>>

FanInEnds_Bug ==
  /\ task[FanIn] = "cleaning"
  /\ End(FanIn)
  /\ UNCHANGED <<ingressVars, queueVars, generation, begun, egressVars, completion>>

\* The readers' outcomes are retrieved; the fan-in task ends after them.
FanInEnds ==
  /\ task[FanIn] = "cleaning"
  /\ \A t \in ReaderTasks : Ended(t)
  /\ End(FanIn)
  /\ UNCHANGED <<ingressVars, queueVars, generation, begun, egressVars, completion>>

-----------------------------------------------------------------------------
(* The processor stage.                                                    *)

\* One item: get, process and put, without suspending.  That the put does not
\* wait is BarrierHolds.
Process ==
  /\ Runs(ProcessorStage)
  /\ completion = "none"
  /\ Queue!Take
  /\ begun' = [begun EXCEPT ![Head(work).frame.source] = @ + 1]
  /\ \E outputs \in Batches :
       IF outputs = <<>>
       THEN UNCHANGED <<egressQueue, completion>>
       ELSE /\ egressQueue' =
                 Append(egressQueue, [item |-> Head(work), outputs |-> outputs, next |-> 1])
            /\ completion' = "pending"
  /\ UNCHANGED <<ingressVars, generation, hand, transports, sent, taskVars>>

\* process raises.
ProcessFails ==
  /\ Runs(ProcessorStage)
  /\ completion = "none"
  /\ Queue!Take
  /\ End(ProcessorStage)
  /\ UNCHANGED <<ingressVars, generation, begun, egressVars, completion>>

\* The barrier opens.
Completed ==
  /\ Runs(ProcessorStage)
  /\ completion = "done"
  /\ completion' = "none"
  /\ UNCHANGED <<ingressVars, queueVars, generation, begun, egressVars, taskVars>>

\* The batch failed: its exception comes out of the barrier.
CompletionFails ==
  /\ Runs(ProcessorStage)
  /\ completion = "failed"
  /\ End(ProcessorStage)
  /\ UNCHANGED <<ingressVars, queueVars, generation, begun, egressVars, completion>>

\* A future is resolved once.
Resolved(outcome) == IF completion = "pending" THEN outcome ELSE completion

ProcessorCancelled ==
  /\ task[ProcessorStage] = "cancelled"
  /\ completion' = Resolved("cancelled")
  /\ End(ProcessorStage)
  /\ UNCHANGED <<ingressVars, queueVars, generation, begun, egressVars>>

-----------------------------------------------------------------------------
(* The egress stage.                                                       *)

EgressTakes ==
  /\ Runs(EgressStage)
  /\ hand = <<>> /\ egressQueue # <<>>
  /\ hand' = <<Head(egressQueue)>>
  /\ egressQueue' = Tail(egressQueue)
  /\ UNCHANGED <<ingressVars, queueVars, generation, begun, completion, transports,
                 sent, taskVars>>

\* _ensure_transport for the next dispatch of batch b: an endpoint is opened once.
Ensured(b) == transports \cup {Endpoint[b.outputs[b.next]]}

Sent(b) ==
  Append(sent, [frame |-> b.item.frame, generation |-> b.item.generation,
                part |-> b.next])

Dispatch_Bug ==
  /\ Runs(EgressStage)
  /\ \E b \in {hand[i] : i \in DOMAIN hand} :
       /\ transports' = Ensured(b)
       /\ sent' = Sent(b)
       /\ hand' = IF b.next = Len(b.outputs) THEN <<>>
                  ELSE <<[b EXCEPT !.next = @ + 1]>>
       /\ completion' = Resolved("done")
  /\ UNCHANGED <<ingressVars, queueVars, generation, begun, egressQueue, taskVars>>

\* One target of one output: its transport is created if there is none, and the
\* datagram sent.  After the last one the barrier is opened.
Dispatch ==
  /\ Runs(EgressStage)
  /\ \E b \in {hand[i] : i \in DOMAIN hand} :
       /\ transports' = Ensured(b)
       /\ sent' = Sent(b)
       /\ IF b.next = Len(b.outputs)
          THEN hand' = <<>> /\ completion' = Resolved("done")
          ELSE hand' = <<[b EXCEPT !.next = @ + 1]>> /\ UNCHANGED completion
  /\ UNCHANGED <<ingressVars, queueVars, generation, begun, egressQueue, taskVars>>

DispatchFails_Bug ==
  /\ Runs(EgressStage)
  /\ \E b \in {hand[i] : i \in DOMAIN hand} : Ensured(b) # transports
  /\ End(EgressStage)
  /\ UNCHANGED <<ingressVars, queueVars, generation, begun, egressVars, completion>>

\* The transport of a target cannot be created: the batch fails and the stage
\* ends.
DispatchFails ==
  /\ Runs(EgressStage)
  /\ \E b \in {hand[i] : i \in DOMAIN hand} : Ensured(b) # transports
  /\ completion' = Resolved("failed")
  /\ End(EgressStage)
  /\ UNCHANGED <<ingressVars, queueVars, generation, begun, egressVars>>

EgressCancelled ==
  /\ task[EgressStage] = "cancelled"
  /\ completion' = IF hand # <<>> THEN Resolved("cancelled") ELSE completion
  /\ End(EgressStage)
  /\ UNCHANGED <<ingressVars, queueVars, generation, begun, egressVars>>

-----------------------------------------------------------------------------
(* main.                                                                   *)

CancelAll ==
  /\ task' = Cancelled(Owned, task)
  /\ supervisor' = "cancels"
  /\ UNCHANGED <<ingressVars, queueVars, generation, begun, egressVars, completion>>

Notice_Bug ==
  /\ supervisor = "waits"
  /\ \A t \in Owned : Ended(t)
  /\ CancelAll

\* A task main owns has ended, in whatever way.
Notice ==
  /\ supervisor = "waits"
  /\ \E t \in Owned : Ended(t)
  /\ CancelAll

\* main itself is cancelled (the program is interrupted).
Interrupt == supervisor = "waits" /\ CancelAll

\* Every task has ended: the inputs' sockets are closed, and the control server
\* told to close and waited for (without one, Close follows at once).
StopControl ==
  /\ supervisor = "cancels"
  /\ \A t \in Owned : Ended(t)
  /\ supervisor' = "stops control"
  /\ UNCHANGED <<ingressVars, queueVars, generation, begun, egressVars, completion, task>>

\* The control server has closed, when it serves no client any more (module
\* ControlSocket): the transports are closed.
Close ==
  /\ supervisor = "stops control"
  /\ supervisor' = "closed"
  /\ transports' = {}
  /\ UNCHANGED <<ingressVars, queueVars, generation, begun, egressQueue, hand, sent,
                 completion, task>>

\* A new routing table is installed, by an operator who may still be served when
\* every task has ended.
Replace ==
  /\ supervisor # "closed"
  /\ Queue!Replace
  /\ UNCHANGED <<ingressVars, begun, egressVars, completion, taskVars>>

-----------------------------------------------------------------------------

Init ==
  /\ inbox = [s \in Sources |-> <<>>]
  /\ arrived = [s \in Sources |-> 0]
  /\ Queue!Init
  /\ begun = [s \in Sources |-> 0]
  /\ egressQueue = <<>>
  /\ hand = <<>>
  /\ completion = "none"
  /\ transports = {}
  /\ sent = <<>>
  /\ task = [t \in Tasks |-> "runs"]
  /\ supervisor = "waits"

\* What a task does of its own when it is scheduled.
Scheduled(s) == Read(s) \/ Admitted(s) \/ ReaderCancelled(s)
Stages == Process \/ Completed \/ CompletionFails \/ ProcessorCancelled
Egress == EgressTakes \/ Dispatch \/ EgressCancelled
Supervision == CancelReaders \/ FanInEnds \/ Notice \/ StopControl \/ Close

Next ==
  \/ \E s \in Sources : Arrive(s) \/ ListenerEnds(s) \/ Scheduled(s) \/ BindingFails(s)
  \/ Stages \/ ProcessFails
  \/ Egress \/ DispatchFails
  \/ Supervision \/ Interrupt
  \/ Replace

CancelledListenerEnds(s) == task[Listener(s)] = "cancelled" /\ ListenerEnds(s)

\* The event loop runs every task that is ready.  Nothing is assumed of
\* arrivals, failures, interrupts and replacements; of the control server, that it
\* closes: its clients do not stay connected for ever.
Fairness ==
  /\ \A s \in Sources : WF_vars(Scheduled(s)) /\ WF_vars(CancelledListenerEnds(s))
  /\ WF_vars(Stages)
  /\ WF_vars(Egress \/ DispatchFails)
  /\ WF_vars(CancelReaders) /\ WF_vars(FanInEnds)
  /\ WF_vars(Notice) /\ WF_vars(StopControl) /\ WF_vars(Close)

Spec == Init /\ [][Next]_vars

FairSpec == Spec /\ Fairness

-----------------------------------------------------------------------------
(* Properties.                                                             *)

Batch == [item : [frame : Frame, generation : 0 .. generation],
          outputs : Batches, next : Nat \ {0}]

\* Every variable has its type and the queues their bounds.
TypeOK ==
  /\ \A s \in Sources : inbox[s] \in Seq(Frame) /\ Len(inbox[s]) <= InboxCapacity
  /\ Queue!TypeOK
  /\ Len(work) <= Capacity
  /\ egressQueue \in Seq(Batch) /\ Len(egressQueue) <= 1
  /\ hand \in Seq(Batch) /\ Len(hand) <= 1
  /\ completion \in {"none", "pending", "done", "failed", "cancelled"}
  /\ transports \subseteq Endpoints
  /\ \A t \in Tasks \ {FanIn} : task[t] \in {"runs", "cancelled", "ended"}
  /\ task[FanIn] \in {"runs", "cancelled", "cleaning", "ended"}
  /\ supervisor \in {"waits", "cancels", "stops control", "closed"}

\* The processor takes the next item only when nothing of the last one is left
\* with the egress stage; so its put never waits.
BarrierHolds ==
  completion = "none" \/ completion = "done" => egressQueue = <<>> /\ hand = <<>>

\* While the processor waits at the barrier somebody is going to open it: the
\* egress stage is alive and has the batch, or the processor is being cancelled
\* too.
BarrierWillOpen ==
  Runs(ProcessorStage) /\ completion = "pending" =>
    Runs(EgressStage) /\ Len(egressQueue) + Len(hand) = 1

\* The types and the two faces of the barrier between the stages.
Consistent == TypeOK /\ BarrierHolds /\ BarrierWillOpen

\* No task outlives its owner: readers end before the fan-in task, everything
\* before main returns, and no transport is open then.
NoOrphans ==
  /\ Ended(FanIn) => \A t \in ReaderTasks : Ended(t)
  /\ supervisor = "closed" => transports = {} /\ \A t \in Tasks : Ended(t)

Under(b) == [frame |-> b.item.frame, generation |-> b.item.generation,
             next |-> b.next, last |-> Len(b.outputs)]

Outstanding ==
  LET batches == hand \o egressQueue
  IN  [i \in DOMAIN batches |-> Under(batches[i])]

\* The processor stage goes on taking frames until it ends or is being cancelled.
Promise == INSTANCE Delivery WITH
  Lengths <- {Len(b) : b \in Batches}, current <- Outstanding,
  accepted <- IF Runs(ProcessorStage) THEN work ELSE <<>>,
  stopped <- ~Runs(ProcessorStage)

\* The runtime delivers in order and at most once, and each frame under the
\* generation that was in force when admit put it into the work queue, where it may
\* wait while others are installed.
Delivers == Promise!Spec

\* Every frame that was queued is processed, unless the program ends.
FramesAreHandled ==
  <>(supervisor = "closed") \/ <>[](begun = arrived)

\* When any task ends, in any way, everything ends and is closed.
EndsTogether == (\E t \in Tasks : Ended(t)) ~> supervisor = "closed"
=============================================================================
