---------------------------- MODULE Runtime_proofs ----------------------------
(***************************************************************************)
(* For any sources, capacities, dispatches and any end of any task: the    *)
(* stages never overlap on a batch, no task outlives its owner, and the    *)
(* runtime implements module Delivery.  The counters of RuntimeStatistics  *)
(* add up.  What module Admission promises is taken from its proofs.       *)
(***************************************************************************)
EXTENDS RuntimeStatistics, SequenceTheorems, FiniteSetTheorems, TLAPS

Permits == INSTANCE Admission_proofs WITH Readers <- Sources, Frames <- Frame

-----------------------------------------------------------------------------
(* The admission queue inside the runtime.                                 *)

\* The constants are as Admission_proofs assumes them.
LEMMA Assumed == ASSUME RuntimeAssumption PROVE Permits!AdmissionAssumption
BY RuntimeAssumption DEF RuntimeAssumption, Permits!AdmissionAssumption, IsFiniteSet,
                         Permits!IsFiniteSet

\* Both instances of module Admission are the same.
LEMMA SameWaits ==
  /\ Queue!Waiting = Permits!Waiting
  /\ \A s \in Sources : Queue!Busy(s) <=> \E w \in Queue!Waiting : w.reader = s
BY DEF Queue!Waiting, Permits!Waiting, Queue!Busy

\* A call of admit is one of the two cases of module Admission.
LEMMA SameAdmit ==
  ASSUME NEW s, NEW f
  PROVE  Queue!Admit(s, f) <=> Permits!AdmitNow(s, f) \/ Permits!AdmitLater(s, f)
BY DEF Queue!Admit, Queue!AdmitNow, Queue!AdmitLater, Queue!Busy, Queue!Free, Queue!Waiting,
       Queue!Request, Queue!Bound, Permits!AdmitNow, Permits!AdmitLater, Permits!Busy,
       Permits!Free, Permits!Waiting, Permits!Request, Permits!Bound

\* get is the same step.
LEMMA SameTake == Queue!Take <=> Permits!Take
BY DEF Queue!Take, Queue!Release, Queue!Wake, Permits!Take, Permits!Release, Permits!Wake

\* A routing replacement is the same step.
LEMMA SameReplace == Queue!Replace <=> Permits!Replace
BY DEF Queue!Replace, Queue!admissionVars, Queue!semaphoreVars,
       Permits!Replace, Permits!admissionVars, Permits!semaphoreVars

\* The three ways out of a wait with a permit are the same steps.
LEMMA SameEnds ==
  ASSUME NEW w
  PROVE  /\ Queue!Resume(w) <=> Permits!Resume(w)
         /\ Queue!BindingFails(w) <=> Permits!BindingFails(w)
         /\ Queue!CancelGranted(w) <=> Permits!CancelGranted(w)
<1>1. Queue!Resume(w) <=> Permits!Resume(w)
  BY DEF Queue!Resume, Queue!Leave, Queue!Wake, Queue!Bound,
         Permits!Resume, Permits!Leave, Permits!Wake, Permits!Bound
<1>2. Queue!BindingFails(w) <=> Permits!BindingFails(w)
  BY DEF Queue!BindingFails, Queue!ReleaseAfterFailure, Queue!Release, Queue!Wake,
         Permits!BindingFails, Permits!ReleaseAfterFailure, Permits!Release, Permits!Wake
<1>3. Queue!CancelGranted(w) <=> Permits!CancelGranted(w)
  BY DEF Queue!CancelGranted, Queue!Release, Queue!Wake,
         Permits!CancelGranted, Permits!Release, Permits!Wake
<1> QED BY <1>1, <1>2, <1>3

\* What Admission_proofs keeps.
QueueInv == Permits!IInv

\* The queue starts in its invariant.
LEMMA InitQueueInv == ASSUME RuntimeAssumption, Init PROVE QueueInv
<1>1. Permits!Init
  BY DEF Init, Queue!Init, Permits!Init
<1> QED BY <1>1, Assumed, Permits!InitIInv DEF QueueInv

\* What the invariant says, in this module's terms.
QueueTypes ==
  /\ sleeping \in Seq(Permits!Requests)
  /\ granted \subseteq Permits!Requests
  /\ work \in Seq([frame : Frame, generation : 0 .. generation])
  /\ Len(work) \in 0 .. Capacity
  /\ generation \in Nat
  /\ Queue!TypeOK

\* The invariant of the queue gives its types and its bound.
LEMMA FromQueueInv == ASSUME RuntimeAssumption, QueueInv PROVE QueueTypes
<1>1. /\ value \in Nat /\ Capacity \in Nat /\ Len(work) \in Nat
      /\ Permits!Cardinality(granted) \in Nat
      /\ value + Permits!Cardinality(granted) + Len(work) = Capacity
  BY Assumed, Permits!FromIInv DEF QueueInv
<1>2. Permits!TypeOK
  BY DEF QueueInv, Permits!IInv
<1>3. Queue!TypeOK
  BY <1>2 DEF Permits!TypeOK, Permits!Requests, Permits!OneWaitEach,
              Queue!TypeOK, Queue!Requests, Queue!OneWaitEach
<1>4. Len(work) \in 0 .. Capacity
  BY <1>1
<1> QED BY <1>2, <1>3, <1>4 DEF Permits!TypeOK, QueueTypes

\* A source waits at most once, and for a frame.
LEMMA WaitsAreTyped ==
  ASSUME RuntimeAssumption, QueueInv
  PROVE  /\ \A w \in Queue!Waiting : w.reader \in Sources /\ w.frame \in Frame
         /\ \A x, w \in Queue!Waiting : x.reader = w.reader => x = w
<1>1. QueueTypes
  BY FromQueueInv
<1>2. Permits!OneWaitEach(sleeping, granted)
  BY DEF QueueInv, Permits!IInv, Permits!TypeOK
<1>3. \A w \in Queue!Waiting : w \in Permits!Requests
  BY <1>1 DEF QueueTypes, Queue!Waiting
<1>4. \A x, w \in Queue!Waiting : x.reader = w.reader => x = w
  BY <1>2 DEF Permits!OneWaitEach, Queue!Waiting
<1> QED BY <1>3, <1>4 DEF Permits!Requests

-----------------------------------------------------------------------------
(* Each operation on the queue, and what it does to who waits.             *)

\* An operation keeps the invariant of the queue.
LEMMA QueueNext ==
  ASSUME RuntimeAssumption, QueueInv, Permits!Next \/ UNCHANGED <<queueVars, generation>>
  PROVE  QueueInv'
<1>1. [Permits!Next]_Permits!vars
  BY DEF queueVars, semaphoreVars, Permits!vars, Permits!admissionVars, Permits!semaphoreVars
<1> QED BY <1>1, Assumed, Permits!StepIInv DEF QueueInv

\* admit binds and queues the frame, or makes its reader wait with it.
LEMMA OnAdmit ==
  ASSUME RuntimeAssumption, QueueInv, NEW s \in Sources, NEW f \in Frame, Queue!Admit(s, f),
         UNCHANGED generation
  PROVE  /\ QueueInv'
         /\ ~Queue!Busy(s)
         /\ \/ /\ Queue!Waiting' = Queue!Waiting
               /\ work' = Append(work, [frame |-> f, generation |-> generation])
            \/ /\ \E w : /\ Queue!Waiting' = Queue!Waiting \cup {w}
                         /\ w.reader = s /\ w.frame = f
               /\ work' = work
<1>1. QueueInv'
  BY SameAdmit, QueueNext DEF Permits!Next, Permits!Admit
<1>2. ~Queue!Busy(s)
  BY DEF Queue!Admit, Queue!AdmitNow, Queue!AdmitLater
<1>3. CASE Queue!AdmitNow(s, f)
  BY <1>1, <1>2, <1>3 DEF Queue!AdmitNow, Queue!Bound, Queue!Request, Queue!Waiting
<1>4. CASE Queue!AdmitLater(s, f)
  <2>1. sleeping' = Append(sleeping, Queue!Request(s, f)) /\ UNCHANGED <<granted, work>>
    BY <1>4 DEF Queue!AdmitLater
  <2>2. sleeping \in Seq(Permits!Requests)
    BY FromQueueInv DEF QueueTypes
  <2>3. Queue!Request(s, f).reader = s /\ Queue!Request(s, f).frame = f
    BY DEF Queue!Request
  <2>4. {sleeping'[i] : i \in DOMAIN sleeping'}
          = {sleeping[i] : i \in DOMAIN sleeping} \cup {Queue!Request(s, f)}
    BY <2>1, <2>2
  <2>5. Queue!Waiting' = Queue!Waiting \cup {Queue!Request(s, f)}
    BY <2>1, <2>4 DEF Queue!Waiting
  <2> QED BY <1>1, <1>2, <2>1, <2>3, <2>5
<1> QED BY <1>3, <1>4 DEF Queue!Admit

\* A wait with a permit ends: its frame is queued, or dropped.
LEMMA OnWaitEnds ==
  ASSUME RuntimeAssumption, QueueInv, NEW w \in granted,
         Queue!Resume(w) \/ Queue!BindingFails(w) \/ Queue!CancelGranted(w),
         UNCHANGED generation
  PROVE  /\ QueueInv'
         /\ w \in Queue!Waiting
         /\ Queue!Waiting' = Queue!Waiting \ {w}
         /\ Queue!Resume(w) =>
              work' = Append(work, [frame |-> w.frame, generation |-> generation])
         /\ ~Queue!Resume(w) => work' = work
<1>1. Permits!Resume(w) \/ Permits!BindingFails(w) \/ Permits!CancelGranted(w)
  BY SameEnds
<1>2. w \in Permits!Waiting
  BY DEF Permits!Waiting
<1>3. Permits!Next
  BY <1>1, <1>2 DEF Permits!Next, Permits!Reader
<1>4. QueueInv'
  BY <1>3, QueueNext
<1>5. Permits!Waiting' = Permits!Waiting \ {w}
  BY <1>1, Assumed, Permits!WaitEnds DEF QueueInv
<1>6. Queue!Waiting = Permits!Waiting /\ Queue!Waiting' = Permits!Waiting'
  BY DEF Queue!Waiting, Permits!Waiting
<1>7. Queue!Resume(w) =>
        work' = Append(work, [frame |-> w.frame, generation |-> generation])
  BY DEF Queue!Resume, Queue!Bound
<1>8. ~Queue!Resume(w) => work' = work
  BY DEF Queue!BindingFails, Queue!CancelGranted
<1> QED BY <1>2, <1>4, <1>5, <1>6, <1>7, <1>8

\* get takes the head of the queue; who waits goes on waiting.
LEMMA OnTake ==
  ASSUME RuntimeAssumption, QueueInv, Queue!Take, UNCHANGED generation
  PROVE  /\ QueueInv'
         /\ work # <<>> /\ work' = Tail(work)
         /\ Queue!Waiting' = Queue!Waiting
<1>1. QueueInv'
  BY SameTake, QueueNext DEF Permits!Next
<1>2. work # <<>> /\ work' = Tail(work)
  BY DEF Queue!Take
<1>3. Permits!Wake(value + 1, sleeping, granted)
  BY SameTake DEF Permits!Take, Permits!Release
<1>4. Permits!Waiting' = {sleeping[i] : i \in DOMAIN sleeping} \cup granted
  BY <1>3, Assumed, FromQueueInv, Permits!WakeKeepsWaiting DEF QueueTypes
<1>5. Queue!Waiting' = Permits!Waiting'
  BY DEF Queue!Waiting, Permits!Waiting
<1> QED BY <1>1, <1>2, <1>4, <1>5 DEF Queue!Waiting

\* The readers' waits end as they are cancelled; permits handed over are kept.
LEMMA OnCancelReaders ==
  ASSUME RuntimeAssumption, QueueInv, sleeping' = <<>>, UNCHANGED <<value, granted, work, generation>>
  PROVE  QueueInv' /\ Queue!Waiting' \subseteq Queue!Waiting
<1>1. sleeping' \in Seq(Permits!Requests')
  OBVIOUS
<1>2. Permits!Requests' = Permits!Requests
  BY DEF Permits!Requests
<1>3. Permits!OneWaitEach(sleeping', granted')
  BY DEF QueueInv, Permits!IInv, Permits!TypeOK, Permits!OneWaitEach
<1>4. Permits!TypeOK'
  BY <1>1, <1>2, <1>3 DEF QueueInv, Permits!IInv, Permits!TypeOK, Permits!OneWaitEach
<1>5. Permits!IInv'
  BY <1>4 DEF QueueInv, Permits!IInv, Permits!PermitsAreSlots
<1>6. Queue!Waiting' \subseteq Queue!Waiting
  BY DEF Queue!Waiting
<1> QED BY <1>5, <1>6 DEF QueueInv

-----------------------------------------------------------------------------
(* The tasks.                                                              *)

\* The names of the tasks differ.
LEMMA TasksDiffer ==
  /\ {FanIn, ProcessorStage, EgressStage} \subseteq Owned
  /\ FanIn # ProcessorStage /\ FanIn # EgressStage /\ ProcessorStage # EgressStage
  /\ \A s \in Sources :
       /\ Listener(s) \in Owned /\ Reader(s) \in ReaderTasks
       /\ Reader(s) \notin Owned
       /\ Listener(s) \notin {FanIn, ProcessorStage, EgressStage}
       /\ Reader(s) \notin {FanIn, ProcessorStage, EgressStage}
  /\ FanIn \notin ReaderTasks
  /\ Tasks = Owned \cup ReaderTasks
  /\ \A s, r : Reader(s) = Reader(r) => s = r
BY DEF FanIn, ProcessorStage, EgressStage, Listener, Reader, Owned, ReaderTasks, Tasks

TasksTyped ==
  /\ task \in [Tasks -> {"runs", "cancelled", "cleaning", "ended"}]
  /\ \A t \in Tasks \ {FanIn} : task[t] # "cleaning"
  /\ supervisor \in {"waits", "cancels", "stops control", "closed"}
  /\ supervisor \in {"stops control", "closed"} => \A t \in Owned : Ended(t)

\* The states of a task come in this order; a step that ends a task is not a
\* step of main, and the fan-in task ends after the readers.
TasksAdvance ==
  /\ TasksTyped'
  /\ \A t \in Tasks : /\ Ended(t) => Ended(t)'
                      /\ Runs(t)' => Runs(t)
                      /\ Ended(t)' /\ ~Ended(t) => UNCHANGED supervisor
                      /\ Ended(t)' /\ ~Ended(t) /\ t = FanIn =>
                           \A r \in ReaderTasks : Ended(r)

\* The end of a task takes no task back.
LEMMA EndAdvances ==
  ASSUME TasksTyped, NEW t \in Tasks, End(t),
         t = FanIn => \A r \in ReaderTasks : Ended(r)
  PROVE  TasksAdvance
<1>1. task' = [task EXCEPT ![t] = "ended"] /\ UNCHANGED supervisor /\ Owned \subseteq Tasks
  BY DEF End, Tasks
<1> QED BY <1>1 DEF TasksAdvance, TasksTyped, Ended, Runs

\* A step that changes no task does not take one back.
LEMMA StutterAdvances == ASSUME TasksTyped, UNCHANGED taskVars PROVE TasksAdvance
BY DEF TasksAdvance, TasksTyped, Ended, Runs, taskVars

\* No step takes a task back.
LEMMA TasksMonotone == ASSUME TasksTyped, [Next]_vars PROVE TasksAdvance
<1>1. /\ \A s \in Sources : /\ Listener(s) \in Tasks /\ Listener(s) # FanIn
                            /\ Reader(s) \in Tasks /\ Reader(s) # FanIn
      /\ ProcessorStage \in Tasks /\ ProcessorStage # FanIn
      /\ EgressStage \in Tasks /\ EgressStage # FanIn
      /\ FanIn \in Tasks /\ FanIn \notin ReaderTasks
  BY TasksDiffer
<1>2. ASSUME NEW s \in Sources, Arrive(s) \/ Read(s) \/ Admitted(s)
      PROVE  TasksAdvance
  <2>1. UNCHANGED taskVars
    BY <1>2 DEF Arrive, Read, Admitted
  <2> QED BY <2>1, StutterAdvances
<1>3. ASSUME NEW s \in Sources, ListenerEnds(s) PROVE TasksAdvance
  BY <1>1, <1>3, EndAdvances DEF ListenerEnds
<1>4. ASSUME NEW s \in Sources, ReaderCancelled(s) \/ BindingFails(s) PROVE TasksAdvance
  BY <1>1, <1>4, EndAdvances DEF ReaderCancelled, BindingFails
<1>5. ASSUME Process \/ Completed \/ EgressTakes \/ Dispatch \/ Replace \/ UNCHANGED vars
      PROVE  TasksAdvance
  <2>1. UNCHANGED taskVars
    BY <1>5 DEF Process, Completed, EgressTakes, Dispatch, Replace, vars
  <2> QED BY <2>1, StutterAdvances
<1>6. ASSUME ProcessFails \/ CompletionFails \/ ProcessorCancelled PROVE TasksAdvance
  BY <1>1, <1>6, EndAdvances DEF ProcessFails, CompletionFails, ProcessorCancelled
<1>7. ASSUME DispatchFails \/ EgressCancelled PROVE TasksAdvance
  BY <1>1, <1>7, EndAdvances DEF DispatchFails, EgressCancelled
<1>8. CASE FanInEnds
  BY <1>1, <1>8, EndAdvances DEF FanInEnds
<1>9. CASE CancelReaders
  <2>1. /\ task' = Cancelled(ReaderTasks, [task EXCEPT ![FanIn] = "cleaning"])
        /\ task[FanIn] # "ended" /\ UNCHANGED supervisor
    BY <1>9 DEF CancelReaders, Runs
  <2>2. supervisor \notin {"stops control", "closed"}
    BY <2>1 DEF TasksTyped, Ended, Owned
  <2> QED BY <1>1, <2>1, <2>2 DEF Cancelled, TasksAdvance, TasksTyped, Ended, Runs
<1>10. CASE CancelAll
  BY <1>10 DEF CancelAll, Cancelled, TasksAdvance, TasksTyped, Ended, Runs
<1>11. CASE StopControl \/ Close
  BY <1>11 DEF StopControl, Close, TasksAdvance, TasksTyped, Ended, Runs
<1> QED
  BY <1>2, <1>3, <1>4, <1>5, <1>6, <1>7, <1>8, <1>9, <1>10, <1>11
     DEF Next, Scheduled, Stages, Egress, Supervision, Notice, Interrupt

\* Which actions write main's state and the set of transports.
LEMMA Writers ==
  ASSUME [Next]_vars
  PROVE  /\ UNCHANGED supervisor \/ (supervisor = "waits" /\ CancelAll) \/ StopControl \/ Close
         /\ UNCHANGED transports \/ Dispatch \/ Close
<1>1. ASSUME NEW s \in Sources,
             Arrive(s) \/ ListenerEnds(s) \/ Scheduled(s) \/ BindingFails(s)
      PROVE  UNCHANGED <<supervisor, transports>>
  BY <1>1 DEF Arrive, ListenerEnds, Scheduled, Read, Admitted, ReaderCancelled,
              BindingFails, End, taskVars, egressVars
<1>2. ASSUME Stages \/ ProcessFails PROVE UNCHANGED <<supervisor, transports>>
  BY <1>2 DEF Stages, Process, Completed, CompletionFails, ProcessorCancelled,
              ProcessFails, End, taskVars, egressVars
<1>3. ASSUME EgressTakes \/ EgressCancelled \/ DispatchFails
      PROVE  UNCHANGED <<supervisor, transports>>
  BY <1>3 DEF EgressTakes, EgressCancelled, DispatchFails, End, taskVars, egressVars
<1>4. ASSUME Dispatch PROVE UNCHANGED supervisor
  BY <1>4 DEF Dispatch, taskVars
<1>5. ASSUME CancelReaders \/ FanInEnds PROVE UNCHANGED <<supervisor, transports>>
  BY <1>5 DEF CancelReaders, FanInEnds, End, egressVars
<1>6. ASSUME CancelAll PROVE UNCHANGED transports
  BY <1>6 DEF CancelAll, egressVars
<1>7. ASSUME Replace \/ UNCHANGED vars PROVE UNCHANGED <<supervisor, transports>>
  BY <1>7 DEF Replace, vars, taskVars, egressVars
<1>8. ASSUME StopControl PROVE UNCHANGED transports
  BY <1>8 DEF StopControl, egressVars
<1> QED
  BY <1>1, <1>2, <1>3, <1>4, <1>5, <1>6, <1>7, <1>8 DEF Next, Egress, Supervision, Notice, Interrupt

-----------------------------------------------------------------------------
(* No task outlives its owner.                                             *)

\* Every task runs at first.
LEMMA InitTasks == ASSUME Init PROVE TasksTyped /\ NoOrphans
BY TasksDiffer DEF Init, TasksTyped, NoOrphans, Ended

\* Every step keeps the owners behind what they own.
LEMMA StepNoOrphans == ASSUME TasksTyped, NoOrphans, [Next]_vars PROVE NoOrphans'
<1>1. TasksAdvance
  BY TasksMonotone
<1>2. Ended(FanIn)' => \A t \in ReaderTasks : Ended(t)'
  BY <1>1, TasksDiffer DEF TasksAdvance, NoOrphans
<1>3. CASE supervisor = "closed"
  <2>1. ~Dispatch /\ ~Close
    BY <1>3, TasksDiffer DEF NoOrphans, Dispatch, Close, Runs, Ended
  <2>2. transports' = {}
    BY <1>3, <2>1, Writers DEF NoOrphans
  <2> QED BY <1>1, <1>2, <1>3, <2>2 DEF TasksAdvance, NoOrphans
<1>4. CASE supervisor # "closed" /\ supervisor' = "closed"
  <2>1. Close
    BY <1>4, Writers DEF CancelAll, StopControl
  <2>2. \A t \in Tasks : Ended(t)
    BY <2>1, TasksDiffer DEF Close, NoOrphans, TasksTyped
  <2> QED BY <1>1, <1>2, <2>1, <2>2 DEF TasksAdvance, NoOrphans, Close
<1> QED BY <1>2, <1>3, <1>4 DEF NoOrphans

\* No task outlives its owner, and nothing is open when main returns: for any
\* number of sources, capacities and dispatches.
THEOREM NothingIsOrphaned == Spec => []NoOrphans
<1>1. Init => TasksTyped /\ NoOrphans
  BY InitTasks
<1>2. TasksTyped /\ NoOrphans /\ [Next]_vars => (TasksTyped /\ NoOrphans)'
  BY TasksMonotone, StepNoOrphans DEF TasksAdvance
<1> QED BY <1>1, <1>2, PTL DEF Spec

-----------------------------------------------------------------------------
(* The frames on their way to the processor stage.                         *)

\* A step that moves no frame.
Still == UNCHANGED <<ingressVars, queueVars, generation, begun>>

\* A reader ends, and loses the frame it holds.
ReaderEnds(s) == ReaderCancelled(s) \/ BindingFails(s)

\* The steps that move a frame between inbox and processor stage.
LEMMA FrameSteps ==
  ASSUME [Next]_vars
  PROVE  \/ Still
         \/ \E s \in Sources : Arrive(s) \/ Read(s) \/ Admitted(s) \/ ReaderEnds(s)
         \/ CancelReaders
         \/ Process \/ ProcessFails
         \/ Replace
<1>1. ASSUME NEW s \in Sources, ListenerEnds(s) PROVE Still
  BY <1>1 DEF ListenerEnds, Still
<1>2. ASSUME Completed \/ CompletionFails \/ ProcessorCancelled PROVE Still
  BY <1>2 DEF Completed, CompletionFails, ProcessorCancelled, Still
<1>3. ASSUME Egress \/ DispatchFails PROVE Still
  BY <1>3 DEF Egress, EgressTakes, Dispatch, EgressCancelled, DispatchFails, Still
<1>4. ASSUME FanInEnds \/ Notice \/ StopControl \/ Close \/ Interrupt PROVE Still
  BY <1>4 DEF FanInEnds, Notice, StopControl, Close, Interrupt, CancelAll, Still
<1>5. ASSUME UNCHANGED vars PROVE Still
  BY <1>5 DEF vars, Still
<1> QED
  BY <1>1, <1>2, <1>3, <1>4, <1>5 DEF Next, Scheduled, Stages, Supervision, ReaderEnds

\* The number of the last frame of s that left its inbox.
Last(s) == arrived[s] - Len(inbox[s])

\* An inbox holds the frames that arrived last, in their order.
InboxInv(s) ==
  /\ Len(inbox[s]) <= InboxCapacity
  /\ Len(inbox[s]) <= arrived[s]
  /\ \A k \in 1 .. Len(inbox[s]) : inbox[s][k] = [source |-> s, number |-> Last(s) + k]

IngressInv ==
  /\ arrived \in [Sources -> 0 .. MaxFrames]
  /\ inbox \in [Sources -> Seq(Frame)]
  /\ \A s \in Sources : InboxInv(s)

\* An arrival extends an inbox by the next frame.
LEMMA OnArrive ==
  ASSUME RuntimeAssumption, IngressInv, NEW s \in Sources, Arrive(s)
  PROVE  IngressInv' /\ \A r \in Sources : Last(r)' = Last(r)
<1> DEFINE f == [source |-> s, number |-> arrived[s] + 1]
<1>1. /\ MaxFrames \in Nat /\ InboxCapacity \in Nat
      /\ arrived[s] \in 0 .. MaxFrames /\ arrived[s] < MaxFrames
      /\ inbox[s] \in Seq(Frame) /\ Len(inbox[s]) \in Nat
  BY DEF IngressInv, Arrive, RuntimeAssumption
<1>2. f \in Frame
  BY <1>1 DEF Frame
<1>3. /\ arrived' = [arrived EXCEPT ![s] = @ + 1]
      /\ inbox' = [inbox EXCEPT ![s] = Append(@, f)]
  BY DEF Arrive
<1>4. /\ arrived' \in [Sources -> 0 .. MaxFrames]
      /\ arrived'[s] = arrived[s] + 1
      /\ \A r \in Sources \ {s} : arrived'[r] = arrived[r]
  BY <1>1, <1>3 DEF IngressInv
<1>5. /\ inbox' \in [Sources -> Seq(Frame)]
      /\ inbox'[s] = Append(inbox[s], f)
      /\ \A r \in Sources \ {s} : inbox'[r] = inbox[r]
  BY <1>1, <1>2, <1>3 DEF IngressInv
<1>6. /\ Len(inbox'[s]) = Len(inbox[s]) + 1
      /\ \A k \in 1 .. Len(inbox[s]) : inbox'[s][k] = inbox[s][k]
      /\ inbox'[s][Len(inbox[s]) + 1] = f
  BY <1>1, <1>5
<1>7. Last(s)' = Last(s)
  <2>1. /\ arrived[s] \in Nat /\ Len(inbox[s]) \in Nat
        /\ arrived'[s] = arrived[s] + 1 /\ Len(inbox'[s]) = Len(inbox[s]) + 1
    BY <1>1, <1>4, <1>6
  <2> QED BY <2>1 DEF Last
<1>8. ASSUME NEW r \in Sources \ {s} PROVE Last(r)' = Last(r) /\ InboxInv(r)'
  BY <1>4, <1>5 DEF Last, IngressInv, InboxInv
<1>9. ASSUME NEW k \in 1 .. Len(inbox'[s])
      PROVE  inbox'[s][k] = [source |-> s, number |-> Last(s) + k]
  <2>1. CASE k \in 1 .. Len(inbox[s])
    BY <1>6, <2>1 DEF IngressInv, InboxInv
  <2>2. CASE k = Len(inbox[s]) + 1
    <3>1. Last(s) + k = arrived[s] + 1
      BY <1>1, <2>2 DEF Last
    <3> QED BY <1>6, <2>2, <3>1
  <2> QED BY <1>1, <1>6, <2>1, <2>2
<1>10. InboxInv(s)'
  <2>1. Len(inbox'[s]) <= InboxCapacity /\ Len(inbox'[s]) <= arrived'[s]
    BY <1>1, <1>4, <1>6 DEF IngressInv, InboxInv, Arrive
  <2> QED BY <1>7, <1>9, <2>1 DEF InboxInv
<1>11. IngressInv'
  BY <1>4, <1>5, <1>8, <1>10 DEF IngressInv
<1> QED BY <1>7, <1>8, <1>11

\* A reader takes the frame that follows the last one it took.
LEMMA OnDequeue ==
  ASSUME RuntimeAssumption, IngressInv, NEW s \in Sources, Dequeue(s)
  PROVE  /\ IngressInv'
         /\ Head(inbox[s]) \in Frame
         /\ Head(inbox[s]) = [source |-> s, number |-> Last(s)']
         /\ Last(s)' = Last(s) + 1
         /\ \A r \in Sources \ {s} : Last(r)' = Last(r)
<1>1. /\ arrived[s] \in Nat /\ arrived' = arrived
      /\ inbox[s] \in Seq(Frame) /\ Len(inbox[s]) \in Nat \ {0}
      /\ inbox' = [inbox EXCEPT ![s] = Tail(@)]
  BY DEF IngressInv, Dequeue
<1>2. /\ inbox' \in [Sources -> Seq(Frame)]
      /\ inbox'[s] = Tail(inbox[s])
      /\ \A r \in Sources \ {s} : inbox'[r] = inbox[r]
  BY <1>1 DEF IngressInv
<1>3. /\ Len(inbox'[s]) = Len(inbox[s]) - 1
      /\ \A k \in 1 .. Len(inbox'[s]) : inbox'[s][k] = inbox[s][k + 1]
      /\ Head(inbox[s]) = inbox[s][1] /\ Head(inbox[s]) \in Frame
  BY <1>1, <1>2
<1>4. Last(s)' = Last(s) + 1 /\ Last(s) \in Nat
  BY <1>1, <1>2, <1>3 DEF Last, IngressInv, InboxInv
<1>5. ASSUME NEW r \in Sources \ {s} PROVE Last(r)' = Last(r) /\ InboxInv(r)'
  BY <1>1, <1>2 DEF Last, IngressInv, InboxInv
<1>6. ASSUME NEW k \in 1 .. Len(inbox[s])
      PROVE  inbox[s][k] = [source |-> s, number |-> Last(s) + k]
  BY DEF IngressInv, InboxInv
<1>7. Head(inbox[s]) = [source |-> s, number |-> Last(s)']
  <2>1. 1 \in 1 .. Len(inbox[s])
    BY <1>1
  <2>2. inbox[s][1] = [source |-> s, number |-> Last(s) + 1]
    BY <1>6, <2>1
  <2> QED BY <1>3, <1>4, <2>2
<1>8. ASSUME NEW k \in 1 .. Len(inbox'[s])
      PROVE  inbox'[s][k] = [source |-> s, number |-> Last(s)' + k]
  <2>1. k \in Nat /\ k + 1 \in 1 .. Len(inbox[s])
    BY <1>1, <1>3
  <2>2. inbox[s][k + 1] = [source |-> s, number |-> Last(s) + (k + 1)]
    BY <1>6, <2>1
  <2>3. Last(s) + (k + 1) = Last(s)' + k
    BY <1>4, <2>1
  <2> QED BY <1>3, <2>2, <2>3
<1>9. InboxInv(s)'
  <2>1. InboxCapacity \in Nat /\ Len(inbox'[s]) <= InboxCapacity /\ Len(inbox'[s]) <= arrived'[s]
    BY <1>1, <1>3 DEF IngressInv, InboxInv, RuntimeAssumption
  <2> QED BY <1>8, <2>1 DEF InboxInv
<1>10. IngressInv'
  BY <1>1, <1>2, <1>5, <1>9 DEF IngressInv
<1> QED BY <1>3, <1>4, <1>5, <1>7, <1>10

-----------------------------------------------------------------------------
(* The frames of one source in the work queue.                             *)

Numbered(s, n) == [source |-> s, number |-> n]

\* After the first b frames of s, queue q holds the next ones, with no gap.
Chain(s, q, b) ==
  /\ \A i \in DOMAIN q : q[i].frame.source = s =>
       /\ b < q[i].frame.number
       /\ \/ q[i].frame.number = b + 1
          \/ \E j \in DOMAIN q : j < i /\ q[j].frame = Numbered(s, q[i].frame.number - 1)
  /\ \A i, j \in DOMAIN q :
       i < j /\ q[i].frame.source = s /\ q[j].frame.source = s =>
         q[i].frame.number < q[j].frame.number

\* It holds them up to number h.
UpTo(s, q, b, h) ==
  /\ b <= h
  /\ h = b \/ \E i \in DOMAIN q : q[i].frame = Numbered(s, h)
  /\ \A i \in DOMAIN q : q[i].frame.source = s => q[i].frame.number <= h

\* Appending the next frame of s keeps the chain of s, and extends it by one.
LEMMA AppendNext ==
  ASSUME NEW S, \A x \in S : x.frame \in Frame,
         NEW q \in Seq(S), NEW s \in Sources, NEW b \in Nat, NEW h \in Nat,
         NEW x \in S, x.frame = Numbered(s, h + 1), Chain(s, q, b), UpTo(s, q, b, h)
  PROVE  Chain(s, Append(q, x), b) /\ UpTo(s, Append(q, x), b, h + 1)
<1> DEFINE p == Append(q, x)
           n == Len(q)
<1>1. /\ p \in Seq(S) /\ n \in Nat /\ Len(p) = n + 1
      /\ DOMAIN q = 1 .. n /\ DOMAIN p = 1 .. n + 1
      /\ p[n + 1] = x /\ \A i \in DOMAIN q : p[i] = q[i]
  OBVIOUS
<1>2. x.frame.source = s /\ x.frame.number = h + 1
  BY DEF Numbered
<1>3. \A i \in DOMAIN q : q[i].frame \in Frame /\ q[i].frame.number \in Nat
  BY <1>1 DEF Frame
<1> HIDE DEF p, n
<1>4. \A i \in DOMAIN p : i \in DOMAIN q \/ (i = n + 1 /\ p[i] = x)
  BY <1>1
<1>5. \A i \in DOMAIN q : i \in DOMAIN p /\ i < n + 1 /\ i \in Nat
  BY <1>1
<1>6. UpTo(s, p, b, h + 1)
  <2>1. \A i \in DOMAIN p : p[i].frame.source = s => p[i].frame.number <= h + 1
    BY <1>1, <1>2, <1>3, <1>4 DEF UpTo
  <2>2. n + 1 \in DOMAIN p /\ p[n + 1].frame = Numbered(s, h + 1)
    BY <1>1
  <2> QED BY <2>1, <2>2 DEF UpTo
<1>7. ASSUME NEW i \in DOMAIN p, p[i].frame.source = s
      PROVE  /\ b < p[i].frame.number
             /\ \/ p[i].frame.number = b + 1
                \/ \E j \in DOMAIN p : j < i /\ p[j].frame = Numbered(s, p[i].frame.number - 1)
  <2>1. CASE i \in DOMAIN q
    <3>1. p[i] = q[i]
      BY <1>1, <2>1
    <3>2. /\ b < q[i].frame.number
          /\ \/ q[i].frame.number = b + 1
             \/ \E j \in DOMAIN q : j < i /\ q[j].frame = Numbered(s, q[i].frame.number - 1)
      BY <1>7, <2>1, <3>1 DEF Chain
    <3> QED BY <1>1, <1>5, <3>1, <3>2
  <2>2. CASE i = n + 1
    <3>1. p[i].frame.number = h + 1 /\ (h + 1) - 1 = h /\ b <= h
      BY <1>1, <1>2, <2>2 DEF UpTo
    <3>2. h = b \/ \E j \in DOMAIN p : j < i /\ p[j].frame = Numbered(s, h)
      BY <1>1, <1>5, <2>2 DEF UpTo
    <3> QED BY <3>1, <3>2
  <2> QED BY <1>4, <2>1, <2>2
<1>8. ASSUME NEW i \in DOMAIN p, NEW j \in DOMAIN p, i < j,
             p[i].frame.source = s, p[j].frame.source = s
      PROVE  p[i].frame.number < p[j].frame.number
  <2>1. i \in DOMAIN q
    BY <1>1, <1>4, <1>5, <1>8
  <2>2. CASE j \in DOMAIN q
    BY <1>1, <1>8, <2>1, <2>2 DEF Chain
  <2>3. CASE j = n + 1
    <3>1. q[i].frame.number <= h /\ p[i] = q[i]
      BY <1>1, <1>8, <2>1 DEF UpTo
    <3> QED BY <1>1, <1>2, <1>3, <2>1, <2>3, <3>1
  <2> QED BY <1>4, <2>2, <2>3
<1>9. Chain(s, p, b)
  BY <1>7, <1>8 DEF Chain
<1> QED BY <1>6, <1>9 DEF p

\* Appending a frame of another source changes nothing for s.
LEMMA AppendOther ==
  ASSUME NEW S, NEW q \in Seq(S), NEW s, NEW b \in Nat, NEW x \in S, x.frame.source # s,
         Chain(s, q, b)
  PROVE  /\ Chain(s, Append(q, x), b)
         /\ \A h \in Nat : UpTo(s, q, b, h) => UpTo(s, Append(q, x), b, h)
<1> DEFINE p == Append(q, x)
           n == Len(q)
<1>1. /\ n \in Nat /\ DOMAIN q = 1 .. n /\ DOMAIN p = 1 .. n + 1
      /\ p[n + 1] = x /\ \A i \in DOMAIN q : p[i] = q[i]
  OBVIOUS
<1> HIDE DEF p, n
<1>2. \A i \in DOMAIN p : p[i].frame.source = s => i \in DOMAIN q
  BY <1>1
<1>3. \A i \in DOMAIN q : i \in DOMAIN p /\ p[i] = q[i]
  BY <1>1
<1>4. Chain(s, p, b)
  BY <1>2, <1>3 DEF Chain
<1>5. \A h \in Nat : UpTo(s, q, b, h) => UpTo(s, p, b, h)
  BY <1>2, <1>3 DEF UpTo
<1> QED BY <1>4, <1>5 DEF p

\* The first item, if it is of s, is the frame that is next.
LEMMA TailNext ==
  ASSUME NEW S, \A x \in S : x.frame \in Frame,
         NEW q \in Seq(S), q # <<>>, NEW s \in Sources, NEW b \in Nat,
         Head(q).frame.source = s, Chain(s, q, b)
  PROVE  /\ Head(q).frame = Numbered(s, b + 1)
         /\ Chain(s, Tail(q), b + 1)
         /\ \A h \in Nat : UpTo(s, q, b, h) => UpTo(s, Tail(q), b + 1, h)
<1> DEFINE p == Tail(q)
           n == Len(q)
<1>1. /\ n \in Nat \ {0} /\ DOMAIN q = 1 .. n /\ DOMAIN p = 1 .. n - 1
      /\ Head(q) = q[1] /\ \A i \in DOMAIN p : p[i] = q[i + 1]
  OBVIOUS
<1>2. \A i \in DOMAIN q : q[i].frame \in Frame /\ q[i].frame.number \in Nat
  BY <1>1 DEF Frame
<1> HIDE DEF p, n
<1>3. /\ 1 \in DOMAIN q
      /\ \A i \in DOMAIN p : i \in Nat /\ i >= 1 /\ i + 1 \in DOMAIN q
      /\ \A i \in DOMAIN q : i \in Nat /\ i >= 1 /\ (i = 1 \/ (i - 1 \in DOMAIN p /\ p[i - 1] = q[i]))
  BY <1>1
<1>4. q[1].frame.number = b + 1
  BY <1>1, <1>3 DEF Chain
<1>5. q[1].frame = Numbered(s, b + 1)
  BY <1>1, <1>2, <1>3, <1>4 DEF Frame, Numbered
<1>6. ASSUME NEW i \in DOMAIN p, p[i].frame.source = s
      PROVE  /\ b + 1 < p[i].frame.number
             /\ \/ p[i].frame.number = (b + 1) + 1
                \/ \E j \in DOMAIN p : j < i /\ p[j].frame = Numbered(s, p[i].frame.number - 1)
  <2>1. i + 1 \in DOMAIN q /\ p[i] = q[i + 1] /\ 1 < i + 1 /\ q[i + 1].frame.number \in Nat
    BY <1>1, <1>2, <1>3
  <2>2. q[1].frame.number < q[i + 1].frame.number
    BY <1>1, <1>3, <1>6, <2>1 DEF Chain
  <2>3. PICK j \in DOMAIN q : j < i + 1 /\ q[j].frame = Numbered(s, q[i + 1].frame.number - 1)
    BY <1>4, <1>6, <2>1, <2>2 DEF Chain
  <2>4. CASE j = 1
    <3>1. q[i + 1].frame.number - 1 = b + 1
      BY <1>4, <2>3, <2>4 DEF Numbered
    <3> QED BY <1>4, <2>1, <2>2, <3>1
  <2>5. CASE j # 1
    <3>1. j - 1 \in DOMAIN p /\ p[j - 1] = q[j] /\ j - 1 < i
      BY <1>3, <2>3, <2>5
    <3> QED BY <1>4, <2>1, <2>2, <2>3, <3>1
  <2> QED BY <2>4, <2>5
<1>7. ASSUME NEW i \in DOMAIN p, NEW j \in DOMAIN p, i < j,
             p[i].frame.source = s, p[j].frame.source = s
      PROVE  p[i].frame.number < p[j].frame.number
  <2>1. i + 1 < j + 1 /\ p[i] = q[i + 1] /\ p[j] = q[j + 1]
    BY <1>1, <1>3, <1>7
  <2> QED BY <1>3, <1>7, <2>1 DEF Chain
<1>8. Chain(s, p, b + 1)
  BY <1>6, <1>7 DEF Chain
<1>9. ASSUME NEW h \in Nat, UpTo(s, q, b, h) PROVE UpTo(s, p, b + 1, h)
  <2>1. b + 1 <= h
    BY <1>1, <1>3, <1>4, <1>9 DEF UpTo
  <2>2. PICK i \in DOMAIN q : q[i].frame = Numbered(s, h)
    BY <1>9, <2>1 DEF UpTo
  <2>3. h = b + 1 \/ \E j \in DOMAIN p : p[j].frame = Numbered(s, h)
    BY <1>3, <1>4, <2>2 DEF Numbered
  <2>4. \A j \in DOMAIN p : p[j].frame.source = s => p[j].frame.number <= h
    BY <1>1, <1>3, <1>9 DEF UpTo
  <2> QED BY <2>1, <2>3, <2>4 DEF UpTo
<1> QED BY <1>1, <1>5, <1>8, <1>9 DEF p

\* Taking a frame of another source changes nothing for s.
LEMMA TailOther ==
  ASSUME NEW S, NEW q \in Seq(S), q # <<>>, NEW s, NEW b \in Nat,
         Head(q).frame.source # s, Chain(s, q, b)
  PROVE  /\ Chain(s, Tail(q), b)
         /\ \A h \in Nat : UpTo(s, q, b, h) => UpTo(s, Tail(q), b, h)
<1> DEFINE p == Tail(q)
           n == Len(q)
<1>1. /\ n \in Nat \ {0} /\ DOMAIN q = 1 .. n /\ DOMAIN p = 1 .. n - 1
      /\ Head(q) = q[1] /\ \A i \in DOMAIN p : p[i] = q[i + 1]
  OBVIOUS
<1> HIDE DEF p, n
<1>2. \A i \in DOMAIN p : i \in Nat /\ i + 1 \in DOMAIN q
  BY <1>1
<1>3. \A i \in DOMAIN q :
        i \in Nat /\ (q[i].frame.source = s => i - 1 \in DOMAIN p /\ p[i - 1] = q[i])
  BY <1>1
<1>4. ASSUME NEW i \in DOMAIN p, p[i].frame.source = s
      PROVE  /\ b < p[i].frame.number
             /\ \/ p[i].frame.number = b + 1
                \/ \E j \in DOMAIN p : j < i /\ p[j].frame = Numbered(s, p[i].frame.number - 1)
  <2>1. i + 1 \in DOMAIN q /\ p[i] = q[i + 1]
    BY <1>1, <1>2
  <2>2. ASSUME NEW j \in DOMAIN q, j < i + 1, q[j].frame = Numbered(s, q[i + 1].frame.number - 1)
        PROVE  j - 1 \in DOMAIN p /\ p[j - 1] = q[j] /\ j - 1 < i
    BY <1>2, <1>3, <2>2 DEF Numbered
  <2> QED BY <1>4, <2>1, <2>2 DEF Chain
<1>5. ASSUME NEW i \in DOMAIN p, NEW j \in DOMAIN p, i < j,
             p[i].frame.source = s, p[j].frame.source = s
      PROVE  p[i].frame.number < p[j].frame.number
  <2>1. i + 1 < j + 1 /\ p[i] = q[i + 1] /\ p[j] = q[j + 1]
    BY <1>1, <1>2, <1>5
  <2> QED BY <1>2, <1>5, <2>1 DEF Chain
<1>6. Chain(s, p, b)
  BY <1>4, <1>5 DEF Chain
<1>7. ASSUME NEW h \in Nat, UpTo(s, q, b, h) PROVE UpTo(s, p, b, h)
  <2>1. h = b \/ \E j \in DOMAIN p : p[j].frame = Numbered(s, h)
    BY <1>3, <1>7 DEF UpTo, Numbered
  <2>2. \A j \in DOMAIN p : p[j].frame.source = s => p[j].frame.number <= h
    BY <1>1, <1>2, <1>7 DEF UpTo
  <2> QED BY <1>7, <2>1, <2>2 DEF UpTo
<1> QED BY <1>6, <1>7 DEF p

-----------------------------------------------------------------------------
(* The frames of every source reach the processor stage in their order.    *)

\* The number of the last frame of s that was admitted, while its reader runs.
Handed(s) == IF Queue!Busy(s) THEN Last(s) - 1 ELSE Last(s)

SourceOrder(s) ==
  /\ Chain(s, work, begun[s])
  /\ Runs(Reader(s)) => UpTo(s, work, begun[s], Handed(s))

OrderInv ==
  /\ begun \in [Sources -> Nat]
  /\ \A w \in Queue!Waiting : w.frame = Numbered(w.reader, Last(w.reader))
  /\ \A s \in Sources : \A i \in DOMAIN work :
       work[i].frame.source = s => work[i].frame.number <= Last(s)
  /\ Runs(ProcessorStage) => \A s \in Sources : SourceOrder(s)

\* What the steps below assume of the state before them.
PipeInv == TasksTyped /\ QueueInv /\ IngressInv /\ OrderInv

Item == [frame : Frame, generation : 0 .. generation]

\* Types that the invariants give.
LEMMA PipeFacts ==
  ASSUME RuntimeAssumption, PipeInv
  PROVE  /\ work \in Seq(Item) /\ DOMAIN work = 1 .. Len(work) /\ Len(work) \in Nat
         /\ \A x \in Item : x.frame \in Frame
         /\ \A f \in Frame : [frame |-> f, generation |-> generation] \in Item
         /\ \A s \in Sources : Last(s) \in Nat /\ Handed(s) \in Nat
         /\ \A i \in DOMAIN work : work[i].frame \in Frame
<1>1. QueueTypes
  BY FromQueueInv DEF PipeInv
<1>2. work \in Seq(Item) /\ generation \in Nat
  BY <1>1 DEF QueueTypes, Item
<1>3. DOMAIN work = 1 .. Len(work) /\ Len(work) \in Nat /\ \A i \in DOMAIN work : work[i] \in Item
  BY <1>2
<1>4. /\ \A x \in Item : x.frame \in Frame
      /\ \A f \in Frame : [frame |-> f, generation |-> generation] \in Item
  BY <1>2 DEF Item
<1>5. ASSUME NEW s \in Sources PROVE Last(s) \in Nat /\ Handed(s) \in Nat
  <2>1. Last(s) \in Nat
    <3>1. arrived[s] \in Nat /\ Len(inbox[s]) \in Nat /\ Len(inbox[s]) <= arrived[s]
      BY DEF PipeInv, IngressInv, InboxInv
    <3> QED BY <3>1 DEF Last
  <2>2. CASE Queue!Busy(s)
    <3>1. PICK w \in Queue!Waiting : w.reader = s
      BY <2>2, SameWaits
    <3>2. w.frame \in Frame /\ w.frame = Numbered(s, Last(s))
      BY <3>1, WaitsAreTyped DEF PipeInv, OrderInv
    <3>3. Last(s) >= 1
      BY <3>2 DEF Frame, Numbered
    <3> QED BY <2>1, <2>2, <3>3 DEF Handed
  <2> QED BY <2>1, <2>2 DEF Handed
<1> QED BY <1>2, <1>3, <1>4, <1>5

\* A step that moves no frame beyond the inboxes.
LEMMA OrderStill ==
  ASSUME PipeInv, TasksAdvance, UNCHANGED <<work, begun>>, Queue!Waiting' = Queue!Waiting,
         \A r \in Sources : Last(r)' = Last(r), RuntimeAssumption
  PROVE  OrderInv'
<1>1. \A r \in Sources : Handed(r)' = Handed(r)
  BY SameWaits DEF Handed, Queue!Busy
<1>2. /\ Runs(ProcessorStage)' => Runs(ProcessorStage)
      /\ \A r \in Sources : Runs(Reader(r))' => Runs(Reader(r))
  BY TasksDiffer DEF TasksAdvance
<1>3. \A w \in Queue!Waiting : w.reader \in Sources
  BY WaitsAreTyped DEF PipeInv
<1>4. \A i \in DOMAIN work : work[i].frame.source \in Sources
  BY PipeFacts DEF Frame
<1>5. Runs(ProcessorStage)' => \A s \in Sources : SourceOrder(s)'
  BY <1>1, <1>2 DEF PipeInv, OrderInv, SourceOrder
<1>6. \A w \in Queue!Waiting : w.frame = Numbered(w.reader, Last(w.reader)')
  BY <1>3 DEF PipeInv, OrderInv
<1>7. \A s \in Sources : \A i \in DOMAIN work :
        work[i].frame.source = s => work[i].frame.number <= Last(s)'
  BY <1>4 DEF PipeInv, OrderInv
<1> QED BY <1>5, <1>6, <1>7 DEF PipeInv, OrderInv

\* A reader's frame leaves the wait, and its reader runs no more; or no reader
\* runs any more.
LEMMA OrderEnds ==
  ASSUME PipeInv, TasksAdvance, UNCHANGED <<work, begun>>, RuntimeAssumption,
         Queue!Waiting' \subseteq Queue!Waiting,
         \A w \in Queue!Waiting' : Last(w.reader)' = Last(w.reader),
         \A r \in Sources : Last(r)' \in Nat /\ Last(r)' >= Last(r),
         \A r \in Sources : Runs(Reader(r))' =>
           Last(r)' = Last(r) /\ (Queue!Busy(r)' <=> Queue!Busy(r))
  PROVE  OrderInv'
<1>1. \A r \in Sources : Runs(Reader(r))' => Runs(Reader(r)) /\ Handed(r)' = Handed(r)
  BY TasksDiffer DEF TasksAdvance, Handed
<1>2. Runs(ProcessorStage)' => Runs(ProcessorStage)
  BY TasksDiffer DEF TasksAdvance
<1>3. Runs(ProcessorStage)' => \A s \in Sources : SourceOrder(s)'
  BY <1>1, <1>2 DEF PipeInv, OrderInv, SourceOrder
<1>4. \A i \in DOMAIN work : /\ work[i].frame.source \in Sources
                             /\ work[i].frame.number \in Nat
  BY PipeFacts DEF Frame
<1>5. \A r \in Sources : Last(r) \in Nat
  BY PipeFacts
<1>6. ASSUME NEW s \in Sources, NEW i \in DOMAIN work, work[i].frame.source = s
      PROVE  work[i].frame.number <= Last(s)'
  <2>1. work[i].frame.number <= Last(s) /\ Last(s)' >= Last(s) /\ Last(s)' \in Nat
    BY <1>6 DEF PipeInv, OrderInv
  <2> QED BY <1>4, <1>5, <2>1
<1>7. \A w \in Queue!Waiting' : w.frame = Numbered(w.reader, Last(w.reader)')
  BY DEF PipeInv, OrderInv
<1> QED BY <1>3, <1>6, <1>7 DEF PipeInv, OrderInv

\* A reader admits the next frame of its source.
LEMMA OrderAdmitted ==
  ASSUME PipeInv, TasksAdvance, RuntimeAssumption, NEW s \in Sources, Runs(Reader(s)),
         NEW x \in Item, x.frame = Numbered(s, Handed(s) + 1), work' = Append(work, x),
         begun' = begun, Handed(s)' = Handed(s) + 1,
         Last(s)' \in Nat, Last(s)' >= Last(s), Last(s)' >= Handed(s) + 1,
         \A r \in Sources \ {s} : Last(r)' = Last(r) /\ (Queue!Busy(r)' <=> Queue!Busy(r)),
         \A w \in Queue!Waiting' : w.frame = Numbered(w.reader, Last(w.reader)')
  PROVE  OrderInv'
<1>1. /\ work \in Seq(Item) /\ \A y \in Item : y.frame \in Frame
      /\ Handed(s) \in Nat /\ begun[s] \in Nat /\ x.frame.source = s
      /\ \A r \in Sources : begun[r] \in Nat /\ Last(r) \in Nat
  BY PipeFacts DEF PipeInv, OrderInv, Numbered
<1>2. Runs(ProcessorStage)' => Runs(ProcessorStage)
  BY TasksDiffer DEF TasksAdvance
<1>3. ASSUME Runs(ProcessorStage)' PROVE SourceOrder(s)'
  <2>1. Chain(s, work, begun[s]) /\ UpTo(s, work, begun[s], Handed(s))
    BY <1>2, <1>3 DEF PipeInv, OrderInv, SourceOrder
  <2>2. Chain(s, work', begun[s]) /\ UpTo(s, work', begun[s], Handed(s) + 1)
    BY <1>1, <2>1, AppendNext
  <2> QED BY <2>2 DEF SourceOrder
<1>4. ASSUME Runs(ProcessorStage)', NEW r \in Sources \ {s} PROVE SourceOrder(r)'
  <2>1. Chain(r, work, begun[r]) /\ (Runs(Reader(r)) => UpTo(r, work, begun[r], Handed(r)))
    BY <1>2, <1>4 DEF PipeInv, OrderInv, SourceOrder
  <2>2. Handed(r) \in Nat /\ Handed(r)' = Handed(r) /\ (Runs(Reader(r))' => Runs(Reader(r)))
    BY PipeFacts, TasksDiffer DEF Handed, TasksAdvance
  <2>3. Chain(r, work', begun[r]) /\ (Runs(Reader(r))' => UpTo(r, work', begun[r], Handed(r)))
    BY <1>1, <2>1, <2>2, AppendOther
  <2> QED BY <2>2, <2>3 DEF SourceOrder
<1>5. ASSUME NEW r \in Sources, NEW i \in DOMAIN work', work'[i].frame.source = r
      PROVE  work'[i].frame.number <= Last(r)'
  <2>1. CASE work'[i] = x
    BY <1>1, <1>5, <2>1 DEF Numbered
  <2>2. CASE i \in DOMAIN work /\ work'[i] = work[i]
    <3>1. work[i].frame.number <= Last(r) /\ work[i].frame.number \in Nat
      BY <1>5, <2>2, PipeFacts DEF PipeInv, OrderInv, Frame
    <3>2. Last(r)' \in Nat /\ Last(r)' >= Last(r) /\ Last(r) \in Nat
      BY <1>1
    <3> QED BY <2>2, <3>1, <3>2
  <2> QED BY <1>1, <2>1, <2>2
<1> QED BY <1>3, <1>4, <1>5 DEF PipeInv, OrderInv

\* The processor stage takes the next frame of its source.
LEMMA OrderTaken ==
  ASSUME PipeInv, TasksAdvance, RuntimeAssumption, work # <<>>, work' = Tail(work),
         Runs(ProcessorStage), Queue!Waiting' = Queue!Waiting,
         NEW s, s = Head(work).frame.source,
         begun' = [begun EXCEPT ![s] = @ + 1],
         \A r \in Sources : Last(r)' = Last(r)
  PROVE  /\ OrderInv'
         /\ s \in Sources /\ Head(work) \in Item
         /\ Head(work).frame = Numbered(s, begun[s] + 1)
         /\ begun[s] < arrived[s]
<1>1. /\ work \in Seq(Item) /\ \A y \in Item : y.frame \in Frame
      /\ \A r \in Sources : begun[r] \in Nat /\ Last(r) \in Nat /\ Handed(r) \in Nat
  BY PipeFacts DEF PipeInv, OrderInv
<1>2. /\ Head(work) \in Item /\ s \in Sources
      /\ 1 \in DOMAIN work /\ work[1] = Head(work)
  BY <1>1 DEF Frame
<1>3. \A i \in DOMAIN work' : i + 1 \in DOMAIN work /\ work'[i] = work[i + 1]
  BY <1>1
<1>4. begun' \in [Sources -> Nat] /\ begun'[s] = begun[s] + 1
      /\ \A r \in Sources \ {s} : begun'[r] = begun[r]
  BY <1>2 DEF PipeInv, OrderInv
<1>5. \A r \in Sources : /\ Handed(r)' = Handed(r)
                         /\ Runs(Reader(r))' => Runs(Reader(r))
  BY SameWaits, TasksDiffer DEF Handed, Queue!Busy, TasksAdvance
<1>6. Head(work).frame = Numbered(s, begun[s] + 1) /\ SourceOrder(s)'
  <2>1. Chain(s, work, begun[s]) /\ (Runs(Reader(s)) => UpTo(s, work, begun[s], Handed(s)))
    BY <1>2 DEF PipeInv, OrderInv, SourceOrder
  <2>2. /\ Head(work).frame = Numbered(s, begun[s] + 1)
        /\ Chain(s, Tail(work), begun[s] + 1)
        /\ \A h \in Nat : UpTo(s, work, begun[s], h) => UpTo(s, Tail(work), begun[s] + 1, h)
    <3>1. /\ work \in Seq(Item) /\ work # <<>> /\ s \in Sources /\ begun[s] \in Nat
          /\ Head(work).frame.source = s /\ Chain(s, work, begun[s])
          /\ \A y \in Item : y.frame \in Frame
      BY <1>1, <1>2, <2>1
    <3> QED BY <3>1, TailNext, Zenon
  <2> QED BY <1>1, <1>2, <1>4, <1>5, <2>1, <2>2 DEF SourceOrder
<1>7. ASSUME NEW r \in Sources \ {s} PROVE SourceOrder(r)'
  <2>1. Chain(r, work, begun[r]) /\ (Runs(Reader(r)) => UpTo(r, work, begun[r], Handed(r)))
    BY DEF PipeInv, OrderInv, SourceOrder
  <2>2. /\ Chain(r, Tail(work), begun[r])
        /\ \A h \in Nat : UpTo(r, work, begun[r], h) => UpTo(r, Tail(work), begun[r], h)
    BY <1>1, <1>2, <2>1, TailOther
  <2> QED BY <1>1, <1>4, <1>5, <2>1, <2>2 DEF SourceOrder
<1>8. \A r \in Sources : \A i \in DOMAIN work' :
        work'[i].frame.source = r => work'[i].frame.number <= Last(r)'
  BY <1>3 DEF PipeInv, OrderInv
<1>9. \A w \in Queue!Waiting' : w.frame = Numbered(w.reader, Last(w.reader)')
  BY WaitsAreTyped DEF PipeInv, OrderInv
<1>10. OrderInv'
  BY <1>4, <1>6, <1>7, <1>8, <1>9 DEF OrderInv
<1>11. begun[s] < arrived[s]
  <2>1. begun[s] + 1 <= Last(s)
    BY <1>2, <1>6 DEF PipeInv, OrderInv, Numbered
  <2>2. Len(inbox[s]) \in Nat /\ arrived[s] \in Nat /\ Last(s) = arrived[s] - Len(inbox[s])
    BY <1>2 DEF PipeInv, IngressInv, Last
  <2>3. begun[s] \in Nat
    BY <1>1, <1>2
  <2> QED BY ONLY <2>1, <2>2, <2>3
<1> QED BY <1>2, <1>6, <1>10, <1>11

\* The invariants of the pipeline hold at first.
LEMMA InitPipe == ASSUME RuntimeAssumption, Init PROVE PipeInv
<1>1. IngressInv
  BY DEF Init, IngressInv, InboxInv, RuntimeAssumption
<1>2. work = <<>> /\ Queue!Waiting = {}
  BY DEF Init, Queue!Init, Queue!Waiting
<1>3. \A s \in Sources : Handed(s) = 0 /\ Last(s) = 0
  BY <1>2, SameWaits DEF Init, Handed, Last
<1>4. \A s \in Sources : SourceOrder(s)
  BY <1>2, <1>3 DEF Init, SourceOrder, Chain, UpTo
<1>5. OrderInv
  BY <1>2, <1>4 DEF Init, OrderInv
<1> QED BY <1>1, <1>5, InitTasks, InitQueueInv DEF PipeInv

\* An arrival, a replacement or a step elsewhere keeps them.
LEMMA StillPipe ==
  ASSUME RuntimeAssumption, PipeInv, TasksAdvance, UNCHANGED <<queueVars, begun>>,
         \/ UNCHANGED ingressVars /\ (UNCHANGED generation \/ Replace)
         \/ UNCHANGED generation /\ \E s \in Sources : Arrive(s)
  PROVE  PipeInv'
<1>1. QueueInv'
  BY QueueNext, SameReplace DEF PipeInv, Replace, Permits!Next
<1>2. IngressInv' /\ \A r \in Sources : Last(r)' = Last(r)
  BY OnArrive DEF PipeInv, ingressVars, IngressInv, InboxInv, Last
<1>3. Queue!Waiting' = Queue!Waiting /\ UNCHANGED work
  BY DEF queueVars, semaphoreVars, Queue!Waiting
<1>4. OrderInv'
  BY <1>2, <1>3, OrderStill
<1> QED BY <1>1, <1>2, <1>4 DEF PipeInv, TasksAdvance

\* Reading a frame keeps them, whether its reader has to wait or not.
LEMMA ReadPipe ==
  ASSUME RuntimeAssumption, PipeInv, TasksAdvance, NEW s \in Sources, Read(s)
  PROVE  PipeInv'
<1> DEFINE f == Head(inbox[s])
<1>1. /\ Runs(Reader(s)) /\ Dequeue(s) /\ Queue!Admit(s, f)
      /\ UNCHANGED <<generation, begun>>
  BY DEF Read
<1>2. /\ IngressInv' /\ f \in Frame
      /\ f = Numbered(s, Last(s) + 1) /\ Last(s)' = Last(s) + 1
      /\ \A r \in Sources \ {s} : Last(r)' = Last(r)
  BY <1>1, OnDequeue DEF PipeInv, Numbered
<1> HIDE DEF f
<1>3. /\ QueueInv' /\ ~Queue!Busy(s)
      /\ \/ /\ Queue!Waiting' = Queue!Waiting
            /\ work' = Append(work, [frame |-> f, generation |-> generation])
         \/ /\ \E w : /\ Queue!Waiting' = Queue!Waiting \cup {w}
                      /\ w.reader = s /\ w.frame = f
            /\ work' = work
  BY <1>1, <1>2, OnAdmit DEF PipeInv
<1>4. /\ Last(s) \in Nat /\ Last(s)' \in Nat /\ Handed(s) = Last(s)
      /\ \A w \in Queue!Waiting : w.reader \in Sources \ {s}
  BY <1>2, <1>3, PipeFacts, WaitsAreTyped, SameWaits DEF PipeInv, Handed
<1>5. \A w \in Queue!Waiting : w.frame = Numbered(w.reader, Last(w.reader)')
  BY <1>2, <1>4 DEF PipeInv, OrderInv
<1>6. CASE /\ Queue!Waiting' = Queue!Waiting
           /\ work' = Append(work, [frame |-> f, generation |-> generation])
  <2>1. \A r \in Sources : Queue!Busy(r)' <=> Queue!Busy(r)
    BY <1>6 DEF Queue!Busy
  <2>2. Handed(s)' = Handed(s) + 1
    BY <1>2, <1>3, <1>4, <2>1 DEF Handed
  <2>3. [frame |-> f, generation |-> generation] \in Item
    BY <1>2, PipeFacts
  <2>4. OrderInv'
    BY <1>1, <1>2, <1>4, <1>5, <1>6, <2>1, <2>2, <2>3, OrderAdmitted
  <2> QED BY <1>2, <1>3, <2>4 DEF PipeInv, TasksAdvance
<1>7. CASE /\ \E w : /\ Queue!Waiting' = Queue!Waiting \cup {w}
                     /\ w.reader = s /\ w.frame = f
           /\ work' = work
  <2>1. PICK w : /\ Queue!Waiting' = Queue!Waiting \cup {w}
                 /\ w.reader = s /\ w.frame = f
    BY <1>7
  <2>2. Queue!Busy(s)' /\ \A r \in Sources \ {s} : Queue!Busy(r)' <=> Queue!Busy(r)
    BY <2>1 DEF Queue!Busy
  <2>3. \A r \in Sources : Handed(r)' = Handed(r)
    BY <1>2, <1>4, <2>2 DEF Handed
  <2>4. \A v \in Queue!Waiting' : v.frame = Numbered(v.reader, Last(v.reader)')
    BY <1>2, <1>5, <2>1
  <2>5. /\ Runs(ProcessorStage)' => Runs(ProcessorStage)
        /\ \A r \in Sources : Runs(Reader(r))' => Runs(Reader(r))
    BY TasksDiffer DEF TasksAdvance
  <2>6. Runs(ProcessorStage)' => \A r \in Sources : SourceOrder(r)'
    BY <1>1, <1>7, <2>3, <2>5 DEF PipeInv, OrderInv, SourceOrder
  <2>7. ASSUME NEW r \in Sources, NEW i \in DOMAIN work, work[i].frame.source = r
        PROVE  work[i].frame.number <= Last(r)'
    <3>1. work[i].frame.number <= Last(r) /\ work[i].frame.number \in Nat /\ Last(r) \in Nat
      BY <2>7, PipeFacts DEF PipeInv, OrderInv, Frame
    <3> QED BY <1>2, <1>4, <3>1
  <2>8. OrderInv'
    BY <1>1, <1>7, <2>4, <2>6, <2>7 DEF PipeInv, OrderInv
  <2> QED BY <1>2, <1>3, <2>8 DEF PipeInv, TasksAdvance
<1> QED BY <1>3, <1>6, <1>7

\* Resuming with a permit keeps them.
LEMMA AdmittedPipe ==
  ASSUME RuntimeAssumption, PipeInv, TasksAdvance, NEW s \in Sources, Admitted(s)
  PROVE  PipeInv'
<1>1. PICK w \in granted : w.reader = s /\ Queue!Resume(w)
  BY DEF Admitted
<1>2. Runs(Reader(s)) /\ UNCHANGED <<inbox, arrived, generation, begun>>
  BY DEF Admitted, ingressVars
<1>3. /\ QueueInv' /\ w \in Queue!Waiting /\ Queue!Waiting' = Queue!Waiting \ {w}
      /\ work' = Append(work, [frame |-> w.frame, generation |-> generation])
  BY <1>1, <1>2, OnWaitEnds DEF PipeInv
<1>4. /\ \A v \in Queue!Waiting : v.reader \in Sources
      /\ \A v \in Queue!Waiting' : v \in Queue!Waiting /\ v.reader # s
      /\ w.frame \in Frame
  BY <1>1, <1>3, WaitsAreTyped DEF PipeInv
<1>5. Queue!Busy(s) /\ ~Queue!Busy(s)' /\ \A r \in Sources \ {s} : Queue!Busy(r)' <=> Queue!Busy(r)
  BY <1>1, <1>3, <1>4 DEF Queue!Busy
<1>6. IngressInv' /\ \A r \in Sources : Last(r)' = Last(r)
  BY <1>2 DEF PipeInv, IngressInv, InboxInv, Last
<1>7. /\ Last(s) \in Nat /\ Handed(s) = Last(s) - 1 /\ Handed(s)' = Last(s)
      /\ w.frame = Numbered(s, Last(s))
  BY <1>1, <1>3, <1>5, <1>6, PipeFacts DEF Handed, PipeInv, OrderInv
<1>8. Handed(s)' = Handed(s) + 1 /\ Handed(s) + 1 = Last(s)
  BY <1>7
<1>9. \A v \in Queue!Waiting' : v.frame = Numbered(v.reader, Last(v.reader)')
  BY <1>4, <1>6 DEF PipeInv, OrderInv
<1>10. [frame |-> w.frame, generation |-> generation] \in Item
  BY <1>4, PipeFacts
<1>11. OrderInv'
  <2>1. Last(s)' \in Nat /\ Last(s)' >= Last(s) /\ Last(s)' >= Handed(s) + 1
    <3>1. Last(s)' = Last(s) /\ Last(s) \in Nat /\ Handed(s) + 1 = Last(s)
      BY <1>6, <1>7, <1>8
    <3> QED BY <3>1
  <2>2. PICK x \in Item : x.frame = Numbered(s, Handed(s) + 1) /\ work' = Append(work, x)
    BY <1>3, <1>7, <1>8, <1>10
  <2> QED BY <1>2, <1>5, <1>6, <1>8, <1>9, <2>1, <2>2, OrderAdmitted
<1> QED BY <1>3, <1>6, <1>11 DEF PipeInv, TasksAdvance

\* The end of a reader keeps them, though it loses the frame it holds.
LEMMA EndedReaderPipe ==
  ASSUME RuntimeAssumption, PipeInv, TasksAdvance, NEW s \in Sources, ReaderEnds(s)
  PROVE  PipeInv'
<1>1. ~Runs(Reader(s))' /\ UNCHANGED <<generation, begun>>
  BY TasksDiffer
     DEF ReaderEnds, ReaderCancelled, BindingFails, End, Runs, PipeInv, TasksTyped
<1>2. \A r \in Sources : Last(r) \in Nat
  BY PipeFacts
<1>3. CASE Dequeue(s) /\ ~Queue!Busy(s) /\ UNCHANGED queueVars
  <2>1. /\ IngressInv' /\ Last(s)' = Last(s) + 1
        /\ \A r \in Sources \ {s} : Last(r)' = Last(r)
    BY <1>3, OnDequeue DEF PipeInv
  <2>2. QueueInv'
    BY <1>1, <1>3, QueueNext DEF PipeInv
  <2>3. Queue!Waiting' = Queue!Waiting /\ UNCHANGED work
    BY <1>3 DEF queueVars, semaphoreVars, Queue!Waiting
  <2>4. \A w \in Queue!Waiting' : w.reader \in Sources \ {s}
    BY <1>3, <2>3, WaitsAreTyped, SameWaits DEF PipeInv
  <2>5. \A r \in Sources : Queue!Busy(r)' <=> Queue!Busy(r)
    BY <2>3 DEF Queue!Busy
  <2>6. \A r \in Sources : Last(r)' \in Nat /\ Last(r)' >= Last(r)
    BY <1>2, <2>1
  <2>7. \A r \in Sources : Runs(Reader(r))' => Last(r)' = Last(r)
    BY <1>1, <2>1
  <2>8. OrderInv'
    BY <1>1, <2>1, <2>3, <2>4, <2>5, <2>6, <2>7, OrderEnds
  <2> QED BY <2>1, <2>2, <2>8 DEF PipeInv, TasksAdvance
<1>4. CASE UNCHANGED ingressVars /\ UNCHANGED queueVars
  BY <1>1, <1>4, StillPipe
<1>5. CASE /\ UNCHANGED ingressVars
           /\ \E w \in granted : w.reader = s /\ (Queue!BindingFails(w) \/ Queue!CancelGranted(w))
  <2>1. PICK w \in granted : w.reader = s /\ (Queue!BindingFails(w) \/ Queue!CancelGranted(w))
    BY <1>5
  <2>2. UNCHANGED work
    BY <2>1 DEF Queue!BindingFails, Queue!CancelGranted
  <2>3. QueueInv' /\ w \in Queue!Waiting /\ Queue!Waiting' = Queue!Waiting \ {w}
    BY <1>1, <2>1, OnWaitEnds DEF PipeInv
  <2>4. IngressInv' /\ \A r \in Sources : Last(r)' = Last(r)
    BY <1>5 DEF ingressVars, PipeInv, IngressInv, InboxInv, Last
  <2>5. \A v \in Queue!Waiting : v.reader \in Sources
    BY WaitsAreTyped DEF PipeInv
  <2>6. \A r \in Sources \ {s} : Queue!Busy(r)' <=> Queue!Busy(r)
    BY <2>1, <2>3 DEF Queue!Busy
  <2>7. \A r \in Sources : Last(r)' \in Nat /\ Last(r)' >= Last(r)
    BY <1>2, <2>4
  <2>8. \A v \in Queue!Waiting' : Last(v.reader)' = Last(v.reader)
    BY <2>3, <2>4, <2>5
  <2>9. OrderInv'
    BY <1>1, <2>2, <2>3, <2>4, <2>6, <2>7, <2>8, OrderEnds
  <2> QED BY <2>3, <2>4, <2>9 DEF PipeInv, TasksAdvance
<1> QED BY <1>3, <1>4, <1>5 DEF ReaderEnds, ReaderCancelled, BindingFails

\* Cancelling all readers keeps them.
LEMMA CancelledReadersPipe ==
  ASSUME RuntimeAssumption, PipeInv, TasksAdvance, CancelReaders
  PROVE  PipeInv'
<1>1. /\ sleeping' = <<>>
      /\ UNCHANGED <<inbox, arrived, value, granted, work, generation, begun>>
  BY DEF CancelReaders, ingressVars
<1>2. QueueInv' /\ Queue!Waiting' \subseteq Queue!Waiting
  BY <1>1, OnCancelReaders DEF PipeInv
<1>3. IngressInv' /\ \A r \in Sources : Last(r)' = Last(r)
  BY <1>1 DEF PipeInv, IngressInv, InboxInv, Last
<1>4. \A r \in Sources : ~Runs(Reader(r))'
  BY TasksDiffer DEF CancelReaders, Cancelled, Runs
<1>5. \A w \in Queue!Waiting' : Last(w.reader)' = Last(w.reader)
  BY <1>2, <1>3, WaitsAreTyped DEF PipeInv
<1>6. \A r \in Sources : Last(r)' \in Nat /\ Last(r)' >= Last(r)
  BY <1>3, PipeFacts
<1>7. OrderInv'
  BY <1>1, <1>2, <1>4, <1>5, <1>6, OrderEnds
<1> QED BY <1>2, <1>3, <1>7 DEF PipeInv, TasksAdvance

\* Processing keeps them, and the frame is the next one of its source.
LEMMA ProcessPipe ==
  ASSUME RuntimeAssumption, PipeInv, TasksAdvance, Process,
         NEW s, s = Head(work).frame.source
  PROVE  /\ PipeInv'
         /\ s \in Sources /\ Head(work) \in Item
         /\ Head(work).frame = Numbered(s, begun[s] + 1)
         /\ begun[s] < arrived[s]
         /\ begun' = [begun EXCEPT ![s] = @ + 1]
<1>1. /\ Runs(ProcessorStage) /\ Queue!Take /\ UNCHANGED <<inbox, arrived, generation>>
      /\ begun' = [begun EXCEPT ![s] = @ + 1]
  BY DEF Process, ingressVars
<1>2. /\ QueueInv' /\ work # <<>> /\ work' = Tail(work)
      /\ Queue!Waiting' = Queue!Waiting
  BY <1>1, OnTake DEF PipeInv
<1>3. IngressInv' /\ \A r \in Sources : Last(r)' = Last(r)
  BY <1>1 DEF PipeInv, IngressInv, InboxInv, Last
<1>4. /\ OrderInv' /\ s \in Sources /\ Head(work) \in Item
      /\ Head(work).frame = Numbered(s, begun[s] + 1)
      /\ begun[s] < arrived[s]
  BY <1>1, <1>2, <1>3, OrderTaken
<1> QED BY <1>1, <1>2, <1>3, <1>4 DEF PipeInv, TasksAdvance

\* A failure to process keeps them, though the frame is lost.
LEMMA ProcessFailsPipe ==
  ASSUME RuntimeAssumption, PipeInv, TasksAdvance, ProcessFails
  PROVE  PipeInv'
<1>1. /\ Queue!Take /\ UNCHANGED <<inbox, arrived, generation, begun>>
      /\ ~Runs(ProcessorStage)'
  BY TasksDiffer DEF ProcessFails, ingressVars, End, Runs, PipeInv, TasksTyped
<1>2. /\ QueueInv' /\ work # <<>> /\ work' = Tail(work)
      /\ Queue!Waiting' = Queue!Waiting
  BY <1>1, OnTake DEF PipeInv
<1>3. IngressInv' /\ \A r \in Sources : Last(r)' = Last(r)
  BY <1>1 DEF PipeInv, IngressInv, InboxInv, Last
<1>4. \A i \in DOMAIN work' : i + 1 \in DOMAIN work /\ work'[i] = work[i + 1]
  BY <1>2, PipeFacts
<1>5. \A r \in Sources : \A i \in DOMAIN work' :
        work'[i].frame.source = r => work'[i].frame.number <= Last(r)'
  BY <1>3, <1>4 DEF PipeInv, OrderInv
<1>6. \A w \in Queue!Waiting' : w.frame = Numbered(w.reader, Last(w.reader)')
  BY <1>2, <1>3, WaitsAreTyped DEF PipeInv, OrderInv
<1>7. OrderInv'
  BY <1>1, <1>5, <1>6 DEF PipeInv, OrderInv
<1> QED BY <1>2, <1>3, <1>7 DEF PipeInv, TasksAdvance

\* Every step keeps them.
LEMMA StepPipe == ASSUME RuntimeAssumption, PipeInv, [Next]_vars PROVE PipeInv'
<1>1. TasksAdvance
  BY TasksMonotone DEF PipeInv
<1>2. CASE Still
  BY <1>1, <1>2, StillPipe DEF Still
<1>3. ASSUME NEW s \in Sources, Arrive(s) PROVE PipeInv'
  BY <1>1, <1>3, StillPipe DEF Arrive
<1>4. ASSUME NEW s \in Sources, Read(s) \/ Admitted(s) \/ ReaderEnds(s) PROVE PipeInv'
  BY <1>1, <1>4, ReadPipe, AdmittedPipe, EndedReaderPipe
<1>5. CASE Replace
  BY <1>1, <1>5, StillPipe DEF Replace, Queue!Replace, Queue!admissionVars,
     Queue!semaphoreVars, queueVars, semaphoreVars
<1>6. CASE Process \/ ProcessFails
  BY <1>1, <1>6, ProcessPipe, ProcessFailsPipe
<1>7. CASE CancelReaders
  BY <1>1, <1>7, CancelledReadersPipe
<1> QED BY <1>2, <1>3, <1>4, <1>5, <1>6, <1>7, FrameSteps

-----------------------------------------------------------------------------
(* The barrier between the processor stage and the egress stage.           *)

Idle == hand = <<>> /\ egressQueue = <<>>

\* Batch b, and no other, is queued or being dispatched.
Holds(b) ==
  \/ hand = <<b>> /\ egressQueue = <<>>
  \/ hand = <<>> /\ egressQueue = <<b>>

StageInv ==
  /\ completion \in {"none", "pending", "done", "failed", "cancelled"}
  /\ transports \subseteq Endpoints
  /\ Idle \/ \E b \in Batch : Holds(b) /\ b.next <= Len(b.outputs)
  /\ completion \in {"none", "done"} => Idle
  /\ completion = "pending" => ~Idle
  /\ task[EgressStage] = "cancelled" => ~Runs(ProcessorStage)
  /\ Runs(ProcessorStage) /\ completion \in {"none", "pending", "done"} => Runs(EgressStage)

\* Steps that leave the stages alone, or end the processor stage.
Quiet ==
  /\ UNCHANGED <<egressVars, completion>>
  /\ Runs(ProcessorStage)' => Runs(ProcessorStage) /\ task'[EgressStage] = task[EgressStage]

\* The steps that concern the two stages.
LEMMA StageSteps ==
  ASSUME TasksTyped, [Next]_vars
  PROVE  \/ Quiet
         \/ Process \/ Completed \/ ProcessorCancelled
         \/ EgressTakes \/ Dispatch \/ DispatchFails \/ EgressCancelled
         \/ Close
<1>1. /\ \A s \in Sources : Listener(s) # ProcessorStage /\ Listener(s) # EgressStage
                            /\ Reader(s) # ProcessorStage /\ Reader(s) # EgressStage
      /\ ProcessorStage \in Tasks /\ EgressStage \in Tasks /\ FanIn # ProcessorStage
      /\ FanIn # EgressStage /\ EgressStage # ProcessorStage
      /\ {ProcessorStage, EgressStage} \subseteq Owned \ ReaderTasks
  BY TasksDiffer DEF ReaderTasks
<1>2. ASSUME NEW s \in Sources, Arrive(s) \/ Read(s) \/ Admitted(s) PROVE Quiet
  BY <1>2 DEF Arrive, Read, Admitted, Quiet, taskVars, Runs
<1>3. ASSUME NEW t \in Tasks, t # EgressStage, End(t), UNCHANGED <<egressVars, completion>>
      PROVE  Quiet
  BY <1>1, <1>3 DEF End, Quiet, Runs, TasksTyped
<1>4. ASSUME NEW s \in Sources, ListenerEnds(s) \/ ReaderCancelled(s) \/ BindingFails(s)
      PROVE  Quiet
  BY <1>1, <1>3, <1>4, TasksDiffer DEF ListenerEnds, ReaderCancelled, BindingFails
<1>5. ASSUME ProcessFails \/ CompletionFails \/ FanInEnds PROVE Quiet
  BY <1>1, <1>3, <1>5, TasksDiffer DEF ProcessFails, CompletionFails, FanInEnds
<1>6. ASSUME CancelReaders PROVE Quiet
  BY <1>1, <1>6 DEF CancelReaders, Cancelled, Quiet, Runs, TasksTyped
<1>7. ASSUME CancelAll PROVE Quiet
  BY <1>1, <1>7 DEF CancelAll, Cancelled, Quiet, Runs
<1>8. ASSUME StopControl \/ Replace \/ UNCHANGED vars PROVE Quiet
  BY <1>8 DEF StopControl, Replace, vars, Quiet, taskVars, Runs
<1> QED
  BY <1>2, <1>4, <1>5, <1>6, <1>7, <1>8
     DEF Next, Scheduled, Stages, Egress, Supervision, Notice, Interrupt

\* A batch stays a batch when the generation rises.
LEMMA BatchesGrow ==
  ASSUME RuntimeAssumption, QueueInv, [Next]_vars
  PROVE  /\ generation \in Nat /\ generation' \in Nat /\ generation <= generation'
         /\ Item \subseteq Item' /\ Batch \subseteq Batch'
<1>1. generation \in Nat
  BY FromQueueInv DEF QueueTypes
<1>2. ASSUME NEW s \in Sources,
             Arrive(s) \/ ListenerEnds(s) \/ Scheduled(s) \/ BindingFails(s)
      PROVE  UNCHANGED generation
  BY <1>2 DEF Arrive, ListenerEnds, Scheduled, Read, Admitted, ReaderCancelled, BindingFails
<1>3. Stages \/ ProcessFails \/ Egress \/ DispatchFails => UNCHANGED generation
  BY DEF Stages, Process, Completed, CompletionFails, ProcessorCancelled, ProcessFails,
         Egress, EgressTakes, Dispatch, EgressCancelled, DispatchFails
<1>4. Supervision \/ Interrupt \/ UNCHANGED vars => UNCHANGED generation
  BY DEF Supervision, CancelReaders, FanInEnds, Notice, StopControl, Close, Interrupt, CancelAll, vars
<1>5. Replace => generation' = generation + 1
  BY DEF Replace, Queue!Replace
<1>6. generation' \in Nat /\ generation <= generation'
  BY <1>1, <1>2, <1>3, <1>4, <1>5 DEF Next
<1> QED BY <1>1, <1>6 DEF Item, Batch

\* The barrier is open at first.
LEMMA InitStages == ASSUME Init PROVE StageInv
BY TasksDiffer DEF Init, StageInv, Idle, Runs

\* Every step keeps the barrier.
LEMMA StepStages ==
  ASSUME RuntimeAssumption, PipeInv, StageInv, [Next]_vars
  PROVE  StageInv'
<1>1. /\ EgressStage \in Tasks /\ ProcessorStage \in Tasks /\ EgressStage # ProcessorStage
      /\ EgressStage # FanIn /\ task \in [Tasks -> {"runs", "cancelled", "cleaning", "ended"}]
      /\ task[EgressStage] # "cleaning"
  BY TasksDiffer DEF PipeInv, TasksTyped
<1>2. Batch \subseteq Batch' /\ Item = [frame : Frame, generation : 0 .. generation]
  BY BatchesGrow DEF PipeInv, Item
<1>3. CASE Quiet
  <2>1. UNCHANGED <<hand, egressQueue, completion, transports>>
    BY <1>3 DEF Quiet, egressVars
  <2> QED BY <1>1, <1>2, <1>3, <2>1 DEF Quiet, StageInv, Idle, Holds, Runs
<1>4. CASE Process
  <2>1. /\ Runs(ProcessorStage) /\ completion = "none" /\ Idle
        /\ UNCHANGED <<hand, transports, task>>
    BY <1>4 DEF Process, StageInv, taskVars
  <2>2. PICK outputs \in Batches :
          IF outputs = <<>>
          THEN UNCHANGED <<egressQueue, completion>>
          ELSE /\ egressQueue' =
                    Append(egressQueue, [item |-> Head(work), outputs |-> outputs, next |-> 1])
               /\ completion' = "pending"
    BY <1>4 DEF Process
  <2>3. CASE outputs = <<>>
    BY <1>2, <2>1, <2>2, <2>3 DEF StageInv, Idle, Holds, Runs
  <2>4. CASE outputs # <<>>
    <3> DEFINE b == [item |-> Head(work), outputs |-> outputs, next |-> 1]
    <3>1. Head(work) \in Item
      BY <1>4, ProcessPipe, TasksMonotone DEF PipeInv
    <3>2. outputs \in Seq(Targets) /\ 1 <= Len(outputs)
      BY <2>4, RuntimeAssumption DEF RuntimeAssumption
    <3>3. b \in Batch /\ b.next <= Len(b.outputs)
      <4>1. Batch = [item : Item, outputs : Batches, next : Nat \ {0}]
        BY DEF Batch, Item
      <4> QED BY <3>1, <3>2, <4>1
    <3>4. hand' = <<>> /\ egressQueue' = <<b>> /\ completion' = "pending"
      BY <2>1, <2>2, <2>4 DEF Idle
    <3>5. ~Idle'
      BY <3>4 DEF Idle
    <3> HIDE DEF b
    <3>6. \E c \in Batch' : Holds(c)' /\ c.next <= Len(c.outputs)
      BY <1>2, <3>3, <3>4 DEF Holds
    <3> QED BY <2>1, <3>4, <3>5, <3>6 DEF StageInv, Runs
  <2> QED BY <2>3, <2>4
<1>5. CASE Completed
  <2>1. /\ UNCHANGED <<hand, egressQueue, transports, task>>
        /\ completion = "done" /\ completion' = "none"
    BY <1>5 DEF Completed, egressVars, taskVars
  <2> QED BY <1>2, <2>1 DEF StageInv, Idle, Holds, Runs
<1>6. CASE ProcessorCancelled
  <2>1. /\ UNCHANGED <<hand, egressQueue, transports>>
        /\ completion' = Resolved("cancelled")
        /\ ~Runs(ProcessorStage)'
    BY <1>1, <1>6 DEF ProcessorCancelled, egressVars, End, Runs
  <2> QED BY <1>2, <2>1 DEF StageInv, Idle, Holds, Resolved
<1>7. CASE EgressTakes
  <2>1. PICK b \in Batch : Holds(b) /\ b.next <= Len(b.outputs)
    BY <1>7 DEF EgressTakes, StageInv, Idle
  <2>2. hand = <<>> /\ egressQueue = <<b>>
    BY <1>7, <2>1 DEF EgressTakes, Holds
  <2>3. /\ hand' = <<b>> /\ egressQueue' = <<>>
        /\ UNCHANGED <<completion, transports, task>>
    BY <1>7, <2>2 DEF EgressTakes, taskVars
  <2>4. ~Idle /\ ~Idle'
    BY <2>2, <2>3 DEF Idle
  <2>5. \E c \in Batch' : Holds(c)' /\ c.next <= Len(c.outputs)
    BY <1>2, <2>1, <2>3 DEF Holds
  <2> QED BY <2>3, <2>4, <2>5 DEF StageInv, Runs
<1>8. CASE Dispatch
  <2>1. PICK b \in Batch : Holds(b) /\ b.next <= Len(b.outputs)
    BY <1>8 DEF Dispatch, StageInv, Idle
  <2>2. /\ hand = <<b>> /\ egressQueue = <<>> /\ egressQueue' = <<>> /\ UNCHANGED task
        /\ transports' = Ensured(b)
        /\ IF b.next = Len(b.outputs)
           THEN hand' = <<>> /\ completion' = Resolved("done")
           ELSE hand' = <<[b EXCEPT !.next = @ + 1]>> /\ UNCHANGED completion
    BY <1>8, <2>1 DEF Dispatch, Holds, taskVars
  <2>3. /\ b.outputs \in Seq(Targets) /\ Len(b.outputs) \in Nat
        /\ b.next \in Nat \ {0} /\ b.next <= Len(b.outputs)
    BY <2>1, RuntimeAssumption DEF RuntimeAssumption, Batch
  <2>4. transports \subseteq Endpoints => Ensured(b) \subseteq Endpoints
    BY <2>3 DEF Ensured, Endpoints
  <2>5. ~Idle /\ completion \notin {"none", "done"}
    BY <2>2 DEF Idle, StageInv
  <2>6. CASE b.next = Len(b.outputs)
    <3>1. /\ hand' = <<>> /\ egressQueue' = <<>> /\ transports' \subseteq Endpoints
          /\ completion' = (IF completion = "pending" THEN "done" ELSE completion)
      BY <2>2, <2>4, <2>6 DEF Resolved, StageInv
    <3> QED BY <2>2, <2>5, <3>1 DEF StageInv, Idle, Runs
  <2>7. CASE b.next # Len(b.outputs)
    <3> DEFINE c == [b EXCEPT !.next = @ + 1]
    <3>1. c \in Batch /\ c.next <= Len(c.outputs)
      BY <2>1, <2>3, <2>7 DEF Batch
    <3>2. /\ hand' = <<c>> /\ egressQueue' = <<>> /\ transports' \subseteq Endpoints
          /\ UNCHANGED completion
      BY <2>2, <2>4, <2>7 DEF StageInv
    <3> HIDE DEF c
    <3>3. ~Idle' /\ Holds(c)'
      BY <3>2 DEF Idle, Holds
    <3>4. \E d \in Batch' : Holds(d)' /\ d.next <= Len(d.outputs)
      BY <1>2, <3>1, <3>2 DEF Holds
    <3> QED BY <2>2, <2>5, <3>2, <3>3, <3>4 DEF StageInv, Runs
  <2> QED BY <2>6, <2>7
<1>9. CASE DispatchFails
  <2>1. /\ hand # <<>> /\ UNCHANGED <<hand, egressQueue, transports>>
        /\ completion' = Resolved("failed")
        /\ task' = [task EXCEPT ![EgressStage] = "ended"]
    BY <1>9 DEF DispatchFails, egressVars, End
  <2>2. completion \notin {"none", "done"} /\ completion' \in {"failed", "cancelled"}
    BY <2>1 DEF StageInv, Idle, Resolved
  <2> QED BY <1>1, <1>2, <2>1, <2>2 DEF StageInv, Idle, Holds, Runs
<1>10. CASE EgressCancelled
  <2>1. /\ UNCHANGED <<hand, egressQueue, transports>>
        /\ completion' = IF hand # <<>> THEN Resolved("cancelled") ELSE completion
        /\ task' = [task EXCEPT ![EgressStage] = "ended"]
        /\ task[EgressStage] = "cancelled"
    BY <1>10 DEF EgressCancelled, egressVars, End
  <2> QED BY <1>1, <1>2, <2>1 DEF StageInv, Idle, Holds, Runs, Resolved
<1>11. CASE Close
  <2>1. UNCHANGED <<hand, egressQueue, completion, task>> /\ transports' = {}
    BY <1>11 DEF Close
  <2> QED BY <1>2, <2>1 DEF StageInv, Idle, Holds, Runs
<1> QED
  BY <1>3, <1>4, <1>5, <1>6, <1>7, <1>8, <1>9, <1>10, <1>11, StageSteps DEF PipeInv

\* The invariants give what the stages promise.
LEMMA FromInvariants ==
  ASSUME RuntimeAssumption, PipeInv, StageInv
  PROVE  Consistent
<1>1. /\ \A s \in Sources : inbox[s] \in Seq(Frame) /\ Len(inbox[s]) <= InboxCapacity
      /\ Queue!TypeOK /\ Len(work) <= Capacity
  BY FromQueueInv DEF PipeInv, IngressInv, InboxInv, QueueTypes
<1>2. /\ egressQueue \in Seq(Batch) /\ Len(egressQueue) <= 1
      /\ hand \in Seq(Batch) /\ Len(hand) <= 1
      /\ ~Idle => Len(egressQueue) + Len(hand) = 1
  <2>1. /\ <<>> \in Seq(Batch) /\ Len(<<>>) = 0
        /\ \A b \in Batch : <<b>> \in Seq(Batch) /\ Len(<<b>>) = 1
    OBVIOUS
  <2>2. CASE Idle
    BY <2>1, <2>2 DEF Idle
  <2>3. CASE ~Idle
    <3>1. PICK b \in Batch : Holds(b)
      BY <2>3 DEF StageInv
    <3>2. CASE hand = <<b>> /\ egressQueue = <<>>
      BY <2>1, <3>2
    <3>3. CASE hand = <<>> /\ egressQueue = <<b>>
      BY <2>1, <3>3
    <3> QED BY <3>1, <3>2, <3>3 DEF Holds
  <2> QED BY <2>2, <2>3
<1>3. /\ \A t \in Tasks \ {FanIn} : task[t] \in {"runs", "cancelled", "ended"}
      /\ task[FanIn] \in {"runs", "cancelled", "cleaning", "ended"}
      /\ supervisor \in {"waits", "cancels", "stops control", "closed"}
  BY TasksDiffer DEF PipeInv, TasksTyped
<1>4. TypeOK
  BY <1>1, <1>2, <1>3 DEF TypeOK, StageInv
<1>5. BarrierHolds
  BY DEF BarrierHolds, StageInv, Idle
<1>6. BarrierWillOpen
  BY <1>2 DEF BarrierWillOpen, StageInv
<1> QED BY <1>4, <1>5, <1>6 DEF Consistent

\* Every queue keeps its bound, the processor stage never has two batches with
\* the egress stage, and never waits at a barrier that nobody will open.
THEOREM StagesAreConsistent == Spec => []Consistent
<1> USE RuntimeAssumption
<1>1. Init => PipeInv /\ StageInv
  BY InitPipe, InitStages
<1>2. PipeInv /\ StageInv /\ [Next]_vars => (PipeInv /\ StageInv)'
  BY StepPipe, StepStages
<1>3. PipeInv /\ StageInv => Consistent
  BY FromInvariants
<1> QED BY <1>1, <1>2, <1>3, PTL DEF Spec

-----------------------------------------------------------------------------
(* What the steps of the stages do.                                        *)

\* The steps that the abstract specification sees: it does not, when the processor
\* stage takes no more frames, see the work queue.
LEMMA Moves ==
  ASSUME RuntimeAssumption, PipeInv, [Next]_vars
  PROVE  \/ \E s \in Sources : Arrive(s) \/ Read(s) \/ Admitted(s)
         \/ Replace \/ Process \/ EgressTakes \/ Dispatch
         \/ /\ UNCHANGED <<arrived, begun, generation, egressQueue, hand, sent>>
            /\ Runs(ProcessorStage)' => Runs(ProcessorStage) /\ UNCHANGED work
<1> DEFINE Same == UNCHANGED <<arrived, begun, generation, egressQueue, hand, sent>>
           Keeps == Runs(ProcessorStage)' => UNCHANGED work
<1>1. ASSUME NEW s \in Sources, ListenerEnds(s) \/ ReaderCancelled(s) \/ BindingFails(s)
      PROVE  Same /\ Keeps
  BY <1>1 DEF ListenerEnds, ReaderCancelled, BindingFails, Dequeue, ingressVars, egressVars,
              queueVars, Queue!BindingFails, Queue!CancelGranted
<1>2. ASSUME Completed \/ CompletionFails \/ ProcessorCancelled PROVE Same /\ Keeps
  BY <1>2 DEF Completed, CompletionFails, ProcessorCancelled, ingressVars, egressVars, queueVars
<1>3. ASSUME ProcessFails PROVE Same /\ Keeps
  <2>1. Same
    BY <1>3 DEF ProcessFails, ingressVars, egressVars
  <2>2. ~Runs(ProcessorStage)'
    BY <1>3, TasksDiffer DEF ProcessFails, End, Runs, PipeInv, TasksTyped
  <2> QED BY <2>1, <2>2
<1>4. ASSUME DispatchFails \/ EgressCancelled PROVE Same /\ Keeps
  BY <1>4 DEF DispatchFails, EgressCancelled, ingressVars, egressVars, queueVars
<1>5. ASSUME Supervision \/ Interrupt PROVE Same /\ Keeps
  BY <1>5 DEF Supervision, CancelReaders, FanInEnds, Notice, StopControl, Close, Interrupt, CancelAll,
              ingressVars, egressVars, queueVars
<1>6. ASSUME UNCHANGED vars PROVE Same /\ Keeps
  BY <1>6 DEF vars, ingressVars, egressVars, queueVars
<1>7. Runs(ProcessorStage)' => Runs(ProcessorStage)
  BY TasksMonotone, TasksDiffer DEF PipeInv, TasksAdvance
<1> QED
  BY <1>1, <1>2, <1>3, <1>4, <1>5, <1>6, <1>7 DEF Next, Scheduled, Stages, Egress

\* What a reader puts in the work queue, if anything: the frame of its source that
\* comes after those admitted, bound to the generation in force.
LEMMA AdmitsNext ==
  ASSUME RuntimeAssumption, PipeInv, NEW s \in Sources, Read(s) \/ Admitted(s)
  PROVE  /\ Runs(Reader(s))
         /\ UNCHANGED <<arrived, begun, generation, egressQueue, hand, sent, task>>
         /\ \/ UNCHANGED work
            \/ /\ Handed(s) + 1 \in 1 .. arrived[s]
               /\ work' = Append(work, [frame |-> Numbered(s, Handed(s) + 1),
                                        generation |-> generation])
<1>1. /\ Runs(Reader(s))
      /\ UNCHANGED <<arrived, begun, generation, egressQueue, hand, sent, task>>
  BY DEF Read, Admitted, Dequeue, ingressVars, egressVars, taskVars
<1>2. Last(s) \in Nat /\ Handed(s) \in Nat
  BY PipeFacts
<1>3. arrived[s] \in Nat /\ Len(inbox[s]) \in Nat
  BY DEF PipeInv, IngressInv, InboxInv
<1>4. CASE Read(s)
  <2> DEFINE f == Head(inbox[s])
  <2>1. Dequeue(s) /\ Queue!Admit(s, f) /\ UNCHANGED generation
    BY <1>4 DEF Read
  <2>2. /\ f \in Frame /\ f = Numbered(s, Last(s) + 1) /\ Last(s)' = Last(s) + 1
        /\ IngressInv'
    BY <2>1, OnDequeue DEF PipeInv, Numbered
  <2>3. /\ ~Queue!Busy(s)
        /\ \/ work' = Append(work, [frame |-> f, generation |-> generation])
           \/ work' = work
    BY <2>1, <2>2, OnAdmit DEF PipeInv
  <2>4. Handed(s) = Last(s)
    BY <2>3 DEF Handed
  <2>5. Last(s) + 1 <= arrived[s]
    <3>1. arrived'[s] = arrived[s] /\ Len(inbox'[s]) \in Nat
      BY <1>1, <2>2 DEF IngressInv, InboxInv
    <3>2. Last(s)' = arrived'[s] - Len(inbox'[s])
      BY DEF Last
    <3> QED BY <1>2, <1>3, <2>2, <3>1, <3>2
  <2> QED BY <1>1, <1>2, <1>3, <2>2, <2>3, <2>4, <2>5
<1>5. CASE Admitted(s)
  <2>1. PICK w \in granted : w.reader = s /\ Queue!Resume(w)
    BY <1>5 DEF Admitted
  <2>2. /\ w \in Queue!Waiting
        /\ work' = Append(work, [frame |-> w.frame, generation |-> generation])
    BY <1>1, <2>1, OnWaitEnds DEF PipeInv
  <2>3. Queue!Busy(s)
    BY <2>1, <2>2 DEF Queue!Busy
  <2>4. w.frame = Numbered(s, Last(s)) /\ Handed(s) = Last(s) - 1
    BY <2>1, <2>2, <2>3 DEF PipeInv, OrderInv, Handed
  <2>5. Last(s) <= arrived[s] /\ Handed(s) + 1 = Last(s)
    BY <1>2, <1>3, <2>4 DEF Last
  <2> QED BY <1>1, <1>2, <1>3, <2>2, <2>4, <2>5
<1> QED BY <1>4, <1>5

\* A batch that is put is the head of the work queue.
LEMMA OnProcess ==
  ASSUME RuntimeAssumption, StageInv, Process
  PROVE  /\ Idle /\ UNCHANGED <<sent, arrived, generation>>
         /\ \E outputs \in Batches :
              IF outputs = <<>>
              THEN Idle'
              ELSE /\ hand' = <<>>
                   /\ egressQueue' = <<[item |-> Head(work), outputs |-> outputs, next |-> 1]>>
<1>1. Idle
  BY DEF Process, StageInv
<1> QED BY <1>1 DEF Process, Idle, ingressVars

\* A dispatch is the next one of the batch.
LEMMA OnDispatch ==
  ASSUME RuntimeAssumption, StageInv, Dispatch
  PROVE  \E b \in Batch :
           /\ Holds(b)
           /\ UNCHANGED <<arrived, begun, generation, work>>
           /\ sent' = Sent(b)
           /\ IF b.next = Len(b.outputs)
              THEN Idle'
              ELSE hand' = <<[b EXCEPT !.next = @ + 1]>> /\ egressQueue' = <<>>
<1>1. PICK b \in Batch : Holds(b)
  BY DEF Dispatch, StageInv, Idle
<1>2. hand = <<b>> /\ egressQueue = <<>>
  BY <1>1 DEF Dispatch, Holds
<1> QED BY <1>1, <1>2 DEF Dispatch, Idle, ingressVars, queueVars

\* Taking a batch from the queue changes nothing but where it is.
LEMMA OnEgressTakes ==
  ASSUME StageInv, EgressTakes
  PROVE  /\ UNCHANGED <<arrived, begun, generation, work, sent>>
         /\ \E b \in Batch : Holds(b) /\ hand' = <<b>> /\ egressQueue' = <<>>
<1>1. PICK b \in Batch : Holds(b)
  BY DEF EgressTakes, StageInv, Idle
<1>2. hand = <<>> /\ egressQueue = <<b>>
  BY <1>1 DEF EgressTakes, Holds
<1> QED BY <1>1, <1>2 DEF EgressTakes, ingressVars, queueVars

-----------------------------------------------------------------------------
(* The runtime implements module Delivery.                                 *)

\* Without a batch no dispatch is outstanding.
LEMMA NothingOutstanding ==
  (Idle => Outstanding = <<>>) /\ (Idle' => Outstanding' = <<>>)
<1>1. <<>> \o <<>> = <<>>
  OBVIOUS
<1> QED BY <1>1 DEF Outstanding, Idle

\* The dispatches of a batch are what is outstanding.
LEMMA OneOutstanding ==
  ASSUME NEW b
  PROVE  /\ Holds(b) => Outstanding = <<Under(b)>>
         /\ Holds(b)' => Outstanding' = <<Under(b)>>
<1>1. <<b>> \o <<>> = <<b>> /\ <<>> \o <<b>> = <<b>>
  OBVIOUS
<1>2. DOMAIN <<b>> = {1} /\ <<b>>[1] = b
  OBVIOUS
<1>3. <<Under(b)>> = [i \in {1} |-> Under(b)]
  OBVIOUS
<1>4. Holds(b) => Outstanding = [i \in {1} |-> Under(b)]
  BY <1>1, <1>2 DEF Outstanding, Holds, Under
<1>5. Holds(b)' => Outstanding' = [i \in {1} |-> Under(b)]
  BY <1>1, <1>2 DEF Outstanding, Holds, Under
<1> QED BY <1>3, <1>4, <1>5

\* The initial state maps to the initial state of module Delivery.
LEMMA InitDelivers == ASSUME Init PROVE Promise!Init
<1>1. Outstanding = <<>>
  BY NothingOutstanding DEF Init, Idle
<1>2. Runs(ProcessorStage)
  BY TasksDiffer DEF Init, Runs
<1> QED BY <1>1, <1>2 DEF Init, Queue!Init, Promise!Init

\* What the abstract specification sees of the work queue.
Accepted == IF Runs(ProcessorStage) THEN work ELSE <<>>

\* The step of a reader is an acceptance, or not seen.
LEMMA AcceptsNext ==
  ASSUME RuntimeAssumption, PipeInv, NEW s \in Sources, Read(s) \/ Admitted(s)
  PROVE  \/ \E n \in 1 .. arrived[s] : Promise!Accept(s, n)
         \/ UNCHANGED <<arrived, Accepted, begun, ~Runs(ProcessorStage), generation,
                        Outstanding, sent>>
<1> DEFINE n == Handed(s) + 1
<1>1. /\ Runs(Reader(s))
      /\ UNCHANGED <<arrived, begun, generation, egressQueue, hand, sent, task>>
      /\ \/ UNCHANGED work
         \/ /\ n \in 1 .. arrived[s]
            /\ work' = Append(work, [frame |-> Numbered(s, n), generation |-> generation])
  BY AdmitsNext
<1>2. UNCHANGED Outstanding /\ Runs(ProcessorStage)' = Runs(ProcessorStage)
  BY <1>1 DEF Outstanding, Under, Runs
<1>3. CASE UNCHANGED work \/ ~Runs(ProcessorStage)
  BY <1>1, <1>2, <1>3 DEF Accepted
<1>4. CASE ~UNCHANGED work /\ Runs(ProcessorStage)
  <2>1. UpTo(s, work, begun[s], Handed(s))
    BY <1>1, <1>4 DEF PipeInv, OrderInv, SourceOrder
  <2>2. Handed(s) \in Nat /\ begun[s] \in Nat
    BY PipeFacts DEF PipeInv, OrderInv
  <2> DEFINE N == {begun[s]} \cup
                    {work[i].frame.number : i \in {j \in DOMAIN work : work[j].frame.source = s}}
  <2>3. Handed(s) \in N
    BY <2>1 DEF UpTo, Numbered
  <2>4. \A m \in N : m \in Nat /\ m <= Handed(s)
    BY <2>1, <2>2, PipeFacts DEF UpTo, Frame
  <2>5. n - 1 \in N /\ \A m \in N : m < n
    <3>1. n - 1 = Handed(s) /\ \A m \in Nat : m <= Handed(s) => m < n
      BY <2>2
    <3> QED BY <2>3, <2>4, <3>1
  <2>6. n \in 1 .. arrived[s]
        /\ work' = Append(work, [frame |-> [source |-> s, number |-> n],
                                 generation |-> generation])
    BY <1>1, <1>4 DEF Numbered
  <2> HIDE DEF n
  <2>7. Promise!Accept(s, n)
    BY <1>1, <1>2, <1>4, <2>5, <2>6 DEF Promise!Accept, Promise!Numbers
  <2> QED BY <2>6, <2>7
<1> QED BY <1>3, <1>4

\* Every step maps to a step of module Delivery, or to a stutter.
LEMMA StepDelivers ==
  ASSUME RuntimeAssumption, PipeInv, StageInv, [Next]_vars
  PROVE  [Promise!Next]_<<arrived, Accepted, begun, ~Runs(ProcessorStage), generation,
                          Outstanding, sent>>
<1>1. ASSUME UNCHANGED <<egressQueue, hand>> PROVE UNCHANGED Outstanding
  BY <1>1 DEF Outstanding, Under
<1>2. ASSUME NEW s \in Sources, Arrive(s) PROVE Promise!Arrive(s)
  BY <1>1, <1>2 DEF Arrive, egressVars, queueVars, taskVars, Runs, Promise!Arrive
<1>3. ASSUME Replace PROVE Promise!Replace
  BY <1>1, <1>3 DEF Replace, ingressVars, egressVars, taskVars, Runs, Queue!Replace,
                    Queue!admissionVars, Promise!Replace
<1>4. ASSUME Process
      PROVE  \E n \in {Len(b) : b \in Batches} : Promise!Begin(n)
  <2>1. PICK s : s = Head(work).frame.source
    OBVIOUS
  <2>2. /\ Head(work) \in Item
        /\ begun' = [begun EXCEPT ![Head(work).frame.source] = @ + 1]
    BY <1>4, <2>1, ProcessPipe, TasksMonotone DEF PipeInv
  <2>3. work # <<>> /\ work' = Tail(work)
    BY <1>4, OnTake DEF Process, PipeInv
  <2>4. Runs(ProcessorStage) /\ Runs(ProcessorStage)'
    BY <1>4 DEF Process, taskVars, Runs
  <2>5. Idle /\ UNCHANGED <<sent, arrived, generation>>
    BY <1>4, OnProcess
  <2>6. Outstanding = <<>>
    BY <2>5, NothingOutstanding
  <2>7. PICK outputs \in Batches :
          IF outputs = <<>>
          THEN Idle'
          ELSE /\ hand' = <<>>
               /\ egressQueue' = <<[item |-> Head(work), outputs |-> outputs, next |-> 1]>>
    BY <1>4, OnProcess
  <2>8. outputs \in Seq(Targets)
    BY RuntimeAssumption DEF RuntimeAssumption
  <2>9. Outstanding' =
          IF Len(outputs) = 0 THEN <<>>
          ELSE << [frame |-> Head(work).frame, generation |-> Head(work).generation,
                   next |-> 1, last |-> Len(outputs)] >>
    <3>1. CASE outputs = <<>>
      <4>1. Outstanding' = <<>>
        BY <2>7, <3>1, NothingOutstanding
      <4> QED BY <3>1, <4>1
    <3>2. CASE outputs # <<>>
      <4>1. PICK b : b = [item |-> Head(work), outputs |-> outputs, next |-> 1]
        OBVIOUS
      <4>2. Holds(b)'
        BY <2>7, <3>2, <4>1 DEF Holds
      <4>3. Outstanding' = <<Under(b)>>
        BY <4>2, OneOutstanding
      <4>4. Under(b) = [frame |-> Head(work).frame, generation |-> Head(work).generation,
                        next |-> 1, last |-> Len(outputs)]
        BY <4>1 DEF Under
      <4>5. Len(outputs) # 0
        BY <2>8, <3>2
      <4> QED BY <4>3, <4>4, <4>5
    <3> QED BY <3>1, <3>2
  <2>10. Promise!Begin(Len(outputs))
    BY <2>2, <2>3, <2>4, <2>5, <2>6, <2>9 DEF Promise!Begin
  <2> QED BY <2>10
<1>5. ASSUME Dispatch PROVE Promise!Dispatch
  <2>1. PICK b \in Batch :
          /\ Holds(b)
          /\ UNCHANGED <<arrived, begun, generation, work>>
          /\ sent' = Sent(b)
          /\ IF b.next = Len(b.outputs)
             THEN Idle'
             ELSE hand' = <<[b EXCEPT !.next = @ + 1]>> /\ egressQueue' = <<>>
    BY <1>5, OnDispatch
  <2>01. UNCHANGED task
    BY <1>5 DEF Dispatch, taskVars
  <2>02. UNCHANGED <<Accepted, ~Runs(ProcessorStage)>>
    BY <2>1, <2>01 DEF Accepted, Runs
  <2>2. Outstanding = <<Under(b)>>
    BY <2>1, OneOutstanding
  <2>3. /\ sent' = Append(sent, [frame |-> Under(b).frame, generation |-> Under(b).generation,
                                 part |-> Under(b).next])
        /\ Under(b).next = b.next /\ Under(b).last = Len(b.outputs)
    BY <2>1 DEF Sent, Under
  <2> DEFINE u == Under(b)
  <2>0. u \in {Outstanding[i] : i \in DOMAIN Outstanding}
    BY <2>2
  <2>4. CASE b.next = Len(b.outputs)
    <3>1. Outstanding' = <<>>
      BY <2>1, <2>4, NothingOutstanding
    <3> QED BY <2>0, <2>1, <2>02, <2>3, <2>4, <3>1 DEF Accepted, Promise!Dispatch
  <2>5. CASE b.next # Len(b.outputs)
    <3>1. PICK c : c = [b EXCEPT !.next = @ + 1]
      OBVIOUS
    <3>2. Holds(c)'
      BY <2>1, <2>5, <3>1 DEF Holds
    <3>3. Outstanding' = <<Under(c)>>
      BY <3>2, OneOutstanding
    <3>4. Under(c) = [Under(b) EXCEPT !.next = @ + 1]
      BY <3>1 DEF Under, Batch
    <3> QED BY <2>0, <2>1, <2>02, <2>3, <2>5, <3>3, <3>4 DEF Accepted, Promise!Dispatch
  <2> QED BY <2>4, <2>5
<1>6. ASSUME EgressTakes
      PROVE  UNCHANGED <<arrived, Accepted, begun, ~Runs(ProcessorStage), generation,
                         Outstanding, sent>>
  <2>1. PICK b \in Batch : Holds(b) /\ hand' = <<b>> /\ egressQueue' = <<>>
    BY <1>6, OnEgressTakes
  <2>2. Holds(b)'
    BY <2>1 DEF Holds
  <2>3. Outstanding = <<Under(b)>> /\ Outstanding' = <<Under(b)>>
    BY <2>1, <2>2, OneOutstanding
  <2>4. UNCHANGED <<work, task>>
    BY <1>6 DEF EgressTakes, queueVars, taskVars
  <2> QED BY <1>6, <2>3, <2>4, OnEgressTakes DEF Accepted, Runs
<1>7. ASSUME UNCHANGED <<arrived, begun, generation, egressQueue, hand, sent>>,
             Runs(ProcessorStage)' => Runs(ProcessorStage) /\ UNCHANGED work
      PROVE  \/ Promise!Stop
             \/ UNCHANGED <<arrived, Accepted, begun, ~Runs(ProcessorStage), generation,
                            Outstanding, sent>>
  <2>1. CASE Runs(ProcessorStage) /\ ~Runs(ProcessorStage)'
    BY <1>1, <1>7, <2>1 DEF Promise!Stop
  <2>2. CASE Runs(ProcessorStage)' = Runs(ProcessorStage)
    BY <1>1, <1>7, <2>2 DEF Accepted
  <2> QED BY <1>7, <2>1, <2>2 DEF Runs
<1> QED
  BY <1>2, <1>3, <1>4, <1>5, <1>6, <1>7, AcceptsNext, Moves DEF Promise!Next

\* The runtime delivers in order and at most once, and each frame under the
\* generation in force as it was admitted, whatever its tasks do and however they
\* end.
THEOREM RuntimeDelivers == Spec => Delivers
<1> USE RuntimeAssumption
<1>1. Init => PipeInv /\ StageInv
  BY InitPipe, InitStages
<1>2. PipeInv /\ StageInv /\ [Next]_vars => (PipeInv /\ StageInv)'
  BY StepPipe, StepStages
<1>3. Init => Promise!Init
  BY InitDelivers
<1>4. PipeInv /\ StageInv /\ [Next]_vars
        => [Promise!Next]_<<arrived, Accepted, begun, ~Runs(ProcessorStage), generation,
                            Outstanding, sent>>
  BY StepDelivers
<1> QED BY <1>1, <1>2, <1>3, <1>4, PTL DEF Spec, Delivers, Promise!Spec, Accepted

-----------------------------------------------------------------------------
(* The counters: the runtime steps as before while it counts, and what a    *)
(* statistics request reads adds up, however readers, stages and batches     *)
(* end.                                                                      *)

Counter == [net : Int, peak : Nat]

Counts == [ingress : [Sources -> Counter], processing : Counter, egress : Counter,
           waiters : Int, batches : [open : Int, active : Int]]

-----------------------------------------------------------------------------
(* The invariant, one part for each owner of counters.                     *)

IngressCounted ==
  \A s \in Sources : QueueAccepted(counts.ingress[s], Len(inbox[s]), InboxCapacity)

ProcessingCounted == QueueAccepted(counts.processing, Len(work), Capacity)

EgressCounted == QueueAccepted(counts.egress, Len(egressQueue), EgressCapacity)

\* Beside the count: a reader that can still run has waited_for_capacity set
\* while it waits and only then.
WaitersCounted ==
  /\ waited \subseteq Sources
  /\ counts.waiters = Cardinality(waited)
  /\ \A s \in waited : ~Ended(Reader(s))
  /\ \A s \in Sources : Runs(Reader(s)) => (s \in waited <=> Queue!Busy(s))

BatchesCounted ==
  /\ counts.batches.open = counts.batches.active
  /\ counts.batches.active = IF hand # <<>> /\ ~Ended(EgressStage) THEN 1 ELSE 0

CountInv ==
  /\ counts \in Counts
  /\ IngressCounted /\ ProcessingCounted /\ EgressCounted
  /\ WaitersCounted /\ BatchesCounted

\* What the steps assume of the states before and after them.
RuntimeInv == PipeInv /\ StageInv

-----------------------------------------------------------------------------
(* The runtime beneath.                                                    *)

\* A step that counts is a step of the runtime.
LEMMA CountedSteps == CountedNext => Next
BY DEF CountedNext, ArriveCounts, ReadCounts, AdmittedCounts, BindingFailsCounts,
       ReaderCancelledCounts, ProcessCounts, ProcessFailsCounts, EgressTakesCounts,
       DispatchCounts, DispatchFailsCounts, EgressCancelledCounts, Uncounted,
       Next, Scheduled, Stages, Egress

\* The bounds of the queues and the names of the tasks.
LEMMA Bounds ==
  ASSUME RuntimeAssumption, RuntimeInv
  PROVE  /\ \A s \in Sources : inbox[s] \in Seq(Frame) /\ Len(inbox[s]) \in 0 .. InboxCapacity
         /\ work \in Seq(Item) /\ Len(work) \in 0 .. Capacity
         /\ egressQueue \in Seq(Batch) /\ Len(egressQueue) \in 0 .. 1
         /\ InboxCapacity \in Nat /\ Capacity \in Nat
<1>1. Consistent
  BY FromInvariants DEF RuntimeInv
<1>2. work \in Seq(Item)
  BY PipeFacts DEF RuntimeInv
<1>3. InboxCapacity \in Nat /\ Capacity \in Nat
  BY RuntimeAssumption DEF RuntimeAssumption
<1>4. \A s \in Sources : inbox[s] \in Seq(Frame) /\ Len(inbox[s]) <= InboxCapacity
  BY <1>1 DEF Consistent, TypeOK
<1>5. Len(work) <= Capacity
  BY <1>1 DEF Consistent, TypeOK
<1>6. egressQueue \in Seq(Batch) /\ Len(egressQueue) <= 1
  BY <1>1 DEF Consistent, TypeOK
<1>7. Len(egressQueue) \in Nat
  BY <1>6
<1>8. \A s \in Sources : Len(inbox[s]) \in 0 .. InboxCapacity
  BY <1>3, <1>4
<1>9. Len(work) \in 0 .. Capacity
  BY <1>2, <1>3, <1>5
<1>10. Len(egressQueue) \in 0 .. 1
  BY <1>6, <1>7
<1> QED BY <1>2, <1>3, <1>4, <1>6, <1>8, <1>9, <1>10

\* Counting an insertion or a removal keeps a queue's counters acceptable.
LEMMA PutAndGot ==
  ASSUME NEW q \in Counter, NEW depth \in Nat, NEW capacity \in Nat,
         QueueAccepted(q, depth, capacity)
  PROVE  /\ depth < capacity => /\ Put(q, depth + 1) \in Counter
                                /\ QueueAccepted(Put(q, depth + 1), depth + 1, capacity)
         /\ depth > 0 => /\ Got(q) \in Counter
                         /\ QueueAccepted(Got(q), depth - 1, capacity)
BY DEF Counter, QueueAccepted, Put, Got

-----------------------------------------------------------------------------
(* Steps that do not count.                                                *)

\* Nothing a counter is about has changed.
Unseen ==
  /\ UNCHANGED <<inbox, work, egressQueue, hand>>
  /\ Ended(EgressStage)' <=> Ended(EgressStage)
  /\ \A s \in Sources :
       /\ Ended(Reader(s))' <=> Ended(Reader(s))
       /\ Runs(Reader(s))' => Runs(Reader(s)) /\ (Queue!Busy(s)' <=> Queue!Busy(s))

\* Such a step keeps the invariant.
LEMMA UnseenKeeps == ASSUME CountInv, Unseen, UNCHANGED counted PROVE CountInv'
BY DEF CountInv, Unseen, counted, IngressCounted, ProcessingCounted, EgressCounted,
       WaitersCounted, BatchesCounted, Counts, Counter

\* Uncounted steps change nothing a counter is about.
LEMMA UncountedUnseen ==
  ASSUME RuntimeAssumption, RuntimeInv, Uncounted \/ UNCHANGED vars
  PROVE  Unseen
<1>1. /\ EgressStage \in Tasks /\ ReaderTasks \subseteq Tasks
      /\ task \in [Tasks -> {"runs", "cancelled", "cleaning", "ended"}]
      /\ EgressStage \notin {FanIn, ProcessorStage} /\ EgressStage \notin ReaderTasks
      /\ \A s \in Sources : Reader(s) \in ReaderTasks /\ Reader(s) # EgressStage
  BY TasksDiffer DEF RuntimeInv, PipeInv, TasksTyped, ReaderTasks
<1>2. ASSUME UNCHANGED <<inbox, queueVars, egressQueue, hand>>,
             UNCHANGED task \/ \E t \in Tasks \ (ReaderTasks \cup {EgressStage}) : End(t)
      PROVE  Unseen
  BY <1>1, <1>2 DEF Unseen, Ended, Runs, End, queueVars, semaphoreVars, Queue!Busy, Queue!Waiting
<1>3. ASSUME NEW s \in Sources, ListenerEnds(s) PROVE Unseen
  BY <1>2, <1>3, TasksDiffer DEF ListenerEnds, ingressVars, egressVars, ReaderTasks
<1>4. ASSUME Completed \/ CompletionFails \/ ProcessorCancelled \/ FanInEnds PROVE Unseen
  <2>1. FanIn \in Tasks \ (ReaderTasks \cup {EgressStage})
    BY TasksDiffer
  <2>2. ProcessorStage \in Tasks \ (ReaderTasks \cup {EgressStage})
    BY TasksDiffer DEF ReaderTasks
  <2>3. UNCHANGED <<inbox, queueVars, egressQueue, hand>>
    BY <1>4 DEF Completed, CompletionFails, ProcessorCancelled, FanInEnds, ingressVars, egressVars
  <2>4. UNCHANGED task \/ End(FanIn) \/ End(ProcessorStage)
    BY <1>4 DEF Completed, CompletionFails, ProcessorCancelled, FanInEnds, taskVars
  <2> QED BY <1>2, <2>1, <2>2, <2>3, <2>4
<1>5. ASSUME CancelReaders PROVE Unseen
  <2>1. /\ UNCHANGED <<inbox, work, egressQueue, hand>>
        /\ task' = Cancelled(ReaderTasks, [task EXCEPT ![FanIn] = "cleaning"])
    BY <1>5 DEF CancelReaders, ingressVars, egressVars
  <2>2. /\ task'[EgressStage] = task[EgressStage]
        /\ \A s \in Sources : /\ task'[Reader(s)] # "runs"
                              /\ task'[Reader(s)] = "ended" <=> task[Reader(s)] = "ended"
    BY <1>1, <2>1, TasksDiffer DEF Cancelled
  <2>3. \A s \in Sources : ~Runs(Reader(s))' /\ (Ended(Reader(s))' <=> Ended(Reader(s)))
    BY <2>2 DEF Ended, Runs
  <2>4. Ended(EgressStage)' <=> Ended(EgressStage)
    BY <2>2 DEF Ended
  <2> QED BY <2>1, <2>3, <2>4 DEF Unseen
<1>6. ASSUME CancelAll PROVE Unseen
  <2>1. /\ UNCHANGED <<inbox, queueVars, egressQueue, hand>>
        /\ task' = Cancelled(Owned, task)
    BY <1>6 DEF CancelAll, ingressVars, egressVars
  <2>2. /\ task'[EgressStage] = "ended" <=> task[EgressStage] = "ended"
        /\ \A s \in Sources : task'[Reader(s)] = task[Reader(s)]
    BY <1>1, <2>1, TasksDiffer DEF Cancelled
  <2>3. \A s \in Sources : Queue!Busy(s)' <=> Queue!Busy(s)
    BY <2>1 DEF queueVars, semaphoreVars, Queue!Busy, Queue!Waiting
  <2> QED BY <2>1, <2>2, <2>3 DEF Unseen, Ended, Runs, queueVars
<1>7. ASSUME StopControl \/ Close \/ Replace \/ UNCHANGED vars PROVE Unseen
  BY <1>2, <1>7
     DEF StopControl, Close, Replace, Queue!Replace, Queue!admissionVars, Queue!semaphoreVars, vars,
         ingressVars, egressVars, taskVars, queueVars, semaphoreVars
<1> QED
  BY <1>3, <1>4, <1>5, <1>6, <1>7 DEF Uncounted, Supervision, Notice, Interrupt

-----------------------------------------------------------------------------
(* Listeners and readers.                                                  *)

\* Steps that leave the stages and their queues alone.
LEMMA SidesKept ==
  ASSUME CountInv, UNCHANGED <<egressQueue, hand>>, Ended(EgressStage)' <=> Ended(EgressStage),
         counts'.egress = counts.egress, counts'.batches = counts.batches
  PROVE  EgressCounted' /\ BatchesCounted'
BY DEF CountInv, EgressCounted, BatchesCounted

\* Readers' waits are left alone.
LEMMA WaitsKept ==
  ASSUME CountInv, UNCHANGED waited, counts'.waiters = counts.waiters,
         \A s \in Sources : /\ Ended(Reader(s))' <=> Ended(Reader(s))
                            /\ Runs(Reader(s))' => Runs(Reader(s))
                            /\ Queue!Busy(s)' <=> Queue!Busy(s)
  PROVE  WaitersCounted'
BY DEF CountInv, WaitersCounted

\* A received frame is put into the queue of its source.
LEMMA OnArriveCounts ==
  ASSUME RuntimeAssumption, RuntimeInv, CountInv, NEW s \in Sources, ArriveCounts(s)
  PROVE  CountInv'
<1> DEFINE x == [source |-> s, number |-> arrived[s] + 1]
<1>1. /\ Len(inbox[s]) < InboxCapacity
      /\ inbox' = [inbox EXCEPT ![s] = Append(@, x)]
      /\ UNCHANGED <<queueVars, egressQueue, hand, task, waited>>
      /\ counts' = [counts EXCEPT !.ingress[s] = Put(@, Len(inbox'[s]))]
  BY DEF ArriveCounts, Arrive, egressVars, taskVars
<1>2. inbox \in [Sources -> Seq(Frame)] /\ InboxCapacity \in Nat
  BY Bounds DEF RuntimeInv, PipeInv, IngressInv
<1>3. /\ Len(inbox[s]) \in Nat /\ Len(inbox'[s]) = Len(inbox[s]) + 1
      /\ \A r \in Sources \ {s} : inbox'[r] = inbox[r]
  BY <1>1, <1>2
<1>4. counts.ingress[s] \in Counter /\ QueueAccepted(counts.ingress[s], Len(inbox[s]), InboxCapacity)
  BY DEF CountInv, Counts, IngressCounted
<1>5. /\ Put(counts.ingress[s], Len(inbox'[s])) \in Counter
      /\ QueueAccepted(Put(counts.ingress[s], Len(inbox'[s])), Len(inbox'[s]), InboxCapacity)
  BY <1>1, <1>2, <1>3, <1>4, PutAndGot
<1>6. /\ counts' \in Counts /\ UNCHANGED <<counts.processing, counts.egress, counts.waiters, counts.batches>>
      /\ counts'.ingress = [counts.ingress EXCEPT ![s] = Put(@, Len(inbox'[s]))]
  BY <1>1, <1>5 DEF CountInv, Counts
<1>7. IngressCounted'
  BY <1>3, <1>5, <1>6 DEF CountInv, Counts, IngressCounted
<1>8. ProcessingCounted'
  BY <1>1, <1>6 DEF CountInv, ProcessingCounted, queueVars
<1>9. EgressCounted' /\ BatchesCounted'
  BY <1>1, <1>6, SidesKept DEF Ended
<1>10. WaitersCounted'
  BY <1>1, <1>6, WaitsKept DEF Ended, Runs, queueVars, semaphoreVars, Queue!Busy, Queue!Waiting
<1> QED BY <1>6, <1>7, <1>8, <1>9, <1>10 DEF CountInv

\* A permit that is free, or was handed to a reader, is a free slot.
LEMMA RoomForItem ==
  ASSUME RuntimeAssumption, RuntimeInv, Queue!Free \/ granted # {}
  PROVE  Len(work) < Capacity
<1>1. /\ Permits!Waiters(sleeping, granted)
      /\ value \in Nat /\ Capacity \in Nat /\ Len(work) \in Nat
      /\ Permits!Cardinality(granted) \in Nat
      /\ value + Permits!Cardinality(granted) + Len(work) = Capacity
  BY Assumed, Permits!FromIInv DEF RuntimeInv, PipeInv, QueueInv
<1>2. CASE Queue!Free
  <2>1. value > 0
    BY <1>2 DEF Queue!Free
  <2> QED BY <1>1, <2>1
<1>3. CASE granted # {}
  <2>1. PICK w \in granted : TRUE
    BY <1>3
  <2>2. Permits!Cardinality(granted) \in Nat \ {0}
    BY <1>1, <2>1, Assumed, Permits!DropGranted
  <2> QED BY <1>1, <2>2
<1> QED BY <1>2, <1>3

\* A reader takes the oldest frame of its queue.
LEMMA OnDequeueCounts ==
  ASSUME RuntimeAssumption, RuntimeInv, CountInv, NEW s \in Sources, Dequeue(s),
         counts'.ingress = [counts.ingress EXCEPT ![s] = Got(@)]
  PROVE  /\ Head(inbox[s]) \in Frame
         /\ counts'.ingress \in [Sources -> Counter]
         /\ IngressCounted'
<1>1. inbox[s] # <<>> /\ inbox' = [inbox EXCEPT ![s] = Tail(@)]
  BY DEF Dequeue
<1>2. inbox \in [Sources -> Seq(Frame)] /\ InboxCapacity \in Nat
  BY Bounds DEF RuntimeInv, PipeInv, IngressInv
<1>3. inbox[s] \in Seq(Frame) /\ Len(inbox[s]) \in Nat /\ Len(inbox[s]) > 0
  BY <1>1, <1>2
<1>4. /\ Head(inbox[s]) \in Frame
      /\ Len(inbox'[s]) = Len(inbox[s]) - 1
      /\ \A r \in Sources \ {s} : inbox'[r] = inbox[r]
  BY <1>1, <1>2, <1>3
<1>5. counts.ingress[s] \in Counter /\ QueueAccepted(counts.ingress[s], Len(inbox[s]), InboxCapacity)
  BY DEF CountInv, Counts, IngressCounted
<1>6. /\ Got(counts.ingress[s]) \in Counter
      /\ QueueAccepted(Got(counts.ingress[s]), Len(inbox'[s]), InboxCapacity)
  BY <1>2, <1>3, <1>4, <1>5, PutAndGot
<1>7. counts'.ingress \in [Sources -> Counter]
  BY <1>6 DEF CountInv, Counts
<1>8. IngressCounted'
  BY <1>4, <1>6 DEF CountInv, Counts, IngressCounted
<1> QED BY <1>4, <1>7, <1>8

\* A bound frame is put into the processing queue.
LEMMA OnItemCounts ==
  ASSUME RuntimeAssumption, RuntimeInv, CountInv, NEW x, work' = Append(work, x),
         Queue!Free \/ granted # {},
         counts'.processing = Put(counts.processing, Len(work'))
  PROVE  counts'.processing \in Counter /\ ProcessingCounted'
<1>1. Len(work') = Len(work) + 1 /\ Len(work) \in Nat /\ Capacity \in Nat
  BY Bounds
<1>2. Len(work) < Capacity
  BY RoomForItem
<1>3. counts.processing \in Counter /\ QueueAccepted(counts.processing, Len(work), Capacity)
  BY DEF CountInv, Counts, ProcessingCounted
<1> QED BY <1>1, <1>2, <1>3, PutAndGot DEF ProcessingCounted

\* One reader starts or ends its wait for capacity.
LEMMA WaitsChange ==
  ASSUME CountInv, NEW s \in Sources,
         waited' \subseteq Sources, waited' \ {s} = waited \ {s},
         counts'.waiters = Cardinality(waited'),
         \A r \in Sources \ {s} : /\ Ended(Reader(r))' <=> Ended(Reader(r))
                                  /\ Runs(Reader(r))' <=> Runs(Reader(r))
                                  /\ Queue!Busy(r)' <=> Queue!Busy(r),
         s \in waited' => ~Ended(Reader(s))',
         Runs(Reader(s))' => (s \in waited' <=> Queue!Busy(s)')
  PROVE  WaitersCounted'
BY DEF CountInv, WaitersCounted

\* What Cardinality is for the readers that wait.
LEMMA WaitedIsFinite ==
  ASSUME RuntimeAssumption, CountInv, NEW s \in Sources
  PROVE  /\ s \notin waited => Cardinality(waited \cup {s}) = Cardinality(waited) + 1
         /\ Cardinality(waited \ {s}) = IF s \in waited THEN Cardinality(waited) - 1
                                                        ELSE Cardinality(waited)
         /\ Cardinality(waited) \in Nat
<1>1. IsFiniteSet(waited)
  BY FS_Subset DEF RuntimeAssumption, CountInv, WaitersCounted
<1>2. Cardinality(waited) \in Nat
  BY <1>1, FS_CardinalityType
<1>3. s \notin waited => Cardinality(waited \cup {s}) = Cardinality(waited) + 1
  BY <1>1, FS_AddElement
<1>4. Cardinality(waited \ {s}) = IF s \in waited THEN Cardinality(waited) - 1
                                                 ELSE Cardinality(waited)
  BY <1>1, FS_RemoveElement
<1> QED BY <1>2, <1>3, <1>4

\* A reader takes a frame and admits it, or starts to wait for capacity.
LEMMA OnReadCounts ==
  ASSUME RuntimeAssumption, RuntimeInv, CountInv, NEW s \in Sources, ReadCounts(s)
  PROVE  CountInv'
<1> DEFINE f == Head(inbox[s])
<1>1. /\ Runs(Reader(s)) /\ Dequeue(s) /\ Queue!Admit(s, f)
      /\ UNCHANGED <<generation, egressQueue, hand, task>>
  BY DEF ReadCounts, Read, egressVars, taskVars
<1>2. counts'.ingress = [counts.ingress EXCEPT ![s] = Got(@)]
  BY DEF ReadCounts, CountInv, Counts
<1>3. f \in Frame /\ counts'.ingress \in [Sources -> Counter] /\ IngressCounted'
  BY <1>1, <1>2, OnDequeueCounts
<1>4. ~Queue!Busy(s) /\ s \notin waited
  BY <1>1, <1>3, OnAdmit DEF RuntimeInv, PipeInv, CountInv, WaitersCounted
<1>5. Queue!Waiting' = Queue!Waiting => \A r \in Sources : Queue!Busy(r)' <=> Queue!Busy(r)
  BY DEF Queue!Busy
<1>6. UNCHANGED <<counts.egress, counts.batches>>
  BY DEF ReadCounts, CountInv, Counts
<1>7. EgressCounted' /\ BatchesCounted'
  BY <1>1, <1>6, SidesKept DEF Ended
<1>8. CASE Queue!Free
  <2>1. /\ counts'.processing = Put(counts.processing, Len(work'))
        /\ UNCHANGED <<waited, counts.waiters>>
        /\ DOMAIN counts' = DOMAIN counts
    BY <1>8 DEF ReadCounts, CountInv, Counts
  <2>2. /\ work' = Append(work, Queue!Bound(Queue!Request(s, f)))
        /\ UNCHANGED <<sleeping, granted>>
    BY <1>1, <1>8 DEF Queue!Admit, Queue!AdmitNow, Queue!AdmitLater
  <2>3. counts'.processing \in Counter /\ ProcessingCounted'
    BY <1>8, <2>1, <2>2, OnItemCounts
  <2>4. WaitersCounted'
    BY <1>1, <1>5, <2>1, <2>2, WaitsKept DEF Ended, Runs, Queue!Waiting
  <2>5. counts' \in Counts
    BY <1>3, <1>8, <2>3 DEF ReadCounts, CountInv, Counts
  <2> QED BY <1>3, <1>7, <2>3, <2>4, <2>5 DEF CountInv
<1>9. CASE ~Queue!Free
  <2>1. /\ counts'.waiters = counts.waiters + 1
        /\ waited' = waited \cup {s}
        /\ UNCHANGED counts.processing
    BY <1>9 DEF ReadCounts, CountInv, Counts
  <2>2. UNCHANGED work
    BY <1>1, <1>9 DEF Queue!Admit, Queue!AdmitNow, Queue!AdmitLater
  <2>3. ProcessingCounted'
    BY <2>1, <2>2 DEF CountInv, ProcessingCounted
  <2>4. PICK w : /\ Queue!Waiting' = Queue!Waiting \cup {w}
                 /\ w.reader = s
    <3>1. work \in Seq(Item) /\ work' # Append(work, [frame |-> f, generation |-> generation])
      BY <2>2, Bounds
    <3> QED BY <1>1, <1>3, <3>1, OnAdmit DEF RuntimeInv, PipeInv
  <2>5. Queue!Busy(s)' /\ \A r \in Sources \ {s} : Queue!Busy(r)' <=> Queue!Busy(r)
    BY <2>4 DEF Queue!Busy
  <2>6. counts'.waiters = Cardinality(waited')
    BY <1>4, <2>1, WaitedIsFinite DEF CountInv, WaitersCounted
  <2>7. ~Ended(Reader(s))'
    BY <1>1 DEF Runs, Ended
  <2>8. waited' \subseteq Sources /\ waited' \ {s} = waited \ {s} /\ s \in waited'
    BY <2>1 DEF CountInv, WaitersCounted
  <2>9. WaitersCounted'
    BY <1>1, <2>5, <2>6, <2>7, <2>8, WaitsChange DEF Ended, Runs
  <2>10. counts' \in Counts
    <3>1. counts \in Counts /\ counts.waiters + 1 \in Int
      BY DEF CountInv, Counts
    <3>2. counts' = [counts EXCEPT !.ingress = counts'.ingress, !.waiters = @ + 1]
      BY <1>2, <1>9, <3>1 DEF ReadCounts, Counts
    <3> QED BY <1>3, <3>1, <3>2 DEF Counts
  <2> QED BY <1>3, <1>7, <2>3, <2>9, <2>10 DEF CountInv
<1> QED BY <1>8, <1>9

\* A reader stops waiting: the others' waits are left alone.
LEMMA OneWaitLess ==
  ASSUME RuntimeAssumption, RuntimeInv, CountInv, NEW s \in Sources,
         Runs(Reader(s))' => ~Queue!Busy(s)',
         waited' = waited \ {s}, counts'.waiters = IF s \in waited THEN counts.waiters - 1
                                                                 ELSE counts.waiters,
         \A r \in Sources \ {s} : /\ Ended(Reader(r))' <=> Ended(Reader(r))
                                  /\ Runs(Reader(r))' <=> Runs(Reader(r))
                                  /\ Queue!Busy(r)' <=> Queue!Busy(r)
  PROVE  WaitersCounted'
<1>1. counts'.waiters = Cardinality(waited')
  BY WaitedIsFinite DEF CountInv, WaitersCounted
<1>2. waited' \subseteq Sources /\ waited' \ {s} = waited \ {s} /\ s \notin waited'
  BY DEF CountInv, WaitersCounted
<1> QED BY <1>1, <1>2, WaitsChange

\* The request a reader waited with is gone, and nobody else's.
LEMMA OneRequestLess ==
  ASSUME RuntimeAssumption, RuntimeInv, NEW w \in Queue!Waiting,
         Queue!Waiting' = Queue!Waiting \ {w}
  PROVE  /\ ~Queue!Busy(w.reader)'
         /\ \A r \in Sources \ {w.reader} : Queue!Busy(r)' <=> Queue!Busy(r)
BY WaitsAreTyped DEF RuntimeInv, PipeInv, Queue!Busy

\* The end of a reader is the end of no other task.
LEMMA OnReaderEnd ==
  ASSUME RuntimeInv, NEW s \in Sources, End(Reader(s))
  PROVE  /\ ~Runs(Reader(s))'
         /\ Ended(EgressStage)' <=> Ended(EgressStage)
         /\ \A r \in Sources \ {s} : /\ Ended(Reader(r))' <=> Ended(Reader(r))
                                     /\ Runs(Reader(r))' <=> Runs(Reader(r))
<1>1. /\ task \in [Tasks -> {"runs", "cancelled", "cleaning", "ended"}]
      /\ task' = [task EXCEPT ![Reader(s)] = "ended"]
  BY DEF RuntimeInv, PipeInv, TasksTyped, End
<1>2. /\ Reader(s) \in Tasks /\ EgressStage \in Tasks /\ Reader(s) # EgressStage
      /\ \A r \in Sources \ {s} : Reader(r) \in Tasks /\ Reader(r) # Reader(s)
  BY TasksDiffer
<1> QED BY <1>1, <1>2 DEF Ended, Runs

\* A reader resumes with its permit: it stops waiting and its frame is queued.
LEMMA OnAdmittedCounts ==
  ASSUME RuntimeAssumption, RuntimeInv, CountInv, NEW s \in Sources, AdmittedCounts(s)
  PROVE  CountInv'
<1>1. Runs(Reader(s)) /\ UNCHANGED <<inbox, generation, egressQueue, hand, task>>
  BY DEF AdmittedCounts, Admitted, ingressVars, egressVars, taskVars
<1>2. PICK w \in granted : w.reader = s /\ Queue!Resume(w)
  BY DEF AdmittedCounts, Admitted
<1>3. /\ w \in Queue!Waiting /\ Queue!Waiting' = Queue!Waiting \ {w}
      /\ work' = Append(work, [frame |-> w.frame, generation |-> generation])
  BY <1>1, <1>2, OnWaitEnds DEF RuntimeInv, PipeInv
<1>4. ~Queue!Busy(s)' /\ \A r \in Sources \ {s} : Queue!Busy(r)' <=> Queue!Busy(r)
  BY <1>2, <1>3, OneRequestLess
<1>5. s \in waited
  BY <1>1, <1>2, <1>3 DEF CountInv, WaitersCounted, Queue!Busy
<1>6. /\ counts \in Counts /\ counts.waiters - 1 \in Int
      /\ counts' = [counts EXCEPT !.waiters = @ - 1, !.processing = Put(@, Len(work'))]
      /\ waited' = waited \ {s}
  BY DEF AdmittedCounts, CountInv, Counts
<1>7. /\ UNCHANGED <<counts.ingress, counts.egress, counts.batches>>
      /\ counts'.waiters = counts.waiters - 1
      /\ counts'.processing = Put(counts.processing, Len(work'))
  BY <1>6 DEF Counts
<1>8. counts'.processing \in Counter /\ ProcessingCounted'
  BY <1>2, <1>3, <1>7, OnItemCounts
<1>9. counts' \in Counts
  BY <1>6, <1>7, <1>8 DEF Counts
<1>10. IngressCounted'
  BY <1>1, <1>7 DEF CountInv, IngressCounted
<1>11. EgressCounted' /\ BatchesCounted'
  BY <1>1, <1>7, SidesKept DEF Ended
<1>12. WaitersCounted'
  BY <1>1, <1>4, <1>5, <1>6, <1>7, OneWaitLess DEF Ended, Runs
<1> QED BY <1>8, <1>9, <1>10, <1>11, <1>12 DEF CountInv

\* A wait that is over leaves the counters of the queues alone.
LEMMA OnWaitOver ==
  ASSUME RuntimeAssumption, RuntimeInv, CountInv, NEW s \in Sources, WaitOver(s),
         UNCHANGED <<inbox, work, egressQueue, hand>>,
         End(Reader(s)),
         \A r \in Sources \ {s} : Queue!Busy(r)' <=> Queue!Busy(r)
  PROVE  CountInv'
<1>1. /\ counts \in Counts /\ counts.waiters - 1 \in Int
      /\ counts' = [counts EXCEPT !.waiters = IF s \in waited THEN @ - 1 ELSE @]
      /\ waited' = waited \ {s}
  BY DEF WaitOver, CountInv, Counts
<1>2. /\ UNCHANGED <<counts.ingress, counts.processing, counts.egress, counts.batches>>
      /\ counts'.waiters = IF s \in waited THEN counts.waiters - 1 ELSE counts.waiters
      /\ counts' \in Counts
  BY <1>1 DEF Counts
<1>3. IngressCounted' /\ ProcessingCounted'
  BY <1>2 DEF CountInv, IngressCounted, ProcessingCounted
<1>4. EgressCounted' /\ BatchesCounted'
  BY <1>2, OnReaderEnd, SidesKept
<1>5. WaitersCounted'
  BY <1>1, <1>2, OnReaderEnd, OneWaitLess
<1> QED BY <1>2, <1>3, <1>4, <1>5 DEF CountInv

\* A reader whose binding raises stops waiting, if it did wait.
LEMMA OnBindingFailsCounts ==
  ASSUME RuntimeAssumption, RuntimeInv, CountInv, NEW s \in Sources, BindingFailsCounts(s)
  PROVE  CountInv'
<1>1. /\ Runs(Reader(s)) /\ End(Reader(s))
      /\ UNCHANGED <<generation, egressQueue, hand>>
  BY DEF BindingFailsCounts, BindingFails, egressVars
<1>2. s \in waited <=> Queue!Busy(s)
  BY <1>1 DEF CountInv, WaitersCounted
<1>3. CASE Dequeue(s) /\ ~Queue!Busy(s) /\ UNCHANGED queueVars
  <2>1. counts' = [counts EXCEPT !.ingress[s] = Got(@)] /\ UNCHANGED waited
    BY <1>2, <1>3 DEF BindingFailsCounts
  <2>2. /\ counts'.ingress = [counts.ingress EXCEPT ![s] = Got(@)]
        /\ UNCHANGED <<counts.processing, counts.egress, counts.waiters, counts.batches>>
    BY <2>1 DEF CountInv, Counts
  <2>3. counts'.ingress \in [Sources -> Counter] /\ IngressCounted'
    BY <1>3, <2>2, OnDequeueCounts
  <2>4. counts' \in Counts
    BY <2>1, <2>3 DEF CountInv, Counts
  <2>5. UNCHANGED work /\ \A r \in Sources : Queue!Busy(r)' <=> Queue!Busy(r)
    BY <1>3 DEF queueVars, semaphoreVars, Queue!Busy, Queue!Waiting
  <2>6. ProcessingCounted'
    BY <2>2, <2>5 DEF CountInv, ProcessingCounted
  <2>7. EgressCounted' /\ BatchesCounted'
    BY <1>1, <2>2, OnReaderEnd, SidesKept
  <2>8. WaitersCounted'
    <3>1. waited' \subseteq Sources /\ s \notin waited' /\ counts'.waiters = Cardinality(waited')
      BY <1>2, <1>3, <2>1, <2>2 DEF CountInv, WaitersCounted
    <3> QED BY <1>1, <2>1, <2>5, <3>1, OnReaderEnd, WaitsChange
  <2> QED BY <2>3, <2>4, <2>6, <2>7, <2>8 DEF CountInv
<1>4. CASE UNCHANGED ingressVars /\ \E w \in granted : w.reader = s /\ Queue!BindingFails(w)
  <2>1. PICK w \in granted : w.reader = s /\ Queue!BindingFails(w)
    BY <1>4
  <2>2. /\ w \in Queue!Waiting /\ Queue!Waiting' = Queue!Waiting \ {w}
        /\ UNCHANGED work
    BY <1>1, <2>1, OnWaitEnds DEF RuntimeInv, PipeInv, Queue!BindingFails
  <2>3. \A r \in Sources \ {s} : Queue!Busy(r)' <=> Queue!Busy(r)
    BY <2>1, <2>2, OneRequestLess
  <2>4. WaitOver(s)
    BY <1>2, <2>1, <2>2 DEF BindingFailsCounts, Queue!Busy
  <2>5. UNCHANGED inbox
    BY <1>4 DEF ingressVars
  <2> QED BY <1>1, <2>2, <2>3, <2>4, <2>5, OnWaitOver
<1> QED BY <1>3, <1>4 DEF BindingFailsCounts, BindingFails

\* A reader that is cancelled stops waiting, whether it holds a permit or not.
LEMMA OnReaderCancelledCounts ==
  ASSUME RuntimeAssumption, RuntimeInv, CountInv, NEW s \in Sources, ReaderCancelledCounts(s)
  PROVE  CountInv'
<1>1. /\ End(Reader(s)) /\ WaitOver(s)
      /\ UNCHANGED <<inbox, generation, egressQueue, hand>>
  BY DEF ReaderCancelledCounts, ReaderCancelled, egressVars, ingressVars
<1>2. UNCHANGED work /\ \A r \in Sources \ {s} : Queue!Busy(r)' <=> Queue!Busy(r)
  <2>1. CASE UNCHANGED queueVars
    BY <2>1 DEF queueVars, semaphoreVars, Queue!Busy, Queue!Waiting
  <2>2. CASE \E w \in granted : w.reader = s /\ Queue!CancelGranted(w)
    <3>1. PICK w \in granted : w.reader = s /\ Queue!CancelGranted(w)
      BY <2>2
    <3>2. w \in Queue!Waiting /\ Queue!Waiting' = Queue!Waiting \ {w}
      BY <1>1, <3>1, OnWaitEnds DEF RuntimeInv, PipeInv
    <3> QED BY <3>1, <3>2, OneRequestLess DEF Queue!CancelGranted
  <2> QED BY <2>1, <2>2 DEF ReaderCancelledCounts, ReaderCancelled
<1> QED BY <1>1, <1>2, OnWaitOver

-----------------------------------------------------------------------------
(* The stages.                                                             *)

\* The processor stage takes an item; who waits goes on waiting.
LEMMA OnTakeCounts ==
  ASSUME RuntimeAssumption, RuntimeInv, CountInv, Queue!Take,
         UNCHANGED <<inbox, generation, waited>>,
         \A s \in Sources : UNCHANGED task[Reader(s)],
         counts'.ingress = counts.ingress, counts'.waiters = counts.waiters,
         counts'.processing = Got(counts.processing)
  PROVE  /\ counts'.processing \in Counter
         /\ IngressCounted' /\ ProcessingCounted' /\ WaitersCounted'
<1>1. work # <<>> /\ work' = Tail(work) /\ Queue!Waiting' = Queue!Waiting
  BY OnTake DEF RuntimeInv, PipeInv
<1>2. work \in Seq(Item) /\ Len(work) \in Nat /\ Capacity \in Nat
  BY Bounds
<1>3. Len(work) > 0 /\ Len(work') = Len(work) - 1
  BY <1>1, <1>2
<1>4. counts.processing \in Counter /\ QueueAccepted(counts.processing, Len(work), Capacity)
  BY DEF CountInv, Counts, ProcessingCounted
<1>5. counts'.processing \in Counter /\ ProcessingCounted'
  BY <1>2, <1>3, <1>4, PutAndGot DEF ProcessingCounted
<1>6. IngressCounted'
  BY DEF CountInv, IngressCounted
<1>7. \A s \in Sources : Queue!Busy(s)' <=> Queue!Busy(s)
  BY <1>1 DEF Queue!Busy
<1>8. WaitersCounted'
  BY <1>7, WaitsKept DEF Ended, Runs
<1> QED BY <1>5, <1>6, <1>8

\* A batch is put only when nothing is left of the last one.
LEMMA OnProcessCounts ==
  ASSUME RuntimeAssumption, RuntimeInv, CountInv, ProcessCounts
  PROVE  CountInv'
<1>1. /\ Queue!Take /\ completion = "none"
      /\ UNCHANGED <<inbox, generation, waited, hand, task>>
      /\ egressQueue' = egressQueue \/ \E x : egressQueue' = Append(egressQueue, x)
  BY DEF ProcessCounts, Process, ingressVars, taskVars
<1>2. egressQueue = <<>>
  BY <1>1 DEF RuntimeInv, StageInv, Idle
<1>3. counts \in Counts /\ QueueAccepted(counts.egress, 0, 1)
  BY <1>2 DEF CountInv, EgressCounted, EgressCapacity
<1>4. /\ counts'.ingress = counts.ingress /\ counts'.waiters = counts.waiters
      /\ counts'.batches = counts.batches /\ counts'.processing = Got(counts.processing)
      /\ counts'.egress = IF egressQueue' = egressQueue THEN counts.egress
                          ELSE Put(counts.egress, Len(egressQueue'))
  BY <1>3 DEF ProcessCounts, Counts
<1>5. counts'.processing \in Counter /\ IngressCounted' /\ ProcessingCounted' /\ WaitersCounted'
  BY <1>1, <1>4, OnTakeCounts
<1>6. counts'.egress \in Counter /\ EgressCounted'
  <2>1. CASE egressQueue' = egressQueue
    BY <1>3, <1>4, <2>1 DEF Counts, CountInv, EgressCounted
  <2>2. CASE egressQueue' # egressQueue
    <3>1. Len(egressQueue') = 1
      BY <1>1, <1>2, <2>2
    <3>2. Put(counts.egress, 1) \in Counter /\ QueueAccepted(Put(counts.egress, 1), 1, 1)
      <4>1. counts.egress \in Counter
        BY <1>3 DEF Counts
      <4> QED BY <1>3, <4>1 DEF Counter, Put, QueueAccepted
    <3> QED BY <1>4, <2>2, <3>1, <3>2 DEF EgressCounted, EgressCapacity
  <2> QED BY <2>1, <2>2
<1>7. BatchesCounted'
  BY <1>1, <1>4 DEF CountInv, BatchesCounted, Ended
<1>8. counts' \in Counts
  BY <1>3, <1>5, <1>6 DEF ProcessCounts, Counts
<1> QED BY <1>5, <1>6, <1>7, <1>8 DEF CountInv

\* An item whose processing raises was taken all the same.
LEMMA OnProcessFailsCounts ==
  ASSUME RuntimeAssumption, RuntimeInv, CountInv, ProcessFailsCounts
  PROVE  CountInv'
<1>1. /\ Queue!Take /\ End(ProcessorStage)
      /\ UNCHANGED <<inbox, generation, waited, egressQueue, hand>>
      /\ counts \in Counts /\ counts' = [counts EXCEPT !.processing = Got(@)]
  BY DEF ProcessFailsCounts, ProcessFails, ingressVars, egressVars, CountInv
<1>2. /\ counts'.ingress = counts.ingress /\ counts'.waiters = counts.waiters
      /\ counts'.batches = counts.batches /\ counts'.egress = counts.egress
      /\ counts'.processing = Got(counts.processing)
  BY <1>1 DEF Counts
<1>3. UNCHANGED task[EgressStage] /\ \A s \in Sources : UNCHANGED task[Reader(s)]
  BY <1>1, TasksDiffer DEF End, RuntimeInv, PipeInv, TasksTyped
<1>4. counts'.processing \in Counter /\ IngressCounted' /\ ProcessingCounted' /\ WaitersCounted'
  BY <1>1, <1>2, <1>3, OnTakeCounts
<1>5. EgressCounted' /\ BatchesCounted'
  BY <1>1, <1>2, <1>3, SidesKept DEF Ended
<1>6. counts' \in Counts
  BY <1>1, <1>4 DEF Counts
<1> QED BY <1>4, <1>5, <1>6 DEF CountInv

\* Steps of the egress stage leave the other counters alone.
LEMMA OthersKept ==
  ASSUME CountInv, UNCHANGED <<inbox, queueVars, waited>>,
         \A s \in Sources : UNCHANGED task[Reader(s)],
         counts'.ingress = counts.ingress, counts'.waiters = counts.waiters,
         counts'.processing = counts.processing
  PROVE  IngressCounted' /\ ProcessingCounted' /\ WaitersCounted'
<1>1. \A s \in Sources : Queue!Busy(s)' <=> Queue!Busy(s)
  BY DEF queueVars, semaphoreVars, Queue!Busy, Queue!Waiting
<1>2. WaitersCounted'
  BY <1>1, WaitsKept DEF Ended, Runs
<1> QED BY <1>2 DEF CountInv, IngressCounted, ProcessingCounted, queueVars

\* The egress stage takes a batch and starts it.
LEMMA OnEgressTakesCounts ==
  ASSUME RuntimeAssumption, RuntimeInv, CountInv, EgressTakesCounts
  PROVE  CountInv'
<1>1. /\ Runs(EgressStage) /\ hand = <<>> /\ egressQueue # <<>>
      /\ hand' = <<Head(egressQueue)>> /\ egressQueue' = Tail(egressQueue)
      /\ UNCHANGED <<inbox, queueVars, task, waited>> /\ counts \in Counts
      /\ counts' = [counts EXCEPT !.egress = Got(@), !.batches = BatchStarted(@)]
  BY DEF EgressTakesCounts, EgressTakes, ingressVars, taskVars, CountInv
<1>2. /\ counts'.ingress = counts.ingress /\ counts'.waiters = counts.waiters
      /\ counts'.processing = counts.processing
      /\ counts'.egress = Got(counts.egress) /\ counts'.batches = BatchStarted(counts.batches)
  BY <1>1 DEF Counts
<1>3. IngressCounted' /\ ProcessingCounted' /\ WaitersCounted'
  BY <1>1, <1>2, OthersKept
<1>4. counts'.egress \in Counter /\ EgressCounted'
  <2>1. egressQueue \in Seq(Batch) /\ Len(egressQueue) \in Nat
    BY Bounds
  <2>2. Len(egressQueue) > 0 /\ Len(egressQueue') = Len(egressQueue) - 1
    BY <1>1, <2>1
  <2>3. counts.egress \in Counter /\ QueueAccepted(counts.egress, Len(egressQueue), 1)
    BY <1>1 DEF CountInv, Counts, EgressCounted, EgressCapacity
  <2> QED BY <1>2, <2>1, <2>2, <2>3, PutAndGot DEF EgressCounted, EgressCapacity
<1>5. counts'.batches \in [open : Int, active : Int] /\ BatchesCounted'
  <2>1. counts.batches \in [open : Int, active : Int]
    BY <1>1 DEF Counts
  <2>2. counts.batches.open = 0 /\ counts.batches.active = 0
    BY <1>1 DEF CountInv, BatchesCounted
  <2>3. counts'.batches = [open |-> 1, active |-> 1]
    BY <1>2, <2>1, <2>2 DEF BatchStarted
  <2>4. hand' # <<>> /\ ~Ended(EgressStage)'
    BY <1>1 DEF Runs, Ended
  <2> QED BY <2>3, <2>4 DEF BatchesCounted
<1>6. counts' \in Counts
  BY <1>1, <1>4, <1>5, <1>2 DEF Counts
<1> QED BY <1>3, <1>4, <1>5, <1>6 DEF CountInv

\* However the batch under way ends: it is not under way any more.
LEMMA OnBatchEnd ==
  ASSUME RuntimeInv, CountInv, hand # <<>>, ~Ended(EgressStage),
         UNCHANGED <<inbox, queueVars, waited, egressQueue>>,
         \A s \in Sources : UNCHANGED task[Reader(s)],
         hand' = <<>> \/ Ended(EgressStage)',
         counts' = [counts EXCEPT !.batches = BatchEnded(@)]
  PROVE  CountInv'
<1>1. counts \in Counts
  BY DEF CountInv
<1>2. /\ counts'.ingress = counts.ingress /\ counts'.waiters = counts.waiters
      /\ counts'.processing = counts.processing
      /\ counts'.egress = counts.egress /\ counts'.batches = BatchEnded(counts.batches)
  BY <1>1 DEF Counts
<1>3. IngressCounted' /\ ProcessingCounted' /\ WaitersCounted'
  BY <1>2, OthersKept
<1>4. EgressCounted'
  BY <1>2 DEF CountInv, EgressCounted
<1>5. counts.batches.open = 1 /\ counts.batches.active = 1
  BY DEF CountInv, BatchesCounted
<1>6. counts'.batches = [open |-> 0, active |-> 0]
  BY <1>2, <1>5 DEF BatchEnded
<1>7. BatchesCounted'
  BY <1>6 DEF BatchesCounted
<1>8. counts' \in Counts
  BY <1>1, <1>2, <1>6 DEF Counts
<1> QED BY <1>3, <1>4, <1>7, <1>8 DEF CountInv

\* The end of the egress stage is the end of no reader.
LEMMA OnEgressEnd ==
  ASSUME RuntimeInv, End(EgressStage)
  PROVE  Ended(EgressStage)' /\ \A s \in Sources : UNCHANGED task[Reader(s)]
BY TasksDiffer DEF RuntimeInv, PipeInv, TasksTyped, End, Ended

\* A dispatch ends the batch or leaves it under way.
LEMMA OnDispatchCounts ==
  ASSUME RuntimeAssumption, RuntimeInv, CountInv, DispatchCounts
  PROVE  CountInv'
<1>1. /\ Runs(EgressStage) /\ hand # <<>>
      /\ UNCHANGED <<inbox, queueVars, egressQueue, task, waited>>
      /\ counts' = [counts EXCEPT !.batches = IF hand' = <<>> THEN BatchEnded(@) ELSE @]
  BY DEF DispatchCounts, Dispatch, ingressVars, taskVars
<1>2. CASE hand' = <<>>
  BY <1>1, <1>2, OnBatchEnd DEF Runs, Ended
<1>3. CASE hand' # <<>>
  <2>1. counts' = counts
    BY <1>1, <1>3 DEF CountInv, Counts
  <2>2. IngressCounted' /\ ProcessingCounted' /\ WaitersCounted'
    BY <1>1, <2>1, OthersKept
  <2>3. EgressCounted' /\ BatchesCounted'
    BY <1>1, <1>3, <2>1 DEF CountInv, EgressCounted, BatchesCounted, Ended
  <2> QED BY <2>1, <2>2, <2>3 DEF CountInv, Counts, Counter
<1> QED BY <1>2, <1>3

\* The failed batch ends with its stage.
LEMMA OnDispatchFailsCounts ==
  ASSUME RuntimeAssumption, RuntimeInv, CountInv, DispatchFailsCounts
  PROVE  CountInv'
<1>1. /\ Runs(EgressStage) /\ hand # <<>> /\ End(EgressStage)
      /\ UNCHANGED <<inbox, queueVars, egressQueue, waited>>
      /\ counts' = [counts EXCEPT !.batches = BatchEnded(@)]
  BY DEF DispatchFailsCounts, DispatchFails, ingressVars, egressVars
<1> QED BY <1>1, OnEgressEnd, OnBatchEnd DEF Runs, Ended

\* A cancelled stage ends the batch under way, if there is one.
LEMMA OnEgressCancelledCounts ==
  ASSUME RuntimeAssumption, RuntimeInv, CountInv, EgressCancelledCounts
  PROVE  CountInv'
<1>1. /\ task[EgressStage] = "cancelled" /\ End(EgressStage)
      /\ UNCHANGED <<inbox, queueVars, egressQueue, hand, waited>>
      /\ counts' = [counts EXCEPT !.batches = IF hand # <<>> THEN BatchEnded(@) ELSE @]
  BY DEF EgressCancelledCounts, EgressCancelled, ingressVars, egressVars
<1>2. CASE hand # <<>>
  BY <1>1, <1>2, OnEgressEnd, OnBatchEnd DEF Ended
<1>3. CASE hand = <<>>
  <2>1. counts' = counts
    BY <1>1, <1>3 DEF CountInv, Counts
  <2>2. IngressCounted' /\ ProcessingCounted' /\ WaitersCounted'
    BY <1>1, <2>1, OnEgressEnd, OthersKept
  <2>3. EgressCounted' /\ BatchesCounted'
    BY <1>1, <1>3, <2>1 DEF CountInv, EgressCounted, BatchesCounted
  <2> QED BY <2>1, <2>2, <2>3 DEF CountInv, Counts, Counter
<1> QED BY <1>2, <1>3

-----------------------------------------------------------------------------

\* Nothing is queued, waits or is under way at first.
LEMMA InitCounts == ASSUME RuntimeAssumption, CountedInit PROVE CountInv
<1>1. /\ \A s \in Sources : inbox[s] = <<>> /\ Len(inbox[s]) = 0
      /\ work = <<>> /\ Len(work) = 0 /\ egressQueue = <<>> /\ Len(egressQueue) = 0
      /\ hand = <<>> /\ granted = {} /\ sleeping = <<>>
  BY DEF CountedInit, Init, Queue!Init
<1>2. InboxCapacity \in Nat /\ Capacity \in Nat
  BY DEF RuntimeAssumption
<1>3. waited = {} /\ Cardinality(waited) = 0
  BY FS_EmptySet DEF CountedInit
<1>4. counts = [ingress |-> [s \in Sources |-> [net |-> 0, peak |-> 0]],
                processing |-> [net |-> 0, peak |-> 0], egress |-> [net |-> 0, peak |-> 0],
                waiters |-> 0, batches |-> [open |-> 0, active |-> 0]]
  BY DEF CountedInit
<1>5. counts \in Counts
  BY <1>4 DEF Counts, Counter
<1>6. IngressCounted /\ ProcessingCounted /\ EgressCounted
  BY <1>1, <1>2, <1>4
     DEF IngressCounted, ProcessingCounted, EgressCounted, QueueAccepted, EgressCapacity
<1>7. \A s \in Sources : ~Queue!Busy(s)
  BY <1>1 DEF Queue!Busy, Queue!Waiting
<1>8. WaitersCounted
  BY <1>3, <1>4, <1>7 DEF WaitersCounted
<1>9. BatchesCounted
  BY <1>1, <1>4 DEF BatchesCounted
<1> QED BY <1>5, <1>6, <1>8, <1>9 DEF CountInv

\* Every step keeps the counters.
LEMMA StepCounts ==
  ASSUME RuntimeAssumption, RuntimeInv, CountInv, [CountedNext]_<<vars, counted>>
  PROVE  CountInv'
<1>1. (Uncounted \/ UNCHANGED vars) /\ UNCHANGED counted => CountInv'
  BY UncountedUnseen, UnseenKeeps
<1>2. ASSUME NEW s \in Sources,
             \/ ArriveCounts(s) \/ ReadCounts(s) \/ AdmittedCounts(s)
             \/ BindingFailsCounts(s) \/ ReaderCancelledCounts(s)
      PROVE  CountInv'
  BY <1>2, OnArriveCounts, OnReadCounts, OnAdmittedCounts, OnBindingFailsCounts,
     OnReaderCancelledCounts
<1>3. ProcessCounts \/ ProcessFailsCounts => CountInv'
  BY OnProcessCounts, OnProcessFailsCounts
<1>4. EgressTakesCounts \/ DispatchCounts \/ DispatchFailsCounts \/ EgressCancelledCounts => CountInv'
  BY OnEgressTakesCounts, OnDispatchCounts, OnDispatchFailsCounts, OnEgressCancelledCounts
<1> QED BY <1>1, <1>2, <1>3, <1>4 DEF CountedNext

\* The runtime that counts is the runtime, and whenever a statistics request
\* comes its counters add up: for any sources, capacities and dispatches, and
\* however readers, batches and stages end.
THEOREM StatisticsAreAccepted == CountedSpec => Spec /\ []StatisticsAddUp
<1> USE RuntimeAssumption
<1>1. CountedInit => Init /\ RuntimeInv /\ CountInv
  BY InitPipe, InitStages, InitCounts DEF CountedInit, RuntimeInv
<1>2. [CountedNext]_<<vars, counted>> => [Next]_vars
  BY CountedSteps
<1>3. RuntimeInv /\ CountInv /\ [CountedNext]_<<vars, counted>> => (RuntimeInv /\ CountInv)'
  BY <1>2, StepPipe, StepStages, StepCounts DEF RuntimeInv
<1>4. CountInv => StatisticsAddUp
  BY DEF CountInv, StatisticsAddUp, IngressCounted, ProcessingCounted, EgressCounted,
         WaitersCounted, BatchesCounted
<1> QED BY <1>1, <1>2, <1>3, <1>4, PTL DEF CountedSpec, Spec
=============================================================================
