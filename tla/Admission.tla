------------------------------ MODULE Admission ------------------------------
(***************************************************************************)
(* The processing queue of src/aismixer.py (class _BoundedProcessingQueue) *)
(* and the binding of frames to the routing snapshot as they enter it.  A  *)
(* reader first acquires a permit of a semaphore, then binds its frame to  *)
(* the current routing generation and enqueues it without suspending.      *)
(* Every step is what a task does between two suspensions.                 *)
(*                                                                         *)
(* The semaphore and the queue are asyncio's.  The semaphore hands a freed *)
(* permit to the waiter that slept longest; the waiter holds it from then  *)
(* on and makes use of it when it is next scheduled.                       *)
(***************************************************************************)
EXTENDS Naturals, Sequences, FiniteSets

CONSTANTS
  Readers,         \* the ingress readers
  Frames,          \* what they admit
  Capacity,        \* processing_queue_maxsize
  MaxGeneration    \* bound of the model: routing replacements

ASSUME AdmissionAssumption ==
  /\ IsFiniteSet(Readers)
  /\ Capacity \in Nat \ {0}
  /\ MaxGeneration \in Nat

VARIABLES
  value,       \* free permits of the semaphore
  sleeping,    \* requests waiting for a permit, the longest first
  granted,     \* requests that were handed one and have not resumed
  work,        \* the queue: items bound to a routing generation
  generation   \* the routing generation in force

semaphoreVars == <<value, sleeping, granted>>
admissionVars == <<semaphoreVars, work>>
vars == <<admissionVars, generation>>

-----------------------------------------------------------------------------
(* asyncio.BoundedSemaphore                                                *)

\* acquire returns without waiting.
Free == value > 0 /\ sleeping = <<>> /\ granted = {}

Waiting == {sleeping[i] : i \in DOMAIN sleeping} \cup granted

\* The semaphore with v permits, queue q and granted set g, after it has woken
\* the longest sleeper, if there is one.
Wake(v, q, g) ==
  IF q = <<>>
  THEN value' = v /\ sleeping' = q /\ granted' = g
  ELSE value' = v - 1 /\ sleeping' = Tail(q) /\ granted' = g \cup {Head(q)}

Release(q, g) == Wake(value + 1, q, g)

\* A waiter that resumes passes the wake-up on while permits are left.
Leave(w) ==
  IF value > 0
  THEN Wake(value, sleeping, granted \ {w})
  ELSE UNCHANGED <<value, sleeping>> /\ granted' = granted \ {w}

-----------------------------------------------------------------------------
(* admit and get                                                           *)

\* A call of admit; "asked" is history: the generation when it was made.
Request(r, f) == [reader |-> r, frame |-> f, asked |-> generation]

Busy(r) == \E w \in Waiting : w.reader = r

Bound_Bug(w) == [frame |-> w.frame, generation |-> w.asked]

\* The item the work_item_factory makes: the frame, bound to the snapshot in
\* force now.
Bound(w) == [frame |-> w.frame, generation |-> generation]

\* A permit is free: bind and enqueue at once.
AdmitNow(r, f) ==
  /\ ~Busy(r)
  /\ Free
  /\ value' = value - 1
  /\ work' = Append(work, Bound(Request(r, f)))
  /\ UNCHANGED <<sleeping, granted>>

\* No permit: sleep.
AdmitLater(r, f) ==
  /\ ~Busy(r)
  /\ ~Free
  /\ sleeping' = Append(sleeping, Request(r, f))
  /\ UNCHANGED <<value, granted, work>>

\* The reader resumes with the permit it was handed: bind and enqueue.
Resume(w) ==
  /\ w \in granted
  /\ Leave(w)
  /\ work' = Append(work, Bound(w))

ReleaseAfterFailure_Bug(w) == Leave(w)

\* A reader whose binding raises leaves the wait, then its permit goes back.
ReleaseAfterFailure(w) ==
  LET passes == value > 0 /\ sleeping # <<>>
  IN  IF passes
      THEN Wake(value, Tail(sleeping), (granted \ {w}) \cup {Head(sleeping)})
      ELSE Release(sleeping, granted \ {w})

\* The binding raises after a wait.  (After a permit acquired at once, the
\* release undoes the acquisition within the step.)
BindingFails(w) ==
  /\ w \in granted
  /\ ReleaseAfterFailure(w)
  /\ UNCHANGED work

CancelGranted_Bug(w) ==
  /\ w \in granted
  /\ granted' = granted \ {w}
  /\ UNCHANGED <<value, sleeping, work>>

\* A reader cancelled after it was handed a permit returns it.
CancelGranted(w) ==
  /\ w \in granted
  /\ Release(sleeping, granted \ {w})
  /\ UNCHANGED work

RemoveAt(s, i) == SubSeq(s, 1, i - 1) \o SubSeq(s, i + 1, Len(s))

\* A sleeping reader is cancelled: it had no permit.
CancelSleeping(w) ==
  /\ \E i \in DOMAIN sleeping :
       sleeping[i] = w /\ sleeping' = RemoveAt(sleeping, i)
  /\ UNCHANGED <<value, granted, work>>

Take_Bug ==
  /\ work # <<>>
  /\ work' = Tail(work)
  /\ value' = value + 1
  /\ UNCHANGED <<sleeping, granted>>

\* get: dequeue, and release the permit in the same step.
Take ==
  /\ work # <<>>
  /\ work' = Tail(work)
  /\ Release(sleeping, granted)

-----------------------------------------------------------------------------

\* RoutingState.replace takes effect between two steps of the readers.
Replace ==
  /\ generation < MaxGeneration
  /\ generation' = generation + 1
  /\ UNCHANGED admissionVars

Init ==
  /\ value = Capacity
  /\ sleeping = <<>>
  /\ granted = {}
  /\ work = <<>>
  /\ generation = 0

Admit(r, f) == AdmitNow(r, f) \/ AdmitLater(r, f)

Reader(w) ==
  Resume(w) \/ BindingFails(w) \/ CancelGranted(w) \/ CancelSleeping(w)

Next ==
  \/ \E r \in Readers, f \in Frames : Admit(r, f) /\ UNCHANGED generation
  \/ \E w \in Waiting : Reader(w) /\ UNCHANGED generation
  \/ Take /\ UNCHANGED generation
  \/ Replace

ResumeOf(r) ==
  \E w \in granted : w.reader = r /\ Resume(w) /\ UNCHANGED generation

\* A handed permit is used and the consumer keeps consuming: both tasks are
\* ready to run, and the event loop runs every ready task.
Fairness ==
  /\ \A r \in Readers : WF_vars(ResumeOf(r))
  /\ WF_vars(Take /\ UNCHANGED generation)

Spec == Init /\ [][Next]_vars

FairSpec == Spec /\ Fairness

-----------------------------------------------------------------------------
(* Properties.                                                             *)

Requests == [reader : Readers, frame : Frames, asked : 0 .. generation]

\* A reader waits at most once, asleep in q or granted in g.
OneWaitEach(q, g) ==
  /\ \A i, j \in DOMAIN q : q[i].reader = q[j].reader => i = j
  /\ \A v, w \in g : v.reader = w.reader => v = w
  /\ \A i \in DOMAIN q, w \in g : q[i].reader # w.reader

\* Permits and queue have their types, and a reader waits at most once: release
\* never exceeds the bound of the semaphore.
TypeOK ==
  /\ value \in 0 .. Capacity
  /\ sleeping \in Seq(Requests)
  /\ granted \subseteq Requests
  /\ work \in Seq([frame : Frames, generation : 0 .. generation])
  /\ generation \in Nat
  /\ OneWaitEach(sleeping, granted)

\* Every slot of the queue is a free permit, a permit handed to a reader that
\* has not resumed, or a queued item, whatever was cancelled or raised: so
\* put_nowait never meets a full queue, and no slot is ever lost.
PermitsAreSlots == value + Cardinality(granted) + Len(work) = Capacity

\* The types, one wait a reader, and the conservation of slots.
Consistent == TypeOK /\ PermitsAreSlots

\* No reader sleeps while a permit is free, unless a reader that will pass the
\* wake-up on has been woken.
NoLostWakeup == value > 0 /\ sleeping # <<>> => granted # {}

\* Frames are queued in the order of the generations they are bound to: once a
\* replacement is in force no older snapshot enters the queue, not even for a
\* frame that was waiting for capacity when it happened.
GenerationsInOrder ==
  \A i, j \in DOMAIN work : i < j => work[i].generation <= work[j].generation

\* A reader that asks for admission gets out of the wait.
EveryWaitEnds == \A r \in Readers : Busy(r) ~> ~Busy(r)
=============================================================================
