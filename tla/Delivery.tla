------------------------------ MODULE Delivery -------------------------------
(***************************************************************************)
(* What the runtime of src/aismixer.py promises between the ingress queues *)
(* and the outputs, whatever its tasks do and however they end.  The       *)
(* frames of one source are accepted in the order they arrived, none twice *)
(* and none left out; a frame is bound to the routing generation in force  *)
(* as it is accepted, whatever is in force when it is handled; frames are  *)
(* handled in the order of acceptance, and the outputs of one leave in     *)
(* order, before those of the next, each once.  Anything may stop at any   *)
(* time.                                                                   *)
(***************************************************************************)
EXTENDS Naturals, Sequences, FiniteSets

CONSTANTS
  Sources,   \* the inputs
  Lengths    \* how many dispatches a frame can lead to

VARIABLES
  arrived,     \* how many frames each source has queued
  accepted,    \* the frames accepted and not yet handled, each with its generation
  begun,       \* how many of each source were handed to the processor
  stopped,     \* no frame is handled any more
  generation,  \* the routing generation in force
  current,     \* the dispatches under way: empty, or one record
  sent         \* the dispatches made, in order

Init ==
  /\ arrived = [s \in Sources |-> 0]
  /\ accepted = <<>>
  /\ begun = [s \in Sources |-> 0]
  /\ stopped = FALSE
  /\ generation = 0
  /\ current = <<>>
  /\ sent = <<>>

Arrive(s) ==
  /\ arrived' = [arrived EXCEPT ![s] = @ + 1]
  /\ UNCHANGED <<accepted, begun, stopped, generation, current, sent>>

Replace ==
  /\ generation' = generation + 1
  /\ UNCHANGED <<arrived, accepted, begun, stopped, current, sent>>

\* The numbers of the frames of s accepted last.
Numbers(s) ==
  {begun[s]} \cup
    {accepted[i].frame.number : i \in {j \in DOMAIN accepted : accepted[j].frame.source = s}}

\* Frame n of s is the next one of its source, and is bound to the generation in
\* force.
Accept(s, n) ==
  /\ ~stopped
  /\ n - 1 \in Numbers(s) /\ \A m \in Numbers(s) : m < n
  /\ accepted' = Append(accepted, [frame |-> [source |-> s, number |-> n],
                                   generation |-> generation])
  /\ UNCHANGED <<arrived, begun, stopped, generation, current, sent>>

\* The frame accepted first is handled, and leads to n dispatches.
Begin(n) ==
  /\ ~stopped /\ accepted # <<>>
  /\ current = <<>>
  /\ begun' = [begun EXCEPT ![Head(accepted).frame.source] = @ + 1]
  /\ accepted' = Tail(accepted)
  /\ current' =
       IF n = 0 THEN <<>>
       ELSE << [frame |-> Head(accepted).frame, generation |-> Head(accepted).generation,
                next |-> 1, last |-> n] >>
  /\ UNCHANGED <<arrived, stopped, generation, sent>>

\* What was accepted is lost.
Stop ==
  /\ ~stopped
  /\ stopped' = TRUE
  /\ accepted' = <<>>
  /\ UNCHANGED <<arrived, begun, generation, current, sent>>

Dispatch ==
  \E c \in {current[i] : i \in DOMAIN current} :
    /\ sent' = Append(sent, [frame |-> c.frame, generation |-> c.generation,
                             part |-> c.next])
    /\ current' = IF c.next = c.last THEN <<>>
                  ELSE <<[c EXCEPT !.next = @ + 1]>>
    /\ UNCHANGED <<arrived, accepted, begun, stopped, generation>>

Next ==
  \/ \E s \in Sources : Arrive(s)
  \/ Replace
  \/ \E s \in Sources : \E n \in 1 .. arrived[s] : Accept(s, n)
  \/ \E n \in Lengths : Begin(n)
  \/ Stop
  \/ Dispatch

Spec ==
  Init /\ [][Next]_<<arrived, accepted, begun, stopped, generation, current, sent>>
=============================================================================
