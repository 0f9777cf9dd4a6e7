------------------------- MODULE ControlPlane_proofs -------------------------
(***************************************************************************)
(* What the data plane's routing rests on.                                 *)
(*                                                                         *)
(* Of module Routing, for any set of names and any section over them:      *)
(* zones are resolved as they are defined, an error is reported only of a  *)
(* section that has it, the recursion never enters a zone it is inside of, *)
(* and a table that is compiled is complete and without a cycle.  What it  *)
(* says of a source is what its routes say, in their order.                *)
(*                                                                         *)
(* Of module ControlSocket, for any operators, any requests of theirs and  *)
(* any number of processes: the path leads to the process started last,    *)
(* what an operator is told is true, and no change made under a generation *)
(* overwrites another.                                                     *)
(***************************************************************************)
EXTENDS Routing, ControlSocket, FiniteSetTheorems, SequenceTheorems, TLAPS

-----------------------------------------------------------------------------
(* The compilation of a section.                                           *)

Frame == [zone : DOMAIN zones, next : Nat \ {0}]

Typed ==
  /\ DOMAIN zones \subseteq Names
  /\ zones \in [DOMAIN zones -> Definitions]
  /\ waiting \in Seq(Names)
  /\ stack \in Seq(Frame)
  /\ DOMAIN resolved \subseteq DOMAIN zones

\* A call under way has no value yet, and the references it has looked at have.
Progress ==
  \A i \in DOMAIN stack :
    /\ stack[i].zone \notin DOMAIN resolved
    /\ \A k \in DOMAIN Refs(stack[i].zone) :
         k < stack[i].next => Refs(stack[i].zone)[k] \in DOMAIN resolved

\* Each call is for the reference its caller looks at.
Linked ==
  \A i \in DOMAIN stack :
    i + 1 \in DOMAIN stack =>
      /\ stack[i].next \in DOMAIN Refs(stack[i].zone)
      /\ Refs(stack[i].zone)[stack[i].next] = stack[i + 1].zone

\* No zone is forgotten.
Covered ==
  \A z \in DOMAIN zones :
    \/ z \in DOMAIN resolved
    \/ \E i \in DOMAIN waiting : waiting[i] = z
    \/ \E i \in DOMAIN stack : stack[i].zone = z

\* The zones resolved, numbered as they were: each refers to lower ones.
Ranks(rank) ==
  /\ rank \in [DOMAIN resolved -> 1 .. Cardinality(DOMAIN resolved)]
  /\ \A z \in DOMAIN resolved : \A k \in DOMAIN Refs(z) :
       Refs(z)[k] \in DOMAIN resolved /\ rank[Refs(z)[k]] < rank[z]

Ranked == \E rank : Ranks(rank)

\* What is left to do is right when it is done.
Ending ==
  /\ Is("loading") => stack = <<>>
  /\ Is("compiled") => stack = <<>> /\ waiting = <<>>

IInv ==
  /\ Typed
  /\ Progress
  /\ Linked
  /\ PathIsSimple
  /\ Covered
  /\ Sound
  /\ Ranked
  /\ ErrorsAreReal
  /\ Ending

-----------------------------------------------------------------------------
(* The constants.                                                          *)

\* The references of a zone are a sequence of names.
LEMMA RefsAreNames ==
  ASSUME NEW z \in DOMAIN zones, Typed
  PROVE  Refs(z) \in Seq(Names)
<1>1. zones[z] \in Definitions
  BY DEF Typed
<1> QED BY <1>1, RoutingAssumption DEF RoutingAssumption, Refs

\* There are finitely many names, no more than the sorted list has.
LEMMA NamesAreFinite ==
  ASSUME NEW S \in SUBSET Names
  PROVE  IsFiniteSet(S) /\ Cardinality(S) \in 0 .. Len(Sorted)
<1>1. Sorted \in Seq(Names) /\ \A n \in Names : \E i \in DOMAIN Sorted : Sorted[i] = n
  BY RoutingAssumption DEF RoutingAssumption
<1>2. Len(Sorted) \in Nat /\ DOMAIN Sorted = 1 .. Len(Sorted)
  BY <1>1
<1>3. IsFiniteSet(1 .. Len(Sorted)) /\ Cardinality(1 .. Len(Sorted)) = Len(Sorted)
  <2>1. 1 \in Int /\ Len(Sorted) \in Int
    BY <1>2
  <2>2. /\ IsFiniteSet(1 .. Len(Sorted))
        /\ Cardinality(1 .. Len(Sorted)) =
             IF 1 > Len(Sorted) THEN 0 ELSE Len(Sorted) - 1 + 1
    BY <2>1, FS_Interval
  <2> QED BY <1>2, <2>2
<1>4. Sorted \in Surjection(1 .. Len(Sorted), Names)
  BY <1>1, <1>2 DEF Surjection
<1>5. IsFiniteSet(Names) /\ Cardinality(Names) <= Cardinality(1 .. Len(Sorted))
  BY <1>3, <1>4, FS_Surjection
<1>6. IsFiniteSet(S) /\ Cardinality(S) <= Cardinality(Names)
  BY <1>5, FS_Subset
<1>7. Cardinality(S) \in Nat /\ Cardinality(Names) \in Nat
  BY <1>5, <1>6, FS_CardinalityType
<1> QED BY <1>2, <1>3, <1>5, <1>6, <1>7

-----------------------------------------------------------------------------
(* What the stack is made of.                                              *)

\* The stack is a finite sequence of calls for zones that are defined.
LEMMA StackShape ==
  ASSUME Typed
  PROVE  /\ Len(stack) \in Nat
         /\ DOMAIN stack = 1 .. Len(stack)
         /\ \A i \in DOMAIN stack :
              /\ stack[i] \in Frame
              /\ stack[i].zone \in DOMAIN zones
              /\ stack[i].next \in Nat \ {0}
              /\ DOMAIN Refs(stack[i].zone) = 1 .. Len(Refs(stack[i].zone))
              /\ Len(Refs(stack[i].zone)) \in Nat
<1>1. stack \in Seq(Frame)
  BY DEF Typed
<1>2. Len(stack) \in Nat /\ DOMAIN stack = 1 .. Len(stack)
  BY <1>1
<1>3. \A i \in DOMAIN stack : stack[i] \in Frame
  BY <1>1, <1>2
<1>4. \A i \in DOMAIN stack : stack[i].zone \in DOMAIN zones /\ stack[i].next \in Nat \ {0}
  BY <1>3 DEF Frame
<1>5. \A z \in DOMAIN zones : DOMAIN Refs(z) = 1 .. Len(Refs(z)) /\ Len(Refs(z)) \in Nat
  <2> TAKE z \in DOMAIN zones
  <2>1. Refs(z) \in Seq(Names)
    BY RefsAreNames
  <2> QED BY <2>1
<1> QED BY <1>2, <1>3, <1>4, <1>5

\* What does not touch the zones nor their values keeps what is said of them.
LEMMA ValuesKept ==
  ASSUME IInv, UNCHANGED <<zones, resolved>>
  PROVE  Sound' /\ Ranked'
<1>1. Sound'
  <2>1. \A z : Refs(z)' = Refs(z)
    BY DEF Refs
  <2>2. \A op, refs : Applied(op, refs)' = Applied(op, refs)
    BY DEF Applied
  <2>3. \A z : Value(z)' = Value(z)
    BY <2>1, <2>2 DEF Value
  <2> QED BY <2>1, <2>3 DEF IInv, Sound
<1>2. Ranked'
  BY DEF IInv, Ranked, Ranks, Refs
<1> QED BY <1>1, <1>2

\* An end changes the outcome only.
LEMMA EndKeeps ==
  ASSUME IInv, UNCHANGED <<zones, routes, waiting, stack, resolved>>
  PROVE  Typed' /\ Progress' /\ Linked' /\ PathIsSimple' /\ Covered' /\ Sound' /\ Ranked'
<1>1. Typed'
  BY DEF IInv, Typed, Frame
<1>2. Progress' /\ Linked'
  BY DEF IInv, Progress, Linked, Refs
<1>3. PathIsSimple' /\ Covered'
  BY DEF IInv, PathIsSimple, Covered
<1> QED BY <1>1, <1>2, <1>3, ValuesKept

-----------------------------------------------------------------------------
(* The steps.                                                              *)

\* Reading the section keeps the invariant.
LEMMA LoadStep ==
  ASSUME IInv, Load
  PROVE  IInv'
<1>1. outcome'.kind \in {"malformed", "resolving"}
  BY DEF Load, Ends
<1>2. ErrorsAreReal' /\ Ending'
  BY <1>1 DEF ErrorsAreReal, Ending, Is
<1>3. UNCHANGED <<zones, routes, waiting, stack, resolved>>
  BY DEF Load, Ends
<1> QED BY <1>2, <1>3, EndKeeps DEF IInv

\* Checking the routes, the last step, keeps the invariant.
LEMMA FinishStep ==
  ASSUME IInv, Finish
  PROVE  IInv'
<1>1. outcome'.kind \in {"unknown route zone", "unknown target", "compiled"}
  BY DEF Finish, Ends
<1>2. UNCHANGED <<zones, routes, waiting, stack, resolved>>
  BY DEF Finish, Ends
<1>3. ErrorsAreReal'
  BY <1>1 DEF ErrorsAreReal, Is
<1>4. Ending'
  BY <1>1, <1>2 DEF Ending, Is, Finish
<1> QED BY <1>2, <1>3, <1>4, EndKeeps DEF IInv

\* Reporting an unknown zone keeps the invariant.
LEMMA UnknownStep ==
  ASSUME IInv, NEW r \in Names, Unknown(r)
  PROVE  IInv'
<1>1. /\ UNCHANGED <<zones, routes, waiting, stack, resolved>>
      /\ outcome' = [kind |-> "unknown zone", by |-> Top.zone, zone |-> r]
  BY DEF Unknown, Ends
<1>2. r \notin DOMAIN zones /\ Top.next \in DOMAIN Refs(Top.zone) /\ r = Refs(Top.zone)[Top.next]
  BY DEF Unknown, Looks
<1>3. ErrorsAreReal'
  BY <1>1, <1>2 DEF ErrorsAreReal, Is, Refs
<1>4. Ending'
  BY <1>1 DEF Ending, Is
<1> QED BY <1>1, <1>3, <1>4, EndKeeps DEF IInv

\* The calls from the first of r on refer to one another, and the last to r.
LEMMA CircularStep ==
  ASSUME IInv, NEW r \in Names, Circular(r)
  PROVE  IInv'
<1>1. PICK i \in DOMAIN stack :
        /\ stack[i].zone = r
        /\ outcome' = [kind |-> "circular", cycle |-> SubSeq(Path, i, Len(stack))]
        /\ UNCHANGED <<zones, routes, waiting, stack, resolved>>
  BY DEF Circular, Ends
<1> DEFINE n == Len(stack)
           c == SubSeq(Path, i, n)
<1>2. n \in Nat /\ DOMAIN stack = 1 .. n /\ i \in 1 .. n
  BY StackShape, <1>1 DEF IInv
<1>3. /\ Len(c) = n - i + 1
      /\ DOMAIN c = 1 .. n - i + 1
      /\ \A k \in 1 .. n - i + 1 : c[k] = stack[i + k - 1].zone
  <2>1. Path = [j \in 1 .. n |-> stack[j].zone]
    BY <1>2 DEF Path
  <2>2. c = [k \in 1 .. n - i + 1 |-> Path[i + k - 1]]
    BY <1>2
  <2>3. \A k \in 1 .. n - i + 1 : i + k - 1 \in 1 .. n
    BY <1>2
  <2>4. Len(c) = n - i + 1
    BY <1>2, <2>2, n - i + 1 \in Nat
  <2> QED BY <1>2, <2>1, <2>2, <2>3, <2>4
<1>4. Refs(stack[n].zone)[stack[n].next] = r /\ stack[n].next \in DOMAIN Refs(stack[n].zone)
  BY DEF Circular, Looks, Top
<1>5. ASSUME NEW k \in DOMAIN c
      PROVE  \E m \in DOMAIN Refs(c[k]) : Refs(c[k])[m] = IF k = Len(c) THEN c[1] ELSE c[k + 1]
  <2>1. k \in 1 .. n - i + 1 /\ c[k] = stack[i + k - 1].zone
    BY <1>3, <1>5
  <2>2. CASE k = n - i + 1
    <3>1. 1 \in 1 .. n - i + 1 /\ i + 1 - 1 = i /\ i + k - 1 = n
      BY <1>2, <2>2
    <3>2. c[1] = stack[i].zone
      BY <1>3, <3>1
    <3>3. c[k] = stack[n].zone
      BY <2>1, <3>1
    <3> QED BY <1>1, <1>3, <1>4, <2>2, <3>2, <3>3
  <2>3. CASE k # n - i + 1
    <3>1. i + k - 1 \in DOMAIN stack /\ (i + k - 1) + 1 \in DOMAIN stack
      BY <1>2, <2>1, <2>3
    <3>2. /\ stack[i + k - 1].next \in DOMAIN Refs(stack[i + k - 1].zone)
          /\ Refs(stack[i + k - 1].zone)[stack[i + k - 1].next] = stack[(i + k - 1) + 1].zone
      BY <3>1 DEF IInv, Linked
    <3>3. c[k + 1] = stack[(i + k - 1) + 1].zone
      <4>1. k + 1 \in 1 .. n - i + 1 /\ i + (k + 1) - 1 = (i + k - 1) + 1
        BY <1>2, <2>1, <2>3
      <4> QED BY <1>3, <4>1
    <3> QED BY <1>3, <2>1, <2>3, <3>2, <3>3
  <2> QED BY <2>2, <2>3
<1>6. c # <<>>
  <2>1. 1 \in DOMAIN c
    BY <1>2, <1>3
  <2> HIDE DEF c
  <2> QED BY <2>1
<1> HIDE DEF c
<1>7. ErrorsAreReal'
  <2>1. outcome'.kind = "circular" /\ outcome'.cycle = c /\ zones' = zones
    BY <1>1 DEF c
  <2>2. \A z : Refs(z)' = Refs(z)
    BY <2>1 DEF Refs
  <2> QED BY <1>5, <1>6, <2>1, <2>2 DEF ErrorsAreReal, Is, Refs
<1>8. Ending'
  BY <1>1 DEF Ending, Is
<1> QED BY <1>1, <1>7, <1>8, EndKeeps DEF IInv

\* A call of a zone that is neither resolved nor under way, and that the caller
\* looks at if there is one.
LEMMA CallKeeps ==
  ASSUME IInv, NEW r \in DOMAIN zones, r \notin DOMAIN resolved, ~OnPath(r),
         stack # <<>> => /\ Top.next \in DOMAIN Refs(Top.zone)
                         /\ Refs(Top.zone)[Top.next] = r,
         stack' = Call(r), UNCHANGED <<zones, resolved>>
  PROVE  /\ stack' \in Seq(Frame)
         /\ Progress' /\ Linked' /\ PathIsSimple'
         /\ \A i \in DOMAIN stack : i \in DOMAIN stack' /\ stack'[i] = stack[i]
         /\ \E i \in DOMAIN stack' : stack'[i].zone = r
<1> DEFINE n == Len(stack)
           f == [zone |-> r, next |-> 1]
<1>1. /\ n \in Nat /\ DOMAIN stack = 1 .. n
      /\ \A i \in DOMAIN stack : stack[i].next \in Nat \ {0} /\ stack[i].zone \in DOMAIN zones
  BY StackShape DEF IInv
<1>2. stack \in Seq(Frame) /\ f \in Frame
  BY DEF IInv, Typed, Frame
<1>3. /\ stack' \in Seq(Frame)
      /\ Len(stack') = n + 1
      /\ \A i \in 1 .. n : stack'[i] = stack[i]
      /\ stack'[n + 1] = f
  BY <1>2, AppendProperties DEF Call
<1>4. DOMAIN stack' = 1 .. n + 1
  BY <1>3
<1>5. \A z : Refs(z)' = Refs(z)
  BY DEF Refs
<1>6. DOMAIN resolved' = DOMAIN resolved
  OBVIOUS
<1>7. \A i \in 1 .. n + 1 : i = n + 1 \/ i \in 1 .. n
  BY <1>1
<1>8. f.zone = r /\ f.next = 1
  OBVIOUS
<1> HIDE DEF f
<1>9. Progress'
  <2> SUFFICES ASSUME NEW i \in 1 .. n + 1
               PROVE  /\ stack'[i].zone \notin DOMAIN resolved
                      /\ \A k \in DOMAIN Refs(stack'[i].zone) :
                           k < stack'[i].next => Refs(stack'[i].zone)[k] \in DOMAIN resolved
    BY <1>4, <1>5, <1>6 DEF Progress
  <2>1. CASE i \in 1 .. n
    BY <1>1, <1>3, <2>1 DEF IInv, Progress
  <2>2. CASE i = n + 1
    <3>1. DOMAIN Refs(r) = 1 .. Len(Refs(r)) /\ Len(Refs(r)) \in Nat
      <4>1. Refs(r) \in Seq(Names)
        BY RefsAreNames DEF IInv
      <4> QED BY <4>1
    <3>2. stack'[i].zone = r /\ stack'[i].next = 1
      BY <1>3, <1>8, <2>2
    <3>3. \A k \in DOMAIN Refs(r) : ~(k < 1)
      BY <3>1
    <3> QED BY <3>2, <3>3
  <2> QED BY <1>7, <2>1, <2>2
<1>10. Linked'
  <2> SUFFICES ASSUME NEW i \in 1 .. n + 1, i + 1 \in 1 .. n + 1
               PROVE  /\ stack'[i].next \in DOMAIN Refs(stack'[i].zone)
                      /\ Refs(stack'[i].zone)[stack'[i].next] = stack'[i + 1].zone
    BY <1>4, <1>5 DEF Linked
  <2>1. i \in 1 .. n /\ stack'[i] = stack[i]
    BY <1>1, <1>3
  <2>2. CASE i = n
    <3>1. stack # <<>> /\ stack[i] = Top
      BY <1>1, <2>1, <2>2 DEF Top
    <3>2. stack'[i + 1].zone = r
      BY <1>3, <1>8, <2>2
    <3> QED BY <2>1, <3>1, <3>2
  <2>3. CASE i # n
    <3>1. i + 1 \in 1 .. n
      <4>1. n \in Nat /\ i \in 1 .. n /\ i # n
        BY <1>1, <2>1, <2>3
      <4> HIDE DEF n
      <4> QED BY <4>1
    <3> QED BY <1>1, <1>3, <2>1, <3>1 DEF IInv, Linked
  <2> QED BY <2>2, <2>3
<1>11. PathIsSimple'
  <2> SUFFICES ASSUME NEW i \in 1 .. n + 1, NEW j \in 1 .. n + 1,
                      stack'[i].zone = stack'[j].zone
               PROVE  i = j
    BY <1>4 DEF PathIsSimple
  <2>1. \A m \in 1 .. n : stack'[m].zone # r
    BY <1>1, <1>3 DEF OnPath
  <2>2. stack'[n + 1].zone = r
    BY <1>3, <1>8
  <2>3. CASE i \in 1 .. n /\ j \in 1 .. n
    BY <1>1, <1>3, <2>3 DEF IInv, PathIsSimple
  <2> QED BY <1>7, <2>1, <2>2, <2>3
<1>12. n + 1 \in DOMAIN stack' /\ stack'[n + 1].zone = r
  BY <1>1, <1>3, <1>4, <1>8
<1>13. \A i \in DOMAIN stack : i \in DOMAIN stack' /\ stack'[i] = stack[i]
  BY <1>1, <1>3, <1>4
<1> QED BY <1>3, <1>9, <1>10, <1>11, <1>12, <1>13

\* The call for a zone that has no value yet keeps the invariant.
LEMMA EnterStep ==
  ASSUME IInv, NEW r \in Names, Enter(r)
  PROVE  IInv'
<1>1. /\ r \in DOMAIN zones /\ r \notin DOMAIN resolved /\ ~OnPath(r)
      /\ Top.next \in DOMAIN Refs(Top.zone) /\ Refs(Top.zone)[Top.next] = r
      /\ stack' = Call(r)
      /\ UNCHANGED <<zones, routes, waiting, resolved, outcome>>
      /\ Is("resolving")
  BY DEF Enter, Looks
<1>2. /\ stack' \in Seq(Frame)
      /\ Progress' /\ Linked' /\ PathIsSimple'
      /\ \A i \in DOMAIN stack : i \in DOMAIN stack' /\ stack'[i] = stack[i]
  BY <1>1, CallKeeps
<1>3. Typed'
  BY <1>1, <1>2 DEF IInv, Typed, Frame
<1>4. Covered'
  BY <1>1, <1>2 DEF IInv, Covered
<1>5. ErrorsAreReal' /\ Ending'
  BY <1>1 DEF ErrorsAreReal, Ending, Is
<1> QED BY <1>1, <1>2, <1>3, <1>4, <1>5, ValuesKept DEF IInv

\* The name taken from the list is resolved, not defined, or called.
LEMMA BeginStep ==
  ASSUME IInv, Begin
  PROVE  IInv'
<1> DEFINE h == Head(waiting)
<1>1. /\ stack = <<>> /\ waiting # <<>> /\ waiting' = Tail(waiting)
      /\ stack' = IF h \in DOMAIN zones \ DOMAIN resolved THEN Call(h) ELSE <<>>
      /\ UNCHANGED <<zones, routes, resolved, outcome>>
      /\ Is("resolving")
  BY DEF Begin
<1>2. waiting \in Seq(Names) /\ waiting' \in Seq(Names)
  BY <1>1 DEF IInv, Typed
<1>3. \A i \in DOMAIN waiting : waiting[i] = h \/ \E j \in DOMAIN waiting' : waiting'[j] = waiting[i]
  <2>1. /\ Len(waiting) \in Nat \ {0} /\ DOMAIN waiting = 1 .. Len(waiting)
        /\ DOMAIN waiting' = 1 .. Len(waiting) - 1
        /\ \A j \in 1 .. Len(waiting) - 1 : waiting'[j] = waiting[j + 1]
        /\ h = waiting[1]
    BY <1>1, <1>2
  <2> SUFFICES ASSUME NEW i \in 1 .. Len(waiting), i # 1
               PROVE  \E j \in DOMAIN waiting' : waiting'[j] = waiting[i]
    BY <2>1
  <2>2. i - 1 \in 1 .. Len(waiting) - 1 /\ (i - 1) + 1 = i
    BY <2>1
  <2> QED BY <2>1, <2>2
<1>4. DOMAIN stack = {}
  BY <1>1
<1>5. ErrorsAreReal' /\ Ending'
  BY <1>1 DEF ErrorsAreReal, Ending, Is
<1>6. CASE h \in DOMAIN zones \ DOMAIN resolved
  <2>1. /\ stack' \in Seq(Frame) /\ Progress' /\ Linked' /\ PathIsSimple'
        /\ \E i \in DOMAIN stack' : stack'[i].zone = h
    <3>1. ~OnPath(h)
      BY <1>4 DEF OnPath
    <3> QED BY <1>1, <1>6, <3>1, CallKeeps
  <2>2. Typed'
    BY <1>1, <1>2, <2>1 DEF IInv, Typed, Frame
  <2>3. Covered'
    BY <1>1, <1>3, <1>4, <2>1 DEF IInv, Covered
  <2> QED BY <1>1, <1>5, <2>1, <2>2, <2>3, ValuesKept DEF IInv
<1>7. CASE h \notin DOMAIN zones \ DOMAIN resolved
  <2>1. stack' = <<>> /\ DOMAIN stack' = {}
    BY <1>1, <1>7
  <2>2. Typed'
    BY <1>1, <1>2, <2>1 DEF IInv, Typed, Frame
  <2>3. Progress' /\ Linked' /\ PathIsSimple'
    BY <2>1 DEF Progress, Linked, PathIsSimple
  <2>4. Covered'
    BY <1>1, <1>3, <1>4, <1>7, <2>1 DEF IInv, Covered
  <2> QED BY <1>1, <1>5, <2>2, <2>3, <2>4, ValuesKept DEF IInv
<1> QED BY <1>6, <1>7

\* Meeting a zone that has its value keeps the invariant.
LEMMA KnownStep ==
  ASSUME IInv, NEW r \in Names, Known(r)
  PROVE  IInv'
<1> DEFINE n == Len(stack)
<1>1. /\ Is("resolving") /\ stack # <<>>
      /\ Top.next \in DOMAIN Refs(Top.zone) /\ r = Refs(Top.zone)[Top.next]
      /\ r \in DOMAIN resolved
      /\ stack' = [stack EXCEPT ![n].next = @ + 1]
      /\ UNCHANGED <<zones, routes, waiting, resolved, outcome>>
  BY DEF Known, Looks
<1>2. /\ n \in Nat /\ DOMAIN stack = 1 .. n /\ stack \in Seq(Frame)
      /\ \A i \in DOMAIN stack :
           /\ stack[i] \in Frame
           /\ stack[i].next \in Nat \ {0}
           /\ DOMAIN Refs(stack[i].zone) = 1 .. Len(Refs(stack[i].zone))
           /\ Len(Refs(stack[i].zone)) \in Nat
  BY StackShape DEF IInv, Typed
<1>3. n \in 1 .. n /\ Top = stack[n]
  BY <1>1, <1>2 DEF Top
<1>4. /\ DOMAIN stack' = 1 .. n
      /\ \A i \in 1 .. n : i # n => stack'[i] = stack[i]
      /\ stack'[n] = [stack[n] EXCEPT !.next = @ + 1]
  BY <1>1, <1>2, <1>3
<1>5. /\ stack'[n] \in Frame
      /\ stack'[n].zone = stack[n].zone /\ stack'[n].next = stack[n].next + 1
  BY <1>2, <1>3, <1>4 DEF Frame
<1>6. \A i \in 1 .. n : stack'[i].zone = stack[i].zone
  BY <1>4, <1>5
<1>7. stack' \in Seq(Frame)
  <2>1. stack' = [i \in 1 .. n |-> stack'[i]]
    BY <1>1, <1>2
  <2>2. \A i \in 1 .. n : stack'[i] \in Frame
    BY <1>2, <1>4, <1>5
  <2> QED BY <1>2, <2>1, <2>2, IsASeq
<1>8. Typed'
  BY <1>1, <1>7 DEF IInv, Typed, Frame
<1>9. \A z : Refs(z)' = Refs(z)
  BY <1>1 DEF Refs
<1>10. Progress'
  <2> SUFFICES ASSUME NEW i \in 1 .. n
               PROVE  /\ stack'[i].zone \notin DOMAIN resolved
                      /\ \A k \in DOMAIN Refs(stack'[i].zone) :
                           k < stack'[i].next => Refs(stack'[i].zone)[k] \in DOMAIN resolved
    BY <1>1, <1>4, <1>9 DEF Progress
  <2>1. CASE i # n
    BY <1>2, <1>4, <2>1 DEF IInv, Progress
  <2>2. CASE i = n
    <3>1. stack[n].zone \notin DOMAIN resolved
      BY <1>2, <1>3 DEF IInv, Progress
    <3>2. ASSUME NEW k \in DOMAIN Refs(stack[n].zone), k < stack[n].next + 1
          PROVE  Refs(stack[n].zone)[k] \in DOMAIN resolved
      <4>1. k \in Nat /\ stack[n].next \in Nat
        BY <1>2, <1>3
      <4>2. k < stack[n].next \/ k = stack[n].next
        BY <3>2, <4>1
      <4>3. CASE k < stack[n].next
        BY <1>2, <1>3, <4>3 DEF IInv, Progress
      <4>4. CASE k = stack[n].next
        BY <1>1, <1>3, <4>4
      <4> QED BY <4>2, <4>3, <4>4
    <3> QED BY <1>5, <2>2, <3>1, <3>2
  <2> QED BY <2>1, <2>2
<1>11. Linked'
  <2> SUFFICES ASSUME NEW i \in 1 .. n, i + 1 \in 1 .. n
               PROVE  /\ stack'[i].next \in DOMAIN Refs(stack'[i].zone)
                      /\ Refs(stack'[i].zone)[stack'[i].next] = stack'[i + 1].zone
    BY <1>4, <1>9 DEF Linked
  <2>1. i # n
    <3>1. n \in Nat
      BY <1>2
    <3> HIDE DEF n
    <3> QED BY <3>1
  <2>2. stack'[i] = stack[i] /\ stack'[i + 1].zone = stack[i + 1].zone
    BY <1>4, <1>6, <2>1
  <2> QED BY <1>2, <2>2 DEF IInv, Linked
<1>12. PathIsSimple'
  BY <1>2, <1>4, <1>6 DEF IInv, PathIsSimple
<1>13. Covered'
  BY <1>1, <1>2, <1>4, <1>6 DEF IInv, Covered
<1>14. ErrorsAreReal' /\ Ending'
  BY <1>1 DEF ErrorsAreReal, Ending, Is
<1> QED BY <1>1, <1>8, <1>10, <1>11, <1>12, <1>13, <1>14, ValuesKept DEF IInv

\* A zone whose references all have values gets its own; others keep theirs.
LEMMA ReturnStep ==
  ASSUME IInv, Return
  PROVE  IInv'
<1> DEFINE n == Len(stack)
           t == stack[n].zone
<1>1. /\ Is("resolving") /\ stack # <<>>
      /\ Top.next \notin DOMAIN Refs(Top.zone)
      /\ resolved' = [z \in DOMAIN resolved \cup {Top.zone} |->
                        IF z = Top.zone THEN Value(z) ELSE resolved[z]]
      /\ stack' = SubSeq(stack, 1, n - 1)
      /\ UNCHANGED <<zones, routes, waiting, outcome>>
  BY DEF Return
<1>2. /\ n \in Nat /\ DOMAIN stack = 1 .. n /\ stack \in Seq(Frame)
      /\ \A i \in DOMAIN stack :
           /\ stack[i].zone \in DOMAIN zones
           /\ stack[i].next \in Nat \ {0}
           /\ DOMAIN Refs(stack[i].zone) = 1 .. Len(Refs(stack[i].zone))
           /\ Len(Refs(stack[i].zone)) \in Nat
  BY StackShape DEF IInv, Typed
<1>3. n \in 1 .. n /\ Top.zone = t /\ Top.next = stack[n].next
  BY <1>1, <1>2 DEF Top
<1>4. /\ stack' \in Seq(Frame)
      /\ DOMAIN stack' = 1 .. n - 1
      /\ \A i \in 1 .. n - 1 : i \in 1 .. n /\ i # n /\ stack'[i] = stack[i]
  <2>1. n \in Nat \ {0}
    BY <1>2, <1>3
  <2>2. 1 \in 1 .. n + 1 /\ n - 1 \in 1 - 1 .. n
    BY <2>1
  <2>3. /\ SubSeq(stack, 1, n - 1) \in Seq(Frame)
        /\ Len(SubSeq(stack, 1, n - 1)) = (n - 1) - 1 + 1
        /\ \A i \in 1 .. (n - 1) - 1 + 1 : SubSeq(stack, 1, n - 1)[i] = stack[1 + i - 1]
    BY <1>2, <2>2, SubSeqProperties
  <2>4. (n - 1) - 1 + 1 = n - 1 /\ n - 1 \in Nat
    BY <2>1
  <2>5. \A i \in 1 .. n - 1 : i \in 1 .. n /\ i # n /\ 1 + i - 1 = i
    BY <2>1
  <2>6. DOMAIN stack' = 1 .. n - 1
    BY <1>1, <2>3, <2>4
  <2> QED BY <1>1, <2>3, <2>4, <2>5, <2>6
<1>5. t \in DOMAIN zones /\ t \notin DOMAIN resolved
  BY <1>2, <1>3 DEF IInv, Progress
<1>6. \A k \in DOMAIN Refs(t) : Refs(t)[k] \in DOMAIN resolved
  <2> TAKE k \in DOMAIN Refs(t)
  <2>1. k < stack[n].next
    <3>1. /\ stack[n].next \in Nat \ {0} /\ Len(Refs(t)) \in Nat
          /\ k \in 1 .. Len(Refs(t)) /\ stack[n].next \notin 1 .. Len(Refs(t))
      BY <1>1, <1>2, <1>3
    <3> QED BY <3>1
  <2> QED BY <1>2, <1>3, <2>1 DEF IInv, Progress
<1>7. /\ DOMAIN resolved' = DOMAIN resolved \cup {t}
      /\ resolved'[t] = Value(t)
      /\ \A z \in DOMAIN resolved : resolved'[z] = resolved[z]
  BY <1>1, <1>3, <1>5
<1>8. \A z : Refs(z)' = Refs(z)
  BY <1>1 DEF Refs
<1> HIDE DEF t
<1>9. Sound'
  <2>1. \A z \in DOMAIN resolved : \A k \in DOMAIN Refs(z) : Refs(z)[k] \in DOMAIN resolved
    BY DEF IInv, Sound
  <2>2. ASSUME NEW z \in DOMAIN resolved \cup {t}
        PROVE  Value(z)' = Value(z)
    <3>1. \A k \in DOMAIN Refs(z) : resolved'[Refs(z)[k]] = resolved[Refs(z)[k]]
      BY <1>6, <1>7, <2>1
    <3>2. ASSUME NEW op, NEW refs, refs = Refs(z)
          PROVE  Applied(op, refs)' = Applied(op, refs)
      <4>1. CASE refs = <<>>
        BY <4>1 DEF Applied
      <4>2. CASE refs # <<>>
        <5>1. refs \in Seq(Names)
          <6>1. z \in DOMAIN zones
            BY <1>5 DEF IInv, Typed
          <6> QED BY <3>2, <6>1, RefsAreNames DEF IInv
        <5>2. 1 \in DOMAIN refs
          BY <4>2, <5>1
        <5>3. {resolved'[refs[i]] : i \in DOMAIN refs} = {resolved[refs[i]] : i \in DOMAIN refs}
          BY <3>1, <3>2
        <5>4. {s \in resolved'[refs[1]] : \A i \in DOMAIN refs \ {1} : s \notin resolved'[refs[i]]}
                = {s \in resolved[refs[1]] : \A i \in DOMAIN refs \ {1} : s \notin resolved[refs[i]]}
          BY <3>1, <3>2, <5>2
        <5> QED BY <5>3, <5>4 DEF Applied
      <4> QED BY <4>1, <4>2
    <3> QED BY <1>1, <1>8, <3>2 DEF Value
  <2>3. \A z \in DOMAIN resolved : z \in DOMAIN zones /\ resolved[z] = Value(z)
    BY DEF IInv, Sound
  <2> QED BY <1>1, <1>5, <1>6, <1>7, <1>8, <2>1, <2>2, <2>3 DEF Sound
<1>10. Typed'
  BY <1>1, <1>4, <1>5, <1>7 DEF IInv, Typed, Frame
<1>11. \A i \in 1 .. n - 1 : stack[i].zone # t
  BY <1>2, <1>3, <1>4 DEF IInv, PathIsSimple, t
<1>12. Progress'
  BY <1>2, <1>4, <1>7, <1>8, <1>11 DEF IInv, Progress
<1>13. Linked' /\ PathIsSimple'
  BY <1>2, <1>4, <1>8 DEF IInv, Linked, PathIsSimple
<1>14. Covered'
  <2>1. \A i \in 1 .. n : i = n \/ i \in 1 .. n - 1
    <3>1. n \in Nat
      BY <1>2
    <3> HIDE DEF n
    <3> QED BY <3>1
  <2> SUFFICES ASSUME NEW z \in DOMAIN zones
               PROVE  \/ z \in DOMAIN resolved'
                      \/ \E i \in DOMAIN waiting : waiting[i] = z
                      \/ \E i \in DOMAIN stack' : stack'[i].zone = z
    BY <1>1 DEF Covered
  <2>2. CASE z \in DOMAIN resolved \/ \E i \in DOMAIN waiting : waiting[i] = z
    BY <1>7, <2>2
  <2>3. ASSUME NEW i \in 1 .. n, stack[i].zone = z
        PROVE  z = t \/ \E j \in DOMAIN stack' : stack'[j].zone = z
    BY <1>4, <2>1, <2>3 DEF t
  <2> QED BY <1>2, <1>7, <2>2, <2>3 DEF IInv, Covered
<1>15. Ranked'
  <2>1. PICK rank : Ranks(rank)
    BY DEF IInv, Ranked
  <2> DEFINE c == Cardinality(DOMAIN resolved)
             new == [z \in DOMAIN resolved \cup {t} |-> IF z = t THEN c + 1 ELSE rank[z]]
  <2>2. c \in Nat /\ Cardinality(DOMAIN resolved') = c + 1
    <3>1. DOMAIN resolved \in SUBSET Names
      BY DEF IInv, Typed
    <3>2. IsFiniteSet(DOMAIN resolved) /\ c \in Nat
      BY <3>1, NamesAreFinite
    <3> QED BY <1>5, <1>7, <3>2, FS_AddElement
  <2>3. /\ rank \in [DOMAIN resolved -> 1 .. c]
        /\ \A z \in DOMAIN resolved : \A k \in DOMAIN Refs(z) :
             Refs(z)[k] \in DOMAIN resolved /\ rank[Refs(z)[k]] < rank[z]
    BY <2>1 DEF Ranks
  <2>4. /\ new[t] = c + 1
        /\ \A z \in DOMAIN resolved : new[z] = rank[z] /\ rank[z] \in 1 .. c
    BY <1>5, <2>3
  <2>5. new \in [DOMAIN resolved' -> 1 .. c + 1]
    <3>1. \A z \in DOMAIN resolved \cup {t} : new[z] \in 1 .. c + 1
      BY <2>2, <2>4
    <3> QED BY <1>7, <3>1
  <2> HIDE DEF c, new
  <2>6. \A z \in DOMAIN resolved' : \A k \in DOMAIN Refs(z) :
          Refs(z)[k] \in DOMAIN resolved' /\ new[Refs(z)[k]] < new[z]
    <3> TAKE z \in DOMAIN resolved'
    <3> TAKE k \in DOMAIN Refs(z)
    <3>1. CASE z = t
      BY <1>6, <1>7, <2>2, <2>4, <3>1
    <3>2. CASE z \in DOMAIN resolved
      BY <1>7, <2>3, <2>4, <3>2
    <3> QED BY <1>7, <3>1, <3>2
  <2>7. PICK ranks : ranks = new
    OBVIOUS
  <2>8. Ranks(ranks)'
    BY <1>8, <2>2, <2>5, <2>6, <2>7 DEF Ranks
  <2> QED BY <2>8 DEF Ranked
<1>16. ErrorsAreReal' /\ Ending'
  BY <1>1 DEF ErrorsAreReal, Ending, Is
<1> QED BY <1>9, <1>10, <1>12, <1>13, <1>14, <1>15, <1>16 DEF IInv

-----------------------------------------------------------------------------
(* The theorems.                                                           *)

\* The invariant holds at first.
LEMMA InitHolds == RoutingInit => IInv
<1> SUFFICES ASSUME RoutingInit PROVE IInv
  OBVIOUS
<1>1. PICK defined \in SUBSET Names : zones \in [defined -> Definitions]
  BY DEF RoutingInit
<1>2. /\ DOMAIN zones = defined /\ waiting = Sorted /\ stack = <<>>
      /\ DOMAIN resolved = {} /\ outcome.kind = "loading" /\ DOMAIN stack = {}
  BY <1>1 DEF RoutingInit
<1>3. Sorted \in Seq(Names) /\ \A n \in Names : \E i \in DOMAIN Sorted : Sorted[i] = n
  BY RoutingAssumption DEF RoutingAssumption
<1>4. Typed
  BY <1>1, <1>2, <1>3 DEF Typed, Frame
<1>5. Progress /\ Linked /\ PathIsSimple /\ Sound
  BY <1>2 DEF Progress, Linked, PathIsSimple, Sound
<1>6. Covered
  BY <1>1, <1>2, <1>3 DEF Covered
<1>7. Ranked
  <2>1. resolved \in [{} -> 1 .. Cardinality({})]
    BY DEF RoutingInit
  <2> QED BY <1>2, <2>1 DEF Ranked, Ranks
<1>8. ErrorsAreReal /\ Ending
  BY <1>2 DEF ErrorsAreReal, Ending, Is
<1> QED BY <1>4, <1>5, <1>6, <1>7, <1>8 DEF IInv

\* Every step keeps the invariant.
LEMMA StepHolds == IInv /\ [RoutingNext]_routingVars => IInv'
<1> SUFFICES ASSUME IInv, [RoutingNext]_routingVars PROVE IInv'
  OBVIOUS
<1>1. CASE UNCHANGED routingVars
  <2>1. UNCHANGED <<zones, routes, waiting, stack, resolved, outcome>>
    BY <1>1 DEF routingVars
  <2>2. ErrorsAreReal' /\ Ending'
    BY <2>1 DEF IInv, ErrorsAreReal, Ending, Is, Refs
  <2> QED BY <2>1, <2>2, EndKeeps DEF IInv
<1>2. CASE Load
  BY <1>2, LoadStep
<1>3. CASE Begin
  BY <1>3, BeginStep
<1>4. ASSUME NEW r \in Names, Known(r) \/ Unknown(r) \/ Circular(r) \/ Enter(r)
      PROVE  IInv'
  BY <1>4, KnownStep, UnknownStep, CircularStep, EnterStep
<1>5. CASE Return
  BY <1>5, ReturnStep
<1>6. CASE Finish
  BY <1>6, FinishStep
<1>7. CASE Ended
  BY <1>1, <1>7 DEF Ended
<1> QED BY <1>1, <1>2, <1>3, <1>4, <1>5, <1>6, <1>7 DEF RoutingNext

\* So it holds throughout.
LEMMA Invariance == RoutingSpec => []IInv
<1> QED BY InitHolds, StepHolds, PTL DEF RoutingSpec

\* What the stack, the list and the numbers come to when a table is compiled.
LEMMA CompleteTable ==
  ASSUME IInv
  PROVE  Complete
<1> SUFFICES ASSUME Is("compiled")
             PROVE  /\ DOMAIN resolved = DOMAIN zones
                    /\ \E rank \in [DOMAIN zones -> DOMAIN Sorted] :
                         \A z \in DOMAIN zones : \A i \in DOMAIN Refs(z) :
                           rank[Refs(z)[i]] < rank[z]
  BY DEF Complete
<1>1. stack = <<>> /\ waiting = <<>> /\ DOMAIN stack = {} /\ DOMAIN waiting = {}
  BY DEF IInv, Ending
<1>2. DOMAIN resolved = DOMAIN zones
  BY <1>1 DEF IInv, Covered, Typed
<1>3. PICK rank : Ranks(rank)
  BY DEF IInv, Ranked
<1> DEFINE c == Cardinality(DOMAIN resolved)
<1>4. c \in 0 .. Len(Sorted) /\ DOMAIN Sorted = 1 .. Len(Sorted) /\ Len(Sorted) \in Nat
  <2>1. DOMAIN resolved \in SUBSET Names
    BY DEF IInv, Typed
  <2>2. Sorted \in Seq(Names)
    BY RoutingAssumption DEF RoutingAssumption
  <2> QED BY <2>1, <2>2, NamesAreFinite
<1>5. 1 .. c \subseteq DOMAIN Sorted
  BY <1>4
<1>6. rank \in [DOMAIN zones -> DOMAIN Sorted]
  BY <1>2, <1>3, <1>5 DEF Ranks
<1> QED BY <1>2, <1>3, <1>6 DEF Ranks

\* resolve_zones and RoutingTable of src/core/routing.py: whatever the names, the
\* definitions and their order, values are those of the definitions, errors are
\* real, the recursion is bounded, and a compiled table has every zone and no
\* cycle.
THEOREM RoutingIsResolved == RoutingSpec => []ResolvesAsDefined
<1>1. IInv => ResolvesAsDefined
  BY CompleteTable DEF IInv, ResolvesAsDefined
<1> QED BY <1>1, Invariance, PTL
-----------------------------------------------------------------------------
(* The folds of match_target_ids, unrolled.                                *)

\* A set of numbers has a least one.
LEMMA LeastNumber ==
  ASSUME NEW S, S \subseteq Nat, S # {}
  PROVE  \E n \in S : \A m \in S : n <= m
<1>1. PICK n \in S : \A m \in S : ~(<<m, n>> \in OpToRel(<, Nat))
  BY NatLessThanWellFounded, WFMin, Zenon
<1>2. \A m \in S : ~(m < n)
  BY <1>1 DEF OpToRel
<1> QED
  BY <1>2, n \in Nat, \A m \in S : m \in Nat

\* The loop over the routes, and in it the one over the targets of a route.
RouteStep(s, ids, route) ==
  IF s \in route.sources THEN FoldLeft(WithNew, ids, route.targets) ELSE ids

LoopStep(loop, s, ids, x) == IF loop = "targets" THEN WithNew(ids, x) ELSE RouteStep(s, ids, x)

\* A fold of either as the library defines it: over the sets of places.
Looping(iter, loop, s, base, list, S) ==
  iter = [t \in SUBSET S |->
            IF t = {} THEN base ELSE LoopStep(loop, s, iter[t \ {Max(t)}], list[Max(t)])]

LoopingTargets(iter, base, list, S) ==
  iter = [t \in SUBSET S |->
            IF t = {} THEN base ELSE WithNew(iter[t \ {Max(t)}], list[Max(t)])]

LoopingRoutes(iter, s, base, list, S) ==
  iter = [t \in SUBSET S |->
            IF t = {} THEN base ELSE RouteStep(s, iter[t \ {Max(t)}], list[Max(t)])]

\* The loop over targets is such a fold.
LEMMA TargetsAreFolded ==
  ASSUME NEW base, NEW list
  PROVE  FoldLeft(WithNew, base, list)
           = (CHOOSE iter : LoopingTargets(iter, base, list, DOMAIN list))[DOMAIN list]
  BY DEF FoldLeft, MapThenFoldSet, LoopingTargets

\* So is the loop over routes.
LEMMA RoutesAreFolded ==
  ASSUME NEW s
  PROVE  MatchTargetIds(s)
           = (CHOOSE iter : LoopingRoutes(iter, s, <<>>, Plan, DOMAIN Plan))[DOMAIN Plan]
  BY DEF MatchTargetIds, FoldLeft, MapThenFoldSet, LoopingRoutes, RouteStep

\* Both are cases of the one fold the lemmas below are about.
LEMMA LoopingIs ==
  ASSUME NEW iter, NEW s, NEW base, NEW list, NEW S
  PROVE  /\ Looping(iter, "targets", s, base, list, S) <=> LoopingTargets(iter, base, list, S)
         /\ Looping(iter, "routes", s, base, list, S) <=> LoopingRoutes(iter, s, base, list, S)
<1>1. Looping(iter, "targets", s, base, list, S) <=> LoopingTargets(iter, base, list, S)
  BY DEF Looping, LoopingTargets, LoopStep
<1>2. Looping(iter, "routes", s, base, list, S) <=> LoopingRoutes(iter, s, base, list, S)
  BY DEF Looping, LoopingRoutes, LoopStep
<1> QED
  BY <1>1, <1>2

\* The greatest place of those up to n.
LEMMA MaxOf ==
  ASSUME NEW n \in Nat, NEW t \in SUBSET (1 .. n), n \in t
  PROVE  Max(t) = n
<1>1. n \in t /\ \A y \in t : n >= y
  OBVIOUS
<1>2. \A x \in t : (\A y \in t : x >= y) => x = n
  <2>1. \A x \in t : x \in Int
    OBVIOUS
  <2> QED
    BY <2>1
<1> QED
  BY <1>1, <1>2 DEF Max

Places(iter, loop, s, base, list, n) ==
  \A t \in SUBSET (1 .. n) :
    iter[t] = IF t = {} THEN base ELSE LoopStep(loop, s, iter[t \ {Max(t)}], list[Max(t)])

Turns(a, loop, s, base, list, n) ==
  /\ a[0] = base
  /\ \A m \in 1 .. n : a[m] = LoopStep(loop, s, a[m - 1], list[m])

\* What a function that is defined like this is at each set of places.
LEMMA LoopingAt ==
  ASSUME NEW loop, NEW s, NEW base, NEW list, NEW n \in Nat, NEW iter,
         Looping(iter, loop, s, base, list, 1 .. n)
  PROVE  Places(iter, loop, s, base, list, n)
BY DEF Looping, Places

\* There is such a function.
LEMMA LoopingExists ==
  ASSUME NEW loop, NEW s, NEW base, NEW list, NEW n \in Nat
  PROVE  \E iter : Looping(iter, loop, s, base, list, 1 .. n)
<1> DEFINE Exists(m) == \E iter : Looping(iter, loop, s, base, list, 1 .. m)
           Missing == {m \in Nat : ~Exists(m)}
<1>1. Exists(0)
  <2> DEFINE g == [t \in SUBSET {} |-> base]
  <2>1. Looping(g, loop, s, base, list, {})
    <3>1. \A t \in SUBSET {} : t = {}
      OBVIOUS
    <3>2. g = [t \in SUBSET {} |-> IF t = {} THEN base
                                  ELSE LoopStep(loop, s, g[t \ {Max(t)}], list[Max(t)])]
      BY <3>1
    <3> QED
      BY <3>2 DEF Looping
  <2>2. 1 .. 0 = {}
    OBVIOUS
  <2> QED
    BY <2>1, <2>2
<1>2. ASSUME NEW m \in Nat, Exists(m)
      PROVE  Exists(m + 1)
  <2>1. PICK g : Looping(g, loop, s, base, list, 1 .. m)
    BY <1>2
  <2> DEFINE h == [t \in SUBSET (1 .. m + 1) |->
                     IF m + 1 \in t THEN LoopStep(loop, s, g[t \ {m + 1}], list[m + 1])
                     ELSE g[t]]
             E(t) == IF t = {} THEN base
                     ELSE LoopStep(loop, s, h[t \ {Max(t)}], list[Max(t)])
  <2>2. \A t \in SUBSET (1 .. m) :
          g[t] = IF t = {} THEN base ELSE LoopStep(loop, s, g[t \ {Max(t)}], list[Max(t)])
    <3>1. Places(g, loop, s, base, list, m)
      BY <2>1, LoopingAt
    <3> QED
      BY <3>1 DEF Places
  <2>3. ASSUME NEW t \in SUBSET (1 .. m + 1), m + 1 \in t
        PROVE  Max(t) = m + 1
    BY <2>3, MaxOf
  <2>4. \A t \in SUBSET (1 .. m + 1) : m + 1 \notin t => t \in SUBSET (1 .. m)
    OBVIOUS
  <2>5. ASSUME NEW t \in SUBSET (1 .. m + 1)
        PROVE  h[t] = E(t)
    <3>1. CASE m + 1 \in t
      <4>1. t # {} /\ Max(t) = m + 1 /\ t \ {m + 1} \in SUBSET (1 .. m + 1)
            /\ m + 1 \notin t \ {m + 1}
        BY <2>3, <3>1
      <4>2. h[t \ {m + 1}] = g[t \ {m + 1}]
            /\ h[t] = LoopStep(loop, s, g[t \ {m + 1}], list[m + 1])
        BY <3>1, <4>1
      <4> HIDE DEF h
      <4> QED
        BY <4>1, <4>2
    <3>2. CASE m + 1 \notin t
      <4>1. t \in SUBSET (1 .. m) /\ t \ {Max(t)} \in SUBSET (1 .. m + 1) /\ m + 1 \notin t \ {Max(t)}
        BY <2>4, <3>2
      <4>2. h[t] = g[t] /\ h[t \ {Max(t)}] = g[t \ {Max(t)}]
        BY <3>2, <4>1
      <4> HIDE DEF h
      <4> QED
        BY <2>2, <4>1, <4>2
    <3> QED
      BY <3>1, <3>2
  <2>6. h = [t \in SUBSET (1 .. m + 1) |-> h[t]]
    OBVIOUS
  <2>7. Looping(h, loop, s, base, list, 1 .. m + 1)
    <3> HIDE DEF h
    <3>1. h = [t \in SUBSET (1 .. m + 1) |-> E(t)]
      BY <2>5, <2>6
    <3> QED
      BY <3>1 DEF Looping
  <2> QED
    BY <2>7
<1> HIDE DEF Exists
<1>3. Missing = {}
  <2> SUFFICES ASSUME Missing # {} PROVE FALSE
    OBVIOUS
  <2>1. PICK m \in Missing : \A l \in Missing : m <= l
    BY LeastNumber
  <2>2. m \in Nat /\ m # 0 /\ ~Exists(m)
    BY <1>1, <2>1
  <2>3. m - 1 \in Nat /\ m - 1 + 1 = m /\ ~(m <= m - 1)
    BY <2>2
  <2>4. Exists(m - 1)
    BY <2>1, <2>3
  <2> QED
    BY <1>2, <2>2, <2>3, <2>4
<1> QED
  BY <1>3 DEF Exists

\* Its values, one turn of the loop after the other.
LEMMA LoopingRuns ==
  ASSUME NEW loop, NEW s, NEW base, NEW list, NEW n \in Nat, NEW iter,
         Looping(iter, loop, s, base, list, 1 .. n)
  PROVE  \E a : Turns(a, loop, s, base, list, n) /\ a[n] = iter[1 .. n]
<1>1. \A t \in SUBSET (1 .. n) :
        iter[t] = IF t = {} THEN base ELSE LoopStep(loop, s, iter[t \ {Max(t)}], list[Max(t)])
  <2>1. Places(iter, loop, s, base, list, n)
    BY LoopingAt
  <2> QED
    BY <2>1 DEF Places
<1> DEFINE a == [m \in 0 .. n |-> iter[1 .. m]]
<1>2. a[0] = base /\ a[n] = iter[1 .. n]
  <2>1. 1 .. 0 = {} /\ 0 \in 0 .. n /\ n \in 0 .. n
    OBVIOUS
  <2> QED
    BY <1>1, <2>1
<1>3. ASSUME NEW m \in 1 .. n
      PROVE  a[m] = LoopStep(loop, s, a[m - 1], list[m])
  <2>1. m \in 0 .. n /\ m - 1 \in 0 .. n /\ m \in Nat /\ m \in 1 .. m
    OBVIOUS
  <2>2. 1 .. m \in SUBSET (1 .. n) /\ 1 .. m # {}
    <3> HIDE DEF a
    <3>1. \A l \in 1 .. m : l \in 1 .. n
      OBVIOUS
    <3> QED
      BY <2>1, <3>1
  <2>3. Max(1 .. m) = m
    BY <2>1, MaxOf
  <2>4. (1 .. m) \ {m} = 1 .. m - 1
    OBVIOUS
  <2>5. a[m] = iter[1 .. m] /\ a[m - 1] = iter[1 .. m - 1]
    BY <2>1
  <2> HIDE DEF a
  <2> QED
    BY <1>1, <2>2, <2>3, <2>4, <2>5
<1> HIDE DEF a
<1> QED
  BY <1>2, <1>3 DEF Turns

\* The targets of a route are taken one by one.
LEMMA TargetsRun ==
  ASSUME NEW base, NEW list, NEW n \in Nat, DOMAIN list = 1 .. n
  PROVE  \E a : /\ a[0] = base
                /\ \A m \in 1 .. n : a[m] = WithNew(a[m - 1], list[m])
                /\ a[n] = FoldLeft(WithNew, base, list)
<1> DEFINE iter == CHOOSE it : LoopingTargets(it, base, list, 1 .. n)
<1>1. LoopingTargets(iter, base, list, 1 .. n)
  <2>1. \E it : Looping(it, "targets", 0, base, list, 1 .. n)
    BY LoopingExists
  <2>2. \E it : LoopingTargets(it, base, list, 1 .. n)
    BY <2>1, LoopingIs
  <2> QED
    BY <2>2
<1>2. FoldLeft(WithNew, base, list) = iter[1 .. n]
  BY TargetsAreFolded
<1> HIDE DEF iter
<1>3. Looping(iter, "targets", 0, base, list, 1 .. n)
  BY <1>1, LoopingIs
<1>4. PICK a : Turns(a, "targets", 0, base, list, n) /\ a[n] = iter[1 .. n]
  BY <1>3, LoopingRuns
<1>5. \A m \in 1 .. n : a[m] = WithNew(a[m - 1], list[m])
  BY <1>4 DEF LoopStep, Turns
<1> QED
  BY <1>2, <1>4, <1>5 DEF Turns

\* And the routes.
LEMMA RoutesRun ==
  ASSUME NEW s, NEW n \in Nat, DOMAIN Plan = 1 .. n
  PROVE  \E a : /\ a[0] = <<>>
                /\ \A m \in 1 .. n : a[m] = RouteStep(s, a[m - 1], Plan[m])
                /\ a[n] = MatchTargetIds(s)
<1> DEFINE iter == CHOOSE it : LoopingRoutes(it, s, <<>>, Plan, 1 .. n)
<1>1. LoopingRoutes(iter, s, <<>>, Plan, 1 .. n)
  <2>1. \E it : Looping(it, "routes", s, <<>>, Plan, 1 .. n)
    BY LoopingExists
  <2>2. \E it : LoopingRoutes(it, s, <<>>, Plan, 1 .. n)
    BY <2>1, LoopingIs
  <2> QED
    BY <2>2
<1>2. MatchTargetIds(s) = iter[1 .. n]
  BY RoutesAreFolded
<1> HIDE DEF iter
<1>3. Looping(iter, "routes", s, <<>>, Plan, 1 .. n)
  BY <1>1, LoopingIs
<1>4. PICK a : Turns(a, "routes", s, <<>>, Plan, n) /\ a[n] = iter[1 .. n]
  BY <1>3, LoopingRuns
<1>5. \A m \in 1 .. n : a[m] = RouteStep(s, a[m - 1], Plan[m])
  BY <1>4 DEF LoopStep, Turns
<1> QED
  BY <1>2, <1>4, <1>5 DEF Turns

-----------------------------------------------------------------------------
(* What match_target_ids returns.                                          *)

\* The list so far, of what is named at the places P.
Ids == {IdAt(p) : p \in Nat \X Nat}

Lists(ids, P) == ids \in Seq(Ids) /\ InOrder(ids, P)

\* A target named at a later place is listed last, unless it is there.
LEMMA WithNewLists ==
  ASSUME NEW P \in SUBSET (Nat \X Nat), NEW p \in Nat \X Nat, NEW ids,
         Lists(ids, P), \A q \in P : Before(q, p)
  PROVE  Lists(WithNew(ids, IdAt(p)), P \cup {p})
<1> DEFINE x == IdAt(p)
           n == Len(ids)
           Q == P \cup {p}
<1>1. /\ ids \in Seq(Ids) /\ x \in Ids
      /\ n \in Nat /\ DOMAIN ids = 1 .. n
  BY DEF Lists, Ids
<1>2. {IdAt(q) : q \in Q} = {IdAt(q) : q \in P} \cup {x}
  OBVIOUS
<1>3. {ids[a] : a \in 1 .. n} = {IdAt(q) : q \in P}
  BY <1>1 DEF Lists, InOrder, ToSet
<1>4. ASSUME NEW a \in 1 .. n, NEW b \in 1 .. n, a < b
      PROVE  \E q \in P : /\ IdAt(q) = ids[a]
                          /\ \A r \in P : IdAt(r) = ids[b] => Before(q, r)
  BY <1>1, <1>4 DEF Lists, InOrder
<1> HIDE DEF x
<1>5. CASE \E a \in DOMAIN ids : ids[a] = x
  <2>1. WithNew(ids, x) = ids
    BY <1>5 DEF WithNew
  <2>2. x \in {IdAt(q) : q \in P}
    BY <1>1, <1>3, <1>5
  <2>3. ToSet(ids) = {IdAt(q) : q \in Q}
    BY <1>1, <1>2, <1>3, <2>2 DEF ToSet
  <2>4. ASSUME NEW a \in 1 .. n, NEW b \in 1 .. n, a < b
        PROVE  \E q \in Q : /\ IdAt(q) = ids[a]
                            /\ \A r \in Q : IdAt(r) = ids[b] => Before(q, r)
    <3>1. PICK q \in P : /\ IdAt(q) = ids[a]
                         /\ \A r \in P : IdAt(r) = ids[b] => Before(q, r)
      BY <1>4, <2>4
    <3>2. Before(q, p) /\ q \in Q
      OBVIOUS
    <3> QED
      BY <3>1, <3>2
  <2> QED
    BY <1>1, <2>1, <2>3, <2>4 DEF Lists, InOrder, x
<1>6. CASE ~\E a \in DOMAIN ids : ids[a] = x
  <2> DEFINE new == WithNew(ids, x)
  <2>1. new = Append(ids, x)
    BY <1>6 DEF WithNew
  <2>2. /\ new \in Seq(Ids)
        /\ DOMAIN new = 1 .. n + 1
        /\ \A a \in 1 .. n : new[a] = ids[a]
        /\ new[n + 1] = x
    <3>1. Append(ids, x) \in Seq(Ids) /\ Len(Append(ids, x)) = n + 1
          /\ \A a \in 1 .. n : Append(ids, x)[a] = ids[a]
          /\ Append(ids, x)[n + 1] = x
      BY <1>1, AppendProperties
    <3>2. DOMAIN Append(ids, x) = 1 .. n + 1
      BY <3>1
    <3> QED
      BY <2>1, <3>1, <3>2
  <2> HIDE DEF new
  <2>3. ToSet(new) = {IdAt(q) : q \in Q}
    <3>1. \A a \in 1 .. n + 1 : a \in 1 .. n \/ a = n + 1
      BY <1>1
    <3>2. {new[a] : a \in 1 .. n + 1} = {ids[a] : a \in 1 .. n} \cup {x}
      <4>1. \A a \in 1 .. n : a \in 1 .. n + 1
        BY <1>1
      <4>2. n + 1 \in 1 .. n + 1
        BY <1>1
      <4> QED
        BY <2>2, <3>1, <4>1, <4>2
    <3> QED
      BY <1>2, <1>3, <2>2, <3>2 DEF ToSet
  <2>4. \A r \in P : IdAt(r) # x
    <3>1. x \notin {ids[a] : a \in 1 .. n}
      BY <1>1, <1>6
    <3> QED
      BY <1>3, <3>1
  <2>5. ASSUME NEW a \in 1 .. n + 1, NEW b \in 1 .. n + 1, a < b
        PROVE  \E q \in Q : /\ IdAt(q) = new[a]
                            /\ \A r \in Q : IdAt(r) = new[b] => Before(q, r)
    <3>1. a \in 1 .. n /\ new[a] = ids[a]
      BY <1>1, <2>2, <2>5
    <3>2. CASE b = n + 1
      <4>1. PICK q \in P : IdAt(q) = ids[a]
        BY <1>3, <3>1
      <4>2. \A r \in Q : IdAt(r) = x => r = p
        BY <2>4
      <4> QED
        BY <2>2, <3>1, <3>2, <4>1, <4>2
    <3>3. CASE b # n + 1
      <4>1. b \in 1 .. n /\ new[b] = ids[b]
        BY <1>1, <2>2, <3>3
      <4>2. PICK q \in P : /\ IdAt(q) = ids[a]
                           /\ \A r \in P : IdAt(r) = ids[b] => Before(q, r)
        BY <1>4, <2>5, <3>1, <4>1
      <4>3. \A r \in Q : IdAt(r) = ids[b] => Before(q, r)
        BY <4>2
      <4> QED
        BY <3>1, <4>1, <4>2, <4>3
    <3> QED
      BY <3>2, <3>3
  <2>6. InOrder(new, Q)
    BY <2>2, <2>3, <2>5 DEF InOrder
  <2> QED
    BY <2>2, <2>6 DEF Lists, new, x
<1> QED
  BY <1>5, <1>6

\* The routes of a section are a list, and each has a list of targets.
RoutesTyped ==
  /\ routes \in Seq(ToSet(routes))
  /\ \A i \in DOMAIN routes : routes[i].to \in Seq(ToSet(routes[i].to))

\* The places of the plan are those of the routes and their targets.
LEMMA RoutesShape ==
  ASSUME RoutesTyped
  PROVE  /\ Len(routes) \in Nat /\ DOMAIN routes = 1 .. Len(routes)
         /\ DOMAIN Plan = 1 .. Len(routes)
         /\ \A i \in 1 .. Len(routes) :
              /\ Len(routes[i].to) \in Nat
              /\ DOMAIN routes[i].to = 1 .. Len(routes[i].to)
              /\ DOMAIN Plan[i].targets = 1 .. Len(routes[i].to)
              /\ \A j \in 1 .. Len(routes[i].to) : Plan[i].targets[j] = IdAt(<<i, j>>)
<1>1. Len(routes) \in Nat /\ DOMAIN routes = 1 .. Len(routes)
  BY DEF RoutesTyped
<1>2. DOMAIN Plan = 1 .. Len(routes)
  BY <1>1 DEF Plan
<1>3. ASSUME NEW i \in 1 .. Len(routes)
      PROVE  /\ Len(routes[i].to) \in Nat
             /\ DOMAIN routes[i].to = 1 .. Len(routes[i].to)
             /\ DOMAIN Plan[i].targets = 1 .. Len(routes[i].to)
             /\ \A j \in 1 .. Len(routes[i].to) : Plan[i].targets[j] = IdAt(<<i, j>>)
  <2>1. Len(routes[i].to) \in Nat /\ DOMAIN routes[i].to = 1 .. Len(routes[i].to)
    <3>1. routes[i].to \in Seq(ToSet(routes[i].to))
      BY <1>1 DEF RoutesTyped
    <3> QED
      BY <3>1
  <2>2. Plan[i].targets = [j \in DOMAIN routes[i].to |-> TargetId[routes[i].to[j]]]
    BY <1>1 DEF Plan
  <2> QED
    BY <2>1, <2>2 DEF IdAt
<1> QED
  BY <1>1, <1>2, <1>3

\* The places of s up to target j of route i.
Upto(s, i, j) == {p \in Named(s) : p[1] < i \/ (p[1] = i /\ p[2] <= j)}

\* Named, place by place.
LEMMA NamedAt ==
  ASSUME RoutesTyped, NEW s
  PROVE  /\ Named(s) \subseteq Nat \X Nat
         /\ \A p \in Named(s) : /\ p = <<p[1], p[2]>>
                                /\ p[1] \in Matching(s)
                                /\ p[1] \in 1 .. Len(routes)
                                /\ p[2] \in 1 .. Len(routes[p[1]].to)
         /\ \A i \in Matching(s) : \A j \in 1 .. Len(routes[i].to) : <<i, j>> \in Named(s)
<1>1. \A i \in Matching(s) : i \in 1 .. Len(routes) /\ DOMAIN routes[i].to = 1 .. Len(routes[i].to)
  BY RoutesShape DEF Matching
<1>2. ASSUME NEW p \in Named(s)
      PROVE  /\ p = <<p[1], p[2]>>
             /\ p[1] \in Matching(s)
             /\ p[1] \in 1 .. Len(routes)
             /\ p[2] \in 1 .. Len(routes[p[1]].to)
             /\ p \in Nat \X Nat
  <2>1. PICK i \in Matching(s) : \E j \in DOMAIN routes[i].to : p = <<i, j>>
    BY DEF Named
  <2>2. PICK j \in DOMAIN routes[i].to : p = <<i, j>>
    BY <2>1
  <2>3. i \in 1 .. Len(routes) /\ j \in 1 .. Len(routes[i].to)
    BY <1>1
  <2>4. i \in Nat /\ j \in Nat
    BY <2>3, RoutesShape
  <2> QED
    BY <2>2, <2>3, <2>4
<1>3. ASSUME NEW i \in Matching(s), NEW j \in 1 .. Len(routes[i].to)
      PROVE  <<i, j>> \in Named(s)
  BY <1>1 DEF Named
<1> QED
  BY <1>2, <1>3

\* A matching route adds its targets, one place after the other.
LEMMA RouteAdds ==
  ASSUME RoutesTyped, NEW s, NEW i \in Matching(s), NEW ids, Lists(ids, Upto(s, i, 0))
  PROVE  Lists(FoldLeft(WithNew, ids, Plan[i].targets), Upto(s, i, Len(routes[i].to)))
<1> DEFINE n == Len(routes[i].to)
           list == Plan[i].targets
<1>1. /\ i \in 1 .. Len(routes) /\ i \in Nat
      /\ n \in Nat /\ DOMAIN list = 1 .. n
      /\ \A j \in 1 .. n : list[j] = IdAt(<<i, j>>)
  BY RoutesShape DEF Matching
<1>2. PICK a : /\ a[0] = ids
               /\ \A j \in 1 .. n : a[j] = WithNew(a[j - 1], list[j])
               /\ a[n] = FoldLeft(WithNew, ids, list)
  BY <1>1, TargetsRun
<1> DEFINE Bad == {j \in 0 .. n : ~Lists(a[j], Upto(s, i, j))}
<1>3. ASSUME NEW j \in 1 .. n, Lists(a[j - 1], Upto(s, i, j - 1))
      PROVE  Lists(a[j], Upto(s, i, j))
  <2> DEFINE P == Upto(s, i, j - 1)
             p == <<i, j>>
  <2>1. p \in Named(s) /\ p \in Nat \X Nat /\ p[1] = i /\ p[2] = j
    BY <1>1, NamedAt
  <2>2. P \in SUBSET (Nat \X Nat)
    BY NamedAt DEF Upto
  <2>3. \A q \in P : Before(q, p)
    <3> TAKE q \in P
    <3>1. q[1] \in Nat /\ q[2] \in Nat /\ (q[1] < i \/ (q[1] = i /\ q[2] <= j - 1))
      BY <2>2 DEF Upto
    <3> QED
      BY <2>1, <3>1 DEF Before
  <2>4. Upto(s, i, j) = P \cup {p}
    <3>1. ASSUME NEW q \in Named(s)
          PROVE  q \in Upto(s, i, j) <=> q \in P \/ q = p
      <4>1. q = <<q[1], q[2]>> /\ q[1] \in Nat /\ q[2] \in Nat
        BY NamedAt
      <4>2. q[1] = i /\ q[2] <= j <=> (q[1] = i /\ q[2] <= j - 1) \/ (q[1] = i /\ q[2] = j)
        BY <4>1
      <4>3. q = p <=> q[1] = i /\ q[2] = j
        BY <4>1
      <4> QED
        BY <1>1, <4>1, <4>2, <4>3 DEF Upto
    <3>2. Upto(s, i, j) \subseteq Named(s) /\ P \subseteq Named(s)
      BY DEF Upto
    <3> QED
      BY <2>1, <3>1, <3>2
  <2>5. a[j] = WithNew(a[j - 1], IdAt(p))
    BY <1>1, <1>2
  <2> HIDE DEF P, p
  <2>6. Lists(a[j - 1], P)
    BY <1>3 DEF P
  <2> QED
    BY <2>1, <2>2, <2>3, <2>4, <2>5, <2>6, WithNewLists
<1>4. Bad = {}
  <2> SUFFICES ASSUME Bad # {} PROVE FALSE
    OBVIOUS
  <2>1. PICK j \in Bad : \A l \in Bad : j <= l
    <3>1. Bad \subseteq Nat
      OBVIOUS
    <3> QED
      BY <3>1, LeastNumber
  <2>2. j \in 0 .. n /\ ~Lists(a[j], Upto(s, i, j))
    OBVIOUS
  <2>3. j # 0
    BY <1>2, <2>2
  <2>4. j \in 1 .. n /\ j - 1 \in 0 .. n /\ ~(j <= j - 1)
    BY <1>1, <2>2, <2>3
  <2> QED
    BY <1>3, <2>1, <2>2, <2>4
<1>5. n \in 0 .. n
  BY <1>1
<1> QED
  BY <1>2, <1>4, <1>5

\* So the whole list is that of all places.
LEMMA MatchLists ==
  ASSUME RoutesTyped, NEW s
  PROVE  InOrder(MatchTargetIds(s), Named(s))
<1> DEFINE n == Len(routes)
           Done(i) == {p \in Named(s) : p[1] <= i}
<1>1. n \in Nat /\ DOMAIN routes = 1 .. n /\ DOMAIN Plan = 1 .. n
  BY RoutesShape
<1>2. PICK a : /\ a[0] = <<>>
               /\ \A i \in 1 .. n : a[i] = RouteStep(s, a[i - 1], Plan[i])
               /\ a[n] = MatchTargetIds(s)
  BY <1>1, RoutesRun
<1>3. \A p \in Named(s) : /\ p[1] \in Nat /\ p[2] \in Nat
                          /\ p[1] \in Matching(s) /\ p[1] \in 1 .. n
                          /\ 1 <= p[2] /\ p[2] <= Len(routes[p[1]].to)
  <2> TAKE p \in Named(s)
  <2>1. p[1] \in Matching(s) /\ p[1] \in 1 .. n /\ p[2] \in 1 .. Len(routes[p[1]].to)
    BY NamedAt
  <2>2. Len(routes[p[1]].to) \in Nat
    BY <2>1, RoutesShape
  <2> QED
    BY <2>1, <2>2
<1> DEFINE Bad == {i \in 0 .. n : ~Lists(a[i], Done(i))}
<1>4. Lists(a[0], Done(0))
  <2>1. Done(0) = {}
    BY <1>3
  <2>2. Lists(<<>>, {})
    <3>1. <<>> \in Seq(Ids) /\ ToSet(<<>>) = {} /\ DOMAIN <<>> = {}
      BY DEF ToSet
    <3> QED
      BY <3>1 DEF Lists, InOrder
  <2> QED
    BY <1>2, <2>1, <2>2
<1>5. ASSUME NEW i \in 1 .. n, Lists(a[i - 1], Done(i - 1))
      PROVE  Lists(a[i], Done(i))
  <2>1. a[i] = IF s \in resolved[routes[i].zone]
               THEN FoldLeft(WithNew, a[i - 1], Plan[i].targets) ELSE a[i - 1]
    <3>1. Plan[i].sources = resolved[routes[i].zone]
      BY <1>1 DEF Plan
    <3> QED
      BY <1>2, <3>1 DEF RouteStep
  <2>2. CASE s \in resolved[routes[i].zone]
    <3>1. i \in Matching(s)
      BY <1>1, <2>2 DEF Matching
    <3>2. Done(i - 1) = Upto(s, i, 0)
      BY <1>3 DEF Upto
    <3>3. Done(i) = Upto(s, i, Len(routes[i].to))
      <4>1. ASSUME NEW p \in Named(s)
            PROVE  p[1] <= i <=> p[1] < i \/ (p[1] = i /\ p[2] <= Len(routes[i].to))
        BY <1>3
      <4> QED
        BY <4>1 DEF Upto
    <3> HIDE DEF Done
    <3>4. Lists(FoldLeft(WithNew, a[i - 1], Plan[i].targets), Upto(s, i, Len(routes[i].to)))
      BY <1>5, <3>1, <3>2, RouteAdds
    <3> QED
      BY <2>1, <2>2, <3>3, <3>4
  <2>3. CASE s \notin resolved[routes[i].zone]
    <3>1. i \notin Matching(s)
      BY <2>3 DEF Matching
    <3>2. Done(i) = Done(i - 1)
      BY <1>3, <3>1
    <3> QED
      BY <1>5, <2>1, <2>3, <3>2
  <2> QED
    BY <2>2, <2>3
<1>6. Bad = {}
  <2> HIDE DEF Done
  <2> SUFFICES ASSUME Bad # {} PROVE FALSE
    OBVIOUS
  <2>1. PICK i \in Bad : \A l \in Bad : i <= l
    <3>1. Bad \subseteq Nat
      OBVIOUS
    <3> QED
      BY <3>1, LeastNumber
  <2>2. i \in 0 .. n /\ ~Lists(a[i], Done(i))
    OBVIOUS
  <2>3. i # 0
    BY <1>4, <2>2
  <2>4. i \in 1 .. n /\ i - 1 \in 0 .. n /\ ~(i <= i - 1)
    BY <1>1, <2>2, <2>3
  <2> QED
    BY <1>5, <2>1, <2>2, <2>4
<1>7. Lists(a[n], Done(n))
  <2> HIDE DEF Done
  <2>1. n \in 0 .. n
    BY <1>1
  <2> QED
    BY <1>6, <2>1
<1>8. Done(n) = Named(s)
  BY <1>3
<1> QED
  BY <1>2, <1>7, <1>8 DEF Lists

\* The routes stay those of the section.
LEMMA RoutesStay == RoutingSpec => []RoutesTyped
<1>1. RoutingInit => RoutesTyped
  BY RoutingAssumption DEF RoutingInit, RoutingAssumption, RoutesTyped
<1>2. RoutesTyped /\ [RoutingNext]_routingVars => RoutesTyped'
  <2> SUFFICES ASSUME RoutesTyped, [RoutingNext]_routingVars PROVE RoutesTyped'
    OBVIOUS
  <2>1. routes' = routes
    BY DEF RoutingNext, routingVars, Load, Ends, Begin, Known, Unknown, Circular, Enter, Return, Finish, Ended
  <2> QED
    BY <2>1 DEF RoutesTyped
<1> QED
  BY <1>1, <1>2, PTL DEF RoutingSpec

\* RoutingTable.match_target_ids of src/core/routing.py: whatever the routes and
\* their targets, the numbered targets of a source are those of its routes, each
\* once, in the order in which the routes first name them.
THEOREM TargetsAreMatched == RoutingSpec => []TargetsInOrder
<1>1. RoutesTyped => TargetsInOrder
  BY MatchLists DEF TargetsInOrder
<1> QED
  BY <1>1, RoutesStay, PTL

-----------------------------------------------------------------------------
(* The processes and their path.                                           *)

Phases == {"none", "bound", "up", "stopping", "ended", "crashed"}

\* A process begins when those before it have bound and looked at their sockets,
\* so that each takes its own for what it is.
StartsInOrder ==
  \A p, q \in Processes :
    p < q /\ process[q].phase # "none" => process[p].phase \notin {"none", "bound"}

KnowsItsSocket ==
  \A p \in Processes : process[p].phase \in {"up", "stopping"} => process[p].identity = p

PathInv ==
  /\ process \in [Processes -> [phase : Phases, identity : Processes \cup {NoSocket}]]
  /\ path \in Processes \cup {NoSocket}
  /\ StartsInOrder
  /\ KnowsItsSocket
  /\ path # NoSocket => process[path].phase # "none"
  /\ StaysReachable

LEMMA ProcessesAreNumbers ==
  Processes \subseteq Nat \ {NoSocket}
BY ControlSocketAssumption DEF ControlSocketAssumption, Processes, NoSocket

LEMMA InitPath ==
  ASSUME Init
  PROVE  PathInv
BY ProcessesAreNumbers
   DEF Init, PathInv, Phases, StartsInOrder, KnowsItsSocket, StaysReachable, NoSocket

\* Who does not start or stop leaves the path alone.
LEMMA PathUntouched ==
  ASSUME PathInv, UNCHANGED <<process, path>>
  PROVE  PathInv'
BY DEF PathInv, StartsInOrder, KnowsItsSocket, StaysReachable

LEMMA StepPath ==
  ASSUME PathInv, [Next]_vars
  PROVE  PathInv'
<1> USE ProcessesAreNumbers
<1>1. ASSUME NEW p \in Processes, Bind(p)
      PROVE  PathInv'
  <2>1. /\ process' = [process EXCEPT ![p].phase = "bound"] /\ path' = p
        /\ process[p].phase = "none"
        /\ \A q \in Processes : q < p => process[q].phase \notin {"none", "bound"}
    BY <1>1 DEF Bind, Becomes
  <2>2. process' \in [Processes -> [phase : Phases, identity : Processes \cup {NoSocket}]]
    BY <2>1 DEF PathInv, Phases
  <2>3. /\ process'[p].phase = "bound"
        /\ \A q \in Processes : q # p => process'[q] = process[q]
    BY <2>1 DEF PathInv
  <2>4. \A q \in Processes : q > p => process[q].phase = "none"
    BY <2>1 DEF PathInv, StartsInOrder
  <2>5. StartsInOrder' /\ KnowsItsSocket'
    BY <2>1, <2>3, <2>4 DEF PathInv, StartsInOrder, KnowsItsSocket
  <2>6. StaysReachable'
    BY <2>1, <2>3, <2>4 DEF StaysReachable
  <2> QED BY <2>1, <2>2, <2>3, <2>5, <2>6 DEF PathInv
<1>2. ASSUME NEW p \in Processes, Identify(p)
      PROVE  PathInv'
  <2>1. path = p
    BY <1>2 DEF Identify, PathInv, StaysReachable, StartsInOrder
  <2> QED BY <1>2, <2>1 DEF Identify, PathInv, Phases, StartsInOrder, KnowsItsSocket,
                            StaysReachable
<1>3. ASSUME NEW p \in Processes, StartFails(p)
      PROVE  PathInv'
  BY <1>3 DEF StartFails, Becomes, PathInv, Phases, StartsInOrder, KnowsItsSocket,
              StaysReachable
<1>4. ASSUME NEW p \in Processes, Stop(p)
      PROVE  PathInv'
  BY <1>4 DEF Stop, Becomes, PathInv, Phases, StartsInOrder, KnowsItsSocket, StaysReachable
<1>5. ASSUME NEW p \in Processes, Exit(p)
      PROVE  PathInv'
  <2>1. path' = IF path = p THEN NoSocket ELSE path
    BY <1>5 DEF Exit, Removed, PathInv, KnowsItsSocket
  <2> QED BY <1>5, <2>1 DEF Exit, Becomes, PathInv, Phases, StartsInOrder, KnowsItsSocket,
                            StaysReachable
<1>6. ASSUME NEW p \in Processes, Crash(p)
      PROVE  PathInv'
  BY <1>6 DEF Crash, Becomes, PathInv, Phases, StartsInOrder, KnowsItsSocket, StaysReachable
<1>7. ASSUME NEW l \in Commands, Serve(l)
      PROVE  PathInv'
  BY <1>7, PathUntouched DEF Serve
<1>8. ASSUME NEW o \in Operators, (\E r \in Requests(o) : Command(o, r)) \/ Learn(o) \/ Kill(o)
      PROVE  PathInv'
  BY <1>8, PathUntouched DEF Command, Learn, Kill
<1>9. CASE UNCHANGED vars
  BY <1>9, PathUntouched DEF vars
<1> QED BY <1>1, <1>2, <1>3, <1>4, <1>5, <1>6, <1>7, <1>8, <1>9 DEF Next

\* The process started last is reachable until it stops, whoever else stops or
\* crashed (_remove_matching_socket, and the identity taken in start).
THEOREM ReachableStays == Spec => []StaysReachable
<1>1. PathInv => StaysReachable
  BY DEF PathInv
<1> QED BY <1>1, InitPath, StepPath, PTL DEF Spec

-----------------------------------------------------------------------------
(* What is done and what is said.                                          *)

\* A snapshot an operator may hold of p: an earlier one, or the present one.
Shown(p, s) ==
  /\ p \in Processes
  /\ s.generation \in Nat
  /\ s.generation <= snapshot[p].generation
  /\ s.generation = snapshot[p].generation => s = snapshot[p]

\* The change told under this answer was made by p.
TrueAnswer(l, p, method, answer) ==
  /\ answer.error \notin {None, "unanswered"} => ~Made(l)
  /\ answer.error = None /\ method \in Change =>
       "status" \in DOMAIN answer /\ MadeAs(l, p, answer.status.generation)
  /\ "status" \in DOMAIN answer => Shown(p, answer.status)

Labels == Operators \X Nat

IsIssued(l) == l \in Labels /\ l[2] <= operator[l[1]].issued

HistoryInv ==
  /\ DOMAIN snapshot = Processes
  /\ applied \in [Processes -> Seq(Labels)]
  /\ snapshot = [p \in Processes |-> [generation |-> Len(applied[p]), table |-> snapshot[p].table]]
  /\ \A p \in Processes : \A n \in DOMAIN applied[p] : IsIssued(applied[p][n])
  /\ \A p, q \in Processes : \A i \in DOMAIN applied[p], j \in DOMAIN applied[q] :
       applied[p][i] = applied[q][j] => p = q /\ i = j

\* It is answered with an error whatever the snapshot is.
Hopeless(r) ==
  \/ r.cells > MaxRequestBytes
  \/ SchemaError(r) # None
  \/ r.method = "routing.replace" /\ CandidateError(r.routing) # None

ConnectionFields ==
  {"server", "request", "arrived", "read", "eof", "answer", "to", "basis"}

IsConnection(c) == DOMAIN c = ConnectionFields /\ c = [f \in ConnectionFields |-> c[f]]

\* What was sent, by whom and to whom.
Sent(c) ==
  /\ c.to \in Processes
  /\ c.request.cells \in Nat \ {0}
  /\ c.basis # Unanswered => Shown(c.basis.of, c.basis.snapshot)
  /\ \/ Hopeless(c.request)
     \/ c.request.expected = {}
     \/ c.basis # Unanswered /\ c.request.expected = {c.basis.snapshot.generation}

\* A request that was handled or answered has left the connection.
Carried(l, c) ==
  /\ c.server \in {Nobody, c.to}
  /\ c.eof \in BOOLEAN
  /\ c.arrived \in Nat /\ c.read \in Nat /\ c.read <= c.arrived
  /\ c.request.cells > MaxRequestBytes => c.read <= MaxRequestBytes
  /\ c.answer # Unanswered \/ Made(l) => c.arrived = 0

Connection(l, c) ==
  /\ IsIssued(l)
  /\ IsConnection(c)
  /\ Sent(c)
  /\ Carried(l, c)
  /\ TrueAnswer(l, c.to, c.request.method, c.answer)

ConnsInv ==
  /\ conns = [l \in DOMAIN conns |-> conns[l]]
  /\ \A l \in DOMAIN conns : Connection(l, conns[l])

IsOperator(s) ==
  /\ s = [issued |-> s.issued, asked |-> s.asked, status |-> s.status, told |-> s.told]
  /\ s.issued \in Nat
  /\ s.status # Unanswered => Shown(s.status.of, s.status.snapshot)

\* Who waits for an answer has its connection open.
Waits(o) ==
  operator[o].asked # Nothing =>
    /\ Label(o) \in DOMAIN conns
    /\ ~conns[Label(o)].eof
    /\ operator[o].told = Unanswered

\* What was told is true and stays true: a refused request is not handled later.
ToldTruly(o) ==
  operator[o].told # Unanswered =>
    LET answer == operator[o].told.answer
    IN  /\ answer.error \notin {None, "unanswered"} =>
             /\ ~Made(Label(o))
             /\ Label(o) \in DOMAIN conns => conns[Label(o)].arrived = 0
        /\ answer.error = None /\ operator[o].told.method \in Change =>
             \E p \in Processes : MadeAs(Label(o), p, answer.status.generation)

OperatorsInv ==
  /\ operator = [o \in Operators |-> operator[o]]
  /\ \A o \in Operators : IsOperator(operator[o]) /\ Waits(o) /\ ToldTruly(o)

CommandsInv == HistoryInv /\ ConnsInv /\ OperatorsInv

-----------------------------------------------------------------------------
(* Requests and connections.                                               *)

\* Handling changes the snapshot exactly when it answers a change without an
\* error, and then to the next generation, from the one expected.
LEMMA Outcome ==
  ASSUME NEW r, NEW s, s.generation \in Nat
  PROVE  /\ Answer(r, s).error = Fails(r, s)
         /\ "status" \in DOMAIN Answer(r, s) => Answer(r, s).status = After(r, s)
         /\ After(r, s) # s =>
              /\ \E t : After(r, s) = Replaced(t, s)
              /\ Fails(r, s) = None
              /\ r.method \in Change
              /\ SchemaError(r) = None
              /\ r.method = "routing.replace" => CandidateError(r.routing) = None
              /\ r.expected \in {{}, {s.generation}}
         /\ Fails(r, s) = None /\ r.method \in Change =>
              /\ \E t : After(r, s) = Replaced(t, s)
              /\ "status" \in DOMAIN Answer(r, s)
<1>1. After(r, s) # s =>
        /\ \E t : After(r, s) = Replaced(t, s)
        /\ Fails(r, s) = None
        /\ r.method \notin ReadOnly
  BY DEF After
<1>2. Fails(r, s) = None =>
        /\ SchemaError(r) = None
        /\ r.method = "routing.replace" => CandidateError(r.routing) = None
        /\ r.method \notin ReadOnly => r.expected \in {{}, {s.generation}}
  BY DEF Fails, Stale, None
<1>3. SchemaError(r) = None => r.method \in Methods
  BY DEF SchemaError, None
<1>4. Fails(r, s) = None /\ r.method \in Change =>
        /\ \E t : After(r, s) = Replaced(t, s)
        /\ "status" \in DOMAIN Answer(r, s)
  BY DEF After, Answer, Change, ReadOnly, Statistics
<1>5. Answer(r, s).error = Fails(r, s)
  BY DEF Answer
<1>6. "status" \in DOMAIN Answer(r, s) => Answer(r, s).status = After(r, s)
  BY DEF Answer
<1> QED BY <1>1, <1>2, <1>3, <1>4, <1>5, <1>6 DEF Methods, Change

LEMMA OpenKeeps ==
  ASSUME NEW c
  PROVE  /\ Open(c) = [l \in DOMAIN Open(c) |-> Open(c)[l]]
         /\ DOMAIN Open(c) \subseteq DOMAIN c
         /\ \A l \in DOMAIN Open(c) : Open(c)[l] = c[l]
         /\ \A l \in DOMAIN c : ~c[l].eof => l \in DOMAIN Open(c)
BY DEF Open

LEMMA Fresh ==
  /\ Unanswered.error = "unanswered"
  /\ "status" \notin DOMAIN Unanswered
  /\ None # "unanswered"
BY DEF Unanswered, None

-----------------------------------------------------------------------------
(* Steps that handle nothing.                                              *)

\* What is said of labels and snapshots does not change with the rest.
LEMMA HistoryUntouched ==
  ASSUME UNCHANGED <<snapshot, applied>>
  PROVE  /\ \A l : Made(l)' = Made(l)
         /\ \A l, p, n : MadeAs(l, p, n)' = MadeAs(l, p, n)
         /\ \A p, s : Shown(p, s)' = Shown(p, s)
         /\ \A c : Sent(c)' = Sent(c)
         /\ \A l, c : Carried(l, c)' = Carried(l, c)
         /\ \A l, p, m, a : TrueAnswer(l, p, m, a)' = TrueAnswer(l, p, m, a)
BY DEF Made, MadeAs, Shown, Sent, Carried, TrueAnswer, Hopeless

LEMMA ConnectionUntouched ==
  ASSUME UNCHANGED <<snapshot, applied>>, \A l : IsIssued(l) => IsIssued(l)'
  PROVE  \A l, c : Connection(l, c) => Connection(l, c)'
<1> TAKE l, c
<1>1. Sent(c)' = Sent(c) /\ Carried(l, c)' = Carried(l, c)
  BY HistoryUntouched
<1>2. TrueAnswer(l, c.to, c.request.method, c.answer)'
        = TrueAnswer(l, c.to, c.request.method, c.answer)
  BY HistoryUntouched
<1> QED BY <1>1, <1>2 DEF Connection

\* A connection that loses its server, its answer or what has not been read.
LEMMA ConnectionFades ==
  ASSUME NEW l, NEW c, NEW d, Connection(l, c), IsConnection(d),
         d.to = c.to, d.request = c.request, d.basis = c.basis,
         d.server \in {Nobody, c.server}, d.eof \in BOOLEAN,
         d.answer \in {Unanswered, c.answer},
         d.read \in Nat, d.arrived \in Nat, d.read <= d.arrived, d.arrived <= c.arrived,
         c.request.cells > MaxRequestBytes => d.read <= MaxRequestBytes
  PROVE  Connection(l, d)
<1>1. Sent(d)
  BY DEF Connection, Sent
<1>2. Carried(l, d)
  BY DEF Connection, Carried
<1>3. TrueAnswer(l, d.to, d.request.method, d.answer)
  BY Fresh DEF Connection, TrueAnswer
<1> QED BY <1>1, <1>2, <1>3 DEF Connection

LEMMA HistoryKept ==
  ASSUME HistoryInv, UNCHANGED <<snapshot, applied>>,
         \A o \in Operators : operator[o].issued \in Nat,
         \A o \in Operators :
           operator'[o].issued \in Nat /\ operator'[o].issued >= operator[o].issued
  PROVE  HistoryInv' /\ \A l : IsIssued(l) => IsIssued(l)'
<1>1. \A l : IsIssued(l) => IsIssued(l)'
  BY DEF IsIssued, Labels
<1> QED BY <1>1 DEF HistoryInv

\* A step of a server or of its handlers that changes no snapshot: connections
\* fade or are answered, and none that is open at its other end is forgotten.
LEMMA ConnectionsStep ==
  ASSUME CommandsInv, UNCHANGED <<snapshot, applied, operator>>,
         conns' = [l \in DOMAIN conns' |-> conns'[l]],
         DOMAIN conns' \subseteq DOMAIN conns,
         \A l \in DOMAIN conns : ~conns[l].eof => l \in DOMAIN conns',
         \A l \in DOMAIN conns' :
           /\ Connection(l, conns'[l])
           /\ conns'[l].eof = conns[l].eof
           /\ conns'[l].arrived <= conns[l].arrived
  PROVE  CommandsInv'
<1>1. HistoryInv' /\ \A l : IsIssued(l) => IsIssued(l)'
  BY HistoryKept DEF CommandsInv, OperatorsInv, IsOperator
<1>2. ConnsInv'
  <2>1. \A l, c : Connection(l, c) => Connection(l, c)'
    BY <1>1, ConnectionUntouched
  <2>2. \A l \in DOMAIN conns' : Connection(l, conns[l])'
    BY <2>1
  <2> QED BY <2>2 DEF ConnsInv
<1>3. ASSUME NEW o \in Operators
      PROVE  IsOperator(operator[o])' /\ Waits(o)' /\ ToldTruly(o)'
  <2>1. IsOperator(operator[o]) /\ Waits(o) /\ ToldTruly(o)
    BY DEF CommandsInv, OperatorsInv
  <2>2. Label(o)' = Label(o)
    BY DEF Label
  <2>3. IsOperator(operator[o])'
    BY <2>1, HistoryUntouched DEF IsOperator
  <2>4. Waits(o)'
    BY <2>1, <2>2 DEF Waits
  <2>5. Label(o) \in DOMAIN conns' /\ conns[Label(o)].arrived = 0 => conns'[Label(o)].arrived = 0
    BY DEF CommandsInv, ConnsInv, Connection, Carried
  <2>6. ToldTruly(o)'
    BY <2>1, <2>2, <2>5, HistoryUntouched DEF ToldTruly
  <2> QED BY <2>3, <2>4, <2>6
<1> QED BY <1>1, <1>2, <1>3 DEF CommandsInv, OperatorsInv

LEMMA ConnectionCut ==
  ASSUME NEW l, NEW c, Connection(l, c), NEW answer, answer \in {Unanswered, c.answer}
  PROVE  LET d == [c EXCEPT !.server = Nobody, !.answer = answer]
         IN  Connection(l, d) /\ d.eof = c.eof /\ d.arrived = c.arrived
<1> DEFINE d == [c EXCEPT !.server = Nobody, !.answer = answer]
<1>1. IsConnection(c)
  BY DEF Connection
<1>2. /\ IsConnection(d)
      /\ d.server = Nobody /\ d.answer = answer
      /\ d.to = c.to /\ d.request = c.request /\ d.basis = c.basis
      /\ d.eof = c.eof /\ d.read = c.read /\ d.arrived = c.arrived
  BY <1>1 DEF IsConnection, ConnectionFields
<1> HIDE DEF d
<1>3. /\ c.eof \in BOOLEAN /\ c.read \in Nat /\ c.arrived \in Nat
      /\ c.read <= c.arrived /\ c.arrived <= c.arrived
      /\ c.request.cells > MaxRequestBytes => c.read <= MaxRequestBytes
  BY DEF Connection, Carried
<1>4. Connection(l, d)
  BY <1>2, <1>3, ConnectionFades
<1> QED BY <1>2, <1>4 DEF d

\* A process ends, or closes: connections are cut.
LEMMA CutOffStep ==
  ASSUME CommandsInv, UNCHANGED <<snapshot, applied, operator>>, NEW cut, CutOff(cut)
  PROVE  CommandsInv'
<1>1. PICK lost \in SUBSET cut :
        conns' = Open([l \in DOMAIN conns |->
          IF l \in cut THEN [conns[l] EXCEPT !.server = Nobody,
                                             !.answer = IF l \in lost THEN Unanswered ELSE @]
          ELSE conns[l]])
  BY DEF CutOff
<1> DEFINE f == [l \in DOMAIN conns |->
          IF l \in cut THEN [conns[l] EXCEPT !.server = Nobody,
                                             !.answer = IF l \in lost THEN Unanswered ELSE @]
          ELSE conns[l]]
<1>2. ASSUME NEW l \in DOMAIN conns
      PROVE  Connection(l, f[l]) /\ f[l].eof = conns[l].eof /\ f[l].arrived = conns[l].arrived
  <2>1. Connection(l, conns[l])
    BY DEF CommandsInv, ConnsInv
  <2>2. CASE l \in cut
    <3> DEFINE answer == IF l \in lost THEN Unanswered ELSE conns[l].answer
    <3>1. f[l] = [conns[l] EXCEPT !.server = Nobody, !.answer = answer]
      BY <2>2
    <3>2. answer \in {Unanswered, conns[l].answer}
      OBVIOUS
    <3> HIDE DEF answer, f
    <3>3. LET d == [conns[l] EXCEPT !.server = Nobody, !.answer = answer]
          IN  Connection(l, d) /\ d.eof = conns[l].eof /\ d.arrived = conns[l].arrived
      BY <2>1, <3>2, ConnectionCut
    <3> QED BY <3>1, <3>3
  <2>3. CASE l \notin cut
    BY <2>1, <2>3
  <2> QED BY <2>2, <2>3
<1>3. DOMAIN f = DOMAIN conns
  OBVIOUS
<1>4. conns' = Open(f)
  BY <1>1
<1> HIDE DEF f
<1>5. /\ conns' = [l \in DOMAIN conns' |-> conns'[l]]
      /\ DOMAIN conns' \subseteq DOMAIN conns
      /\ \A l \in DOMAIN conns' : conns'[l] = f[l]
      /\ \A l \in DOMAIN conns : ~f[l].eof => l \in DOMAIN conns'
  BY <1>3, <1>4, OpenKeeps
<1>6. \A l \in DOMAIN conns : conns[l].arrived \in Nat
  BY DEF CommandsInv, ConnsInv, Connection, Carried
<1> QED BY <1>2, <1>5, <1>6, ConnectionsStep

-----------------------------------------------------------------------------
(* Answers.                                                                *)

Answered(c, answer, server) ==
  [c EXCEPT !.answer = IF c.eof THEN Unanswered ELSE answer,
            !.arrived = 0, !.read = 0, !.server = server]

LEMMA ConnectionAnswered ==
  ASSUME NEW c, IsConnection(c), NEW answer, NEW server
  PROVE  LET d == Answered(c, answer, server)
         IN  /\ IsConnection(d)
             /\ d.answer = (IF c.eof THEN Unanswered ELSE answer)
             /\ d.server = server /\ d.read = 0 /\ d.arrived = 0
             /\ d.to = c.to /\ d.request = c.request /\ d.basis = c.basis /\ d.eof = c.eof
BY DEF Answered, IsConnection, ConnectionFields

\* The connection that is answered, and the others.
LEMMA SaysOne ==
  ASSUME conns = [k \in DOMAIN conns |-> conns[k]], NEW l \in DOMAIN conns,
         NEW answer, NEW server, Says(l, answer, server), IsConnection(conns[l])
  PROVE  /\ conns' = [k \in DOMAIN conns' |-> conns'[k]]
         /\ DOMAIN conns' \subseteq DOMAIN conns
         /\ \A k \in DOMAIN conns : ~conns[k].eof => k \in DOMAIN conns'
         /\ \A k \in DOMAIN conns' : k # l => conns'[k] = conns[k]
         /\ l \in DOMAIN conns' => conns'[l] = Answered(conns[l], answer, server)
<1> DEFINE d == Answered(conns[l], answer, server)
           f == [conns EXCEPT ![l] = d]
<1>1. [conns EXCEPT ![l].answer = IF conns[l].eof THEN Unanswered ELSE answer,
                    ![l].arrived = 0, ![l].read = 0, ![l].server = server] = f
  BY DEF IsConnection, ConnectionFields, Answered
<1>2. conns' = Open(f)
  BY <1>1 DEF Says
<1>3. d.eof = conns[l].eof
  BY ConnectionAnswered
<1> HIDE DEF d
<1>4. DOMAIN f = DOMAIN conns /\ f[l] = d /\ \A k \in DOMAIN conns : k # l => f[k] = conns[k]
  OBVIOUS
<1> HIDE DEF f
<1>5. \A k \in DOMAIN conns : f[k].eof = conns[k].eof
  BY <1>3, <1>4
<1>6. /\ Open(f) = [k \in DOMAIN Open(f) |-> Open(f)[k]]
      /\ DOMAIN Open(f) \subseteq DOMAIN conns
      /\ \A k \in DOMAIN Open(f) : Open(f)[k] = f[k]
      /\ \A k \in DOMAIN conns : ~f[k].eof => k \in DOMAIN Open(f)
  BY <1>4, OpenKeeps
<1>7. \A k \in DOMAIN conns' : k # l => conns'[k] = conns[k]
  BY <1>2, <1>4, <1>6
<1>8. l \in DOMAIN conns' => conns'[l] = d
  BY <1>2, <1>4, <1>6
<1> QED BY <1>2, <1>5, <1>6, <1>7, <1>8 DEF d

\* An answer that tells of no change, or of none there was.
LEMMA AnswerStep ==
  ASSUME CommandsInv, UNCHANGED <<snapshot, applied, operator>>,
         NEW l \in DOMAIN conns, NEW answer, NEW server, server \in {Nobody, conns[l].to},
         Says(l, answer, server),
         TrueAnswer(l, conns[l].to, conns[l].request.method, answer)
  PROVE  CommandsInv'
<1> DEFINE d == Answered(conns[l], answer, server)
<1>1. \A k \in DOMAIN conns : Connection(k, conns[k]) /\ conns[k].arrived \in Nat
  BY DEF CommandsInv, ConnsInv, Connection, Carried
<1>2. IsConnection(conns[l]) /\ conns = [k \in DOMAIN conns |-> conns[k]]
  BY <1>1 DEF CommandsInv, ConnsInv, Connection
<1>3. TrueAnswer(l, conns[l].to, conns[l].request.method,
                 IF conns[l].eof THEN Unanswered ELSE answer)
  BY Fresh DEF TrueAnswer
<1>4. /\ IsConnection(d)
      /\ d.answer = (IF conns[l].eof THEN Unanswered ELSE answer)
      /\ d.server = server /\ d.read = 0 /\ d.arrived = 0
      /\ d.to = conns[l].to /\ d.request = conns[l].request /\ d.basis = conns[l].basis
      /\ d.eof = conns[l].eof
  BY <1>2, ConnectionAnswered
<1>5. /\ conns' = [k \in DOMAIN conns' |-> conns'[k]]
      /\ DOMAIN conns' \subseteq DOMAIN conns
      /\ \A k \in DOMAIN conns : ~conns[k].eof => k \in DOMAIN conns'
      /\ \A k \in DOMAIN conns' : k # l => conns'[k] = conns[k]
      /\ l \in DOMAIN conns' => conns'[l] = d
  BY <1>2, SaysOne
<1> HIDE DEF d
<1>6. Connection(l, d)
  <2>1. IsIssued(l) /\ Sent(conns[l]) /\ Carried(l, conns[l])
    BY <1>1 DEF Connection
  <2>2. Sent(d)
    BY <1>4, <2>1 DEF Sent
  <2>3. Carried(l, d)
    BY <1>4, <2>1, ControlSocketAssumption DEF Carried, ControlSocketAssumption
  <2> QED BY <1>3, <1>4, <2>1, <2>2, <2>3 DEF Connection
<1>7. \A k \in DOMAIN conns' :
        /\ Connection(k, conns'[k])
        /\ conns'[k].eof = conns[k].eof
        /\ conns'[k].arrived <= conns[k].arrived
  BY <1>1, <1>4, <1>5, <1>6
<1> QED BY <1>5, <1>7, ConnectionsStep

-----------------------------------------------------------------------------
(* Handling a request.                                                     *)

\* A change is a new generation, and the first the command makes.
LEMMA HistoryGrows ==
  ASSUME HistoryInv, NEW p \in Processes, NEW l, IsIssued(l), ~Made(l),
         NEW t, NEW s, s = Replaced(t, snapshot[p]), snapshot' = [snapshot EXCEPT ![p] = s],
         applied' = [applied EXCEPT ![p] = Append(@, l)], UNCHANGED operator
  PROVE  /\ HistoryInv'
         /\ \A q, u : Shown(q, u) => Shown(q, u)'
         /\ \A k, q, n : q \in Processes /\ MadeAs(k, q, n) => MadeAs(k, q, n)'
         /\ \A k : k # l /\ Made(k)' => Made(k)
         /\ \A k : IsIssued(k)' <=> IsIssued(k)
         /\ MadeAs(l, p, s.generation)'
         /\ Shown(p, s)'
<1>1. l \in Labels
  BY DEF IsIssued
<1>2. applied \in [Processes -> Seq(Labels)]
  BY DEF HistoryInv
<1>3. /\ applied' \in [Processes -> Seq(Labels)]
      /\ \A q \in Processes : q # p => applied'[q] = applied[q]
      /\ applied'[p] = Append(applied[p], l)
  BY <1>1, <1>2
<1>4. /\ Len(applied[p]) \in Nat
      /\ Len(applied'[p]) = Len(applied[p]) + 1
      /\ \A n \in DOMAIN applied[p] : n \in DOMAIN applied'[p] /\ applied'[p][n] = applied[p][n]
      /\ \A n \in DOMAIN applied'[p] :
           \/ n \in DOMAIN applied[p] /\ applied'[p][n] = applied[p][n]
           \/ n = Len(applied[p]) + 1 /\ applied'[p][n] = l
      /\ Len(applied[p]) + 1 \in DOMAIN applied'[p] /\ applied'[p][Len(applied[p]) + 1] = l
  <2>1. applied[p] \in Seq(Labels)
    BY <1>2
  <2> QED BY <1>1, <1>3, <2>1
<1>5. /\ DOMAIN snapshot = Processes
      /\ \A q \in Processes :
           snapshot[q] = [generation |-> Len(applied[q]), table |-> snapshot[q].table]
  BY DEF HistoryInv
<1>6. /\ DOMAIN snapshot' = Processes
      /\ snapshot'[p] = [generation |-> Len(applied[p]) + 1, table |-> t]
      /\ \A q \in Processes : q # p => snapshot'[q] = snapshot[q]
  BY <1>5 DEF Replaced
<1>7. snapshot' = [q \in Processes |->
                     [generation |-> Len(applied'[q]), table |-> snapshot'[q].table]]
  <2>1. \A q \in Processes :
          snapshot'[q] = [generation |-> Len(applied'[q]), table |-> snapshot'[q].table]
    BY <1>3, <1>4, <1>5, <1>6
  <2>2. snapshot' = [q \in DOMAIN snapshot' |-> snapshot'[q]]
    BY DEF HistoryInv
  <2> QED BY <1>6, <2>1, <2>2
<1>8. \A k : IsIssued(k)' <=> IsIssued(k)
  BY DEF IsIssued, Labels
<1>9. \A k, q, n : q \in Processes /\ MadeAs(k, q, n) => MadeAs(k, q, n)'
  BY <1>3, <1>4 DEF MadeAs
<1>10. \A k, q, n : q \in Processes /\ MadeAs(k, q, n)' => MadeAs(k, q, n) \/ (k = l /\ q = p)
  BY <1>3, <1>4 DEF MadeAs
<1>11. \A k : k # l /\ Made(k)' => Made(k)
  BY <1>3, <1>4, <1>10 DEF Made, MadeAs
<1>12. \A q \in Processes : \A n \in DOMAIN applied'[q] : IsIssued(applied'[q][n])
  BY <1>3, <1>4 DEF HistoryInv
<1>13. \A q, r \in Processes : \A i \in DOMAIN applied'[q], j \in DOMAIN applied'[r] :
         applied'[q][i] = applied'[r][j] => q = r /\ i = j
  <2>1. \A q \in Processes : \A i \in DOMAIN applied[q] : applied[q][i] # l
    BY DEF Made, MadeAs
  <2>2. \A q \in Processes : \A i \in DOMAIN applied'[q] :
          \/ i \in DOMAIN applied[q] /\ applied'[q][i] = applied[q][i]
          \/ q = p /\ i = Len(applied[p]) + 1 /\ applied'[q][i] = l
    BY <1>3, <1>4
  <2> QED BY <2>1, <2>2 DEF HistoryInv
<1>14. \A q, u : Shown(q, u) => Shown(q, u)'
  <2>1. \A q \in Processes : snapshot[q].generation \in Nat
    BY <1>2, <1>5
  <2>2. snapshot[p].generation = Len(applied[p]) /\ snapshot'[p].generation = Len(applied[p]) + 1
    BY <1>5, <1>6
  <2> QED BY <1>6, <2>1, <2>2 DEF Shown
<1>15. MadeAs(l, p, s.generation)'
  <2>1. s.generation = Len(applied[p]) + 1
    BY <1>5 DEF Replaced
  <2> QED BY <2>1, <1>4 DEF MadeAs
<1>16. Shown(p, s)'
  <2>1. s = snapshot'[p] /\ s.generation \in Nat
    BY <1>4, <1>5 DEF Replaced
  <2> QED BY <2>1 DEF Shown
<1>17. HistoryInv'
  BY <1>3, <1>6, <1>7, <1>8, <1>12, <1>13 DEF HistoryInv
<1> QED BY <1>8, <1>9, <1>11, <1>14, <1>15, <1>16, <1>17

\* The others' answers stay true beside a change, and so does what was told.
LEMMA ChangeStep ==
  ASSUME CommandsInv, NEW l \in DOMAIN conns, NEW p, p = conns[l].to,
         conns[l].arrived # 0, conns[l].server = p,
         NEW t, NEW s, s = Replaced(t, snapshot[p]), snapshot' = [snapshot EXCEPT ![p] = s],
         applied' = [applied EXCEPT ![p] = Append(@, l)], UNCHANGED operator,
         NEW answer, answer.error = None, "status" \in DOMAIN answer, answer.status = s,
         Says(l, answer, p)
  PROVE  CommandsInv'
<1> DEFINE d == Answered(conns[l], answer, p)
<1>1. \A k \in DOMAIN conns : Connection(k, conns[k])
  BY DEF CommandsInv, ConnsInv
<1>2. IsConnection(conns[l]) /\ conns = [k \in DOMAIN conns |-> conns[k]]
  BY <1>1 DEF CommandsInv, ConnsInv, Connection
<1>3. p \in Processes /\ IsIssued(l) /\ ~Made(l) /\ Sent(conns[l])
  BY <1>1 DEF Connection, Sent, Carried
<1>4. /\ HistoryInv'
      /\ \A q, u : Shown(q, u) => Shown(q, u)'
      /\ \A k, q, n : q \in Processes /\ MadeAs(k, q, n) => MadeAs(k, q, n)'
      /\ \A k : k # l /\ Made(k)' => Made(k)
      /\ \A k : IsIssued(k)' <=> IsIssued(k)
      /\ MadeAs(l, p, s.generation)'
      /\ Shown(p, s)'
  BY <1>3, HistoryGrows DEF CommandsInv
<1>5. /\ IsConnection(d)
      /\ d.answer = (IF conns[l].eof THEN Unanswered ELSE answer)
      /\ d.server = p /\ d.read = 0 /\ d.arrived = 0
      /\ d.to = conns[l].to /\ d.request = conns[l].request /\ d.basis = conns[l].basis
      /\ d.eof = conns[l].eof
  BY <1>2, ConnectionAnswered
<1>6. /\ conns' = [k \in DOMAIN conns' |-> conns'[k]]
      /\ DOMAIN conns' \subseteq DOMAIN conns
      /\ \A k \in DOMAIN conns : ~conns[k].eof => k \in DOMAIN conns'
      /\ \A k \in DOMAIN conns' : k # l => conns'[k] = conns[k]
      /\ l \in DOMAIN conns' => conns'[l] = d
  BY <1>2, SaysOne
<1> HIDE DEF d
<1>7. \A c : Sent(c) => Sent(c)'
  BY <1>4 DEF Sent, Hopeless
<1>8. \A k, c : Connection(k, c) /\ k # l => Connection(k, c)'
  <2>1. \A k, c : Carried(k, c) /\ k # l => Carried(k, c)'
    BY <1>4 DEF Carried
  <2>2. \A k, q, m, a : TrueAnswer(k, q, m, a) /\ q \in Processes /\ k # l
                          => TrueAnswer(k, q, m, a)'
    BY <1>4 DEF TrueAnswer
  <2>3. \A c : Sent(c) => c.to \in Processes
    BY DEF Sent
  <2> QED BY <1>4, <1>7, <2>1, <2>2, <2>3 DEF Connection
<1>9. \A c : c = d => Connection(l, c)'
  <2>1. Sent(d)
    BY <1>3, <1>5 DEF Sent
  <2>2. \A c : c = d => Sent(c)'
    BY <1>7, <2>1
  <2>3. d.eof \in BOOLEAN /\ 0 <= MaxRequestBytes
    BY <1>1, <1>5, ControlSocketAssumption DEF Connection, Carried, ControlSocketAssumption
  <2>4. \A c : c = d => Carried(l, c)'
    BY <1>5, <2>3 DEF Carried
  <2>5. \A c : c = d => TrueAnswer(l, c.to, c.request.method, c.answer)'
    BY <1>4, <1>5, Fresh DEF TrueAnswer
  <2> QED BY <1>3, <1>4, <1>5, <2>2, <2>4, <2>5 DEF Connection
<1>10. ConnsInv'
  <2>1. \A k \in DOMAIN conns' : Connection(k, conns[k])'
    BY <1>1, <1>6, <1>8, <1>9
  <2> QED BY <1>6, <2>1 DEF ConnsInv
<1>11. ASSUME NEW o \in Operators
       PROVE  IsOperator(operator[o])' /\ Waits(o)' /\ ToldTruly(o)'
  <2>1. IsOperator(operator[o]) /\ Waits(o) /\ ToldTruly(o)
    BY DEF CommandsInv, OperatorsInv
  <2>2. Label(o)' = Label(o)
    BY DEF Label
  <2>3. IsOperator(operator[o])'
    BY <1>4, <2>1 DEF IsOperator
  <2>4. Waits(o)'
    BY <1>5, <1>6, <2>1, <2>2 DEF Waits
  <2>5. Label(o) \in DOMAIN conns' /\ conns[Label(o)].arrived = 0
          => Label(o) # l /\ conns'[Label(o)].arrived = 0
    BY <1>6
  <2>6. Label(o) = l => conns[Label(o)].arrived # 0 /\ Label(o) \in DOMAIN conns
    OBVIOUS
  <2>7. \A k : k = Label(o) /\ k # l /\ Made(k)' => Made(k)
    BY <1>4
  <2>8. \A k, n : (\E q \in Processes : MadeAs(k, q, n)) => (\E q \in Processes : MadeAs(k, q, n)')
    BY <1>4
  <2>9. ToldTruly(o)'
    BY <1>6, <2>1, <2>2, <2>5, <2>6, <2>7, <2>8 DEF ToldTruly
  <2> QED BY <2>3, <2>4, <2>9
<1> QED BY <1>4, <1>10, <1>11 DEF CommandsInv, OperatorsInv

\* A request that has arrived is handled, once.
LEMMA HandlesStep ==
  ASSUME CommandsInv, NEW l \in DOMAIN conns, conns[l].server # Nobody,
         conns[l].arrived # 0, Handles(l), UNCHANGED operator
  PROVE  CommandsInv'
<1> DEFINE p == conns[l].server
           r == conns[l].request
           s == After(r, snapshot[p])
<1>1. Connection(l, conns[l]) /\ HistoryInv
  BY DEF CommandsInv, ConnsInv
<1>2. p = conns[l].to /\ p \in Processes /\ ~Made(l)
  BY <1>1 DEF Connection, Sent, Carried
<1>3. snapshot[p].generation \in Nat
  BY <1>1, <1>2 DEF HistoryInv
<1>4. /\ snapshot' = [snapshot EXCEPT ![p] = s]
      /\ applied' = [applied EXCEPT ![p] = IF s = snapshot[p] THEN @ ELSE Append(@, l)]
      /\ IF Fails(r, snapshot[p]) = "internal_error"
         THEN Says(l, TransportError("internal_error"), Nobody)
         ELSE Says(l, Answer(r, snapshot[p]), p)
  BY DEF Handles
<1>5. /\ Answer(r, snapshot[p]).error = Fails(r, snapshot[p])
      /\ "status" \in DOMAIN Answer(r, snapshot[p]) => Answer(r, snapshot[p]).status = s
      /\ s # snapshot[p] =>
           /\ \E t : s = Replaced(t, snapshot[p])
           /\ Fails(r, snapshot[p]) = None
           /\ r.method \in Change
      /\ Fails(r, snapshot[p]) = None /\ r.method \in Change =>
           /\ \E t : s = Replaced(t, snapshot[p])
           /\ "status" \in DOMAIN Answer(r, snapshot[p])
  BY <1>3, Outcome
<1> HIDE DEF s, r, p
<1>6. CASE s = snapshot[p]
  <2>1. UNCHANGED <<snapshot, applied>>
    <3>1. snapshot = [q \in DOMAIN snapshot |-> snapshot[q]]
      BY <1>1 DEF HistoryInv
    <3>2. applied = [q \in DOMAIN applied |-> applied[q]]
      BY <1>1 DEF HistoryInv
    <3>3. snapshot' = [snapshot EXCEPT ![p] = snapshot[p]]
      BY <1>4, <1>6
    <3>4. applied' = [applied EXCEPT ![p] = applied[p]]
      BY <1>4, <1>6
    <3>5. snapshot' = snapshot
      BY <3>1, <3>3
    <3> QED BY <3>2, <3>4, <3>5
  <2>2. Shown(p, s)
    BY <1>2, <1>3, <1>6 DEF Shown
  <2>3. ~(Fails(r, snapshot[p]) = None /\ r.method \in Change)
    <3>1. \A t : Replaced(t, snapshot[p]).generation # snapshot[p].generation
      BY <1>3 DEF Replaced
    <3> QED BY <1>5, <1>6, <3>1
  <2>4. TrueAnswer(l, p, r.method, Answer(r, snapshot[p]))
    BY <1>2, <1>5, <2>2, <2>3 DEF TrueAnswer
  <2>5. TrueAnswer(l, p, r.method, TransportError("internal_error"))
    BY <1>2 DEF TrueAnswer, TransportError, None
  <2> QED BY <1>2, <1>4, <2>1, <2>4, <2>5, AnswerStep DEF r, p
<1>7. CASE s # snapshot[p]
  <2>1. PICK t : s = Replaced(t, snapshot[p])
    BY <1>5, <1>7
  <2>2. Says(l, Answer(r, snapshot[p]), p)
    BY <1>4, <1>5, <1>7 DEF None
  <2>3. applied' = [applied EXCEPT ![p] = Append(@, l)]
    BY <1>4, <1>7
  <2>4. conns[l].server = p
    BY DEF p
  <2> QED BY <1>2, <1>4, <1>5, <1>7, <2>1, <2>2, <2>3, <2>4, ChangeStep
<1> QED BY <1>6, <1>7

-----------------------------------------------------------------------------
(* Serving.                                                                *)

\* More of a frame has been read.
LEMMA ReadStep ==
  ASSUME CommandsInv, UNCHANGED <<snapshot, applied, operator>>,
         NEW l \in DOMAIN conns, NEW n \in Nat, conns' = [conns EXCEPT ![l].read = n],
         n <= conns[l].arrived,
         conns[l].request.cells > MaxRequestBytes => n <= MaxRequestBytes
  PROVE  CommandsInv'
<1> DEFINE d == [conns[l] EXCEPT !.read = n]
<1>1. \A k \in DOMAIN conns : Connection(k, conns[k]) /\ conns[k].arrived \in Nat
  BY DEF CommandsInv, ConnsInv, Connection, Carried
<1>2. IsConnection(conns[l]) /\ conns = [k \in DOMAIN conns |-> conns[k]]
  BY <1>1 DEF CommandsInv, ConnsInv, Connection
<1>3. /\ IsConnection(d)
      /\ d.answer = conns[l].answer /\ d.server = conns[l].server
      /\ d.read = n /\ d.arrived = conns[l].arrived
      /\ d.to = conns[l].to /\ d.request = conns[l].request /\ d.basis = conns[l].basis
      /\ d.eof = conns[l].eof
  BY <1>2 DEF IsConnection, ConnectionFields
<1>4. conns' = [conns EXCEPT ![l] = d]
  BY <1>2 DEF IsConnection, ConnectionFields
<1> HIDE DEF d
<1>5. /\ conns' = [k \in DOMAIN conns' |-> conns'[k]]
      /\ DOMAIN conns' = DOMAIN conns
      /\ conns'[l] = d
      /\ \A k \in DOMAIN conns : k # l => conns'[k] = conns[k]
  BY <1>2, <1>4
<1>6. Connection(l, d)
  <2>1. conns[l].eof \in BOOLEAN /\ d.arrived <= conns[l].arrived
    BY <1>1, <1>3 DEF Connection, Carried
  <2> QED BY <1>1, <1>3, <2>1, ConnectionFades
<1>7. \A k \in DOMAIN conns' :
        /\ Connection(k, conns'[k])
        /\ conns'[k].eof = conns[k].eof
        /\ conns'[k].arrived <= conns[k].arrived
  BY <1>1, <1>3, <1>5, <1>6
<1> QED BY <1>5, <1>7, ConnectionsStep

\* An answer of the transport, to a request that was not handled.
LEMMA RefusalStep ==
  ASSUME CommandsInv, UNCHANGED <<snapshot, applied, operator>>,
         NEW l \in DOMAIN conns, ~Made(l) \/ conns[l].eof,
         NEW answer, answer.error # None, "status" \notin DOMAIN answer,
         Says(l, answer, Nobody)
  PROVE  CommandsInv'
<1>1. CASE ~Made(l)
  BY <1>1, AnswerStep DEF TrueAnswer
<1>2. CASE conns[l].eof
  <2>1. Says(l, Unanswered, Nobody)
    BY <1>2 DEF Says
  <2>2. TrueAnswer(l, conns[l].to, conns[l].request.method, Unanswered)
    BY Fresh DEF TrueAnswer
  <2> QED BY <2>1, <2>2, AnswerStep
<1> QED BY <1>1, <1>2

LEMMA ServeStep ==
  ASSUME CommandsInv, NEW l, Serve(l)
  PROVE  CommandsInv'
<1>1. l \in DOMAIN conns /\ UNCHANGED operator
  BY DEF Serve
<1>2. Connection(l, conns[l])
  BY <1>1 DEF CommandsInv, ConnsInv
<1>3. /\ conns[l].arrived \in Nat /\ conns[l].read \in Nat /\ conns[l].read <= conns[l].arrived
      /\ conns[l].request.cells \in Nat \ {0}
      /\ conns[l].arrived # 0 => ~Made(l)
  BY <1>2 DEF Connection, Carried, Sent
<1>4. MaxRequestBytes \in Nat
  BY ControlSocketAssumption DEF ControlSocketAssumption
<1>5. ASSUME NEW n \in 1 .. MaxRequestBytes + 1, Receives(l, n)
      PROVE  CommandsInv'
  <2> DEFINE got == conns[l].read + n
  <2>1. conns[l].server # Nobody /\ conns[l].arrived # 0 /\ got \in Nat /\ got <= conns[l].arrived
    BY <1>3, <1>4, <1>5 DEF Receives
  <2>2. CASE conns[l].request.cells > MaxRequestBytes /\ got > MaxRequestBytes
    <3>1. TooLarge(l)
      BY <1>5, <2>2 DEF Receives
    <3>2. /\ TransportError("frame_too_large").error # None
          /\ "status" \notin DOMAIN TransportError("frame_too_large")
      BY DEF TransportError, None
    <3> QED BY <1>1, <1>3, <2>1, <3>1, <3>2, RefusalStep DEF TooLarge
  <2>3. CASE ~(conns[l].request.cells > MaxRequestBytes /\ got > MaxRequestBytes)
             /\ got = conns[l].request.cells + 1
    <3>1. Handles(l)
      BY <1>5, <2>3 DEF Receives
    <3> QED BY <1>1, <2>1, <3>1, HandlesStep
  <2>4. CASE ~(conns[l].request.cells > MaxRequestBytes /\ got > MaxRequestBytes)
             /\ got # conns[l].request.cells + 1
    <3>1. /\ conns' = [conns EXCEPT ![l].read = got]
          /\ UNCHANGED <<snapshot, applied>>
      BY <1>5, <2>4 DEF Receives
    <3>2. conns[l].request.cells > MaxRequestBytes => got <= MaxRequestBytes
      BY <1>4, <2>1, <2>4
    <3> HIDE DEF got
    <3> QED BY <1>1, <2>1, <3>1, <3>2, ReadStep
  <2> QED BY <2>2, <2>3, <2>4
<1>6. ASSUME AtEnd(l)
      PROVE  CommandsInv'
  <2>1. /\ conns[l].server # Nobody /\ conns[l].eof /\ conns[l].read = conns[l].arrived
        /\ IF conns[l].read = conns[l].request.cells THEN Handles(l)
           ELSE Says(l, MalformedAnswer, Nobody) /\ UNCHANGED <<snapshot, applied>>
    BY <1>6 DEF AtEnd
  <2>2. CASE conns[l].read = conns[l].request.cells
    BY <1>1, <1>3, <2>1, <2>2, HandlesStep
  <2>3. CASE conns[l].read # conns[l].request.cells
    <3>1. MalformedAnswer.error # None /\ "status" \notin DOMAIN MalformedAnswer
      BY DEF MalformedAnswer, None
    <3> QED BY <1>1, <2>1, <2>3, <3>1, RefusalStep
  <2> QED BY <2>2, <2>3
<1> QED BY <1>5, <1>6 DEF Serve

-----------------------------------------------------------------------------
(* The operators.                                                          *)

\* A request of aismixerctl expects nothing, or what the last status said.
LEMMA RequestsAreSensible ==
  ASSUME NEW o \in Operators, NEW r \in Requests(o)
  PROVE  /\ r.cells \in Nat \ {0}
         /\ \/ Hopeless(r)
            \/ r.expected = {}
            \/ /\ operator[o].status # Unanswered
               /\ r.expected = {operator[o].status.snapshot.generation}
<1>1. \A method, params, routing, expected :
        LET q == Request(method, params, routing, expected)
        IN  q.cells = 1 /\ q.expected = expected
  BY DEF Request
<1>2. \A e \in Expectations(o) :
        \/ e = {}
        \/ operator[o].status # Unanswered /\ e = {operator[o].status.snapshot.generation}
  BY DEF Expectations
<1>3. CASE r \in Others
  BY <1>3, ControlSocketAssumption DEF ControlSocketAssumption, Hopeless
<1>4. CASE r \notin Others
  <2>1. \E method, params, routing, expected :
          /\ r = Request(method, params, routing, expected)
          /\ expected = {} \/ expected \in Expectations(o)
    BY <1>4 DEF Requests
  <2> QED BY <1>1, <1>2, <2>1
<1> QED BY <1>3, <1>4

\* A label not issued yet is of no connection and of no change.
LEMMA LabelsAreFresh ==
  ASSUME CommandsInv, NEW o \in Operators
  PROVE  LET l == <<o, operator[o].issued + 1>>
         IN  l \notin DOMAIN conns /\ ~Made(l)
<1>1. ~IsIssued(<<o, operator[o].issued + 1>>)
  BY DEF IsIssued, CommandsInv, OperatorsInv, IsOperator
<1>2. <<o, operator[o].issued + 1>> \notin DOMAIN conns
  BY <1>1 DEF CommandsInv, ConnsInv, Connection
<1>3. ~Made(<<o, operator[o].issued + 1>>)
  <2>1. ASSUME NEW l, Made(l)
        PROVE  IsIssued(l)
    <3>1. PICK p \in Processes : \E n \in DOMAIN applied[p] : applied[p][n] = l
      BY <2>1 DEF Made, MadeAs
    <3> QED BY <3>1 DEF CommandsInv, HistoryInv
  <2> QED BY <1>1, <2>1
<1> QED BY <1>2, <1>3

LEMMA CommandStep ==
  ASSUME PathInv, CommandsInv, NEW o \in Operators, NEW r \in Requests(o), Command(o, r)
  PROVE  CommandsInv'
<1>a. PICK n : n = operator[o].issued + 1
  OBVIOUS
<1>b. PICK l : l = <<o, n>>
  OBVIOUS
<1> DEFINE c == [server |-> path, request |-> r, arrived |-> r.cells + 1, read |-> 0,
                 eof |-> FALSE, answer |-> Unanswered,
                 to |-> path, basis |-> operator[o].status]
<1> USE <1>a, <1>b
<1>1. /\ conns' = [k \in DOMAIN conns \cup {l} |-> IF k = l THEN c ELSE conns[k]]
      /\ operator' = [operator EXCEPT ![o].issued = n, ![o].asked = r.method,
                                      ![o].told = Unanswered]
      /\ operator[o].asked = Nothing /\ path # NoSocket
      /\ UNCHANGED <<snapshot, applied>>
  BY DEF Command
<1>2. path \in Processes
  BY <1>1 DEF PathInv
<1>3. \A q \in Operators : IsOperator(operator[q]) /\ Waits(q) /\ ToldTruly(q)
  BY DEF CommandsInv, OperatorsInv
<1>4. operator[o].issued \in Nat /\ n \in Nat /\ n >= operator[o].issued
  <2>1. operator[o].issued \in Nat
    BY <1>3 DEF IsOperator
  <2> QED BY <2>1
<1>5. l \notin DOMAIN conns /\ ~Made(l)
  BY LabelsAreFresh
<1>6. /\ r.cells \in Nat \ {0}
      /\ \/ Hopeless(r)
         \/ r.expected = {}
         \/ /\ operator[o].status # Unanswered
            /\ r.expected = {operator[o].status.snapshot.generation}
  BY RequestsAreSensible
<1>7. Sent(c)
  BY <1>2, <1>3, <1>6 DEF Sent, IsOperator
<1>8. Carried(l, c)
  BY <1>2, <1>5, <1>6, ControlSocketAssumption DEF Carried, ControlSocketAssumption
<1>9. IsConnection(c) /\ TrueAnswer(l, c.to, c.request.method, c.answer)
  BY Fresh DEF IsConnection, ConnectionFields, TrueAnswer
<1>10. /\ DOMAIN conns' = DOMAIN conns \cup {l}
       /\ conns' = [k \in DOMAIN conns' |-> conns'[k]]
       /\ conns'[l] = c
       /\ \A k \in DOMAIN conns : conns'[k] = conns[k]
  BY <1>1, <1>5
<1>11. c.eof = FALSE
  OBVIOUS
<1>12. /\ operator = [q \in Operators |-> operator[q]]
       /\ IsOperator(operator[o])
  BY <1>3 DEF CommandsInv, OperatorsInv
<1>13. /\ operator' = [q \in Operators |-> operator'[q]]
       /\ operator'[o] = [issued |-> n, asked |-> r.method, status |-> operator[o].status,
                          told |-> Unanswered]
       /\ \A q \in Operators : q # o => operator'[q] = operator[q]
  BY <1>1, <1>12 DEF IsOperator
<1>14. Label(o)' = l
  BY <1>13 DEF Label
<1> HIDE DEF c
<1>15. HistoryInv' /\ \A k : IsIssued(k) => IsIssued(k)'
  <2>1. \A q \in Operators : operator[q].issued \in Nat
    BY <1>3 DEF IsOperator
  <2>2. \A q \in Operators : operator'[q].issued \in Nat /\ operator'[q].issued >= operator[q].issued
    BY <1>4, <1>13, <2>1
  <2> QED BY <1>1, <2>1, <2>2, HistoryKept DEF CommandsInv
<1>16. IsIssued(l)'
  BY <1>4, <1>13 DEF IsIssued, Labels
<1>17. ConnsInv'
  <2>1. \A k, d : Connection(k, d) => Connection(k, d)'
    BY <1>1, <1>15, ConnectionUntouched
  <2>2. \A d : d = c => Connection(l, d)'
    BY <1>1, <1>7, <1>8, <1>9, <1>16, HistoryUntouched DEF Connection
  <2>3. \A k \in DOMAIN conns' : Connection(k, conns[k])'
    BY <1>10, <2>1, <2>2 DEF CommandsInv, ConnsInv
  <2> QED BY <1>10, <2>3 DEF ConnsInv
<1>c. \A p, s : Shown(p, s) => Shown(p, s)'
  BY <1>1, HistoryUntouched
<1>18. ASSUME NEW q \in Operators
       PROVE  IsOperator(operator[q])' /\ Waits(q)' /\ ToldTruly(q)'
  <2>1. CASE q = o
    <3>1. IsOperator(operator[q])'
      <4>1. IsOperator(operator[o])
        BY <1>3
      <4>2. operator'[o] = [issued |-> n, asked |-> r.method, status |-> operator[o].status,
                            told |-> Unanswered]
        BY <1>13
      <4>3. operator[o].status # Unanswered => Shown(operator[o].status.of, operator[o].status.snapshot)'
        BY <1>c, <1>13, <4>1, <4>2 DEF IsOperator
      <4> QED BY <1>4, <2>1, <4>2, <4>3 DEF IsOperator
    <3>2. Waits(q)'
      BY <1>10, <1>11, <1>13, <1>14, <2>1 DEF Waits
    <3>3. ToldTruly(q)'
      BY <1>13, <2>1 DEF ToldTruly
    <3> QED BY <3>1, <3>2, <3>3
  <2>2. CASE q # o
    <3>1. operator'[q] = operator[q] /\ Label(q)' = Label(q)
      BY <1>13, <2>2 DEF Label
    <3>2. Label(q) # l
      BY <2>2 DEF Label
    <3>3. IsOperator(operator[q])'
      BY <1>3, <1>c, <3>1 DEF IsOperator
    <3>4. Waits(q)'
      BY <1>3, <1>10, <3>1 DEF Waits
    <3>5. ToldTruly(q)'
      <4>1. ToldTruly(q)
        BY <1>3
      <4>2. \A p, k, i : MadeAs(k, p, i) => MadeAs(k, p, i)'
        BY <1>1, HistoryUntouched
      <4>3. \A k : ~Made(k) => ~Made(k)'
        BY <1>1, HistoryUntouched
      <4>4. /\ Label(q) \in DOMAIN conns' => Label(q) \in DOMAIN conns
            /\ Label(q) \in DOMAIN conns => conns'[Label(q)] = conns[Label(q)]
        BY <1>10, <3>2
      <4> QED BY <3>1, <4>1, <4>2, <4>3, <4>4 DEF ToldTruly
    <3> QED BY <3>3, <3>4, <3>5
  <2> QED BY <2>1, <2>2
<1> QED BY <1>13, <1>15, <1>17, <1>18 DEF CommandsInv, OperatorsInv

\* aismixerctl closes its connection, with what it has been told or without.
LEMMA LeaveStep ==
  ASSUME CommandsInv, UNCHANGED <<snapshot, applied>>,
         NEW o \in Operators, NEW l, l = Label(o), operator[o].asked # Nothing,
         NEW d, IsConnection(d), d.eof = TRUE, d.answer = Unanswered,
         d.server = conns[l].server, d.to = conns[l].to, d.request = conns[l].request,
         d.basis = conns[l].basis, d.read = conns[l].read,
         d.arrived \in conns[l].read .. conns[l].arrived,
         conns' = Open([conns EXCEPT ![l] = d]),
         NEW x, IsOperator(x), x.issued = operator[o].issued, x.asked = Nothing,
         operator' = [operator EXCEPT ![o] = x],
         x.told # Unanswered =>
           /\ x.told.answer.error \notin {None, "unanswered"} => ~Made(l) /\ conns[l].arrived = 0
           /\ x.told.answer.error = None /\ x.told.method \in Change =>
                \E p \in Processes : MadeAs(l, p, x.told.answer.status.generation)
  PROVE  CommandsInv'
<1>1. /\ \A k \in DOMAIN conns : Connection(k, conns[k])
      /\ conns = [k \in DOMAIN conns |-> conns[k]]
      /\ operator = [q \in Operators |-> operator[q]]
      /\ \A q \in Operators : IsOperator(operator[q]) /\ Waits(q) /\ ToldTruly(q)
  BY DEF CommandsInv, ConnsInv, OperatorsInv
<1>2. l \in DOMAIN conns
  BY <1>1 DEF Waits
<1>3. /\ operator' = [q \in Operators |-> operator'[q]]
      /\ operator'[o] = x
      /\ \A q \in Operators : q # o => operator'[q] = operator[q]
  BY <1>1
<1>4. \A q \in Operators : operator[q].issued \in Nat /\ operator'[q].issued = operator[q].issued
  BY <1>1, <1>3 DEF IsOperator
<1>5. \A q \in Operators : Label(q)' = Label(q)
  BY <1>4 DEF Label
<1>6. HistoryInv' /\ \A k : IsIssued(k) => IsIssued(k)'
  <2>1. \A q \in Operators : operator'[q].issued \in Nat /\ operator'[q].issued >= operator[q].issued
    BY <1>4
  <2> QED BY <1>4, <2>1, HistoryKept DEF CommandsInv
<1>7. Connection(l, d)
  <2>1. Connection(l, conns[l])
    BY <1>1, <1>2
  <2>2. /\ conns[l].arrived \in Nat /\ conns[l].read \in Nat
        /\ conns[l].request.cells > MaxRequestBytes => conns[l].read <= MaxRequestBytes
    BY <2>1 DEF Connection, Carried
  <2>3. d.read \in Nat /\ d.arrived \in Nat /\ d.read <= d.arrived /\ d.arrived <= conns[l].arrived
    BY <2>2
  <2> QED BY <2>1, <2>2, <2>3, ConnectionFades
<1> DEFINE f == [conns EXCEPT ![l] = d]
<1>8. DOMAIN f = DOMAIN conns /\ f[l] = d /\ \A k \in DOMAIN conns : k # l => f[k] = conns[k]
  BY <1>2
<1>9. conns' = Open(f)
  OBVIOUS
<1> HIDE DEF f
<1>10. /\ conns' = [k \in DOMAIN conns' |-> conns'[k]]
       /\ DOMAIN conns' \subseteq DOMAIN conns
       /\ \A k \in DOMAIN conns' : conns'[k] = f[k]
       /\ \A k \in DOMAIN conns : ~f[k].eof => k \in DOMAIN conns'
  BY ONLY <1>8, <1>9, OpenKeeps
<1>11. ConnsInv'
  <2>1. \A k, c : Connection(k, c) => Connection(k, c)'
    BY <1>6, ConnectionUntouched
  <2>2. \A k \in DOMAIN conns' : Connection(k, conns'[k])
    <3>1. \A k \in DOMAIN conns : Connection(k, conns[k])
      BY <1>1
    <3> QED BY ONLY <1>7, <1>8, <1>10, <3>1
  <2>3. \A k \in DOMAIN conns' : Connection(k, conns[k])'
    BY <2>1, <2>2
  <2> QED BY <1>10, <2>3 DEF ConnsInv
<1>12. \A p, s : Shown(p, s) => Shown(p, s)'
  <2>1. UNCHANGED snapshot
    OBVIOUS
  <2> QED BY ONLY <2>1 DEF Shown
<1>13. /\ \A k : ~Made(k) => ~Made(k)'
       /\ \A k, p, n : MadeAs(k, p, n) => MadeAs(k, p, n)'
  BY HistoryUntouched
<1>14. IsOperator(operator[o])' /\ Waits(o)' /\ ToldTruly(o)'
  <2>1. IsOperator(operator[o])'
    <3>1. x.status # Unanswered => Shown(x.status.of, x.status.snapshot)'
      BY <1>12 DEF IsOperator
    <3> QED BY <1>3, <3>1 DEF IsOperator
  <2>2. Waits(o)'
    BY <1>3 DEF Waits
  <2>3. conns[l].arrived = 0 => (l \in DOMAIN conns' => conns'[l].arrived = 0)
    <3>1. conns[l].read \in Nat /\ conns[l].arrived \in Nat
      BY <1>1, <1>2 DEF Connection, Carried
    <3>2. conns[l].arrived = 0 => d.arrived = 0
      BY <3>1
    <3> QED BY <1>8, <1>10, <3>2
  <2>4. Label(o)' = l
    BY <1>5
  <2>5. ToldTruly(o)'
    BY <1>3, <1>13, <2>3, <2>4 DEF ToldTruly
  <2> QED BY <2>1, <2>2, <2>5
<1>15. ASSUME NEW q \in Operators, q # o
       PROVE  IsOperator(operator[q])' /\ Waits(q)' /\ ToldTruly(q)'
  <2>1. operator'[q] = operator[q] /\ Label(q)' = Label(q)
    BY <1>3, <1>5, <1>15
  <2>2. Label(q) # l
    BY <1>15 DEF Label
  <2>3. IsOperator(operator[q]) /\ Waits(q) /\ ToldTruly(q)
    BY <1>1
  <2>4. IsOperator(operator[q])'
    BY <1>12, <2>1, <2>3 DEF IsOperator
  <2>5. /\ Label(q) \in DOMAIN conns' => Label(q) \in DOMAIN conns
        /\ Label(q) \in DOMAIN conns' => conns'[Label(q)] = conns[Label(q)]
        /\ Label(q) \in DOMAIN conns /\ ~conns[Label(q)].eof => Label(q) \in DOMAIN conns'
    <3>1. Label(q) \in DOMAIN conns => f[Label(q)] = conns[Label(q)]
      BY ONLY <1>8, <2>2
    <3> QED BY ONLY <1>10, <3>1
  <2>6. Waits(q)'
    BY <2>1, <2>3, <2>5 DEF Waits
  <2>7. ToldTruly(q)'
    BY <1>13, <2>1, <2>3, <2>5 DEF ToldTruly
  <2> QED BY <2>4, <2>6, <2>7
<1> QED BY <1>3, <1>6, <1>11, <1>14, <1>15 DEF CommandsInv, OperatorsInv

LEMMA WhoWaits ==
  ASSUME CommandsInv, NEW o \in Operators, operator[o].asked # Nothing
  PROVE  /\ Label(o) \in DOMAIN conns
         /\ Connection(Label(o), conns[Label(o)])
         /\ IsOperator(operator[o])
         /\ operator[o].told = Unanswered
         /\ operator = [q \in Operators |-> operator[q]]
         /\ conns = [k \in DOMAIN conns |-> conns[k]]
BY DEF CommandsInv, OperatorsInv, ConnsInv, Waits

LEMMA EditOperator ==
  ASSUME NEW u, IsOperator(u), NEW told, NEW status
  PROVE  [u EXCEPT !.asked = Nothing, !.told = told, !.status = status]
           = [issued |-> u.issued, asked |-> Nothing, status |-> status, told |-> told]
<1>1. u = [issued |-> u.issued, asked |-> u.asked, status |-> u.status, told |-> u.told]
  BY DEF IsOperator
<1> DEFINE d == [u EXCEPT !.asked = Nothing, !.told = told, !.status = status]
           e == [issued |-> u.issued, asked |-> Nothing, status |-> status, told |-> told]
           F == {"issued", "asked", "status", "told"}
<1>2. DOMAIN u = F /\ DOMAIN e = F
  BY ONLY <1>1
<1>3. d = [f \in F |-> d[f]] /\ e = [f \in F |-> e[f]]
  BY ONLY <1>2
<1>4. d.issued = e.issued /\ d.asked = e.asked /\ d.status = e.status /\ d.told = e.told
  BY ONLY <1>2
<1> QED BY ONLY <1>3, <1>4

LEMMA LearnStep ==
  ASSUME CommandsInv, NEW o \in Operators, Learn(o)
  PROVE  CommandsInv'
<1>a. PICK l : l = Label(o)
  OBVIOUS
<1> DEFINE c == conns[l]
           answer == Correlated(c)
           d == [c EXCEPT !.eof = TRUE, !.answer = Unanswered]
           status == IF "status" \in DOMAIN answer
                     THEN [of |-> c.to, snapshot |-> answer.status]
                     ELSE operator[o].status
           told == [answer |-> answer, method |-> c.request.method]
           x == [issued |-> operator[o].issued, asked |-> Nothing,
                 status |-> status, told |-> told]
<1>1. /\ operator[o].asked # Nothing
      /\ operator' = [operator EXCEPT
           ![o].asked = Nothing, ![o].told = [answer |-> answer, method |-> c.request.method],
           ![o].status = IF "status" \in DOMAIN answer
                         THEN [of |-> c.to, snapshot |-> answer.status] ELSE @]
      /\ conns' = Open([conns EXCEPT ![l].eof = TRUE, ![l].answer = Unanswered])
      /\ UNCHANGED <<snapshot, applied>>
  BY <1>a DEF Learn
<1>2. /\ l \in DOMAIN conns /\ Connection(l, c) /\ IsOperator(operator[o])
      /\ operator = [q \in Operators |-> operator[q]]
      /\ conns = [k \in DOMAIN conns |-> conns[k]]
  BY <1>1, <1>a, WhoWaits
<1>3. IsConnection(c)
  BY <1>2 DEF Connection
<1>4. /\ IsConnection(d)
      /\ d.eof = TRUE /\ d.answer = Unanswered
      /\ d.server = c.server /\ d.to = c.to /\ d.request = c.request
      /\ d.basis = c.basis /\ d.read = c.read /\ d.arrived = c.arrived
  BY <1>3 DEF IsConnection, ConnectionFields
<1>5. conns' = Open([conns EXCEPT ![l] = d])
  <2>1. [conns EXCEPT ![l].eof = TRUE, ![l].answer = Unanswered] = [conns EXCEPT ![l] = d]
    BY <1>2, <1>3 DEF IsConnection, ConnectionFields
  <2> QED BY <1>1, <2>1
<1> HIDE DEF d
<1>6. d.arrived \in c.read .. c.arrived
  BY <1>2, <1>4 DEF Connection, Carried
<1>7. answer \in {c.answer, Unanswered}
  BY DEF Correlated
<1>8. TrueAnswer(l, c.to, c.request.method, answer)
  BY <1>2, <1>7, Fresh DEF TrueAnswer, Connection
<1>9. answer # Unanswered => c.arrived = 0
  BY <1>2, <1>7 DEF Connection, Carried
<1>10. operator' = [operator EXCEPT ![o] = x]
  <2>1. operator' = [operator EXCEPT ![o].asked = Nothing, ![o].told = told, ![o].status = status]
    BY <1>1
  <2> HIDE DEF answer, c, told, status
  <2>2. [operator EXCEPT ![o].asked = Nothing, ![o].told = told, ![o].status = status]
          = [operator EXCEPT ![o] = x]
    <3> DEFINE u == operator[o]
    <3>1. [u EXCEPT !.asked = Nothing, !.told = told, !.status = status] = x
      BY <1>2, EditOperator
    <3>2. [operator EXCEPT ![o].asked = Nothing, ![o].told = told, ![o].status = status]
            = [operator EXCEPT ![o] =
                 [u EXCEPT !.asked = Nothing, !.told = told, !.status = status]]
      BY <1>2
    <3> QED BY <3>1, <3>2
  <2> QED BY <2>1, <2>2
<1> HIDE DEF answer
<1>11. /\ x.issued = operator[o].issued /\ x.asked = Nothing
       /\ x.told.answer = answer /\ x.told.method = c.request.method
  OBVIOUS
<1>12. IsOperator(x)
  <2>1. operator[o].issued \in Nat
    BY <1>2 DEF IsOperator
  <2>2. "status" \in DOMAIN answer => Shown(c.to, answer.status)
    BY <1>8 DEF TrueAnswer
  <2>3. operator[o].status # Unanswered
          => Shown(operator[o].status.of, operator[o].status.snapshot)
    BY <1>2 DEF IsOperator
  <2>4. x.status # Unanswered => Shown(x.status.of, x.status.snapshot)
    BY <2>2, <2>3
  <2> QED BY <2>1, <2>4 DEF IsOperator
<1>13. c.to \in Processes
  BY <1>2 DEF Connection, Sent
<1>14. /\ x.told.answer.error \notin {None, "unanswered"} => ~Made(l) /\ c.arrived = 0
       /\ x.told.answer.error = None /\ x.told.method \in Change =>
            \E p \in Processes : MadeAs(l, p, x.told.answer.status.generation)
  <2>1. answer.error \notin {None, "unanswered"} => answer # Unanswered
    BY Fresh
  <2> HIDE DEF x
  <2> QED BY <1>8, <1>9, <1>11, <1>13, <2>1 DEF TrueAnswer
<1>15. UNCHANGED <<snapshot, applied>> /\ operator[o].asked # Nothing
  BY <1>1
<1> HIDE DEF x
<1> QED BY <1>15, <1>a, <1>4, <1>5, <1>6, <1>10, <1>11, <1>12, <1>14, LeaveStep

LEMMA KillStep ==
  ASSUME CommandsInv, NEW o \in Operators, Kill(o)
  PROVE  CommandsInv'
<1>a. PICK l : l = Label(o)
  OBVIOUS
<1>1. /\ operator[o].asked # Nothing
      /\ operator' = [operator EXCEPT ![o].asked = Nothing]
      /\ UNCHANGED <<snapshot, applied>>
  BY DEF Kill
<1>2. PICK n \in conns[l].read .. conns[l].arrived :
        conns' = Open([conns EXCEPT ![l].eof = TRUE, ![l].arrived = n,
                                    ![l].answer = Unanswered])
  BY <1>a DEF Kill
<1> DEFINE c == conns[l]
           d == [c EXCEPT !.eof = TRUE, !.arrived = n, !.answer = Unanswered]
           x == [operator[o] EXCEPT !.asked = Nothing]
<1>3. /\ l \in DOMAIN conns /\ Connection(l, c) /\ IsOperator(operator[o])
      /\ operator[o].told = Unanswered
      /\ operator = [q \in Operators |-> operator[q]]
      /\ conns = [k \in DOMAIN conns |-> conns[k]]
  BY <1>1, <1>a, WhoWaits
<1>4. IsConnection(c)
  BY <1>3 DEF Connection
<1>5. /\ IsConnection(d)
      /\ d.eof = TRUE /\ d.answer = Unanswered /\ d.arrived = n
      /\ d.server = c.server /\ d.to = c.to /\ d.request = c.request
      /\ d.basis = c.basis /\ d.read = c.read
  BY <1>4 DEF IsConnection, ConnectionFields
<1>6. conns' = Open([conns EXCEPT ![l] = d])
  <2>1. [conns EXCEPT ![l].eof = TRUE, ![l].arrived = n, ![l].answer = Unanswered]
          = [conns EXCEPT ![l] = d]
    BY <1>3, <1>4 DEF IsConnection, ConnectionFields
  <2> QED BY <1>2, <2>1
<1> HIDE DEF d
<1>7. d.arrived \in c.read .. c.arrived
  BY <1>2, <1>5
<1>8. operator' = [operator EXCEPT ![o] = x]
  BY <1>1, <1>3
<1>9. /\ IsOperator(x) /\ x.issued = operator[o].issued /\ x.asked = Nothing
      /\ x.told = Unanswered
  BY <1>3 DEF IsOperator
<1> HIDE DEF x
<1> QED BY <1>1, <1>a, <1>5, <1>6, <1>7, <1>8, <1>9, LeaveStep

-----------------------------------------------------------------------------
(* All of it.                                                              *)

LEMMA InitCommands ==
  ASSUME Init
  PROVE  CommandsInv
<1>1. HistoryInv
  BY DEF Init, HistoryInv, Labels
<1>2. ConnsInv
  BY DEF Init, ConnsInv
<1>3. ASSUME NEW o \in Operators
      PROVE  IsOperator(operator[o]) /\ Waits(o) /\ ToldTruly(o)
  BY DEF Init, IsOperator, Waits, ToldTruly
<1>4. operator = [o \in Operators |-> operator[o]]
  BY DEF Init
<1> QED BY <1>1, <1>2, <1>3, <1>4 DEF CommandsInv, OperatorsInv

LEMMA CommandsUntouched ==
  ASSUME CommandsInv, UNCHANGED <<snapshot, applied, conns, operator>>
  PROVE  CommandsInv'
<1>1. \A l \in DOMAIN conns : conns[l].arrived \in Nat /\ Connection(l, conns[l])
  BY DEF CommandsInv, ConnsInv, Connection, Carried
<1>2. \A l \in DOMAIN conns : conns[l].arrived <= conns[l].arrived
  BY <1>1
<1>3. conns = [l \in DOMAIN conns |-> conns[l]]
  BY DEF CommandsInv, ConnsInv
<1> QED BY <1>1, <1>2, <1>3, ConnectionsStep

LEMMA StepCommands ==
  ASSUME PathInv, CommandsInv, [Next]_vars
  PROVE  CommandsInv'
<1>1. ASSUME NEW l \in Commands, Serve(l)
      PROVE  CommandsInv'
  BY <1>1, ServeStep
<1>2. ASSUME NEW p \in Processes, Bind(p) \/ Identify(p)
      PROVE  CommandsInv'
  BY <1>2, CommandsUntouched DEF Bind, Identify
<1>3. ASSUME NEW p \in Processes, StartFails(p) \/ Stop(p) \/ Exit(p) \/ Crash(p)
      PROVE  CommandsInv'
  <2>1. UNCHANGED <<snapshot, applied, operator>>
    BY <1>3 DEF StartFails, Stop, Exit, Crash
  <2>2. \E cut : CutOff(cut)
    BY <1>3 DEF StartFails, Stop, Exit, Crash
  <2> QED BY <2>1, <2>2, CutOffStep
<1>4. ASSUME NEW o \in Operators, (\E r \in Requests(o) : Command(o, r)) \/ Learn(o) \/ Kill(o)
      PROVE  CommandsInv'
  BY <1>4, CommandStep, LearnStep, KillStep
<1>5. CASE UNCHANGED vars
  BY <1>5, CommandsUntouched DEF vars
<1> QED BY <1>1, <1>2, <1>3, <1>4, <1>5 DEF Next

\* RoutingControlUnixServer and aismixerctl: the path, and every command on its way,
\* are at all times as the two invariants say.
THEOREM CommandsAlways == Spec => [](PathInv /\ CommandsInv)
BY InitPath, StepPath, InitCommands, StepCommands, PTL DEF Spec

\* What aismixerctl prints is what happened: an error changed nothing and will
\* not, a success was made once, under the generation told (handle_request and
\* the reading of its answer).
THEOREM ToldIsTrue == Spec => []ToldTheTruth
<1>1. CommandsInv => ToldTheTruth
  <2> SUFFICES ASSUME CommandsInv
               PROVE  ToldTheTruth
    OBVIOUS
  <2>1. \A p, q \in Processes : \A i \in DOMAIN applied[p], j \in DOMAIN applied[q] :
          applied[p][i] = applied[q][j] => p = q /\ i = j
    BY DEF CommandsInv, HistoryInv
  <2>2. \A o \in Operators : ToldTruly(o)
    BY DEF CommandsInv, OperatorsInv
  <2> QED BY <2>1, <2>2 DEF ToldTheTruth, ToldTruly
<1> QED BY <1>1, CommandsAlways, PTL

\* A step appends to what was applied only by handling a request that fits.
LEMMA WhoApplies ==
  ASSUME CommandsInv, [Next]_vars, NEW p \in Processes, applied'[p] # applied[p]
  PROVE  \E l \in DOMAIN conns :
           /\ Handles(l)
           /\ conns[l].server = p
           /\ conns[l].request.cells <= MaxRequestBytes
<1>1. PICK l \in Commands : Serve(l)
  BY DEF Next, Bind, Identify, StartFails, Stop, Exit, Crash, Command, Learn, Kill, vars
<1>2. l \in DOMAIN conns
  BY <1>1 DEF Serve
<1>3. /\ conns[l].arrived \in Nat /\ conns[l].read \in Nat
      /\ conns[l].request.cells \in Nat
      /\ conns[l].request.cells > MaxRequestBytes => conns[l].read <= MaxRequestBytes
  BY <1>2 DEF CommandsInv, ConnsInv, Connection, Carried, Sent
<1>4. MaxRequestBytes \in Nat
  BY ControlSocketAssumption DEF ControlSocketAssumption
<1>5. Handles(l) /\ conns[l].request.cells <= MaxRequestBytes
  <2>1. ASSUME NEW n \in 1 .. MaxRequestBytes + 1, Receives(l, n)
        PROVE  Handles(l) /\ conns[l].request.cells <= MaxRequestBytes
    BY <1>3, <1>4, <2>1 DEF Receives, TooLarge
  <2>2. ASSUME AtEnd(l)
        PROVE  Handles(l) /\ conns[l].request.cells <= MaxRequestBytes
    BY <1>3, <1>4, <2>2 DEF AtEnd
  <2> QED BY <1>1, <2>1, <2>2 DEF Serve
<1>6. conns[l].server = p
  BY <1>5 DEF Handles, CommandsInv, HistoryInv
<1> QED BY <1>2, <1>5, <1>6

\* Of two operators who start from one table the second is told: a change that
\* names a generation is made to the table that was shown under it
\* (RoutingState.replace with expected_generation).
THEOREM NoUpdateIsLost == Spec => NoLostUpdate
<1> DEFINE Body ==
      \A l \in DOMAIN conns :
        LET c == conns[l]
            p == c.server
        IN  (/\ p # Nobody /\ applied'[p] = Append(applied[p], l)
             /\ c.request.expected # {}
             /\ c.basis # Unanswered /\ c.basis.of = p) => c.basis.snapshot = snapshot[p]
<1>1. CommandsInv /\ [Next]_vars => [Body]_vars
  <2> SUFFICES ASSUME CommandsInv, [Next]_vars, NEW l \in DOMAIN conns, NEW p,
                      p = conns[l].server, p # Nobody, applied'[p] = Append(applied[p], l),
                      conns[l].request.expected # {},
                      conns[l].basis # Unanswered, conns[l].basis.of = p
               PROVE  conns[l].basis.snapshot = snapshot[p]
    OBVIOUS
  <2>1. Connection(l, conns[l]) /\ HistoryInv
    BY DEF CommandsInv, ConnsInv
  <2>2. p \in Processes /\ IsIssued(l)
    BY <2>1 DEF Connection, Carried, Sent
  <2>3. applied[p] \in Seq(Labels) /\ l \in Labels
    BY <2>1, <2>2 DEF HistoryInv, IsIssued
  <2>4. applied'[p] # applied[p]
    <3>1. Len(Append(applied[p], l)) # Len(applied[p])
      BY <2>3
    <3> QED BY <3>1
  <2>5. PICK m \in DOMAIN conns :
          /\ Handles(m)
          /\ conns[m].server = p
          /\ conns[m].request.cells <= MaxRequestBytes
    BY <2>2, <2>4, WhoApplies
  <2>6. /\ After(conns[m].request, snapshot[p]) # snapshot[p]
        /\ applied'[p] = Append(applied[p], m)
    BY <2>1, <2>2, <2>4, <2>5 DEF Handles, HistoryInv
  <2>7. m = l
    <3>1. IsIssued(m)
      BY <2>5 DEF CommandsInv, ConnsInv, Connection
    <3>2. m \in Labels
      BY <3>1 DEF IsIssued
    <3>3. Append(applied[p], m)[Len(applied[p]) + 1] = m
      BY <2>3, <3>2
    <3>4. Append(applied[p], l)[Len(applied[p]) + 1] = l
      BY <2>3
    <3> QED BY <2>6, <3>3, <3>4
  <2>8. snapshot[p].generation \in Nat
    BY <2>1, <2>2, <2>3 DEF HistoryInv
  <2>9. /\ SchemaError(conns[l].request) = None
        /\ conns[l].request.method = "routing.replace" => CandidateError(conns[l].request.routing) = None
        /\ conns[l].request.expected \in {{}, {snapshot[p].generation}}
    BY <2>6, <2>7, <2>8, Outcome
  <2>10. ~Hopeless(conns[l].request)
    <3>1. conns[l].request.cells \in Nat /\ MaxRequestBytes \in Nat
      BY <2>1, ControlSocketAssumption DEF Connection, Sent, ControlSocketAssumption
    <3> QED BY <2>5, <2>7, <2>9, <3>1 DEF Hopeless
  <2>11. /\ Shown(p, conns[l].basis.snapshot)
         /\ conns[l].request.expected = {conns[l].basis.snapshot.generation}
    BY <2>1, <2>10 DEF Connection, Sent
  <2>12. conns[l].basis.snapshot.generation = snapshot[p].generation
    BY <2>9, <2>11
  <2> QED BY <2>11, <2>12 DEF Shown
<1> QED BY <1>1, CommandsAlways, PTL DEF Spec, NoLostUpdate
=============================================================================
