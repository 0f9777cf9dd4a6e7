--------------------------- MODULE Admission_proofs ---------------------------
(***************************************************************************)
(* For any number of readers, any capacity and any routing history: the    *)
(* permits of the admission queue match its slots, no wake-up is lost, and *)
(* frames are queued in the order of their routing generations.            *)
(***************************************************************************)
EXTENDS Admission, FiniteSetTheorems, SequenceTheorems, TLAPS

\* Well-formed waiters: asleep in q, granted in g.
Waiters(q, g) ==
  /\ q \in Seq(Requests)
  /\ g \subseteq Requests
  /\ IsFiniteSet(g)
  /\ OneWaitEach(q, g)

\* The strengthening: what is typed stays countable.
IInv ==
  /\ TypeOK
  /\ IsFiniteSet(granted)
  /\ PermitsAreSlots

\* Handing a permit to the longest sleeper keeps the waiters well-formed.
LEMMA GrantHead ==
  ASSUME NEW q, NEW g, Waiters(q, g), q # <<>>
  PROVE  /\ Waiters(Tail(q), g \cup {Head(q)})
         /\ Cardinality(g \cup {Head(q)}) = Cardinality(g) + 1
         /\ Cardinality(g) \in Nat
<1>1. /\ Head(q) \in Requests
      /\ Tail(q) \in Seq(Requests)
      /\ \A i \in 1 .. Len(q) - 1 : Tail(q)[i] = q[i + 1]
      /\ Head(q) = q[1]
      /\ Len(q) \in Nat \ {0}
      /\ DOMAIN q = 1 .. Len(q)
      /\ DOMAIN Tail(q) = 1 .. Len(q) - 1
  BY DEF Waiters
<1>2. Head(q) \notin g
  BY <1>1 DEF Waiters, OneWaitEach
<1>3. /\ IsFiniteSet(g \cup {Head(q)})
      /\ Cardinality(g \cup {Head(q)}) = Cardinality(g) + 1
      /\ Cardinality(g) \in Nat
  BY <1>2, FS_AddElement, FS_CardinalityType DEF Waiters
<1>4. OneWaitEach(Tail(q), g \cup {Head(q)})
  <2>1. \A i, j \in DOMAIN Tail(q) : Tail(q)[i].reader = Tail(q)[j].reader => i = j
    BY <1>1 DEF Waiters, OneWaitEach
  <2>2. \A x, w \in g \cup {Head(q)} : x.reader = w.reader => x = w
    BY <1>1 DEF Waiters, OneWaitEach
  <2>3. \A i \in DOMAIN Tail(q), w \in g \cup {Head(q)} : Tail(q)[i].reader # w.reader
    BY <1>1 DEF Waiters, OneWaitEach
  <2> QED BY <2>1, <2>2, <2>3 DEF OneWaitEach
<1> QED BY <1>1, <1>3, <1>4 DEF Waiters

\* Waking the longest sleeper moves a permit and loses none.
LEMMA WakeMoves ==
  ASSUME NEW v \in Nat, NEW q, NEW g, Waiters(q, g), v > 0 \/ q = <<>>, Wake(v, q, g)
  PROVE  /\ value' \in Nat
         /\ Waiters(sleeping', granted')
         /\ value' + Cardinality(granted') = v + Cardinality(g)
         /\ value' > 0 /\ sleeping' # <<>> => granted' # {}
<1>1. CASE q = <<>>
  <2>1. value' = v /\ sleeping' = q /\ granted' = g
    BY <1>1 DEF Wake
  <2> QED BY <1>1, <2>1, FS_CardinalityType DEF Waiters
<1>2. CASE q # <<>>
  <2>1. value' = v - 1 /\ sleeping' = Tail(q) /\ granted' = g \cup {Head(q)}
    BY <1>2 DEF Wake
  <2>2. /\ Waiters(Tail(q), g \cup {Head(q)})
        /\ Cardinality(g \cup {Head(q)}) = Cardinality(g) + 1
        /\ Cardinality(g) \in Nat
    BY <1>2, GrantHead
  <2>3. Waiters(sleeping', granted')
    BY <2>1, <2>2
  <2>4. value' \in Nat /\ value' + Cardinality(granted') = v + Cardinality(g)
    BY <1>2, <2>1, <2>2
  <2> QED BY <2>1, <2>3, <2>4
<1> QED BY <1>1, <1>2

\* Dropping a granted request keeps the others well-formed.
LEMMA DropGranted ==
  ASSUME NEW q, NEW g, NEW w \in g, Waiters(q, g)
  PROVE  /\ Waiters(q, g \ {w})
         /\ Cardinality(g) \in Nat \ {0}
         /\ Cardinality(g \ {w}) = Cardinality(g) - 1
<1>1. /\ IsFiniteSet(g \ {w})
      /\ Cardinality(g \ {w}) = Cardinality(g) - 1
      /\ Cardinality(g) \in Nat
      /\ Cardinality(g \ {w}) \in Nat
  BY FS_RemoveElement, FS_CardinalityType DEF Waiters
<1>2. Waiters(q, g \ {w})
  BY <1>1 DEF Waiters, OneWaitEach
<1> QED BY <1>1, <1>2

\* What a removal from the middle of a sequence leaves.
LEMMA RemoveAtLeaves ==
  ASSUME NEW S, NEW q \in Seq(S), NEW i \in 1 .. Len(q)
  PROVE  /\ RemoveAt(q, i) \in Seq(S)
         /\ Len(RemoveAt(q, i)) = Len(q) - 1
         /\ \A j \in 1 .. Len(q) - 1 :
              RemoveAt(q, i)[j] = IF j < i THEN q[j] ELSE q[j + 1]
<1> DEFINE a == SubSeq(q, 1, i - 1)
           b == SubSeq(q, i + 1, Len(q))
<1>1. /\ a \in Seq(S)
      /\ Len(a) = i - 1
      /\ \A j \in 1 .. i - 1 : a[j] = q[j]
  BY SubSeqProperties
<1>2. /\ b \in Seq(S)
      /\ Len(b) = Len(q) - i
      /\ \A j \in 1 .. Len(q) - i : b[j] = q[j + i]
  BY SubSeqProperties
<1> HIDE DEF a, b
<1>3. /\ a \o b \in Seq(S)
      /\ Len(a \o b) = Len(q) - 1
      /\ \A j \in 1 .. Len(q) - 1 : (a \o b)[j] = IF j < i THEN q[j] ELSE q[j + 1]
  <2>1. /\ a \o b \in Seq(S)
        /\ Len(a \o b) = Len(a) + Len(b)
        /\ \A j \in 1 .. Len(a) + Len(b) :
             (a \o b)[j] = IF j <= Len(a) THEN a[j] ELSE b[j - Len(a)]
    BY <1>1, <1>2, ConcatProperties
  <2>2. Len(a) + Len(b) = Len(q) - 1
    BY <1>1, <1>2
  <2>3. ASSUME NEW j \in 1 .. Len(q) - 1
        PROVE  (a \o b)[j] = IF j < i THEN q[j] ELSE q[j + 1]
    <3>1. CASE j < i
      <4>1. j \in 1 .. i - 1 /\ j <= Len(a)
        BY <1>1, <3>1
      <4> QED BY <1>1, <2>1, <2>2, <3>1, <4>1
    <3>2. CASE ~(j < i)
      <4>1. /\ ~(j <= Len(a))
            /\ j - Len(a) \in 1 .. Len(q) - i
            /\ (j - Len(a)) + i = j + 1
        BY <1>1, <3>2
      <4> QED BY <1>2, <2>1, <2>2, <3>2, <4>1
    <3> QED BY <3>1, <3>2
  <2> QED BY <2>1, <2>2, <2>3
<1> QED BY <1>3 DEF RemoveAt, a, b

\* A sequence over a set is one over every larger set.
LEMMA SeqMono == ASSUME NEW S, NEW T, S \subseteq T, NEW s \in Seq(S) PROVE s \in Seq(T)
OBVIOUS

\* The invariant holds at the start.
LEMMA InitIInv == ASSUME AdmissionAssumption, Init PROVE IInv
<1>1. IsFiniteSet({}) /\ Cardinality({}) = 0
  BY FS_EmptySet
<1> QED
  BY <1>1 DEF AdmissionAssumption, Init, IInv, TypeOK, OneWaitEach, PermitsAreSlots

\* What IInv says of the waiters and the numbers, in the lemmas' terms.
LEMMA FromIInv ==
  ASSUME AdmissionAssumption, IInv
  PROVE  /\ Waiters(sleeping, granted)
         /\ value \in Nat /\ Capacity \in Nat /\ generation \in Nat
         /\ Len(work) \in Nat /\ Cardinality(granted) \in Nat
         /\ value + Cardinality(granted) + Len(work) = Capacity
BY FS_CardinalityType
   DEF AdmissionAssumption, IInv, TypeOK, PermitsAreSlots, Waiters

\* The way back, for a step under one generation.
LEMMA ToIInv ==
  ASSUME AdmissionAssumption, generation \in Nat, UNCHANGED generation,
         value' \in Nat, Waiters(sleeping', granted'),
         work' \in Seq([frame : Frames, generation : 0 .. generation]),
         value' + Cardinality(granted') + Len(work') = Capacity
  PROVE  IInv'
<1>1. Len(work') \in Nat /\ Cardinality(granted') \in Nat
  BY FS_CardinalityType DEF Waiters
<1>2. value' \in 0 .. Capacity
  BY <1>1 DEF AdmissionAssumption
<1> QED BY <1>1, <1>2 DEF IInv, TypeOK, PermitsAreSlots, Waiters, Requests

\* An appended item is a well-formed one.
LEMMA BoundAppends ==
  ASSUME IInv, NEW w, w.frame \in Frames
  PROVE  /\ Append(work, Bound(w)) \in Seq([frame : Frames, generation : 0 .. generation])
         /\ Len(Append(work, Bound(w))) = Len(work) + 1
BY DEF IInv, TypeOK, Bound

\* A reader that stops waiting, with the permit it was handed, passes a wake-up
\* on: one granted request less, no free permit more.
LEMMA LeavePasses ==
  ASSUME AdmissionAssumption, IInv, NEW w \in granted, Leave(w)
  PROVE  /\ value' \in Nat
         /\ Waiters(sleeping', granted')
         /\ value' + Cardinality(granted') = value + Cardinality(granted) - 1
         /\ value' > 0 /\ sleeping' # <<>> => granted' # {}
<1>1. Waiters(sleeping, granted) /\ value \in Nat
  BY FromIInv
<1>2. /\ Waiters(sleeping, granted \ {w})
      /\ Cardinality(granted) \in Nat \ {0}
      /\ Cardinality(granted \ {w}) = Cardinality(granted) - 1
  BY <1>1, DropGranted
<1>3. CASE value > 0
  <2>1. Wake(value, sleeping, granted \ {w})
    BY <1>3 DEF Leave
  <2> QED BY <1>1, <1>2, <1>3, <2>1, WakeMoves
<1>4. CASE ~(value > 0)
  <2>1. UNCHANGED <<value, sleeping>> /\ granted' = granted \ {w}
    BY <1>4 DEF Leave
  <2> QED BY <1>1, <1>2, <1>4, <2>1
<1> QED BY <1>3, <1>4

\* A reader that gives its permit back: the permit is free, or the next sleeper's.
LEMMA ReturnMoves ==
  ASSUME AdmissionAssumption, IInv, NEW w \in granted,
         ReleaseAfterFailure(w) \/ Release(sleeping, granted \ {w})
  PROVE  /\ value' \in Nat
         /\ Waiters(sleeping', granted')
         /\ value' + Cardinality(granted') = value + Cardinality(granted)
         /\ value' > 0 /\ sleeping' # <<>> => granted' # {}
<1>1. Waiters(sleeping, granted) /\ value \in Nat
  BY FromIInv
<1>2. /\ Waiters(sleeping, granted \ {w})
      /\ Cardinality(granted) \in Nat \ {0}
      /\ Cardinality(granted \ {w}) = Cardinality(granted) - 1
  BY <1>1, DropGranted
<1>3. CASE Release(sleeping, granted \ {w})
  <2>1. Wake(value + 1, sleeping, granted \ {w}) /\ value + 1 \in Nat /\ value + 1 > 0
    BY <1>1, <1>3 DEF Release
  <2> QED BY <1>1, <1>2, <2>1, WakeMoves
<1>4. CASE value > 0 /\ sleeping # <<>> /\ ReleaseAfterFailure(w)
  <2> DEFINE q == Tail(sleeping)
             g == (granted \ {w}) \cup {Head(sleeping)}
  <2>1. Wake(value, q, g)
    BY <1>4 DEF ReleaseAfterFailure
  <2>2. Waiters(q, g) /\ Cardinality(g) = Cardinality(granted \ {w}) + 1
    BY <1>2, <1>4, GrantHead
  <2> HIDE DEF q, g
  <2> QED BY <1>1, <1>2, <1>4, <2>1, <2>2, WakeMoves
<1>5. CASE ~(value > 0 /\ sleeping # <<>>) /\ ReleaseAfterFailure(w)
  BY <1>3, <1>5 DEF ReleaseAfterFailure
<1> QED BY <1>3, <1>4, <1>5

\* Every step keeps the permits counted and the waiters well-formed.
LEMMA StepIInv == ASSUME AdmissionAssumption, IInv, [Next]_vars PROVE IInv'
<1> DEFINE Items == Seq([frame : Frames, generation : 0 .. generation])
<1>0. /\ Waiters(sleeping, granted)
      /\ value \in Nat /\ Capacity \in Nat /\ generation \in Nat
      /\ Len(work) \in Nat /\ Cardinality(granted) \in Nat
      /\ value + Cardinality(granted) + Len(work) = Capacity
      /\ work \in Items
  BY FromIInv DEF IInv, TypeOK
<1>1. ASSUME NEW r \in Readers, NEW f \in Frames, AdmitNow(r, f), UNCHANGED generation
      PROVE  IInv'
  <2>1. Request(r, f).frame \in Frames
    BY DEF Request
  <2>2. work' \in Items /\ Len(work') = Len(work) + 1
    BY <1>1, <2>1, BoundAppends DEF AdmitNow
  <2>3. value > 0 /\ value' = value - 1 /\ UNCHANGED <<sleeping, granted>>
    BY <1>1 DEF AdmitNow, Free
  <2>4. Waiters(sleeping', granted') /\ Cardinality(granted') = Cardinality(granted)
    BY <1>0, <2>3
  <2> QED BY <1>0, <1>1, <2>2, <2>3, <2>4, ToIInv
<1>2. ASSUME NEW r \in Readers, NEW f \in Frames, AdmitLater(r, f), UNCHANGED generation
      PROVE  IInv'
  <2>1. sleeping' = Append(sleeping, Request(r, f)) /\ UNCHANGED <<value, granted, work>>
    BY <1>2 DEF AdmitLater
  <2>2. Request(r, f) \in Requests /\ Request(r, f).reader = r
    BY <1>0 DEF Request, Requests
  <2>3. /\ \A i \in DOMAIN sleeping : sleeping[i].reader # r
        /\ \A w \in granted : w.reader # r
    BY <1>2 DEF AdmitLater, Busy, Waiting
  <2>4. sleeping \in Seq(Requests) /\ OneWaitEach(sleeping, granted)
    BY <1>0 DEF Waiters
  <2>5. /\ sleeping' \in Seq(Requests)
        /\ DOMAIN sleeping = 1 .. Len(sleeping) /\ Len(sleeping) \in Nat
        /\ DOMAIN sleeping' = 1 .. Len(sleeping) + 1
        /\ \A i \in DOMAIN sleeping : sleeping'[i] = sleeping[i]
        /\ sleeping'[Len(sleeping) + 1].reader = r
    BY <2>1, <2>2, <2>4
  <2>6. OneWaitEach(sleeping', granted')
    <3>1. ASSUME NEW i \in DOMAIN sleeping', NEW j \in DOMAIN sleeping',
                 sleeping'[i].reader = sleeping'[j].reader
          PROVE  i = j
      BY <2>3, <2>4, <2>5, <3>1 DEF OneWaitEach
    <3>2. ASSUME NEW i \in DOMAIN sleeping', NEW w \in granted'
          PROVE  sleeping'[i].reader # w.reader
      BY <2>1, <2>3, <2>4, <2>5, <3>2 DEF OneWaitEach
    <3> QED BY <2>1, <2>4, <3>1, <3>2 DEF OneWaitEach
  <2>7. Waiters(sleeping', granted') /\ Cardinality(granted') = Cardinality(granted)
    BY <1>0, <2>1, <2>5, <2>6 DEF Waiters
  <2> QED BY <1>0, <1>2, <2>1, <2>7, ToIInv
<1>3. ASSUME NEW w \in granted, Resume(w), UNCHANGED generation
      PROVE  IInv'
  <2>1. w.frame \in Frames
    BY <1>0 DEF Waiters, Requests
  <2>2. work' \in Items /\ Len(work') = Len(work) + 1
    BY <1>3, <2>1, BoundAppends DEF Resume
  <2>3. /\ value' \in Nat
        /\ Waiters(sleeping', granted')
        /\ value' + Cardinality(granted') = value + Cardinality(granted) - 1
    BY <1>3, LeavePasses DEF Resume
  <2>4. Cardinality(granted') \in Nat
    BY <2>3, FS_CardinalityType DEF Waiters
  <2>5. value' + Cardinality(granted') + Len(work') = Capacity
    <3> HIDE DEF Items
    <3>1. Len(work') = Len(work) + 1
      BY <2>2
    <3>2. value' + Cardinality(granted') = value + Cardinality(granted) - 1
      BY <2>3
    <3>3. value + Cardinality(granted) + Len(work) = Capacity
      BY <1>0
    <3> QED BY <1>0, <2>3, <2>4, <3>1, <3>2, <3>3
  <2> QED BY <1>0, <1>3, <2>2, <2>3, <2>5, ToIInv
<1>4. ASSUME NEW w \in granted, BindingFails(w) \/ CancelGranted(w), UNCHANGED generation
      PROVE  IInv'
  <2>1. /\ value' \in Nat
        /\ Waiters(sleeping', granted')
        /\ value' + Cardinality(granted') = value + Cardinality(granted)
    BY <1>4, ReturnMoves DEF BindingFails, CancelGranted
  <2>2. work' = work
    BY <1>4 DEF BindingFails, CancelGranted
  <2>3. Cardinality(granted') \in Nat
    BY <2>1, FS_CardinalityType DEF Waiters
  <2> QED BY <1>0, <1>4, <2>1, <2>2, <2>3, ToIInv
<1>5. ASSUME NEW w, CancelSleeping(w), UNCHANGED generation
      PROVE  IInv'
  <2>1. PICK i \in DOMAIN sleeping : sleeping' = RemoveAt(sleeping, i)
    BY <1>5 DEF CancelSleeping
  <2>2. UNCHANGED <<value, granted, work>>
    BY <1>5 DEF CancelSleeping
  <2>3. sleeping \in Seq(Requests) /\ i \in 1 .. Len(sleeping)
    BY <1>0 DEF Waiters
  <2>4. /\ sleeping' \in Seq(Requests)
        /\ Len(sleeping') = Len(sleeping) - 1
        /\ \A j \in 1 .. Len(sleeping) - 1 :
             sleeping'[j] = IF j < i THEN sleeping[j] ELSE sleeping[j + 1]
    BY <2>1, <2>3, RemoveAtLeaves
  <2>5. DOMAIN sleeping' = 1 .. Len(sleeping) - 1 /\ Len(sleeping) \in Nat
        /\ DOMAIN sleeping = 1 .. Len(sleeping)
    BY <2>3, <2>4
  <2> DEFINE at(j) == IF j < i THEN j ELSE j + 1
  <2>6. OneWaitEach(sleeping', granted)
    <3>1. \A j \in DOMAIN sleeping' :
            at(j) \in DOMAIN sleeping /\ sleeping'[j] = sleeping[at(j)]
      BY <2>3, <2>4, <2>5
    <3>2. \A j, k \in DOMAIN sleeping' : at(j) = at(k) => j = k
      BY <2>3, <2>5
    <3> HIDE DEF at
    <3>3. OneWaitEach(sleeping, granted)
      BY <1>0 DEF Waiters
    <3>4. \A j, k \in DOMAIN sleeping' :
            sleeping'[j].reader = sleeping'[k].reader => j = k
      <4>1. \A a, b \in DOMAIN sleeping : sleeping[a].reader = sleeping[b].reader => a = b
        BY <3>3 DEF OneWaitEach
      <4> QED BY ONLY <3>1, <3>2, <4>1
    <3>5. ASSUME NEW j \in DOMAIN sleeping', NEW x \in granted
          PROVE  sleeping'[j].reader # x.reader
      <4>1. \A i2 \in DOMAIN sleeping : sleeping[i2].reader # x.reader
        BY <3>3 DEF OneWaitEach
      <4> QED BY <3>1, <4>1
    <3> QED BY <3>3, <3>4, <3>5 DEF OneWaitEach
  <2>7. Waiters(sleeping', granted') /\ Cardinality(granted') = Cardinality(granted)
    BY <1>0, <2>2, <2>4, <2>6 DEF Waiters
  <2> QED BY <1>0, <1>5, <2>2, <2>7, ToIInv
<1>6. ASSUME Take, UNCHANGED generation
      PROVE  IInv'
  <2>1. work' \in Items /\ Len(work') = Len(work) - 1 /\ Len(work) > 0
    BY <1>0, <1>6 DEF Take
  <2>2. Wake(value + 1, sleeping, granted) /\ value + 1 \in Nat /\ value + 1 > 0
    BY <1>0, <1>6 DEF Take, Release
  <2>3. /\ value' \in Nat
        /\ Waiters(sleeping', granted')
        /\ value' + Cardinality(granted') = value + 1 + Cardinality(granted)
    BY <1>0, <2>2, WakeMoves
  <2>4. Cardinality(granted') \in Nat
    BY <2>3, FS_CardinalityType DEF Waiters
  <2> QED BY <1>0, <1>6, <2>1, <2>3, <2>4, ToIInv
<1>7. CASE Replace
  <2>1. generation' = generation + 1 /\ UNCHANGED <<value, sleeping, granted, work>>
    BY <1>7 DEF Replace, admissionVars, semaphoreVars
  <2>2. 0 .. generation \subseteq 0 .. generation'
    BY <1>0, <2>1
  <2>3. sleeping' \in Seq(Requests') /\ granted' \subseteq Requests'
    <3>1. Requests \subseteq Requests'
      BY <2>2 DEF Requests
    <3> QED BY <1>0, <2>1, <3>1 DEF Waiters
  <2>4. work' \in Seq([frame : Frames, generation : 0 .. generation'])
    <3>1. [frame : Frames, generation : 0 .. generation]
            \subseteq [frame : Frames, generation : 0 .. generation']
      BY <2>2
    <3> HIDE DEF Items
    <3>2. work' \in Seq([frame : Frames, generation : 0 .. generation])
      BY <1>0, <2>1 DEF Items
    <3> QED BY <3>1, <3>2, SeqMono
  <2>5. generation' \in Nat
    BY <1>0, <2>1
  <2> QED BY <2>1, <2>3, <2>4, <2>5 DEF IInv, TypeOK, PermitsAreSlots, OneWaitEach
<1>8. CASE UNCHANGED vars
  BY <1>8 DEF vars, admissionVars, semaphoreVars, IInv, TypeOK, PermitsAreSlots,
              OneWaitEach, Requests
<1> HIDE DEF Items
<1>9. ASSUME NEW w \in Waiting, Reader(w), UNCHANGED generation
      PROVE  IInv'
  <2>1. CASE w \in granted /\ ~CancelSleeping(w)
    BY <1>3, <1>4, <1>9, <2>1 DEF Reader
  <2>2. CASE CancelSleeping(w)
    BY <1>5, <1>9, <2>2
  <2>3. CASE w \notin granted
    BY <1>5, <1>9, <2>3 DEF Reader, Resume, BindingFails, CancelGranted
  <2> QED BY <2>1, <2>2, <2>3
<1> QED BY <1>1, <1>2, <1>6, <1>7, <1>8, <1>9 DEF Next, Admit

\* No step leaves a sleeper beside a free permit without somebody to wake it.
LEMMA StepWakeup ==
  ASSUME AdmissionAssumption, IInv, NoLostWakeup, [Next]_vars
  PROVE  NoLostWakeup'
<1>0. Waiters(sleeping, granted) /\ value \in Nat
  BY FromIInv
<1>1. ASSUME NEW r \in Readers, NEW f \in Frames, AdmitNow(r, f)
      PROVE  NoLostWakeup'
  BY <1>1 DEF AdmitNow, Free, NoLostWakeup
<1>2. ASSUME NEW r \in Readers, NEW f \in Frames, AdmitLater(r, f)
      PROVE  NoLostWakeup'
  <2>1. value > 0 => granted # {}
    BY <1>2 DEF AdmitLater, Free, NoLostWakeup
  <2> QED BY <1>2, <2>1 DEF AdmitLater, NoLostWakeup
<1>3. ASSUME NEW w \in granted, Resume(w) PROVE NoLostWakeup'
  BY <1>3, LeavePasses DEF Resume, NoLostWakeup
<1>4. ASSUME NEW w \in granted, BindingFails(w) \/ CancelGranted(w) PROVE NoLostWakeup'
  BY <1>4, ReturnMoves DEF BindingFails, CancelGranted, NoLostWakeup
<1>5. ASSUME NEW w, CancelSleeping(w) PROVE NoLostWakeup'
  BY <1>0, <1>5 DEF CancelSleeping, NoLostWakeup, Waiters
<1>6. CASE Take
  <2>1. Wake(value + 1, sleeping, granted) /\ value + 1 \in Nat /\ value + 1 > 0
    BY <1>0, <1>6 DEF Take, Release
  <2> QED BY <1>0, <2>1, WakeMoves DEF NoLostWakeup
<1>7. CASE Replace \/ UNCHANGED vars
  BY <1>7 DEF Replace, vars, admissionVars, semaphoreVars, NoLostWakeup
<1>8. ASSUME NEW w \in Waiting, Reader(w) PROVE NoLostWakeup'
  BY <1>3, <1>4, <1>5, <1>8 DEF Reader, Resume, BindingFails, CancelGranted
<1> QED BY <1>1, <1>2, <1>6, <1>7, <1>8 DEF Next, Admit

\* What enters the queue is bound to the generation in force, the newest.
LEMMA StepGenerations ==
  ASSUME AdmissionAssumption, IInv, GenerationsInOrder, [Next]_vars
  PROVE  GenerationsInOrder'
<1>0. /\ work \in Seq([frame : Frames, generation : 0 .. generation])
      /\ generation \in Nat
  BY DEF IInv, TypeOK
<1>1. ASSUME NEW w, w.frame \in Frames, work' = Append(work, Bound(w))
      PROVE  GenerationsInOrder'
  <2>1. /\ Bound(w) \in [frame : Frames, generation : 0 .. generation]
        /\ Bound(w).generation = generation
    BY <1>0, <1>1 DEF Bound
  <2> DEFINE Item == [frame : Frames, generation : 0 .. generation]
  <2>2. work \in Seq(Item) /\ Bound(w) \in Item
    BY <1>0, <2>1
  <2>3. \A x \in Item : x.generation \in 0 .. generation
    OBVIOUS
  <2> HIDE DEF Item
  <2>4. /\ Len(work) \in Nat
        /\ DOMAIN work = 1 .. Len(work)
        /\ DOMAIN work' = 1 .. Len(work) + 1
        /\ \A i \in DOMAIN work : work'[i] = work[i]
        /\ work'[Len(work) + 1] = Bound(w)
        /\ \A i \in DOMAIN work : work[i].generation \in 0 .. generation
    BY <1>1, <2>2, <2>3
  <2>5. ASSUME NEW i \in DOMAIN work', NEW j \in DOMAIN work', i < j
        PROVE  work'[i].generation <= work'[j].generation
    <3>1. i \in DOMAIN work /\ work'[i] = work[i]
      BY <2>4, <2>5
    <3>2. CASE j \in DOMAIN work
      BY <2>4, <2>5, <3>1, <3>2 DEF GenerationsInOrder
    <3>3. CASE j = Len(work) + 1
      BY <1>0, <2>1, <2>4, <3>1, <3>3
    <3> QED BY <2>4, <3>2, <3>3
  <2> QED BY <2>5 DEF GenerationsInOrder
<1>2. CASE work' = work
  BY <1>2 DEF GenerationsInOrder
<1>3. CASE work # <<>> /\ work' = Tail(work)
  <2>1. /\ Len(work) \in Nat
        /\ DOMAIN work = 1 .. Len(work)
        /\ DOMAIN work' = 1 .. Len(work) - 1
        /\ \A i \in DOMAIN work' : work'[i] = work[i + 1]
    BY <1>0, <1>3
  <2> QED BY <2>1 DEF GenerationsInOrder
<1>4. ASSUME NEW r \in Readers, NEW f \in Frames, Admit(r, f) PROVE GenerationsInOrder'
  <2>1. Request(r, f).frame \in Frames
    BY DEF Request
  <2> QED BY <1>1, <1>2, <1>4, <2>1 DEF Admit, AdmitNow, AdmitLater
<1>5. ASSUME NEW w \in Waiting, Reader(w) PROVE GenerationsInOrder'
  <2>1. CASE Resume(w)
    <3>1. w.frame \in Frames
      BY <2>1 DEF Resume, IInv, TypeOK, Requests
    <3> QED BY <1>1, <2>1, <3>1 DEF Resume
  <2> QED
    BY <1>2, <1>5, <2>1 DEF Reader, BindingFails, CancelGranted, CancelSleeping
<1> QED
  BY <1>2, <1>3, <1>4, <1>5 DEF Next, Take, Replace, vars, admissionVars

-----------------------------------------------------------------------------
(* Who waits, after each operation (used by module Runtime_proofs).         *)

\* A sequence has its head and what its tail has.
LEMMA HeadAndTail ==
  ASSUME NEW S, NEW q \in Seq(S), q # <<>>
  PROVE  {q[i] : i \in DOMAIN q} = {Tail(q)[i] : i \in DOMAIN Tail(q)} \cup {Head(q)}
<1>0. /\ Len(q) \in Nat \ {0} /\ DOMAIN q = 1 .. Len(q) /\ Head(q) = q[1]
      /\ DOMAIN Tail(q) = 1 .. Len(q) - 1
      /\ \A i \in 1 .. Len(q) - 1 : Tail(q)[i] = q[i + 1]
  OBVIOUS
<1>1. ASSUME NEW i \in DOMAIN q
      PROVE  q[i] \in {Tail(q)[j] : j \in DOMAIN Tail(q)} \cup {Head(q)}
  <2>1. CASE i = 1
    BY <1>0, <2>1
  <2>2. CASE i # 1
    <3>1. i - 1 \in DOMAIN Tail(q) /\ Tail(q)[i - 1] = q[i]
      BY <1>0, <2>2
    <3> QED BY <3>1
  <2> QED BY <2>1, <2>2
<1>2. ASSUME NEW j \in DOMAIN Tail(q) PROVE Tail(q)[j] \in {q[i] : i \in DOMAIN q}
  <2>1. j + 1 \in DOMAIN q /\ Tail(q)[j] = q[j + 1]
    BY <1>0
  <2> QED BY <2>1
<1>3. Head(q) \in {q[i] : i \in DOMAIN q}
  BY <1>0
<1> QED BY <1>1, <1>2, <1>3

\* Waking the longest sleeper moves it, and nobody begins or ends to wait.
LEMMA WakeKeepsWaiting ==
  \A q \in Seq(Requests) : \A v, g :
    Wake(v, q, g) => Waiting' = {q[i] : i \in DOMAIN q} \cup g
<1> SUFFICES ASSUME NEW v, NEW q \in Seq(Requests), NEW g, Wake(v, q, g)
             PROVE  Waiting' = {q[i] : i \in DOMAIN q} \cup g
  OBVIOUS
<1>1. CASE q = <<>>
  BY <1>1 DEF Wake, Waiting
<1>2. CASE q # <<>>
  <2>1. sleeping' = Tail(q) /\ granted' = g \cup {Head(q)}
    BY <1>2 DEF Wake
  <2>3. {q[i] : i \in DOMAIN q} = {Tail(q)[i] : i \in DOMAIN Tail(q)} \cup {Head(q)}
    BY <1>2, HeadAndTail
  <2> QED BY <2>1, <2>3 DEF Waiting
<1> QED BY <1>1, <1>2

\* A request that was handed a permit ends its wait and no other.
LEMMA WaitEnds ==
  IInv => \A w \in granted : Resume(w) \/ BindingFails(w) \/ CancelGranted(w) =>
            Waiting' = Waiting \ {w}
<1> SUFFICES ASSUME IInv, NEW w \in granted, Resume(w) \/ BindingFails(w) \/ CancelGranted(w)
             PROVE  Waiting' = Waiting \ {w}
  OBVIOUS
<1>1. sleeping \in Seq(Requests) /\ OneWaitEach(sleeping, granted)
  BY DEF IInv, TypeOK
<1>2. \A i \in DOMAIN sleeping : sleeping[i] # w
  BY <1>1 DEF OneWaitEach
<1>3. Waiting \ {w} = {sleeping[i] : i \in DOMAIN sleeping} \cup (granted \ {w})
  BY <1>2 DEF Waiting
<1>4. CASE UNCHANGED sleeping /\ granted' = granted \ {w}
  BY <1>3, <1>4 DEF Waiting
<1>5. ASSUME NEW v, Wake(v, sleeping, granted \ {w}) PROVE Waiting' = Waiting \ {w}
  BY <1>1, <1>3, <1>5, WakeKeepsWaiting
<1>6. CASE /\ sleeping # <<>>
           /\ Wake(value, Tail(sleeping), (granted \ {w}) \cup {Head(sleeping)})
  <2> DEFINE q == Tail(sleeping)
             g == (granted \ {w}) \cup {Head(sleeping)}
  <2>1. q \in Seq(Requests)
    BY <1>1, <1>6
  <2>2. Waiting' = {q[i] : i \in DOMAIN q} \cup g
    BY <1>6, <2>1, WakeKeepsWaiting
  <2>3. {q[i] : i \in DOMAIN q} \cup {Head(sleeping)} = {sleeping[i] : i \in DOMAIN sleeping}
    BY <1>1, <1>6, HeadAndTail
  <2> QED BY <1>3, <2>2, <2>3
<1> QED
  BY <1>4, <1>5, <1>6
     DEF Resume, BindingFails, CancelGranted, Leave, ReleaseAfterFailure, Release

-----------------------------------------------------------------------------

\* _BoundedProcessingQueue never loses and never invents a slot, however readers
\* are woken, fail and are cancelled: put_nowait in admit cannot meet a full queue,
\* release cannot exceed the bound, and a reader waits at most once.
THEOREM SlotsAreConserved == ASSUME AdmissionAssumption PROVE Spec => []Consistent
<1>1. Init => IInv
  BY InitIInv
<1>2. IInv /\ [Next]_vars => IInv'
  BY StepIInv
<1>3. IInv => Consistent
  BY DEF IInv, Consistent
<1> QED BY <1>1, <1>2, <1>3, PTL DEF Spec

\* get and the failures of admit never leave a reader asleep beside a free
\* permit.
THEOREM NoWakeupIsLost == ASSUME AdmissionAssumption PROVE Spec => []NoLostWakeup
<1>1. Init => IInv /\ NoLostWakeup
  BY InitIInv DEF Init, NoLostWakeup
<1>2. IInv /\ NoLostWakeup /\ [Next]_vars => (IInv /\ NoLostWakeup)'
  BY StepIInv, StepWakeup
<1> QED BY <1>1, <1>2, PTL DEF Spec

\* Frames are queued in the order of the routing generations they are bound to,
\* those that waited for capacity included.
THEOREM BindingFollowsRouting ==
  ASSUME AdmissionAssumption PROVE Spec => []GenerationsInOrder
<1>1. Init => IInv /\ GenerationsInOrder
  BY InitIInv DEF Init, GenerationsInOrder
<1>2. IInv /\ GenerationsInOrder /\ [Next]_vars => (IInv /\ GenerationsInOrder)'
  BY StepIInv, StepGenerations
<1> QED BY <1>1, <1>2, PTL DEF Spec
=============================================================================
