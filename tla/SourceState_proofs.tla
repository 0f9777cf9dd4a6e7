-------------------------- MODULE SourceState_proofs --------------------------
(***************************************************************************)
(* For any sources, ttl, capacity and sweeping policy: the activity map,   *)
(* its queue of deadlines and the associated state agree, and a sweep      *)
(* leaves nothing behind that had expired.                                 *)
(***************************************************************************)
EXTENDS SourceState, FiniteSetTheorems, SequenceTheorems, TLAPS

\* A set of numbers that is not empty has a least one.
LEMMA LeastNumber ==
  ASSUME NEW N, N \subseteq Nat, N # {}
  PROVE  \E n \in N : \A m \in N : n <= m
<1>1. PICK n \in N : \A m \in N : ~(<<m, n>> \in OpToRel(<, Nat))
  BY NatLessThanWellFounded, WFMin, Zenon
<1>2. \A m \in N : ~(m < n)
  BY <1>1 DEF OpToRel
<1> QED
  BY <1>2, n \in Nat, \A m \in N : m \in Nat

-----------------------------------------------------------------------------
(* A map of deadlines and the queue that belongs to it.                    *)

Records == [exp : Nat, key : Names]

\* The queue is in the order of its deadlines, none beyond top.
Queued(queue, top) ==
  /\ queue \in Seq(Records)
  /\ \A i, j \in 1 .. Len(queue) : i < j => queue[i].exp <= queue[j].exp
  /\ \A i \in 1 .. Len(queue) : queue[i].exp <= top

\* Finitely many sources, whose records are in the queue.
Live(map, queue) ==
  /\ IsFiniteSet(DOMAIN map) /\ DOMAIN map \subseteq Names
  /\ \A s \in DOMAIN map : map[s] \in Nat
  /\ \A s \in DOMAIN map : \E i \in 1 .. Len(queue) : queue[i] = Record(s, map[s])

LEMMA QueueTypes ==
  ASSUME NEW queue, NEW top, Queued(queue, top)
  PROVE  /\ Len(queue) \in Nat /\ DOMAIN queue = 1 .. Len(queue)
         /\ \A i \in 1 .. Len(queue) :
              queue[i] \in Records /\ queue[i].exp \in Nat /\ queue[i].key \in Names
<1>1. queue \in Seq(Records)
  BY DEF Queued
<1>2. \A r \in Records : r.exp \in Nat /\ r.key \in Names
  BY DEF Records
<1> QED BY <1>1, <1>2, LenProperties, ElementOfSeq

\* The queue after its k oldest records are popped.
LEMMA RestQueue ==
  ASSUME NEW queue, NEW top, Queued(queue, top), NEW k \in 0 .. Len(queue)
  PROVE  /\ Queued(Rest(queue, k), top)
         /\ \A i \in 1 .. Len(Rest(queue, k)) :
              i + k \in 1 .. Len(queue) /\ Rest(queue, k)[i] = queue[i + k]
         /\ \A i \in 1 .. Len(queue) : i > k =>
              i - k \in 1 .. Len(Rest(queue, k)) /\ Rest(queue, k)[i - k] = queue[i]
<1> DEFINE w == Rest(queue, k)
<1>1. Len(queue) \in Nat /\ \A i \in 1 .. Len(queue) : queue[i] \in Records
  BY QueueTypes
<1>2. \A i \in k + 1 .. Len(queue) : queue[i] \in Records
  BY <1>1
<1>3. w = SubSeq(queue, k + 1, Len(queue))
  BY DEF Rest
<1>4. k + 1 \in Int /\ Len(queue) \in Int
  BY <1>1
<1> HIDE DEF w
<1>5. /\ w \in Seq(Records)
      /\ Len(w) = IF k + 1 <= Len(queue) THEN Len(queue) - (k + 1) + 1 ELSE 0
      /\ \A i \in 1 .. Len(queue) - (k + 1) + 1 : w[i] = queue[k + 1 + i - 1]
  BY <1>2, <1>3, <1>4, SubSeqProperties
<1>6. Len(w) = Len(queue) - k
  <2>1. k + 1 <= Len(queue) => Len(queue) - (k + 1) + 1 = Len(queue) - k
    BY <1>1
  <2>2. ~(k + 1 <= Len(queue)) => Len(queue) - k = 0
    BY <1>1
  <2> QED BY <1>5, <2>1, <2>2
<1>7. \A i \in 1 .. Len(w) : i + k \in 1 .. Len(queue) /\ w[i] = queue[i + k]
  <2> TAKE i \in 1 .. Len(w)
  <2>1. /\ i \in 1 .. Len(queue) - (k + 1) + 1 /\ k + 1 + i - 1 = i + k
        /\ i + k \in 1 .. Len(queue)
    BY <1>1, <1>6
  <2> QED BY <1>5, <2>1
<1>8. \A i \in 1 .. Len(queue) : i > k => i - k \in 1 .. Len(w) /\ w[i - k] = queue[i]
  <2> TAKE i \in 1 .. Len(queue)
  <2>1. i > k => i - k \in 1 .. Len(w) /\ (i - k) + k = i
    BY <1>1, <1>6
  <2> QED BY <1>7, <2>1
<1>9. ASSUME NEW i \in 1 .. Len(w), NEW j \in 1 .. Len(w), i < j
      PROVE  w[i].exp <= w[j].exp
  <2>1. i + k < j + k
    BY <1>1, <1>6, <1>9
  <2> QED BY <1>7, <2>1 DEF Queued
<1>10. \A i \in 1 .. Len(w) : w[i].exp <= top
  BY <1>7 DEF Queued
<1> QED BY <1>5, <1>7, <1>8, <1>9, <1>10 DEF w, Queued

\* _sweep pops the records that are due and no other.
LEMMA DueRecords ==
  ASSUME now \in Nat, NEW queue, NEW top, Queued(queue, top)
  PROVE  /\ Due(queue) \in 0 .. Len(queue)
         /\ \A i \in 1 .. Len(queue) : queue[i].exp <= now <=> i <= Due(queue)
<1> DEFINE N == {k \in 0 .. Len(queue) : k < Len(queue) => queue[k + 1].exp > now}
           Stops(k) == /\ \A i \in 1 .. k : queue[i].exp <= now
                       /\ k < Len(queue) => queue[k + 1].exp > now
<1>1. Len(queue) \in Nat /\ \A i \in 1 .. Len(queue) : queue[i].exp \in Nat
  BY QueueTypes
<1>2. N \subseteq Nat /\ Len(queue) \in N
  BY <1>1
<1>3. PICK k \in N : \A m \in N : k <= m
  BY <1>2, LeastNumber
<1>4. ASSUME NEW i \in 1 .. k, ~(queue[i].exp <= now)
      PROVE  FALSE
  <2>1. i - 1 \in 0 .. Len(queue) /\ (i - 1) + 1 = i /\ ~(k <= i - 1) /\ queue[i].exp > now
    BY <1>1, <1>4
  <2>2. i - 1 \in N
    BY <2>1
  <2> QED BY <1>3, <2>1, <2>2
<1>5. k \in 0 .. Len(queue) /\ Stops(k)
  BY <1>4
<1>6. Due(queue) = CHOOSE j \in 0 .. Len(queue) : Stops(j)
  BY DEF Due
<1> DEFINE n == Due(queue)
<1> HIDE DEF Stops, n
<1>7. n \in 0 .. Len(queue) /\ Stops(n)
  BY <1>5, <1>6 DEF n
<1>8. ASSUME NEW i \in 1 .. Len(queue), i > n
      PROVE  queue[i].exp > now
  <2>1. n + 1 \in 1 .. Len(queue) /\ n < Len(queue) /\ (n + 1 = i \/ n + 1 < i)
    BY <1>1, <1>7, <1>8
  <2>2. queue[n + 1].exp > now
    BY <1>7, <2>1 DEF Stops
  <2>3. queue[n + 1].exp <= queue[i].exp
    <3>1. queue[i].exp <= queue[i].exp
      BY <1>1
    <3> QED BY <2>1, <3>1 DEF Queued
  <2> QED BY <1>1, <2>1, <2>2, <2>3
<1>9. ASSUME NEW i \in 1 .. Len(queue), i <= n
      PROVE  queue[i].exp <= now
  <2>1. i \in 1 .. n
    BY <1>7, <1>9
  <2> QED BY <1>7, <2>1 DEF Stops
<1>10. \A i \in 1 .. Len(queue) : queue[i].exp <= now <=> i <= n
  <2> TAKE i \in 1 .. Len(queue)
  <2>1. i > n \/ i <= n
    BY <1>7
  <2>2. i > n => ~(i <= n)
    BY <1>7
  <2>3. queue[i].exp > now => ~(queue[i].exp <= now)
    BY <1>1
  <2> QED BY <1>8, <1>9, <2>1, <2>2, <2>3
<1> QED BY <1>7, <1>10 DEF n

\* A sweep leaves the sources that have not expired, each with its record.
LEMMA SweptLive ==
  ASSUME now \in Nat, NEW queue, NEW top, Queued(queue, top), NEW map, Live(map, queue)
  PROVE  LET left == Restricted(map, DOMAIN map \ Swept(map, queue))
             rest == Rest(queue, Due(queue))
         IN  /\ Live(left, rest)
             /\ \A s \in DOMAIN left : s \in DOMAIN map /\ left[s] = map[s] /\ left[s] > now
             /\ \A i \in 1 .. Len(rest) : rest[i].exp > now
<1> DEFINE n == Due(queue)
           left == Restricted(map, DOMAIN map \ Swept(map, queue))
           rest == Rest(queue, n)
<1>1. Len(queue) \in Nat /\ \A i \in 1 .. Len(queue) : queue[i].exp \in Nat
  BY QueueTypes
<1>2. n \in 0 .. Len(queue) /\ \A i \in 1 .. Len(queue) : queue[i].exp <= now <=> i <= n
  BY DueRecords
<1>3. DOMAIN left = DOMAIN map \ Swept(map, queue) /\ \A s \in DOMAIN left : left[s] = map[s]
  BY DEF Restricted
<1> HIDE DEF n, left, rest
<1>4. /\ \A i \in 1 .. Len(rest) : i + n \in 1 .. Len(queue) /\ rest[i] = queue[i + n]
      /\ \A i \in 1 .. Len(queue) : i > n => i - n \in 1 .. Len(rest) /\ rest[i - n] = queue[i]
      /\ Queued(rest, top)
  BY <1>2, RestQueue DEF rest
<1>5. \A i \in 1 .. Len(rest) : rest[i].exp > now
  <2> TAKE i \in 1 .. Len(rest)
  <2>1. Len(rest) \in Nat /\ rest[i].exp \in Nat
    BY <1>4, QueueTypes
  <2>2. ~(i + n <= n)
    BY <1>2, <2>1
  <2>3. ~(rest[i].exp <= now)
    BY <1>2, <1>4, <2>2
  <2> QED BY <2>1, <2>3
<1>6. ASSUME NEW s \in DOMAIN left
      PROVE  /\ s \in DOMAIN map /\ left[s] = map[s] /\ left[s] > now
             /\ \E i \in 1 .. Len(rest) : rest[i] = Record(s, left[s])
  <2>1. s \in DOMAIN map /\ left[s] = map[s] /\ s \notin Swept(map, queue) /\ map[s] \in Nat
    BY <1>3 DEF Live
  <2>2. PICK i \in 1 .. Len(queue) : queue[i] = Record(s, map[s])
    BY <2>1 DEF Live
  <2>3. queue[i].exp = map[s]
    BY <2>2 DEF Record
  <2>4. ~(i <= n)
    <3>1. SUFFICES ASSUME i <= n PROVE FALSE
      OBVIOUS
    <3>2. i \in 1 .. n
      BY <1>2, <3>1
    <3>3. Record(s, map[s]) \in Prefix(queue, n)
      BY <2>2, <3>2 DEF Prefix
    <3>4. map[s] <= now
      BY <1>2, <2>3, <3>1
    <3> QED BY <2>1, <3>3, <3>4 DEF Swept, n
  <2>5. i > n /\ map[s] > now
    <3>1. i > n
      BY <1>2, <2>4
    <3>2. ~(map[s] <= now)
      BY <1>2, <2>3, <2>4
    <3> QED BY <2>1, <3>1, <3>2
  <2> QED BY <1>4, <2>1, <2>2, <2>5
<1>7. IsFiniteSet(DOMAIN left) /\ DOMAIN left \subseteq Names
  BY <1>3, FS_Subset DEF Live
<1>8. Live(left, rest)
  BY <1>6, <1>7 DEF Live
<1> QED BY <1>5, <1>6, <1>8 DEF left, rest, n

\* _evict_oldest comes down to max_entries, and leaves the sources whose own
\* records it has not popped.
LEMMA EvictedLive ==
  ASSUME NEW queue, NEW top, Queued(queue, top), NEW map, Live(map, queue)
  PROVE  LET k == Popped(map, queue)
             left == Restricted(map, Left(map, queue, k))
         IN  /\ k \in 0 .. Len(queue)
             /\ Left(map, queue, k) \subseteq DOMAIN map
             /\ Cardinality(Left(map, queue, k)) <= MaxEntries
             /\ Live(left, Rest(queue, k))
<1> DEFINE Few(k) == k = Len(queue) \/ Cardinality(Left(map, queue, k)) <= MaxEntries
           N == {k \in 0 .. Len(queue) : Few(k)}
           Stops(k) == /\ Few(k)
                       /\ k > 0 => Cardinality(Left(map, queue, k - 1)) > MaxEntries
<1>1. Len(queue) \in Nat /\ DOMAIN queue = 1 .. Len(queue)
  BY QueueTypes
<1>2. N \subseteq Nat /\ Len(queue) \in N
  BY <1>1
<1>3. PICK k \in N : \A m \in N : k <= m
  BY <1>2, LeastNumber
<1>4. \A i \in Nat : Left(map, queue, i) \subseteq DOMAIN map /\ Cardinality(Left(map, queue, i)) \in Nat
  <2> TAKE i \in Nat
  <2> DEFINE L == Left(map, queue, i)
             D == DOMAIN map
  <2>1. L \subseteq D /\ IsFiniteSet(D)
    BY DEF Left, Live
  <2> HIDE DEF L, D
  <2>2. IsFiniteSet(L)
    BY <2>1, FS_Subset
  <2>3. Cardinality(L) \in Nat
    BY <2>2, FS_CardinalityType
  <2> QED BY <2>1, <2>3 DEF L, D
<1>5. MaxEntries \in Nat
  BY SourceStateAssumption DEF SourceStateAssumption
<1>6. k > 0 => Cardinality(Left(map, queue, k - 1)) > MaxEntries
  <2>1. SUFFICES ASSUME k > 0 PROVE Cardinality(Left(map, queue, k - 1)) > MaxEntries
    OBVIOUS
  <2>2. k - 1 \in 0 .. Len(queue) /\ k - 1 \in Nat /\ ~(k <= k - 1)
    <3>1. k \in 0 .. Len(queue) /\ Len(queue) \in Nat
      BY <1>1
    <3> QED BY ONLY <2>1, <3>1
  <2>3. ~(Cardinality(Left(map, queue, k - 1)) <= MaxEntries)
    BY <1>3, <2>2
  <2> QED BY <1>4, <1>5, <2>2, <2>3
<1>7. k \in 0 .. Len(queue) /\ Stops(k)
  BY <1>6
<1>8. Popped(map, queue) = CHOOSE j \in 0 .. Len(queue) : Stops(j)
  BY DEF Popped
<1> DEFINE n == Popped(map, queue)
<1> HIDE DEF Stops, n
<1>9. n \in 0 .. Len(queue) /\ Stops(n)
  BY <1>7, <1>8 DEF n
<1> DEFINE keys == Left(map, queue, n)
           left == Restricted(map, keys)
           rest == Rest(queue, n)
<1>10. keys \subseteq DOMAIN map /\ IsFiniteSet(keys)
  <2> DEFINE D == DOMAIN map
  <2>1. keys \subseteq D /\ IsFiniteSet(D)
    BY DEF Left, Live
  <2> HIDE DEF keys, D
  <2>2. IsFiniteSet(keys)
    BY <2>1, FS_Subset
  <2> QED BY <2>1, <2>2 DEF D
<1>11. ASSUME NEW s \in keys
       PROVE  /\ map[s] \in Nat
              /\ \E i \in 1 .. Len(queue) : i > n /\ queue[i] = Record(s, map[s])
  <2>1. PICK i \in 1 .. Len(queue) : queue[i] = Record(s, map[s])
    BY <1>10 DEF Live
  <2>2. i > n
    <3>1. SUFFICES ASSUME ~(i > n) PROVE FALSE
      OBVIOUS
    <3>2. i \in 1 .. n
      <4>1. n \in 0 .. Len(queue) /\ i \in 1 .. Len(queue) /\ Len(queue) \in Nat
        BY <1>1, <1>9
      <4> QED BY ONLY <3>1, <4>1
    <3>3. queue[i] \in Prefix(queue, n) /\ queue[i].key = s
      BY <2>1, <3>2 DEF Prefix, Record
    <3>4. s \in {r.key : r \in Prefix(queue, n)}
      BY <3>3
    <3> QED BY <3>4 DEF Left
  <2>3. map[s] \in Nat
    BY <1>10 DEF Live
  <2> QED BY <2>1, <2>2, <2>3
<1>12. Cardinality(keys) <= MaxEntries
  <2>1. CASE n = Len(queue)
    <3>1. keys = {}
      <4>1. ASSUME NEW s \in keys
            PROVE  FALSE
        <5>1. PICK i \in 1 .. Len(queue) : i > n
          BY <1>11
        <5>2. i \in 1 .. Len(queue) /\ Len(queue) \in Nat
          BY <1>1
        <5> QED BY ONLY <2>1, <5>1, <5>2
      <4> QED BY <4>1
    <3> QED BY <3>1, <1>5, FS_EmptySet
  <2>2. CASE n # Len(queue)
    BY <1>9, <2>2 DEF Stops
  <2> QED BY <2>1, <2>2
<1> HIDE DEF keys
<1>13. DOMAIN left = keys /\ \A s \in keys : left[s] = map[s]
  BY DEF Restricted
<1> HIDE DEF left, rest
<1>14. \A i \in 1 .. Len(queue) : i > n => i - n \in 1 .. Len(rest) /\ rest[i - n] = queue[i]
  BY <1>9, RestQueue DEF rest
<1>15. ASSUME NEW s \in keys
       PROVE  \E i \in 1 .. Len(rest) : rest[i] = Record(s, left[s])
  <2>1. PICK i \in 1 .. Len(queue) : i > n /\ queue[i] = Record(s, map[s])
    BY <1>11
  <2>2. i - n \in 1 .. Len(rest) /\ rest[i - n] = Record(s, left[s])
    BY <1>13, <1>14, <2>1
  <2> QED BY <2>2
<1>16. Live(left, rest)
  <2>1. keys \subseteq Names
    BY <1>10 DEF Live
  <2> QED BY <1>10, <1>11, <1>13, <1>15, <2>1 DEF Live
<1> QED BY <1>9, <1>10, <1>12, <1>16 DEF n, keys, left, rest

-----------------------------------------------------------------------------
(* The invariant.                                                          *)

\* A map and its queue at time t, with nothing due at the time of the sweep.
Kept(map, queue, t, sweep) ==
  /\ Queued(queue, t + Ttl) /\ Live(map, queue)
  /\ \A s \in DOMAIN map : map[s] > sweep /\ map[s] <= t + Ttl
  /\ \A i \in 1 .. Len(queue) : queue[i].exp > sweep

SourceInv ==
  /\ now \in Nat /\ lastSweep \in 0 .. now
  /\ ops \in 0 .. OpsPerSweep /\ (ops < OpsPerSweep \/ ops = 0)
  /\ Kept(d, q, now, lastSweep)
  /\ Cardinality(DOMAIN d) <= MaxEntries
  /\ DOMAIN d \subseteq perS /\ perS \subseteq Names

LEMMA Bounds == Ttl \in Nat \ {0} /\ Ttl > 0 /\ MaxEntries \in Nat /\ OpsPerSweep \in Nat
BY SourceStateAssumption DEF SourceStateAssumption

LEMMA NothingKept ==
  ASSUME NEW t \in Nat, NEW sweep
  PROVE  /\ Kept(<<>>, <<>>, t, sweep)
         /\ DOMAIN <<>> = {} /\ Cardinality(DOMAIN <<>>) <= MaxEntries
<1>1. Len(<<>>) = 0 /\ <<>> \in Seq(Records) /\ DOMAIN <<>> = {} /\ 1 .. 0 = {}
  OBVIOUS
<1>2. Queued(<<>>, t + Ttl)
  BY <1>1 DEF Queued
<1>3. IsFiniteSet({}) /\ Cardinality({}) = 0
  BY FS_EmptySet
<1>4. Live(<<>>, <<>>)
  BY <1>1, <1>3 DEF Live
<1>5. 0 <= MaxEntries
  BY Bounds
<1> QED BY <1>1, <1>2, <1>3, <1>4, <1>5 DEF Kept

\* A deadline of s set now is the last of the queue.
LEMMA SetKept ==
  ASSUME SourceInv, NEW s \in Names
  PROVE  LET set == With(s, now + Ttl)
         IN  /\ Kept(set, Append(q, Record(s, now + Ttl)), now, lastSweep)
             /\ DOMAIN set = DOMAIN d \cup {s}
<1> DEFINE top == now + Ttl
           r == Record(s, top)
           set == With(s, top)
           queue == Append(q, r)
<1>1. now \in Nat /\ lastSweep \in 0 .. now /\ Kept(d, q, now, lastSweep)
  BY DEF SourceInv
<1>2. top \in Nat /\ top > lastSweep /\ top <= top
  BY <1>1, Bounds
<1>3. DOMAIN set = DOMAIN d \cup {s} /\ \A x \in DOMAIN set : set[x] = IF x = s THEN top ELSE d[x]
  BY DEF With
<1>4. Queued(q, top) /\ Live(d, q)
  BY <1>1 DEF Kept
<1>5. /\ \A x \in DOMAIN d : d[x] > lastSweep /\ d[x] <= top
      /\ \A i \in 1 .. Len(q) : q[i].exp > lastSweep
  BY <1>1 DEF Kept
<1>6. r \in Records /\ r.exp = top
  BY <1>2 DEF Record, Records
<1> HIDE DEF top, set, r
<1>7. Len(q) \in Nat /\ q \in Seq(Records)
  BY <1>4, QueueTypes DEF Queued
<1>8. /\ queue \in Seq(Records) /\ Len(queue) = Len(q) + 1
      /\ \A i \in 1 .. Len(q) : queue[i] = q[i]
      /\ queue[Len(q) + 1] = r
  BY <1>6, <1>7, AppendProperties
<1> HIDE DEF queue
<1>9. \A i \in 1 .. Len(queue) : i \in 1 .. Len(q) \/ i = Len(q) + 1
  BY <1>7, <1>8
<1>10. \A i \in 1 .. Len(q) : i \in 1 .. Len(queue) /\ i # Len(q) + 1
  BY <1>7, <1>8
<1>11. Len(q) + 1 \in 1 .. Len(queue)
  BY <1>7, <1>8
<1>12. Queued(queue, top)
  <2>1. \A i \in 1 .. Len(queue) : queue[i].exp <= top
    BY <1>2, <1>4, <1>6, <1>8, <1>9 DEF Queued
  <2>2. ASSUME NEW i \in 1 .. Len(queue), NEW j \in 1 .. Len(queue), i < j
        PROVE  queue[i].exp <= queue[j].exp
    <3>1. i \in 1 .. Len(q)
      BY <1>7, <1>8, <2>2
    <3>2. CASE j = Len(q) + 1
      BY <3>2, <2>1, <1>6, <1>8
    <3>3. CASE j \in 1 .. Len(q)
      BY <3>1, <3>3, <2>2, <1>4, <1>8 DEF Queued
    <3> QED BY <3>2, <3>3, <1>9
  <2> QED BY <1>8, <2>1, <2>2 DEF Queued
<1>13. \A i \in 1 .. Len(queue) : queue[i].exp > lastSweep
  BY <1>2, <1>5, <1>6, <1>8, <1>9
<1>14. Live(set, queue)
  <2>1. IsFiniteSet(DOMAIN d) /\ DOMAIN d \subseteq Names
    BY <1>4 DEF Live
  <2>2. IsFiniteSet(DOMAIN d \cup {s})
    BY <2>1, FS_AddElement
  <2>3. \A x \in DOMAIN set : set[x] \in Nat
    BY <1>2, <1>3, <1>4 DEF Live
  <2>4. ASSUME NEW x \in DOMAIN set
        PROVE  \E i \in 1 .. Len(queue) : queue[i] = Record(x, set[x])
    <3>1. CASE x = s
      BY <3>1, <1>3, <1>8, <1>11 DEF r
    <3>2. CASE x # s
      <4>1. x \in DOMAIN d /\ set[x] = d[x]
        BY <3>2, <1>3
      <4>2. PICK i \in 1 .. Len(q) : q[i] = Record(x, d[x])
        BY <4>1, <1>4 DEF Live
      <4> QED BY <4>1, <4>2, <1>8, <1>10
    <3> QED BY <3>1, <3>2
  <2> QED BY <1>3, <2>1, <2>2, <2>3, <2>4 DEF Live
<1>15. \A x \in DOMAIN set : set[x] > lastSweep /\ set[x] <= top
  BY <1>2, <1>3, <1>5
<1>16. Kept(set, queue, now, lastSweep)
  BY <1>12, <1>13, <1>14, <1>15 DEF Kept, top
<1> QED BY <1>3, <1>16 DEF top, set, r, queue

LEMMA TouchStep ==
  ASSUME SourceInv, NEW s \in Names, Touch(s)
  PROVE  SourceInv'
<1> DEFINE set == With(s, now + Ttl)
           set_q == Append(q, Record(s, now + Ttl))
           swept == IF SweepDue
                    THEN Restricted(set, DOMAIN set \ Swept(set, set_q)) ELSE set
           swept_q == IF SweepDue THEN Rest(set_q, Due(set_q)) ELSE set_q
           k == Popped(swept, swept_q)
           left == Left(swept, swept_q, k)
           sweep == IF SweepDue THEN now ELSE lastSweep
<1>1. /\ d' = Restricted(swept, left) /\ q' = Rest(swept_q, k)
      /\ ops' = Counted /\ lastSweep' = sweep /\ now' = now
      /\ perS' = Associated(DOMAIN set \ left, s)
  BY DEF Touch
<1>2. now \in Nat /\ lastSweep \in 0 .. now /\ ops \in 0 .. OpsPerSweep
  BY DEF SourceInv
<1>3. Kept(set, set_q, now, lastSweep) /\ DOMAIN set = DOMAIN d \cup {s}
  BY SetKept
<1> HIDE DEF set, set_q
<1>4. Kept(swept, swept_q, now, sweep) /\ DOMAIN swept \subseteq DOMAIN set
  <2> DEFINE map == Restricted(set, DOMAIN set \ Swept(set, set_q))
             queue == Rest(set_q, Due(set_q))
  <2>1. /\ Live(map, queue)
        /\ \A x \in DOMAIN map : x \in DOMAIN set /\ map[x] = set[x] /\ map[x] > now
        /\ \A i \in 1 .. Len(queue) : queue[i].exp > now
    BY <1>2, <1>3, SweptLive DEF Kept
  <2>2. Queued(queue, now + Ttl)
    <3>1. Due(set_q) \in 0 .. Len(set_q)
      BY <1>2, <1>3, DueRecords DEF Kept
    <3> QED BY <1>3, <3>1, RestQueue DEF Kept
  <2> HIDE DEF map, queue
  <2>3. Kept(map, queue, now, now)
    BY <1>3, <2>1, <2>2 DEF Kept
  <2>4. SweepDue => swept = map /\ swept_q = queue /\ sweep = now
    BY DEF map, queue
  <2>5. ~SweepDue => swept = set /\ swept_q = set_q /\ sweep = lastSweep
    OBVIOUS
  <2> HIDE DEF swept, swept_q, sweep
  <2> QED BY <1>3, <2>1, <2>3, <2>4, <2>5
<1>5. sweep \in 0 .. now
  BY <1>2
<1> HIDE DEF swept, swept_q, sweep
<1> DEFINE map == Restricted(swept, left)
           queue == Rest(swept_q, k)
<1>6. /\ k \in 0 .. Len(swept_q) /\ left \subseteq DOMAIN swept
      /\ Cardinality(left) <= MaxEntries /\ Live(map, queue)
  BY <1>4, EvictedLive DEF Kept
<1> HIDE DEF k, left
<1>7. DOMAIN map = left /\ \A x \in left : map[x] = swept[x]
  BY DEF Restricted
<1>8. /\ Queued(queue, now + Ttl)
      /\ \A i \in 1 .. Len(queue) : queue[i].exp > sweep
  <2>1. /\ Queued(queue, now + Ttl)
        /\ \A i \in 1 .. Len(queue) :
             i + k \in 1 .. Len(swept_q) /\ queue[i] = swept_q[i + k]
    BY <1>4, <1>6, RestQueue DEF Kept
  <2> HIDE DEF queue
  <2> QED BY <2>1, <1>4 DEF Kept
<1> HIDE DEF map, queue
<1>9. Kept(map, queue, now, sweep)
  BY <1>4, <1>6, <1>7, <1>8 DEF Kept
<1>10. Counted \in 0 .. OpsPerSweep /\ (Counted < OpsPerSweep \/ Counted = 0)
  <2>1. CASE SweepDue
    BY <2>1, Bounds DEF Counted
  <2>2. CASE ~SweepDue
    <3>1. Counted = ops + 1 /\ ~(ops + 1 >= OpsPerSweep)
      BY <2>2 DEF Counted, SweepDue
    <3>2. ops \in Nat /\ OpsPerSweep \in Nat
      BY <1>2, Bounds
    <3> QED BY ONLY <3>1, <3>2
  <2> QED BY <2>1, <2>2
<1>11. left \subseteq perS' /\ perS' \subseteq Names
  <2>1. DOMAIN d \subseteq perS /\ perS \subseteq Names
    BY DEF SourceInv
  <2>2. left \subseteq DOMAIN d \cup {s}
    BY <1>3, <1>4, <1>6
  <2> QED BY <1>1, <2>1, <2>2 DEF Associated
<1>12. d' = map /\ q' = queue
  BY <1>1 DEF map, queue
<1>13. /\ now' \in Nat /\ lastSweep' \in 0 .. now' /\ Kept(d', q', now', lastSweep')
       /\ Cardinality(DOMAIN d') <= MaxEntries /\ DOMAIN d' \subseteq perS'
  BY <1>1, <1>2, <1>5, <1>6, <1>7, <1>9, <1>11, <1>12
<1>14. ops' \in 0 .. OpsPerSweep /\ (ops' < OpsPerSweep \/ ops' = 0)
  BY <1>1, <1>10
<1> QED BY <1>11, <1>13, <1>14 DEF SourceInv

LEMMA StepSource ==
  ASSUME SourceInv, [Next]_vars
  PROVE  SourceInv'
<1>1. ASSUME NEW s \in Names, Touch(s)
      PROVE  SourceInv'
  BY <1>1, TouchStep
<1>2. CASE Reset
  <2>1. /\ d' = <<>> /\ q' = <<>> /\ ops' = 0 /\ lastSweep' = now /\ perS' = {} /\ now' = now
    BY <1>2 DEF Reset
  <2>2. now \in Nat
    BY DEF SourceInv
  <2>3. Kept(d', q', now', lastSweep') /\ DOMAIN d' = {} /\ Cardinality(DOMAIN d') <= MaxEntries
    BY <2>1, <2>2, NothingKept
  <2>4. ops' \in 0 .. OpsPerSweep /\ lastSweep' \in 0 .. now' /\ now' \in Nat
    BY <2>1, <2>2, Bounds
  <2> QED BY <2>1, <2>3, <2>4 DEF SourceInv
<1>3. CASE Tick
  <2>1. /\ now' = now + 1 /\ d' = d /\ q' = q /\ ops' = ops
        /\ lastSweep' = lastSweep /\ perS' = perS
    BY <1>3 DEF Tick
  <2>2. now \in Nat /\ lastSweep \in 0 .. now
    BY DEF SourceInv
  <2>3. Kept(d, q, now', lastSweep)
    <3> DEFINE top == now + Ttl
               up == now' + Ttl
    <3>1. top \in Nat /\ up \in Nat /\ top <= up
      BY <2>1, <2>2, Bounds
    <3>2. /\ Queued(q, top) /\ Live(d, q)
          /\ \A s \in DOMAIN d : d[s] > lastSweep /\ d[s] <= top
          /\ \A i \in 1 .. Len(q) : q[i].exp > lastSweep
      BY DEF SourceInv, Kept
    <3> HIDE DEF top, up
    <3>3. Queued(q, up)
      <4>1. \A i \in 1 .. Len(q) : q[i].exp \in Nat
        BY <3>2, QueueTypes
      <4> QED BY <3>1, <3>2, <4>1 DEF Queued
    <3>4. \A s \in DOMAIN d : d[s] <= up
      <4>1. \A s \in DOMAIN d : d[s] \in Nat
        BY <3>2 DEF Live
      <4> QED BY <3>1, <3>2, <4>1
    <3> QED BY <3>2, <3>3, <3>4 DEF Kept, up
  <2>4. now' \in Nat /\ lastSweep' \in 0 .. now'
    BY <2>1, <2>2
  <2>5. Kept(d', q', now', lastSweep')
    BY <2>1, <2>3
  <2> QED BY <2>1, <2>4, <2>5 DEF SourceInv
<1>4. CASE UNCHANGED vars
  BY <1>4 DEF vars, SourceInv
<1> QED BY <1>1, <1>2, <1>3, <1>4 DEF Next

\* The invariant holds in every state.
LEMMA SourceAlways == Spec => []SourceInv
<1>1. Init => SourceInv
  <2>1. SUFFICES ASSUME Init PROVE SourceInv
    OBVIOUS
  <2>2. now = 0 /\ d = <<>> /\ q = <<>> /\ ops = 0 /\ lastSweep = 0 /\ perS = {}
    BY <2>1 DEF Init
  <2>3. Kept(d, q, now, lastSweep) /\ DOMAIN d = {} /\ Cardinality(DOMAIN d) <= MaxEntries
    BY <2>2, NothingKept
  <2>4. ops \in 0 .. OpsPerSweep /\ lastSweep \in 0 .. now /\ now \in Nat
    BY <2>2, Bounds
  <2> QED BY <2>2, <2>3, <2>4 DEF SourceInv
<1>2. SourceInv /\ [Next]_vars => SourceInv'
  BY StepSource
<1> QED BY <1>1, <1>2, PTL DEF Spec

\* The activity map stays within S_CACHE_MAX, its queue in the order of its
\* deadlines, and no live source loses its record or its associated state,
\* however many stale records _sweep and _evict_oldest pop on the way.
THEOREM SourcesAreConsistent == Spec => []Consistent
<1>1. ASSUME SourceInv
      PROVE  Consistent
  <2>1. /\ now \in Nat /\ Queued(q, now + Ttl) /\ Live(d, q)
        /\ \A s \in DOMAIN d : d[s] <= now + Ttl
        /\ lastSweep \in 0 .. now /\ ops \in 0 .. OpsPerSweep
        /\ Cardinality(DOMAIN d) <= MaxEntries
        /\ DOMAIN d \subseteq perS /\ perS \subseteq Names
    BY <1>1 DEF SourceInv, Kept
  <2>2. DOMAIN q = 1 .. Len(q)
    BY <2>1, QueueTypes
  <2>3. \A s \in DOMAIN d : d[s] \in 0 .. now + Ttl
    <3>1. now + Ttl \in Nat
      BY <2>1, Bounds
    <3>2. \A s \in DOMAIN d : d[s] \in Nat
      BY <2>1 DEF Live
    <3> QED BY <2>1, <3>1, <3>2
  <2>4. DOMAIN d \subseteq Names
    BY <2>1 DEF Live
  <2>5. \A i, j \in DOMAIN q : i < j => q[i].exp <= q[j].exp
    BY <2>1, <2>2 DEF Queued
  <2>6. TypeOK
    BY <2>1, <2>3, <2>4, <2>5 DEF TypeOK
  <2>7. LiveAreQueued
    BY <2>1, <2>2 DEF LiveAreQueued, Live
  <2> QED BY <2>1, <2>6, <2>7 DEF Consistent, LiveHaveState
<1> QED BY <1>1, SourceAlways, PTL

\* What a sweep should have removed is gone: no source and no record, stale ones
\* included, was due when _sweep ran last, which bounds the queue by what is
\* touched within a ttl and between two sweeps.
THEOREM SweepsAreThorough == Spec => []NoneOverstays
<1>1. ASSUME SourceInv
      PROVE  NoneOverstays
  <2>1. /\ Queued(q, now + Ttl)
        /\ \A s \in DOMAIN d : d[s] > lastSweep
        /\ \A i \in 1 .. Len(q) : q[i].exp > lastSweep
        /\ ops < OpsPerSweep \/ ops = 0
    BY <1>1 DEF SourceInv, Kept
  <2>2. DOMAIN q = 1 .. Len(q)
    BY <2>1, QueueTypes
  <2> QED BY <2>1, <2>2 DEF NoneOverstays
<1> QED BY <1>1, SourceAlways, PTL
=============================================================================
