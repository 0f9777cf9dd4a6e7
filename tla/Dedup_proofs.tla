----------------------------- MODULE Dedup_proofs -----------------------------
(***************************************************************************)
(* For any keys, ttl and capacity: the expiry index of the deduplicator    *)
(* mirrors its cache, so making room for a key never fails; every accepted *)
(* key is accounted for; no key is accepted twice within the ttl unless    *)
(* the cache was full or reset; none is rejected after it.                 *)
(***************************************************************************)
EXTENDS Dedup, FiniteSetTheorems, SequenceTheorems, TLAPS

-----------------------------------------------------------------------------
(* The two containers as one value c, whose times are at most t.           *)

Containers(c, t) ==
  /\ c = [cache |-> c.cache, index |-> c.index]
  /\ DOMAIN c.cache \subseteq Keys
  /\ c.cache \in [DOMAIN c.cache -> 0 .. t]
  /\ c.index \in Seq([at : 0 .. t, key : Keys])

\* What IndexMirrorsCache says of the containers.
Mirrors(c) ==
  /\ \A i \in DOMAIN c.index : Current(c, c.index[i])
  /\ \A k \in DOMAIN c.cache : \E i \in DOMAIN c.index : c.index[i].key = k
  /\ \A i, j \in DOMAIN c.index :
       i < j => /\ c.index[i].at <= c.index[j].at
                /\ c.index[i].key # c.index[j].key

Sound(c, t) == Containers(c, t) /\ Mirrors(c)

\* A set of numbers that is not empty has a least one.
LEMMA LeastNumber ==
  ASSUME NEW S, S \subseteq Nat, S # {}
  PROVE  \E n \in S : \A m \in S : n <= m
<1>1. PICK n \in S : \A m \in S : ~(<<m, n>> \in OpToRel(<, Nat))
  BY NatLessThanWellFounded, WFMin, Zenon
<1>2. \A m \in S : ~(m < n)
  BY <1>1 DEF OpToRel
<1> QED
  BY <1>2, n \in Nat, \A m \in S : m \in Nat

\* The types of a sound pair.
LEMMA SoundTypes ==
  ASSUME NEW t \in Nat, NEW c, Sound(c, t)
  PROVE  /\ Len(c.index) \in Nat /\ DOMAIN c.index = 1 .. Len(c.index)
         /\ \A i \in 1 .. Len(c.index) :
              /\ c.index[i].at \in 0 .. t
              /\ c.index[i].key \in DOMAIN c.cache
              /\ c.cache[c.index[i].key] = c.index[i].at
         /\ \A k \in DOMAIN c.cache : c.cache[k] \in 0 .. t /\ k \in Keys
<1>1. /\ c.index \in Seq([at : 0 .. t, key : Keys])
      /\ Len(c.index) \in Nat /\ DOMAIN c.index = 1 .. Len(c.index)
  BY LenProperties DEF Sound, Containers
<1>2. \A i \in 1 .. Len(c.index) : c.index[i] \in [at : 0 .. t, key : Keys]
  BY <1>1, ElementOfSeq
<1>3. \A i \in 1 .. Len(c.index) : Current(c, c.index[i])
  BY <1>1 DEF Sound, Mirrors
<1>4. c.cache \in [DOMAIN c.cache -> 0 .. t] /\ DOMAIN c.cache \subseteq Keys
  BY DEF Sound, Containers
<1> QED
  BY <1>1, <1>2, <1>3, <1>4 DEF Current

\* An index that mirrors the cache is as long as the cache is large.
LEMMA MirrorCounts ==
  ASSUME NEW t \in Nat, NEW c, Sound(c, t)
  PROVE  /\ IsFiniteSet(DOMAIN c.cache)
         /\ Cardinality(DOMAIN c.cache) = Len(c.index)
<1> DEFINE n == Len(c.index)
           f == [i \in 1 .. n |-> c.index[i].key]
<1>1. /\ n \in Nat /\ DOMAIN c.index = 1 .. n
      /\ \A i \in 1 .. n : c.index[i].key \in DOMAIN c.cache
  BY SoundTypes
<1>2. f \in [1 .. n -> DOMAIN c.cache]
  BY <1>1
<1>3. \A i, j \in 1 .. n : f[i] = f[j] => i = j
  <2> SUFFICES ASSUME NEW i \in 1 .. n, NEW j \in 1 .. n, i # j
               PROVE  f[i] # f[j]
    OBVIOUS
  <2>1. i < j \/ j < i
    BY <1>1
  <2> QED
    BY <2>1, <1>1 DEF Sound, Mirrors
<1>4. \A k \in DOMAIN c.cache : \E i \in 1 .. n : f[i] = k
  BY <1>1 DEF Sound, Mirrors
<1> HIDE DEF n, f
<1>5. f \in Bijection(1 .. n, DOMAIN c.cache)
  BY <1>2, <1>3, <1>4 DEF Bijection, Injection, IsInjective, Surjection
<1>6. ExistsBijection(1 .. n, DOMAIN c.cache)
  BY <1>5 DEF ExistsBijection
<1>7. IsFiniteSet(DOMAIN c.cache)
  BY <1>1, <1>6, FS_NatBijection
<1>8. Cardinality(DOMAIN c.cache) = n
  BY <1>1, <1>6, FS_CountingElements
<1> QED
  BY <1>7, <1>8 DEF n

-----------------------------------------------------------------------------
(* Popping the oldest entries.                                             *)

\* Popping n entries removes their keys from the cache, and nothing else.
LEMMA PopKeeps ==
  ASSUME NEW t \in Nat, NEW c, Sound(c, t), NEW n \in 0 .. Len(c.index)
  PROVE  /\ Sound(Pop(c, n), t)
         /\ Len(Pop(c, n).index) = Len(c.index) - n
         /\ \A i \in 1 .. Len(c.index) - n : Pop(c, n).index[i] = c.index[i + n]
         /\ DOMAIN Pop(c, n).cache \subseteq DOMAIN c.cache
         /\ \A k \in DOMAIN Pop(c, n).cache : Pop(c, n).cache[k] = c.cache[k]
         /\ \A i \in 1 .. Len(c.index) :
              c.index[i].key \in DOMAIN Pop(c, n).cache <=> i > n
<1> DEFINE p == Pop(c, n)
           l == Len(c.index)
<1>1. /\ l \in Nat /\ DOMAIN c.index = 1 .. l
      /\ \A i \in 1 .. l : /\ c.index[i].at \in 0 .. t
                           /\ c.index[i].key \in DOMAIN c.cache
                           /\ c.cache[c.index[i].key] = c.index[i].at
      /\ \A k \in DOMAIN c.cache : c.cache[k] \in 0 .. t /\ k \in Keys
  BY SoundTypes
<1>2. /\ c.index \in Seq([at : 0 .. t, key : Keys])
      /\ \A i \in 1 .. l : c.index[i] \in [at : 0 .. t, key : Keys]
  BY <1>1, ElementOfSeq DEF Sound, Containers
<1>3. /\ \A i \in 1 .. l : Current(c, c.index[i])
      /\ \A k \in DOMAIN c.cache : \E i \in 1 .. l : c.index[i].key = k
      /\ \A i, j \in 1 .. l :
           i < j => /\ c.index[i].at <= c.index[j].at
                    /\ c.index[i].key # c.index[j].key
  BY <1>1 DEF Sound, Mirrors
<1>4. /\ DOMAIN p.cache = DOMAIN c.cache \ Dropped(c, n)
      /\ \A k \in DOMAIN p.cache : p.cache[k] = c.cache[k]
      /\ p.index = SubSeq(c.index, n + 1, l)
      /\ p = [cache |-> p.cache, index |-> p.index]
      /\ p.cache = [k \in DOMAIN p.cache |-> p.cache[k]]
  BY DEF Pop
<1>5. Dropped(c, n) = {c.index[i].key : i \in 1 .. n}
  BY <1>1, <1>3, 1 .. n \subseteq 1 .. l DEF Dropped
<1>6. /\ p.index \in Seq([at : 0 .. t, key : Keys])
      /\ Len(p.index) = l - n
      /\ \A i \in 1 .. l - n : p.index[i] = c.index[i + n]
  <2>1. \A i \in n + 1 .. l : c.index[i] \in [at : 0 .. t, key : Keys]
    BY <1>1, <1>2
  <2>2. /\ p.index \in Seq([at : 0 .. t, key : Keys])
        /\ Len(p.index) = IF n + 1 <= l THEN l - (n + 1) + 1 ELSE 0
        /\ \A i \in 1 .. l - (n + 1) + 1 : p.index[i] = c.index[n + 1 + i - 1]
    <3> HIDE DEF p
    <3>1. n + 1 \in Int /\ l \in Int
      BY <1>1
    <3> QED
      BY <1>4, <2>1, <3>1, SubSeqProperties
  <2> HIDE DEF p, l
  <2> QED
    BY <2>2, <1>1, n \in 0 .. l DEF l
<1>7. \A i \in 1 .. l : c.index[i].key \in DOMAIN p.cache <=> i > n
  <2> SUFFICES ASSUME NEW i \in 1 .. l
               PROVE  c.index[i].key \in Dropped(c, n) <=> ~(i > n)
    BY <1>1, <1>4
  <2>1. CASE i <= n
    BY <1>5, <2>1, <1>1
  <2>2. CASE i > n
    <3>1. ASSUME NEW j \in 1 .. n
          PROVE  c.index[j].key # c.index[i].key
      <4>1. j \in 1 .. l /\ j < i
        BY <1>1, <2>2
      <4> QED
        BY <1>3, <4>1
    <3> QED
      BY <3>1, <1>5, <2>2
  <2> QED
    BY <2>1, <2>2, <1>1
<1> HIDE DEF p
<1>8. Containers(p, t)
  BY <1>1, <1>4, <1>6 DEF Containers
<1>9. Mirrors(p)
  <2>1. DOMAIN p.index = 1 .. l - n
    BY <1>6, LenProperties
  <2>2. \A i \in 1 .. l - n : /\ i + n \in 1 .. l /\ i + n > n
                             /\ p.index[i] = c.index[i + n]
    BY <1>1, <1>6
  <2>3. ASSUME NEW i \in DOMAIN p.index
        PROVE  Current(p, p.index[i])
    <3>1. i + n \in 1 .. l /\ i + n > n /\ p.index[i] = c.index[i + n]
      BY <2>1, <2>2
    <3>2. c.index[i + n].key \in DOMAIN p.cache
      BY <3>1, <1>7
    <3>3. /\ c.index[i + n].key \in DOMAIN c.cache
          /\ c.cache[c.index[i + n].key] = c.index[i + n].at
      BY <3>1, <1>1
    <3>4. p.cache[c.index[i + n].key] = c.index[i + n].at
      BY ONLY <3>2, <3>3, <1>4
    <3> QED
      BY ONLY <3>1, <3>2, <3>4 DEF Current
  <2>4. \A k \in DOMAIN p.cache : \E i \in DOMAIN p.index : p.index[i].key = k
    <3> SUFFICES ASSUME NEW k \in DOMAIN p.cache
                 PROVE  \E i \in 1 .. l - n : p.index[i].key = k
      BY <2>1
    <3>1. PICK i \in 1 .. l : c.index[i].key = k
      BY <1>3, <1>4
    <3>2. i > n
      BY <3>1, <1>7
    <3>3. i - n \in 1 .. l - n /\ p.index[i - n] = c.index[i - n + n] /\ i - n + n = i
      BY <3>2, <1>1, <1>6
    <3> QED
      BY <3>1, <3>3
  <2>5. \A i, j \in DOMAIN p.index :
          i < j => p.index[i].at <= p.index[j].at /\ p.index[i].key # p.index[j].key
    <3> SUFFICES ASSUME NEW i \in 1 .. l - n, NEW j \in 1 .. l - n, i < j
                 PROVE  p.index[i].at <= p.index[j].at /\ p.index[i].key # p.index[j].key
      BY <2>1
    <3>1. i + n < j + n
      BY <1>1
    <3>2. /\ i + n \in 1 .. l /\ p.index[i] = c.index[i + n]
          /\ j + n \in 1 .. l /\ p.index[j] = c.index[j + n]
      BY <2>2
    <3> QED
      BY <3>1, <3>2, <1>3
  <2> QED
    BY <2>3, <2>4, <2>5 DEF Mirrors
<1> QED
  BY <1>4, <1>6, <1>7, <1>8, <1>9 DEF Sound, p

\* After the pops the cache is smaller by their number.
LEMMA PopCounts ==
  ASSUME NEW t \in Nat, NEW c, Sound(c, t), NEW n \in 0 .. Len(c.index)
  PROVE  /\ IsFiniteSet(DOMAIN c.cache)
         /\ Cardinality(DOMAIN Pop(c, n).cache) = Len(c.index) - n
         /\ Cardinality(DOMAIN c.cache \ DOMAIN Pop(c, n).cache) = n
<1>1. /\ IsFiniteSet(DOMAIN c.cache) /\ Cardinality(DOMAIN c.cache) = Len(c.index)
  BY MirrorCounts
<1>2. /\ Cardinality(DOMAIN Pop(c, n).cache) = Len(c.index) - n
      /\ DOMAIN Pop(c, n).cache \subseteq DOMAIN c.cache
  <2>1. /\ Sound(Pop(c, n), t)
        /\ Len(Pop(c, n).index) = Len(c.index) - n
        /\ DOMAIN Pop(c, n).cache \subseteq DOMAIN c.cache
    BY PopKeeps
  <2>2. Cardinality(DOMAIN Pop(c, n).cache) = Len(Pop(c, n).index)
    BY <2>1, MirrorCounts
  <2> QED
    BY <2>1, <2>2
<1>3. DOMAIN c.cache \cap DOMAIN Pop(c, n).cache = DOMAIN Pop(c, n).cache
  BY <1>2
<1>4. Cardinality(DOMAIN c.cache \ DOMAIN Pop(c, n).cache) = Len(c.index) - (Len(c.index) - n)
  <2>1. Cardinality(DOMAIN c.cache \ DOMAIN Pop(c, n).cache)
          = Cardinality(DOMAIN c.cache)
            - Cardinality(DOMAIN c.cache \cap DOMAIN Pop(c, n).cache)
    BY <1>1, FS_Difference
  <2> QED
    BY <2>1, <1>1, <1>2, <1>3
<1>5. Len(c.index) \in Nat
  BY SoundTypes
<1> QED
  BY <1>1, <1>2, <1>4, <1>5

-----------------------------------------------------------------------------
(* What cleanup_expired and is_unique do to the containers.                *)

\* cleanup_expired stops at the first entry whose ttl has not passed.
LEMMA ExpiredStops ==
  ASSUME NEW t \in Nat, NEW c, Sound(c, t)
  PROVE  /\ ExpiredCount(c, t) \in 0 .. Len(c.index)
         /\ \A i \in 1 .. ExpiredCount(c, t) : TtlPassed(c.index[i], t)
         /\ ExpiredCount(c, t) < Len(c.index) =>
              ~TtlPassed(c.index[ExpiredCount(c, t) + 1], t)
<1> DEFINE l == Len(c.index)
           Stop(n) == n < l => ~TtlPassed(c.index[n + 1], t)
           S == {n \in 0 .. l : Stop(n)}
<1>1. l \in Nat
  BY SoundTypes
<1>2. S \subseteq Nat /\ l \in S
  BY <1>1
<1>3. PICK n \in S : \A m \in S : n <= m
  BY <1>2, LeastNumber
<1>4. \A i \in 1 .. n : TtlPassed(c.index[i], t)
  <2> SUFFICES ASSUME NEW i \in 1 .. n
               PROVE  TtlPassed(c.index[i], t)
    OBVIOUS
  <2>1. n \in 0 .. l
    BY <1>3
  <2>2. i - 1 \in 0 .. l /\ ~(n <= i - 1) /\ i - 1 < l /\ i - 1 + 1 = i
    BY <2>1, <1>1
  <2>3. ~Stop(i - 1)
    BY <2>2, <1>3
  <2> QED
    BY <2>2, <2>3
<1>5. \E m \in 0 .. l : /\ \A i \in 1 .. m : TtlPassed(c.index[i], t)
                        /\ m < l => ~TtlPassed(c.index[m + 1], t)
  BY <1>3, <1>4
<1> QED
  BY <1>5 DEF ExpiredCount

\* Fresh keeps the keys whose ttl has not passed, and only those.
LEMMA FreshKeeps ==
  ASSUME NEW t \in Nat, NEW c, Sound(c, t)
  PROVE  /\ Sound(Fresh(c, t), t)
         /\ IsFiniteSet(DOMAIN c.cache)
         /\ DOMAIN Fresh(c, t).cache \subseteq DOMAIN c.cache
         /\ Cardinality(DOMAIN Fresh(c, t).cache) \in Nat
         /\ Cardinality(DOMAIN c.cache \ DOMAIN Fresh(c, t).cache) \in Nat
         /\ Cardinality(DOMAIN c.cache)
              = Cardinality(DOMAIN Fresh(c, t).cache)
                + Cardinality(DOMAIN c.cache \ DOMAIN Fresh(c, t).cache)
         /\ \A k \in DOMAIN Fresh(c, t).cache : /\ Fresh(c, t).cache[k] = c.cache[k]
                                                /\ t - c.cache[k] < Ttl
         /\ \A k \in DOMAIN c.cache \ DOMAIN Fresh(c, t).cache : t - c.cache[k] >= Ttl
<1> DEFINE n == ExpiredCount(c, t)
           l == Len(c.index)
           p == Pop(c, n)
<1>1. /\ n \in 0 .. l
      /\ \A i \in 1 .. n : TtlPassed(c.index[i], t)
      /\ n < l => ~TtlPassed(c.index[n + 1], t)
  BY ExpiredStops
<1>2. /\ l \in Nat
      /\ \A i \in 1 .. l : /\ c.index[i].at \in 0 .. t
                           /\ c.index[i].key \in DOMAIN c.cache
                           /\ c.cache[c.index[i].key] = c.index[i].at
  BY SoundTypes
<1>3. /\ \A k \in DOMAIN c.cache : \E i \in 1 .. l : c.index[i].key = k
      /\ \A i, j \in 1 .. l : i < j => c.index[i].at <= c.index[j].at
  BY SoundTypes DEF Sound, Mirrors
<1> HIDE DEF n, l
<1>4. /\ Sound(p, t)
      /\ DOMAIN p.cache \subseteq DOMAIN c.cache
      /\ \A k \in DOMAIN p.cache : p.cache[k] = c.cache[k]
      /\ \A i \in 1 .. l : c.index[i].key \in DOMAIN p.cache <=> i > n
  BY <1>1, PopKeeps DEF l
<1>5. /\ IsFiniteSet(DOMAIN c.cache)
      /\ Cardinality(DOMAIN c.cache) = l
      /\ Cardinality(DOMAIN p.cache) = l - n
      /\ Cardinality(DOMAIN c.cache \ DOMAIN p.cache) = n
  BY <1>1, PopCounts, MirrorCounts DEF l
<1>6. p = Fresh(c, t)
  BY DEF Fresh, n
<1> HIDE DEF p
<1>7. ASSUME NEW k \in DOMAIN p.cache
      PROVE  t - c.cache[k] < Ttl
  <2>1. PICK i \in 1 .. l : c.index[i].key = k
    BY <1>3, <1>4
  <2>2. i > n
    BY <2>1, <1>4
  <2>3. n + 1 \in 1 .. l /\ n < l /\ (n + 1 = i \/ n + 1 < i)
    BY <2>2, <1>1, <1>2
  <2>4. c.index[n + 1].at <= c.index[i].at /\ c.index[n + 1].at \in 0 .. t
    BY <2>3, <1>2, <1>3
  <2>5. ~(t - c.index[n + 1].at >= Ttl)
    BY <2>3, <1>1 DEF TtlPassed
  <2>6. c.cache[k] = c.index[i].at /\ c.index[i].at \in 0 .. t
    BY <2>1, <1>2
  <2> QED
    BY <2>4, <2>5, <2>6, DedupCacheAssumption
<1>8. ASSUME NEW k \in DOMAIN c.cache \ DOMAIN p.cache
      PROVE  t - c.cache[k] >= Ttl
  <2>1. PICK i \in 1 .. l : c.index[i].key = k
    BY <1>3
  <2>2. i \in 1 .. n
    BY <2>1, <1>1, <1>2, <1>4
  <2> QED
    BY <2>1, <2>2, <1>1, <1>2 DEF TtlPassed
<1>9. l - n \in Nat /\ n \in Nat /\ l = (l - n) + n
  BY <1>1, <1>2
<1> QED
  BY <1>4, <1>5, <1>6, <1>7, <1>8, <1>9

\* The eviction loop stops as soon as the cache is below its limit.
LEMMA EvictionStops ==
  ASSUME NEW t \in Nat, NEW c, Sound(c, t)
  PROVE  /\ EvictedCount(c) \in 0 .. Len(c.index)
         /\ \A i \in 0 .. EvictedCount(c) - 1 : Full(c, i)
         /\ EvictedCount(c) < Len(c.index) => ~Full(c, EvictedCount(c))
<1> DEFINE l == Len(c.index)
           Stop(n) == n < l => ~Full(c, n)
           S == {n \in 0 .. l : Stop(n)}
<1>1. l \in Nat
  BY SoundTypes
<1>2. S \subseteq Nat /\ l \in S
  BY <1>1
<1>3. PICK n \in S : \A m \in S : n <= m
  BY <1>2, LeastNumber
<1>4. \A i \in 0 .. n - 1 : Full(c, i)
  <2> SUFFICES ASSUME NEW i \in 0 .. n - 1
               PROVE  Full(c, i)
    OBVIOUS
  <2>1. n \in 0 .. l
    BY <1>3
  <2>2. i \in 0 .. l /\ ~(n <= i) /\ i < l
    BY <2>1, <1>1
  <2>3. ~Stop(i)
    BY <2>2, <1>3
  <2> QED
    BY <2>2, <2>3
<1>5. \E m \in 0 .. l : /\ \A i \in 0 .. m - 1 : Full(c, i)
                        /\ m < l => ~Full(c, m)
  BY <1>3, <1>4
<1> QED
  BY <1>5 DEF EvictedCount

\* Making room never exhausts the index, and leaves room for one key.  It
\* takes a key only from a full cache, and the oldest first.
LEMMA RoomyKeeps ==
  ASSUME NEW t \in Nat, NEW c, Sound(c, t),
         Cardinality(DOMAIN c.cache) <= MaxEntries
  PROVE  /\ ~Raises(c)
         /\ Sound(Roomy(c), t)
         /\ DOMAIN Roomy(c).cache \subseteq DOMAIN c.cache
         /\ \A k \in DOMAIN Roomy(c).cache : Roomy(c).cache[k] = c.cache[k]
         /\ Cardinality(DOMAIN Roomy(c).cache) \in Nat
         /\ Cardinality(DOMAIN Roomy(c).cache) < MaxEntries
         /\ Cardinality(DOMAIN c.cache \ DOMAIN Roomy(c).cache) \in Nat
         /\ Cardinality(DOMAIN c.cache)
              = Cardinality(DOMAIN Roomy(c).cache)
                + Cardinality(DOMAIN c.cache \ DOMAIN Roomy(c).cache)
         /\ \A v \in DOMAIN c.cache \ DOMAIN Roomy(c).cache :
              /\ Cardinality(DOMAIN Roomy(c).cache) + 1 = MaxEntries
              /\ \A k \in DOMAIN Roomy(c).cache : c.cache[v] <= c.cache[k]
<1> DEFINE n == EvictedCount(c)
           l == Len(c.index)
           p == Pop(c, n)
<1>1. /\ n \in 0 .. l
      /\ \A i \in 0 .. n - 1 : Full(c, i)
      /\ n < l => ~Full(c, n)
  BY EvictionStops
<1>2. /\ l \in Nat
      /\ \A i \in 1 .. l : /\ c.index[i].at \in 0 .. t
                           /\ c.index[i].key \in DOMAIN c.cache
                           /\ c.cache[c.index[i].key] = c.index[i].at
  BY SoundTypes
<1>3. /\ \A k \in DOMAIN c.cache : \E i \in 1 .. l : c.index[i].key = k
      /\ \A i, j \in 1 .. l : i < j => c.index[i].at <= c.index[j].at
  BY SoundTypes DEF Sound, Mirrors
<1> HIDE DEF n, l
<1>4. /\ Sound(p, t)
      /\ DOMAIN p.cache \subseteq DOMAIN c.cache
      /\ \A k \in DOMAIN p.cache : p.cache[k] = c.cache[k]
      /\ \A i \in 1 .. l : c.index[i].key \in DOMAIN p.cache <=> i > n
  BY <1>1, PopKeeps DEF l
<1>5. /\ IsFiniteSet(DOMAIN c.cache)
      /\ Cardinality(DOMAIN c.cache) = l
      /\ Cardinality(DOMAIN p.cache) = l - n
      /\ Cardinality(DOMAIN c.cache \ DOMAIN p.cache) = n
  BY <1>1, PopCounts, MirrorCounts DEF l
<1>6. \A i \in 0 .. l : Full(c, i) <=> l - i >= MaxEntries
  BY PopCounts DEF Full, l
<1>7. l - n < MaxEntries /\ ~Full(c, n)
  <2>1. n < l \/ n = l
    BY <1>1, <1>2
  <2>2. MaxEntries \in Nat \ {0}
    BY DedupCacheAssumption
  <2> QED
    BY <2>1, <2>2, <1>1, <1>2, <1>6
<1>8. n # 0 => l - n + 1 = MaxEntries
  <2> SUFFICES ASSUME n # 0 PROVE l - n + 1 = MaxEntries
    OBVIOUS
  <2>1. n - 1 \in 0 .. n - 1 /\ n - 1 \in 0 .. l
    BY <1>1, <1>2
  <2>2. l - (n - 1) >= MaxEntries
    BY <2>1, <1>1, <1>6
  <2> QED
    BY <2>2, <1>1, <1>2, <1>7, DedupCacheAssumption
<1>9. ASSUME NEW v \in DOMAIN c.cache \ DOMAIN p.cache
      PROVE  /\ n # 0
             /\ \A k \in DOMAIN p.cache : c.cache[v] <= c.cache[k]
  <2>1. PICK i \in 1 .. l : c.index[i].key = v
    BY <1>3
  <2>2. i \in 1 .. n
    BY <2>1, <1>1, <1>2, <1>4
  <2>3. ASSUME NEW k \in DOMAIN p.cache
        PROVE  c.cache[v] <= c.cache[k]
    <3>1. PICK j \in 1 .. l : c.index[j].key = k
      BY <1>3, <1>4
    <3>2. i < j
      BY <3>1, <2>2, <1>1, <1>2, <1>4
    <3> QED
      BY <3>1, <3>2, <2>1, <1>2, <1>3
  <2> QED
    BY <2>2, <2>3, <1>1, <1>2
<1>10. p = Roomy(c) /\ (Raises(c) <=> Full(c, n))
  BY DEF Roomy, Raises, n
<1>11. l - n \in Nat /\ n \in Nat /\ l = (l - n) + n
  BY <1>1, <1>2
<1> HIDE DEF p
<1> QED
  BY <1>4, <1>5, <1>7, <1>8, <1>9, <1>10, <1>11

\* Inserting a key that is not cached keeps the pair sound.
LEMMA InsertKeeps ==
  ASSUME NEW t \in Nat, NEW c, Sound(c, t), NEW key \in Keys,
         key \notin DOMAIN c.cache
  PROVE  /\ Sound(Insert(c, key, t), t)
         /\ DOMAIN Insert(c, key, t).cache = DOMAIN c.cache \cup {key}
         /\ \A k \in DOMAIN c.cache : Insert(c, key, t).cache[k] = c.cache[k]
         /\ Insert(c, key, t).cache[key] = t
         /\ Cardinality(DOMAIN Insert(c, key, t).cache) = Cardinality(DOMAIN c.cache) + 1
<1> DEFINE p == Insert(c, key, t)
           l == Len(c.index)
<1>1. /\ l \in Nat
      /\ \A i \in 1 .. l : /\ c.index[i].at \in 0 .. t
                           /\ c.index[i].key \in DOMAIN c.cache
                           /\ c.cache[c.index[i].key] = c.index[i].at
      /\ \A k \in DOMAIN c.cache : c.cache[k] \in 0 .. t /\ k \in Keys
      /\ DOMAIN c.index = 1 .. l
      /\ c.index \in Seq([at : 0 .. t, key : Keys])
  BY SoundTypes DEF Sound, Containers
<1>2. /\ \A k \in DOMAIN c.cache : \E i \in 1 .. l : c.index[i].key = k
      /\ \A i, j \in 1 .. l : i < j => /\ c.index[i].at <= c.index[j].at
                                       /\ c.index[i].key # c.index[j].key
  BY <1>1 DEF Sound, Mirrors
<1>3. Entry(t, key) \in [at : 0 .. t, key : Keys]
  BY DEF Entry
<1>4. /\ p = [cache |-> p.cache, index |-> p.index]
      /\ DOMAIN p.cache = DOMAIN c.cache \cup {key}
      /\ \A k \in DOMAIN c.cache : p.cache[k] = c.cache[k]
      /\ p.cache[key] = t
      /\ p.cache = [k \in DOMAIN p.cache |-> p.cache[k]]
      /\ p.index = Append(c.index, Entry(t, key))
  BY DEF Insert
<1> HIDE DEF p
<1>5. /\ p.index \in Seq([at : 0 .. t, key : Keys])
      /\ Len(p.index) = l + 1
      /\ \A i \in 1 .. l : p.index[i] = c.index[i]
      /\ p.index[l + 1].at = t /\ p.index[l + 1].key = key
  <2>1. p.index[l + 1] = Entry(t, key)
    BY <1>1, <1>3, <1>4, AppendProperties
  <2> QED
    BY <2>1, <1>1, <1>3, <1>4, AppendProperties DEF Entry
<1> HIDE DEF l
<1>6. DOMAIN p.index = 1 .. l + 1 /\ \A i \in 1 .. l + 1 : i \in 1 .. l \/ i = l + 1
  BY <1>1, <1>5, LenProperties
<1>7. Containers(p, t)
  <2>1. p.cache \in [DOMAIN p.cache -> 0 .. t]
    BY <1>1, <1>4
  <2> QED
    BY <2>1, <1>1, <1>4, <1>5 DEF Containers
<1>8. \A i \in DOMAIN p.index : Current(p, p.index[i])
  BY <1>1, <1>4, <1>5, <1>6 DEF Current
<1>9. \A k \in DOMAIN p.cache : \E i \in DOMAIN p.index : p.index[i].key = k
  <2> SUFFICES ASSUME NEW k \in DOMAIN p.cache
               PROVE  \E i \in 1 .. l + 1 : p.index[i].key = k
    BY <1>6
  <2>1. CASE k = key
    BY <2>1, <1>1, <1>5
  <2>2. CASE k # key
    <3>1. PICK i \in 1 .. l : c.index[i].key = k
      BY <2>2, <1>2, <1>4
    <3>2. i \in 1 .. l + 1 /\ p.index[i] = c.index[i]
      BY <1>1, <1>5
    <3> QED
      BY <3>1, <3>2
  <2> QED
    BY <2>1, <2>2
<1>10. \A i, j \in DOMAIN p.index :
         i < j => p.index[i].at <= p.index[j].at /\ p.index[i].key # p.index[j].key
  <2> SUFFICES ASSUME NEW i \in 1 .. l + 1, NEW j \in 1 .. l + 1, i < j
               PROVE  p.index[i].at <= p.index[j].at /\ p.index[i].key # p.index[j].key
    BY <1>6
  <2>1. i \in 1 .. l
    BY <1>1
  <2>2. CASE j \in 1 .. l
    BY <2>1, <2>2, <1>2, <1>5
  <2>3. CASE j = l + 1
    <3>1. /\ p.index[i] = c.index[i] /\ c.index[i].at \in 0 .. t
          /\ c.index[i].key \in DOMAIN c.cache
      BY <2>1, <1>1, <1>5
    <3>2. c.index[i].at <= t /\ c.index[i].key # key
      BY <3>1
    <3> QED
      BY <2>3, <3>1, <3>2, <1>5
  <2> QED
    BY <2>2, <2>3, <1>6
<1>11. Sound(p, t)
  BY <1>7, <1>8, <1>9, <1>10 DEF Sound, Mirrors
<1>12. Cardinality(DOMAIN p.cache) = Cardinality(DOMAIN c.cache) + 1
  <2>1. IsFiniteSet(DOMAIN c.cache)
    BY MirrorCounts
  <2> QED
    BY <2>1, <1>4, FS_AddElement
<1> QED
  BY <1>4, <1>11, <1>12 DEF p

-----------------------------------------------------------------------------
(* The inductive invariant.                                                *)

Typed ==
  /\ now \in 0 .. MaxTime
  /\ verdict \in [key : Keys, unique : BOOLEAN, raised : BOOLEAN]
  /\ count \in [Counters -> Nat]
  /\ discarded \in Nat
  /\ accepted \in [Keys -> 0 .. Never]
  /\ forgotten \subseteq Keys
  /\ calls \in Nat

\* The cache, the last acceptances and the forgotten keys tell one story: what
\* is cached is as it was accepted, and what is not was never accepted, has
\* outlived its ttl or was put out.
Remembered ==
  /\ \A k \in DOMAIN d.cache : accepted[k] = d.cache[k] /\ k \notin forgotten
  /\ \A k \in Keys \ DOMAIN d.cache :
       accepted[k] = Never \/ k \in forgotten \/ now - accepted[k] >= Ttl

CacheInv ==
  /\ Typed
  /\ Sound(d, now)
  /\ Cardinality(DOMAIN d.cache) <= MaxEntries
  /\ ~verdict.raised
  /\ Ledger
  /\ Remembered

LEMMA CacheInvGivesConsistent == CacheInv => Consistent
<1> SUFFICES ASSUME CacheInv PROVE Consistent
  OBVIOUS
<1>1. TypeOK
  BY DEF TypeOK, CacheInv, Typed, Sound, Containers
<1>2. IndexMirrorsCache
  BY DEF IndexMirrorsCache, CacheInv, Sound, Mirrors
<1> QED
  BY <1>1, <1>2 DEF Consistent, CacheInv

\* Nothing is cached at first.
LEMMA EmptyIsSound ==
  /\ Sound(EmptyCache, 0)
  /\ DOMAIN EmptyCache.cache = {}
  /\ Cardinality(DOMAIN EmptyCache.cache) = 0
<1>1. /\ EmptyCache.cache = [k \in {} |-> 0] /\ EmptyCache.index = <<>>
      /\ DOMAIN EmptyCache.cache = {} /\ DOMAIN EmptyCache.index = {}
      /\ EmptyCache = [cache |-> EmptyCache.cache, index |-> EmptyCache.index]
  BY DEF EmptyCache
<1>2. EmptyCache.cache \in [DOMAIN EmptyCache.cache -> 0 .. 0]
  BY <1>1
<1>3. EmptyCache.index \in Seq([at : 0 .. 0, key : Keys])
  BY <1>1
<1> QED
  BY <1>1, <1>2, <1>3, FS_EmptySet DEF Sound, Containers, Mirrors

\* Containers that are sound stay so as the clock moves on.
LEMMA SoundLater ==
  ASSUME NEW t \in Nat, NEW u \in Nat, t <= u, NEW c, Sound(c, t)
  PROVE  Sound(c, u)
<1>1. 0 .. t \subseteq 0 .. u
  OBVIOUS
<1>2. [at : 0 .. t, key : Keys] \subseteq [at : 0 .. u, key : Keys]
  BY <1>1
<1>3. c.index \in Seq([at : 0 .. u, key : Keys])
  BY <1>2, SeqMonotonic DEF Sound, Containers
<1>4. c.cache \in [DOMAIN c.cache -> 0 .. u]
  BY <1>1 DEF Sound, Containers
<1> QED
  BY <1>3, <1>4 DEF Sound, Containers

-----------------------------------------------------------------------------
(* The steps.                                                              *)

\* What cleanup_expired leaves is what every call starts from.
LEMMA FreshInv ==
  ASSUME CacheInv
  PROVE  /\ now \in Nat
         /\ Sound(Fresh(d, now), now)
         /\ CountExpired \in Nat
         /\ DOMAIN Fresh(d, now).cache \subseteq DOMAIN d.cache
         /\ Cardinality(DOMAIN Fresh(d, now).cache) \in Nat
         /\ Cardinality(DOMAIN Fresh(d, now).cache) <= MaxEntries
         /\ Cardinality(DOMAIN d.cache)
              = Cardinality(DOMAIN Fresh(d, now).cache) + CountExpired
         /\ \A k \in DOMAIN Fresh(d, now).cache :
              /\ Fresh(d, now).cache[k] = d.cache[k]
              /\ accepted[k] = d.cache[k] /\ k \notin forgotten
              /\ accepted[k] # Never /\ now - accepted[k] < Ttl
         /\ \A k \in DOMAIN d.cache \ DOMAIN Fresh(d, now).cache :
              now - d.cache[k] >= Ttl
         /\ \A k \in Keys \ DOMAIN Fresh(d, now).cache :
              accepted[k] = Never \/ k \in forgotten \/ now - accepted[k] >= Ttl
<1>1. now \in 0 .. MaxTime /\ now \in Nat /\ MaxTime \in Nat /\ Sound(d, now)
  BY DedupAssumption DEF CacheInv, Typed
<1>2. /\ Sound(Fresh(d, now), now)
      /\ DOMAIN Fresh(d, now).cache \subseteq DOMAIN d.cache
      /\ Cardinality(DOMAIN Fresh(d, now).cache) \in Nat
      /\ CountExpired \in Nat
      /\ Cardinality(DOMAIN d.cache)
           = Cardinality(DOMAIN Fresh(d, now).cache) + CountExpired
      /\ \A k \in DOMAIN Fresh(d, now).cache : /\ Fresh(d, now).cache[k] = d.cache[k]
                                               /\ now - d.cache[k] < Ttl
      /\ \A k \in DOMAIN d.cache \ DOMAIN Fresh(d, now).cache : now - d.cache[k] >= Ttl
  BY <1>1, FreshKeeps DEF CountExpired
<1>3. Cardinality(DOMAIN Fresh(d, now).cache) <= MaxEntries
  BY <1>2, DedupCacheAssumption DEF CacheInv
<1>4. \A k \in DOMAIN d.cache : d.cache[k] \in 0 .. now
  BY <1>1, SoundTypes
<1>5. \A k \in DOMAIN d.cache : accepted[k] # Never
  <2> SUFFICES ASSUME NEW k \in DOMAIN d.cache PROVE accepted[k] # Never
    OBVIOUS
  <2>1. accepted[k] \in 0 .. now
    BY <1>4 DEF CacheInv, Remembered
  <2> QED
    BY <2>1, <1>1 DEF Never
<1>6. Remembered
  BY DEF CacheInv
<1>7. \A k \in DOMAIN Fresh(d, now).cache :
        /\ accepted[k] = d.cache[k] /\ k \notin forgotten
        /\ accepted[k] # Never /\ now - accepted[k] < Ttl
  BY <1>2, <1>5, <1>6 DEF Remembered
<1>8. \A k \in Keys \ DOMAIN Fresh(d, now).cache :
        accepted[k] = Never \/ k \in forgotten \/ now - accepted[k] >= Ttl
  BY <1>2, <1>6 DEF Remembered
<1> QED
  BY <1>1, <1>2, <1>3, <1>7, <1>8

\* A cleanup, on its own or in a call that finds a duplicate.
LEMMA FreshStep ==
  ASSUME CacheInv, d' = Fresh(d, now),
         UNCHANGED <<now, discarded, accepted, forgotten>>,
         count' \in [Counters -> Nat],
         count'["accepted"] = count["accepted"],
         count'["expired"] = count["expired"] + CountExpired,
         count'["capacity_evicted"] = count["capacity_evicted"],
         verdict' \in [key : Keys, unique : BOOLEAN, raised : BOOLEAN],
         ~verdict'.raised,
         calls' \in Nat
  PROVE  CacheInv'
<1>1. Typed'
  BY DEF CacheInv, Typed, Never
<1>2. Sound(d, now)' /\ Cardinality(DOMAIN d.cache)' <= MaxEntries
  BY FreshInv
<1>3. Ledger'
  <2>1. \A x \in Counters : count[x] \in Nat
    BY DEF CacheInv, Typed
  <2>2. {"accepted", "expired", "capacity_evicted"} \subseteq Counters
    BY DEF Counters
  <2> QED
    BY <2>1, <2>2, FreshInv DEF CacheInv, Typed, Ledger
<1>4. Remembered'
  BY FreshInv DEF Remembered, Never
<1> QED
  BY <1>1, <1>2, <1>3, <1>4 DEF CacheInv

\* is_unique accepts: what it evicts is forgotten, and what stays is the key
\* and what was there.
LEMMA AcceptLeaves ==
  ASSUME CacheInv, NEW key \in Keys, Accept(key)
  PROVE  /\ ~Raises(Fresh(d, now))
         /\ Sound(d', now)
         /\ key \in DOMAIN d'.cache /\ d'.cache[key] = now
         /\ Cardinality(DOMAIN d'.cache) \in Nat
         /\ Cardinality(DOMAIN d'.cache) <= MaxEntries
         /\ Cardinality(EvictedKeys) \in Nat
         /\ Cardinality(DOMAIN d'.cache) + Cardinality(EvictedKeys)
              = Cardinality(DOMAIN Fresh(d, now).cache) + 1
         /\ EvictedKeys \subseteq DOMAIN Fresh(d, now).cache
         /\ DOMAIN d'.cache = (DOMAIN Fresh(d, now).cache \ EvictedKeys) \cup {key}
         /\ key \notin EvictedKeys
         /\ \A k \in DOMAIN d'.cache \ {key} : d'.cache[k] = d.cache[k]
         /\ \A v \in EvictedKeys :
              /\ Cardinality(DOMAIN d'.cache) = MaxEntries
              /\ \A k \in DOMAIN d'.cache \ {key} : d.cache[v] <= d.cache[k]
<1> DEFINE f == Fresh(d, now)
           r == Roomy(f)
<1>1. /\ now \in Nat /\ Sound(f, now)
      /\ Cardinality(DOMAIN f.cache) <= MaxEntries
      /\ \A k \in DOMAIN f.cache : f.cache[k] = d.cache[k]
  BY FreshInv
<1>2. key \notin DOMAIN f.cache /\ d' = Insert(r, key, now)
  BY DEF Accept, IsUnique
<1>3. EvictedKeys = DOMAIN f.cache \ DOMAIN r.cache
  BY DEF EvictedKeys
<1> HIDE DEF f
<1>4. /\ ~Raises(f) /\ Sound(r, now)
      /\ DOMAIN r.cache \subseteq DOMAIN f.cache
      /\ \A k \in DOMAIN r.cache : r.cache[k] = f.cache[k]
      /\ Cardinality(DOMAIN r.cache) \in Nat
      /\ Cardinality(DOMAIN r.cache) < MaxEntries
      /\ Cardinality(EvictedKeys) \in Nat
      /\ Cardinality(DOMAIN f.cache)
           = Cardinality(DOMAIN r.cache) + Cardinality(EvictedKeys)
      /\ \A v \in EvictedKeys :
           /\ Cardinality(DOMAIN r.cache) + 1 = MaxEntries
           /\ \A k \in DOMAIN r.cache : f.cache[v] <= f.cache[k]
  BY <1>1, <1>3, RoomyKeeps
<1> HIDE DEF r
<1>5. /\ Sound(d', now)
      /\ DOMAIN d'.cache = DOMAIN r.cache \cup {key}
      /\ \A k \in DOMAIN r.cache : d'.cache[k] = r.cache[k]
      /\ d'.cache[key] = now
      /\ Cardinality(DOMAIN d'.cache) = Cardinality(DOMAIN r.cache) + 1
  BY <1>1, <1>2, <1>4, InsertKeeps
<1>6. /\ Cardinality(DOMAIN d'.cache) \in Nat
      /\ Cardinality(DOMAIN d'.cache) <= MaxEntries
      /\ Cardinality(DOMAIN d'.cache) + Cardinality(EvictedKeys)
           = Cardinality(DOMAIN f.cache) + 1
  BY <1>4, <1>5, DedupCacheAssumption
<1>7. DOMAIN r.cache = DOMAIN f.cache \ EvictedKeys
  BY <1>3, <1>4
<1>8. /\ EvictedKeys \subseteq DOMAIN f.cache
      /\ DOMAIN d'.cache = (DOMAIN f.cache \ EvictedKeys) \cup {key}
      /\ key \notin EvictedKeys
      /\ DOMAIN d'.cache \ {key} \subseteq DOMAIN r.cache
  BY <1>2, <1>3, <1>5, <1>7
<1>9. \A k \in DOMAIN d'.cache \ {key} : d'.cache[k] = f.cache[k] /\ f.cache[k] = d.cache[k]
  BY <1>1, <1>4, <1>5, <1>8
<1>10. ASSUME NEW v \in EvictedKeys
       PROVE  /\ Cardinality(DOMAIN d'.cache) = MaxEntries
              /\ \A k \in DOMAIN d'.cache \ {key} : d.cache[v] <= d.cache[k]
  <2>1. f.cache[v] = d.cache[v]
    BY <1>1, <1>8
  <2> QED
    BY <2>1, <1>4, <1>5, <1>8, <1>9
<1> QED
  BY <1>4, <1>5, <1>6, <1>8, <1>9, <1>10 DEF f

LEMMA AcceptStep ==
  ASSUME CacheInv, NEW key \in Keys, Accept(key)
  PROVE  CacheInv'
<1>1. /\ count' = [count EXCEPT
              !["accepted"] = @ + 1,
              !["expired"] = @ + CountExpired,
              !["capacity_evicted"] = @ + Cardinality(EvictedKeys),
              !["peak_entries"] = Larger(@, Cardinality(DOMAIN d'.cache))]
      /\ verdict' = [key |-> key, unique |-> TRUE, raised |-> Raises(Fresh(d, now))]
      /\ accepted' = [accepted EXCEPT ![key] = now]
      /\ forgotten' = (forgotten \cup EvictedKeys) \ {key}
      /\ calls' = calls + 1 /\ now' = now /\ discarded' = discarded
  BY DEF Accept, Call, CountAccept
<1>2. /\ count \in [Counters -> Nat]
      /\ {"accepted", "expired", "capacity_evicted", "peak_entries"} \subseteq Counters
  BY DEF CacheInv, Typed, Counters
<1>3. count["accepted"] \in Nat /\ count["expired"] \in Nat
      /\ count["capacity_evicted"] \in Nat /\ count["peak_entries"] \in Nat
  BY <1>2
<1>4. /\ count' \in [Counters -> Nat]
      /\ count'["accepted"] = count["accepted"] + 1
      /\ count'["expired"] = count["expired"] + CountExpired
      /\ count'["capacity_evicted"] = count["capacity_evicted"] + Cardinality(EvictedKeys)
  <2>1. CountExpired \in Nat
    BY FreshInv
  <2>2. Cardinality(EvictedKeys) \in Nat /\ Cardinality(DOMAIN d'.cache) \in Nat
    BY AcceptLeaves
  <2>3. Larger(count["peak_entries"], Cardinality(DOMAIN d'.cache)) \in Nat
    BY <1>3, <2>2 DEF Larger
  <2>4. /\ count["accepted"] + 1 \in Nat
        /\ count["expired"] + CountExpired \in Nat
        /\ count["capacity_evicted"] + Cardinality(EvictedKeys) \in Nat
    BY <1>3, <2>1, <2>2
  <2> HIDE DEF Larger
  <2> QED
    BY <1>1, <1>2, <2>3, <2>4
<1>5. Typed'
  <2>1. /\ now \in 0 .. MaxTime /\ MaxTime \in Nat /\ now \in 0 .. Never
    BY DedupAssumption DEF CacheInv, Typed, Never
  <2>2. accepted' \in [Keys -> 0 .. Never]
    BY <1>1, <2>1 DEF CacheInv, Typed
  <2>3. verdict' \in [key : Keys, unique : BOOLEAN, raised : BOOLEAN]
    <3>1. Raises(Fresh(d, now)) = FALSE
      BY AcceptLeaves DEF Raises, Full
    <3> QED
      BY <1>1, <3>1
  <2>4. forgotten' \subseteq Keys
    <3>1. EvictedKeys \subseteq DOMAIN d.cache /\ DOMAIN d.cache \subseteq Keys
      BY AcceptLeaves, FreshInv DEF CacheInv, Sound, Containers
    <3> QED
      BY <3>1, <1>1 DEF CacheInv, Typed
  <2> QED
    <3>1. calls' \in Nat /\ discarded' \in Nat /\ now' \in 0 .. MaxTime
      BY <1>1, <2>1 DEF CacheInv, Typed
    <3> QED
      BY <1>4, <2>2, <2>3, <2>4, <3>1 DEF Typed, Never
<1>6. /\ Sound(d, now)' /\ Cardinality(DOMAIN d.cache)' <= MaxEntries
      /\ ~verdict'.raised
  BY <1>1, AcceptLeaves
<1>7. Ledger'
  <2>1. /\ Cardinality(DOMAIN d'.cache) \in Nat /\ Cardinality(EvictedKeys) \in Nat
        /\ Cardinality(DOMAIN d'.cache) + Cardinality(EvictedKeys)
             = Cardinality(DOMAIN Fresh(d, now).cache) + 1
    BY AcceptLeaves
  <2>2. /\ Cardinality(DOMAIN Fresh(d, now).cache) \in Nat /\ CountExpired \in Nat
        /\ Cardinality(DOMAIN d.cache)
              = Cardinality(DOMAIN Fresh(d, now).cache) + CountExpired
    BY FreshInv
  <2>3. discarded \in Nat /\ discarded' = discarded
        /\ count["accepted"] = Cardinality(DOMAIN d.cache) + count["expired"]
                               + count["capacity_evicted"] + discarded
    BY <1>1 DEF CacheInv, Typed, Ledger
  <2> QED
    BY <1>3, <1>4, <2>1, <2>2, <2>3 DEF Ledger
<1>8. Remembered'
  <2>1. ASSUME NEW k \in DOMAIN d'.cache
        PROVE  accepted'[k] = d'.cache[k] /\ k \notin forgotten'
    <3>1. CASE k = key
      BY <1>1, <3>1, AcceptLeaves DEF CacheInv, Typed
    <3>2. CASE k # key
      <4>1. k \in DOMAIN Fresh(d, now).cache /\ k \notin EvictedKeys
            /\ d'.cache[k] = d.cache[k]
        BY <3>2, AcceptLeaves
      <4>2. accepted[k] = d.cache[k] /\ k \notin forgotten
        BY <4>1, FreshInv
      <4>3. accepted'[k] = accepted[k]
        BY <1>1, <3>2
      <4> QED
        BY <1>1, <4>1, <4>2, <4>3
    <3> QED
      BY <3>1, <3>2
  <2>2. ASSUME NEW k \in Keys \ DOMAIN d'.cache
        PROVE  accepted'[k] = Never \/ k \in forgotten' \/ now - accepted'[k] >= Ttl
    <3>1. k # key /\ accepted'[k] = accepted[k]
      BY <1>1, AcceptLeaves
    <3>2. CASE k \in EvictedKeys
      BY <1>1, <3>1, <3>2
    <3>3. CASE k \notin EvictedKeys
      <4>1. k \in Keys \ DOMAIN Fresh(d, now).cache
        BY <3>3, AcceptLeaves
      <4>2. accepted[k] = Never \/ k \in forgotten \/ now - accepted[k] >= Ttl
        BY <4>1, FreshInv
      <4> QED
        BY <1>1, <3>1, <4>2
    <3> QED
      BY <3>2, <3>3
  <2> QED
    BY <1>1, <2>1, <2>2 DEF Remembered, Never
<1> QED
  BY <1>5, <1>6, <1>7, <1>8 DEF CacheInv

LEMMA ResetStep ==
  ASSUME CacheInv, Reset
  PROVE  CacheInv'
<1>1. /\ count' = [count EXCEPT !["resets"] = @ + 1]
      /\ discarded' = discarded + Cardinality(DOMAIN d.cache)
      /\ forgotten' = forgotten \cup DOMAIN d.cache
      /\ d' = EmptyCache /\ calls' = calls + 1
      /\ now' = now /\ verdict' = verdict /\ accepted' = accepted
  BY DEF Reset, Call
<1>2. /\ now \in Nat /\ now >= 0
      /\ IsFiniteSet(DOMAIN d.cache) /\ Cardinality(DOMAIN d.cache) \in Nat
      /\ DOMAIN d.cache \subseteq Keys
  BY FreshInv, MirrorCounts, SoundTypes DEF CacheInv
<1>3. /\ count' \in [Counters -> Nat]
      /\ count'["accepted"] = count["accepted"]
      /\ count'["expired"] = count["expired"]
      /\ count'["capacity_evicted"] = count["capacity_evicted"]
      /\ count["accepted"] \in Nat /\ count["expired"] \in Nat
      /\ count["capacity_evicted"] \in Nat /\ discarded \in Nat
  BY <1>1 DEF CacheInv, Typed, Counters
<1>4. Typed'
  BY <1>1, <1>2, <1>3 DEF CacheInv, Typed, Never
<1>5. Sound(d', now) /\ DOMAIN d'.cache = {} /\ Cardinality(DOMAIN d'.cache) = 0
  BY <1>1, <1>2, EmptyIsSound, SoundLater
<1>6. Ledger'
  <2>1. count["accepted"] = Cardinality(DOMAIN d.cache) + count["expired"]
                            + count["capacity_evicted"] + discarded
    BY DEF CacheInv, Ledger
  <2> QED
    BY <1>1, <1>2, <1>3, <1>5, <2>1 DEF Ledger
<1>7. Remembered'
  <2>1. \A k \in Keys \ DOMAIN d.cache :
          accepted[k] = Never \/ k \in forgotten \/ now - accepted[k] >= Ttl
    BY DEF CacheInv, Remembered
  <2> QED
    BY <1>1, <1>5, <2>1 DEF Remembered, Never
<1> QED
  BY <1>1, <1>4, <1>5, <1>6, <1>7, DedupCacheAssumption DEF CacheInv

LEMMA TickStep ==
  ASSUME CacheInv, Tick
  PROVE  CacheInv'
<1>1. /\ now \in 0 .. MaxTime /\ MaxTime \in Nat /\ now < MaxTime /\ now' = now + 1
      /\ d' = d /\ verdict' = verdict /\ count' = count /\ discarded' = discarded
      /\ accepted' = accepted /\ forgotten' = forgotten /\ calls' = calls
  BY DedupAssumption DEF Tick, CacheInv, Typed
<1>2. now' \in 0 .. MaxTime /\ now' \in Nat /\ now \in Nat /\ now <= now'
  BY <1>1
<1>3. Typed' /\ Ledger' /\ ~verdict'.raised
  BY <1>1, <1>2 DEF CacheInv, Typed, Ledger, Never
<1>4. Sound(d', now') /\ Cardinality(DOMAIN d'.cache) <= MaxEntries
  BY <1>1, <1>2, SoundLater DEF CacheInv
<1>5. Remembered'
  <2>1. \A k \in DOMAIN d.cache : accepted[k] = d.cache[k] /\ k \notin forgotten
    BY DEF CacheInv, Remembered
  <2>2. ASSUME NEW k \in Keys \ DOMAIN d.cache
        PROVE  accepted[k] = Never \/ k \in forgotten \/ now' - accepted[k] >= Ttl
    <3>1. accepted[k] = Never \/ k \in forgotten \/ now - accepted[k] >= Ttl
      BY DEF CacheInv, Remembered
    <3>2. accepted[k] \in 0 .. Never /\ Never \in Nat /\ Ttl \in Nat
      BY DedupAssumption, DedupCacheAssumption DEF CacheInv, Typed, Never
    <3> QED
      BY <3>1, <3>2, <1>1
  <2> QED
    BY <1>1, <2>1, <2>2 DEF Remembered, Never
<1> QED
  BY <1>3, <1>4, <1>5 DEF CacheInv

LEMMA CacheInvInit == Init => CacheInv
<1> SUFFICES ASSUME Init PROVE CacheInv
  OBVIOUS
<1>1. Typed
  <2>1. /\ 0 \in 0 .. MaxTime /\ Never \in 0 .. Never
    BY DedupAssumption DEF Never
  <2>2. verdict \in [key : Keys, unique : BOOLEAN, raised : BOOLEAN]
    BY DEF Init
  <2> QED
    BY <2>1, <2>2 DEF Init, Typed
<1>2. Sound(d, now) /\ DOMAIN d.cache = {} /\ Cardinality(DOMAIN d.cache) = 0
  BY EmptyIsSound DEF Init
<1>3. Ledger
  BY <1>2 DEF Init, Ledger, Counters
<1>4. Remembered
  BY <1>2 DEF Init, Remembered
<1> QED
  <2>1. ~verdict.raised
    BY DEF Init
  <2>2. Cardinality(DOMAIN d.cache) <= MaxEntries
    BY <1>2, DedupCacheAssumption
  <2> QED
    BY <1>1, <1>2, <1>3, <1>4, <2>1, <2>2 DEF CacheInv, Init

\* The counters after a call that only expires keys.
LEMMA FreshCounts ==
  ASSUME CacheInv, NEW c \in {"none", "duplicates"},
         count' = IF c = "none"
                  THEN [count EXCEPT !["expired"] = @ + CountExpired]
                  ELSE [count EXCEPT !["duplicates"] = @ + 1, !["expired"] = @ + CountExpired]
  PROVE  /\ count' \in [Counters -> Nat]
         /\ count'["accepted"] = count["accepted"]
         /\ count'["expired"] = count["expired"] + CountExpired
         /\ count'["capacity_evicted"] = count["capacity_evicted"]
         /\ c = "none" => count'["duplicates"] = count["duplicates"]
<1>1. count \in [Counters -> Nat] /\ CountExpired \in Nat
  BY FreshInv DEF CacheInv, Typed
<1>2. /\ {"accepted", "expired", "capacity_evicted", "duplicates"} \subseteq Counters
      /\ count["expired"] + CountExpired \in Nat /\ count["duplicates"] + 1 \in Nat
  BY <1>1 DEF Counters
<1> QED
  BY <1>1, <1>2

LEMMA CacheInvStep == CacheInv /\ [Next]_vars => CacheInv'
<1> SUFFICES ASSUME CacheInv, [Next]_vars PROVE CacheInv'
  OBVIOUS
<1>1. ASSUME NEW key \in Keys, Duplicate(key)
      PROVE  CacheInv'
  <2>1. /\ d' = Fresh(d, now)
        /\ verdict' = [key |-> key, unique |-> FALSE, raised |-> FALSE]
        /\ count' = [count EXCEPT !["duplicates"] = @ + 1, !["expired"] = @ + CountExpired]
        /\ calls' = calls + 1
        /\ UNCHANGED <<now, discarded, accepted, forgotten>>
    BY <1>1 DEF Duplicate, Call, IsUnique, Renewed
  <2>2. calls' \in Nat
    BY <2>1 DEF CacheInv, Typed
  <2> QED
    BY <2>1, <2>2, FreshCounts, FreshStep
<1>2. ASSUME Cleanup
      PROVE  CacheInv'
  <2>1. /\ d' = Fresh(d, now)
        /\ verdict' = verdict
        /\ count' = [count EXCEPT !["expired"] = @ + CountExpired]
        /\ calls' = calls + 1
        /\ UNCHANGED <<now, discarded, accepted, forgotten>>
    BY <1>2 DEF Cleanup, Call
  <2>2. /\ calls' \in Nat /\ ~verdict'.raised
        /\ verdict' \in [key : Keys, unique : BOOLEAN, raised : BOOLEAN]
    BY <2>1 DEF CacheInv, Typed
  <2> QED
    BY <2>1, <2>2, FreshCounts, FreshStep
<1>3. CASE UNCHANGED vars
  BY <1>3 DEF vars, CacheInv, Typed, Ledger, Remembered, Never
<1> QED
  BY <1>1, <1>2, <1>3, AcceptStep, ResetStep, TickStep DEF Next

-----------------------------------------------------------------------------
(* The theorems.                                                           *)

\* CacheInv holds in every state.
LEMMA CacheInvAlways == Spec => []CacheInv
<1> QED
  BY CacheInvInit, CacheInvStep, PTL DEF Spec

\* The expiry index and the cache never disagree, so the eviction loop of
\* is_unique finds an entry to evict, the "deduplication expiry index is
\* inconsistent" error is never raised, and stats() accounts for every key.
THEOREM CacheIsConsistent == Spec => []Consistent
<1> QED
  BY CacheInvAlways, CacheInvGivesConsistent, PTL

\* is_unique accepts a key twice only when its ttl has passed, the capacity or
\* a reset put it out; the capacity takes a live key only from a full cache,
\* after every older one.
THEOREM NoRepeats == Spec => NoRepeatInWindow
<1> DEFINE Repeats ==
      (Answered /\ verdict'.unique /\ accepted[verdict'.key] # Never) =>
        \/ now - accepted[verdict'.key] >= Ttl
        \/ verdict'.key \in forgotten
    Evicts ==
      count'["resets"] = count["resets"] =>
        \A v \in DOMAIN d.cache \ DOMAIN d'.cache :
          now - d.cache[v] < Ttl =>
            /\ Cardinality(DOMAIN d'.cache) = MaxEntries
            /\ \A k \in DOMAIN d'.cache \ {verdict'.key} : d.cache[v] <= d.cache[k]
<1>1. ASSUME CacheInv, Next
      PROVE  Repeats /\ Evicts
  <2>1. /\ \A v \in DOMAIN d.cache \ DOMAIN Fresh(d, now).cache :
             d.cache[v] \in Nat /\ now \in Nat /\ now - d.cache[v] >= Ttl /\ Ttl \in Nat
        /\ \A k \in Keys \ DOMAIN Fresh(d, now).cache :
             accepted[k] = Never \/ k \in forgotten \/ now - accepted[k] >= Ttl
    BY <1>1, FreshInv, SoundTypes, DedupCacheAssumption DEF CacheInv
  <2>2. ASSUME NEW key \in Keys, Duplicate(key)
        PROVE  Repeats /\ Evicts
    BY <2>1, <2>2 DEF Duplicate, IsUnique, Renewed
  <2>3. ASSUME NEW key \in Keys, Accept(key)
        PROVE  Repeats /\ Evicts
    <3>1. /\ key \notin DOMAIN Fresh(d, now).cache /\ verdict'.key = key
      BY <2>3 DEF Accept
    <3>2. Repeats
      BY <2>1, <3>1
    <3>3. Evicts
      <4> SUFFICES ASSUME NEW v \in DOMAIN d.cache \ DOMAIN d'.cache,
                          now - d.cache[v] < Ttl
                   PROVE  /\ Cardinality(DOMAIN d'.cache) = MaxEntries
                          /\ \A k \in DOMAIN d'.cache \ {key} : d.cache[v] <= d.cache[k]
        BY <3>1
      <4>1. v \in DOMAIN Fresh(d, now).cache
        BY <2>1
      <4>2. v \in EvictedKeys
        BY <1>1, <2>3, <4>1, AcceptLeaves
      <4> QED
        BY <1>1, <2>3, <4>2, AcceptLeaves
    <3> QED
      BY <3>2, <3>3
  <2>4. ASSUME Cleanup
        PROVE  Repeats /\ Evicts
    <3>1. count' = [count EXCEPT !["expired"] = @ + CountExpired]
          /\ d' = Fresh(d, now)
      BY <2>4 DEF Cleanup
    <3>2. ~Answered
      BY <1>1, <3>1, FreshCounts DEF Answered
    <3> QED
      BY <2>1, <3>1, <3>2
  <2>5. ASSUME Reset
        PROVE  Repeats /\ Evicts
    <3>1. count' = [count EXCEPT !["resets"] = @ + 1]
          /\ count \in [Counters -> Nat] /\ "resets" \in Counters
      BY <1>1, <2>5 DEF Reset, CacheInv, Typed, Counters
    <3> QED
      BY <3>1 DEF Answered, Counters
  <2>6. ASSUME Tick
        PROVE  Repeats /\ Evicts
    BY <2>6 DEF Tick, Answered
  <2> QED
    BY <1>1, <2>2, <2>3, <2>4, <2>5, <2>6 DEF Next
<1>2. CacheInv /\ [Next]_vars => [Repeats /\ Evicts]_vars
  BY <1>1
<1> QED
  BY <1>2, CacheInvAlways, PTL DEF Spec, NoRepeatInWindow

\* is_unique rejects only a key it accepted less than the ttl ago and has not
\* put out since: rejected copies in between do not lengthen the window.
THEOREM NoLateRejects == Spec => NoFalseSuppression
<1> DEFINE Rejects ==
      (Answered /\ ~verdict'.unique) =>
        /\ accepted[verdict'.key] # Never
        /\ now - accepted[verdict'.key] < Ttl
        /\ verdict'.key \notin forgotten
<1>1. ASSUME CacheInv, Next
      PROVE  Rejects
  <2>1. \A k \in DOMAIN Fresh(d, now).cache :
          /\ accepted[k] = d.cache[k] /\ k \notin forgotten
          /\ accepted[k] # Never /\ now - accepted[k] < Ttl
    BY <1>1, FreshInv
  <2>2. ASSUME NEW key \in Keys, Duplicate(key)
        PROVE  Rejects
    BY <2>1, <2>2 DEF Duplicate
  <2>3. ASSUME NEW key \in Keys, Accept(key)
        PROVE  Rejects
    BY <2>3 DEF Accept
  <2>4. ASSUME Cleanup
        PROVE  Rejects
    <3>1. count' = [count EXCEPT !["expired"] = @ + CountExpired]
      BY <2>4 DEF Cleanup
    <3> QED
      BY <1>1, <3>1, FreshCounts DEF Answered
  <2>5. ASSUME Reset
        PROVE  Rejects
    <3>1. count' = [count EXCEPT !["resets"] = @ + 1]
          /\ count \in [Counters -> Nat]
      BY <1>1, <2>5 DEF Reset, CacheInv, Typed
    <3> QED
      BY <3>1 DEF Answered, Counters
  <2>6. ASSUME Tick
        PROVE  Rejects
    BY <2>6 DEF Tick, Answered
  <2> QED
    BY <1>1, <2>2, <2>3, <2>4, <2>5, <2>6 DEF Next
<1>2. CacheInv /\ [Next]_vars => [Rejects]_vars
  BY <1>1
<1> QED
  BY <1>2, CacheInvAlways, PTL DEF Spec, NoFalseSuppression
=============================================================================
