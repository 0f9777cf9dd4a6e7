-------------------------- MODULE SecureState_proofs --------------------------
(***************************************************************************)
(* For any peers, capacities and windows of the secure server: its tables  *)
(* and accounts agree, nothing is accepted twice in its window unless the  *)
(* record of it was evicted, and an active session ends for a reason.      *)
(***************************************************************************)
EXTENDS SecureState, FiniteSetTheorems, SequenceTheorems, TLAPS

-----------------------------------------------------------------------------
(* Cleaning from the front.                                                *)

\* A set of numbers that is not empty has a least one.
LEMMA LeastNumber ==
  ASSUME NEW N, N \subseteq Nat, N # {}
  PROVE  \E n \in N : \A m \in N : n <= m
<1>1. PICK n \in N : \A m \in N : ~(<<m, n>> \in OpToRel(<, Nat))
  BY NatLessThanWellFounded, WFMin, Zenon
<1>2. \A m \in N : ~(m < n)
  BY <1>1 DEF OpToRel
<1> QED
  BY <1>2, n \in Nat, \A m \in N : m \in Nat

\* Of n places, those before the first that is not in dead.
LEMMA FirstLive ==
  ASSUME NEW n \in Nat, NEW dead
  PROVE  \E k \in 0 .. n : /\ \A i \in 1 .. k : i \in dead
                           /\ k < n => k + 1 \notin dead
<1> DEFINE N == {k \in 0 .. n : k < n => k + 1 \notin dead}
<1>1. N \subseteq Nat /\ n \in N
  OBVIOUS
<1>2. PICK k \in N : \A m \in N : k <= m
  BY <1>1, LeastNumber
<1>3. ASSUME NEW i \in 1 .. k, i \notin dead
      PROVE  FALSE
  <2>1. i - 1 \in 0 .. n /\ (i - 1) + 1 = i /\ ~(k <= i - 1)
    BY <1>3
  <2>2. i - 1 \in N
    BY <1>3, <2>1
  <2> QED BY <1>2, <2>1, <2>2
<1> QED BY <1>2, <1>3

\* _cleanup_expired, and so the cleanups of the two dictionaries, find where to
\* stop.
LEMMA ExpiredPrefix ==
  ASSUME NEW set, Len(set) \in Nat, NEW t
  PROVE  /\ ExpiredCount(set, t) \in 0 .. Len(set)
         /\ \A i \in 1 .. ExpiredCount(set, t) : Lapsed(set[i], t)
<1> DEFINE dead == {i \in 1 .. Len(set) : Lapsed(set[i], t)}
<1>1. PICK k \in 0 .. Len(set) : /\ \A i \in 1 .. k : i \in dead
                                 /\ k < Len(set) => k + 1 \notin dead
  BY FirstLive
<1>2. /\ \A i \in 1 .. k : Lapsed(set[i], t)
      /\ k < Len(set) => ~Lapsed(set[k + 1], t)
  BY <1>1
<1> QED BY <1>2 DEF ExpiredCount

LEMMA StalePrefix ==
  ASSUME NEW list, Len(list) \in Nat, \A i \in 1 .. Len(list) : list[i].since \in Nat,
         now \in Nat, NEW ttl \in Nat
  PROVE  /\ StaleCount(list, ttl) \in 0 .. Len(list)
         /\ \A i \in 1 .. StaleCount(list, ttl) : now - list[i].since >= ttl
<1> DEFINE dead == {i \in 1 .. Len(list) : now - list[i].since >= ttl}
<1>1. PICK k \in 0 .. Len(list) : /\ \A i \in 1 .. k : i \in dead
                                  /\ k < Len(list) => k + 1 \notin dead
  BY FirstLive
<1> DEFINE Stops(j) == /\ \A i \in 1 .. j : now - list[i].since >= ttl
                       /\ j < Len(list) => now - list[j + 1].since < ttl
<1>2. ASSUME k < Len(list)
      PROVE  now - list[k + 1].since < ttl
  <2>1. k + 1 \in 1 .. Len(list)
    BY <1>2
  <2>2. ~(now - list[k + 1].since >= ttl) /\ list[k + 1].since \in Nat
    BY <1>1, <1>2, <2>1
  <2> QED BY <2>2
<1>3. Stops(k)
  BY <1>1, <1>2
<1>4. StaleCount(list, ttl) = CHOOSE j \in 0 .. Len(list) : Stops(j)
  BY DEF StaleCount
<1> HIDE DEF Stops
<1>5. StaleCount(list, ttl) \in 0 .. Len(list) /\ Stops(StaleCount(list, ttl))
  BY <1>3, <1>4
<1> QED BY <1>5 DEF Stops

-----------------------------------------------------------------------------
(* The records of an expiring set.                                         *)

Records(names) == [key : names, expires : Nat]

\* What is fresh is what has not expired.
LEMMA FreshRecords ==
  ASSUME NEW names, NEW set \in Seq(Records(names)), NEW t \in Nat
  PROVE  /\ ExpiredCount(set, t) \in 0 .. Len(set)
         /\ Fresh(set, t) \in Seq(Records(names))
         /\ Len(Fresh(set, t)) = Len(set) - ExpiredCount(set, t)
         /\ \A r \in ToSet(set) : r.expires > t => r \in ToSet(Fresh(set, t))
<1> DEFINE c == ExpiredCount(set, t)
           f == Fresh(set, t)
<1>1. /\ Len(set) \in Nat /\ DOMAIN set = 1 .. Len(set)
      /\ \A i \in 1 .. Len(set) : set[i] \in Records(names)
  BY LenProperties, ElementOfSeq
<1>2. c \in 0 .. Len(set) /\ \A i \in 1 .. c : set[i].expires <= t
  BY <1>1, ExpiredPrefix DEF Lapsed
<1> HIDE DEF c
<1>3. f = SubSeq(set, c + 1, Len(set))
  BY DEF Fresh, c
<1> HIDE DEF f
<1>4. c + 1 \in Int /\ Len(set) \in Int /\ \A i \in c + 1 .. Len(set) : i \in 1 .. Len(set)
  BY <1>1, <1>2
<1>5. \A i \in c + 1 .. Len(set) : set[i] \in Records(names)
  BY <1>1, <1>4
<1>6. /\ f \in Seq(Records(names))
      /\ Len(f) = IF c + 1 <= Len(set) THEN Len(set) - (c + 1) + 1 ELSE 0
      /\ \A i \in 1 .. Len(set) - (c + 1) + 1 : f[i] = set[c + 1 + i - 1]
  BY <1>3, <1>4, <1>5, SubSeqProperties
<1>7. Len(f) = Len(set) - c
  <2>1. c + 1 <= Len(set) => Len(set) - (c + 1) + 1 = Len(set) - c
    BY <1>1, <1>2
  <2>2. ~(c + 1 <= Len(set)) => Len(set) - c = 0
    BY <1>1, <1>2
  <2> QED BY <1>6, <2>1, <2>2
<1>8. DOMAIN f = 1 .. Len(f)
  BY <1>6, LenProperties
<1>9. ASSUME NEW i \in 1 .. Len(set), set[i].expires > t
      PROVE  set[i] \in ToSet(f)
  <2>1. i > c /\ set[i].expires \in Nat
    <3>1. set[i].expires \in Nat
      BY <1>1 DEF Records
    <3> QED BY <1>2, <1>9, <3>1
  <2>2. i - c \in 1 .. Len(f) /\ i - c \in 1 .. Len(set) - (c + 1) + 1 /\ c + 1 + (i - c) - 1 = i
    BY <1>1, <1>2, <1>7, <2>1
  <2>3. f[i - c] = set[i]
    BY <1>6, <2>2
  <2> QED BY <1>8, <2>2, <2>3 DEF ToSet
<1> QED BY <1>1, <1>2, <1>6, <1>7, <1>9 DEF c, f, ToSet

\* accept keeps every fresh record but the one it evicts, and adds its own.
LEMMA AdmittedRecords ==
  ASSUME NEW names, NEW set \in Seq(Records(names)), NEW key \in names,
         NEW t \in Nat, NEW ttl \in Nat, NEW max \in Nat \ {0}, Len(set) <= max
  PROVE  /\ Admitted(set, key, t, ttl, max) \in Seq(Records(names))
         /\ Len(Admitted(set, key, t, ttl, max)) <= max
         /\ Len(Evicted(set, t, max)) \in {0, 1}
         /\ Len(Admitted(set, key, t, ttl, max))
              = Len(set) + 1 - ExpiredCount(set, t) - Len(Evicted(set, t, max))
         /\ Record(key, t + ttl) \in ToSet(Admitted(set, key, t, ttl, max))
         /\ \A r \in ToSet(Fresh(set, t)) :
              r.key \notin Keys(Evicted(set, t, max)) =>
                r \in ToSet(Admitted(set, key, t, ttl, max))
<1> DEFINE f == Fresh(set, t)
           new == Record(key, t + ttl)
           rest == IF Len(f) >= max THEN Tail(f) ELSE f
           a == Admitted(set, key, t, ttl, max)
           c == ExpiredCount(set, t)
<1>1. /\ f \in Seq(Records(names)) /\ Len(f) = Len(set) - c
      /\ c \in 0 .. Len(set)
  BY FreshRecords
<1>2. Len(set) \in Nat /\ Len(f) \in Nat /\ DOMAIN f = 1 .. Len(f)
  BY <1>1, LenProperties
<1>3. new \in Records(names)
  BY DEF Record, Records
<1>4. a = Append(rest, new)
  BY DEF Admitted
<1> HIDE DEF f, a, c, new
<1>5. CASE Len(f) >= max
  <2>1. f # <<>>
    BY <1>2, <1>5, EmptySeq
  <2>2. /\ rest = Tail(f) /\ rest \in Seq(Records(names)) /\ Len(rest) = Len(f) - 1
        /\ \A i \in 1 .. Len(rest) : rest[i] = f[i + 1]
    BY <1>1, <1>5, <2>1, HeadTailProperties
  <2>3. Evicted(set, t, max) = <<f[1]>>
    <3>1. Head(f) = f[1]
      BY <1>1, <2>1
    <3> QED BY <1>5, <3>1 DEF Evicted, f
  <2> HIDE DEF rest
  <2>4. Len(Evicted(set, t, max)) = 1 /\ Keys(Evicted(set, t, max)) = {f[1].key}
    BY <2>3 DEF Keys
  <2>5. /\ a \in Seq(Records(names)) /\ Len(a) = Len(rest) + 1
        /\ \A i \in 1 .. Len(rest) : a[i] = rest[i]
        /\ a[Len(rest) + 1] = new
    BY <1>3, <1>4, <2>2, AppendProperties
  <2>6. DOMAIN a = 1 .. Len(a)
    BY <2>5, LenProperties
  <2>7. Len(a) <= max /\ Len(a) = Len(set) + 1 - c - 1 /\ Len(rest) + 1 \in 1 .. Len(a)
    BY <1>1, <1>2, <1>5, <2>2, <2>5
  <2>8. ASSUME NEW i \in 1 .. Len(f), f[i].key # f[1].key
        PROVE  f[i] \in ToSet(a)
    <3>1. i # 1
      BY <2>8
    <3>2. i - 1 \in 1 .. Len(rest) /\ i - 1 \in 1 .. Len(a) /\ (i - 1) + 1 = i
      BY <1>2, <2>2, <2>5, <3>1
    <3>3. a[i - 1] = f[i]
      BY <2>2, <2>5, <3>2
    <3> QED BY <2>6, <3>2, <3>3 DEF ToSet
  <2>9. new \in ToSet(a)
    BY <2>5, <2>6, <2>7 DEF ToSet
  <2> QED BY <1>2, <2>4, <2>5, <2>7, <2>8, <2>9 DEF ToSet, a, new, f, c
<1>6. CASE ~(Len(f) >= max)
  <2>1. rest = f /\ Evicted(set, t, max) = <<>>
    BY <1>6 DEF Evicted, f
  <2> HIDE DEF rest
  <2>2. Len(Evicted(set, t, max)) = 0
    BY <2>1
  <2>3. /\ a \in Seq(Records(names)) /\ Len(a) = Len(f) + 1
        /\ \A i \in 1 .. Len(f) : a[i] = f[i]
        /\ a[Len(f) + 1] = new
    <3>1. a = Append(f, new)
      BY <1>4, <2>1
    <3> QED BY <1>1, <1>3, <3>1, AppendProperties
  <2>4. DOMAIN a = 1 .. Len(a)
    BY <2>3, LenProperties
  <2>5. Len(a) <= max /\ Len(a) = Len(set) + 1 - c - 0 /\ Len(f) + 1 \in 1 .. Len(a)
    BY <1>1, <1>2, <1>6, <2>3
  <2>6. \A i \in 1 .. Len(f) : i \in 1 .. Len(a)
    BY <1>2, <2>3
  <2>7. \A i \in 1 .. Len(f) : f[i] \in ToSet(a)
    BY <2>3, <2>4, <2>6 DEF ToSet
  <2>8. new \in ToSet(a)
    BY <2>3, <2>4, <2>5 DEF ToSet
  <2> QED BY <1>2, <2>2, <2>3, <2>5, <2>7, <2>8 DEF ToSet, a, new, f, c
<1> QED BY <1>5, <1>6

-----------------------------------------------------------------------------
(* The tables, at time t and with n keys made.                             *)

Entries(t, n) ==
  [addr : Addrs, key : 1 .. n, since : 0 .. t,
   nonces : {set \in Seq(Records(Messages)) : Len(set) <= MaxNonces}]

\* The entries are in the order of their times, with one for an address and one
\* for a key.
Table(list, t, n) ==
  /\ list \in Seq(Entries(t, n))
  /\ \A i, j \in DOMAIN list :
       i < j => /\ list[i].since <= list[j].since
                /\ list[i].addr # list[j].addr
                /\ list[i].key # list[j].key

LEMMA EntryTypes ==
  ASSUME NEW t, NEW n, NEW e \in Entries(t, n)
  PROVE  /\ e.addr \in Addrs /\ e.key \in 1 .. n /\ e.since \in 0 .. t
         /\ e.nonces \in Seq(Records(Messages)) /\ Len(e.nonces) <= MaxNonces
         /\ Len(e.nonces) \in Nat /\ DOMAIN e.nonces = 1 .. Len(e.nonces)
<1>1. /\ e.addr \in Addrs /\ e.key \in 1 .. n /\ e.since \in 0 .. t
      /\ e.nonces \in Seq(Records(Messages)) /\ Len(e.nonces) <= MaxNonces
  BY DEF Entries
<1> QED BY <1>1, LenProperties

LEMMA TableTypes ==
  ASSUME NEW t, NEW n, NEW list, Table(list, t, n)
  PROVE  /\ Len(list) \in Nat /\ DOMAIN list = 1 .. Len(list)
         /\ \A i \in 1 .. Len(list) : list[i] \in Entries(t, n)
         /\ ToSet(list) \subseteq Entries(t, n)
<1>1. list \in Seq(Entries(t, n))
  BY DEF Table
<1> QED BY <1>1, LenProperties, ElementOfSeq DEF ToSet

\* An entry is known by its place, its address and its key.
LEMMA OneEntryEach ==
  ASSUME NEW t, NEW n, NEW list, Table(list, t, n)
  PROVE  /\ \A i, j \in 1 .. Len(list) :
              list[i].addr = list[j].addr \/ list[i].key = list[j].key => i = j
         /\ \A e, f \in ToSet(list) : e.addr = f.addr \/ e.key = f.key => e = f
<1>1. Len(list) \in Nat /\ DOMAIN list = 1 .. Len(list)
  BY TableTypes
<1>2. ASSUME NEW i \in 1 .. Len(list), NEW j \in 1 .. Len(list),
             list[i].addr = list[j].addr \/ list[i].key = list[j].key
      PROVE  i = j
  <2>1. ~(i < j) /\ ~(j < i)
    BY <1>1, <1>2 DEF Table
  <2> QED BY <2>1
<1> QED BY <1>1, <1>2 DEF ToSet

\* r is s without some of its entries.
LeavesOut(r, s) ==
  \E m \in [1 .. Len(r) -> 1 .. Len(s)] :
    \A i, j \in 1 .. Len(r) : r[i] = s[m[i]] /\ (i < j => m[i] < m[j])

LEMMA TableLeft ==
  ASSUME NEW t, NEW n, NEW s, Table(s, t, n), NEW r \in Seq(Entries(t, n)), LeavesOut(r, s)
  PROVE  Table(r, t, n)
<1>1. PICK m \in [1 .. Len(r) -> 1 .. Len(s)] :
        \A i, j \in 1 .. Len(r) : r[i] = s[m[i]] /\ (i < j => m[i] < m[j])
  BY DEF LeavesOut
<1>2. DOMAIN s = 1 .. Len(s) /\ DOMAIN r = 1 .. Len(r)
  BY TableTypes, LenProperties
<1>3. ASSUME NEW i \in DOMAIN r, NEW j \in DOMAIN r, i < j
      PROVE  /\ r[i].since <= r[j].since
             /\ r[i].addr # r[j].addr
             /\ r[i].key # r[j].key
  <2>1. r[i] = s[m[i]] /\ r[j] = s[m[j]] /\ m[i] < m[j]
    BY <1>1, <1>2, <1>3
  <2>2. m[i] \in DOMAIN s /\ m[j] \in DOMAIN s
    BY <1>1, <1>2
  <2> QED BY <2>1, <2>2 DEF Table
<1> QED BY <1>3 DEF Table

\* cleanup_expired_sessions and cleanup_expired_pending_sessions.
LEMMA KeptTable ==
  ASSUME now \in Nat, NEW n, NEW list, Table(list, now, n), NEW ttl \in Nat
  PROVE  /\ Table(Kept(list, ttl), now, n)
         /\ Len(Stale(list, ttl)) \in Nat
         /\ Len(list) = Len(Kept(list, ttl)) + Len(Stale(list, ttl))
         /\ ToSet(list) = ToSet(Kept(list, ttl)) \cup ToSet(Stale(list, ttl))
         /\ \A e \in ToSet(Kept(list, ttl)), f \in ToSet(Stale(list, ttl)) : e.key # f.key
         /\ \A f \in ToSet(Stale(list, ttl)) : now - f.since >= ttl
         /\ Len(Stale(list, ttl)) = 0 => ToSet(Stale(list, ttl)) = {}
<1> DEFINE c == StaleCount(list, ttl)
           E == Entries(now, n)
           k == Kept(list, ttl)
           s == Stale(list, ttl)
<1>1. /\ Len(list) \in Nat /\ DOMAIN list = 1 .. Len(list)
      /\ \A i \in 1 .. Len(list) : list[i] \in E
  BY TableTypes
<1>2. \A i \in 1 .. Len(list) : list[i].since \in Nat
  BY <1>1, EntryTypes
<1>3. c \in 0 .. Len(list) /\ \A i \in 1 .. c : now - list[i].since >= ttl
  BY <1>1, <1>2, StalePrefix
<1>4. k = SubSeq(list, c + 1, Len(list)) /\ s = SubSeq(list, 1, c)
  BY DEF Kept, Stale
<1> HIDE DEF c, E, k, s
<1>5. /\ c + 1 \in Int /\ Len(list) \in Int /\ c \in Int /\ 1 \in Int
      /\ \A i \in c + 1 .. Len(list) : i \in 1 .. Len(list)
      /\ \A i \in 1 .. c : i \in 1 .. Len(list)
  BY <1>1, <1>3
<1>6. (\A i \in c + 1 .. Len(list) : list[i] \in E) /\ (\A i \in 1 .. c : list[i] \in E)
  BY <1>1, <1>5
<1>7. /\ k \in Seq(E)
      /\ Len(k) = IF c + 1 <= Len(list) THEN Len(list) - (c + 1) + 1 ELSE 0
      /\ \A i \in 1 .. Len(list) - (c + 1) + 1 : k[i] = list[c + 1 + i - 1]
  BY <1>4, <1>5, <1>6, SubSeqProperties
<1>8. /\ s \in Seq(E)
      /\ Len(s) = IF 1 <= c THEN c - 1 + 1 ELSE 0
      /\ \A i \in 1 .. c - 1 + 1 : s[i] = list[1 + i - 1]
  BY <1>4, <1>5, <1>6, SubSeqProperties
<1>9. Len(k) = Len(list) - c /\ Len(s) = c
  <2>1. c + 1 <= Len(list) => Len(list) - (c + 1) + 1 = Len(list) - c
    BY <1>1, <1>3
  <2>2. ~(c + 1 <= Len(list)) => Len(list) - c = 0
    <3>1. Len(list) \in Nat /\ c \in 0 .. Len(list)
      BY <1>1, <1>3
    <3> QED BY <3>1
  <2>3. (1 <= c => c - 1 + 1 = c) /\ (~(1 <= c) => c = 0)
    BY <1>3
  <2> QED BY <1>7, <1>8, <2>1, <2>2, <2>3
<1>10. (\A i \in 1 .. Len(k) : k[i] = list[i + c]) /\ (\A i \in 1 .. c : s[i] = list[i])
  <2>1. \A i \in 1 .. Len(k) : i \in 1 .. Len(list) - (c + 1) + 1 /\ c + 1 + i - 1 = i + c
    BY <1>1, <1>3, <1>9
  <2>2. \A i \in 1 .. c : i \in 1 .. c - 1 + 1 /\ 1 + i - 1 = i
    BY <1>3
  <2> QED BY <1>7, <1>8, <2>1, <2>2
<1>11. DOMAIN k = 1 .. Len(k) /\ DOMAIN s = 1 .. c
  BY <1>7, <1>8, <1>9, LenProperties
<1>12. Table(k, now, n)
  <2> DEFINE m == [i \in 1 .. Len(k) |-> i + c]
  <2>1. \A i \in 1 .. Len(k) : i + c \in 1 .. Len(list)
    BY <1>1, <1>3, <1>9
  <2>2. m \in [1 .. Len(k) -> 1 .. Len(list)]
    BY <2>1
  <2>3. \A i, j \in 1 .. Len(k) : i < j => i + c < j + c
    BY <1>3
  <2>4. \A i, j \in 1 .. Len(k) : k[i] = list[m[i]] /\ (i < j => m[i] < m[j])
    BY <1>10, <2>3
  <2>5. LeavesOut(k, list)
    BY <2>2, <2>4 DEF LeavesOut
  <2> QED BY <1>7, <2>5, TableLeft DEF E
<1>13. ToSet(list) = ToSet(k) \cup ToSet(s)
  <2>1. ASSUME NEW i \in 1 .. Len(list)
        PROVE  list[i] \in ToSet(k) \cup ToSet(s)
    <3>1. CASE i <= c
      <4>1. i \in 1 .. c
        BY <3>1, <1>3
      <4> QED BY <4>1, <1>10, <1>11 DEF ToSet
    <3>2. CASE ~(i <= c)
      <4>1. i - c \in 1 .. Len(k) /\ (i - c) + c = i
        BY <3>2, <1>1, <1>3, <1>9
      <4>2. k[i - c] = list[i]
        BY <4>1, <1>10
      <4> QED BY <4>1, <4>2, <1>11 DEF ToSet
    <3> QED BY <3>1, <3>2
  <2>2. \A i \in 1 .. Len(k) : i + c \in 1 .. Len(list)
    BY <1>1, <1>3, <1>9
  <2>3. \A i \in 1 .. Len(k) : k[i] \in ToSet(list)
    BY <1>1, <1>10, <2>2 DEF ToSet
  <2>4. \A i \in 1 .. c : s[i] \in ToSet(list)
    BY <1>1, <1>5, <1>10 DEF ToSet
  <2> QED BY <1>1, <1>11, <2>1, <2>3, <2>4 DEF ToSet
<1>14. ASSUME NEW i \in 1 .. Len(k), NEW j \in 1 .. c
       PROVE  k[i].key # s[j].key
  <2>1. j < i + c /\ i + c \in DOMAIN list /\ j \in DOMAIN list
    BY <1>1, <1>3, <1>9
  <2>2. list[j].key # list[i + c].key
    BY <2>1 DEF Table
  <2> QED BY <2>2, <1>10
<1>15. \A j \in 1 .. c : now - s[j].since >= ttl
  BY <1>3, <1>10
<1>16. c = 0 => ToSet(s) = {}
  BY <1>11 DEF ToSet
<1>17. c \in Nat /\ Len(list) = Len(k) + c
  BY <1>1, <1>3, <1>9
<1> QED BY <1>9, <1>11, <1>12, <1>13, <1>14, <1>15, <1>16, <1>17 DEF k, s, ToSet

LEMMA TableGrows ==
  ASSUME NEW t \in Nat, NEW u \in Nat, t <= u, NEW n \in Nat, NEW m \in Nat, n <= m,
         NEW list, Table(list, t, n)
  PROVE  Table(list, u, m)
<1>1. 0 .. t \subseteq 0 .. u /\ 1 .. n \subseteq 1 .. m
  OBVIOUS
<1>2. Entries(t, n) \subseteq Entries(u, m)
  BY <1>1 DEF Entries
<1>3. list \in Seq(Entries(u, m))
  BY <1>2, SeqMonotonic DEF Table
<1> QED BY <1>3 DEF Table

LEMMA EntryOf ==
  ASSUME NEW list, NEW a, Has(list, a)
  PROVE  Entry(list, a) \in ToSet(list) /\ Entry(list, a).addr = a
<1>1. \E e \in ToSet(list) : e.addr = a
  BY DEF Has, ToSet
<1> QED BY <1>1 DEF Entry

\* The removal of an entry, out of the middle.
LEMMA WithoutTable ==
  ASSUME NEW t, NEW n, NEW list, Table(list, t, n), NEW a, Has(list, a)
  PROVE  /\ Table(Without(list, a), t, n)
         /\ Len(list) = Len(Without(list, a)) + 1
         /\ ToSet(Without(list, a)) = ToSet(list) \ {Entry(list, a)}
<1> DEFINE E == Entries(t, n)
           p == CHOOSE i \in DOMAIN list : list[i].addr = a
           front == SubSeq(list, 1, p - 1)
           back == SubSeq(list, p + 1, Len(list))
           w == Without(list, a)
<1>1. /\ Len(list) \in Nat /\ DOMAIN list = 1 .. Len(list)
      /\ \A i \in 1 .. Len(list) : list[i] \in E
  BY TableTypes
<1>2. p \in 1 .. Len(list) /\ list[p].addr = a
  BY <1>1 DEF Has
<1>3. w = front \o back
  BY DEF Without, RemoveAt
<1>4. Entry(list, a) = list[p]
  <2>1. list[p] \in ToSet(list)
    BY <1>1, <1>2 DEF ToSet
  <2> QED BY <1>2, <2>1, EntryOf, OneEntryEach
<1> HIDE DEF E, p, w
<1>5. /\ p - 1 \in Int /\ p + 1 \in Int /\ Len(list) \in Int /\ 1 \in Int
      /\ \A i \in p + 1 .. Len(list) : i \in 1 .. Len(list)
      /\ \A i \in 1 .. p - 1 : i \in 1 .. Len(list)
  BY <1>1, <1>2
<1>6. (\A i \in p + 1 .. Len(list) : list[i] \in E) /\ (\A i \in 1 .. p - 1 : list[i] \in E)
  BY <1>1, <1>5
<1>7. /\ back \in Seq(E)
      /\ Len(back) = IF p + 1 <= Len(list) THEN Len(list) - (p + 1) + 1 ELSE 0
      /\ \A i \in 1 .. Len(list) - (p + 1) + 1 : back[i] = list[p + 1 + i - 1]
  BY <1>5, <1>6, SubSeqProperties
<1>8. /\ front \in Seq(E)
      /\ Len(front) = IF 1 <= p - 1 THEN p - 1 - 1 + 1 ELSE 0
      /\ \A i \in 1 .. p - 1 - 1 + 1 : front[i] = list[1 + i - 1]
  BY <1>5, <1>6, SubSeqProperties
<1> HIDE DEF front, back
<1>9. Len(back) = Len(list) - p /\ Len(front) = p - 1
  <2>1. Len(list) \in Nat /\ p \in 1 .. Len(list)
    BY <1>1, <1>2
  <2>2. p + 1 <= Len(list) => Len(list) - (p + 1) + 1 = Len(list) - p
    BY <2>1
  <2>3. ~(p + 1 <= Len(list)) => Len(list) - p = 0
    BY <2>1
  <2>4. (1 <= p - 1 => p - 1 - 1 + 1 = p - 1) /\ (~(1 <= p - 1) => p - 1 = 0)
    BY <2>1
  <2> QED BY <1>7, <1>8, <2>2, <2>3, <2>4
<1>10. /\ w \in Seq(E) /\ Len(w) = Len(list) - 1
       /\ \A i \in 1 .. Len(list) - 1 : w[i] = IF i <= p - 1 THEN front[i] ELSE back[i - (p - 1)]
  <2>1. (p - 1) + (Len(list) - p) = Len(list) - 1
    BY <1>1, <1>2
  <2>2. front \in Seq(E) /\ back \in Seq(E)
    BY <1>7, <1>8
  <2> DEFINE both == front \o back
  <2>3. /\ both \in Seq(E) /\ Len(both) = Len(front) + Len(back)
        /\ \A i \in 1 .. Len(front) + Len(back) :
             both[i] = IF i <= Len(front) THEN front[i] ELSE back[i - Len(front)]
    BY ONLY <2>2, ConcatProperties
  <2> HIDE DEF both
  <2>4. Len(front) + Len(back) = Len(list) - 1 /\ Len(front) = p - 1
    BY <1>9, <2>1
  <2> QED BY <1>3, <2>3, <2>4 DEF both
<1> DEFINE at(i) == IF i <= p - 1 THEN i ELSE i + 1
<1>11. \A i \in 1 .. Len(list) - 1 : at(i) \in 1 .. Len(list) /\ at(i) # p /\ w[i] = list[at(i)]
  <2> TAKE i \in 1 .. Len(list) - 1
  <2>1. CASE i <= p - 1
    <3>1. i \in 1 .. p - 1 - 1 + 1 /\ 1 + i - 1 = i /\ i \in 1 .. Len(list) /\ i # p
      BY <2>1, <1>1, <1>2
    <3>2. w[i] = list[i]
      BY <3>1, <2>1, <1>8, <1>10
    <3> QED BY <2>1, <3>1, <3>2
  <2>2. CASE ~(i <= p - 1)
    <3>1. /\ i - (p - 1) \in 1 .. Len(list) - (p + 1) + 1
          /\ p + 1 + (i - (p - 1)) - 1 = i + 1
          /\ i + 1 \in 1 .. Len(list) /\ i + 1 # p
      BY <2>2, <1>1, <1>2
    <3>2. w[i] = list[i + 1]
      BY <3>1, <2>2, <1>7, <1>10
    <3> QED BY <2>2, <3>1, <3>2
  <2> QED BY <2>1, <2>2
<1>12. DOMAIN w = 1 .. Len(list) - 1
  BY <1>10, LenProperties
<1>13. Table(w, t, n)
  <2> DEFINE m == [i \in 1 .. Len(w) |-> at(i)]
  <2>1. m \in [1 .. Len(w) -> 1 .. Len(list)]
    BY <1>10, <1>11
  <2>2. \A i, j \in 1 .. Len(list) - 1 : i < j => at(i) < at(j)
    <3>1. p \in Int /\ \A i \in 1 .. Len(list) - 1 : i \in Int
      BY <1>1, <1>2
    <3> QED BY <3>1
  <2>3. \A i, j \in 1 .. Len(w) : w[i] = list[m[i]] /\ (i < j => m[i] < m[j])
    BY <1>10, <1>11, <2>2
  <2>4. LeavesOut(w, list)
    BY <2>1, <2>3 DEF LeavesOut
  <2> QED BY <1>10, <2>4, TableLeft DEF E
<1>14. ASSUME NEW j \in 1 .. Len(list), j # p
       PROVE  list[j] \in ToSet(w)
  <2>1. CASE j < p
    <3>1. j \in 1 .. Len(list) - 1 /\ at(j) = j
      BY <2>1, <1>1, <1>2
    <3> QED BY <3>1, <1>11, <1>12 DEF ToSet
  <2>2. CASE ~(j < p)
    <3>1. j - 1 \in 1 .. Len(list) - 1 /\ at(j - 1) = j
      BY <2>2, <1>14, <1>1, <1>2
    <3> QED BY <3>1, <1>11, <1>12 DEF ToSet
  <2> QED BY <2>1, <2>2
<1>15. \A i \in 1 .. Len(list) - 1 : w[i] \in ToSet(list) \ {list[p]}
  <2>1. \A i \in 1 .. Len(list) : i # p => list[i] # list[p]
    BY <1>2, OneEntryEach
  <2> HIDE DEF at
  <2> QED BY <1>1, <1>2, <1>11, <2>1 DEF ToSet
<1>16. ToSet(w) = ToSet(list) \ {list[p]}
  BY <1>1, <1>2, <1>12, <1>14, <1>15 DEF ToSet
<1>17. Len(list) = Len(w) + 1
  BY <1>1, <1>10
<1> QED BY <1>4, <1>13, <1>16, <1>17 DEF w

\* A new entry, or one touched, at the end.
LEMMA AppendedTable ==
  ASSUME NEW t \in Nat, NEW n \in Nat, NEW list, Table(list, t, n),
         NEW e \in Entries(t, n), e.since = t,
         \A f \in ToSet(list) : f.addr # e.addr /\ f.key # e.key
  PROVE  /\ Table(Append(list, e), t, n)
         /\ Len(Append(list, e)) = Len(list) + 1
         /\ ToSet(Append(list, e)) = ToSet(list) \cup {e}
<1> DEFINE w == Append(list, e)
<1>1. /\ Len(list) \in Nat /\ DOMAIN list = 1 .. Len(list)
      /\ \A i \in 1 .. Len(list) : list[i] \in Entries(t, n)
      /\ list \in Seq(Entries(t, n))
  BY TableTypes DEF Table
<1>2. /\ w \in Seq(Entries(t, n)) /\ Len(w) = Len(list) + 1
      /\ \A i \in 1 .. Len(list) : w[i] = list[i]
      /\ w[Len(list) + 1] = e
  BY <1>1, AppendProperties
<1> HIDE DEF w
<1>3. DOMAIN w = 1 .. Len(list) + 1
  BY <1>2, LenProperties
<1>4. ASSUME NEW i \in DOMAIN w, NEW j \in DOMAIN w, i < j
      PROVE  /\ w[i].since <= w[j].since
             /\ w[i].addr # w[j].addr
             /\ w[i].key # w[j].key
  <2>1. i \in 1 .. Len(list)
    BY <1>1, <1>3, <1>4
  <2>2. CASE j = Len(list) + 1
    <3>1. list[i] \in ToSet(list) /\ list[i].since \in 0 .. t
      BY <2>1, <1>1, EntryTypes DEF ToSet
    <3>2. list[i].since <= t
      BY <3>1
    <3> QED BY <2>1, <2>2, <3>1, <3>2, <1>2
  <2>3. CASE j # Len(list) + 1
    <3>1. j \in 1 .. Len(list)
      BY <2>3, <1>1, <1>3
    <3> QED BY <2>1, <3>1, <1>1, <1>2, <1>4 DEF Table
  <2> QED BY <2>2, <2>3
<1>5. ToSet(w) = ToSet(list) \cup {e}
  <2>1. 1 .. Len(list) + 1 = (1 .. Len(list)) \cup {Len(list) + 1}
    BY <1>1
  <2> QED BY <1>1, <1>2, <1>3, <2>1 DEF ToSet
<1> QED BY <1>2, <1>4, <1>5 DEF w, Table

\* What makes room is the entry of the address, or the oldest of a full table.
LEMMA DisplacedEntry ==
  ASSUME NEW t \in Nat, NEW n \in Nat, NEW list, Table(list, t, n), NEW a,
         NEW max \in Nat \ {0}, Len(list) <= max
  PROVE  \/ /\ Displaced(list, a, max) = <<>>
            /\ ~Has(list, a) /\ Len(list) < max
         \/ \E e \in ToSet(list) :
              /\ Displaced(list, a, max) = <<e>>
              /\ Has(list, e.addr) /\ e = Entry(list, e.addr)
              /\ \/ e.addr = a
                 \/ /\ ~Has(list, a) /\ Len(list) = max
                    /\ \A f \in ToSet(list) : e.since <= f.since
<1>1. /\ Len(list) \in Nat /\ DOMAIN list = 1 .. Len(list)
      /\ \A i \in 1 .. Len(list) : list[i] \in Entries(t, n)
      /\ list \in Seq(Entries(t, n))
  BY TableTypes DEF Table
<1>2. CASE Has(list, a)
  <2>1. Entry(list, a) \in ToSet(list) /\ Entry(list, a).addr = a
    BY <1>2, EntryOf
  <2>2. Displaced(list, a, max) = <<Entry(list, a)>>
    BY <1>2 DEF Displaced
  <2> QED BY <1>2, <2>1, <2>2
<1>3. CASE ~Has(list, a) /\ Len(list) >= max
  <2>1. Len(list) = max /\ 1 \in 1 .. Len(list) /\ Len(list) # 0
    <3>1. Len(list) \in Nat /\ Len(list) >= max
      BY <1>1, <1>3
    <3> QED BY <3>1
  <2>2. Displaced(list, a, max) = <<list[1]>>
    <3>1. list # <<>>
      BY <2>1, EmptySeq
    <3>2. Head(list) = list[1]
      BY <1>1, <3>1
    <3> QED BY <1>3, <3>2 DEF Displaced
  <2>3. list[1] \in ToSet(list) /\ Has(list, list[1].addr)
    BY <1>1, <2>1 DEF ToSet, Has
  <2>4. list[1] = Entry(list, list[1].addr)
    BY <2>3, EntryOf, OneEntryEach
  <2>5. \A i \in 1 .. Len(list) : list[1].since <= list[i].since
    <3> TAKE i \in 1 .. Len(list)
    <3>1. list[1].since \in Nat
      BY <1>1, <2>1, EntryTypes
    <3>2. i = 1 \/ 1 < i
      OBVIOUS
    <3>3. 1 < i => list[1].since <= list[i].since
      BY <1>1, <2>1 DEF Table
    <3> QED BY <3>1, <3>2, <3>3
  <2>6. \A f \in ToSet(list) : list[1].since <= f.since
    BY <1>1, <2>5 DEF ToSet
  <2> QED BY <1>3, <2>1, <2>2, <2>3, <2>4, <2>6
<1>4. CASE ~Has(list, a) /\ ~(Len(list) >= max)
  <2>1. Len(list) < max
    BY <1>1, <1>4
  <2> QED BY <1>4, <2>1 DEF Displaced
<1> QED BY <1>2, <1>3, <1>4

\* install_pending_session and promote_pending_session.
LEMMA InstalledTable ==
  ASSUME NEW t \in Nat, NEW n \in Nat, NEW list, Table(list, t, n),
         NEW max \in Nat \ {0}, Len(list) <= max,
         NEW e \in Entries(t, n), e.since = t, \A f \in ToSet(list) : f.key # e.key
  PROVE  LET d == Displaced(list, e.addr, max)
             w == Installed(list, e, max)
         IN  /\ Len(d) \in {0, 1} /\ ToSet(d) \subseteq ToSet(list)
             /\ Table(w, t, n) /\ Len(w) <= max /\ Len(w) = Len(list) + 1 - Len(d)
             /\ ToSet(w) = (ToSet(list) \ ToSet(d)) \cup {e}
<1> DEFINE d == Displaced(list, e.addr, max)
           w == Installed(list, e, max)
<1>1. Len(list) \in Nat /\ DOMAIN list = 1 .. Len(list)
  BY TableTypes
<1>2. CASE d = <<>> /\ ~Has(list, e.addr) /\ Len(list) < max
  <2>1. w = Append(list, e)
    BY <1>2 DEF Installed
  <2>2. \A f \in ToSet(list) : f.addr # e.addr /\ f.key # e.key
    BY <1>2 DEF Has, ToSet
  <2>3. Table(w, t, n) /\ Len(w) = Len(list) + 1 /\ ToSet(w) = ToSet(list) \cup {e}
    BY <2>1, <2>2, AppendedTable
  <2>4. Len(d) = 0 /\ ToSet(d) = {}
    BY <1>2 DEF ToSet
  <2> HIDE DEF d, w
  <2>5. Len(w) <= max /\ Len(w) = Len(list) + 1 - Len(d)
    BY <1>1, <1>2, <2>3, <2>4
  <2> QED BY <2>3, <2>4, <2>5 DEF d, w
<1>3. ASSUME NEW f \in ToSet(list), d = <<f>>, Has(list, f.addr), f = Entry(list, f.addr),
             f.addr = e.addr \/ ~Has(list, e.addr)
      PROVE  /\ Len(d) \in {0, 1} /\ ToSet(d) \subseteq ToSet(list)
             /\ Table(w, t, n) /\ Len(w) <= max /\ Len(w) = Len(list) + 1 - Len(d)
             /\ ToSet(w) = (ToSet(list) \ ToSet(d)) \cup {e}
  <2> DEFINE v == Without(list, f.addr)
  <2>1. w = Append(v, e)
    <3>1. d # <<>> /\ Head(d) = f
      BY <1>3
    <3> QED BY <3>1 DEF Installed
  <2>2. Len(d) = 1 /\ ToSet(d) = {f}
    BY <1>3 DEF ToSet
  <2>3. Table(v, t, n) /\ Len(list) = Len(v) + 1 /\ ToSet(v) = ToSet(list) \ {f}
    BY <1>3, WithoutTable
  <2> HIDE DEF v, d, w
  <2>4. \A g \in ToSet(v) : g.addr # e.addr
    <3>1. CASE f.addr = e.addr
      BY <3>1, <2>3, OneEntryEach
    <3>2. CASE ~Has(list, e.addr)
      BY <3>2, <2>3 DEF Has, ToSet
    <3> QED BY <1>3, <3>1, <3>2
  <2>5. Table(w, t, n) /\ Len(w) = Len(v) + 1 /\ ToSet(w) = ToSet(v) \cup {e}
    BY <2>1, <2>3, <2>4, AppendedTable
  <2>6. Len(v) \in Nat
    BY <2>3, TableTypes
  <2>7. Len(w) <= max /\ Len(w) = Len(list) + 1 - Len(d)
    BY <1>1, <2>2, <2>3, <2>5, <2>6
  <2> QED BY <2>2, <2>3, <2>5, <2>7
<1> QED BY <1>2, <1>3, DisplacedEntry

\* _touch_active_session.
LEMMA TouchedTable ==
  ASSUME NEW t \in Nat, NEW n \in Nat, NEW list, Table(list, t, n), NEW a, Has(list, a),
         NEW e \in Entries(t, n), e.since = t, e.addr = a, e.key = Entry(list, a).key
  PROVE  /\ Table(Touched(list, a, e), t, n)
         /\ Len(Touched(list, a, e)) = Len(list)
         /\ ToSet(Touched(list, a, e)) = (ToSet(list) \ {Entry(list, a)}) \cup {e}
<1> DEFINE v == Without(list, a)
           f == Entry(list, a)
<1>1. Table(v, t, n) /\ Len(list) = Len(v) + 1 /\ ToSet(v) = ToSet(list) \ {f}
  BY WithoutTable
<1>2. f \in ToSet(list) /\ f.addr = a
  BY EntryOf
<1> HIDE DEF v, f
<1>3. \A g \in ToSet(v) : g.addr # e.addr /\ g.key # e.key
  BY <1>1, <1>2, OneEntryEach DEF f
<1>4. Touched(list, a, e) = Append(v, e)
  BY DEF Touched, v
<1> QED BY <1>1, <1>3, <1>4, AppendedTable DEF f

\* An entry whose nonces change where it is.
LEMMA RenoncedTable ==
  ASSUME NEW t, NEW n, NEW list, Table(list, t, n), NEW a, Has(list, a),
         NEW x \in Seq(Records(Messages)), Len(x) <= MaxNonces
  PROVE  LET e == [Entry(list, a) EXCEPT !.nonces = x]
             w == [i \in DOMAIN list |->
                     IF list[i].addr = a THEN [list[i] EXCEPT !.nonces = x] ELSE list[i]]
         IN  /\ Table(w, t, n) /\ Len(w) = Len(list)
             /\ ToSet(w) = (ToSet(list) \ {Entry(list, a)}) \cup {e}
<1> DEFINE Changed(f) == IF f.addr = a THEN [f EXCEPT !.nonces = x] ELSE f
           w == [i \in DOMAIN list |-> Changed(list[i])]
           e == [Entry(list, a) EXCEPT !.nonces = x]
<1>1. /\ Len(list) \in Nat /\ DOMAIN list = 1 .. Len(list)
      /\ \A i \in 1 .. Len(list) : list[i] \in Entries(t, n)
  BY TableTypes
<1>2. \A f \in Entries(t, n) :
        /\ Changed(f) \in Entries(t, n)
        /\ Changed(f).addr = f.addr /\ Changed(f).key = f.key /\ Changed(f).since = f.since
  BY DEF Entries
<1>3. Entry(list, a) \in ToSet(list) /\ Entry(list, a).addr = a
  BY EntryOf
<1>4. \A f \in ToSet(list) : f.addr = a => f = Entry(list, a)
  BY <1>3, OneEntryEach
<1>5. \A f \in ToSet(list) : IF f = Entry(list, a) THEN Changed(f) = e ELSE Changed(f) = f
  BY <1>3, <1>4
<1> HIDE DEF Changed, e
<1>6. w \in Seq(Entries(t, n)) /\ Len(w) = Len(list) /\ DOMAIN w = DOMAIN list
  BY <1>1, <1>2
<1>7. Table(w, t, n)
  <2>1. ASSUME NEW i \in DOMAIN w, NEW j \in DOMAIN w, i < j
        PROVE  /\ w[i].since <= w[j].since
               /\ w[i].addr # w[j].addr
               /\ w[i].key # w[j].key
    <3>1. i \in DOMAIN list /\ j \in DOMAIN list /\ w[i] = Changed(list[i]) /\ w[j] = Changed(list[j])
      BY <2>1
    <3>2. /\ w[i].addr = list[i].addr /\ w[i].key = list[i].key /\ w[i].since = list[i].since
          /\ w[j].addr = list[j].addr /\ w[j].key = list[j].key /\ w[j].since = list[j].since
      BY <3>1, <1>1, <1>2
    <3>3. /\ list[i].since <= list[j].since
          /\ list[i].addr # list[j].addr
          /\ list[i].key # list[j].key
      BY <3>1, <2>1 DEF Table
    <3> QED BY <3>2, <3>3
  <2> HIDE DEF w
  <2> QED BY <1>6, <2>1 DEF Table
<1>8. ToSet(w) = {Changed(f) : f \in ToSet(list)}
  BY DEF ToSet
<1>9. {Changed(f) : f \in ToSet(list)} = (ToSet(list) \ {Entry(list, a)}) \cup {e}
  BY <1>3, <1>5
<1> QED BY <1>6, <1>7, <1>8, <1>9 DEF Changed, e

-----------------------------------------------------------------------------
(* The nonces of a set of entries, which NonceTotal counts.                *)

Held(set) == UNION {{e.key} \X DOMAIN e.nonces : e \in set}

Weight(set) == Cardinality(Held(set))

LEMMA HeldIsFinite ==
  ASSUME NEW t, NEW n \in Nat, NEW set, set \subseteq Entries(t, n)
  PROVE  IsFiniteSet(Held(set)) /\ Weight(set) \in Nat
<1>1. MaxNonces \in Nat
  BY SecureStateAssumption DEF SecureStateAssumption
<1>2. Held(set) \subseteq (1 .. n) \X (1 .. MaxNonces)
  <2>1. ASSUME NEW e \in set
        PROVE  {e.key} \X DOMAIN e.nonces \subseteq (1 .. n) \X (1 .. MaxNonces)
    <3>1. /\ e.key \in 1 .. n /\ Len(e.nonces) <= MaxNonces /\ Len(e.nonces) \in Nat
          /\ DOMAIN e.nonces = 1 .. Len(e.nonces)
      BY <2>1, EntryTypes
    <3>2. 1 .. Len(e.nonces) \subseteq 1 .. MaxNonces
      BY <3>1, <1>1
    <3> QED BY <3>1, <3>2
  <2> QED BY <2>1 DEF Held
<1>3. IsFiniteSet((1 .. n) \X (1 .. MaxNonces))
  <2>1. 1 \in Int /\ n \in Int /\ MaxNonces \in Int
    BY <1>1
  <2>2. IsFiniteSet(1 .. n) /\ IsFiniteSet(1 .. MaxNonces)
    BY <2>1, FS_Interval
  <2> QED BY <2>2, FS_Product
<1>4. IsFiniteSet(Held(set))
  BY <1>2, <1>3, FS_Subset
<1> QED BY <1>4, FS_CardinalityType DEF Weight

\* No key is in both.
Apart(A, B) == \A e \in A, f \in B : e.key # f.key

LEMMA WeightApart ==
  ASSUME NEW t, NEW n \in Nat, NEW A, A \subseteq Entries(t, n), NEW B, B \subseteq Entries(t, n),
         Apart(A, B)
  PROVE  /\ Weight(A) \in Nat /\ Weight(B) \in Nat
         /\ Weight(A \cup B) = Weight(A) + Weight(B)
<1>1. Held(A \cup B) = Held(A) \cup Held(B)
  BY DEF Held
<1>2. Held(A) \cap Held(B) = {}
  <2>1. ASSUME NEW x \in Held(A), NEW y \in Held(B)
        PROVE  x # y
    <3>1. PICK e \in A : x \in {e.key} \X DOMAIN e.nonces
      BY <2>1 DEF Held
    <3>2. PICK f \in B : y \in {f.key} \X DOMAIN f.nonces
      BY <2>1 DEF Held
    <3>3. x[1] = e.key /\ y[1] = f.key
      BY <3>1, <3>2
    <3> QED BY <3>1, <3>2, <3>3 DEF Apart
  <2> QED BY <2>1
<1>3. /\ IsFiniteSet(Held(A)) /\ Weight(A) \in Nat
      /\ IsFiniteSet(Held(B)) /\ Weight(B) \in Nat
  BY HeldIsFinite
<1>4. Cardinality(Held(A) \cap Held(B)) = 0
  BY <1>2, FS_EmptySet
<1>5. Cardinality(Held(A) \cup Held(B)) = Cardinality(Held(A)) + Cardinality(Held(B)) - 0
  BY <1>3, <1>4, FS_Union
<1>6. Weight(A \cup B) = Weight(A) + Weight(B) - 0
  BY <1>1, <1>5 DEF Weight
<1> QED BY <1>3, <1>6

LEMMA WeightOfOne ==
  ASSUME NEW t, NEW n \in Nat, NEW e \in Entries(t, n)
  PROVE  Weight({e}) = Len(e.nonces)
<1>1. Len(e.nonces) \in Nat /\ DOMAIN e.nonces = 1 .. Len(e.nonces)
  BY EntryTypes
<1>2. Held({e}) = {e.key} \X (1 .. Len(e.nonces))
  BY <1>1 DEF Held
<1> DEFINE l == Len(e.nonces)
           k == e.key
<1> HIDE DEF l, k
<1>3. IsFiniteSet(1 .. l) /\ Cardinality(1 .. l) = l
  <2>1. 1 \in Int /\ l \in Int /\ l \in Nat
    BY <1>1 DEF l
  <2>2. /\ IsFiniteSet(1 .. l)
        /\ Cardinality(1 .. l) = IF 1 > l THEN 0 ELSE l - 1 + 1
    BY <2>1, FS_Interval
  <2> QED BY <2>1, <2>2
<1>4. IsFiniteSet({k}) /\ Cardinality({k}) = 1
  BY FS_Singleton
<1>5. Cardinality({k} \X (1 .. l)) = 1 * l
  <2> DEFINE A == {k}
             B == 1 .. l
  <2> HIDE DEF A, B
  <2>1. IsFiniteSet(A) /\ IsFiniteSet(B) /\ Cardinality(A) = 1 /\ Cardinality(B) = l
    BY <1>3, <1>4 DEF A, B
  <2>2. Cardinality(A \X B) = Cardinality(A) * Cardinality(B)
    BY ONLY <2>1, FS_Product
  <2> QED BY <2>1, <2>2 DEF A, B
<1>6. Weight({e}) = 1 * l
  BY <1>2, <1>5 DEF Weight, l, k
<1>7. l \in Nat
  BY <1>1 DEF l
<1> QED BY <1>6, <1>7 DEF l

LEMMA WeightOfNone == Weight({}) = 0
BY FS_EmptySet DEF Weight, Held

LEMMA TotalIsWeight ==
  ASSUME NEW list
  PROVE  NonceTotal(list) = Weight(ToSet(list))
BY DEF NonceTotal, Weight, Held

AddUp(a, b, c) == a \in Nat /\ b \in Nat /\ c = a + b

LEMMA WeightOfParts ==
  ASSUME NEW t, NEW n \in Nat, NEW list, Table(list, t, n), NEW u, NEW v,
         ToSet(list) = ToSet(u) \cup ToSet(v), Apart(ToSet(u), ToSet(v))
  PROVE  AddUp(Weight(ToSet(u)), Weight(ToSet(v)), Weight(ToSet(list)))
<1>1. ToSet(u) \subseteq Entries(t, n) /\ ToSet(v) \subseteq Entries(t, n)
  BY TableTypes
<1> QED BY <1>1, WeightApart DEF AddUp

\* Without an entry its nonces are gone; with one they are there.
LEMMA WeightLess ==
  ASSUME NEW t \in Nat, NEW n \in Nat, NEW list, Table(list, t, n), NEW e \in ToSet(list)
  PROVE  /\ Len(e.nonces) \in Nat
         /\ Weight(ToSet(list)) \in Nat
         /\ Weight(ToSet(list) \ {e}) \in Nat
         /\ Weight(ToSet(list) \ {e}) = Weight(ToSet(list)) - Len(e.nonces)
<1> DEFINE rest == ToSet(list) \ {e}
           one == {e}
<1>1. rest \subseteq Entries(t, n) /\ one \subseteq Entries(t, n) /\ e \in Entries(t, n)
  BY TableTypes
<1>2. Apart(rest, one)
  BY OneEntryEach DEF Apart
<1>3. ToSet(list) = rest \cup one
  OBVIOUS
<1>4. Weight(one) = Len(e.nonces)
  BY <1>1, WeightOfOne
<1> HIDE DEF rest, one
<1>5. /\ Weight(rest) \in Nat /\ Weight(one) \in Nat
      /\ Weight(rest \cup one) = Weight(rest) + Weight(one)
  BY <1>1, <1>2, WeightApart
<1>6. Len(e.nonces) \in Nat
  BY <1>4, <1>5
<1>7. Weight(ToSet(list)) = Weight(rest) + Len(e.nonces)
  BY <1>3, <1>4, <1>5
<1>8. Weight(ToSet(list)) \in Nat /\ Weight(rest) = Weight(ToSet(list)) - Len(e.nonces)
  BY ONLY <1>5, <1>6, <1>7
<1> QED BY <1>5, <1>6, <1>8 DEF rest

LEMMA WeightMore ==
  ASSUME NEW t, NEW n \in Nat, NEW A, A \subseteq Entries(t, n), NEW e \in Entries(t, n),
         \A f \in A : f.key # e.key
  PROVE  /\ Weight(A) \in Nat /\ Len(e.nonces) \in Nat
         /\ Weight(A \cup {e}) = Weight(A) + Len(e.nonces)
<1> DEFINE one == {e}
<1>1. A \subseteq Entries(t, n) /\ one \subseteq Entries(t, n) /\ Apart(A, one)
  BY DEF Apart
<1>2. Weight(one) = Len(e.nonces)
  BY WeightOfOne
<1> HIDE DEF one
<1>3. /\ Weight(A) \in Nat /\ Weight(one) \in Nat
      /\ Weight(A \cup one) = Weight(A) + Weight(one)
  BY ONLY <1>1, n \in Nat, WeightApart
<1>4. Len(e.nonces) \in Nat
  BY <1>2, <1>3
<1>5. Weight(A \cup one) = Weight(A) + Len(e.nonces)
  BY <1>2, <1>3
<1> QED BY <1>3, <1>4, <1>5 DEF one

\* What the counts lose and gain when an entry is installed.
LEMMA InstalledWeight ==
  ASSUME NEW t \in Nat, NEW n \in Nat, NEW list, Table(list, t, n),
         NEW max \in Nat \ {0}, Len(list) <= max,
         NEW e \in Entries(t, n), e.since = t, \A f \in ToSet(list) : f.key # e.key
  PROVE  /\ NonceTotal(Displaced(list, e.addr, max)) \in Nat
         /\ Weight(ToSet(list)) \in Nat /\ Len(e.nonces) \in Nat
         /\ Weight(ToSet(Installed(list, e, max)))
              = Weight(ToSet(list)) - NonceTotal(Displaced(list, e.addr, max)) + Len(e.nonces)
<1> DEFINE d == Displaced(list, e.addr, max)
           rest == ToSet(list) \ ToSet(d)
<1>1. ToSet(Installed(list, e, max)) = rest \cup {e}
  BY InstalledTable
<1>2. NonceTotal(d) = Weight(ToSet(d))
  BY TotalIsWeight
<1>3. ToSet(list) \subseteq Entries(t, n)
  BY TableTypes
<1>4. Weight(ToSet(list)) \in Nat
  BY <1>3, HeldIsFinite
<1> HIDE DEF d, rest
<1>5. /\ NonceTotal(d) \in Nat
      /\ Weight(rest) = Weight(ToSet(list)) - NonceTotal(d)
  <2>1. CASE d = <<>>
    <3>1. ToSet(d) = {}
      BY <2>1 DEF ToSet
    <3>2. NonceTotal(d) = 0 /\ rest = ToSet(list)
      BY <3>1, <1>2, WeightOfNone DEF rest
    <3> QED BY <3>2, <1>4
  <2>2. ASSUME NEW f \in ToSet(list), d = <<f>>
        PROVE  /\ NonceTotal(d) \in Nat
               /\ Weight(rest) = Weight(ToSet(list)) - NonceTotal(d)
    <3>1. ToSet(d) = {f}
      BY <2>2 DEF ToSet
    <3>2. NonceTotal(d) = Len(f.nonces)
      BY <3>1, <1>2, <1>3, WeightOfOne
    <3> QED BY <3>1, <3>2, WeightLess DEF rest
  <2> QED BY <2>1, <2>2, DisplacedEntry DEF d
<1>6. rest \subseteq Entries(t, n) /\ \A f \in rest : f.key # e.key
  BY <1>3 DEF rest
<1>7. Len(e.nonces) \in Nat /\ Weight(rest \cup {e}) = Weight(rest) + Len(e.nonces)
  BY <1>6, WeightMore
<1> QED BY <1>1, <1>4, <1>5, <1>7 DEF d

-----------------------------------------------------------------------------
(* The invariant, of sessions s, pending ones p, handshakes hs and history *)
(* l at time t with n keys made, and of the counters c and m.              *)

Tables(s, p, hs, t, n) ==
  /\ Table(s, t, n) /\ Len(s) <= MaxSessions
  /\ Table(p, t, n) /\ Len(p) <= MaxPending
  /\ Apart(ToSet(s), ToSet(p))
  /\ hs \in Seq(Records(Hellos)) /\ Len(hs) <= MaxReplays

Counts(s, p, c, m) ==
  /\ c = Weight(ToSet(s)) + Weight(ToSet(p))
  /\ m = [sessions |-> Len(s), pending |-> Len(p)]

\* What counts as a repetition is recorded where it would be found: a handshake
\* with the handshakes, a message with the session of its key, which is never
\* pending.
Backed(r, s, p, hs, t) ==
  IF r.key = 0
  THEN t < r.at + ReplayTtl /\ Record(r.what, r.at + ReplayTtl) \in ToSet(hs)
  ELSE /\ t < r.at + NonceTtl
       /\ \A e \in ToSet(s) :
            e.key = r.key => Record(r.what, r.at + NonceTtl) \in ToSet(e.nonces)
       /\ \A e \in ToSet(p) : e.key # r.key

History(l, s, p, hs, t, n) ==
  /\ l \subseteq [key : 0 .. n, what : Hellos \cup Messages, at : 0 .. t, again : {FALSE}]
  /\ \A r \in l : Backed(r, s, p, hs, t)

SecureInv ==
  /\ now \in Nat /\ issued \in Nat
  /\ Tables(sessions, pending, replays, now, issued)
  /\ Counts(sessions, pending, currentNonces, net)
  /\ History(log, sessions, pending, replays, now, issued)

LEMMA Bounds ==
  /\ SessionTtl \in Nat /\ PendingTtl \in Nat /\ ReplayTtl \in Nat /\ NonceTtl \in Nat
  /\ MaxSessions \in Nat \ {0} /\ MaxPending \in Nat \ {0}
  /\ MaxReplays \in Nat \ {0} /\ MaxNonces \in Nat \ {0} /\ MaxKeys \in Nat
  /\ ReplayTtl # 0 /\ NonceTtl # 0
BY SecureStateAssumption DEF SecureStateAssumption

LEMMA InitSecure ==
  ASSUME Init
  PROVE  SecureInv
<1>1. now = 0 /\ issued = 0 /\ log = {} /\ currentNonces = 0
      /\ sessions = <<>> /\ pending = <<>> /\ replays = <<>>
      /\ net = [sessions |-> 0, pending |-> 0]
  BY DEF Init
<1>2. Table(<<>>, 0, 0) /\ ToSet(<<>>) = {} /\ Len(<<>>) = 0
  BY DEF Table, ToSet
<1>3. <<>> \in Seq(Records(Hellos))
  OBVIOUS
<1>4. Tables(<<>>, <<>>, <<>>, 0, 0)
  BY <1>2, <1>3, Bounds DEF Tables, Apart
<1>5. Counts(<<>>, <<>>, 0, [sessions |-> 0, pending |-> 0])
  <2>1. Weight(ToSet(<<>>)) = 0
    BY <1>2, WeightOfNone
  <2> QED BY ONLY <1>2, <2>1 DEF Counts
<1>6. History({}, <<>>, <<>>, <<>>, 0, 0)
  BY DEF History
<1> QED BY <1>1, <1>4, <1>5, <1>6 DEF SecureInv

\* A server that starts anew, whose keys are new still.
LEMMA RestartStep ==
  ASSUME SecureInv, sessions' = <<>>, pending' = <<>>, replays' = <<>>, currentNonces' = 0,
         net' = [sessions |-> 0, pending |-> 0], log' = {}, now' = now, issued' = issued
  PROVE  SecureInv'
<1>1. Table(<<>>, now, issued) /\ ToSet(<<>>) = {} /\ Len(<<>>) = 0
  BY DEF Table, ToSet
<1>2. Tables(<<>>, <<>>, <<>>, now, issued)
  BY <1>1, Bounds DEF Tables, Apart
<1>3. Counts(<<>>, <<>>, 0, [sessions |-> 0, pending |-> 0])
  <2>1. Weight(ToSet(<<>>)) = 0
    BY <1>1, WeightOfNone
  <2> QED BY ONLY <1>1, <2>1 DEF Counts
<1>4. History({}, <<>>, <<>>, <<>>, now, issued)
  BY DEF History
<1> QED BY <1>2, <1>3, <1>4 DEF SecureInv

\* With entries or records gone, and entries as they were, the rest is backed.
LEMMA HistoryLeft ==
  ASSUME NEW l, NEW s, NEW p, NEW hs, NEW t \in Nat, NEW n, History(l, s, p, hs, t, n),
         NEW k, k \subseteq l, NEW u, ToSet(u) \subseteq ToSet(s),
         NEW q, ToSet(q) \subseteq ToSet(p)
  PROVE  History(k, u, q, hs, t, n)
<1>1. ASSUME NEW r \in k
      PROVE  Backed(r, u, q, hs, t)
  <2>1. Backed(r, s, p, hs, t)
    BY DEF History
  <2> QED BY <2>1 DEF Backed
<1> QED BY <1>1 DEF History

\* What a datagram finds after the cleanup.
Cleaned ==
  /\ Tables(S, P, replays, now, issued)
  /\ Counts(S, P, currentNonces - Discarded,
            [sessions |-> net.sessions - Len(Stale(sessions, SessionTtl)),
             pending |-> net.pending - Len(Stale(pending, PendingTtl))])
  /\ History(log, S, P, replays, now, issued)
  /\ Len(S) \in Nat /\ Len(P) \in Nat
  /\ Weight(ToSet(S)) \in Nat /\ Weight(ToSet(P)) \in Nat
  /\ ToSet(P) \subseteq ToSet(pending) /\ ToSet(S) \subseteq ToSet(sessions)
  /\ \A e \in ToSet(sessions) \ ToSet(S) : now - e.since >= SessionTtl
  /\ Len(S) = MaxSessions => ToSet(S) = ToSet(sessions) /\ Len(sessions) = MaxSessions

LEMMA CleanedTables ==
  ASSUME SecureInv
  PROVE  Cleaned
<1> DEFINE gone == Stale(sessions, SessionTtl)
           lost == Stale(pending, PendingTtl)
<1>1. /\ now \in Nat /\ issued \in Nat
      /\ Table(sessions, now, issued) /\ Len(sessions) <= MaxSessions
      /\ Table(pending, now, issued) /\ Len(pending) <= MaxPending
      /\ Apart(ToSet(sessions), ToSet(pending))
      /\ replays \in Seq(Records(Hellos)) /\ Len(replays) <= MaxReplays
  BY DEF SecureInv, Tables
<1>2. /\ Table(S, now, issued) /\ Len(gone) \in Nat /\ Len(sessions) = Len(S) + Len(gone)
      /\ ToSet(sessions) = ToSet(S) \cup ToSet(gone)
      /\ Apart(ToSet(S), ToSet(gone))
      /\ \A f \in ToSet(gone) : now - f.since >= SessionTtl
      /\ Len(gone) = 0 => ToSet(gone) = {}
  BY <1>1, Bounds, KeptTable DEF S, Apart
<1>3. /\ Table(P, now, issued) /\ Len(lost) \in Nat /\ Len(pending) = Len(P) + Len(lost)
      /\ ToSet(pending) = ToSet(P) \cup ToSet(lost)
      /\ Apart(ToSet(P), ToSet(lost))
  BY <1>1, Bounds, KeptTable DEF P, Apart
<1>4. NonceTotal(gone) = Weight(ToSet(gone)) /\ NonceTotal(lost) = Weight(ToSet(lost))
  BY TotalIsWeight
<1>5. Discarded = NonceTotal(gone) + NonceTotal(lost)
  BY DEF Discarded
<1> HIDE DEF gone, lost
<1>6. /\ ToSet(sessions) \subseteq Entries(now, issued)
      /\ ToSet(pending) \subseteq Entries(now, issued)
      /\ Len(S) \in Nat /\ Len(P) \in Nat
  BY <1>1, <1>2, <1>3, TableTypes
<1>7. /\ Weight(ToSet(S)) \in Nat /\ Weight(ToSet(gone)) \in Nat
      /\ Weight(ToSet(sessions)) = Weight(ToSet(S)) + Weight(ToSet(gone))
  <2>1. AddUp(Weight(ToSet(S)), Weight(ToSet(gone)), Weight(ToSet(sessions)))
    BY <1>1, <1>2, WeightOfParts
  <2> QED BY <2>1 DEF AddUp
<1>8. /\ Weight(ToSet(P)) \in Nat /\ Weight(ToSet(lost)) \in Nat
      /\ Weight(ToSet(pending)) = Weight(ToSet(P)) + Weight(ToSet(lost))
  <2>1. AddUp(Weight(ToSet(P)), Weight(ToSet(lost)), Weight(ToSet(pending)))
    BY <1>1, <1>3, WeightOfParts
  <2> QED BY <2>1 DEF AddUp
<1>9. MaxSessions \in Nat /\ MaxPending \in Nat
  BY Bounds
<1>10. Len(S) <= MaxSessions /\ Len(P) <= MaxPending
  BY ONLY <1>1, <1>2, <1>3, <1>6, <1>9
<1>11. Apart(ToSet(S), ToSet(P))
  BY <1>1, <1>2, <1>3 DEF Apart
<1>12. Counts(S, P, currentNonces - Discarded,
              [sessions |-> net.sessions - Len(gone), pending |-> net.pending - Len(lost)])
  <2>1. /\ currentNonces = Weight(ToSet(sessions)) + Weight(ToSet(pending))
        /\ net.sessions = Len(sessions) /\ net.pending = Len(pending)
    BY DEF SecureInv, Counts
  <2>2. currentNonces - Discarded = Weight(ToSet(S)) + Weight(ToSet(P))
    BY <2>1, <1>4, <1>5, <1>7, <1>8
  <2>3. Len(sessions) - Len(gone) = Len(S) /\ Len(pending) - Len(lost) = Len(P)
    BY <1>2, <1>3, <1>6
  <2> QED BY <2>1, <2>2, <2>3 DEF Counts
<1>13. History(log, S, P, replays, now, issued)
  BY <1>1, <1>2, <1>3, HistoryLeft DEF SecureInv
<1>14. Len(S) = MaxSessions => ToSet(S) = ToSet(sessions) /\ Len(sessions) = MaxSessions
  <2>1. Len(S) = MaxSessions => Len(gone) = 0 /\ Len(sessions) = MaxSessions
    BY ONLY <1>1, <1>2, <1>6, <1>9
  <2> QED BY <2>1, <1>2
<1>15. /\ ToSet(P) \subseteq ToSet(pending) /\ ToSet(S) \subseteq ToSet(sessions)
       /\ \A e \in ToSet(sessions) \ ToSet(S) : now - e.since >= SessionTtl
  BY <1>2, <1>3
<1>16. Tables(S, P, replays, now, issued)
  BY <1>1, <1>2, <1>3, <1>10, <1>11 DEF Tables
<1> QED BY <1>6, <1>7, <1>8, <1>12, <1>13, <1>14, <1>15, <1>16 DEF Cleaned, gone, lost

\* The steps that come after the cleanup, in the values they leave.
LEMMA SecureAfter ==
  ASSUME now' \in Nat, issued' \in Nat,
         Tables(sessions', pending', replays', now', issued'),
         Counts(sessions', pending', currentNonces', net'),
         History(log', sessions', pending', replays', now', issued')
  PROVE  SecureInv'
BY DEF SecureInv

LEMMA CountedNothing ==
  ASSUME Cleaned, Counted(0, 0), currentNonces' = currentNonces - Discarded,
         NEW s, NEW p, Len(s) = Len(S), Len(p) = Len(P),
         Weight(ToSet(s)) = Weight(ToSet(S)), Weight(ToSet(p)) = Weight(ToSet(P))
  PROVE  Counts(s, p, currentNonces', net')
<1> DEFINE x == net.sessions - Len(Stale(sessions, SessionTtl))
           y == net.pending - Len(Stale(pending, PendingTtl))
<1>1. net' = [sessions |-> x + 0, pending |-> y + 0]
  BY DEF Counted
<1>2. /\ currentNonces - Discarded = Weight(ToSet(S)) + Weight(ToSet(P))
      /\ [sessions |-> x, pending |-> y] = [sessions |-> Len(S), pending |-> Len(P)]
      /\ Len(S) \in Nat /\ Len(P) \in Nat
  BY DEF Cleaned, Counts
<1> HIDE DEF x, y
<1>3. x = Len(S) /\ y = Len(P)
  <2>1. /\ [sessions |-> x, pending |-> y].sessions = [sessions |-> Len(S), pending |-> Len(P)].sessions
        /\ [sessions |-> x, pending |-> y].pending = [sessions |-> Len(S), pending |-> Len(P)].pending
    BY <1>2
  <2> QED BY <2>1
<1>4. x + 0 = Len(S) /\ y + 0 = Len(P)
  BY <1>2, <1>3
<1> QED BY <1>1, <1>2, <1>4 DEF Counts

LEMMA CleanupStep ==
  ASSUME SecureInv, CleanupOnly, log' = log
  PROVE  SecureInv'
<1>1. Cleaned
  BY CleanedTables
<1>2. /\ sessions' = S /\ pending' = P /\ replays' = replays /\ now' = now /\ issued' = issued
      /\ Counted(0, 0) /\ currentNonces' = currentNonces - Discarded
  BY DEF CleanupOnly
<1>3. Counts(S, P, currentNonces', net')
  BY <1>1, <1>2, CountedNothing
<1>4. now \in Nat /\ issued \in Nat
  BY DEF SecureInv
<1>5. /\ Tables(sessions', pending', replays', now', issued')
      /\ History(log', sessions', pending', replays', now', issued')
  BY <1>1, <1>2 DEF Cleaned
<1>6. Counts(sessions', pending', currentNonces', net')
  BY <1>2, <1>3
<1> QED BY <1>2, <1>4, <1>5, <1>6, SecureAfter

-----------------------------------------------------------------------------
(* ClientHello.                                                            *)

LEMMA LogTypes ==
  ASSUME NEW l, NEW s, NEW p, NEW hs, NEW t \in Nat, NEW n, History(l, s, p, hs, t, n)
  PROVE  \A r \in l : r.key \in 0 .. n /\ r.at \in Nat
<1> DEFINE Logged == [key : 0 .. n, what : Hellos \cup Messages, at : 0 .. t, again : {FALSE}]
<1>1. l \subseteq Logged
  BY DEF History
<1>2. \A r \in Logged : r.key \in 0 .. n /\ r.at \in 0 .. t
  OBVIOUS
<1> HIDE DEF Logged
<1>3. \A x \in 0 .. t : x \in Nat
  OBVIOUS
<1> QED BY <1>1, <1>2, <1>3

\* A handshake on record has not expired.
LEMMA HistoryFresh ==
  ASSUME NEW t \in Nat, NEW n, NEW l, NEW s, NEW p, NEW hs, Tables(s, p, hs, t, n),
         History(l, s, p, hs, t, n)
  PROVE  /\ Fresh(hs, t) \in Seq(Records(Hellos)) /\ Len(Fresh(hs, t)) <= MaxReplays
         /\ \A r \in l : r.key = 0 =>
              /\ t < r.at + ReplayTtl
              /\ Record(r.what, r.at + ReplayTtl) \in ToSet(Fresh(hs, t))
         /\ History(l, s, p, Fresh(hs, t), t, n)
<1>1. /\ hs \in Seq(Records(Hellos)) /\ Len(hs) <= MaxReplays /\ Len(hs) \in Nat
      /\ MaxReplays \in Nat /\ ReplayTtl \in Nat
  BY Bounds, LenProperties DEF Tables
<1>2. /\ ExpiredCount(hs, t) \in 0 .. Len(hs)
      /\ Fresh(hs, t) \in Seq(Records(Hellos))
      /\ Len(Fresh(hs, t)) = Len(hs) - ExpiredCount(hs, t)
      /\ \A r \in ToSet(hs) : r.expires > t => r \in ToSet(Fresh(hs, t))
  BY <1>1, FreshRecords
<1>3. Len(Fresh(hs, t)) <= MaxReplays
  BY ONLY <1>1, <1>2
<1>4. ASSUME NEW r \in l, r.key = 0
      PROVE  /\ t < r.at + ReplayTtl
             /\ Record(r.what, r.at + ReplayTtl) \in ToSet(Fresh(hs, t))
  <2>1. t < r.at + ReplayTtl /\ Record(r.what, r.at + ReplayTtl) \in ToSet(hs)
    BY <1>4 DEF History, Backed
  <2>2. Record(r.what, r.at + ReplayTtl).expires > t
    <3>1. r.at \in Nat
      BY LogTypes
    <3>2. Record(r.what, r.at + ReplayTtl).expires = r.at + ReplayTtl
      BY DEF Record
    <3>3. r.at + ReplayTtl \in Nat
      BY <3>1, <1>1
    <3> QED BY <2>1, <3>2, <3>3
  <2> QED BY <1>2, <2>1, <2>2
<1>5. \A r \in l : Backed(r, s, p, Fresh(hs, t), t)
  BY <1>4 DEF History, Backed
<1> QED BY <1>2, <1>3, <1>4, <1>5 DEF History

LEMMA HelloRepeatedStep ==
  ASSUME SecureInv, NEW h \in Hellos, HelloRepeated(h), log' = log
  PROVE  SecureInv'
<1>1. Cleaned
  BY CleanedTables
<1>2. /\ sessions' = S /\ pending' = P /\ replays' = Fresh(replays, now)
      /\ now' = now /\ issued' = issued
      /\ Counted(0, 0) /\ currentNonces' = currentNonces - Discarded
  BY DEF HelloRepeated, ReplayRejected
<1>3. Counts(S, P, currentNonces', net')
  BY <1>1, <1>2, CountedNothing
<1>4. now \in Nat /\ issued \in Nat
  BY DEF SecureInv
<1>5. /\ Fresh(replays, now) \in Seq(Records(Hellos)) /\ Len(Fresh(replays, now)) <= MaxReplays
      /\ History(log, S, P, Fresh(replays, now), now, issued)
  BY <1>1, <1>4, HistoryFresh DEF Cleaned
<1>6. Tables(S, P, Fresh(replays, now), now, issued)
  BY <1>1, <1>5 DEF Cleaned, Tables
<1>7. /\ Tables(sessions', pending', replays', now', issued')
      /\ History(log', sessions', pending', replays', now', issued')
      /\ Counts(sessions', pending', currentNonces', net')
  BY <1>2, <1>3, <1>5, <1>6
<1> QED BY <1>2, <1>4, <1>7, SecureAfter

\* A handshake that is answered is not on record, and then is.
LEMMA HistoryOfHello ==
  ASSUME NEW t \in Nat, NEW n \in Nat, NEW l, NEW s, NEW p, NEW hs,
         Tables(s, p, hs, t, n), History(l, s, p, hs, t, n),
         NEW h \in Hellos, ~Holds(hs, h, t),
         NEW q, \A e \in ToSet(q) : e \in ToSet(p) \/ e.key = n + 1
  PROVE  LET kept == {r \in l : ~(r.key = 0 /\ r.what \in Keys(Evicted(hs, t, MaxReplays)))}
             new == [key |-> 0, what |-> h, at |-> t,
                     again |-> \E r \in kept : r.key = 0 /\ r.what = h]
         IN  History(kept \cup {new}, s, q, Admitted(hs, h, t, ReplayTtl, MaxReplays), t, n + 1)
<1> DEFINE ev == Evicted(hs, t, MaxReplays)
           kept == {r \in l : ~(r.key = 0 /\ r.what \in Keys(ev))}
           again == \E r \in kept : r.key = 0 /\ r.what = h
           new == [key |-> 0, what |-> h, at |-> t, again |-> again]
           ad == Admitted(hs, h, t, ReplayTtl, MaxReplays)
           Logged == [key : 0 .. n, what : Hellos \cup Messages, at : 0 .. t, again : {FALSE}]
           LoggedNow == [key : 0 .. n + 1, what : Hellos \cup Messages, at : 0 .. t, again : {FALSE}]
<1>1. /\ hs \in Seq(Records(Hellos)) /\ Len(hs) <= MaxReplays /\ ReplayTtl \in Nat
      /\ MaxReplays \in Nat \ {0} /\ ReplayTtl # 0
  BY Bounds DEF Tables
<1>2. /\ Record(h, t + ReplayTtl) \in ToSet(ad)
      /\ \A r \in ToSet(Fresh(hs, t)) : r.key \notin Keys(ev) => r \in ToSet(ad)
  BY <1>1, AdmittedRecords
<1>3. \A r \in l : r.key = 0 =>
        /\ t < r.at + ReplayTtl
        /\ Record(r.what, r.at + ReplayTtl) \in ToSet(Fresh(hs, t))
  BY HistoryFresh
<1>4. \A r \in l : r.key \in 0 .. n /\ r \in Logged
  BY DEF History
<1> HIDE DEF ad, ev
<1>5. ~again
  <2>1. ASSUME NEW r \in l, r.key = 0, r.what = h
        PROVE  FALSE
    <3>1. Record(h, r.at + ReplayTtl) \in ToSet(Fresh(hs, t))
      BY <1>3, <2>1
    <3>2. h \in Keys(Fresh(hs, t))
      BY <3>1 DEF Keys, ToSet, Record
    <3> QED BY <3>2 DEF Holds
  <2> QED BY <2>1
<1>6. new \in LoggedNow
  <2>1. again = FALSE
    BY <1>5
  <2> HIDE DEF again
  <2>2. 0 \in 0 .. n + 1 /\ t \in 0 .. t
    OBVIOUS
  <2> QED BY <2>1, <2>2
<1>7. \A r \in kept : r \in LoggedNow
  <2>1. \A k \in 0 .. n : k \in 0 .. n + 1
    OBVIOUS
  <2> QED BY <1>4, <2>1
<1>8. ASSUME NEW r \in kept
      PROVE  Backed(r, s, q, ad, t)
  <2>1. Backed(r, s, p, hs, t)
    BY DEF History
  <2>2. CASE r.key = 0
    <3>1. Record(r.what, r.at + ReplayTtl) \in ToSet(Fresh(hs, t)) /\ t < r.at + ReplayTtl
      BY <2>2, <1>3
    <3>2. Record(r.what, r.at + ReplayTtl).key = r.what
      BY DEF Record
    <3>3. r.what \notin Keys(ev)
      BY <2>2
    <3> QED BY <2>2, <3>1, <3>2, <3>3, <1>2 DEF Backed
  <2>3. CASE r.key # 0
    <3>1. r.key # n + 1
      <4>1. r.key \in 0 .. n
        BY <1>4
      <4> QED BY <4>1
    <3> QED BY <2>1, <2>3, <3>1 DEF Backed
  <2> QED BY <2>2, <2>3
<1>9. Backed(new, s, q, ad, t)
  <2>1. t < t + ReplayTtl
    BY <1>1
  <2>2. new.key = 0 /\ new.what = h /\ new.at = t
    BY Zenon
  <2> HIDE DEF new
  <2> QED BY <2>1, <2>2, <1>2 DEF Backed
<1> HIDE DEF new, kept
<1>10. \A r \in kept \cup {new} : r \in LoggedNow /\ Backed(r, s, q, ad, t)
  BY <1>6, <1>7, <1>8, <1>9
<1>11. History(kept \cup {new}, s, q, ad, t, n + 1)
  BY <1>10 DEF History
<1> QED BY <1>11 DEF new, kept, ad, ev

LEMMA HelloAnsweredTables ==
  ASSUME SecureInv, NEW a \in Addrs, NEW h \in Hellos, HelloAnswered(a, h)
  PROVE  /\ now' = now /\ issued' = issued + 1 /\ sessions' = S
         /\ replays' = Admitted(replays, h, now, ReplayTtl, MaxReplays)
         /\ ~Holds(replays, h, now)
         /\ \A f \in ToSet(pending') : f \in ToSet(P) \/ (f.addr = a /\ f.key = issued + 1)
         /\ Tables(sessions', pending', replays', now', issued')
         /\ Counts(sessions', pending', currentNonces', net')
<1> DEFINE d == Displaced(P, a, MaxPending)
           e == [addr |-> a, key |-> issued + 1, since |-> now, nonces |-> <<>>]
           q == Installed(P, e, MaxPending)
           n == issued + 1
           ad == Admitted(replays, h, now, ReplayTtl, MaxReplays)
<1>1. Cleaned
  BY CleanedTables
<1>2. /\ sessions' = S /\ pending' = q /\ replays' = ad
      /\ now' = now /\ issued' = n /\ ~Holds(replays, h, now)
      /\ Counted(0, 1 - Len(d)) /\ currentNonces' = currentNonces - Discarded - NonceTotal(d)
  BY DEF HelloAnswered, ReplayAccepted
<1>3. now \in Nat /\ issued \in Nat /\ n \in Nat /\ issued <= n /\ now <= now
  BY DEF SecureInv
<1>4. /\ Table(S, now, issued) /\ Len(S) <= MaxSessions
      /\ Table(P, now, issued) /\ Len(P) <= MaxPending
      /\ Apart(ToSet(S), ToSet(P))
      /\ replays \in Seq(Records(Hellos)) /\ Len(replays) <= MaxReplays
  BY <1>1 DEF Cleaned, Tables
<1>5. \A f \in ToSet(S) \cup ToSet(P) : f.key # n
  <2>1. \A f \in ToSet(S) \cup ToSet(P) : f.key \in 1 .. issued
    BY <1>4, TableTypes, EntryTypes
  <2> QED BY <1>3, <2>1
<1>6. Table(S, now, n) /\ Table(P, now, n)
  <2> HIDE DEF n
  <2> QED BY <1>3, <1>4, TableGrows
<1>7. /\ e \in Entries(now, n) /\ e.addr = a /\ e.key = n /\ e.since = now
      /\ e.nonces = <<>>
  <2>1. <<>> \in Seq(Records(Messages)) /\ Len(<<>>) = 0 /\ 0 <= MaxNonces
    BY Bounds
  <2>2. n \in 1 .. n /\ now \in 0 .. now
    BY <1>3
  <2> QED BY <2>1, <2>2 DEF Entries
<1> HIDE DEF e, n, q, ad
<1>8. \A f \in ToSet(P) : f.key # e.key
  BY <1>5, <1>7
<1>9. d = Displaced(P, e.addr, MaxPending)
  BY <1>7
<1> HIDE DEF d
<1>10. /\ Len(d) \in {0, 1} /\ ToSet(d) \subseteq ToSet(P)
       /\ Table(q, now, n) /\ Len(q) <= MaxPending /\ Len(q) = Len(P) + 1 - Len(d)
       /\ ToSet(q) = (ToSet(P) \ ToSet(d)) \cup {e}
  <2> DEFINE list == P
  <2>1. /\ Table(list, now, n) /\ Len(list) <= MaxPending
        /\ \A f \in ToSet(list) : f.key # e.key
    BY <1>4, <1>6, <1>8
  <2>2. /\ now \in Nat /\ n \in Nat /\ MaxPending \in Nat \ {0}
        /\ e \in Entries(now, n) /\ e.since = now
    BY <1>3, <1>7, Bounds
  <2> HIDE DEF list
  <2> DEFINE x == Displaced(list, e.addr, MaxPending)
             y == Installed(list, e, MaxPending)
  <2>3. /\ Len(x) \in {0, 1} /\ ToSet(x) \subseteq ToSet(list)
        /\ Table(y, now, n) /\ Len(y) <= MaxPending /\ Len(y) = Len(list) + 1 - Len(x)
        /\ ToSet(y) = (ToSet(list) \ ToSet(x)) \cup {e}
    BY ONLY <2>1, <2>2, InstalledTable
  <2> QED BY <1>9, <2>3 DEF q, list
<1>11. Apart(ToSet(S), ToSet(q))
  BY <1>4, <1>5, <1>7, <1>10 DEF Apart
<1>12. /\ NonceTotal(d) \in Nat /\ Weight(ToSet(P)) \in Nat
       /\ Weight(ToSet(q)) = Weight(ToSet(P)) - NonceTotal(d) + 0
  <2> DEFINE list == P
  <2>1. /\ Table(list, now, n) /\ Len(list) <= MaxPending
        /\ \A f \in ToSet(list) : f.key # e.key
    BY <1>4, <1>6, <1>8
  <2>2. /\ now \in Nat /\ n \in Nat /\ MaxPending \in Nat \ {0}
        /\ e \in Entries(now, n) /\ e.since = now
    BY <1>3, <1>7, Bounds
  <2> HIDE DEF list
  <2>3. /\ NonceTotal(Displaced(list, e.addr, MaxPending)) \in Nat
        /\ Weight(ToSet(list)) \in Nat
        /\ Weight(ToSet(Installed(list, e, MaxPending)))
             = Weight(ToSet(list)) - NonceTotal(Displaced(list, e.addr, MaxPending))
               + Len(e.nonces)
    BY ONLY <2>1, <2>2, InstalledWeight
  <2>4. Len(e.nonces) = 0
    BY <1>7
  <2> QED BY <1>9, <2>3, <2>4 DEF q, list
<1>13. Counts(S, q, currentNonces', net')
  <2> DEFINE x == net.sessions - Len(Stale(sessions, SessionTtl))
             y == net.pending - Len(Stale(pending, PendingTtl))
  <2>1. net' = [sessions |-> x + 0, pending |-> y + (1 - Len(d))]
    BY <1>2 DEF Counted
  <2>2. /\ currentNonces - Discarded = Weight(ToSet(S)) + Weight(ToSet(P))
        /\ [sessions |-> x, pending |-> y] = [sessions |-> Len(S), pending |-> Len(P)]
        /\ Len(S) \in Nat /\ Len(P) \in Nat /\ Weight(ToSet(S)) \in Nat
    BY <1>1 DEF Cleaned, Counts
  <2> HIDE DEF x, y
  <2>3. x = Len(S) /\ y = Len(P)
    <3>1. /\ [sessions |-> x, pending |-> y].sessions = [sessions |-> Len(S), pending |-> Len(P)].sessions
          /\ [sessions |-> x, pending |-> y].pending = [sessions |-> Len(S), pending |-> Len(P)].pending
      BY <2>2
    <3> QED BY <3>1
  <2>4. x + 0 = Len(S) /\ y + (1 - Len(d)) = Len(q)
    BY ONLY <2>2, <2>3, <1>10
  <2>5. currentNonces' = Weight(ToSet(S)) + Weight(ToSet(q))
    BY ONLY <2>2, <1>2, <1>12
  <2> QED BY <2>1, <2>4, <2>5 DEF Counts
<1>14. ad \in Seq(Records(Hellos)) /\ Len(ad) <= MaxReplays
  BY <1>3, <1>4, Bounds, AdmittedRecords DEF ad
<1>15. \A f \in ToSet(q) : f \in ToSet(P) \/ (f.addr = a /\ f.key = issued + 1)
  BY <1>7, <1>10 DEF n
<1>16. Tables(S, q, ad, now, n)
  BY <1>4, <1>6, <1>10, <1>11, <1>14 DEF Tables
<1>17. /\ Tables(sessions', pending', replays', now', issued')
       /\ Counts(sessions', pending', currentNonces', net')
  BY <1>2, <1>13, <1>16
<1> QED BY <1>2, <1>15, <1>17 DEF n, ad

LEMMA HelloAnsweredStep ==
  ASSUME SecureInv, NEW a \in Addrs, NEW h \in Hellos, HelloAnswered(a, h),
         log' = Remembered(0, h, Evicted(replays, now, MaxReplays))
  PROVE  SecureInv'
<1>1. Cleaned
  BY CleanedTables
<1>2. now \in Nat /\ issued \in Nat /\ issued + 1 \in Nat
  BY DEF SecureInv
<1>3. /\ now' = now /\ issued' = issued + 1 /\ sessions' = S
      /\ replays' = Admitted(replays, h, now, ReplayTtl, MaxReplays)
      /\ ~Holds(replays, h, now)
      /\ \A f \in ToSet(pending') : f \in ToSet(P) \/ f.key = issued + 1
      /\ Tables(sessions', pending', replays', now', issued')
      /\ Counts(sessions', pending', currentNonces', net')
  BY HelloAnsweredTables
<1>4. History(log', S, pending', Admitted(replays, h, now, ReplayTtl, MaxReplays), now, issued + 1)
  <2>1. Tables(S, P, replays, now, issued) /\ History(log, S, P, replays, now, issued)
    BY <1>1 DEF Cleaned
  <2> QED BY <1>2, <1>3, <2>1, HistoryOfHello DEF Remembered
<1>5. History(log', sessions', pending', replays', now', issued')
  BY <1>3, <1>4
<1> QED BY <1>2, <1>3, <1>5, SecureAfter

-----------------------------------------------------------------------------
(* Data.                                                                   *)

\* The nonces of an entry after those expired are gone, or one more is accepted.
LEMMA NoncesChange ==
  ASSUME now \in Nat, NEW n, NEW e \in Entries(now, n), NEW m \in Messages
  PROVE  /\ Fresh(e.nonces, now) \in Seq(Records(Messages))
         /\ Len(Fresh(e.nonces, now)) <= MaxNonces
         /\ ExpiredCount(e.nonces, now) \in Nat /\ NoncesGained(e, m) \in Int
         /\ Len(Fresh(e.nonces, now)) = Len(e.nonces) - ExpiredCount(e.nonces, now)
         /\ \A r \in ToSet(e.nonces) : r.expires > now => r \in ToSet(Fresh(e.nonces, now))
         /\ WithNonce(e, m) = [e EXCEPT !.nonces = WithNonce(e, m).nonces]
         /\ WithNonce(e, m) \in Entries(now, n)
         /\ WithNonce(e, m).addr = e.addr /\ WithNonce(e, m).key = e.key
         /\ Len(WithNonce(e, m).nonces) = Len(e.nonces) + NoncesGained(e, m)
         /\ Record(m, now + NonceTtl) \in ToSet(WithNonce(e, m).nonces)
         /\ \A r \in ToSet(Fresh(e.nonces, now)) :
              r.key \notin Keys(Evicted(e.nonces, now, MaxNonces)) =>
                r \in ToSet(WithNonce(e, m).nonces)
<1> DEFINE x == Admitted(e.nonces, m, now, NonceTtl, MaxNonces)
           c == ExpiredCount(e.nonces, now)
           v == Len(Evicted(e.nonces, now, MaxNonces))
<1>1. /\ e.addr \in Addrs /\ e.key \in 1 .. n /\ e.since \in 0 .. now
      /\ e.nonces \in Seq(Records(Messages)) /\ Len(e.nonces) <= MaxNonces
      /\ Len(e.nonces) \in Nat
  BY EntryTypes
<1>2. NonceTtl \in Nat /\ MaxNonces \in Nat \ {0}
  BY Bounds
<1>3. /\ c \in 0 .. Len(e.nonces) /\ Fresh(e.nonces, now) \in Seq(Records(Messages))
      /\ Len(Fresh(e.nonces, now)) = Len(e.nonces) - c
      /\ \A r \in ToSet(e.nonces) : r.expires > now => r \in ToSet(Fresh(e.nonces, now))
  BY <1>1, FreshRecords
<1> DEFINE had == e.nonces
<1> HIDE DEF had
<1>4. /\ x \in Seq(Records(Messages)) /\ Len(x) <= MaxNonces
      /\ v \in {0, 1} /\ Len(x) = Len(e.nonces) + 1 - c - v
      /\ Record(m, now + NonceTtl) \in ToSet(x)
      /\ \A r \in ToSet(Fresh(e.nonces, now)) :
           r.key \notin Keys(Evicted(e.nonces, now, MaxNonces)) => r \in ToSet(x)
  <2>1. had \in Seq(Records(Messages)) /\ Len(had) <= MaxNonces
    BY <1>1 DEF had
  <2>2. /\ Admitted(had, m, now, NonceTtl, MaxNonces) \in Seq(Records(Messages))
        /\ Len(Admitted(had, m, now, NonceTtl, MaxNonces)) <= MaxNonces
        /\ Len(Evicted(had, now, MaxNonces)) \in {0, 1}
        /\ Len(Admitted(had, m, now, NonceTtl, MaxNonces))
              = Len(had) + 1 - ExpiredCount(had, now) - Len(Evicted(had, now, MaxNonces))
        /\ Record(m, now + NonceTtl) \in ToSet(Admitted(had, m, now, NonceTtl, MaxNonces))
        /\ \A r \in ToSet(Fresh(had, now)) :
             r.key \notin Keys(Evicted(had, now, MaxNonces)) =>
               r \in ToSet(Admitted(had, m, now, NonceTtl, MaxNonces))
    BY <2>1, <1>2, AdmittedRecords
  <2> QED BY <2>2 DEF had
<1>5. NoncesGained(e, m) = 1 - c - v
  BY DEF NoncesGained
<1>6. WithNonce(e, m) = [e EXCEPT !.nonces = x]
  BY DEF WithNonce
<1> HIDE DEF x, c, v
<1>7. /\ [e EXCEPT !.nonces = x] \in Entries(now, n)
      /\ [e EXCEPT !.nonces = x].nonces = x
      /\ [e EXCEPT !.nonces = x].addr = e.addr /\ [e EXCEPT !.nonces = x].key = e.key
  BY <1>4 DEF Entries
<1>8. /\ c \in Nat /\ NoncesGained(e, m) \in Int
      /\ Len(Fresh(e.nonces, now)) <= MaxNonces
      /\ Len(x) = Len(e.nonces) + NoncesGained(e, m)
  BY ONLY <1>1, <1>2, <1>3, <1>4, <1>5
<1> QED BY <1>3, <1>4, <1>6, <1>7, <1>8 DEF c

LEMMA IgnoredStep ==
  ASSUME SecureInv, NEW a, NEW k, NEW m, Ignored(a, k, m), log' = log
  PROVE  SecureInv'
<1> DEFINE f == Entry(S, a)
           x == Fresh(f.nonces, now)
           g == [f EXCEPT !.nonces = x]
           s == [i \in DOMAIN S |-> IF S[i].addr = a THEN [S[i] EXCEPT !.nonces = x] ELSE S[i]]
<1>1. Cleaned
  BY CleanedTables
<1>2. /\ Has(S, a) /\ sessions' = s /\ pending' = P /\ replays' = replays
      /\ now' = now /\ issued' = issued /\ Counted(0, 0)
      /\ currentNonces' = currentNonces - Discarded - ExpiredCount(f.nonces, now)
  BY DEF Ignored
<1>3. now \in Nat /\ issued \in Nat
  BY DEF SecureInv
<1>4. /\ Table(S, now, issued) /\ Len(S) <= MaxSessions
      /\ Table(P, now, issued) /\ Len(P) <= MaxPending
      /\ Apart(ToSet(S), ToSet(P))
      /\ replays \in Seq(Records(Hellos)) /\ Len(replays) <= MaxReplays
  BY <1>1 DEF Cleaned, Tables
<1>5. f \in ToSet(S) /\ f \in Entries(now, issued)
  BY <1>2, <1>4, EntryOf, TableTypes
<1>6. /\ x \in Seq(Records(Messages)) /\ Len(x) <= MaxNonces
      /\ ExpiredCount(f.nonces, now) \in Nat
      /\ Len(x) = Len(f.nonces) - ExpiredCount(f.nonces, now)
      /\ \A r \in ToSet(f.nonces) : r.expires > now => r \in ToSet(x)
  <2>1. "confirm" \in Messages
    BY DEF Messages
  <2> QED BY <1>3, <1>5, <2>1, NoncesChange
<1> HIDE DEF x
<1>7. Table(s, now, issued) /\ Len(s) = Len(S) /\ ToSet(s) = (ToSet(S) \ {f}) \cup {g}
  <2>1. /\ Table(s, now, issued) /\ Len(s) = Len(S)
        /\ ToSet(s) = (ToSet(S) \ {Entry(S, a)}) \cup {[Entry(S, a) EXCEPT !.nonces = x]}
    <3> DEFINE list == S
    <3>1. /\ Table(list, now, issued) /\ Has(list, a)
          /\ x \in Seq(Records(Messages)) /\ Len(x) <= MaxNonces
      BY <1>2, <1>4, <1>6
    <3> HIDE DEF list, x
    <3>2. LET e == [Entry(list, a) EXCEPT !.nonces = x]
              w == [i \in DOMAIN list |->
                      IF list[i].addr = a THEN [list[i] EXCEPT !.nonces = x] ELSE list[i]]
          IN  /\ Table(w, now, issued) /\ Len(w) = Len(list)
              /\ ToSet(w) = (ToSet(list) \ {Entry(list, a)}) \cup {e}
      BY ONLY <3>1, RenoncedTable
    <3> QED BY <3>2 DEF list
  <2> QED BY <2>1
<1>8. g \in Entries(now, issued) /\ g.key = f.key /\ g.nonces = x
  BY <1>5, <1>6 DEF Entries
<1> HIDE DEF f, g, s
<1>9. Apart(ToSet(s), ToSet(P))
  BY <1>4, <1>5, <1>7, <1>8 DEF Apart
<1>10. /\ Weight(ToSet(S)) \in Nat /\ Len(f.nonces) \in Nat /\ Len(x) \in Nat
       /\ Weight(ToSet(s)) = Weight(ToSet(S)) - Len(f.nonces) + Len(x)
  <2>1. /\ Len(f.nonces) \in Nat /\ Weight(ToSet(S)) \in Nat
        /\ Weight(ToSet(S) \ {f}) = Weight(ToSet(S)) - Len(f.nonces)
    <3> DEFINE list == S
    <3>1. now \in Nat /\ issued \in Nat /\ Table(list, now, issued) /\ f \in ToSet(list)
      BY <1>3, <1>4, <1>5
    <3> HIDE DEF list
    <3>2. /\ Len(f.nonces) \in Nat /\ Weight(ToSet(list)) \in Nat
          /\ Weight(ToSet(list) \ {f}) = Weight(ToSet(list)) - Len(f.nonces)
      BY ONLY <3>1, WeightLess
    <3> QED BY <3>2 DEF list
  <2>2. /\ ToSet(S) \ {f} \subseteq Entries(now, issued)
        /\ \A e \in ToSet(S) \ {f} : e.key # g.key
    BY <1>4, <1>5, <1>8, TableTypes, OneEntryEach
  <2>3. /\ Len(g.nonces) \in Nat
        /\ Weight((ToSet(S) \ {f}) \cup {g}) = Weight(ToSet(S) \ {f}) + Len(g.nonces)
    BY <1>3, <1>8, <2>2, WeightMore
  <2> QED BY <1>7, <1>8, <2>1, <2>3
<1>11. Weight(ToSet(s)) = Weight(ToSet(S)) - ExpiredCount(f.nonces, now)
  BY ONLY <1>6, <1>10
<1>12. Counts(s, P, currentNonces', net')
  <2> DEFINE u == net.sessions - Len(Stale(sessions, SessionTtl))
             v == net.pending - Len(Stale(pending, PendingTtl))
  <2>1. net' = [sessions |-> u + 0, pending |-> v + 0]
    BY <1>2 DEF Counted
  <2>2. /\ currentNonces - Discarded = Weight(ToSet(S)) + Weight(ToSet(P))
        /\ [sessions |-> u, pending |-> v] = [sessions |-> Len(S), pending |-> Len(P)]
        /\ Len(S) \in Nat /\ Len(P) \in Nat /\ Weight(ToSet(P)) \in Nat
    BY <1>1 DEF Cleaned, Counts
  <2> HIDE DEF u, v
  <2>3. u = Len(S) /\ v = Len(P)
    <3>1. /\ [sessions |-> u, pending |-> v].sessions = [sessions |-> Len(S), pending |-> Len(P)].sessions
          /\ [sessions |-> u, pending |-> v].pending = [sessions |-> Len(S), pending |-> Len(P)].pending
      BY <2>2
    <3> QED BY <3>1
  <2>4. u + 0 = Len(s) /\ v + 0 = Len(P)
    BY ONLY <2>2, <2>3, <1>7
  <2>5. currentNonces' = Weight(ToSet(s)) + Weight(ToSet(P))
    BY ONLY <2>2, <1>2, <1>6, <1>10, <1>11
  <2> QED BY <2>1, <2>4, <2>5 DEF Counts
<1>13. Tables(s, P, replays, now, issued)
  BY <1>4, <1>7, <1>9 DEF Tables
<1>14. History(log, s, P, replays, now, issued)
  <2>1. History(log, S, P, replays, now, issued)
    BY <1>1 DEF Cleaned
  <2>2. ASSUME NEW r \in log
        PROVE  Backed(r, s, P, replays, now)
    <3>1. Backed(r, S, P, replays, now)
      BY <2>1 DEF History
    <3>2. ASSUME r.key # 0, NEW e \in ToSet(s), e.key = r.key
          PROVE  Record(r.what, r.at + NonceTtl) \in ToSet(e.nonces)
      <4>1. CASE e \in ToSet(S)
        BY <3>1, <3>2, <4>1 DEF Backed
      <4>2. CASE e = g
        <5>1. Record(r.what, r.at + NonceTtl) \in ToSet(f.nonces) /\ now < r.at + NonceTtl
          BY <3>1, <3>2, <4>2, <1>5, <1>8 DEF Backed
        <5>2. Record(r.what, r.at + NonceTtl).expires > now
          <6>1. r.at + NonceTtl \in Nat
            BY <1>3, <2>1, LogTypes, Bounds
          <6>2. Record(r.what, r.at + NonceTtl).expires = r.at + NonceTtl
            BY DEF Record
          <6> QED BY <1>3, <5>1, <6>1, <6>2
        <5> QED BY <4>2, <5>1, <5>2, <1>6, <1>8
      <4> QED BY <3>2, <4>1, <4>2, <1>7
    <3> QED BY <3>1, <3>2 DEF Backed
  <2> QED BY <2>1, <2>2 DEF History
<1>15. /\ Tables(sessions', pending', replays', now', issued')
       /\ History(log', sessions', pending', replays', now', issued')
       /\ Counts(sessions', pending', currentNonces', net')
  BY <1>2, <1>12, <1>13, <1>14
<1> QED BY <1>2, <1>3, <1>15, SecureAfter

\* What is ignored leaves every session under its keys.
LEMMA IgnoredKeys ==
  ASSUME SecureInv, NEW a, NEW k, NEW m, Ignored(a, k, m)
  PROVE  \A e \in ToSet(sessions') : \E f \in ToSet(S) : f.addr = e.addr /\ f.key = e.key
<1> DEFINE x == Fresh(Entry(S, a).nonces, now)
           s == [i \in DOMAIN S |-> IF S[i].addr = a THEN [S[i] EXCEPT !.nonces = x] ELSE S[i]]
<1>1. sessions' = s
  BY DEF Ignored
<1>2. Table(S, now, issued)
  BY CleanedTables DEF Cleaned, Tables
<1> HIDE DEF x
<1>3. ASSUME NEW i \in DOMAIN S
      PROVE  S[i] \in ToSet(S) /\ s[i].addr = S[i].addr /\ s[i].key = S[i].key
  <2>1. S[i] \in ToSet(S) /\ S[i] \in Entries(now, issued)
    BY <1>2, TableTypes DEF ToSet
  <2> QED BY <2>1 DEF Entries
<1>4. DOMAIN s = DOMAIN S
  OBVIOUS
<1> HIDE DEF s
<1>5. \A e \in ToSet(s) : \E i \in DOMAIN S : e = s[i]
  BY <1>4 DEF ToSet
<1> QED BY <1>1, <1>3, <1>5

\* The records kept and the one of a message accepted at t under key k.
Noted(kept, k, m, t) ==
  kept \cup {[key |-> k, what |-> m, at |-> t,
              again |-> \E r \in kept : r.key = k /\ r.what = m]}

\* The history after a message is accepted under key k, by the session g.
LEMMA HistoryOfData ==
  ASSUME NEW t \in Nat, NEW n \in Nat, NEW l, NEW s, NEW p, NEW hs,
         History(l, s, p, hs, t, n),
         NEW kept, kept \subseteq l, NEW k \in 1 .. n, NEW m \in Messages,
         \A r \in kept : ~(r.key = k /\ r.what = m),
         NEW g, g.key = k, Record(m, t + NonceTtl) \in ToSet(g.nonces),
         \A r \in kept : r.key = k => Record(r.what, r.at + NonceTtl) \in ToSet(g.nonces),
         NEW u, \A e \in ToSet(u) : e = g \/ (e \in ToSet(s) /\ e.key # k),
         NEW q, ToSet(q) \subseteq ToSet(p), \A e \in ToSet(q) : e.key # k
  PROVE  History(Noted(kept, k, m, t), u, q, hs, t, n)
<1> DEFINE new == [key |-> k, what |-> m, at |-> t,
                   again |-> \E r \in kept : r.key = k /\ r.what = m]
           Logged == [key : 0 .. n, what : Hellos \cup Messages, at : 0 .. t, again : {FALSE}]
<1>1. new = [key |-> k, what |-> m, at |-> t, again |-> FALSE]
  <2>1. ~(\E r \in kept : r.key = k /\ r.what = m)
    OBVIOUS
  <2> QED BY <2>1
<1>2. k \in 0 .. n /\ k # 0 /\ t \in 0 .. t
  OBVIOUS
<1>3. t < t + NonceTtl
  BY Bounds
<1> HIDE DEF new
<1>4. new \in Logged /\ new.key = k /\ new.what = m /\ new.at = t
  BY ONLY <1>1, <1>2, m \in Messages
<1>5. Backed(new, u, q, hs, t)
  BY <1>2, <1>3, <1>4 DEF Backed
<1>6. ASSUME NEW r \in kept
      PROVE  Backed(r, u, q, hs, t)
  <2>1. Backed(r, s, p, hs, t)
    BY DEF History
  <2>2. CASE r.key = 0
    BY <2>1, <2>2 DEF Backed
  <2>3. CASE r.key # 0
    BY <2>1, <2>3 DEF Backed
  <2> QED BY <2>2, <2>3
<1>7. kept \subseteq Logged
  BY DEF History
<1> HIDE DEF Logged
<1>8. kept \cup {new} \subseteq Logged /\ \A r \in kept \cup {new} : Backed(r, u, q, hs, t)
  BY <1>4, <1>5, <1>6, <1>7
<1> QED BY <1>8 DEF History, Logged, new, Noted

LEMMA ConfirmTables ==
  ASSUME SecureInv, NEW a, NEW k, Confirm(a, k)
  PROVE  /\ now' = now /\ issued' = issued /\ replays' = replays /\ k \in 1 .. issued
         /\ ToSet(pending') \subseteq ToSet(P)
         /\ \A g \in ToSet(pending') : g.addr # a /\ g.key # k
         /\ \E f \in ToSet(P) : f.addr = a /\ f.key = k
         /\ \E e \in ToSet(sessions') :
              /\ e.addr = a /\ e.key = k
              /\ Record("confirm", now + NonceTtl) \in ToSet(e.nonces)
              /\ \A g \in ToSet(sessions') : g = e \/ (g \in ToSet(S) /\ g.key # k)
         /\ Tables(sessions', pending', replays', now', issued')
         /\ Counts(sessions', pending', currentNonces', net')
<1> DEFINE f == Entry(P, a)
           w == WithNonce(f, "confirm")
           e == [w EXCEPT !.since = now]
           gain == NoncesGained(f, "confirm")
           d == Displaced(S, a, MaxSessions)
           s == Installed(S, e, MaxSessions)
           p == Without(P, a)
<1>1. Cleaned
  BY CleanedTables
<1>2. now \in Nat /\ issued \in Nat /\ "confirm" \in Messages
  BY DEF SecureInv, Messages
<1>3. /\ Table(S, now, issued) /\ Len(S) <= MaxSessions
      /\ Table(P, now, issued) /\ Len(P) <= MaxPending
      /\ Apart(ToSet(S), ToSet(P))
      /\ replays \in Seq(Records(Hellos)) /\ Len(replays) <= MaxReplays
  BY <1>1 DEF Cleaned, Tables
<1>4. Has(P, a) /\ f.key = k
  BY DEF Confirm, ForPending
<1>5. f \in ToSet(P) /\ f \in Entries(now, issued) /\ f.addr = a
  BY <1>3, <1>4, EntryOf, TableTypes
<1>6. /\ gain \in Int
      /\ w \in Entries(now, issued) /\ w.addr = a /\ w.key = k
      /\ Len(w.nonces) = Len(f.nonces) + gain
      /\ Record("confirm", now + NonceTtl) \in ToSet(w.nonces)
  BY <1>2, <1>4, <1>5, NoncesChange
<1>7. /\ sessions' = s /\ pending' = p /\ replays' = replays /\ now' = now /\ issued' = issued
      /\ Counted(1 - Len(d), -1)
      /\ currentNonces' = currentNonces - Discarded - NonceTotal(d) + gain
  <2>1. w.addr = a
    BY <1>6
  <2> QED BY <2>1 DEF Confirm, Promote
<1> HIDE DEF w
<1>8. /\ e \in Entries(now, issued) /\ e.addr = a /\ e.key = k /\ e.since = now
      /\ e.nonces = w.nonces
  BY <1>2, <1>6 DEF Entries
<1> HIDE DEF e, f, gain, s, p
<1>9. \A g \in ToSet(S) : g.key # e.key
  BY <1>3, <1>4, <1>5, <1>8 DEF Apart
<1>10. d = Displaced(S, e.addr, MaxSessions)
  BY <1>8
<1> HIDE DEF d
<1>11. /\ Len(d) \in {0, 1} /\ ToSet(d) \subseteq ToSet(S)
       /\ Table(s, now, issued) /\ Len(s) <= MaxSessions /\ Len(s) = Len(S) + 1 - Len(d)
       /\ ToSet(s) = (ToSet(S) \ ToSet(d)) \cup {e}
  <2> DEFINE list == S
  <2>1. /\ Table(list, now, issued) /\ Len(list) <= MaxSessions
        /\ \A g \in ToSet(list) : g.key # e.key
    BY <1>3, <1>9
  <2>2. /\ now \in Nat /\ issued \in Nat /\ MaxSessions \in Nat \ {0}
        /\ e \in Entries(now, issued) /\ e.since = now
    BY <1>2, <1>8, Bounds
  <2> HIDE DEF list
  <2> DEFINE x == Displaced(list, e.addr, MaxSessions)
             y == Installed(list, e, MaxSessions)
  <2>3. /\ Len(x) \in {0, 1} /\ ToSet(x) \subseteq ToSet(list)
        /\ Table(y, now, issued) /\ Len(y) <= MaxSessions
        /\ Len(y) = Len(list) + 1 - Len(x)
        /\ ToSet(y) = (ToSet(list) \ ToSet(x)) \cup {e}
    BY ONLY <2>1, <2>2, InstalledTable
  <2> QED BY <1>10, <2>3 DEF s, list
<1>12. Table(p, now, issued) /\ Len(P) = Len(p) + 1 /\ ToSet(p) = ToSet(P) \ {f}
  BY <1>3, <1>4, WithoutTable DEF f, p
<1>13. \A g \in ToSet(p) : g.key # k
  BY <1>3, <1>4, <1>5, <1>12, OneEntryEach
<1>14. Apart(ToSet(s), ToSet(p))
  BY <1>3, <1>8, <1>11, <1>12, <1>13 DEF Apart
<1>15. /\ NonceTotal(d) \in Nat /\ Weight(ToSet(S)) \in Nat
       /\ Weight(ToSet(s)) = Weight(ToSet(S)) - NonceTotal(d) + Len(w.nonces)
  <2> DEFINE list == S
  <2>1. /\ Table(list, now, issued) /\ Len(list) <= MaxSessions
        /\ \A g \in ToSet(list) : g.key # e.key
    BY <1>3, <1>9
  <2>2. /\ now \in Nat /\ issued \in Nat /\ MaxSessions \in Nat \ {0}
        /\ e \in Entries(now, issued) /\ e.since = now
    BY <1>2, <1>8, Bounds
  <2> HIDE DEF list
  <2>3. /\ NonceTotal(Displaced(list, e.addr, MaxSessions)) \in Nat
        /\ Weight(ToSet(list)) \in Nat
        /\ Weight(ToSet(Installed(list, e, MaxSessions)))
             = Weight(ToSet(list)) - NonceTotal(Displaced(list, e.addr, MaxSessions))
               + Len(e.nonces)
    BY ONLY <2>1, <2>2, InstalledWeight
  <2> QED BY <1>8, <1>10, <2>3 DEF s, list
<1>16. /\ Len(f.nonces) \in Nat /\ Weight(ToSet(P)) \in Nat
       /\ Weight(ToSet(p)) = Weight(ToSet(P)) - Len(f.nonces)
  <2> DEFINE list == P
  <2>1. now \in Nat /\ issued \in Nat /\ Table(list, now, issued) /\ f \in ToSet(list)
    BY <1>2, <1>3, <1>5
  <2> HIDE DEF list
  <2>2. /\ Len(f.nonces) \in Nat /\ Weight(ToSet(list)) \in Nat
        /\ Weight(ToSet(list) \ {f}) = Weight(ToSet(list)) - Len(f.nonces)
    BY ONLY <2>1, WeightLess
  <2> QED BY <1>12, <2>2 DEF list
<1>17. Counts(s, p, currentNonces', net')
  <2> DEFINE x == net.sessions - Len(Stale(sessions, SessionTtl))
             y == net.pending - Len(Stale(pending, PendingTtl))
  <2>1. net' = [sessions |-> x + (1 - Len(d)), pending |-> y + (-1)]
    BY <1>7 DEF Counted
  <2>2. /\ currentNonces - Discarded = Weight(ToSet(S)) + Weight(ToSet(P))
        /\ [sessions |-> x, pending |-> y] = [sessions |-> Len(S), pending |-> Len(P)]
        /\ Len(S) \in Nat /\ Len(P) \in Nat
    BY <1>1 DEF Cleaned, Counts
  <2> HIDE DEF x, y
  <2>3. x = Len(S) /\ y = Len(P)
    <3>1. /\ [sessions |-> x, pending |-> y].sessions = [sessions |-> Len(S), pending |-> Len(P)].sessions
          /\ [sessions |-> x, pending |-> y].pending = [sessions |-> Len(S), pending |-> Len(P)].pending
      BY <2>2
    <3> QED BY <3>1
  <2>4. Len(p) \in Nat
    BY <1>12, TableTypes
  <2>5. x + (1 - Len(d)) = Len(s) /\ y + (-1) = Len(p)
    BY ONLY <2>2, <2>3, <2>4, <1>11, <1>12
  <2>6. currentNonces' = Weight(ToSet(s)) + Weight(ToSet(p))
    <3> DEFINE all == currentNonces - Discarded
               one == Weight(ToSet(S))
               two == Weight(ToSet(P))
               gone == NonceTotal(d)
               was == Len(f.nonces)
               is == Len(w.nonces)
    <3>1. {one, two, gone, was} \subseteq Nat /\ gain \in Int
      BY ONLY <1>6, <1>15, <1>16
    <3>2. all = one + two /\ is = was + gain
      BY ONLY <2>2, <1>6
    <3>3. /\ currentNonces' = all - gone + gain
          /\ Weight(ToSet(s)) = one - gone + is
          /\ Weight(ToSet(p)) = two - was
      BY ONLY <1>7, <1>15, <1>16
    <3> HIDE DEF all, one, two, gone, was, is
    <3> QED BY ONLY <3>1, <3>2, <3>3
  <2> QED BY <2>1, <2>5, <2>6 DEF Counts
<1>18. \A g \in ToSet(p) : g.addr # a
  BY <1>3, <1>5, <1>12, OneEntryEach
<1>19. Tables(s, p, replays, now, issued)
  <2>1. Len(P) \in Nat /\ Len(p) \in Nat
    BY <1>3, <1>12, TableTypes
  <2>2. Len(p) <= MaxPending
    BY <2>1, <1>3, <1>12, Bounds
  <2> QED BY <2>2, <1>3, <1>11, <1>12, <1>14 DEF Tables
<1>20. /\ Tables(sessions', pending', replays', now', issued')
       /\ Counts(sessions', pending', currentNonces', net')
  BY <1>7, <1>17, <1>19
<1>21. k \in 1 .. issued
  BY <1>4, <1>5, EntryTypes
<1>22. /\ e \in ToSet(s) /\ Record("confirm", now + NonceTtl) \in ToSet(e.nonces)
       /\ \A g \in ToSet(s) : g = e \/ (g \in ToSet(S) /\ g.key # k)
  BY <1>6, <1>8, <1>9, <1>11
<1>23. \E x \in ToSet(s) :
         /\ x.addr = a /\ x.key = k
         /\ Record("confirm", now + NonceTtl) \in ToSet(x.nonces)
         /\ \A g \in ToSet(s) : g = x \/ (g \in ToSet(S) /\ g.key # k)
  BY <1>8, <1>22
<1>24. \E x \in ToSet(P) : x.addr = a /\ x.key = k
  BY <1>4, <1>5
<1> QED BY <1>7, <1>12, <1>13, <1>18, <1>20, <1>21, <1>23, <1>24

LEMMA ConfirmStep ==
  ASSUME SecureInv, NEW a, NEW k, Confirm(a, k), log' = Remembered(k, "confirm", <<>>)
  PROVE  SecureInv'
<1> DEFINE kept == {r \in log : ~(r.key = k /\ r.what \in Keys(<<>>))}
<1>1. Cleaned
  BY CleanedTables
<1>2. /\ now' = now /\ issued' = issued /\ replays' = replays /\ k \in 1 .. issued
      /\ ToSet(pending') \subseteq ToSet(P)
      /\ \A g \in ToSet(pending') : g.key # k
      /\ \E f \in ToSet(P) : f.key = k
      /\ Tables(sessions', pending', replays', now', issued')
      /\ Counts(sessions', pending', currentNonces', net')
  BY ConfirmTables
<1>3. PICK e \in ToSet(sessions') :
        /\ e.key = k
        /\ Record("confirm", now + NonceTtl) \in ToSet(e.nonces)
        /\ \A g \in ToSet(sessions') : g = e \/ (g \in ToSet(S) /\ g.key # k)
  BY ConfirmTables
<1>4. now \in Nat /\ issued \in Nat /\ "confirm" \in Messages
  BY DEF SecureInv, Messages
<1>5. History(log, S, P, replays, now, issued) /\ k # 0
  BY <1>1, <1>2 DEF Cleaned
<1>6. kept \subseteq log /\ \A r \in kept : r.key # k
  BY <1>2, <1>5 DEF History, Backed
<1>7. log' = Noted(kept, k, "confirm", now)
  BY DEF Remembered, Noted
<1> HIDE DEF kept
<1>8. /\ \A r \in kept : ~(r.key = k /\ r.what = "confirm")
      /\ \A r \in kept : r.key = k => Record(r.what, r.at + NonceTtl) \in ToSet(e.nonces)
  BY <1>6
<1>9. History(Noted(kept, k, "confirm", now), sessions', pending', replays, now, issued)
  BY <1>2, <1>3, <1>4, <1>5, <1>6, <1>8, HistoryOfData
<1>10. History(log', sessions', pending', replays', now', issued')
  BY <1>2, <1>7, <1>9
<1> QED BY <1>2, <1>4, <1>10, SecureAfter

LEMMA AcceptedTables ==
  ASSUME SecureInv, NEW a, NEW k, NEW m \in Messages, Accepted(a, k, m)
  PROVE  LET f == Entry(S, a)
         IN  /\ now' = now /\ issued' = issued /\ replays' = replays /\ k \in 1 .. issued
             /\ pending' = P
             /\ f \in ToSet(S) /\ f \in Entries(now, issued) /\ f.addr = a /\ f.key = k
             /\ \E e \in ToSet(sessions') :
                  /\ e.addr = a /\ e.key = k /\ e.since = now
                  /\ Record(m, now + NonceTtl) \in ToSet(e.nonces)
                  /\ \A r \in ToSet(Fresh(f.nonces, now)) :
                       r.key \notin Keys(Evicted(f.nonces, now, MaxNonces)) =>
                         r \in ToSet(e.nonces)
                  /\ \A g \in ToSet(sessions') : g = e \/ (g \in ToSet(S) /\ g.key # k)
             /\ Tables(sessions', pending', replays', now', issued')
             /\ Counts(sessions', pending', currentNonces', net')
<1> DEFINE f == Entry(S, a)
           ev == Evicted(f.nonces, now, MaxNonces)
           w == WithNonce(f, m)
           e == [w EXCEPT !.since = now]
           gain == NoncesGained(f, m)
           s == Touched(S, a, e)
<1>1. Cleaned
  BY CleanedTables
<1>2. now \in Nat /\ issued \in Nat
  BY DEF SecureInv
<1>3. /\ Table(S, now, issued) /\ Len(S) <= MaxSessions
      /\ Table(P, now, issued) /\ Len(P) <= MaxPending
      /\ Apart(ToSet(S), ToSet(P))
      /\ replays \in Seq(Records(Hellos)) /\ Len(replays) <= MaxReplays
  BY <1>1 DEF Cleaned, Tables
<1>4. Has(S, a) /\ f.key = k /\ ~Holds(f.nonces, m, now)
  BY DEF Accepted, Acceptable
<1>5. f \in ToSet(S) /\ f \in Entries(now, issued) /\ f.addr = a
  BY <1>3, <1>4, EntryOf, TableTypes
<1>6. /\ gain \in Int
      /\ w \in Entries(now, issued) /\ w.addr = a /\ w.key = k
      /\ Len(w.nonces) = Len(f.nonces) + gain
      /\ Record(m, now + NonceTtl) \in ToSet(w.nonces)
      /\ \A r \in ToSet(f.nonces) : r.expires > now => r \in ToSet(Fresh(f.nonces, now))
      /\ \A r \in ToSet(Fresh(f.nonces, now)) :
           r.key \notin Keys(ev) => r \in ToSet(w.nonces)
  BY <1>2, <1>4, <1>5, NoncesChange
<1>7. /\ sessions' = s /\ pending' = P /\ replays' = replays /\ now' = now /\ issued' = issued
      /\ Counted(0, 0) /\ currentNonces' = currentNonces - Discarded + gain
  BY DEF Accepted
<1> HIDE DEF w
<1>8. /\ e \in Entries(now, issued) /\ e.addr = a /\ e.key = k /\ e.since = now
      /\ e.nonces = w.nonces
  BY <1>2, <1>6 DEF Entries
<1> HIDE DEF e, gain, ev
<1>9. Table(s, now, issued) /\ Len(s) = Len(S) /\ ToSet(s) = (ToSet(S) \ {f}) \cup {e}
  <2>1. e.key = Entry(S, a).key
    BY <1>4, <1>8
  <2> QED BY <2>1, <1>2, <1>3, <1>4, <1>8, TouchedTable
<1> HIDE DEF f, s
<1>10. Apart(ToSet(s), ToSet(P))
  BY <1>3, <1>4, <1>5, <1>8, <1>9 DEF Apart
<1>11. \A g \in ToSet(S) \ {f} : g.key # k
  BY <1>3, <1>4, <1>5, OneEntryEach
<1>12. /\ Weight(ToSet(S)) \in Nat /\ Len(f.nonces) \in Nat /\ Len(w.nonces) \in Nat
       /\ Weight(ToSet(s)) = Weight(ToSet(S)) - Len(f.nonces) + Len(w.nonces)
  <2>1. /\ Len(f.nonces) \in Nat /\ Weight(ToSet(S)) \in Nat
        /\ Weight(ToSet(S) \ {f}) = Weight(ToSet(S)) - Len(f.nonces)
    BY <1>2, <1>3, <1>5, WeightLess
  <2>2. /\ ToSet(S) \ {f} \subseteq Entries(now, issued)
        /\ \A g \in ToSet(S) \ {f} : g.key # e.key
    BY <1>3, <1>8, <1>11, TableTypes
  <2>3. /\ Len(e.nonces) \in Nat
        /\ Weight((ToSet(S) \ {f}) \cup {e}) = Weight(ToSet(S) \ {f}) + Len(e.nonces)
    BY <1>2, <1>8, <2>2, WeightMore
  <2> QED BY <1>8, <1>9, <2>1, <2>3
<1>13. Counts(s, P, currentNonces', net')
  <2> DEFINE x == net.sessions - Len(Stale(sessions, SessionTtl))
             y == net.pending - Len(Stale(pending, PendingTtl))
  <2>1. net' = [sessions |-> x + 0, pending |-> y + 0]
    BY <1>7 DEF Counted
  <2>2. /\ currentNonces - Discarded = Weight(ToSet(S)) + Weight(ToSet(P))
        /\ [sessions |-> x, pending |-> y] = [sessions |-> Len(S), pending |-> Len(P)]
        /\ Len(S) \in Nat /\ Len(P) \in Nat /\ Weight(ToSet(P)) \in Nat
    BY <1>1 DEF Cleaned, Counts
  <2> HIDE DEF x, y
  <2>3. x = Len(S) /\ y = Len(P)
    <3>1. /\ [sessions |-> x, pending |-> y].sessions = [sessions |-> Len(S), pending |-> Len(P)].sessions
          /\ [sessions |-> x, pending |-> y].pending = [sessions |-> Len(S), pending |-> Len(P)].pending
      BY <2>2
    <3> QED BY <3>1
  <2>4. x + 0 = Len(s) /\ y + 0 = Len(P)
    BY ONLY <2>2, <2>3, <1>9
  <2>5. currentNonces' = Weight(ToSet(s)) + Weight(ToSet(P))
    BY ONLY <2>2, <1>6, <1>7, <1>12
  <2> QED BY <2>1, <2>4, <2>5 DEF Counts
<1>14. Tables(s, P, replays, now, issued)
  BY <1>3, <1>9, <1>10 DEF Tables
<1>15. k \in 1 .. issued
  BY <1>4, <1>5, EntryTypes
<1>16. /\ Tables(sessions', pending', replays', now', issued')
       /\ Counts(sessions', pending', currentNonces', net')
  BY <1>7, <1>13, <1>14
<1>17. \E x \in ToSet(s) :
         /\ x.addr = a /\ x.key = k /\ x.since = now
         /\ Record(m, now + NonceTtl) \in ToSet(x.nonces)
         /\ \A r \in ToSet(Fresh(f.nonces, now)) : r.key \notin Keys(ev) => r \in ToSet(x.nonces)
         /\ \A g \in ToSet(s) : g = x \/ (g \in ToSet(S) /\ g.key # k)
  <2>1. e \in ToSet(s) /\ \A g \in ToSet(s) : g = e \/ (g \in ToSet(S) /\ g.key # k)
    BY <1>9, <1>11
  <2> QED BY <1>6, <1>8, <2>1
<1>18. \E x \in ToSet(sessions') :
         /\ x.addr = a /\ x.key = k /\ x.since = now
         /\ Record(m, now + NonceTtl) \in ToSet(x.nonces)
         /\ \A r \in ToSet(Fresh(f.nonces, now)) : r.key \notin Keys(ev) => r \in ToSet(x.nonces)
         /\ \A g \in ToSet(sessions') : g = x \/ (g \in ToSet(S) /\ g.key # k)
  BY <1>7, <1>17
<1> QED BY <1>4, <1>5, <1>7, <1>15, <1>16, <1>18 DEF f, ev

LEMMA AcceptedStep ==
  ASSUME SecureInv, NEW a, NEW k, NEW m \in Messages, Accepted(a, k, m),
         log' = Remembered(k, m, Evicted(Entry(S, a).nonces, now, MaxNonces))
  PROVE  SecureInv'
<1> DEFINE f == Entry(S, a)
           ev == Evicted(f.nonces, now, MaxNonces)
           kept == {r \in log : ~(r.key = k /\ r.what \in Keys(ev))}
<1>1. Cleaned
  BY CleanedTables
<1>2. /\ now' = now /\ issued' = issued /\ replays' = replays /\ k \in 1 .. issued
      /\ pending' = P
      /\ f \in ToSet(S) /\ f.addr = a /\ f.key = k
      /\ f.nonces \in Seq(Records(Messages))
      /\ Tables(sessions', pending', replays', now', issued')
      /\ Counts(sessions', pending', currentNonces', net')
  BY AcceptedTables, EntryTypes
<1>3. PICK e \in ToSet(sessions') :
        /\ e.key = k
        /\ Record(m, now + NonceTtl) \in ToSet(e.nonces)
        /\ \A r \in ToSet(Fresh(f.nonces, now)) : r.key \notin Keys(ev) => r \in ToSet(e.nonces)
        /\ \A g \in ToSet(sessions') : g = e \/ (g \in ToSet(S) /\ g.key # k)
  BY AcceptedTables
<1>4. now \in Nat /\ issued \in Nat /\ k # 0
  BY <1>2 DEF SecureInv
<1>5. /\ Apart(ToSet(S), ToSet(P)) /\ History(log, S, P, replays, now, issued)
      /\ ~Holds(f.nonces, m, now)
  BY <1>1 DEF Cleaned, Tables, Accepted, Acceptable
<1>6. log' = Noted(kept, k, m, now)
  BY DEF Remembered, Noted
<1> HIDE DEF f, ev
<1>7. ASSUME NEW r \in log, r.key = k
      PROVE  Record(r.what, r.at + NonceTtl) \in ToSet(Fresh(f.nonces, now))
  <2>1. Backed(r, S, P, replays, now)
    BY <1>5 DEF History
  <2>2. Record(r.what, r.at + NonceTtl) \in ToSet(f.nonces) /\ now < r.at + NonceTtl
    BY <1>2, <1>4, <1>7, <2>1 DEF Backed
  <2>3. Record(r.what, r.at + NonceTtl).expires > now
    <3>1. r.at + NonceTtl \in Nat
      BY <1>4, <1>5, LogTypes, Bounds
    <3>2. Record(r.what, r.at + NonceTtl).expires = r.at + NonceTtl
      BY DEF Record
    <3> QED BY <1>4, <2>2, <3>1, <3>2
  <2> QED BY <1>2, <1>4, <2>2, <2>3, FreshRecords
<1>8. \A r \in log : r.key = k => r.what # m
  <2>1. \A r \in log : r.key = k => r.what \in Keys(Fresh(f.nonces, now))
    <3>1. \A x, y : Record(x, y).key = x
      BY DEF Record
    <3>2. \A g \in ToSet(Fresh(f.nonces, now)) : g.key \in Keys(Fresh(f.nonces, now))
      BY DEF Keys, ToSet
    <3> QED BY <1>7, <3>1, <3>2
  <2> QED BY <2>1, <1>5 DEF Holds
<1>9. kept \subseteq log /\ \A r \in kept : ~(r.key = k /\ r.what = m)
  BY <1>8
<1>10. \A r \in kept : r.key = k => Record(r.what, r.at + NonceTtl) \in ToSet(e.nonces)
  <2>1. \A x, y : Record(x, y).key = x
    BY DEF Record
  <2> QED BY <2>1, <1>3, <1>7
<1>11. ToSet(P) \subseteq ToSet(P) /\ \A g \in ToSet(P) : g.key # k
  BY <1>2, <1>5 DEF Apart
<1> HIDE DEF kept
<1>12. History(Noted(kept, k, m, now), sessions', P, replays, now, issued)
  BY <1>2, <1>3, <1>4, <1>5, <1>9, <1>10, <1>11, HistoryOfData
<1>13. History(log', sessions', pending', replays', now', issued')
  BY <1>2, <1>6, <1>12
<1> QED BY <1>2, <1>4, <1>13, SecureAfter

-----------------------------------------------------------------------------
(* The clock, and every step.                                              *)

LEMMA TickStep ==
  ASSUME SecureInv, Tick, log' = {r \in log : ~Forgotten(r)}
  PROVE  SecureInv'
<1>1. /\ now' = now + 1 /\ sessions' = sessions /\ pending' = pending /\ replays' = replays
      /\ issued' = issued /\ currentNonces' = currentNonces /\ net' = net
  BY DEF Tick
<1>2. /\ now \in Nat /\ issued \in Nat
      /\ Tables(sessions, pending, replays, now, issued)
      /\ Counts(sessions, pending, currentNonces, net)
      /\ History(log, sessions, pending, replays, now, issued)
  BY DEF SecureInv
<1> DEFINE u == now + 1
<1>3. u \in Nat /\ now <= u /\ issued <= issued
  BY <1>2
<1>4. now' = u
  BY <1>1
<1> HIDE DEF u
<1>5. Tables(sessions, pending, replays, u, issued)
  BY <1>2, <1>3, TableGrows DEF Tables
<1>6. \A r \in log' : r \in log /\ ~(u - r.at >= (IF r.key = 0 THEN ReplayTtl ELSE NonceTtl))
  BY <1>4 DEF Forgotten
<1>7. ASSUME NEW r \in log'
      PROVE  Backed(r, sessions, pending, replays, u)
  <2>1. r \in log /\ Backed(r, sessions, pending, replays, now) /\ r.at \in Nat
    BY <1>2, <1>6, LogTypes DEF History
  <2>2. CASE r.key = 0
    <3>1. u < r.at + ReplayTtl
      BY <1>3, <1>6, <2>1, <2>2, Bounds
    <3> QED BY <2>1, <2>2, <3>1 DEF Backed
  <2>3. CASE r.key # 0
    <3>1. u < r.at + NonceTtl
      BY <1>3, <1>6, <2>1, <2>3, Bounds
    <3> QED BY <2>1, <2>3, <3>1 DEF Backed
  <2> QED BY <2>2, <2>3
<1>8. log' \subseteq [key : 0 .. issued, what : Hellos \cup Messages, at : 0 .. u, again : {FALSE}]
  <2>1. 0 .. now \subseteq 0 .. u
    BY <1>2, <1>3
  <2>2. log \subseteq [key : 0 .. issued, what : Hellos \cup Messages, at : 0 .. now, again : {FALSE}]
    BY <1>2 DEF History
  <2>3. [key : 0 .. issued, what : Hellos \cup Messages, at : 0 .. now, again : {FALSE}]
          \subseteq [key : 0 .. issued, what : Hellos \cup Messages, at : 0 .. u, again : {FALSE}]
    BY <2>1
  <2>4. log' \subseteq log
    BY <1>6
  <2> QED BY <2>2, <2>3, <2>4
<1>9. History(log', sessions, pending, replays, u, issued)
  BY <1>7, <1>8 DEF History
<1>10. /\ Tables(sessions', pending', replays', now', issued')
       /\ History(log', sessions', pending', replays', now', issued')
       /\ Counts(sessions', pending', currentNonces', net')
  BY <1>1, <1>2, <1>4, <1>5, <1>9
<1> QED BY <1>1, <1>2, <1>3, <1>4, <1>10, SecureAfter

LEMMA StepSecure ==
  ASSUME SecureInv, [Next]_vars
  PROVE  SecureInv'
<1>1. ASSUME NEW a \in Addrs, NEW h \in Hellos, HelloLogged(a, h)
      PROVE  SecureInv'
  <2>1. now \in Nat /\ issued \in Nat /\ issued + 1 # issued
    BY DEF SecureInv
  <2>2. CASE HelloUntimely(h)
    <3>1. CleanupOnly /\ issued' = issued
      BY <2>2 DEF HelloUntimely, CleanupOnly
    <3> QED BY <1>1, <3>1, CleanupStep DEF HelloLogged
  <2>3. CASE HelloRepeated(h)
    <3>1. issued' = issued
      BY <2>3 DEF HelloRepeated
    <3> QED BY <1>1, <2>3, <3>1, HelloRepeatedStep DEF HelloLogged
  <2>4. CASE HelloAnswered(a, h)
    <3>1. issued' = issued + 1
      BY <2>4 DEF HelloAnswered
    <3>2. log' = Remembered(0, h, Evicted(replays, now, MaxReplays))
      BY <1>1, <2>1, <3>1 DEF HelloLogged
    <3> QED BY <2>4, <3>2, HelloAnsweredStep
  <2> QED BY <1>1, <2>2, <2>3, <2>4 DEF HelloLogged, Hello
<1>2. ASSUME NEW a \in Addrs, NEW k \in 1 .. issued, NEW m \in Messages, DataLogged(a, k, m)
      PROVE  SecureInv'
  <2>1. log' = IF m = "confirm" /\ ForPending(a, k) THEN Remembered(k, m, <<>>)
               ELSE IF Acceptable(a, k, m)
               THEN Remembered(k, m, Evicted(Entry(S, a).nonces, now, MaxNonces))
               ELSE log
    BY <1>2 DEF DataLogged
  <2>2. CASE m = "confirm" /\ Confirm(a, k)
    <3>1. log' = Remembered(k, "confirm", <<>>)
      BY <2>1, <2>2 DEF Confirm
    <3> QED BY <2>2, <3>1, ConfirmStep
  <2>3. CASE Unmatched(a, k, m)
    <3>1. log' = log
      BY <2>1, <2>3 DEF Unmatched, Acceptable
    <3> QED BY <2>3, <3>1, CleanupStep DEF Unmatched
  <2>4. CASE Ignored(a, k, m)
    <3>1. log' = log
      BY <2>1, <2>4 DEF Ignored
    <3> QED BY <2>4, <3>1, IgnoredStep
  <2>5. CASE Accepted(a, k, m)
    <3>1. log' = Remembered(k, m, Evicted(Entry(S, a).nonces, now, MaxNonces))
      BY <2>1, <2>5 DEF Accepted, Acceptable
    <3> QED BY <2>5, <3>1, AcceptedStep
  <2> QED BY <1>2, <2>2, <2>3, <2>4, <2>5 DEF DataLogged, Data
<1>3. CASE Tick /\ log' = {r \in log : ~Forgotten(r)}
  BY <1>3, TickStep
<1>4. CASE UNCHANGED vars
  BY <1>4 DEF vars, SecureInv
<1> QED BY <1>1, <1>2, <1>3, <1>4 DEF Next

\* The invariant holds in every state.
LEMMA SecureAlways == Spec => []SecureInv
<1>1. Init => SecureInv
  BY InitSecure
<1>2. SecureInv /\ [Next]_vars => SecureInv'
  BY StepSecure
<1> QED BY <1>1, <1>2, PTL DEF Spec

-----------------------------------------------------------------------------
(* The theorems.                                                           *)

KeyedOnce(list) == \A i, j \in DOMAIN list : list[i].key = list[j].key => i = j

\* Every key is in one place of one table.
LEMMA KeysOnce ==
  ASSUME NEW t, NEW n, NEW s, NEW p, Table(s, t, n), Table(p, t, n), Apart(ToSet(s), ToSet(p))
  PROVE  KeyedOnce(s \o p)
<1> DEFINE all == s \o p
<1>1. /\ Len(s) \in Nat /\ DOMAIN s = 1 .. Len(s) /\ s \in Seq(Entries(t, n))
      /\ Len(p) \in Nat /\ DOMAIN p = 1 .. Len(p) /\ p \in Seq(Entries(t, n))
  BY TableTypes DEF Table
<1>2. /\ DOMAIN all = 1 .. Len(s) + Len(p)
      /\ \A i \in 1 .. Len(s) + Len(p) :
           all[i] = IF i <= Len(s) THEN s[i] ELSE p[i - Len(s)]
  <2>1. all \in Seq(Entries(t, n)) /\ Len(all) = Len(s) + Len(p)
    BY <1>1, ConcatProperties
  <2> QED BY <1>1, <2>1, ConcatProperties, LenProperties
<1> HIDE DEF all
<1>3. ASSUME NEW i \in DOMAIN all, NEW j \in DOMAIN all, all[i].key = all[j].key
      PROVE  i = j
  <2>1. CASE i <= Len(s) /\ j <= Len(s)
    <3>1. i \in 1 .. Len(s) /\ j \in 1 .. Len(s) /\ all[i] = s[i] /\ all[j] = s[j]
      BY <1>1, <1>2, <1>3, <2>1
    <3> QED BY <3>1, <1>3, OneEntryEach
  <2>2. CASE ~(i <= Len(s)) /\ ~(j <= Len(s))
    <3>1. /\ i - Len(s) \in 1 .. Len(p) /\ j - Len(s) \in 1 .. Len(p)
          /\ all[i] = p[i - Len(s)] /\ all[j] = p[j - Len(s)]
      BY <1>1, <1>2, <1>3, <2>2
    <3>2. i - Len(s) = j - Len(s)
      BY <3>1, <1>3, OneEntryEach
    <3> QED BY <1>1, <1>2, <1>3, <3>2
  <2>3. CASE i <= Len(s) /\ ~(j <= Len(s))
    <3>1. /\ i \in 1 .. Len(s) /\ j - Len(s) \in 1 .. Len(p)
          /\ all[i] = s[i] /\ all[j] = p[j - Len(s)]
      BY <1>1, <1>2, <1>3, <2>3
    <3>2. s[i] \in ToSet(s) /\ p[j - Len(s)] \in ToSet(p)
      BY <3>1, <1>1 DEF ToSet
    <3> QED BY <3>1, <3>2, <1>3 DEF Apart
  <2>4. CASE ~(i <= Len(s)) /\ j <= Len(s)
    <3>1. /\ j \in 1 .. Len(s) /\ i - Len(s) \in 1 .. Len(p)
          /\ all[j] = s[j] /\ all[i] = p[i - Len(s)]
      BY <1>1, <1>2, <1>3, <2>4
    <3>2. s[j] \in ToSet(s) /\ p[i - Len(s)] \in ToSet(p)
      BY <3>1, <1>1 DEF ToSet
    <3> QED BY <3>1, <3>2, <1>3 DEF Apart
  <2> QED BY <2>1, <2>2, <2>3, <2>4
<1> QED BY <1>3 DEF all, KeyedOnce

LEMMA TablesInOrder ==
  ASSUME NEW t \in Nat, NEW n, NEW list, Table(list, t, n)
  PROVE  /\ Ordered(list)
         /\ \A i, j \in DOMAIN list : list[i].addr = list[j].addr => i = j
<1>1. DOMAIN list = 1 .. Len(list)
  BY TableTypes
<1> QED BY <1>1, OneEntryEach DEF Table, Ordered

\* The two dictionaries and the counters kept beside them stay in agreement:
\* the count of nonces in use (_current_data_nonces), the counters of sessions
\* created and removed, the capacities, and the order of the deadlines that lets
\* cleanup_expired_sessions and cleanup_expired_pending_sessions stop at the
\* first live entry.
THEOREM SecureConsistent == Spec => []Consistent
<1>1. ASSUME SecureInv
      PROVE  Consistent
  <2>1. /\ now \in Nat /\ issued \in Nat
        /\ Table(sessions, now, issued) /\ Len(sessions) <= MaxSessions
        /\ Table(pending, now, issued) /\ Len(pending) <= MaxPending
        /\ Apart(ToSet(sessions), ToSet(pending))
        /\ Len(replays) <= MaxReplays
        /\ currentNonces = Weight(ToSet(sessions)) + Weight(ToSet(pending))
        /\ net = [sessions |-> Len(sessions), pending |-> Len(pending)]
    BY <1>1 DEF SecureInv, Tables, Counts
  <2>2. /\ ToSet(sessions) \subseteq Entries(now, issued)
        /\ ToSet(pending) \subseteq Entries(now, issued)
    BY <2>1, TableTypes
  <2>3. TypeOK
    <3>1. Weight(ToSet(sessions)) \in Nat /\ Weight(ToSet(pending)) \in Nat
      BY <2>1, <2>2, HeldIsFinite
    <3>2. currentNonces \in Nat
      BY <2>1, <3>1
    <3>3. \A e \in ToSet(sessions) \cup ToSet(pending) :
            e.addr \in Addrs /\ e.key \in 1 .. issued /\ Len(e.nonces) <= MaxNonces
      BY <2>2, EntryTypes
    <3> QED BY <2>1, <3>2, <3>3 DEF TypeOK
  <2>4. Ledger
    BY <2>1, TotalIsWeight DEF Ledger
  <2>5. InExpiryOrder
    <3>1. Ordered(sessions) /\ Ordered(pending)
      BY <2>1, TablesInOrder
    <3>2. LET all == sessions \o pending
          IN  \A i, j \in DOMAIN all : all[i].key = all[j].key => i = j
      <4>1. KeyedOnce(sessions \o pending)
        BY <2>1, KeysOnce
      <4> QED BY <4>1 DEF KeyedOnce
    <3>3. \A list \in {sessions, pending} :
            \A i, j \in DOMAIN list : list[i].addr = list[j].addr => i = j
      BY <2>1, TablesInOrder
    <3> QED BY <3>1, <3>2, <3>3 DEF InExpiryOrder
  <2> QED BY <2>3, <2>4, <2>5 DEF Consistent
<1> QED BY <1>1, SecureAlways, PTL

\* accept_handshake_replay and accept_data_nonce let nothing through a second
\* time while it counts, through expiry, eviction, promotion and replacement,
\* and the confirmation that promotes a session is remembered with it.
THEOREM NothingTwice == Spec => []NoRepeatInWindow
<1>1. ASSUME SecureInv
      PROVE  NoRepeatInWindow
  <2>1. log \subseteq [key : 0 .. issued, what : Hellos \cup Messages, at : 0 .. now, again : {FALSE}]
    BY <1>1 DEF SecureInv, History
  <2> QED BY <2>1 DEF NoRepeatInWindow
<1> QED BY <1>1, SecureAlways, PTL

\* What EndsForAReason says of one session s in one step.
EndsAsItMay(s) ==
  s.key \notin Key(sessions') =>
    \/ now - s.since >= SessionTtl
    \/ \E t \in ToSet(sessions') :
         /\ t.key \in Key(pending)
         /\ \/ t.addr = s.addr
            \/ /\ Len(sessions) = MaxSessions
               /\ \A u \in ToSet(sessions) : s.since <= u.since

LEMMA OnlyCleaned ==
  ASSUME Cleaned, \A e \in ToSet(S) : e.key \in Key(sessions'), NEW s \in ToSet(sessions)
  PROVE  EndsAsItMay(s)
BY DEF Cleaned, EndsAsItMay

LEMMA EndsByConfirm ==
  ASSUME SecureInv, NEW a, NEW k, Confirm(a, k), NEW s \in ToSet(sessions)
  PROVE  EndsAsItMay(s)
<1> DEFINE f == Entry(P, a)
           w == WithNonce(f, "confirm")
           e == [w EXCEPT !.since = now]
           d == Displaced(S, a, MaxSessions)
<1>1. Cleaned
  BY CleanedTables
<1>2. now \in Nat /\ issued \in Nat /\ "confirm" \in Messages
  BY DEF SecureInv, Messages
<1>3. /\ Table(S, now, issued) /\ Len(S) <= MaxSessions
      /\ Table(P, now, issued) /\ Apart(ToSet(S), ToSet(P))
  BY <1>1 DEF Cleaned, Tables
<1>4. Has(P, a)
  BY DEF Confirm, ForPending
<1>5. f \in ToSet(P) /\ f \in Entries(now, issued) /\ f.addr = a
  BY <1>3, <1>4, EntryOf, TableTypes
<1>6. w \in Entries(now, issued) /\ w.addr = a /\ w.key = f.key
  BY <1>2, <1>5, NoncesChange
<1>7. sessions' = Installed(S, e, MaxSessions)
  BY DEF Confirm, Promote
<1> HIDE DEF w
<1>8. e \in Entries(now, issued) /\ e.addr = a /\ e.key = f.key /\ e.since = now
  BY <1>2, <1>6 DEF Entries
<1> HIDE DEF e, f
<1>9. d = Displaced(S, e.addr, MaxSessions)
  BY <1>8
<1> HIDE DEF d
<1>10. \A g \in ToSet(S) : g.key # e.key
  BY <1>3, <1>5, <1>8 DEF Apart
<1>11. ToSet(sessions') = (ToSet(S) \ ToSet(d)) \cup {e}
  <2>1. ToSet(Installed(S, e, MaxSessions)) = (ToSet(S) \ ToSet(d)) \cup {e}
    BY <1>2, <1>3, <1>8, <1>9, <1>10, Bounds, InstalledTable
  <2> QED BY <1>7, <2>1
<1>12. e \in ToSet(sessions') /\ e.key \in Key(pending)
  <2>1. f \in ToSet(pending)
    BY <1>1, <1>5 DEF Cleaned
  <2> QED BY <1>8, <1>11, <2>1 DEF Key
<1>13. CASE s \notin ToSet(S)
  BY <1>1, <1>13 DEF Cleaned, EndsAsItMay
<1>14. CASE s \in ToSet(S) /\ s \notin ToSet(d)
  <2>1. s.key \in Key(sessions')
    BY <1>11, <1>14 DEF Key
  <2> QED BY <2>1 DEF EndsAsItMay
<1>15. CASE s \in ToSet(d)
  <2>1. \/ s.addr = a
        \/ /\ Len(S) = MaxSessions
           /\ \A u \in ToSet(S) : s.since <= u.since
    <3>1. \/ d = <<>>
          \/ \E x \in ToSet(S) :
               /\ d = <<x>>
               /\ \/ x.addr = a
                  \/ /\ Len(S) = MaxSessions
                     /\ \A u \in ToSet(S) : x.since <= u.since
      BY <1>2, <1>3, Bounds, DisplacedEntry DEF d
    <3>2. d # <<>>
      BY <1>15 DEF ToSet
    <3>3. PICK x \in ToSet(S) :
            /\ d = <<x>>
            /\ \/ x.addr = a
               \/ /\ Len(S) = MaxSessions
                  /\ \A u \in ToSet(S) : x.since <= u.since
      BY <3>1, <3>2
    <3>4. s = x
      BY <3>3, <1>15 DEF ToSet
    <3> QED BY <3>3, <3>4
  <2>2. Len(S) = MaxSessions => ToSet(S) = ToSet(sessions) /\ Len(sessions) = MaxSessions
    BY <1>1 DEF Cleaned
  <2> QED BY <2>1, <2>2, <1>8, <1>12 DEF EndsAsItMay
<1> QED BY <1>13, <1>14, <1>15

\* A key in use before the cleanup of the others is in use after it.
LEMMA EndsAsItMayAlways ==
  ASSUME SecureInv, Next, NEW s \in ToSet(sessions)
  PROVE  EndsAsItMay(s)
<1>1. Cleaned
  BY CleanedTables
<1>2. CASE sessions' = S
  BY <1>1, <1>2, OnlyCleaned DEF Key
<1>3. CASE sessions' = sessions
  BY <1>3 DEF Key, EndsAsItMay
<1>4. ASSUME NEW a, NEW k, Confirm(a, k)
      PROVE  EndsAsItMay(s)
  BY <1>4, EndsByConfirm
<1>5. now \in Nat /\ issued \in Nat /\ Table(S, now, issued)
  BY <1>1 DEF SecureInv, Cleaned, Tables
<1>6. ASSUME NEW a, NEW k, NEW m, Ignored(a, k, m)
      PROVE  EndsAsItMay(s)
  <2>1. Has(S, a)
    BY <1>6 DEF Ignored
  <2> DEFINE f == Entry(S, a)
             x == Fresh(f.nonces, now)
             g == [f EXCEPT !.nonces = x]
  <2>2. f \in ToSet(S) /\ f \in Entries(now, issued)
    BY <1>5, <2>1, EntryOf, TableTypes
  <2>3. "confirm" \in Messages
    BY DEF Messages
  <2>4. x \in Seq(Records(Messages)) /\ Len(x) <= MaxNonces
    BY <1>5, <2>2, <2>3, NoncesChange
  <2>5. sessions' = [i \in DOMAIN S |->
                       IF S[i].addr = a THEN [S[i] EXCEPT !.nonces = x] ELSE S[i]]
    BY <1>6 DEF Ignored
  <2>6. g.key = f.key
    BY <2>2, <2>4 DEF Entries
  <2>7. ToSet(sessions') = (ToSet(S) \ {f}) \cup {g}
    <3> DEFINE list == S
    <3>1. Table(list, now, issued) /\ Has(list, a)
      BY <1>5, <2>1
    <3> HIDE DEF list, x
    <3>2. LET e == [Entry(list, a) EXCEPT !.nonces = x]
              w == [i \in DOMAIN list |->
                      IF list[i].addr = a THEN [list[i] EXCEPT !.nonces = x] ELSE list[i]]
          IN  ToSet(w) = (ToSet(list) \ {Entry(list, a)}) \cup {e}
      BY ONLY <2>4, <3>1, RenoncedTable
    <3> QED BY <2>5, <3>2 DEF list
  <2> HIDE DEF f, g
  <2>8. \A e \in ToSet(S) : e.key \in Key(sessions')
    BY <2>6, <2>7 DEF Key
  <2> QED BY <1>1, <2>8, OnlyCleaned
<1>7. ASSUME NEW a, NEW k, NEW m \in Messages, Accepted(a, k, m)
      PROVE  EndsAsItMay(s)
  <2> DEFINE f == Entry(S, a)
             w == WithNonce(f, m)
             e == [w EXCEPT !.since = now]
  <2>1. Has(S, a)
    BY <1>7 DEF Accepted, Acceptable
  <2>2. f \in ToSet(S) /\ f \in Entries(now, issued) /\ f.addr = a
    BY <1>5, <2>1, EntryOf, TableTypes
  <2>3. w \in Entries(now, issued) /\ w.addr = a /\ w.key = f.key
    BY <1>5, <2>2, NoncesChange
  <2>4. sessions' = Touched(S, a, e)
    BY <1>7 DEF Accepted
  <2> HIDE DEF w
  <2>5. e \in Entries(now, issued) /\ e.addr = a /\ e.key = f.key /\ e.since = now
    BY <1>5, <2>3 DEF Entries
  <2> HIDE DEF e
  <2>6. ToSet(Touched(S, a, e)) = (ToSet(S) \ {f}) \cup {e}
    BY <1>5, <2>1, <2>5, TouchedTable
  <2> HIDE DEF f
  <2>7. \A g \in ToSet(S) : g.key \in Key(sessions')
    BY <2>4, <2>5, <2>6 DEF Key
  <2> QED BY <1>1, <2>7, OnlyCleaned
<1>8. CASE \E a \in Addrs, h \in Hellos : HelloLogged(a, h)
  <2>1. sessions' = S
    BY <1>8 DEF HelloLogged, Hello, HelloUntimely, HelloRepeated, HelloAnswered, CleanupOnly
  <2> QED BY <2>1, <1>2
<1>9. CASE \E a \in Addrs, k \in 1 .. issued, m \in Messages : DataLogged(a, k, m)
  <2>1. PICK a \in Addrs, k \in 1 .. issued, m \in Messages : Data(a, k, m)
    BY <1>9 DEF DataLogged
  <2>2. Unmatched(a, k, m) => sessions' = S
    BY DEF Unmatched, CleanupOnly
  <2> QED BY <2>1, <2>2, <1>2, <1>4, <1>6, <1>7 DEF Data
<1>10. CASE Tick
  BY <1>3, <1>10 DEF Tick
<1> QED BY <1>8, <1>9, <1>10 DEF Next

\* No session in use is lost to an unconfirmed handshake, to traffic of another
\* session or to the order of the entries: it ends by its own silence, or when
\* promote_pending_session confirms the pending session of its address or, in a
\* full table, that of another and it has been silent longest.
THEOREM SessionsEndForAReason == Spec => EndsForAReason
<1>1. SecureInv /\ [Next]_vars =>
        [\A s \in ToSet(sessions) : s.key \notin Key(sessions') =>
           \/ now - s.since >= SessionTtl
           \/ \E t \in ToSet(sessions') :
                /\ t.key \in Key(pending)
                /\ \/ t.addr = s.addr
                   \/ /\ Len(sessions) = MaxSessions
                      /\ \A u \in ToSet(sessions) : s.since <= u.since]_vars
  <2>1. CASE SecureInv /\ Next
    <3>1. \A s \in ToSet(sessions) : EndsAsItMay(s)
      BY <2>1, EndsAsItMayAlways
    <3> QED BY <3>1 DEF EndsAsItMay
  <2>2. CASE UNCHANGED vars
    BY <2>2
  <2> QED BY <2>1, <2>2
<1> QED BY <1>1, SecureAlways, PTL DEF Spec, EndsForAReason

-----------------------------------------------------------------------------
(* What a datagram does to the entries of its address, and to what is held. *)

\* A set only grows by the key admitted.
LEMMA KeysAdmitted ==
  ASSUME NEW names, NEW set \in Seq(Records(names)), NEW key \in names,
         NEW t \in Nat, NEW ttl \in Nat, NEW max \in Nat \ {0}, Len(set) <= max
  PROVE  /\ Keys(Fresh(set, t)) \subseteq Keys(set)
         /\ Keys(Admitted(set, key, t, ttl, max)) \subseteq Keys(set) \cup {key}
<1> DEFINE f == Fresh(set, t)
           new == Record(key, t + ttl)
           rest == IF Len(f) >= max THEN Tail(f) ELSE f
           c == ExpiredCount(set, t)
<1>1. /\ f \in Seq(Records(names)) /\ Len(f) = Len(set) - c /\ c \in 0 .. Len(set)
      /\ f = SubSeq(set, c + 1, Len(set))
  BY FreshRecords DEF Fresh
<1>2. /\ Len(set) \in Nat /\ Len(f) \in Nat /\ DOMAIN f = 1 .. Len(f)
      /\ DOMAIN set = 1 .. Len(set)
      /\ \A i \in 1 .. Len(set) : set[i] \in Records(names)
  BY <1>1, LenProperties, ElementOfSeq
<1> HIDE DEF f, c
<1>0. {c, Len(set), Len(f)} \subseteq Nat /\ c <= Len(set) /\ Len(f) = Len(set) - c
  <2>1. c \in 0 .. Len(set) /\ Len(set) \in Nat
    BY <1>1, <1>2
  <2>2. c \in Nat /\ c <= Len(set)
    BY ONLY <2>1
  <2> QED BY <1>1, <1>2, <2>2
<1>3. \A i \in 1 .. Len(f) : f[i] = set[c + i] /\ c + i \in 1 .. Len(set)
  <2>1. /\ c + 1 \in Int /\ Len(set) \in Int
        /\ \A i \in c + 1 .. Len(set) : i \in 1 .. Len(set)
    BY ONLY <1>0
  <2>2. \A i \in c + 1 .. Len(set) : set[i] \in Records(names)
    BY <1>2, <2>1
  <2>3. \A i \in 1 .. Len(set) - (c + 1) + 1 : f[i] = set[c + 1 + i - 1]
    BY <1>1, <2>1, <2>2, SubSeqProperties
  <2>4. \A i \in 1 .. Len(f) :
          /\ i \in 1 .. Len(set) - (c + 1) + 1 /\ c + 1 + i - 1 = c + i
          /\ c + i \in 1 .. Len(set)
    BY ONLY <1>0
  <2> QED BY <2>3, <2>4
<1>4. Keys(f) \subseteq Keys(set)
  BY <1>2, <1>3 DEF Keys
<1>5. new \in Records(names) /\ new.key = key
  BY DEF Record, Records
<1>6. rest \in Seq(Records(names)) /\ \A i \in 1 .. Len(rest) : rest[i].key \in Keys(f)
  <2>1. CASE Len(f) >= max
    <3>1. f # <<>>
      BY <1>2, <2>1, EmptySeq
    <3>2. /\ rest = Tail(f) /\ rest \in Seq(Records(names)) /\ Len(rest) = Len(f) - 1
          /\ \A i \in 1 .. Len(rest) : rest[i] = f[i + 1]
      BY <1>1, <2>1, <3>1, HeadTailProperties
    <3>3. \A i \in 1 .. Len(rest) : i + 1 \in 1 .. Len(f)
      BY ONLY <1>0, <3>2
    <3> QED BY <1>2, <3>2, <3>3 DEF Keys
  <2>2. CASE ~(Len(f) >= max)
    BY <1>1, <1>2, <2>2 DEF Keys
  <2> QED BY <2>1, <2>2
<1> HIDE DEF rest, new
<1>7. Keys(Append(rest, new)) \subseteq Keys(f) \cup {key}
  <2>1. /\ Len(rest) \in Nat /\ Append(rest, new) \in Seq(Records(names))
        /\ Len(Append(rest, new)) = Len(rest) + 1
        /\ \A i \in 1 .. Len(rest) : Append(rest, new)[i] = rest[i]
        /\ Append(rest, new)[Len(rest) + 1] = new
    BY <1>5, <1>6, AppendProperties, LenProperties
  <2>2. DOMAIN Append(rest, new) = 1 .. Len(rest) + 1
    BY <2>1, LenProperties
  <2>3. \A i \in 1 .. Len(rest) + 1 : i \in 1 .. Len(rest) \/ i = Len(rest) + 1
    BY <2>1
  <2> QED BY <1>5, <1>6, <2>1, <2>2, <2>3 DEF Keys
<1>8. Admitted(set, key, t, ttl, max) = Append(rest, new)
  BY DEF Admitted, rest, new, f
<1> QED BY <1>4, <1>7, <1>8 DEF f

NewEntry(a) == [addr |-> a, key |-> issued + 1, since |-> now, nonces |-> <<>>]

\* A handshake leaves the sessions alone; answered, it has the pending session of
\* its address.
LEMMA HelloEffect ==
  ASSUME SecureInv, NEW a \in Addrs, NEW h \in Hellos, Hello(a, h)
  PROVE  /\ sessions' = S /\ now' = now
         /\ Keys(replays') \subseteq Keys(replays) \cup {h}
         /\ \/ /\ pending' = P /\ issued' = issued
               /\ ~Timely(h) \/ h \in Keys(replays)
            \/ /\ issued' = issued + 1
               /\ NewEntry(a) \in ToSet(pending')
               /\ \A f \in ToSet(pending') : f = NewEntry(a) \/ (f \in ToSet(P) /\ f.addr # a)
<1>1. /\ now \in Nat /\ issued \in Nat /\ replays \in Seq(Records(Hellos))
      /\ Len(replays) <= MaxReplays
      /\ Table(P, now, issued) /\ Len(P) <= MaxPending
  BY CleanedTables DEF SecureInv, Cleaned, Tables
<1>2. /\ Keys(Fresh(replays, now)) \subseteq Keys(replays)
      /\ Keys(Admitted(replays, h, now, ReplayTtl, MaxReplays)) \subseteq Keys(replays) \cup {h}
  BY <1>1, Bounds, KeysAdmitted
<1>3. CASE HelloUntimely(h)
  BY <1>3 DEF HelloUntimely, CleanupOnly
<1>4. CASE HelloRepeated(h)
  BY <1>2, <1>4 DEF HelloRepeated, ReplayRejected, Holds
<1>5. CASE HelloAnswered(a, h)
  <2> DEFINE e == NewEntry(a)
  <2>1. /\ now' = now /\ issued' = issued + 1 /\ sessions' = S
        /\ replays' = Admitted(replays, h, now, ReplayTtl, MaxReplays)
        /\ Tables(sessions', pending', replays', now', issued')
    BY <1>5, HelloAnsweredTables
  <2>2. pending' = Installed(P, e, MaxPending)
    BY <1>5 DEF HelloAnswered, NewEntry
  <2>3. Table(pending', now, issued + 1)
    BY <2>1 DEF Tables
  <2>4. /\ e \in Entries(now, issued + 1) /\ e.since = now /\ e.addr = a
    <3>1. <<>> \in Seq(Records(Messages)) /\ Len(<<>>) = 0 /\ 0 <= MaxNonces
      BY Bounds
    <3>2. issued + 1 \in 1 .. issued + 1 /\ now \in 0 .. now
      BY <1>1
    <3> QED BY <3>1, <3>2 DEF Entries, NewEntry
  <2>5. /\ Table(P, now, issued + 1) /\ \A f \in ToSet(P) : f.key # e.key
    <3>1. \A f \in ToSet(P) : f.key \in 1 .. issued
      BY <1>1, TableTypes, EntryTypes
    <3>2. e.key = issued + 1
      BY DEF NewEntry
    <3>3. now <= now /\ issued + 1 \in Nat /\ issued <= issued + 1
      BY <1>1
    <3> QED BY <1>1, <3>1, <3>2, <3>3, TableGrows
  <2> HIDE DEF e
  <2>6. ToSet(pending') = (ToSet(P) \ ToSet(Displaced(P, e.addr, MaxPending))) \cup {e}
    <3>1. now \in Nat /\ issued + 1 \in Nat /\ MaxPending \in Nat \ {0}
      BY <1>1, Bounds
    <3> DEFINE list == P
               n == issued + 1
    <3>2. /\ Table(list, now, n) /\ Len(list) <= MaxPending
          /\ \A f \in ToSet(list) : f.key # e.key
          /\ now \in Nat /\ n \in Nat /\ MaxPending \in Nat \ {0}
          /\ e \in Entries(now, n) /\ e.since = now
      BY <1>1, <2>4, <2>5, <3>1
    <3> HIDE DEF list, n
    <3>3. ToSet(Installed(list, e, MaxPending))
            = (ToSet(list) \ ToSet(Displaced(list, e.addr, MaxPending))) \cup {e}
      BY ONLY <3>2, InstalledTable
    <3> QED BY <2>2, <3>3 DEF list
  <2>7. e \in ToSet(pending')
    BY <2>6
  <2>8. \A f \in ToSet(pending') : f.addr = a => f = e
    BY <2>3, <2>4, <2>7, OneEntryEach
  <2> QED BY <1>2, <2>1, <2>6, <2>7, <2>8 DEF e
<1> QED BY <1>3, <1>4, <1>5 DEF Hello

Confirms(a, k, m) == m = "confirm" /\ ForPending(a, k)

\* Sessions are those of before, or of the pending entry confirmed; the message is
\* held at most under its keys.
Descend(a, k, m) ==
  \A e \in ToSet(sessions') :
    \E f \in ToSet(S) \cup ToSet(P) :
      /\ f.addr = e.addr /\ f.key = e.key
      /\ f \in ToSet(P) => Confirms(a, k, m) /\ f.addr = a /\ f.key = k
      /\ \A x \in Keys(e.nonces) : x \in Keys(f.nonces) \/ (x = m /\ e.key = k)

\* The session of the address is there, and heard of no less lately.
Stays(a) ==
  \A f \in ToSet(S) : f.addr = a =>
    \E e \in ToSet(sessions') : e.addr = a /\ e.key = f.key /\ f.since <= e.since

Heard(a, k) == \E e \in ToSet(sessions') : e.addr = a /\ e.key = k /\ e.since = now

\* A message is held at most under its keys.  The session of its address stays,
\* unless the pending one is confirmed; that one, and the session that accepts a
\* message, has then just been heard of.
LEMMA DataEffect ==
  ASSUME SecureInv, NEW a, NEW k, NEW m \in Messages, Data(a, k, m)
  PROVE  /\ now' = now /\ issued' = issued /\ replays' = replays
         /\ ToSet(pending') \subseteq ToSet(P)
         /\ \A p \in ToSet(P) :
              p \in ToSet(pending') \/ (Confirms(a, k, m) /\ p.addr = a /\ p.key = k)
         /\ Descend(a, k, m)
         /\ Confirms(a, k, m) \/ Stays(a)
         /\ Confirms(a, k, m) \/ Acceptable(a, k, m) => Heard(a, k)
<1>1. /\ now \in Nat /\ issued \in Nat
      /\ Table(S, now, issued) /\ Len(S) <= MaxSessions
      /\ Table(P, now, issued) /\ Apart(ToSet(S), ToSet(P))
  BY CleanedTables DEF SecureInv, Cleaned, Tables
<1>2. /\ \A e \in ToSet(S) \cup ToSet(P) : e \in Entries(now, issued)
      /\ \A e \in ToSet(S) \cup ToSet(P) : e.since \in 0 .. now
  BY <1>1, TableTypes, EntryTypes
<1>3. /\ \A e \in ToSet(S) : e.since <= e.since
      /\ \A e \in ToSet(S), f \in ToSet(P) : e.key # f.key /\ e # f
  BY <1>1, <1>2 DEF Apart
<1>4. \A e \in Entries(now, issued) :
        /\ Keys(Fresh(e.nonces, now)) \subseteq Keys(e.nonces)
        /\ Keys(WithNonce(e, m).nonces) \subseteq Keys(e.nonces) \cup {m}
        /\ WithNonce(e, m) \in Entries(now, issued)
        /\ WithNonce(e, m).addr = e.addr /\ WithNonce(e, m).key = e.key
        /\ Fresh(e.nonces, now) \in Seq(Records(Messages))
        /\ Len(Fresh(e.nonces, now)) <= MaxNonces
  <2> SUFFICES ASSUME NEW e \in Entries(now, issued)
               PROVE  /\ Keys(Fresh(e.nonces, now)) \subseteq Keys(e.nonces)
                      /\ Keys(WithNonce(e, m).nonces) \subseteq Keys(e.nonces) \cup {m}
                      /\ WithNonce(e, m) \in Entries(now, issued)
                      /\ WithNonce(e, m).addr = e.addr /\ WithNonce(e, m).key = e.key
                      /\ Fresh(e.nonces, now) \in Seq(Records(Messages))
                      /\ Len(Fresh(e.nonces, now)) <= MaxNonces
    OBVIOUS
  <2>1. /\ WithNonce(e, m) \in Entries(now, issued)
        /\ WithNonce(e, m).addr = e.addr /\ WithNonce(e, m).key = e.key
        /\ Fresh(e.nonces, now) \in Seq(Records(Messages))
        /\ Len(Fresh(e.nonces, now)) <= MaxNonces
    BY <1>1, NoncesChange
  <2> DEFINE had == e.nonces
  <2>2. had \in Seq(Records(Messages)) /\ Len(had) <= MaxNonces
    BY EntryTypes
  <2>3. WithNonce(e, m).nonces = Admitted(had, m, now, NonceTtl, MaxNonces)
    BY DEF WithNonce, Entries
  <2> HIDE DEF had
  <2>4. /\ Keys(Fresh(had, now)) \subseteq Keys(had)
        /\ Keys(Admitted(had, m, now, NonceTtl, MaxNonces)) \subseteq Keys(had) \cup {m}
    BY <1>1, <2>2, Bounds, KeysAdmitted
  <2> QED BY <2>1, <2>3, <2>4 DEF had
<1>5. CASE m = "confirm" /\ Confirm(a, k)
  <2> DEFINE f == Entry(P, a)
             w == WithNonce(f, "confirm")
             e == [w EXCEPT !.since = now]
             d == Displaced(S, e.addr, MaxSessions)
  <2>1. /\ Confirms(a, k, m) /\ Has(P, a) /\ f.key = k
    BY <1>5 DEF Confirm, Confirms, ForPending
  <2>2. f \in ToSet(P) /\ f \in Entries(now, issued) /\ f.addr = a
    BY <1>2, <2>1, EntryOf
  <2>3. w \in Entries(now, issued) /\ w.addr = a /\ w.key = k
        /\ Keys(w.nonces) \subseteq Keys(f.nonces) \cup {m}
    BY <1>4, <1>5, <2>1, <2>2
  <2>4. /\ sessions' = Installed(S, e, MaxSessions) /\ pending' = Without(P, a)
        /\ now' = now /\ issued' = issued /\ replays' = replays
    BY <1>5, <2>3 DEF Confirm, Promote
  <2> HIDE DEF w, f
  <2>5. /\ e \in Entries(now, issued) /\ e.addr = a /\ e.key = k /\ e.since = now
        /\ e.nonces = w.nonces
    BY <1>1, <2>3 DEF Entries
  <2> HIDE DEF e
  <2>6. \A g \in ToSet(S) : g.key # e.key
    BY <1>1, <2>1, <2>2, <2>5 DEF Apart
  <2>7. ToSet(sessions') = (ToSet(S) \ ToSet(d)) \cup {e}
    <3> DEFINE list == S
    <3>1. /\ Table(list, now, issued) /\ Len(list) <= MaxSessions
          /\ \A g \in ToSet(list) : g.key # e.key
          /\ now \in Nat /\ issued \in Nat /\ MaxSessions \in Nat \ {0}
          /\ e \in Entries(now, issued) /\ e.since = now
      BY <1>1, <2>5, <2>6, Bounds
    <3> HIDE DEF list
    <3>2. ToSet(Installed(list, e, MaxSessions))
            = (ToSet(list) \ ToSet(Displaced(list, e.addr, MaxSessions))) \cup {e}
      BY ONLY <3>1, InstalledTable
    <3> QED BY <2>4, <3>2 DEF list, d
  <2> HIDE DEF d
  <2>8. ToSet(pending') = ToSet(P) \ {f}
    BY <1>1, <2>1, <2>4, WithoutTable DEF f
  <2>9. \A g \in ToSet(sessions') : g = e \/ (g \in ToSet(S) /\ g.key # k)
    BY <2>5, <2>6, <2>7
  <2>10. e \in ToSet(sessions')
    BY <2>7
  <2>11. Descend(a, k, m)
    <3> SUFFICES ASSUME NEW g \in ToSet(sessions')
                 PROVE  \E h \in ToSet(S) \cup ToSet(P) :
                          /\ h.addr = g.addr /\ h.key = g.key
                          /\ h \in ToSet(P) => Confirms(a, k, m) /\ h.addr = a /\ h.key = k
                          /\ \A x \in Keys(g.nonces) :
                               x \in Keys(h.nonces) \/ (x = m /\ g.key = k)
      BY DEF Descend
    <3>1. CASE g = e
      <4> HIDE DEF f
      <4> QED BY <2>1, <2>2, <2>3, <2>5, <3>1 DEF f
    <3>2. CASE g \in ToSet(S)
      BY <1>3, <3>2
    <3> QED BY <2>9, <3>1, <3>2
  <2>12. Heard(a, k)
    BY <2>5, <2>10 DEF Heard
  <2>13. /\ ToSet(pending') \subseteq ToSet(P)
         /\ \A p \in ToSet(P) : p \in ToSet(pending') \/ (p.addr = a /\ p.key = k)
    BY <2>1, <2>2, <2>8
  <2> QED BY <2>1, <2>4, <2>11, <2>12, <2>13
<1>6. CASE Unmatched(a, k, m)
  <2>1. /\ sessions' = S /\ pending' = P /\ replays' = replays
        /\ now' = now /\ issued' = issued
        /\ ~Confirms(a, k, m) /\ ~Acceptable(a, k, m)
    BY <1>6 DEF Unmatched, CleanupOnly, Acceptable, Confirms
  <2>2. Descend(a, k, m) /\ Stays(a)
    BY <1>3, <2>1 DEF Descend, Stays
  <2> QED BY <2>1, <2>2
<1>7. CASE Ignored(a, k, m)
  <2> DEFINE f == Entry(S, a)
             x == Fresh(f.nonces, now)
             e == [f EXCEPT !.nonces = x]
  <2>1. /\ Has(S, a) /\ ~Confirms(a, k, m) /\ ~Acceptable(a, k, m)
        /\ pending' = P /\ replays' = replays /\ now' = now /\ issued' = issued
        /\ sessions' = [i \in DOMAIN S |->
                          IF S[i].addr = a THEN [S[i] EXCEPT !.nonces = x] ELSE S[i]]
    BY <1>7 DEF Ignored, Confirms
  <2>2. f \in ToSet(S) /\ f \in Entries(now, issued) /\ f.addr = a
    BY <1>2, <2>1, EntryOf
  <2>3. /\ x \in Seq(Records(Messages)) /\ Len(x) <= MaxNonces
        /\ Keys(x) \subseteq Keys(f.nonces)
    BY <1>4, <2>2
  <2>4. /\ e.addr = a /\ e.key = f.key /\ e.since = f.since /\ e.nonces = x
    BY <2>2 DEF Entries
  <2> HIDE DEF x
  <2>5. ToSet(sessions') = (ToSet(S) \ {f}) \cup {e}
    BY <1>1, <2>1, <2>3, RenoncedTable
  <2> HIDE DEF e, f
  <2>6. \A g \in ToSet(S) : g.addr = a => g = f
    BY <1>1, <2>2, OneEntryEach
  <2>7. f.since <= e.since
    BY <1>2, <2>2, <2>4
  <2>8. Descend(a, k, m)
    <3> SUFFICES ASSUME NEW g \in ToSet(sessions')
                 PROVE  \E h \in ToSet(S) \cup ToSet(P) :
                          /\ h.addr = g.addr /\ h.key = g.key
                          /\ h \in ToSet(P) => Confirms(a, k, m) /\ h.addr = a /\ h.key = k
                          /\ \A y \in Keys(g.nonces) :
                               y \in Keys(h.nonces) \/ (y = m /\ g.key = k)
      BY DEF Descend
    <3>1. CASE g = e
      BY <1>3, <2>2, <2>3, <2>4, <3>1
    <3>2. CASE g \in ToSet(S)
      BY <1>3, <3>2
    <3> QED BY <2>5, <3>1, <3>2
  <2>9. Stays(a)
    <3>1. e \in ToSet(sessions')
      BY <2>5
    <3> QED BY <2>2, <2>4, <2>6, <2>7, <3>1 DEF Stays
  <2> QED BY <2>1, <2>8, <2>9
<1>8. CASE Accepted(a, k, m)
  <2> DEFINE f == Entry(S, a)
             w == WithNonce(f, m)
             e == [w EXCEPT !.since = now]
  <2>1. /\ Has(S, a) /\ f.key = k /\ ~Confirms(a, k, m)
    BY <1>8 DEF Accepted, Acceptable, Confirms
  <2>2. f \in ToSet(S) /\ f \in Entries(now, issued) /\ f.addr = a
    BY <1>2, <2>1, EntryOf
  <2>3. w \in Entries(now, issued) /\ w.addr = a /\ w.key = k
        /\ Keys(w.nonces) \subseteq Keys(f.nonces) \cup {m}
    BY <1>4, <2>1, <2>2
  <2>4. /\ sessions' = Touched(S, a, e) /\ pending' = P
        /\ now' = now /\ issued' = issued /\ replays' = replays
    BY <1>8 DEF Accepted
  <2> HIDE DEF w
  <2>5. /\ e \in Entries(now, issued) /\ e.addr = a /\ e.key = k /\ e.since = now
        /\ e.nonces = w.nonces
    BY <1>1, <2>3 DEF Entries
  <2> HIDE DEF e
  <2>6. ToSet(sessions') = (ToSet(S) \ {f}) \cup {e}
    <3>1. e.key = Entry(S, a).key
      BY <2>1, <2>5
    <3> QED BY <1>1, <2>1, <2>4, <2>5, <3>1, TouchedTable
  <2> HIDE DEF f
  <2>7. \A g \in ToSet(S) : g.addr = a => g = f
    BY <1>1, <2>2, OneEntryEach
  <2>8. f.since <= e.since
    BY <1>1, <1>2, <2>2, <2>5
  <2>9. Descend(a, k, m)
    <3> SUFFICES ASSUME NEW g \in ToSet(sessions')
                 PROVE  \E h \in ToSet(S) \cup ToSet(P) :
                          /\ h.addr = g.addr /\ h.key = g.key
                          /\ h \in ToSet(P) => Confirms(a, k, m) /\ h.addr = a /\ h.key = k
                          /\ \A y \in Keys(g.nonces) :
                               y \in Keys(h.nonces) \/ (y = m /\ g.key = k)
      BY DEF Descend
    <3>1. CASE g = e
      <4>1. f.key = k
        BY <2>1 DEF f
      <4> QED BY <1>3, <2>2, <2>3, <2>5, <3>1, <4>1
    <3>2. CASE g \in ToSet(S)
      BY <1>3, <3>2
    <3> QED BY <2>6, <3>1, <3>2
  <2>10. Stays(a) /\ Heard(a, k)
    <3>1. e \in ToSet(sessions')
      BY <2>6
    <3>2. f.key = k
      BY <2>1 DEF f
    <3> QED BY <2>2, <2>5, <2>7, <2>8, <3>1, <3>2 DEF Stays, Heard
  <2>11. ToSet(pending') = ToSet(P)
    BY <2>4
  <2> QED BY <2>1, <2>4, <2>9, <2>10, <2>11
<1> QED BY <1>5, <1>6, <1>7, <1>8 DEF Data

\* What is not overdue outlives the cleanup.
LEMMA LiveKept ==
  ASSUME SecureInv
  PROVE  /\ \A e \in ToSet(sessions) : now - e.since < SessionTtl => e \in ToSet(S)
         /\ \A e \in ToSet(pending) : now - e.since < PendingTtl => e \in ToSet(P)
         /\ ToSet(S) \subseteq ToSet(sessions) /\ ToSet(P) \subseteq ToSet(pending)
         /\ \A e \in ToSet(sessions) \cup ToSet(pending) : e.since \in 0 .. now /\ e.key \in 1 .. issued
<1>1. now \in Nat /\ Table(sessions, now, issued) /\ Table(pending, now, issued)
  BY DEF SecureInv, Tables
<1>2. \A e \in ToSet(sessions) \cup ToSet(pending) : e.since \in 0 .. now /\ e.key \in 1 .. issued
  BY <1>1, TableTypes, EntryTypes
<1>3. /\ ToSet(sessions) = ToSet(S) \cup ToSet(Stale(sessions, SessionTtl))
      /\ \A f \in ToSet(Stale(sessions, SessionTtl)) : now - f.since >= SessionTtl
  BY <1>1, KeptTable, Bounds DEF S
<1>4. /\ ToSet(pending) = ToSet(P) \cup ToSet(Stale(pending, PendingTtl))
      /\ \A f \in ToSet(Stale(pending, PendingTtl)) : now - f.since >= PendingTtl
  BY <1>1, KeptTable, Bounds DEF P
<1>5. \A x \in Int, y \in Nat : x < y => ~(x >= y)
  OBVIOUS
<1>6. \A e \in ToSet(sessions) \cup ToSet(pending) : now - e.since \in Int
  BY <1>1, <1>2
<1> QED BY <1>2, <1>3, <1>4, <1>5, <1>6, Bounds

\* A live session accepts a message it does not hold, a live pending one is
\* confirmed.
LEMMA LiveTakes ==
  ASSUME SecureInv
  PROVE  /\ \A s \in ToSet(S), m \in Messages :
              m # "confirm" /\ m \notin Keys(s.nonces) => Acceptable(s.addr, s.key, m)
         /\ \A p \in ToSet(P) : Confirms(p.addr, p.key, "confirm")
         /\ \A s \in ToSet(S), p \in ToSet(P) : s.key # p.key
<1>1. /\ now \in Nat /\ Table(S, now, issued) /\ Table(P, now, issued)
      /\ Apart(ToSet(S), ToSet(P))
  BY CleanedTables DEF SecureInv, Cleaned, Tables
<1>2. ASSUME NEW s \in ToSet(S), NEW m \in Messages, m # "confirm", m \notin Keys(s.nonces)
      PROVE  Acceptable(s.addr, s.key, m)
  <2>1. Has(S, s.addr)
    BY DEF Has, ToSet
  <2>2. Entry(S, s.addr) = s
    BY <1>1, <2>1, EntryOf, OneEntryEach
  <2>3. ~ForPending(s.addr, s.key)
    BY <1>1, EntryOf DEF ForPending, Apart
  <2> DEFINE had == s.nonces
  <2>4. had \in Seq(Records(Messages)) /\ Len(had) <= MaxNonces
    BY <1>1, TableTypes, EntryTypes
  <2> HIDE DEF had
  <2>5. Keys(Fresh(had, now)) \subseteq Keys(had)
    BY <1>1, <2>4, Bounds, KeysAdmitted
  <2> QED BY <1>2, <2>1, <2>2, <2>3, <2>5 DEF Acceptable, Holds, had
<1>3. ASSUME NEW p \in ToSet(P)
      PROVE  Confirms(p.addr, p.key, "confirm")
  <2>1. Has(P, p.addr)
    BY DEF Has, ToSet
  <2>2. Entry(P, p.addr) = p
    BY <1>1, <2>1, EntryOf, OneEntryEach
  <2> QED BY <2>1, <2>2 DEF Confirms, ForPending
<1> QED BY <1>1, <1>2, <1>3 DEF Apart
=============================================================================
