----------------------------- MODULE DedupCache -----------------------------
(***************************************************************************)
(* The two containers of src/dedup.py (class Deduplicator) and what its    *)
(* methods do to them, as functions of a value d:                          *)
(*   d.cache  key |-> time of insertion, for the remembered keys           *)
(*   d.index  the expiry index: entries <<time, key>>, oldest first        *)
(* A key is a pair of a scope and a message, opaque here.  The test        *)
(* "self.cache.get(key) is entry" compares objects; an entry is identified *)
(* by its key and time, because a key that is cached is not inserted again *)
(* and an entry that leaves the cache has left the index.                  *)
(***************************************************************************)
EXTENDS Naturals, Sequences, FiniteSets

CONSTANTS
  Ttl,         \* Deduplicator.ttl
  MaxEntries   \* max_entries (large enough for None)

ASSUME DedupCacheAssumption == Ttl \in Nat \ {0} /\ MaxEntries \in Nat \ {0}

Entry(at, key) == [at |-> at, key |-> key]

EmptyCache == [cache |-> [k \in {} |-> 0], index |-> <<>>]

\* The key of an index entry is still cached by that very entry.
Current(d, e) == e.key \in DOMAIN d.cache /\ d.cache[e.key] = e.at

\* The keys that leave the cache when the n oldest index entries are popped.
Dropped(d, n) == {d.index[i].key : i \in {j \in 1 .. n : Current(d, d.index[j])}}

Pop(d, n) ==
  [cache |-> [k \in DOMAIN d.cache \ Dropped(d, n) |-> d.cache[k]],
   index |-> SubSeq(d.index, n + 1, Len(d.index))]

TtlPassed_Early(e, now) == now - e.at + 1 >= Ttl

TtlPassed(e, now) == now - e.at >= Ttl

\* cleanup_expired pops while the ttl of the oldest entry has passed.
ExpiredCount(d, now) ==
  CHOOSE n \in 0 .. Len(d.index) :
    /\ \A i \in 1 .. n : TtlPassed(d.index[i], now)
    /\ n < Len(d.index) => ~TtlPassed(d.index[n + 1], now)

Fresh(d, now) == Pop(d, ExpiredCount(d, now))

Full_Early(d, n) == n < Len(d.index) /\ Cardinality(DOMAIN Pop(d, n).cache) + 1 >= MaxEntries

\* The cache is at its limit, after n pops.
Full(d, n) == Cardinality(DOMAIN Pop(d, n).cache) >= MaxEntries

\* The eviction loop of is_unique pops until the cache is below its limit or
\* the index is exhausted; then _evict_oldest_live raises.
EvictedCount(d) ==
  CHOOSE n \in 0 .. Len(d.index) :
    /\ \A i \in 0 .. n - 1 : Full(d, i)
    /\ n < Len(d.index) => ~Full(d, n)

Roomy(d) == Pop(d, EvictedCount(d))

Raises(d) == Full(d, EvictedCount(d))

Insert(d, key, now) ==
  [cache |-> [k \in DOMAIN d.cache \cup {key} |-> IF k = key THEN now ELSE d.cache[k]],
   index |-> Append(d.index, Entry(now, key))]

Renewed_CacheOnly(d, key, now) == [d EXCEPT !.cache[key] = now]

Renewed_Bug(d, key, now) ==
  [cache |-> [d.cache EXCEPT ![key] = now],
   index |-> [i \in DOMAIN d.index |->
                IF d.index[i].key = key THEN Entry(now, key) ELSE d.index[i]]]

\* The containers a duplicate leaves: its entry is not renewed.
Renewed(d, key, now) == d

\* is_unique: the verdict and the containers it leaves.
IsUnique(d, key, now) ==
  LET f == Fresh(d, now)
  IN  IF key \in DOMAIN f.cache
      THEN [unique |-> FALSE, d |-> Renewed(f, key, now)]
      ELSE [unique |-> TRUE, d |-> Insert(Roomy(f), key, now)]
=============================================================================
