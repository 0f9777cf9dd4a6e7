----------------------------- MODULE ExpiringSet -----------------------------
(***************************************************************************)
(* _BoundedExpiringSet of src/aismixer_secure.py as operators.  A set is   *)
(* the sequence of its records in the order they were added; the           *)
(* dictionary beside the queue holds the same records, since a record is   *)
(* added only when its key is in neither and leaves both together.         *)
(***************************************************************************)
EXTENDS Naturals, Sequences

Record(key, expires) == [key |-> key, expires |-> expires]

Keys(set) == {set[i].key : i \in DOMAIN set}

Lapsed_Early(record, now) == record.expires <= now + 1

Lapsed(record, now) == record.expires <= now

\* _cleanup_expired removes from the front up to the first live record.
ExpiredCount(set, now) ==
  CHOOSE k \in 0 .. Len(set) :
    /\ \A i \in 1 .. k : Lapsed(set[i], now)
    /\ k < Len(set) => ~Lapsed(set[k + 1], now)

Fresh(set, now) == SubSeq(set, ExpiredCount(set, now) + 1, Len(set))

\* contains: after its cleanup.
Holds(set, key, now) == key \in Keys(Fresh(set, now))

\* The record accept evicts: the oldest, when the set is full.
Evicted(set, now, max) ==
  LET fresh == Fresh(set, now)
  IN  IF Len(fresh) >= max THEN <<Head(fresh)>> ELSE <<>>

\* The set after accept has admitted a key it does not contain.
Admitted(set, key, now, ttl, max) ==
  LET fresh == Fresh(set, now)
  IN  Append(IF Len(fresh) >= max THEN Tail(fresh) ELSE fresh, Record(key, now + ttl))
=============================================================================
