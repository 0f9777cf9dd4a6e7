----------------------------- MODULE SourceState -----------------------------
(***************************************************************************)
(* The source activity of the processor: src/core/state/s_cache.py         *)
(* (SourceState) over src/core/utils/ttlmap.py (TTLMap).  The map keeps a  *)
(* deadline for each source and a queue of every deadline ever set, stale  *)
(* ones included; the eviction callback drops the state associated with a  *)
(* source.  A call of touch_s or reset runs to its end without suspending. *)
(***************************************************************************)
EXTENDS Naturals, Sequences, FiniteSets

CONSTANTS
  Names,        \* the values of s
  Ttl,          \* S_CACHE_TTL_S
  MaxEntries,   \* S_CACHE_MAX
  SweepEvery,   \* SWEEP_EVERY_S
  OpsPerSweep,  \* OPS_PER_SWEEP
  MaxTime,      \* bound of the model: the clock
  MaxQueue      \* bound of the model: the queue's length

ASSUME SourceStateAssumption ==
  /\ Ttl \in Nat \ {0}
  /\ MaxEntries \in Nat
  /\ SweepEvery \in Nat
  /\ OpsPerSweep \in Nat
  /\ MaxTime \in Nat
  /\ MaxQueue \in Nat

VARIABLES
  now,        \* time.monotonic_ns
  d,          \* deadline of each live source
  q,          \* every deadline set and not yet popped
  ops,        \* operations since the last sweep
  lastSweep,  \* time of the last sweep
  perS        \* sources that have associated state

vars == <<now, d, q, ops, lastSweep, perS>>

Record(s, exp) == [exp |-> exp, key |-> s]

Prefix(queue, k) == {queue[i] : i \in 1 .. k}

Rest_Bug(queue, k) == SubSeq(queue, 1, Len(queue) - k)

Rest(queue, k) == SubSeq(queue, k + 1, Len(queue))

Restricted(map, keys) == [s \in keys |-> map[s]]

-----------------------------------------------------------------------------
(* TTLMap                                                                  *)

SweepDue == ops + 1 >= OpsPerSweep \/ now - lastSweep >= SweepEvery

Due_Bug(queue) ==
  CHOOSE k \in 0 .. Len(queue) :
    /\ \A i \in 1 .. k : queue[i].exp < now
    /\ k < Len(queue) => queue[k + 1].exp >= now

\* How many records _sweep pops: those due, up to the first that is not.
Due(queue) ==
  CHOOSE k \in 0 .. Len(queue) :
    /\ \A i \in 1 .. k : queue[i].exp <= now
    /\ k < Len(queue) => queue[k + 1].exp > now

\* The sources a sweep evicts: a record renewed since is stale and evicts nobody.
Swept(map, queue) ==
  {s \in DOMAIN map : map[s] <= now /\ Record(s, map[s]) \in Prefix(queue, Due(queue))}

\* The sources left when the k oldest records are popped by _evict_oldest.
Left(map, queue, k) == DOMAIN map \ {r.key : r \in Prefix(queue, k)}

\* How many records _evict_oldest pops to come down to max_entries.
Popped(map, queue) ==
  CHOOSE k \in 0 .. Len(queue) :
    /\ k = Len(queue) \/ Cardinality(Left(map, queue, k)) <= MaxEntries
    /\ k > 0 => Cardinality(Left(map, queue, k - 1)) > MaxEntries

-----------------------------------------------------------------------------
(* SourceState                                                             *)

\* The state associated with sources once the callback has run for the evicted
\* and s has been looked up.
Associated(evicted, s) == (perS \ evicted) \cup {s}

\* The operations counted since the last sweep.
Counted == IF SweepDue THEN 0 ELSE ops + 1

\* The map with a deadline of s.
With(s, exp) == [x \in DOMAIN d \cup {s} |-> IF x = s THEN exp ELSE d[x]]

\* touch_s: a new deadline, a sweep when one is due, an eviction over capacity,
\* and then the associated state, should it be missing.
Touch(s) ==
  LET set == With(s, now + Ttl)
      set_q == Append(q, Record(s, now + Ttl))
      swept == IF SweepDue
               THEN Restricted(set, DOMAIN set \ Swept(set, set_q)) ELSE set
      swept_q == IF SweepDue THEN Rest(set_q, Due(set_q)) ELSE set_q
      k == Popped(swept, swept_q)
      left == Left(swept, swept_q, k)
  IN  /\ Len(q) < MaxQueue
      /\ d' = Restricted(swept, left)
      /\ q' = Rest(swept_q, k)
      /\ ops' = Counted
      /\ lastSweep' = IF SweepDue THEN now ELSE lastSweep
      /\ perS' = Associated(DOMAIN set \ left, s)
      /\ UNCHANGED now

\* reset: the map is cleared, and what the callback may have missed.
Reset ==
  /\ d' = <<>>
  /\ q' = <<>>
  /\ ops' = 0
  /\ lastSweep' = now
  /\ perS' = {}
  /\ UNCHANGED now

Tick ==
  /\ now < MaxTime
  /\ now' = now + 1
  /\ UNCHANGED <<d, q, ops, lastSweep, perS>>

Init ==
  /\ now = 0
  /\ d = <<>>
  /\ q = <<>>
  /\ ops = 0
  /\ lastSweep = 0
  /\ perS = {}

Next == (\E s \in Names : Touch(s)) \/ Reset \/ Tick

Spec == Init /\ [][Next]_vars

-----------------------------------------------------------------------------
(* Properties.                                                             *)

\* The types and the bound of the activity, with the queue in the order of its deadlines.
TypeOK ==
  /\ DOMAIN d \subseteq Names /\ Cardinality(DOMAIN d) <= MaxEntries
  /\ \A s \in DOMAIN d : d[s] \in 0 .. now + Ttl
  /\ \A i, j \in DOMAIN q : i < j => q[i].exp <= q[j].exp
  /\ ops \in 0 .. OpsPerSweep
  /\ lastSweep \in 0 .. now
  /\ perS \subseteq Names

\* A live source always has its own record in the queue, however many stale
\* records were popped: an eviction always finds a victim.
LiveAreQueued == \A s \in DOMAIN d : \E i \in DOMAIN q : q[i] = Record(s, d[s])

\* A sweep leaves nothing behind that had expired, a source or a record: what
\* the queue holds was touched within a ttl before the last sweep, or since,
\* which bounds its length although every touch appends to it.
NoneOverstays ==
  /\ \A s \in DOMAIN d : d[s] > lastSweep
  /\ \A i \in DOMAIN q : q[i].exp > lastSweep
  /\ ops < OpsPerSweep \/ ops = 0

\* A live source has its associated state.
LiveHaveState == DOMAIN d \subseteq perS

\* The activity map, its queue and the associated state agree.
Consistent == TypeOK /\ LiveAreQueued /\ LiveHaveState

\* s_cache.py:12 of the associated state: it is bounded as the activity is.
AssociatedStateBounded == Cardinality(perS) <= MaxEntries
=============================================================================
