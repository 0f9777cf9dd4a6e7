-------------------------------- MODULE Dedup --------------------------------
(***************************************************************************)
(* The deduplicator of src/dedup.py as a component: a bounded set of       *)
(* recently accepted keys, each remembered for a fixed time from its       *)
(* acceptance.  Calls are synchronous steps; the clock moves between them. *)
(***************************************************************************)
EXTENDS DedupCache

CONSTANTS
  Keys,      \* pairs of scope and message
  MaxTime,   \* bound of the model: the clock stops here
  MaxCalls   \* bound of the model: number of calls

ASSUME DedupAssumption == MaxTime \in Nat /\ MaxCalls \in Nat

VARIABLES
  now,        \* the monotonic clock
  d,          \* the cache and its expiry index
  verdict,    \* what the last is_unique returned, and for which key
  count,      \* counters of stats()
  discarded,  \* history: entries discarded by reset, summed
  accepted,   \* history: key |-> time of its last acceptance
  forgotten,  \* history: keys evicted or reset since their last acceptance
  calls       \* history: calls made

vars == <<now, d, verdict, count, discarded, accepted, forgotten, calls>>

Counters == {"accepted", "duplicates", "expired", "capacity_evicted", "resets",
             "peak_entries"}

Larger(m, n) == IF m >= n THEN m ELSE n

\* A key never accepted is marked by a time no clock shows.
Never == MaxTime + 1

-----------------------------------------------------------------------------

Call ==
  /\ calls < MaxCalls
  /\ calls' = calls + 1
  /\ UNCHANGED now

CountExpired == Cardinality(DOMAIN d.cache \ DOMAIN Fresh(d, now).cache)

\* is_unique finds the key.
Duplicate(key) ==
  /\ key \in DOMAIN Fresh(d, now).cache
  /\ Call
  /\ d' = IsUnique(d, key, now).d
  /\ verdict' = [key |-> key, unique |-> FALSE, raised |-> FALSE]
  /\ count' = [count EXCEPT !["duplicates"] = @ + 1, !["expired"] = @ + CountExpired]
  /\ UNCHANGED <<discarded, accepted, forgotten>>

\* The keys is_unique evicts to make room for a new one.
EvictedKeys == DOMAIN Fresh(d, now).cache \ DOMAIN Roomy(Fresh(d, now)).cache

CountAccept(key) ==
  count' = [count EXCEPT
              !["accepted"] = @ + 1,
              !["expired"] = @ + CountExpired,
              !["capacity_evicted"] = @ + Cardinality(EvictedKeys),
              !["peak_entries"] = Larger(@, Cardinality(DOMAIN d'.cache))]

\* is_unique accepts the key, making room for it first.  If the index had no
\* entry left to evict the call would raise and the runtime would end; what
\* follows is not modelled, because IndexMirrorsCache holds.
Accept(key) ==
  /\ key \notin DOMAIN Fresh(d, now).cache
  /\ Call
  /\ d' = IsUnique(d, key, now).d
  /\ verdict' = [key |-> key, unique |-> TRUE, raised |-> Raises(Fresh(d, now))]
  /\ CountAccept(key)
  /\ accepted' = [accepted EXCEPT ![key] = now]
  /\ forgotten' = (forgotten \cup EvictedKeys) \ {key}
  /\ UNCHANGED discarded

\* cleanup_expired on its own.
Cleanup ==
  /\ Call
  /\ d' = Fresh(d, now)
  /\ count' = [count EXCEPT !["expired"] = @ + CountExpired]
  /\ UNCHANGED <<verdict, discarded, accepted, forgotten>>

Reset ==
  /\ Call
  /\ d' = EmptyCache
  /\ discarded' = discarded + Cardinality(DOMAIN d.cache)
  /\ count' = [count EXCEPT !["resets"] = @ + 1]
  /\ forgotten' = forgotten \cup DOMAIN d.cache
  /\ UNCHANGED <<verdict, accepted>>

Tick ==
  /\ now < MaxTime
  /\ now' = now + 1
  /\ UNCHANGED <<d, verdict, count, discarded, accepted, forgotten, calls>>

Init ==
  /\ now = 0
  /\ d = EmptyCache
  /\ verdict \in [key : Keys, unique : {TRUE}, raised : {FALSE}]
  /\ count = [c \in Counters |-> 0]
  /\ discarded = 0
  /\ accepted = [k \in Keys |-> Never]
  /\ forgotten = {}
  /\ calls = 0

Next ==
  \/ \E key \in Keys : Duplicate(key) \/ Accept(key)
  \/ Cleanup
  \/ Reset
  \/ Tick

Spec == Init /\ [][Next]_vars

-----------------------------------------------------------------------------
(* Types and the consistency of the two containers.                        *)

\* The cache maps keys to past times, and the index holds entries.
TypeOK ==
  /\ now \in 0 .. MaxTime
  /\ d = [cache |-> d.cache, index |-> d.index]
  /\ DOMAIN d.cache \subseteq Keys /\ Cardinality(DOMAIN d.cache) <= MaxEntries
  /\ d.cache \in [DOMAIN d.cache -> 0 .. now]
  /\ d.index \in Seq([at : 0 .. now, key : Keys])
  /\ verdict \in [key : Keys, unique : BOOLEAN, raised : BOOLEAN]
  /\ count \in [Counters -> Nat]
  /\ discarded \in Nat
  /\ accepted \in [Keys -> 0 .. Never]
  /\ forgotten \subseteq Keys
  /\ calls \in Nat

\* The expiry index holds exactly the cached entries, each once, oldest first,
\* so popping it always finds the entry that has to go, and is_unique never
\* meets "deduplication expiry index is inconsistent".
IndexMirrorsCache ==
  /\ ~verdict.raised
  /\ \A i \in DOMAIN d.index : Current(d, d.index[i])
  /\ \A k \in DOMAIN d.cache : \E i \in DOMAIN d.index : d.index[i].key = k
  /\ \A i, j \in DOMAIN d.index :
       i < j => /\ d.index[i].at <= d.index[j].at
                /\ d.index[i].key # d.index[j].key

\* Every accepted key is still cached or was counted out once.
Ledger ==
  count["accepted"] = Cardinality(DOMAIN d.cache) + count["expired"]
                      + count["capacity_evicted"] + discarded

\* The types, the two containers and the counters agree after every call.
Consistent == TypeOK /\ IndexMirrorsCache /\ Ledger

-----------------------------------------------------------------------------
(* What callers rely on.                                                   *)

Answered == calls' # calls /\ count'["accepted"] + count'["duplicates"]
                                # count["accepted"] + count["duplicates"]

\* A key is accepted again only when its ttl has passed since its last
\* acceptance, or the capacity or a reset took it out of the cache before.  The
\* capacity takes a live key only from a full cache, after every older one.
NoRepeatInWindow ==
  [][ /\ (Answered /\ verdict'.unique /\ accepted[verdict'.key] # Never) =>
           \/ now - accepted[verdict'.key] >= Ttl
           \/ verdict'.key \in forgotten
      /\ count'["resets"] = count["resets"] =>
           \A v \in DOMAIN d.cache \ DOMAIN d'.cache :
             now - d.cache[v] < Ttl =>
               /\ Cardinality(DOMAIN d'.cache) = MaxEntries
               /\ \A k \in DOMAIN d'.cache \ {verdict'.key} : d.cache[v] <= d.cache[k]
    ]_vars

\* A key is rejected only within the ttl of its last acceptance: rejected
\* copies in between do not lengthen the window.
NoFalseSuppression ==
  [][ (Answered /\ ~verdict'.unique) =>
        /\ accepted[verdict'.key] # Never
        /\ now - accepted[verdict'.key] < Ttl
        /\ verdict'.key \notin forgotten
    ]_vars
=============================================================================
