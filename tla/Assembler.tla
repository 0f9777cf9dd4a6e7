------------------------------ MODULE Assembler ------------------------------
(***************************************************************************)
(* The multipart assembler of src/assembler.py (class AIVDMAssembler): a   *)
(* dictionary of incomplete messages with a time-to-live that only         *)
(* progress renews, an optional bound on the number of groups, and one     *)
(* outcome per sentence.  A call is synchronous, so a call is one step;    *)
(* the monotonic clock advances between calls.                             *)
(*                                                                         *)
(* Data is abstracted: an assembly key (source, sequential id, channel,    *)
(* total) is a number, numbered in the order Python compares the tuples;   *)
(* the text of a sentence is an opaque value.                              *)
(*                                                                         *)
(* An operator whose name ends in _Bug is a plausible slip in the operator *)
(* that follows it; the properties are shown to notice each of them.       *)
(***************************************************************************)
EXTENDS Naturals, FiniteSets

CONSTANTS
  Keys,          \* assembly keys; their order breaks eviction ties
  Total,         \* the declared number of fragments of each key
  Texts,         \* the sentence texts that may arrive
  Timeout,       \* AIVDMAssembler.timeout
  MaxFragments,  \* max_fragments_per_group (large enough for None)
  MaxGroups,     \* max_pending_groups (large enough for None)
  MaxTime,       \* bound of the model: the clock stops here
  MaxCalls       \* bound of the model: number of calls

NoKey == 0  \* a group_key of None

ASSUME AssemblerAssumption ==
  /\ Keys \subseteq Nat \ {NoKey}
  /\ Total \in [Keys -> Nat \ {0}]
  /\ Timeout \in Nat \ {0}
  /\ MaxFragments \in Nat \ {0}
  /\ MaxGroups \in Nat \ {0}
  /\ MaxTime \in Nat
  /\ MaxCalls \in Nat

VARIABLES
  now,      \* the monotonic clock
  groups,   \* key |-> incomplete message, for the keys that have one
  outcome,  \* the AssemblyOutcome of the last call
  count,    \* the lifetime counters of stats()
  peak,     \* peak_groups and peak_fragments
  started,  \* history: groups ever created
  calls     \* history: calls made

vars == <<now, groups, outcome, count, peak, started, calls>>

Statuses == {"INVALID", "SINGLE", "LIMIT_EXCEEDED", "PENDING", "DUPLICATE",
             "CONFLICT", "COMPLETE"}
Losses == {"expired", "capacity_evicted", "reset_discarded", "resets"}

Ordinals(k) == 1 .. Total[k]

Larger(m, n) == IF m >= n THEN m ELSE n

-----------------------------------------------------------------------------
(* The dictionary of groups.  A group has its fragments by ordinal and the *)
(* time of its last new fragment; `gap` is history: the longest time it    *)
(* has waited for a fragment.                                              *)

Stale_Bug(g) == now - g.last_progress_at > Timeout

\* The test now - last_progress_at >= timeout.
Stale(g) == now - g.last_progress_at >= Timeout

Expired == {k \in DOMAIN groups : Stale(groups[k])}

Live(k) == k \in DOMAIN groups /\ ~Stale(groups[k])

Victim_Bug(S) ==
  CHOOSE v \in S : \A k \in S :
    groups[v].last_progress_at >= groups[k].last_progress_at

\* _evict_capacity_victim: the least (last_progress_at, key).
Victim(S) ==
  CHOOSE v \in S : \A k \in S \ {v} :
    \/ groups[v].last_progress_at < groups[k].last_progress_at
    \/ /\ groups[v].last_progress_at = groups[k].last_progress_at
       /\ v < k

Evicted_Early(S) == IF S # {} /\ Cardinality(S) + 1 >= MaxGroups THEN {Victim(S)} ELSE {}

\* What a new group pushes out of S, the other groups that have not expired.
Evicted(S) == IF Cardinality(S) >= MaxGroups THEN {Victim(S)} ELSE {}

\* The groups without those of S.
Without(S) == [k \in DOMAIN groups \ S |-> groups[k]]

\* The groups without those of S, and g as the group of k.
Updated(S, k, g) ==
  [j \in (DOMAIN groups \ S) \cup {k} |-> IF j = k THEN g ELSE groups[j]]

NewGroup(i, x) == [fragments |-> [o \in {i} |-> x],
                   last_progress_at |-> now, gap |-> 0]

Progress(g, i, x) ==
  [fragments |-> [o \in DOMAIN g.fragments \cup {i} |->
                    IF o = i THEN x ELSE g.fragments[o]],
   last_progress_at |-> now,
   gap |-> Larger(g.gap, now - g.last_progress_at)]

Duplicated_Bug(k) == Updated(Expired, k, [groups[k] EXCEPT !.last_progress_at = now])

\* A repeated fragment only sweeps: it does not renew its own group.
Duplicated(k) == Without(Expired)

\* One more fragment makes the group complete.
Fills(g, k) == Cardinality(DOMAIN g.fragments) + 1 = Total[k]

-----------------------------------------------------------------------------
(* What a call reports, and the counters it moves.                         *)

Outcome(status, k, sentences, discarded, gap) ==
  /\ calls < MaxCalls
  /\ calls' = calls + 1
  /\ outcome' = [status |-> status, key |-> k, sentences |-> sentences,
                 discarded |-> discarded, gap |-> gap]
  /\ UNCHANGED now

Count_Bug(status, expired, evicted) ==
  count' = [count EXCEPT ![status] = @ + 1,
                         !["expired"] = @ + Cardinality(expired \ {outcome'.key}),
                         !["capacity_evicted"] = @ + Cardinality(evicted)]

Count(status, expired, evicted) ==
  count' = [count EXCEPT ![status] = @ + 1,
                         !["expired"] = @ + Cardinality(expired),
                         !["capacity_evicted"] = @ + Cardinality(evicted)]

\* The fragments that the groups hold, each of a key and an ordinal.
Held(gs) == UNION {{k} \X DOMAIN gs[k].fragments : k \in DOMAIN gs}

FragmentsIn(gs) == Cardinality(Held(gs))

\* _update_peaks, called on the groups the call leaves.
UpdatePeaks ==
  peak' = [groups    |-> Larger(peak.groups, Cardinality(DOMAIN groups')),
           fragments |-> Larger(peak.fragments, FragmentsIn(groups'))]

-----------------------------------------------------------------------------
(* feed_parsed_outcome, by what it finds.                                  *)

\* No group is looked at: the sentence has no valid fragment header, is a
\* message of its own, or declares too many fragments.
PassBy(status, sentences) ==
  /\ Outcome(status, NoKey, sentences, {}, 0)
  /\ Count(status, {}, {})
  /\ UNCHANGED <<groups, peak, started>>

Invalid == PassBy("INVALID", <<>>)

Single(k, x) == Total[k] = 1 /\ PassBy("SINGLE", <<x>>)

LimitExceeded(k) ==
  /\ Total[k] > 1 /\ Total[k] > MaxFragments
  /\ PassBy("LIMIT_EXCEEDED", <<>>)

Multipart(k) == Total[k] > 1 /\ Total[k] <= MaxFragments

\* The live group already has this very fragment.
Duplicate(k, i, x) ==
  /\ Multipart(k) /\ Live(k)
  /\ i \in DOMAIN groups[k].fragments /\ groups[k].fragments[i] = x
  /\ Outcome("DUPLICATE", k, <<>>, Expired, 0)
  /\ groups' = Duplicated(k)
  /\ Count("DUPLICATE", Expired, {})
  /\ UNCHANGED <<peak, started>>

Conflict_Bug(k, i, x) ==
  /\ Multipart(k) /\ Live(k)
  /\ i \in DOMAIN groups[k].fragments /\ groups[k].fragments[i] # x
  /\ Outcome("CONFLICT", k, <<>>, Expired, 0)
  /\ groups' = Updated(Expired, k, [groups[k] EXCEPT !.fragments[i] = x])
  /\ Count("CONFLICT", Expired, {})
  /\ UNCHANGED <<peak, started>>

\* The live group has another text at this ordinal: both are dropped.
Conflict(k, i, x) ==
  /\ Multipart(k) /\ Live(k)
  /\ i \in DOMAIN groups[k].fragments /\ groups[k].fragments[i] # x
  /\ Outcome("CONFLICT", k, <<>>, Expired \cup {k}, 0)
  /\ groups' = Without(Expired \cup {k})
  /\ Count("CONFLICT", Expired, {})
  /\ UNCHANGED <<peak, started>>

\* The last missing fragment: the group leaves, and nothing else is swept.
Complete(k, i, x) ==
  /\ Multipart(k) /\ Live(k)
  /\ i \notin DOMAIN groups[k].fragments
  /\ Fills(groups[k], k)
  /\ LET g == Progress(groups[k], i, x)
     IN  Outcome("COMPLETE", k, [o \in Ordinals(k) |-> g.fragments[o]], {}, g.gap)
  /\ groups' = Without({k})
  /\ Count("COMPLETE", {}, {})
  /\ UNCHANGED <<peak, started>>

\* Another fragment of a live group.
Extend(k, i, x) ==
  /\ Multipart(k) /\ Live(k)
  /\ i \notin DOMAIN groups[k].fragments
  /\ ~Fills(groups[k], k)
  /\ Outcome("PENDING", k, <<>>, Expired, 0)
  /\ groups' = Updated(Expired, k, Progress(groups[k], i, x))
  /\ Count("PENDING", Expired, {})
  /\ UpdatePeaks
  /\ UNCHANGED started

Discarded_Bug(evicted) == Expired

\* The discarded_keys of a call that evicts.
Discarded(evicted) == Expired \cup evicted

\* The first fragment of a key without a live group.  Its own expired group
\* goes first; the sweep comes before the capacity check when the groups are
\* at their limit and after it otherwise, with the same result, because a
\* victim is only taken once the expired groups are gone.
Start(k, i, x) ==
  /\ Multipart(k) /\ ~Live(k)
  /\ LET evicted == Evicted(DOMAIN groups \ Expired)
     IN  /\ Outcome("PENDING", k, <<>>, Discarded(evicted), 0)
         /\ groups' = Updated(Expired \cup evicted, k, NewGroup(i, x))
         /\ Count("PENDING", Expired, evicted)
  /\ started' = started + 1
  /\ UpdatePeaks

Feed(k, i, x) ==
  \/ Single(k, x)
  \/ LimitExceeded(k)
  \/ Duplicate(k, i, x)
  \/ Conflict(k, i, x)
  \/ Complete(k, i, x)
  \/ Extend(k, i, x)
  \/ Start(k, i, x)

\* reset: forget every group.  Not a feed: the last outcome stays.
Reset ==
  /\ calls < MaxCalls
  /\ calls' = calls + 1
  /\ groups' = Without(DOMAIN groups)
  /\ count' = [count EXCEPT !["reset_discarded"] = @ + Cardinality(DOMAIN groups),
                            !["resets"] = @ + 1]
  /\ UNCHANGED <<now, outcome, peak, started>>

\* The clock is external: it never goes back.
Tick ==
  /\ now < MaxTime
  /\ now' = now + 1
  /\ UNCHANGED <<groups, outcome, count, peak, started, calls>>

Init ==
  /\ now = 0
  /\ groups = [k \in {} |-> {}]
  /\ outcome = [status |-> "INVALID", key |-> NoKey, sentences |-> <<>>,
                discarded |-> {}, gap |-> 0]
  /\ count = [c \in Statuses \cup Losses |-> 0]
  /\ peak = [groups |-> 0, fragments |-> 0]
  /\ started = 0
  /\ calls = 0

Next ==
  \/ \E k \in Keys : \E i \in Ordinals(k), x \in Texts : Feed(k, i, x)
  \/ Invalid
  \/ Reset
  \/ Tick

Spec == Init /\ [][Next]_vars

-----------------------------------------------------------------------------
(* Types.                                                                  *)

Fragments(k) == UNION {[D -> Texts] : D \in (SUBSET Ordinals(k)) \ {{}, Ordinals(k)}}

\* Every group is of a key that may have one, incomplete, not empty, and was
\* last extended in the past (the dictionary self._groups).
TypeOK ==
  /\ now \in Nat
  /\ DOMAIN groups \subseteq {k \in Keys : Multipart(k)}
  /\ \A k \in DOMAIN groups :
       /\ groups[k] = [fragments |-> groups[k].fragments,
                       last_progress_at |-> groups[k].last_progress_at,
                       gap |-> groups[k].gap]
       /\ groups[k].fragments \in Fragments(k)
       /\ groups[k].last_progress_at \in 0 .. now
       /\ groups[k].gap \in Nat
  /\ Cardinality(DOMAIN groups) <= MaxGroups
  /\ outcome.status \in Statuses /\ outcome.discarded \subseteq Keys
  /\ count \in [Statuses \cup Losses -> Nat]
  /\ peak \in [groups : Nat, fragments : Nat]
  /\ started \in Nat
  /\ calls \in Nat

-----------------------------------------------------------------------------
(* Safety.                                                                 *)

\* Every group ever created is still there or was counted once, by the reason
\* it left: the counters of stats() account for all of them.  The peaks are
\* updated on the PENDING path alone and still cover every state.
Ledger ==
  /\ started = Cardinality(DOMAIN groups) + count["COMPLETE"] + count["CONFLICT"]
               + count["expired"] + count["capacity_evicted"] + count["reset_discarded"]
  /\ Cardinality(DOMAIN groups) <= peak.groups
  /\ FragmentsIn(groups) <= peak.fragments

\* The types and the accounts together.
Consistent == TypeOK /\ Ledger

\* A message is never completed across a silence as long as the timeout, also
\* when no other traffic swept the stale group before its last fragment came.
NoStaleCompletion == outcome.status = "COMPLETE" => outcome.gap < Timeout

-----------------------------------------------------------------------------
(* Action properties.                                                      *)

\* Keys whose group ends in this step, whether or not a new one takes its place.
Ended == {k \in DOMAIN groups :
            \/ k \notin DOMAIN groups'
            \/ ~ (DOMAIN groups[k].fragments \subseteq DOMAIN groups'[k].fragments)
            \/ \E i \in DOMAIN groups[k].fragments :
                 groups'[k].fragments[i] # groups[k].fragments[i]}

\* A caller that keeps metadata per key learns of every group that ends, and of
\* no other: by discarded_keys, or by the COMPLETE outcome of the key.
\* (A group may be replaced by one that looks like it; then it was expired.)
EndsAreReported ==
  [][ calls' # calls /\ count'["resets"] = count["resets"] =>
        LET told == outcome'.discarded \cup
                    (IF outcome'.status = "COMPLETE" THEN {outcome'.key} ELSE {})
        IN  /\ Ended \subseteq told
            /\ told \subseteq DOMAIN groups
            /\ \A k \in told \cap DOMAIN groups' : k = outcome'.key /\ Stale(groups[k])
    ]_vars

\* The time-to-live of a group that goes on is renewed by a new fragment and by
\* nothing else: repeats cannot keep a message alive.
OnlyProgressRenews ==
  [][ \A k \in DOMAIN groups \cap DOMAIN groups' :
        groups'[k].last_progress_at # groups[k].last_progress_at =>
          \/ Cardinality(DOMAIN groups'[k].fragments)
               > Cardinality(DOMAIN groups[k].fragments)
          \/ Stale(groups[k])
    ]_vars

\* A live group loses its place only when there are as many live groups as there
\* may be.  Then one goes, the one that waited longest and among equals the least
\* key, and all other live groups stay.
EvictsLongestWaiting ==
  [][ \A v \in DOMAIN groups \ DOMAIN groups' :
        (Live(v) /\ outcome'.status = "PENDING" /\ calls' # calls
         /\ count'["resets"] = count["resets"]) =>
          LET live == DOMAIN groups \ Expired
          IN  /\ Cardinality(live) = MaxGroups
              /\ live \ {v} \subseteq DOMAIN groups'
              /\ \A k \in live \ {v} :
                   \/ groups[v].last_progress_at < groups[k].last_progress_at
                   \/ groups[v].last_progress_at = groups[k].last_progress_at /\ v < k
    ]_vars

-----------------------------------------------------------------------------
(* The assembler implements the promise of module Reassembly.              *)

Promise == INSTANCE Reassembly WITH
  pieces <- [k \in Keys |-> IF k \in DOMAIN groups THEN groups[k].fragments
                           ELSE [i \in {} |-> {}]],
  delivered <- IF outcome.status = "COMPLETE"
               THEN [key |-> outcome.key, lines |-> outcome.sentences]
               ELSE [key |-> NoKey, lines |-> <<>>]

\* A COMPLETE outcome delivers one fragment per ordinal, all received since the
\* key's group was created, whatever was swept, evicted or reset in between.
Reassembles == Promise!Spec
=============================================================================
