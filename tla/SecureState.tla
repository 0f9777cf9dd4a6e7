----------------------------- MODULE SecureState -----------------------------
(***************************************************************************)
(* The secure UDP server of src/aismixer_secure.py: SecureState and the    *)
(* handlers of _secure_server_loop.  A step is the handling of one         *)
(* datagram, which changes nothing after its first suspension.  Datagrams  *)
(* may come late, out of order and many times.                             *)
(*                                                                         *)
(* An accepted ClientHello makes a pending session with new keys, which    *)
(* becomes the session of its address when the client confirms it; until   *)
(* then the old session stays in use.  Keys are numbered as they are made; *)
(* a message of a session is a member of Messages and has its own nonce.   *)
(***************************************************************************)
EXTENDS Naturals, Sequences, FiniteSets, SequencesExt, ExpiringSet

CONSTANTS
  Addrs,         \* peer addresses
  Hellos,        \* signed ClientHello packets
  Stamp,         \* their timestamps
  Sentences,     \* messages other than the confirmation: pings and sentences
  SessionTtl, MaxSessions,
  PendingTtl, MaxPending,
  ReplayTtl, MaxReplays,
  NonceTtl, MaxNonces,
  Freshness,     \* accepted distance of a timestamp from the clock
  MaxTime,       \* bound of the model: the clock
  MaxKeys        \* bound of the model: handshakes answered

ASSUME SecureStateAssumption ==
  /\ Stamp \in [Hellos -> Nat]
  /\ {SessionTtl, MaxSessions, PendingTtl, MaxPending, ReplayTtl, MaxReplays,
      NonceTtl, MaxNonces} \subseteq Nat \ {0}
  /\ {Freshness, MaxTime, MaxKeys} \subseteq Nat
  /\ "confirm" \notin Sentences

VARIABLES
  now,            \* time.monotonic, and the wall clock
  sessions,       \* active sessions, in the order of the OrderedDict
  pending,        \* pending sessions, likewise
  replays,        \* handshakes answered lately
  issued,         \* keys made so far
  currentNonces,  \* _current_data_nonces
  net,            \* counters: created less removed, for every cause
  log             \* history: what is recorded against repetition, see Remembered

vars == <<now, sessions, pending, replays, issued, currentNonces, net, log>>

Messages == {"confirm"} \cup Sentences

-----------------------------------------------------------------------------
(* The two dictionaries.  Entries are [addr, key, since, nonces], where     *)
(* since is last_seen of a session and created_at of a pending one.         *)

Has(list, a) == \E i \in DOMAIN list : list[i].addr = a

Entry(list, a) == CHOOSE e \in ToSet(list) : e.addr = a

\* How many entries the cleanup removes: from the front, up to a live one.
StaleCount(list, ttl) ==
  CHOOSE k \in 0 .. Len(list) :
    /\ \A i \in 1 .. k : now - list[i].since >= ttl
    /\ k < Len(list) => now - list[k + 1].since < ttl

Stale(list, ttl) == SubSeq(list, 1, StaleCount(list, ttl))

Kept(list, ttl) == SubSeq(list, StaleCount(list, ttl) + 1, Len(list))

Displaced_Newest(list, a, max) ==
  IF Has(list, a) THEN <<Entry(list, a)>>
  ELSE IF Len(list) >= max THEN <<Last(list)>> ELSE <<>>

\* What makes room for an entry of address a: the one it replaces, or the
\* oldest of a full dictionary.
Displaced(list, a, max) ==
  IF Has(list, a) THEN <<Entry(list, a)>>
  ELSE IF Len(list) >= max THEN <<Head(list)>> ELSE <<>>

Without(list, a) == RemoveAt(list, CHOOSE i \in DOMAIN list : list[i].addr = a)

Installed(list, entry, max) ==
  LET displaced == Displaced(list, entry.addr, max)
  IN  Append(IF displaced = <<>> THEN list ELSE Without(list, Head(displaced).addr), entry)

Touched_InPlace(list, a, entry) ==
  [i \in DOMAIN list |-> IF list[i].addr = a THEN entry ELSE list[i]]

\* move_to_end of the entry of a, which has become the given one.
Touched(list, a, entry) == Append(Without(list, a), entry)

\* The nonces held, each under the key of its entry.
NonceTotal(list) ==
  Cardinality(UNION {{e.key} \X DOMAIN e.nonces : e \in ToSet(list)})

S == Kept(sessions, SessionTtl)
P == Kept(pending, PendingTtl)

\* Nonces discarded by the cleanup of every datagram.
Discarded == NonceTotal(Stale(sessions, SessionTtl)) + NonceTotal(Stale(pending, PendingTtl))

\* The counters after the cleanup, when ds and dp entries more come and go.
Counted(ds, dp) ==
  net' = [sessions |-> net.sessions - Len(Stale(sessions, SessionTtl)) + ds,
          pending  |-> net.pending - Len(Stale(pending, PendingTtl)) + dp]

\* A datagram that leads to nothing but the cleanup.
CleanupOnly ==
  /\ sessions' = S
  /\ pending' = P
  /\ currentNonces' = currentNonces - Discarded
  /\ Counted(0, 0)
  /\ UNCHANGED <<now, replays, issued>>

-----------------------------------------------------------------------------
(* The nonces of an entry, active or pending.                              *)

\* accept_data_nonce of a nonce that is not held.
WithNonce(e, m) == [e EXCEPT !.nonces = Admitted(e.nonces, m, now, NonceTtl, MaxNonces)]

\* What it adds to the nonces in use: one, less the expired and the evicted ones.
NoncesGained(e, m) ==
  1 - ExpiredCount(e.nonces, now) - Len(Evicted(e.nonces, now, MaxNonces))

-----------------------------------------------------------------------------
(* ClientHello                                                             *)

Timely(h) == now - Stamp[h] <= Freshness /\ Stamp[h] - now <= Freshness

\* Out of the window; a handshake refused for its station or signature alike.
HelloUntimely(h) == ~Timely(h) /\ CleanupOnly

\* accept_handshake_replay: a repeated handshake only makes expired ones go.
ReplayRejected(h) == Holds(replays, h, now) /\ replays' = Fresh(replays, now)

ReplayAccepted(h) ==
  ~Holds(replays, h, now) /\ replays' = Admitted(replays, h, now, ReplayTtl, MaxReplays)

\* Answered before: nothing is sent.
HelloRepeated(h) ==
  /\ Timely(h)
  /\ ReplayRejected(h)
  /\ sessions' = S
  /\ pending' = P
  /\ currentNonces' = currentNonces - Discarded
  /\ Counted(0, 0)
  /\ UNCHANGED <<now, issued>>

\* Answered with new keys; the pending session of the address is replaced.
HelloAnswered(a, h) ==
  LET displaced == Displaced(P, a, MaxPending)
  IN  /\ issued < MaxKeys
      /\ Timely(h)
      /\ ReplayAccepted(h)
      /\ issued' = issued + 1
      /\ pending' = Installed(P, [addr |-> a, key |-> issued + 1, since |-> now,
                                  nonces |-> <<>>], MaxPending)
      /\ sessions' = S
      /\ currentNonces' = currentNonces - Discarded - NonceTotal(displaced)
      /\ Counted(0, 1 - Len(displaced))
      /\ UNCHANGED now

-----------------------------------------------------------------------------
(* Data                                                                    *)

\* The datagram is under the keys of the pending session of its address.
ForPending(a, k) == Has(P, a) /\ Entry(P, a).key = k

\* promote_pending_session: the entry, with the nonce of its confirmation, leaves
\* the pending ones and becomes the session of its address, or takes the place
\* of the oldest session.
Promote(entry) ==
  LET displaced == Displaced(S, entry.addr, MaxSessions)
  IN  /\ pending' = Without(P, entry.addr)
      /\ sessions' = Installed(S, [entry EXCEPT !.since = now], MaxSessions)
      /\ currentNonces' = currentNonces - Discarded - NonceTotal(displaced)
                          + NoncesGained(Entry(P, entry.addr), "confirm")
      /\ Counted(1 - Len(displaced), -1)

\* The confirmation.
Confirm(a, k) ==
  /\ ForPending(a, k)
  /\ Promote(WithNonce(Entry(P, a), "confirm"))
  /\ UNCHANGED <<now, replays, issued>>

\* Not for a session of this address: anything but the confirmation of the
\* pending session, or no session at all, which is answered with a hint.
Unmatched(a, k, m) ==
  /\ \/ ForPending(a, k) /\ m # "confirm"
     \/ ~ForPending(a, k) /\ ~Has(S, a)
  /\ CleanupOnly

\* The message m under keys k is accepted by the session of a.
Acceptable(a, k, m) ==
  /\ ~ForPending(a, k)
  /\ Has(S, a)
  /\ k = Entry(S, a).key
  /\ m # "confirm"
  /\ ~Holds(Entry(S, a).nonces, m, now)

\* Repeated, under other keys, or a late confirmation: only expired nonces go.
Ignored(a, k, m) ==
  LET nonces == Entry(S, a).nonces
  IN  /\ Has(S, a) /\ ~ForPending(a, k) /\ ~Acceptable(a, k, m)
      /\ sessions' = [i \in DOMAIN S |->
                        IF S[i].addr = a THEN [S[i] EXCEPT !.nonces = Fresh(nonces, now)]
                        ELSE S[i]]
      /\ pending' = P
      /\ currentNonces' = currentNonces - Discarded - ExpiredCount(nonces, now)
      /\ Counted(0, 0)
      /\ UNCHANGED <<now, replays, issued>>

\* Accepted: the nonce is remembered, the session touched, and the ping
\* answered or the sentence queued.
Accepted(a, k, m) ==
  LET s == Entry(S, a)
  IN  /\ Acceptable(a, k, m)
      /\ sessions' = Touched(S, a, [WithNonce(s, m) EXCEPT !.since = now])
      /\ pending' = P
      /\ currentNonces' = currentNonces - Discarded + NoncesGained(s, m)
      /\ Counted(0, 0)
      /\ UNCHANGED <<now, replays, issued>>

-----------------------------------------------------------------------------

Tick ==
  /\ now < MaxTime
  /\ now' = now + 1
  /\ UNCHANGED <<sessions, pending, replays, issued, currentNonces, net>>

Init ==
  /\ now = 0
  /\ sessions = <<>>
  /\ pending = <<>>
  /\ replays = <<>>
  /\ issued = 0
  /\ currentNonces = 0
  /\ net = [sessions |-> 0, pending |-> 0]
  /\ log = {}

Hello(a, h) == HelloUntimely(h) \/ HelloRepeated(h) \/ HelloAnswered(a, h)

Data(a, k, m) ==
  \/ m = "confirm" /\ Confirm(a, k)
  \/ Unmatched(a, k, m) \/ Ignored(a, k, m) \/ Accepted(a, k, m)

-----------------------------------------------------------------------------
(* The history beside the actions: what was accepted, under key 0 for a     *)
(* handshake, as long as it counts as a repetition.                         *)

Forgotten(r) == now' - r.at >= (IF r.key = 0 THEN ReplayTtl ELSE NonceTtl)

\* The history after what was accepted under key k, when the records given
\* were evicted: whether it was accepted again is told by again.
Remembered(k, what, evicted) ==
  LET kept == {r \in log : ~(r.key = k /\ r.what \in Keys(evicted))}
  IN  kept \cup {[key |-> k, what |-> what, at |-> now,
                  again |-> \E r \in kept : r.key = k /\ r.what = what]}

HelloLogged(a, h) ==
  /\ Hello(a, h)
  /\ log' = IF issued' # issued
            THEN Remembered(0, h, Evicted(replays, now, MaxReplays)) ELSE log

DataLogged(a, k, m) ==
  /\ Data(a, k, m)
  /\ log' = IF m = "confirm" /\ ForPending(a, k) THEN Remembered(k, m, <<>>)
            ELSE IF Acceptable(a, k, m)
            THEN Remembered(k, m, Evicted(Entry(S, a).nonces, now, MaxNonces))
            ELSE log

Next ==
  \/ \E a \in Addrs, h \in Hellos : HelloLogged(a, h)
  \/ \E a \in Addrs, k \in 1 .. issued, m \in Messages : DataLogged(a, k, m)
  \/ Tick /\ log' = {r \in log : ~Forgotten(r)}

Spec == Init /\ [][Next]_vars

-----------------------------------------------------------------------------
(* Properties.                                                             *)

Ordered(list) == \A i, j \in DOMAIN list : i < j => list[i].since <= list[j].since

\* The capacities, for every dictionary and set.
TypeOK ==
  /\ Len(sessions) <= MaxSessions /\ Len(pending) <= MaxPending
  /\ Len(replays) <= MaxReplays
  /\ \A e \in ToSet(sessions) \cup ToSet(pending) :
       e.addr \in Addrs /\ e.key \in 1 .. issued /\ Len(e.nonces) <= MaxNonces
  /\ currentNonces \in Nat

\* The nonce count and the counters agree with the dictionaries after
\* replacement, expiry, eviction and promotion.
Ledger ==
  /\ currentNonces = NonceTotal(sessions) + NonceTotal(pending)
  /\ net = [sessions |-> Len(sessions), pending |-> Len(pending)]

\* Both dictionaries are in the order of their deadlines, with one entry for an
\* address and each key in one place: cleaning from the front misses nothing
\* that has expired.
InExpiryOrder ==
  /\ Ordered(sessions) /\ Ordered(pending)
  /\ LET all == sessions \o pending
     IN  \A i, j \in DOMAIN all : all[i].key = all[j].key => i = j
  /\ \A list \in {sessions, pending} :
       \A i, j \in DOMAIN list : list[i].addr = list[j].addr => i = j

\* The types, capacities, accounts and the order of the tables.
Consistent == TypeOK /\ Ledger /\ InExpiryOrder

\* A handshake is answered once in ReplayTtl and a message accepted once in
\* NonceTtl, unless the record of it was evicted by newer ones; the confirmation
\* that promoted a session counts as well.
NoRepeatInWindow == \A r \in log : ~r.again

Key(list) == {e.key : e \in ToSet(list)}

\* An active session ends for one of three reasons: it was silent for its ttl,
\* the pending session of the same address was confirmed, or one of another
\* address was and this was the session silent longest of a full table.  An
\* unconfirmed handshake never ends it.
EndsForAReason ==
  [][\A s \in ToSet(sessions) : s.key \notin Key(sessions') =>
       \/ now - s.since >= SessionTtl
       \/ \E t \in ToSet(sessions') :
            /\ t.key \in Key(pending)
            /\ \/ t.addr = s.addr
               \/ /\ Len(sessions) = MaxSessions
                  /\ \A u \in ToSet(sessions) : s.since <= u.since]_vars
=============================================================================
