--------------------------- MODULE Sproxy_proofs ----------------------------
(***************************************************************************)
(* The station proxy of src/nmea_sproxy, for any capacities and any input: *)
(* its input, which loses no line of a serial port without counting it     *)
(* (module SerialInput), and its output, which shares its keys with the    *)
(* server it forwards to for as long as it forwards, leaves in time a      *)
(* session that server no longer answers, and has one again in time when   *)
(* the network is calm (module SecureLink).                                *)
(* What module SecureState promises is taken from its proofs.              *)
(***************************************************************************)
EXTENDS SecureLink, SerialInput, FiniteSetTheorems, SequenceTheorems,
        NaturalsInduction, TLAPS

Proven == INSTANCE SecureState_proofs WITH
  Stamp <- [h \in Hellos |-> h[2]],
  Sentences <- {Pings[n] : n \in DOMAIN Pings},
  log <- {}

-----------------------------------------------------------------------------
(* The server in both modules.                                             *)

\* The constants are as SecureState_proofs assumes them.
LEMMA Assumed == Proven!SecureStateAssumption
BY ServerAssumption DEF Server!SecureStateAssumption, Proven!SecureStateAssumption

\* The tables, their records and their counters are told by the same operators.
LEMMA SameTables ==
  /\ \A s : Server!ToSet(s) = Proven!ToSet(s)
  /\ \A l, a : Server!Has(l, a) <=> Proven!Has(l, a)
  /\ \A l, a : Server!Entry(l, a) = Proven!Entry(l, a)
  /\ \A l, t : Server!Stale(l, t) = Proven!Stale(l, t)
  /\ \A l, t : Server!Kept(l, t) = Proven!Kept(l, t)
  /\ \A l, a, n : Server!Displaced(l, a, n) = Proven!Displaced(l, a, n)
  /\ \A l, a : Server!Without(l, a) = Proven!Without(l, a)
  /\ \A l, e, n : Server!Installed(l, e, n) = Proven!Installed(l, e, n)
  /\ \A l, a, e : Server!Touched(l, a, e) = Proven!Touched(l, a, e)
  /\ \A l : Server!NonceTotal(l) = Proven!NonceTotal(l)
<1>1. \A s : Server!ToSet(s) = Proven!ToSet(s)
  BY DEF Server!ToSet, Proven!ToSet
<1>2. \A l, a : (Server!Has(l, a) <=> Proven!Has(l, a)) /\ Server!Entry(l, a) = Proven!Entry(l, a)
  BY <1>1 DEF Server!Has, Proven!Has, Server!Entry, Proven!Entry
<1>3. \A l, t : Server!StaleCount(l, t) = Proven!StaleCount(l, t)
  BY DEF Server!StaleCount, Proven!StaleCount
<1>4. \A l, t : Server!Stale(l, t) = Proven!Stale(l, t) /\ Server!Kept(l, t) = Proven!Kept(l, t)
  BY <1>3 DEF Server!Stale, Proven!Stale, Server!Kept, Proven!Kept
<1>5. \A l, a, n : Server!Displaced(l, a, n) = Proven!Displaced(l, a, n)
  BY <1>2 DEF Server!Displaced, Proven!Displaced
<1>6. \A l, a : Server!Without(l, a) = Proven!Without(l, a)
  BY DEF Server!Without, Proven!Without, Server!RemoveAt, Proven!RemoveAt
<1>7. \A l, e, n : Server!Installed(l, e, n) = Proven!Installed(l, e, n)
  BY <1>5, <1>6 DEF Server!Installed, Proven!Installed
<1>8. \A l, a, e : Server!Touched(l, a, e) = Proven!Touched(l, a, e)
  BY <1>6 DEF Server!Touched, Proven!Touched
<1>9. \A l : Server!NonceTotal(l) = Proven!NonceTotal(l)
  BY <1>1 DEF Server!NonceTotal, Proven!NonceTotal, Server!Cardinality, Proven!Cardinality
<1> QED BY <1>1, <1>2, <1>4, <1>5, <1>6, <1>7, <1>8, <1>9

\* So are the nonces and the handshakes remembered.
LEMMA SameRecords ==
  /\ \A l, t : Server!ExpiredCount(l, t) = Proven!ExpiredCount(l, t)
  /\ \A l, t : Server!Fresh(l, t) = Proven!Fresh(l, t)
  /\ \A l, t, n : Server!Evicted(l, t, n) = Proven!Evicted(l, t, n)
  /\ \A l, r, t : Server!Holds(l, r, t) <=> Proven!Holds(l, r, t)
  /\ \A l, r, t, d, n : Server!Admitted(l, r, t, d, n) = Proven!Admitted(l, r, t, d, n)
<1>1. \A r, t : Server!Lapsed(r, t) <=> Proven!Lapsed(r, t)
  BY DEF Server!Lapsed, Proven!Lapsed
<1>2. \A l, t : Server!ExpiredCount(l, t) = Proven!ExpiredCount(l, t)
  BY <1>1 DEF Server!ExpiredCount, Proven!ExpiredCount
<1>3. \A l, t : Server!Fresh(l, t) = Proven!Fresh(l, t)
  BY <1>2 DEF Server!Fresh, Proven!Fresh
<1>4. \A l, r, t : Server!Holds(l, r, t) <=> Proven!Holds(l, r, t)
  BY <1>3 DEF Server!Holds, Proven!Holds, Server!Keys, Proven!Keys
<1>5. \A l, r, t, d, n : Server!Admitted(l, r, t, d, n) = Proven!Admitted(l, r, t, d, n)
  BY <1>3 DEF Server!Admitted, Proven!Admitted, Server!Record, Proven!Record
<1>6. \A l, t, n : Server!Evicted(l, t, n) = Proven!Evicted(l, t, n)
  BY <1>3 DEF Server!Evicted, Proven!Evicted
<1> QED BY <1>2, <1>3, <1>4, <1>5, <1>6

\* What the cleanup at the head of every datagram leaves and counts.
LEMMA SameCleanup ==
  /\ Server!S = Proven!S /\ Server!P = Proven!P /\ Server!Discarded = Proven!Discarded
  /\ \A ds, dp : Server!Counted(ds, dp) <=> Proven!Counted(ds, dp)
  /\ Server!CleanupOnly <=> Proven!CleanupOnly
<1>1. Server!S = Proven!S /\ Server!P = Proven!P
  BY SameTables DEF Server!S, Proven!S, Server!P, Proven!P
<1>2. Server!Discarded = Proven!Discarded
  BY SameTables DEF Server!Discarded, Proven!Discarded
<1>3. \A ds, dp : Server!Counted(ds, dp) <=> Proven!Counted(ds, dp)
  BY SameTables DEF Server!Counted, Proven!Counted
<1>4. Server!CleanupOnly <=> Proven!CleanupOnly
  BY <1>1, <1>2, <1>3 DEF Server!CleanupOnly, Proven!CleanupOnly
<1> QED BY <1>1, <1>2, <1>3, <1>4

\* A handshake and a message are handled by the same steps.
LEMMA SameHello ==
  ASSUME NEW a, NEW h
  PROVE  Server!Hello(a, h) <=> Proven!Hello(a, h)
<1>1. Server!Timely(h) <=> Proven!Timely(h)
  BY DEF Server!Timely, Proven!Timely
<1>2. /\ Server!ReplayRejected(h) <=> Proven!ReplayRejected(h)
      /\ Server!ReplayAccepted(h) <=> Proven!ReplayAccepted(h)
  BY SameRecords DEF Server!ReplayRejected, Proven!ReplayRejected,
                     Server!ReplayAccepted, Proven!ReplayAccepted
<1>3. Server!HelloUntimely(h) <=> Proven!HelloUntimely(h)
  BY <1>1, SameCleanup DEF Server!HelloUntimely, Proven!HelloUntimely
<1>4. Server!HelloRepeated(h) <=> Proven!HelloRepeated(h)
  BY <1>1, <1>2, SameCleanup DEF Server!HelloRepeated, Proven!HelloRepeated
<1>5. Server!HelloAnswered(a, h) <=> Proven!HelloAnswered(a, h)
  BY <1>1, <1>2, SameTables, SameCleanup DEF Server!HelloAnswered, Proven!HelloAnswered
<1> QED BY <1>3, <1>4, <1>5 DEF Server!Hello, Proven!Hello

LEMMA SameMatches ==
  ASSUME NEW a, NEW k, NEW m
  PROVE  /\ Server!ForPending(a, k) <=> Proven!ForPending(a, k)
         /\ Server!Acceptable(a, k, m) <=> Proven!Acceptable(a, k, m)
BY SameTables, SameRecords, SameCleanup
   DEF Server!ForPending, Proven!ForPending, Server!Acceptable, Proven!Acceptable

LEMMA SameData ==
  ASSUME NEW a, NEW k, NEW m
  PROVE  Server!Data(a, k, m) <=> Proven!Data(a, k, m)
<1>1. \A e, n : /\ Server!WithNonce(e, n) = Proven!WithNonce(e, n)
                /\ Server!NoncesGained(e, n) = Proven!NoncesGained(e, n)
  BY SameRecords DEF Server!WithNonce, Proven!WithNonce, Server!NoncesGained,
                     Proven!NoncesGained
<1>2. \A e : Server!Promote(e) <=> Proven!Promote(e)
  BY <1>1, SameTables, SameCleanup DEF Server!Promote, Proven!Promote
<1>3. Server!Confirm(a, k) <=> Proven!Confirm(a, k)
  BY <1>1, <1>2, SameTables, SameCleanup, SameMatches DEF Server!Confirm, Proven!Confirm
<1>4. Server!Unmatched(a, k, m) <=> Proven!Unmatched(a, k, m)
  BY SameTables, SameCleanup, SameMatches DEF Server!Unmatched, Proven!Unmatched
<1>5. Server!Ignored(a, k, m) <=> Proven!Ignored(a, k, m)
  BY SameTables, SameRecords, SameCleanup, SameMatches DEF Server!Ignored, Proven!Ignored
<1>6. Server!Accepted(a, k, m) <=> Proven!Accepted(a, k, m)
  BY <1>1, SameTables, SameCleanup, SameMatches DEF Server!Accepted, Proven!Accepted
<1> QED BY <1>3, <1>4, <1>5, <1>6 DEF Server!Data, Proven!Data

LEMMA SameTick ==
  /\ Server!Tick <=> Proven!Tick
  /\ Server!Init <=> Proven!Init
BY DEF Server!Tick, Proven!Tick, Server!Init, Proven!Init

-----------------------------------------------------------------------------
(* The invariant, of the client c, the wire w, the sessions ss, the pending *)
(* ones pp, at time t with n handshakes begun and k answered.               *)

\* A datagram under the keys of a session.
Used(m) == m.type \in {"Data", "Pong"}

Typed(m, t, n, k) ==
  /\ m.addr \in Addrs /\ m.timestamp \in 0 .. t
  /\ m.type \in {"ClientHello", "ServerHello"} => m.hello \in Hellos /\ m.hello[1] <= n
  /\ m.type \in {"ServerHello", "Data", "Pong"} => m.key \in 1 .. k
  /\ Used(m) => m.what \in {"confirm"} \cup {Pings[i] : i \in DOMAIN Pings}

\* Whatever comes to the session of a comes under the given keys, and what is
\* pending there is newer.
Home(ss, pp, a, key) ==
  /\ \A s \in Proven!ToSet(ss) : s.addr = a => s.key = key
  /\ \A p \in Proven!ToSet(pp) : p.addr = a => key < p.key

\* The keys an attempt is answered with are newer than all in use.
Begun(w, h) ==
  \A m, u \in w : m.type = "ServerHello" /\ m.hello = h /\ Used(u) => u.key < m.key

\* The newest keys are the client's, only the confirmation is under them, and it
\* is answered by a server that has put them to use.
Awaited(w, ss, pp, key, until) ==
  \A u \in w : Used(u) =>
    /\ u.key <= key
    /\ u.key = key => u.what = "confirm"
    /\ u.type = "Pong" /\ u.key = key =>
         /\ until <= u.timestamp + HandshakeTimeout
         /\ Home(ss, pp, u.addr, key)

\* The pings so far are under the newest keys, and what answers the one awaited is
\* not older than it.
InUse(w, c) ==
  \A u \in w : Used(u) =>
    /\ u.key <= c.key
    /\ u.key = c.key => u.what = "confirm" \/ \E i \in 1 .. c.next - 1 : u.what = Pings[i]
    /\ u.type = "Pong" /\ u.key = c.key /\ u.what = c.expected => c.pinged <= u.timestamp

\* No timer of the session is overdue, and the last pong was not too old.
Timers(c, t) ==
  /\ c.peer \in 0 .. t /\ t - c.peer <= PeerTimeout
  /\ c.pinged \in 0 .. t /\ t - c.pinged <= Keepalive
  /\ c.answered \in 0 .. t /\ c.peer - c.answered <= Greater(Keepalive, HandshakeTimeout)
  /\ c.next \in 1 .. Len(Pings) + 1

Expectations == {Nothing} \cup {Pings[i] : i \in DOMAIN Pings}

Forwarding ==
  [phase : {"forward"}, key : Nat, started : Nat, peer : Nat, pinged : Nat,
   expected : Expectations, next : Nat, home : Addrs, answered : Nat]

ClientInv(c, w, ss, pp, t, n, k) ==
  /\ c.phase = "hello" => c.hello \in Hellos /\ c.hello[1] <= n /\ Begun(w, c.hello)
  /\ c.phase = "confirm" =>
       /\ c.key \in 1 .. k
       /\ c.until \in Nat /\ t <= c.until /\ c.until <= t + HandshakeTimeout
       /\ Awaited(w, ss, pp, c.key, c.until)
  /\ c.phase = "forward" =>
       /\ c \in Forwarding /\ c.key \in 1 .. k
       /\ Timers(c, t) /\ InUse(w, c) /\ Home(ss, pp, c.home, c.key)

LinkInv ==
  /\ Proven!SecureInv
  /\ now <= MaxTime /\ attempts \in Nat /\ addr \in Addrs
  /\ \A m \in wire : Typed(m, now, attempts, issued)
  /\ ClientInv(client, wire, sessions, pending, now, attempts, issued)

-----------------------------------------------------------------------------
(* The server takes a datagram.                                            *)

\* Where sessions only stay or go, and pending ones are new if they come, those of
\* an address are as they were.
LEMMA HomeStays ==
  ASSUME NEW ss, NEW pp, NEW qq, NEW rr, NEW a, NEW key, key \in 1 .. issued, issued \in Nat,
         Home(ss, pp, a, key),
         \A e \in Proven!ToSet(qq) :
           \E f \in Proven!ToSet(ss) : f.addr = e.addr /\ f.key = e.key,
         \A e \in Proven!ToSet(rr) : e \in Proven!ToSet(pp) \/ e.key = issued + 1
  PROVE  Home(qq, rr, a, key)
<1>1. key < issued + 1
  OBVIOUS
<1> QED BY <1>1 DEF Home

\* The cleanup of every datagram leaves fewer.
LEMMA FewerCleaned ==
  ASSUME Proven!SecureInv
  PROVE  /\ Proven!ToSet(Proven!S) \subseteq Proven!ToSet(sessions)
         /\ Proven!ToSet(Proven!P) \subseteq Proven!ToSet(pending)
         /\ now \in Nat /\ issued \in Nat
BY Assumed, Proven!CleanedTables DEF Proven!Cleaned, Proven!SecureInv

\* A handshake.
LEMMA HelloTaken ==
  ASSUME Proven!SecureInv, NEW a \in Addrs, NEW h \in Hellos, Proven!Hello(a, h)
  PROVE  /\ Proven!SecureInv' /\ now' = now /\ issued' \in {issued, issued + 1}
         /\ \A b, key : key \in 1 .. issued /\ Home(sessions, pending, b, key) =>
              Home(sessions', pending', b, key)
<1>1. /\ Proven!ToSet(Proven!S) \subseteq Proven!ToSet(sessions)
      /\ Proven!ToSet(Proven!P) \subseteq Proven!ToSet(pending)
      /\ now \in Nat /\ issued \in Nat
  BY FewerCleaned
<1>2. CASE Proven!HelloUntimely(h)
  <2>1. Proven!CleanupOnly
    BY <1>2 DEF Proven!HelloUntimely
  <2>2. /\ sessions' = Proven!S /\ pending' = Proven!P /\ now' = now /\ issued' = issued
    BY <2>1 DEF Proven!CleanupOnly
  <2>3. Proven!SecureInv'
    BY <2>1, Assumed, Proven!CleanupStep
  <2> QED BY <1>1, <2>2, <2>3, HomeStays
<1>3. CASE Proven!HelloRepeated(h)
  <2>1. /\ sessions' = Proven!S /\ pending' = Proven!P /\ now' = now /\ issued' = issued
    BY <1>3 DEF Proven!HelloRepeated
  <2>2. Proven!SecureInv'
    BY <1>3, Assumed, Proven!HelloRepeatedStep
  <2> QED BY <1>1, <2>1, <2>2, HomeStays
<1>4. CASE Proven!HelloAnswered(a, h)
  <2>1. /\ now' = now /\ issued' = issued + 1 /\ sessions' = Proven!S
        /\ \A f \in Proven!ToSet(pending') : f \in Proven!ToSet(Proven!P) \/ f.key = issued + 1
        /\ Proven!Tables(sessions', pending', replays', now', issued')
        /\ Proven!Counts(sessions', pending', currentNonces', net')
    BY <1>4, Assumed, Proven!HelloAnsweredTables
  <2>2. Proven!History({}, sessions', pending', replays', now', issued')
    BY DEF Proven!History
  <2>3. Proven!SecureInv'
    BY <1>1, <2>1, <2>2 DEF Proven!SecureInv
  <2> QED BY <1>1, <2>1, <2>3, HomeStays
<1> QED BY <1>2, <1>3, <1>4 DEF Proven!Hello

\* The confirmation puts its keys to use at its address and nowhere else.
LEMMA ConfirmTaken ==
  ASSUME Proven!SecureInv, NEW a, NEW k, Proven!Confirm(a, k)
  PROVE  /\ Proven!SecureInv' /\ now' = now /\ issued' = issued
         /\ Home(sessions', pending', a, k)
         /\ \A b, key :
              /\ key \in 1 .. issued /\ k <= key
              /\ Home(sessions, pending, b, key)
              => Home(sessions', pending', b, key)
<1>1. /\ Proven!ToSet(Proven!S) \subseteq Proven!ToSet(sessions)
      /\ Proven!ToSet(Proven!P) \subseteq Proven!ToSet(pending)
      /\ now \in Nat /\ issued \in Nat
  BY FewerCleaned
<1>2. /\ now' = now /\ issued' = issued /\ k \in 1 .. issued
      /\ Proven!ToSet(pending') \subseteq Proven!ToSet(Proven!P)
      /\ \A g \in Proven!ToSet(pending') : g.addr # a
      /\ \E f \in Proven!ToSet(Proven!P) : f.addr = a /\ f.key = k
      /\ Proven!Tables(sessions', pending', replays', now', issued')
      /\ Proven!Counts(sessions', pending', currentNonces', net')
  BY Assumed, Proven!ConfirmTables
<1>3. PICK e \in Proven!ToSet(sessions') :
        /\ e.addr = a /\ e.key = k
        /\ \A g \in Proven!ToSet(sessions') : g = e \/ (g \in Proven!ToSet(Proven!S) /\ g.key # k)
  BY Assumed, Proven!ConfirmTables
<1>4. Proven!SecureInv'
  <2>1. Proven!History({}, sessions', pending', replays', now', issued')
    BY DEF Proven!History
  <2> QED BY <1>1, <1>2, <2>1 DEF Proven!SecureInv
<1>5. \A g \in Proven!ToSet(sessions') : g.addr = a => g = e
  <2>1. Proven!Table(sessions', now', issued')
    BY <1>2 DEF Proven!Tables
  <2> QED BY <1>3, <2>1, Assumed, Proven!OneEntryEach
<1>6. Home(sessions', pending', a, k)
  BY <1>2, <1>3, <1>5 DEF Home
<1>7. ASSUME NEW b, NEW key, key \in 1 .. issued, k <= key, Home(sessions, pending, b, key)
      PROVE  Home(sessions', pending', b, key)
  <2>1. b # a
    <3>1. PICK f \in Proven!ToSet(Proven!P) : f.addr = a /\ f.key = k
      BY <1>2
    <3>2. b = a => key < k
      BY <1>1, <1>7, <3>1 DEF Home
    <3> QED BY <1>2, <1>7, <3>2
  <2>2. \A g \in Proven!ToSet(sessions') : g.addr = b => g \in Proven!ToSet(sessions)
    BY <1>1, <1>3, <2>1
  <2> QED BY <1>1, <1>2, <1>7, <2>2 DEF Home
<1> QED BY <1>2, <1>4, <1>6, <1>7

\* A message.
LEMMA DataTaken ==
  ASSUME Proven!SecureInv, NEW a, NEW k, NEW m \in Proven!Messages, Proven!Data(a, k, m)
  PROVE  /\ Proven!SecureInv' /\ now' = now /\ issued' = issued
         /\ m = "confirm" /\ Proven!ForPending(a, k) => Home(sessions', pending', a, k)
         /\ \A b, key :
              /\ key \in 1 .. issued /\ (m = "confirm" => k <= key)
              /\ Home(sessions, pending, b, key)
              => Home(sessions', pending', b, key)
<1>1. /\ Proven!ToSet(Proven!S) \subseteq Proven!ToSet(sessions)
      /\ Proven!ToSet(Proven!P) \subseteq Proven!ToSet(pending)
      /\ now \in Nat /\ issued \in Nat
  BY FewerCleaned
<1>2. CASE m = "confirm" /\ Proven!Confirm(a, k)
  BY <1>2, ConfirmTaken
<1>3. CASE Proven!Unmatched(a, k, m)
  <2>1. Proven!CleanupOnly /\ ~(m = "confirm" /\ Proven!ForPending(a, k))
    BY <1>3 DEF Proven!Unmatched
  <2>2. /\ sessions' = Proven!S /\ pending' = Proven!P /\ now' = now /\ issued' = issued
    BY <2>1 DEF Proven!CleanupOnly
  <2>3. Proven!SecureInv'
    BY <2>1, Assumed, Proven!CleanupStep
  <2> QED BY <1>1, <2>1, <2>2, <2>3, HomeStays
<1>4. CASE Proven!Ignored(a, k, m)
  <2>1. pending' = Proven!P /\ now' = now /\ issued' = issued /\ ~Proven!ForPending(a, k)
    BY <1>4 DEF Proven!Ignored
  <2>2. Proven!SecureInv'
    BY <1>4, Assumed, Proven!IgnoredStep
  <2>3. \A e \in Proven!ToSet(sessions') :
          \E f \in Proven!ToSet(Proven!S) : f.addr = e.addr /\ f.key = e.key
    BY <1>4, Assumed, Proven!IgnoredKeys
  <2> QED BY <1>1, <2>1, <2>2, <2>3, HomeStays
<1>5. CASE Proven!Accepted(a, k, m)
  <2>1. /\ now' = now /\ issued' = issued /\ pending' = Proven!P
        /\ Proven!Entry(Proven!S, a) \in Proven!ToSet(Proven!S)
        /\ Proven!Entry(Proven!S, a).addr = a /\ Proven!Entry(Proven!S, a).key = k
        /\ Proven!Tables(sessions', pending', replays', now', issued')
        /\ Proven!Counts(sessions', pending', currentNonces', net')
    BY <1>5, Assumed, Proven!AcceptedTables
  <2>2. PICK e \in Proven!ToSet(sessions') :
          /\ e.addr = a /\ e.key = k
          /\ \A g \in Proven!ToSet(sessions') : g = e \/ g \in Proven!ToSet(Proven!S)
    BY <1>5, Assumed, Proven!AcceptedTables
  <2>3. Proven!SecureInv'
    <3>1. Proven!History({}, sessions', pending', replays', now', issued')
      BY DEF Proven!History
    <3> QED BY <1>1, <2>1, <3>1 DEF Proven!SecureInv
  <2>4. m # "confirm"
    BY <1>5 DEF Proven!Accepted, Proven!Acceptable
  <2>5. \A g \in Proven!ToSet(sessions') :
          \E f \in Proven!ToSet(Proven!S) : f.addr = g.addr /\ f.key = g.key
    BY <2>1, <2>2
  <2> QED BY <1>1, <2>1, <2>3, <2>4, <2>5, HomeStays
<1> QED BY <1>2, <1>3, <1>4, <1>5 DEF Proven!Data

\* What the server answers: a handshake under new keys, the confirmation when it
\* has put its keys to use.
LEMMA Replies ==
  ASSUME Proven!SecureInv, NEW m, Typed(m, now, attempts, issued),
         \/ m.type = "ClientHello" /\ Server!Hello(m.addr, m.hello)
         \/ m.type = "Data" /\ Server!Data(m.addr, m.key, m.what)
  PROVE  /\ Proven!SecureInv' /\ now' = now /\ issued' \in {issued, issued + 1}
         /\ \A b, key :
              /\ key \in 1 .. issued
              /\ m.type = "Data" /\ m.what = "confirm" => m.key <= key
              /\ Home(sessions, pending, b, key)
              => Home(sessions', pending', b, key)
         /\ \A r \in Reply(m) :
              /\ Typed(r, now, attempts, issued')
              /\ r.type = "ServerHello" => r.key = issued + 1
              /\ Used(r) =>
                   /\ m.type = "Data" /\ r.type = "Pong" /\ r.timestamp = now
                   /\ r.addr = m.addr /\ r.key = m.key /\ r.what = m.what
                   /\ r.what = "confirm" => Home(sessions', pending', r.addr, r.key)
<1>1. now \in Nat /\ issued \in Nat
  BY DEF Proven!SecureInv
<1>2. CASE m.type = "ClientHello" /\ Server!Hello(m.addr, m.hello)
  <2>1. m.addr \in Addrs /\ m.hello \in Hellos /\ m.hello[1] <= attempts
    BY <1>2 DEF Typed
  <2>2. Proven!Hello(m.addr, m.hello)
    BY <1>2, SameHello
  <2>3. /\ Proven!SecureInv' /\ now' = now /\ issued' \in {issued, issued + 1}
        /\ \A b, key : key \in 1 .. issued /\ Home(sessions, pending, b, key) =>
             Home(sessions', pending', b, key)
    BY <2>1, <2>2, HelloTaken
  <2>4. Reply(m) = {ServerHello(m.addr, m.hello, k) : k \in issued + 1 .. issued'}
    BY <1>2 DEF Reply
  <2>5. ASSUME NEW k \in issued + 1 .. issued'
        PROVE  LET r == ServerHello(m.addr, m.hello, k)
               IN  Typed(r, now, attempts, issued') /\ r.key = issued + 1 /\ ~Used(r)
    <3>1. k = issued + 1 /\ issued' = issued + 1 /\ k \in 1 .. issued'
      BY <1>1, <2>3
    <3>2. now \in 0 .. now
      BY <1>1
    <3> QED BY <2>1, <3>1, <3>2 DEF ServerHello, Typed, Used
  <2> QED BY <1>2, <2>3, <2>4, <2>5
<1>3. CASE m.type = "Data" /\ Server!Data(m.addr, m.key, m.what)
  <2>1. /\ m.addr \in Addrs /\ m.key \in 1 .. issued
        /\ m.what \in {"confirm"} \cup {Pings[i] : i \in DOMAIN Pings}
    BY <1>3 DEF Typed, Used
  <2>2. m.what \in Proven!Messages /\ Proven!Data(m.addr, m.key, m.what)
    BY <1>3, <2>1, SameData DEF Proven!Messages
  <2>3. /\ Proven!SecureInv' /\ now' = now /\ issued' = issued
        /\ m.what = "confirm" /\ Proven!ForPending(m.addr, m.key)
             => Home(sessions', pending', m.addr, m.key)
        /\ \A b, key :
             /\ key \in 1 .. issued /\ (m.what = "confirm" => m.key <= key)
             /\ Home(sessions, pending, b, key)
             => Home(sessions', pending', b, key)
    BY <2>2, DataTaken
  <2>4. ASSUME NEW r \in Reply(m)
        PROVE  \/ r = NoSession(m.addr)
               \/ /\ r = Pong(m.addr, m.key, m.what)
                  /\ m.what = "confirm" => Proven!ForPending(m.addr, m.key)
    BY <1>3, SameMatches DEF Reply, Proven!Acceptable
  <2>5. ASSUME NEW r \in Reply(m)
        PROVE  /\ Typed(r, now, attempts, issued')
               /\ r.type = "ServerHello" => r.key = issued + 1
               /\ Used(r) =>
                    /\ m.type = "Data" /\ r.type = "Pong" /\ r.timestamp = now
                    /\ r.addr = m.addr /\ r.key = m.key /\ r.what = m.what
                    /\ r.what = "confirm" => Home(sessions', pending', r.addr, r.key)
    <3>1. now \in 0 .. now
      BY <1>1
    <3>2. CASE r = NoSession(m.addr)
      BY <2>1, <3>1, <3>2 DEF NoSession, Typed, Used
    <3>3. CASE /\ r = Pong(m.addr, m.key, m.what)
               /\ m.what = "confirm" => Proven!ForPending(m.addr, m.key)
      <4>1. /\ r.type = "Pong" /\ r.timestamp = now
            /\ r.addr = m.addr /\ r.key = m.key /\ r.what = m.what
        BY <3>3 DEF Pong
      <4> QED BY <1>3, <2>1, <2>3, <3>1, <3>3, <4>1 DEF Typed, Used
    <3> QED BY <2>4, <3>2, <3>3
  <2> QED BY <1>3, <2>3, <2>5
<1> QED BY <1>2, <1>3

LEMMA LeftIsLess ==
  ASSUME NEW m
  PROVE  Left(m) \subseteq wire
BY DEF Left

\* A step of the server keeps the invariant.
LEMMA ServerTakesStep ==
  ASSUME LinkInv, ServerTakes
  PROVE  LinkInv'
<1> USE DEF LinkInv
<1>1. PICK m \in wire :
        /\ \/ m.type = "ClientHello" /\ Server!Hello(m.addr, m.hello)
           \/ m.type = "Data" /\ Server!Data(m.addr, m.key, m.what)
        /\ wire' = Left(m) \cup Reply(m)
  BY DEF ServerTakes
<1>2. client' = client /\ addr' = addr /\ attempts' = attempts
  BY DEF ServerTakes, clientVars
<1> DEFINE D == /\ Proven!SecureInv' /\ now' = now /\ issued' \in {issued, issued + 1}
                /\ \A b, key :
                     /\ key \in 1 .. issued
                     /\ m.type = "Data" /\ m.what = "confirm" => m.key <= key
                     /\ Home(sessions, pending, b, key)
                     => Home(sessions', pending', b, key)
<1>3. D /\ \A r \in Reply(m) :
              /\ Typed(r, now, attempts, issued')
              /\ r.type = "ServerHello" => r.key = issued + 1
              /\ Used(r) =>
                   /\ m.type = "Data" /\ r.type = "Pong" /\ r.timestamp = now
                   /\ r.addr = m.addr /\ r.key = m.key /\ r.what = m.what
                   /\ r.what = "confirm" => Home(sessions', pending', r.addr, r.key)
  BY <1>1, Replies
<1>4. now \in Nat /\ issued \in Nat
  BY DEF Proven!SecureInv
<1>5. \A u \in wire' : u \in wire \/ u \in Reply(m)
  BY <1>1, LeftIsLess
<1>6. ASSUME NEW u \in wire'
      PROVE  Typed(u, now, attempts, issued')
  <2>1. CASE u \in wire
    <3>1. Typed(u, now, attempts, issued)
      BY <2>1
    <3>2. 1 .. issued \subseteq 1 .. issued'
      BY <1>3, <1>4
    <3> QED BY <3>1, <3>2 DEF Typed
  <2> QED BY <1>3, <1>5, <2>1
<1>7. ClientInv(client, wire', sessions', pending', now, attempts, issued')
  <2>1. ASSUME client.phase = "hello"
        PROVE  Begun(wire', client.hello)
    <3>1. Begun(wire, client.hello)
      BY <2>1 DEF ClientInv
    <3>2. ASSUME NEW n \in wire', NEW u \in wire',
                 n.type = "ServerHello", n.hello = client.hello, Used(u)
          PROVE  u.key < n.key
      <4>1. PICK v \in wire : Used(v) /\ v.key = u.key
        BY <1>3, <1>5, <3>2 DEF Used
      <4>2. v.key \in 1 .. issued
        BY <4>1 DEF Typed, Used
      <4>3. CASE n \in wire
        BY <3>1, <3>2, <4>1, <4>3 DEF Begun
      <4>4. CASE n \in Reply(m)
        BY <1>3, <1>4, <3>2, <4>1, <4>2, <4>4
      <4> QED BY <1>5, <4>3, <4>4
    <3> QED BY <3>2 DEF Begun
  <2>2. ASSUME client.phase = "confirm"
        PROVE  Awaited(wire', sessions', pending', client.key, client.until)
    <3>1. /\ Awaited(wire, sessions, pending, client.key, client.until)
          /\ client.key \in 1 .. issued /\ client.until <= now + HandshakeTimeout
      BY <2>2 DEF ClientInv
    <3> DEFINE key == client.key
    <3>2. m.type = "Data" => m.key <= key /\ (m.key = key => m.what = "confirm")
      BY <3>1 DEF Awaited, Used
    <3>3. ASSUME NEW u \in wire', Used(u)
          PROVE  /\ u.key <= key
                 /\ u.key = key => u.what = "confirm"
                 /\ u.type = "Pong" /\ u.key = key =>
                      /\ client.until <= u.timestamp + HandshakeTimeout
                      /\ Home(sessions', pending', u.addr, key)
      <4>1. CASE u \in wire
        <5>1. /\ u.key <= key
              /\ u.key = key => u.what = "confirm"
              /\ u.type = "Pong" /\ u.key = key =>
                   /\ client.until <= u.timestamp + HandshakeTimeout
                   /\ Home(sessions, pending, u.addr, key)
          BY <3>1, <3>3, <4>1 DEF Awaited
        <5>2. Home(sessions, pending, u.addr, key) => Home(sessions', pending', u.addr, key)
          BY <1>3, <3>1, <3>2
        <5> QED BY <5>1, <5>2
      <4>2. CASE u \in Reply(m)
        <5>1. /\ m.type = "Data" /\ u.timestamp = now
              /\ u.addr = m.addr /\ u.key = m.key /\ u.what = m.what
              /\ u.what = "confirm" => Home(sessions', pending', u.addr, u.key)
          BY <1>3, <3>3, <4>2
        <5> QED BY <3>1, <3>2, <5>1
      <4> QED BY <1>5, <4>1, <4>2
    <3> QED BY <3>3 DEF Awaited
  <2>3. ASSUME client.phase = "forward"
        PROVE  InUse(wire', client) /\ Home(sessions', pending', client.home, client.key)
    <3>1. /\ InUse(wire, client) /\ Home(sessions, pending, client.home, client.key)
          /\ client.key \in 1 .. issued /\ client.pinged \in 0 .. now
      BY <2>3 DEF ClientInv, Timers
    <3> DEFINE key == client.key
    <3>2. m.type = "Data" =>
            /\ m.key <= key
            /\ m.key = key => m.what = "confirm" \/ \E i \in 1 .. client.next - 1 : m.what = Pings[i]
      BY <3>1 DEF InUse, Used
    <3>3. Home(sessions', pending', client.home, key)
      BY <1>3, <3>1, <3>2
    <3>4. ASSUME NEW u \in wire', Used(u)
          PROVE  /\ u.key <= key
                 /\ u.key = key => u.what = "confirm" \/ \E i \in 1 .. client.next - 1 : u.what = Pings[i]
                 /\ u.type = "Pong" /\ u.key = key /\ u.what = client.expected =>
                      client.pinged <= u.timestamp
      <4>1. CASE u \in wire
        BY <3>1, <3>4, <4>1 DEF InUse
      <4>2. CASE u \in Reply(m)
        <5>1. /\ m.type = "Data" /\ u.timestamp = now /\ u.key = m.key /\ u.what = m.what
          BY <1>3, <3>4, <4>2
        <5> QED BY <1>4, <3>1, <3>2, <5>1
      <4> QED BY <1>5, <4>1, <4>2
    <3> QED BY <3>3, <3>4 DEF InUse
  <2>4. 1 .. issued \subseteq 1 .. issued'
    BY <1>3, <1>4
  <2> QED BY <2>1, <2>2, <2>3, <2>4 DEF ClientInv
<1> QED BY <1>2, <1>3, <1>6, <1>7

-----------------------------------------------------------------------------
(* The client, its faults and the clock.                                   *)

\* Fewer datagrams leave the client as it is.
LEMMA FewerOnWire ==
  ASSUME NEW c, NEW w, NEW ss, NEW pp, NEW t, NEW n, NEW k, ClientInv(c, w, ss, pp, t, n, k),
         NEW v, v \subseteq w
  PROVE  ClientInv(c, v, ss, pp, t, n, k)
<1>1. c.phase = "hello" => Begun(v, c.hello)
  BY DEF ClientInv, Begun
<1>2. c.phase = "confirm" => Awaited(v, ss, pp, c.key, c.until)
  BY DEF ClientInv, Awaited
<1>3. c.phase = "forward" => InUse(v, c)
  BY DEF ClientInv, InUse
<1> QED BY <1>1, <1>2, <1>3 DEF ClientInv

\* What a step of the client has to keep.
LEMMA AfterClient ==
  ASSUME LinkInv, UNCHANGED <<now, serverVars, addr, attempts>>,
         \A m \in wire' : m \in wire \/ Typed(m, now, attempts, issued),
         ClientInv(client', wire', sessions, pending, now, attempts, issued)
  PROVE  LinkInv'
BY DEF LinkInv, serverVars, Proven!SecureInv

\* No session and no attempt.
LEMMA ClientIdle ==
  ASSUME LinkInv, Becomes(Idle) \/ Becomes(Delayed), wire' \subseteq wire
  PROVE  LinkInv'
<1>1. ClientInv(client', wire', sessions, pending, now, attempts, issued)
  BY DEF Becomes, Idle, Delayed, ClientInv
<1> QED BY <1>1, AfterClient DEF Becomes

LEMMA BeginStep ==
  ASSUME LinkInv, Begin
  PROVE  LinkInv'
<1> USE DEF LinkInv
<1> DEFINE h == <<attempts + 1, now>>
<1>1. /\ attempts < MaxAttempts /\ attempts' = attempts + 1
      /\ client' = [phase |-> "hello", hello |-> h, until |-> now + HandshakeTimeout]
      /\ wire' = wire \cup {ClientHello(h)}
      /\ UNCHANGED <<now, serverVars, addr>>
  BY DEF Begin
<1>2. now \in Nat /\ now <= MaxTime /\ attempts \in Nat /\ issued \in Nat
  BY DEF Proven!SecureInv
<1>3. MaxAttempts \in Nat /\ MaxTime \in Nat
  BY SecureLinkAssumption, ServerAssumption DEF SecureLinkAssumption, Server!SecureStateAssumption
<1>4. h \in Hellos /\ h[1] = attempts + 1 /\ now \in 0 .. now
  BY <1>1, <1>2, <1>3 DEF Hellos
<1> HIDE DEF h
<1>5. ASSUME NEW m \in wire'
      PROVE  /\ Typed(m, now, attempts + 1, issued)
             /\ m.type = "ServerHello" => m.hello # h
  <2>1. CASE m \in wire
    <3>1. Typed(m, now, attempts, issued)
      BY <2>1
    <3>2. m.type \in {"ClientHello", "ServerHello"} =>
            m.hello[1] <= attempts + 1 /\ m.hello # h
      <4>1. \A x \in Hellos : x[1] \in Nat
        BY DEF Hellos
      <4> QED BY <1>2, <1>4, <3>1, <4>1 DEF Typed
    <3> QED BY <3>1, <3>2 DEF Typed
  <2>2. CASE m = ClientHello(h)
    <3>1. m.type = "ClientHello" /\ m.addr = addr /\ m.hello = h /\ m.timestamp = now
      BY <2>2 DEF ClientHello
    <3> QED BY <1>2, <1>4, <3>1 DEF Typed, Used
  <2> QED BY <1>1, <2>1, <2>2
<1>6. Begun(wire', h)
  BY <1>5 DEF Begun
<1>7. client'.phase = "hello" /\ client'.hello = h
  BY <1>1
<1>8. ClientInv(client', wire', sessions, pending, now, attempts + 1, issued)
  BY <1>2, <1>4, <1>6, <1>7 DEF ClientInv
<1> QED BY <1>1, <1>2, <1>5, <1>8 DEF serverVars, Proven!SecureInv

\* The ServerHello of this attempt gives the newest keys.
LEMMA ConfirmingStep ==
  ASSUME LinkInv, NEW m \in wire, Confirming(m)
  PROVE  LinkInv'
<1> USE DEF LinkInv
<1> DEFINE d == Data(m.key, "confirm")
           until == now + HandshakeTimeout
<1>1. /\ client.phase = "hello" /\ m.type = "ServerHello" /\ m.hello = client.hello
      /\ client' = [phase |-> "confirm", key |-> m.key, until |-> until]
      /\ wire' = Left(m) \cup {d}
      /\ UNCHANGED <<now, serverVars, addr, attempts>>
  BY DEF Confirming, Answered, Becomes
<1>2. now \in Nat /\ issued \in Nat /\ HandshakeTimeout \in Nat
  BY SecureLinkAssumption DEF SecureLinkAssumption, Proven!SecureInv
<1>3. m.key \in 1 .. issued
  BY <1>1 DEF Typed
<1>4. /\ d.type = "Data" /\ d.addr = addr /\ d.key = m.key /\ d.what = "confirm"
      /\ d.timestamp = now
  BY DEF Data
<1> HIDE DEF d
<1>5. Typed(d, now, attempts, issued)
  BY <1>2, <1>3, <1>4 DEF Typed, Used
<1>6. \A u \in wire : Used(u) => u.key < m.key /\ u.key \in 1 .. issued
  <2>1. Begun(wire, client.hello)
    BY <1>1 DEF ClientInv
  <2>2. \A u \in wire : Used(u) => u.key \in 1 .. issued
    BY DEF Typed, Used
  <2> QED BY <1>1, <2>1, <2>2 DEF Begun
<1>7. Awaited(wire', sessions, pending, m.key, until)
  <2>1. ASSUME NEW u \in wire', Used(u)
        PROVE  u.key <= m.key /\ (u.key = m.key => u.what = "confirm" /\ u.type = "Data")
    <3>1. CASE u \in wire
      BY <1>2, <1>3, <1>6, <2>1, <3>1
    <3>2. CASE u = d
      BY <1>3, <1>4, <3>2
    <3> QED BY <1>1, <3>1, <3>2, LeftIsLess
  <2> QED BY <2>1 DEF Awaited
<1>8. client'.phase = "confirm" /\ client'.key = m.key /\ client'.until = until
  BY <1>1
<1>9. ClientInv(client', wire', sessions, pending, now, attempts, issued)
  BY <1>2, <1>3, <1>7, <1>8 DEF ClientInv
<1> QED BY <1>1, <1>5, <1>9, LeftIsLess, AfterClient

\* The client and the server use the same keys.
LEMMA ConnectedStep ==
  ASSUME LinkInv, NEW m \in wire, Connected(m), m.addr = addr
  PROVE  LinkInv'
<1> USE DEF LinkInv
<1> DEFINE c == [phase |-> "forward", key |-> client.key, started |-> now, peer |-> now,
                 pinged |-> now, expected |-> Nothing, next |-> 1,
                 home |-> addr, answered |-> m.timestamp]
<1>1. /\ client.phase = "confirm" /\ m.type = "Pong" /\ m.key = client.key /\ m.what = "confirm"
      /\ client' = c /\ wire' = Left(m)
      /\ UNCHANGED <<now, serverVars, addr, attempts>>
  BY DEF Connected, Confirmed, Authenticates, Becomes
<1>2. /\ now \in Nat /\ issued \in Nat /\ {HandshakeTimeout, PeerTimeout, Keepalive} \subseteq Nat
      /\ Len(Pings) \in Nat
  BY SecureLinkAssumption, LenProperties DEF SecureLinkAssumption, Proven!SecureInv
<1>3. /\ client.key \in 1 .. issued /\ client.until \in Nat /\ now <= client.until
      /\ Awaited(wire, sessions, pending, client.key, client.until)
  BY <1>1 DEF ClientInv
<1>4. /\ client.until <= m.timestamp + HandshakeTimeout /\ m.timestamp \in 0 .. now
      /\ Home(sessions, pending, addr, client.key)
  BY <1>1, <1>3 DEF Awaited, Used, Typed
<1>5. now - m.timestamp <= Greater(Keepalive, HandshakeTimeout)
  BY <1>2, <1>3, <1>4 DEF Greater
<1>6. /\ c.phase = "forward" /\ c.key = client.key /\ c.peer = now /\ c.pinged = now
      /\ c.expected = "nothing" /\ c.next = 1 /\ c.home = addr /\ c.answered = m.timestamp
  BY DEF Nothing
<1>7. c \in Forwarding
  BY <1>2, <1>3, <1>4 DEF Forwarding, Expectations
<1> HIDE DEF c
<1>8. Timers(c, now)
  BY <1>2, <1>4, <1>5, <1>6 DEF Timers
<1>9. InUse(wire, c)
  BY <1>3, <1>6 DEF Awaited, InUse
<1>10. ClientInv(c, wire, sessions, pending, now, attempts, issued)
  BY <1>3, <1>4, <1>6, <1>7, <1>8, <1>9 DEF ClientInv
<1>11. ClientInv(client', wire', sessions, pending, now, attempts, issued)
  BY <1>1, <1>10, LeftIsLess, FewerOnWire
<1> QED BY <1>1, <1>11, LeftIsLess, AfterClient

\* The names of pings.
LEMMA PingsDiffer ==
  /\ Len(Pings) \in Nat /\ DOMAIN Pings = 1 .. Len(Pings)
  /\ \A i, j \in 1 .. Len(Pings) : Pings[i] = Pings[j] => i = j
  /\ \A i \in 1 .. Len(Pings) : Pings[i] # "nothing" /\ Pings[i] # "confirm"
<1>1. Len(Pings) \in Nat /\ DOMAIN Pings = 1 .. Len(Pings)
  BY SecureLinkAssumption, LenProperties DEF SecureLinkAssumption
<1> QED BY <1>1, SecureLinkAssumption, ServerAssumption
        DEF SecureLinkAssumption, Server!SecureStateAssumption

\* A pong to the last ping; another one is not expected.
LEMMA KeptAliveStep ==
  ASSUME LinkInv, NEW m \in wire, KeptAlive(m)
  PROVE  LinkInv'
<1> USE DEF LinkInv
<1> DEFINE c == [client EXCEPT !.peer = now, !.expected = Nothing, !.answered = m.timestamp]
<1>1. /\ client.phase = "forward" /\ m.type = "Pong" /\ m.key = client.key
      /\ m.what = client.expected /\ client' = c /\ wire' = Left(m)
      /\ UNCHANGED <<now, serverVars, addr, attempts>>
  BY DEF KeptAlive, Ponged, Authenticates, Becomes
<1>2. /\ now \in Nat /\ issued \in Nat /\ {HandshakeTimeout, PeerTimeout, Keepalive} \subseteq Nat
  BY SecureLinkAssumption DEF SecureLinkAssumption, Proven!SecureInv
<1>3. /\ client \in Forwarding /\ client.key \in 1 .. issued
      /\ Timers(client, now) /\ InUse(wire, client)
      /\ Home(sessions, pending, client.home, client.key)
  BY <1>1 DEF ClientInv
<1>4. client.pinged <= m.timestamp /\ m.timestamp \in 0 .. now
  BY <1>1, <1>3 DEF InUse, Used, Typed
<1>5. now - m.timestamp <= Greater(Keepalive, HandshakeTimeout)
  <2>1. /\ client.pinged \in 0 .. now /\ now - client.pinged <= Keepalive
    BY <1>3 DEF Timers
  <2>2. Greater(Keepalive, HandshakeTimeout) \in Nat
        /\ Keepalive <= Greater(Keepalive, HandshakeTimeout)
    BY ONLY <1>2 DEF Greater
  <2> DEFINE limit == Greater(Keepalive, HandshakeTimeout)
             stamp == m.timestamp
             pinged == client.pinged
  <2> SUFFICES now - stamp <= limit
    OBVIOUS
  <2>3. /\ {now, stamp, pinged, limit, Keepalive} \subseteq Nat
        /\ pinged <= stamp /\ now - pinged <= Keepalive /\ Keepalive <= limit
    BY <1>2, <1>4, <2>1, <2>2
  <2> HIDE DEF limit, stamp, pinged
  <2> QED BY ONLY <2>3
<1>6. /\ c.phase = "forward" /\ c.key = client.key /\ c.peer = now /\ c.pinged = client.pinged
      /\ c.expected = "nothing" /\ c.next = client.next /\ c.home = client.home
      /\ c.answered = m.timestamp /\ c \in Forwarding
  <2>1. m.timestamp \in Nat /\ Nothing \in Expectations
    BY <1>4 DEF Expectations
  <2> QED BY ONLY <1>2, <1>3, <2>1 DEF Forwarding, Nothing
<1> HIDE DEF c
<1>7. Timers(c, now)
  BY <1>2, <1>3, <1>4, <1>5, <1>6 DEF Timers
<1>8. InUse(wire, c)
  <2>1. \A i \in 1 .. c.next - 1 : Pings[i] # "nothing"
    BY <1>3, <1>6, PingsDiffer DEF Timers
  <2> QED BY <1>3, <1>6, <2>1 DEF InUse
<1>9. ClientInv(c, wire, sessions, pending, now, attempts, issued)
  BY <1>3, <1>6, <1>7, <1>8 DEF ClientInv
<1>10. ClientInv(client', wire', sessions, pending, now, attempts, issued)
  BY <1>1, <1>9, LeftIsLess, FewerOnWire
<1> QED BY <1>1, <1>10, LeftIsLess, AfterClient

\* A new ping, which nothing on the wire answers yet.
LEMMA PingStep ==
  ASSUME LinkInv, Ping
  PROVE  LinkInv'
<1> USE DEF LinkInv
<1> DEFINE p == Pings[client.next]
           c == [client EXCEPT !.pinged = now, !.next = @ + 1, !.expected = p]
           d == Data(client.key, p)
<1>1. /\ client.phase = "forward" /\ client.next <= Len(Pings)
      /\ client' = c /\ wire' = wire \cup {d}
      /\ UNCHANGED <<now, serverVars, addr, attempts>>
  BY DEF Ping, Becomes
<1>2. now \in Nat /\ issued \in Nat /\ Keepalive \in Nat
  BY SecureLinkAssumption DEF SecureLinkAssumption, Proven!SecureInv
<1>3. /\ client \in Forwarding /\ client.key \in 1 .. issued
      /\ Timers(client, now) /\ InUse(wire, client)
      /\ Home(sessions, pending, client.home, client.key)
  BY <1>1 DEF ClientInv
<1>4. /\ client.next \in 1 .. Len(Pings) /\ client.next \in Nat
      /\ p \in {Pings[i] : i \in DOMAIN Pings}
  BY <1>1, <1>3, PingsDiffer DEF Timers
<1>5. /\ c.phase = "forward" /\ c.key = client.key /\ c.peer = client.peer /\ c.pinged = now
      /\ c.expected = p /\ c.next = client.next + 1 /\ c.home = client.home
      /\ c.answered = client.answered /\ c \in Forwarding
  <2> DEFINE next == client.next + 1
  <2>1. p \in Expectations /\ next \in Nat /\ now \in Nat /\ client \in Forwarding
    BY <1>2, <1>3, <1>4 DEF Expectations
  <2>2. c = [client EXCEPT !.pinged = now, !.next = next, !.expected = p]
    OBVIOUS
  <2> HIDE DEF p, next, c
  <2>3. /\ c.phase = "forward" /\ c.key = client.key /\ c.peer = client.peer /\ c.pinged = now
        /\ c.expected = p /\ c.next = next /\ c.home = client.home
        /\ c.answered = client.answered
    BY ONLY <2>1, <2>2 DEF Forwarding
  <2>4. c \in Forwarding
    BY ONLY <2>1, <2>2 DEF Forwarding
  <2> QED BY <2>3, <2>4 DEF next
<1>6. /\ d.type = "Data" /\ d.addr = addr /\ d.key = client.key /\ d.what = p
      /\ d.timestamp = now
  BY DEF Data
<1>7. p # "confirm" /\ \A i \in 1 .. client.next - 1 : Pings[i] # p
  BY <1>4, PingsDiffer
<1> HIDE DEF c, d
<1>8. Typed(d, now, attempts, issued)
  BY <1>2, <1>3, <1>4, <1>6 DEF Typed, Used
<1>9. Timers(c, now)
  BY <1>2, <1>3, <1>4, <1>5, PingsDiffer DEF Timers
<1>10. InUse(wire', c)
  <2>1. ASSUME NEW u \in wire', Used(u)
        PROVE  /\ u.key <= c.key
               /\ u.key = c.key => u.what = "confirm" \/ \E i \in 1 .. c.next - 1 : u.what = Pings[i]
               /\ u.type = "Pong" /\ u.key = c.key => u.what # c.expected
    <3>1. CASE u \in wire
      <4>1. /\ u.key <= client.key
            /\ u.key = client.key =>
                 u.what = "confirm" \/ \E i \in 1 .. client.next - 1 : u.what = Pings[i]
        BY <1>3, <2>1, <3>1 DEF InUse
      <4>2. 1 .. client.next - 1 \subseteq 1 .. c.next - 1
        BY <1>4, <1>5
      <4> QED BY <1>5, <1>7, <4>1, <4>2
    <3>2. CASE u = d
      <4>1. client.next \in 1 .. c.next - 1 /\ u.key = c.key /\ u.key <= c.key
        BY <1>2, <1>3, <1>4, <1>5, <1>6, <3>2
      <4> QED BY <1>6, <3>2, <4>1
    <3> QED BY <1>1, <3>1, <3>2
  <2> QED BY <2>1 DEF InUse
<1>11. ClientInv(client', wire', sessions, pending, now, attempts, issued)
  BY <1>1, <1>3, <1>5, <1>9, <1>10 DEF ClientInv
<1> QED BY <1>1, <1>8, <1>11, AfterClient

\* Whatever else the client does with a datagram, or when a timer is due.
LEMMA ClientTakesStep ==
  ASSUME LinkInv, ClientTakes
  PROVE  LinkInv'
<1>1. PICK m \in wire :
        m.addr = addr /\ (Confirming(m) \/ Connected(m) \/ KeptAlive(m) \/ GivesUp(m) \/ Drops(m))
  BY DEF ClientTakes
<1>2. CASE GivesUp(m)
  BY <1>2, LeftIsLess, ClientIdle DEF GivesUp
<1>3. CASE Drops(m)
  <2>1. /\ client' = client /\ wire' \subseteq wire
        /\ UNCHANGED <<now, serverVars, addr, attempts>>
    BY <1>3, LeftIsLess DEF Drops, Becomes
  <2>2. ClientInv(client', wire', sessions, pending, now, attempts, issued)
    BY <2>1, FewerOnWire DEF LinkInv
  <2> QED BY <2>1, <2>2, AfterClient
<1> QED BY <1>1, <1>2, <1>3, ConfirmingStep, ConnectedStep, KeptAliveStep

LEMMA ClientActsStep ==
  ASSUME LinkInv, ClientActs
  PROVE  LinkInv'
<1>1. CASE TimesOut
  BY <1>1, ClientIdle DEF TimesOut
<1>2. CASE Wakes
  BY <1>2, ClientIdle DEF Wakes
<1>3. CASE Expires
  BY <1>3, ClientIdle DEF Expires
<1> QED BY <1>1, <1>2, <1>3, BeginStep, PingStep DEF ClientActs

LEMMA FaultStep ==
  ASSUME LinkInv, SocketError \/ ClientRestarts \/ Rebind \/ ServerRestarts \/ CalmsDown
  PROVE  LinkInv'
<1>1. CASE SocketError
  <2>1. /\ client' = Delayed /\ wire' = wire
        /\ UNCHANGED <<now, serverVars, addr, attempts>>
    BY <1>1 DEF SocketError
  <2>2. ClientInv(client', wire', sessions, pending, now, attempts, issued)
    BY <2>1 DEF Delayed, ClientInv
  <2> QED BY <2>1, <2>2, AfterClient
<1>2. CASE ClientRestarts
  <2>1. /\ client' = Idle /\ wire' = wire
        /\ UNCHANGED <<now, serverVars, addr, attempts>>
    BY <1>2 DEF ClientRestarts
  <2>2. ClientInv(client', wire', sessions, pending, now, attempts, issued)
    BY <2>1 DEF Idle, ClientInv
  <2> QED BY <2>1, <2>2, AfterClient
<1>3. CASE Rebind
  BY <1>3 DEF Rebind, LinkInv, serverVars, Proven!SecureInv
<1>4. CASE ServerRestarts
  <2>1. /\ sessions' = <<>> /\ pending' = <<>> /\ replays' = <<>> /\ currentNonces' = 0
        /\ net' = [sessions |-> 0, pending |-> 0]
        /\ UNCHANGED <<now, issued, client, addr, attempts, wire>>
    BY <1>4 DEF ServerRestarts, clientVars
  <2>2. Proven!SecureInv'
    BY <2>1, Assumed, Proven!RestartStep DEF LinkInv
  <2>3. \A a, key : Home(<<>>, <<>>, a, key)
    BY DEF Home, Proven!ToSet
  <2>4. ClientInv(client, wire, <<>>, <<>>, now, attempts, issued)
    <3>1. ASSUME client.phase = "confirm"
          PROVE  Awaited(wire, <<>>, <<>>, client.key, client.until)
      <4>1. Awaited(wire, sessions, pending, client.key, client.until)
        BY <3>1 DEF LinkInv, ClientInv
      <4> QED BY <4>1, <2>3 DEF Awaited
    <3> QED BY <2>3, <3>1 DEF LinkInv, ClientInv
  <2> QED BY <2>1, <2>2, <2>4 DEF LinkInv
<1>5. CASE CalmsDown
  <2>1. wire' = {} /\ UNCHANGED <<now, serverVars, client, addr, attempts>>
    BY <1>5 DEF CalmsDown, clientVars
  <2>2. ClientInv(client', wire', sessions, pending, now, attempts, issued)
    BY <2>1, FewerOnWire DEF LinkInv
  <2> QED BY <2>1, <2>2, AfterClient
<1> QED BY <1>1, <1>2, <1>3, <1>4, <1>5

\* The clock moves while no timer of the client is due.
LEMMA TickStep ==
  ASSUME LinkInv, Tick
  PROVE  LinkInv'
<1> USE DEF LinkInv
<1> DEFINE u == now + 1
<1>1. /\ Settled /\ now < MaxTime /\ now' = u /\ wire' \subseteq wire
      /\ UNCHANGED <<sessions, pending, replays, issued, currentNonces, net>>
      /\ UNCHANGED <<client, addr, attempts>>
  BY DEF Tick, Server!Tick, clientVars
<1>2. /\ now \in Nat /\ issued \in Nat /\ MaxTime \in Nat
      /\ {HandshakeTimeout, PeerTimeout, Keepalive} \subseteq Nat
  BY SecureLinkAssumption, ServerAssumption
     DEF SecureLinkAssumption, Server!SecureStateAssumption, Proven!SecureInv
<1>3. Proven!SecureInv'
  <2>1. Proven!Tick /\ {} = {r \in {} : ~Proven!Forgotten(r)}
    BY SameTick DEF Tick
  <2> QED BY <2>1, Assumed, Proven!TickStep
<1>4. u \in Nat /\ u <= MaxTime /\ 0 .. now \subseteq 0 .. u
  BY <1>1, <1>2
<1>5. \A m \in wire' : Typed(m, u, attempts, issued)
  BY <1>1, <1>4 DEF Typed
<1>6. ClientInv(client, wire, sessions, pending, now, attempts, issued)
  OBVIOUS
<1>7. ClientInv(client, wire, sessions, pending, u, attempts, issued)
  <2>1. ASSUME client.phase = "confirm"
        PROVE  u <= client.until /\ client.until <= u + HandshakeTimeout
    <3>1. now < client.until
      BY <1>1, <2>1 DEF Settled
    <3> QED BY <1>2, <1>6, <2>1, <3>1 DEF ClientInv
  <2>2. ASSUME client.phase = "forward"
        PROVE  Timers(client, u)
    <3>1. Timers(client, now)
      BY <1>6, <2>2 DEF ClientInv
    <3>2. ~(now - client.peer >= PeerTimeout) /\ ~(now - client.pinged >= Keepalive)
      BY <1>1, <2>2 DEF Settled, PeerSilent, PingDue
    <3>3. /\ client.peer \in 0 .. now /\ client.pinged \in 0 .. now
          /\ client.answered \in 0 .. now
          /\ client.peer - client.answered <= Greater(Keepalive, HandshakeTimeout)
          /\ client.next \in 1 .. Len(Pings) + 1
      BY ONLY <3>1 DEF Timers
    <3>4. u - client.peer <= PeerTimeout /\ u - client.pinged <= Keepalive
      <4> DEFINE peer == client.peer
                 pinged == client.pinged
      <4>1. /\ {now, PeerTimeout, Keepalive, peer, pinged} \subseteq Nat
            /\ ~(now - peer >= PeerTimeout) /\ ~(now - pinged >= Keepalive)
        BY <1>2, <3>2, <3>3
      <4> HIDE DEF peer, pinged
      <4>2. u - peer <= PeerTimeout /\ u - pinged <= Keepalive
        BY ONLY <4>1 DEF u
      <4> QED BY <4>2 DEF peer, pinged
    <3>5. client.peer \in 0 .. u /\ client.pinged \in 0 .. u /\ client.answered \in 0 .. u
      BY ONLY <1>4, <3>3
    <3> HIDE DEF u
    <3> QED BY ONLY <3>3, <3>4, <3>5 DEF Timers
  <2> HIDE DEF u
  <2> QED BY <1>6, <2>1, <2>2 DEF ClientInv
<1>8. ClientInv(client, wire', sessions, pending, u, attempts, issued)
  BY <1>1, <1>7, FewerOnWire
<1> QED BY <1>1, <1>3, <1>4, <1>5, <1>8

LEMMA LinkAlways == Spec => []LinkInv
<1>1. Init => LinkInv
  <2> SUFFICES ASSUME Init PROVE LinkInv
    OBVIOUS
  <2>1. Proven!Init /\ now = 0 /\ issued = 0
    BY SameTick DEF Init, Proven!Init
  <2>2. Proven!SecureInv
    BY <2>1, Assumed, Proven!InitSecure
  <2>3. 0 <= MaxTime
    BY ServerAssumption DEF Server!SecureStateAssumption
  <2>4. ClientInv(client, wire, sessions, pending, now, attempts, issued)
    BY DEF Init, Idle, ClientInv
  <2> QED BY <2>1, <2>2, <2>3, <2>4 DEF Init, LinkInv
<1>2. LinkInv /\ [Next]_vars => LinkInv'
  <2>1. ASSUME LinkInv, UNCHANGED vars
        PROVE  LinkInv'
    <3>1. UNCHANGED <<now, serverVars, client, addr, attempts, wire>>
      BY <2>1 DEF vars, clientVars
    <3> QED BY <2>1, <3>1, AfterClient DEF LinkInv
  <2> QED BY <2>1, ServerTakesStep, ClientTakesStep, ClientActsStep, FaultStep, TickStep DEF Next
<1> QED BY <1>1, <1>2, PTL DEF Spec

-----------------------------------------------------------------------------
(* Results.                                                                *)

\* forward_loop of src/nmea_sproxy/nmea_sproxy.py and promote_pending_session of
\* src/aismixer_secure.py: while the client forwards, the server has no session
\* under other keys where the client's were confirmed, whatever handshakes,
\* confirmations and pongs come late or again.
THEOREM SessionsAgree == Spec => []KeysAgree
<1>1. LinkInv => KeysAgree
  BY DEF LinkInv, ClientInv, Home, KeysAgree, Server!ToSet, Proven!ToSet
<1> QED BY <1>1, LinkAlways, PTL

\* session_expiration_reason and handle_server_packet of
\* src/nmea_sproxy/nmea_sproxy.py: a session whose pongs no longer come from its
\* server is left within the peer timeout and the time one pong may take.
THEOREM DeadOnesAreLeft == Spec => []DeadSessionsAreLeft
<1>1. ASSUME LinkInv
      PROVE  DeadSessionsAreLeft
  <2> SUFFICES ASSUME client.phase = "forward"
               PROVE  now - client.answered <= PeerTimeout + Greater(Keepalive, HandshakeTimeout)
    BY DEF DeadSessionsAreLeft
  <2>1. Timers(client, now)
    BY <1>1 DEF LinkInv, ClientInv
  <2>2. now \in Nat /\ PeerTimeout \in Nat /\ Greater(Keepalive, HandshakeTimeout) \in Nat
    BY <1>1, SecureLinkAssumption
       DEF LinkInv, Proven!SecureInv, SecureLinkAssumption, Greater
  <2> QED BY <2>1, <2>2 DEF Timers
<1> QED BY <1>1, LinkAlways, PTL

-----------------------------------------------------------------------------
(* A calm network.                                                         *)

Said(n) == {"confirm"} \cup {Pings[i] : i \in 1 .. n}

\* Of the messages under the given keys sessions ss hold those named at most.
Holding(ss, key, what) ==
  \A s \in Proven!ToSet(ss) : s.key = key => Proven!Keys(s.nonces) \subseteq what

\* What is held against repetition was sent, and what is pending is newer than the
\* session it will replace.
PastTables ==
  /\ \A h \in Proven!Keys(replays) : h[1] <= attempts
  /\ \A p \in Proven!ToSet(pending) :
       /\ p.nonces = <<>>
       /\ \A s \in Proven!ToSet(sessions) : s.addr = p.addr => s.key < p.key

\* No timer is overdue, and the keys in use have been used for what was said.
PastClient ==
  CASE client.phase = "idle" -> TRUE
    [] client.phase = "delay" -> client.until \in now .. now + ReconnectDelay
    [] client.phase = "hello" ->
         /\ client.until \in now .. now + HandshakeTimeout
         /\ \A m \in wire, s \in Proven!ToSet(sessions) :
              m.type = "ServerHello" /\ m.hello = client.hello => s.key # m.key
    [] client.phase = "confirm" -> Holding(sessions, client.key, Said(0))
    [] client.phase = "forward" -> Holding(sessions, client.key, Said(client.next - 1))
    [] OTHER -> FALSE

PastInv == PastTables /\ PastClient

\* By then every wait of the time before is over.
Overdue == calm + Greater(PeerTimeout, HandshakeTimeout)

\* The session, or the pending one, of the client's address has the given keys
\* and was used then or later.
InSession(key, then) ==
  \E s \in Proven!ToSet(sessions) : s.addr = addr /\ s.key = key /\ then <= s.since

InPending(key) ==
  \E p \in Proven!ToSet(pending) : p.addr = addr /\ p.key = key /\ now <= p.since

\* A datagram of the client meets a session of some keys.
Met ==
  \/ \E s \in Proven!ToSet(sessions) : s.addr = addr /\ now - s.since < SessionTtl
  \/ \E p \in Proven!ToSet(pending) : p.addr = addr /\ now - p.since < PendingTtl

\* A wait from before, for what will not come.
Lost == client.until <= calm + HandshakeTimeout /\ wire = {}

OnWire(type, key, what) ==
  \E m \in wire : m.type = type /\ m.key = key /\ m.what = what

\* A handshake that will be answered, or is.
HelloSent ==
  /\ ClientHello(client.hello) \in wire
  /\ client.hello[2] = now /\ client.hello \notin Proven!Keys(replays)
  /\ ~\E m \in wire : m.type = "ServerHello" /\ m.hello = client.hello

HelloAnswered ==
  /\ ~\E m \in wire : m.type = "ClientHello"
  /\ \E m \in wire : m.type = "ServerHello" /\ m.hello = client.hello
  /\ \A m \in wire : m.type = "ServerHello" /\ m.hello = client.hello => InPending(m.key)

\* Whoever answers under these keys has a session of them.
Vouched(key) ==
  \A m \in wire : m.type = "Pong" /\ m.key = key => InSession(key, now)

\* A confirmation that will be answered, or is.
ConfirmSent ==
  \/ OnWire("Data", client.key, "confirm") /\ InPending(client.key)
  \/ OnWire("Pong", client.key, "confirm")

\* The server has the session too, and the ping, if one was sent, is about to be
\* answered.
Recovered ==
  \/ InSession(client.key, client.pinged) /\ client.pinged <= client.peer
  \/ /\ now - client.peer <= Keepalive
     /\ client.expected # Nothing
     /\ \/ /\ OnWire("Data", client.key, client.expected) /\ client.pinged = now
           /\ InSession(client.key, now - Keepalive)
           /\ Holding(sessions, client.key, Said(Len(Pings)) \ {client.expected})
        \/ OnWire("Pong", client.key, client.expected)

\* A datagram of now, and of the client as it is; when all the waits are over the
\* server knows the client, and no longer says that it does not.
Current(m) ==
  /\ m.addr = addr /\ m.timestamp = now
  /\ m.type = "ClientHello" => client.phase = "hello" /\ m = ClientHello(client.hello)
  /\ Overdue < now => m.type # "NoSession" /\ (m.type = "Data" => Met)

CalmDelay ==
  /\ client.until <= Overdue + ReconnectDelay
  /\ wire = {} \/ now < client.until

CalmHello == Lost \/ (now < client.until /\ (HelloSent \/ HelloAnswered))

CalmConfirm == Lost \/ (now < client.until /\ ConfirmSent /\ Vouched(client.key))

CalmForward == (client.peer <= calm \/ Recovered) /\ Vouched(client.key)

CalmInv ==
  /\ calm \in 0 .. now
  /\ \A m \in wire : Current(m)
  /\ client.phase = "delay" => CalmDelay
  /\ client.phase = "hello" => CalmHello
  /\ client.phase = "confirm" => CalmConfirm
  /\ client.phase = "forward" => CalmForward

RecoveryInv == PastInv /\ (calm # Never => CalmInv)

\* The timers, and what they are compared with.
LEMMA Times ==
  ASSUME LinkInv
  PROVE  /\ now \in Nat /\ issued \in Nat /\ attempts \in Nat
         /\ {HandshakeTimeout, ReconnectDelay, Keepalive, PeerTimeout} \subseteq Nat \ {0}
         /\ SessionTtl \in Nat /\ PendingTtl \in Nat /\ Keepalive < SessionTtl /\ 0 < PendingTtl
         /\ Greater(PeerTimeout, HandshakeTimeout) \in Nat
         /\ PeerTimeout <= Greater(PeerTimeout, HandshakeTimeout)
         /\ HandshakeTimeout <= Greater(PeerTimeout, HandshakeTimeout)
<1>1. /\ {HandshakeTimeout, ReconnectDelay, Keepalive, PeerTimeout} \subseteq Nat \ {0}
      /\ Keepalive < SessionTtl
  BY SecureLinkAssumption DEF SecureLinkAssumption
<1>2. SessionTtl \in Nat /\ PendingTtl \in Nat /\ 0 < PendingTtl
  <2>1. SessionTtl \in Nat \ {0} /\ PendingTtl \in Nat \ {0}
    BY Assumed DEF Proven!SecureStateAssumption
  <2> QED BY <2>1
<1>3. /\ Greater(PeerTimeout, HandshakeTimeout) \in Nat
      /\ PeerTimeout <= Greater(PeerTimeout, HandshakeTimeout)
      /\ HandshakeTimeout <= Greater(PeerTimeout, HandshakeTimeout)
  BY <1>1 DEF Greater
<1> QED BY <1>1, <1>2, <1>3 DEF LinkInv, Proven!SecureInv

-----------------------------------------------------------------------------
(* The server takes a datagram.                                            *)

\* A handshake, with what answers it.
LEMMA HelloServed ==
  ASSUME LinkInv, NEW m \in wire, m.type = "ClientHello", Server!Hello(m.addr, m.hello)
  PROVE  /\ m.hello[1] <= attempts
         /\ sessions' = Proven!S /\ now' = now
         /\ Proven!Keys(replays') \subseteq Proven!Keys(replays) \cup {m.hello}
         /\ \/ /\ pending' = Proven!P /\ issued' = issued
               /\ ~Proven!Timely(m.hello) \/ m.hello \in Proven!Keys(replays)
            \/ /\ issued' = issued + 1
               /\ Proven!NewEntry(m.addr) \in Proven!ToSet(pending')
               /\ \A f \in Proven!ToSet(pending') :
                    f = Proven!NewEntry(m.addr) \/ (f \in Proven!ToSet(Proven!P) /\ f.addr # m.addr)
         /\ \A r \in Reply(m) :
              /\ r.type = "ServerHello" /\ r.addr = m.addr /\ r.timestamp = now
              /\ r.hello = m.hello /\ r.key = issued + 1 /\ issued' = issued + 1
         /\ issued' = issued + 1 => Reply(m) # {}
<1>1. /\ m.addr \in Addrs /\ m.hello \in Hellos /\ m.hello[1] <= attempts
      /\ Proven!SecureInv /\ issued \in Nat
  BY DEF LinkInv, Typed, Proven!SecureInv
<1>2. Proven!Hello(m.addr, m.hello)
  BY SameHello
<1>3. /\ sessions' = Proven!S /\ now' = now
      /\ Proven!Keys(replays') \subseteq Proven!Keys(replays) \cup {m.hello}
      /\ \/ /\ pending' = Proven!P /\ issued' = issued
            /\ ~Proven!Timely(m.hello) \/ m.hello \in Proven!Keys(replays)
         \/ /\ issued' = issued + 1
            /\ Proven!NewEntry(m.addr) \in Proven!ToSet(pending')
            /\ \A f \in Proven!ToSet(pending') :
                 f = Proven!NewEntry(m.addr) \/ (f \in Proven!ToSet(Proven!P) /\ f.addr # m.addr)
  BY <1>1, <1>2, Assumed, Proven!HelloEffect
<1>4. Reply(m) = {ServerHello(m.addr, m.hello, k) : k \in issued + 1 .. issued'}
  BY DEF Reply
<1>5. \A k \in issued + 1 .. issued' : k = issued + 1 /\ issued' = issued + 1
  BY <1>1, <1>3
<1>6. issued' = issued + 1 => issued + 1 \in issued + 1 .. issued'
  BY <1>1
<1>7. \A r \in Reply(m) :
        /\ r.type = "ServerHello" /\ r.addr = m.addr /\ r.timestamp = now
        /\ r.hello = m.hello /\ r.key = issued + 1 /\ issued' = issued + 1
  BY <1>4, <1>5 DEF ServerHello
<1>8. issued' = issued + 1 => Reply(m) # {}
  BY <1>4, <1>6
<1> QED BY <1>1, <1>3, <1>7, <1>8

\* A message, with what answers it.
LEMMA DataServed ==
  ASSUME LinkInv, NEW m \in wire, m.type = "Data", Server!Data(m.addr, m.key, m.what)
  PROVE  /\ now' = now /\ issued' = issued /\ replays' = replays
         /\ Proven!ToSet(pending') \subseteq Proven!ToSet(Proven!P)
         /\ \A p \in Proven!ToSet(Proven!P) :
              \/ p \in Proven!ToSet(pending')
              \/ Proven!Confirms(m.addr, m.key, m.what) /\ p.addr = m.addr /\ p.key = m.key
         /\ Proven!Descend(m.addr, m.key, m.what)
         /\ Proven!Confirms(m.addr, m.key, m.what) \/ Proven!Stays(m.addr)
         /\ \/ Proven!Confirms(m.addr, m.key, m.what)
            \/ Proven!Acceptable(m.addr, m.key, m.what)
            => /\ Proven!Heard(m.addr, m.key)
               /\ \E r \in Reply(m) : r.type = "Pong" /\ r.key = m.key /\ r.what = m.what
         /\ \A r \in Reply(m) :
              /\ r.addr = m.addr /\ r.timestamp = now
              /\ \/ /\ r.type = "NoSession"
                    /\ ~Proven!Has(Proven!P, m.addr) /\ ~Proven!Has(Proven!S, m.addr)
                 \/ /\ r.type = "Pong" /\ r.key = m.key /\ r.what = m.what
                    /\ Proven!Heard(m.addr, m.key)
<1> DEFINE a == m.addr
           k == m.key
           what == m.what
<1>1. what \in Proven!Messages /\ Proven!SecureInv
  BY DEF LinkInv, Typed, Used, Proven!Messages
<1>2. Proven!Data(a, k, what)
  BY SameData
<1>3. /\ now' = now /\ issued' = issued /\ replays' = replays
      /\ Proven!ToSet(pending') \subseteq Proven!ToSet(Proven!P)
      /\ \A p \in Proven!ToSet(Proven!P) :
           p \in Proven!ToSet(pending') \/ (Proven!Confirms(a, k, what) /\ p.addr = a /\ p.key = k)
      /\ Proven!Descend(a, k, what)
      /\ Proven!Confirms(a, k, what) \/ Proven!Stays(a)
      /\ Proven!Confirms(a, k, what) \/ Proven!Acceptable(a, k, what) => Proven!Heard(a, k)
  BY <1>1, <1>2, Assumed, Proven!DataEffect
<1>4. /\ Server!Has(Server!P, a) <=> Proven!Has(Proven!P, a)
      /\ Server!Has(Server!S, a) <=> Proven!Has(Proven!S, a)
      /\ Server!ForPending(a, k) <=> Proven!ForPending(a, k)
      /\ Server!Acceptable(a, k, what) <=> Proven!Acceptable(a, k, what)
  BY SameTables, SameCleanup, SameMatches
<1> HIDE DEF a, k, what
<1>5. Reply(m) = IF ~Server!Has(Server!P, a) /\ ~Server!Has(Server!S, a) THEN {NoSession(a)}
                 ELSE IF \/ what = "confirm" /\ Server!ForPending(a, k)
                         \/ Server!Acceptable(a, k, what)
                      THEN {Pong(a, k, what)} ELSE {}
  BY DEF Reply, a, k, what
<1>6. Proven!Confirms(a, k, what) <=> what = "confirm" /\ Proven!ForPending(a, k)
  BY DEF Proven!Confirms
<1>7. /\ Proven!ForPending(a, k) => Proven!Has(Proven!P, a)
      /\ Proven!Acceptable(a, k, what) => Proven!Has(Proven!S, a)
  BY DEF Proven!ForPending, Proven!Acceptable
<1>8. CASE ~Proven!Has(Proven!P, a) /\ ~Proven!Has(Proven!S, a)
  <2>1. Reply(m) = {NoSession(a)}
    BY <1>4, <1>5, <1>8
  <2>2. ~Proven!Confirms(a, k, what) /\ ~Proven!Acceptable(a, k, what)
    BY <1>6, <1>7, <1>8
  <2> QED BY <1>3, <1>8, <2>1, <2>2 DEF NoSession, a, k, what
<1>9. CASE /\ Proven!Has(Proven!P, a) \/ Proven!Has(Proven!S, a)
           /\ Proven!Confirms(a, k, what) \/ Proven!Acceptable(a, k, what)
  <2>1. Reply(m) = {Pong(a, k, what)}
    BY <1>4, <1>5, <1>6, <1>9
  <2> QED BY <1>3, <1>9, <2>1 DEF Pong, a, k, what
<1>10. CASE /\ Proven!Has(Proven!P, a) \/ Proven!Has(Proven!S, a)
            /\ ~(Proven!Confirms(a, k, what) \/ Proven!Acceptable(a, k, what))
  <2>1. Reply(m) = {}
    BY <1>4, <1>5, <1>6, <1>10
  <2> QED BY <1>3, <1>10, <2>1 DEF a, k, what
<1> QED BY <1>8, <1>9, <1>10

\* What the client knows of the keys of a message on the wire.
LEMMA KeysOnWire ==
  ASSUME LinkInv, NEW m \in wire, m.type = "Data"
  PROVE  /\ m.key \in 1 .. issued /\ m.what \in Said(Len(Pings))
         /\ client.phase = "hello" =>
              \A n \in wire : n.type = "ServerHello" /\ n.hello = client.hello => m.key < n.key
         /\ client.phase \in {"confirm", "forward"} =>
              client.key \in 1 .. issued /\ m.key <= client.key
         /\ client.phase = "confirm" /\ m.key = client.key => m.what = "confirm"
         /\ client.phase = "forward" /\ m.key = client.key => m.what \in Said(client.next - 1)
<1>1. Used(m) /\ Typed(m, now, attempts, issued)
  BY DEF Used, LinkInv
<1>2. m.key \in 1 .. issued /\ m.what \in Said(Len(Pings))
  <2>1. DOMAIN Pings = 1 .. Len(Pings)
    BY SecureLinkAssumption, LenProperties DEF SecureLinkAssumption
  <2> QED BY <1>1, <2>1 DEF Typed, Said
<1>3. ClientInv(client, wire, sessions, pending, now, attempts, issued)
  BY DEF LinkInv
<1>4. CASE client.phase = "hello"
  BY <1>1, <1>2, <1>3, <1>4 DEF ClientInv, Begun
<1>5. CASE client.phase = "confirm"
  BY <1>1, <1>2, <1>3, <1>5 DEF ClientInv, Awaited
<1>6. CASE client.phase = "forward"
  BY <1>1, <1>2, <1>3, <1>6 DEF ClientInv, InUse, Said
<1> QED BY <1>2, <1>4, <1>5, <1>6

\* What sessions hold of the given keys' messages.
LEMMA HoldingStays ==
  ASSUME LinkInv, PastInv, NEW m \in wire, m.type = "Data", Server!Data(m.addr, m.key, m.what),
         NEW key, NEW what, Holding(sessions, key, what), m.key = key => m.what \in what
  PROVE  Holding(sessions', key, what)
<1>1. Proven!Descend(m.addr, m.key, m.what)
  BY DataServed
<1>2. /\ Proven!ToSet(Proven!S) \subseteq Proven!ToSet(sessions)
      /\ Proven!ToSet(Proven!P) \subseteq Proven!ToSet(pending)
  BY FewerCleaned DEF LinkInv
<1>3. ASSUME NEW e \in Proven!ToSet(sessions'), e.key = key, NEW x \in Proven!Keys(e.nonces)
      PROVE  x \in what
  <2>1. PICK f \in Proven!ToSet(Proven!S) \cup Proven!ToSet(Proven!P) :
          f.key = key /\ (x \in Proven!Keys(f.nonces) \/ (x = m.what /\ m.key = key))
    BY <1>1, <1>3 DEF Proven!Descend
  <2>2. CASE f \in Proven!ToSet(sessions)
    BY <2>1, <2>2 DEF Holding
  <2>3. CASE f \in Proven!ToSet(pending)
    <3>1. f.nonces = <<>>
      BY <2>3 DEF PastInv, PastTables, PastClient
    <3>2. Proven!Keys(<<>>) = {}
      BY DEF Proven!Keys
    <3> QED BY <2>1, <3>1, <3>2
  <2> QED BY <1>2, <2>1, <2>2, <2>3
<1> QED BY <1>3 DEF Holding

\* A step of the server keeps what is known of the past.
LEMMA PastServed ==
  ASSUME LinkInv, PastInv, ServerTakes
  PROVE  PastInv'
<1>1. PICK m \in wire :
        /\ \/ m.type = "ClientHello" /\ Server!Hello(m.addr, m.hello)
           \/ m.type = "Data" /\ Server!Data(m.addr, m.key, m.what)
        /\ wire' = Left(m) \cup Reply(m)
  BY DEF ServerTakes
<1>2. client' = client /\ addr' = addr /\ attempts' = attempts
  BY DEF ServerTakes, clientVars
<1>3. /\ Proven!ToSet(Proven!S) \subseteq Proven!ToSet(sessions)
      /\ Proven!ToSet(Proven!P) \subseteq Proven!ToSet(pending)
      /\ now \in Nat /\ issued \in Nat
      /\ \A e \in Proven!ToSet(sessions) \cup Proven!ToSet(pending) : e.key \in 1 .. issued
  BY Assumed, FewerCleaned, Proven!LiveKept DEF LinkInv
<1>4. \A u \in wire' : u \in wire \/ u \in Reply(m)
  BY <1>1, LeftIsLess
<1>5. CASE m.type = "ClientHello" /\ Server!Hello(m.addr, m.hello)
  <2>1. /\ m.hello[1] <= attempts
        /\ sessions' = Proven!S /\ now' = now
        /\ Proven!Keys(replays') \subseteq Proven!Keys(replays) \cup {m.hello}
        /\ \A f \in Proven!ToSet(pending') :
             f = Proven!NewEntry(m.addr) \/ f \in Proven!ToSet(pending)
        /\ \A r \in Reply(m) : r.type = "ServerHello" /\ r.key = issued + 1
    BY <1>3, <1>5, HelloServed
  <2>2. \A h \in Proven!Keys(replays') : h[1] <= attempts
    BY <2>1 DEF PastInv, PastTables, PastClient
  <2>3. ASSUME NEW p \in Proven!ToSet(pending')
        PROVE  p.nonces = <<>> /\ \A s \in Proven!ToSet(sessions') : s.addr = p.addr => s.key < p.key
    <3>1. CASE p = Proven!NewEntry(m.addr)
      <4>1. p.nonces = <<>> /\ p.key = issued + 1
        BY <3>1 DEF Proven!NewEntry
      <4>2. \A k \in 1 .. issued : k < issued + 1
        BY <1>3
      <4> QED BY <1>3, <2>1, <4>1, <4>2
    <3>2. CASE p \in Proven!ToSet(pending)
      BY <1>3, <2>1, <3>2 DEF PastInv, PastTables, PastClient
    <3> QED BY <2>1, <3>1, <3>2
  <2>4. ASSUME client.phase = "hello", NEW n \in wire', NEW s \in Proven!ToSet(sessions'),
               n.type = "ServerHello", n.hello = client.hello
        PROVE  s.key # n.key
    <3>1. CASE n \in wire
      BY <1>3, <2>1, <2>4, <3>1 DEF PastInv, PastTables, PastClient
    <3>2. CASE n \in Reply(m)
      <4>1. s.key \in 1 .. issued /\ n.key = issued + 1
        BY <1>3, <2>1, <3>2
      <4> QED BY <1>3, <4>1
    <3> QED BY <1>4, <3>1, <3>2
  <2>5. \A key, what : Holding(sessions, key, what) => Holding(sessions', key, what)
    BY <1>3, <2>1 DEF Holding
  <2> QED BY <1>2, <2>1, <2>2, <2>3, <2>4, <2>5 DEF PastInv, PastTables, PastClient
<1>6. CASE m.type = "Data" /\ Server!Data(m.addr, m.key, m.what)
  <2>1. /\ now' = now /\ issued' = issued /\ replays' = replays
        /\ Proven!ToSet(pending') \subseteq Proven!ToSet(Proven!P)
        /\ Proven!Descend(m.addr, m.key, m.what)
        /\ \A r \in Reply(m) : r.type # "ServerHello"
    BY <1>6, DataServed
  <2>2. ASSUME NEW p \in Proven!ToSet(pending')
        PROVE  p.nonces = <<>> /\ \A s \in Proven!ToSet(sessions') : s.addr = p.addr => s.key < p.key
    <3>1. p \in Proven!ToSet(Proven!P) /\ p \in Proven!ToSet(pending)
      BY <1>3, <2>1
    <3>2. ASSUME NEW s \in Proven!ToSet(sessions'), s.addr = p.addr
          PROVE  s.key < p.key
      <4>1. PICK f \in Proven!ToSet(Proven!S) \cup Proven!ToSet(Proven!P) :
              /\ f.addr = s.addr /\ f.key = s.key
              /\ f \in Proven!ToSet(Proven!P) =>
                   Proven!Confirms(m.addr, m.key, m.what) /\ f.addr = m.addr
        BY <2>1 DEF Proven!Descend
      <4>2. CASE f \in Proven!ToSet(Proven!S)
        BY <1>3, <3>1, <3>2, <4>1, <4>2 DEF PastInv, PastTables, PastClient
      <4>3. CASE f \in Proven!ToSet(Proven!P)
        <5>1. Proven!Confirms(m.addr, m.key, m.what) /\ p.addr = m.addr
          BY <3>2, <4>1, <4>3
        <5>2. Proven!Confirm(m.addr, m.key)
          <6>1. Proven!Data(m.addr, m.key, m.what)
            BY <1>6, SameData
          <6> QED BY <5>1, <6>1 DEF Proven!Data, Proven!Confirms, Proven!Unmatched,
                                    Proven!Ignored, Proven!Accepted, Proven!Acceptable
        <5>3. \A g \in Proven!ToSet(pending') : g.addr # m.addr
          BY <5>2, Assumed, Proven!ConfirmTables DEF LinkInv
        <5> QED BY <5>1, <5>3
      <4> QED BY <4>1, <4>2, <4>3
    <3> QED BY <3>1, <3>2 DEF PastInv, PastTables, PastClient
  <2>3. ASSUME client.phase = "hello", NEW n \in wire', NEW s \in Proven!ToSet(sessions'),
               n.type = "ServerHello", n.hello = client.hello
        PROVE  s.key # n.key
    <3>1. n \in wire
      BY <1>4, <2>1, <2>3
    <3>2. PICK f \in Proven!ToSet(Proven!S) \cup Proven!ToSet(Proven!P) :
            f.key = s.key /\ (f \in Proven!ToSet(Proven!P) => f.key = m.key)
      BY <2>1 DEF Proven!Descend
    <3>3. CASE f \in Proven!ToSet(Proven!S)
      BY <1>3, <2>3, <3>1, <3>2, <3>3 DEF PastInv, PastTables, PastClient
    <3>4. CASE f \in Proven!ToSet(Proven!P)
      <4>1. m.key < n.key /\ m.key \in 1 .. issued
        BY <1>6, <2>3, <3>1, KeysOnWire
      <4>2. n.key \in 1 .. issued
        BY <2>3, <3>1 DEF LinkInv, Typed
      <4> QED BY <1>3, <3>2, <3>4, <4>1, <4>2
    <3> QED BY <3>2, <3>3, <3>4
  <2>4. ASSUME client.phase = "confirm"
        PROVE  Holding(sessions', client.key, Said(0))
    <3>1. m.key = client.key => m.what \in Said(0)
      BY <1>6, <2>4, KeysOnWire DEF Said
    <3> QED BY <1>6, <2>4, <3>1, HoldingStays DEF PastInv, PastTables, PastClient
  <2>5. ASSUME client.phase = "forward"
        PROVE  Holding(sessions', client.key, Said(client.next - 1))
    <3>1. m.key = client.key => m.what \in Said(client.next - 1)
      BY <1>6, <2>5, KeysOnWire
    <3> QED BY <1>6, <2>5, <3>1, HoldingStays DEF PastInv, PastTables, PastClient
  <2> QED BY <1>2, <2>1, <2>2, <2>3, <2>4, <2>5 DEF PastInv, PastTables, PastClient
<1> QED BY <1>1, <1>5, <1>6

\* Times are numbers after the step too.
LEMMA SinceAfter ==
  ASSUME LinkInv, NEW m \in wire,
         \/ m.type = "ClientHello" /\ Server!Hello(m.addr, m.hello)
         \/ m.type = "Data" /\ Server!Data(m.addr, m.key, m.what)
  PROVE  \A e \in Proven!ToSet(sessions') \cup Proven!ToSet(pending') : e.since \in Nat
<1>1. Proven!SecureInv'
  <2>1. Proven!SecureInv /\ Typed(m, now, attempts, issued)
    BY DEF LinkInv
  <2> QED BY <2>1, Replies
<1>2. Proven!Table(sessions', now', issued') /\ Proven!Table(pending', now', issued') /\ now' \in Nat
  BY <1>1 DEF Proven!SecureInv, Proven!Tables
<1> QED BY <1>2, Assumed, Proven!TableTypes, Proven!EntryTypes

\* The session of the client's address outlasts what comes under keys that are not
\* newer than its own.
LEMMA InSessionStays ==
  ASSUME LinkInv, PastInv, NEW m \in wire, m.type = "Data", Server!Data(m.addr, m.key, m.what),
         m.addr = addr, addr' = addr, NEW key \in Nat, m.key <= key,
         NEW then \in Int, now - then < SessionTtl, InSession(key, then)
  PROVE  \E e \in Proven!ToSet(sessions') : e.addr = addr' /\ e.key = key /\ then <= e.since
<1>1. PICK s \in Proven!ToSet(sessions) : s.addr = addr /\ s.key = key /\ then <= s.since
  BY DEF InSession
<1>2. /\ \A e \in Proven!ToSet(sessions) : now - e.since < SessionTtl => e \in Proven!ToSet(Proven!S)
      /\ Proven!ToSet(Proven!P) \subseteq Proven!ToSet(pending)
      /\ \A e \in Proven!ToSet(sessions) \cup Proven!ToSet(pending) :
           e.since \in 0 .. now /\ e.key \in 1 .. issued
  BY Assumed, Proven!LiveKept DEF LinkInv
<1>3. s \in Proven!ToSet(Proven!S) /\ s.since \in Nat
  <2>1. s.since \in 0 .. now /\ now \in Nat /\ SessionTtl \in Nat
    BY <1>1, <1>2, Times
  <2>2. now - s.since < SessionTtl /\ s.since \in Nat
    BY <1>1, <2>1
  <2> QED BY <1>2, <2>2
<1>4. ~Proven!Confirms(m.addr, m.key, m.what)
  <2> SUFFICES ASSUME Proven!Confirms(m.addr, m.key, m.what) PROVE FALSE
    OBVIOUS
  <2>1. Proven!Has(Proven!P, m.addr) /\ Proven!Entry(Proven!P, m.addr).key = m.key
    BY DEF Proven!Confirms, Proven!ForPending
  <2>2. PICK p \in Proven!ToSet(Proven!P) : p.addr = addr /\ p.key = m.key
    BY <2>1, Assumed, Proven!EntryOf
  <2>3. s.key < p.key /\ s.key \in Nat /\ p.key \in Nat
    <3>1. s.key \in 1 .. issued /\ p.key \in 1 .. issued /\ issued \in Nat
      BY <1>2, <2>2, Times
    <3> QED BY <1>1, <1>2, <2>2, <3>1 DEF PastInv, PastTables, PastClient
  <2> QED BY <1>1, <2>2, <2>3
<1>5. PICK e \in Proven!ToSet(sessions') : e.addr = m.addr /\ e.key = s.key /\ s.since <= e.since
  <2>1. Proven!Stays(m.addr)
    BY <1>4, DataServed
  <2> QED BY <1>1, <1>3, <2>1 DEF Proven!Stays
<1>6. then <= e.since
  <2>1. e.since \in Nat
    BY SinceAfter
  <2> QED BY <1>1, <1>3, <1>5, <2>1
<1> QED BY <1>1, <1>5, <1>6

\* The pending session of the address stays unless it is confirmed.
LEMMA InPendingStays ==
  ASSUME LinkInv, NEW m \in wire, m.type = "Data", Server!Data(m.addr, m.key, m.what),
         addr' = addr, NEW key, ~(m.key = key /\ m.what = "confirm"), InPending(key)
  PROVE  \E p \in Proven!ToSet(pending') : p.addr = addr' /\ p.key = key /\ now' <= p.since
<1>1. PICK p \in Proven!ToSet(pending) : p.addr = addr /\ p.key = key /\ now <= p.since
  BY DEF InPending
<1>2. p \in Proven!ToSet(Proven!P)
  <2>1. /\ now - p.since < PendingTtl => p \in Proven!ToSet(Proven!P)
        /\ p.since \in 0 .. now
    BY Assumed, Proven!LiveKept DEF LinkInv
  <2>2. now \in Nat /\ PendingTtl \in Nat /\ 0 < PendingTtl
    BY Times
  <2> QED BY <1>1, <2>1, <2>2
<1>3. p \in Proven!ToSet(pending') /\ now' = now
  BY <1>1, <1>2, DataServed DEF Proven!Confirms
<1> QED BY <1>1, <1>3

\* So does the one or the other.
LEMMA MetStays ==
  ASSUME LinkInv, NEW m \in wire, m.addr = addr, addr' = addr, Met,
         \/ m.type = "ClientHello" /\ Server!Hello(m.addr, m.hello)
         \/ m.type = "Data" /\ Server!Data(m.addr, m.key, m.what)
  PROVE  /\ \/ \E s \in Proven!ToSet(sessions') : s.addr = addr' /\ now' - s.since < SessionTtl
            \/ \E p \in Proven!ToSet(pending') : p.addr = addr' /\ now' - p.since < PendingTtl
         /\ Proven!Has(Proven!S, addr) \/ Proven!Has(Proven!P, addr)
<1>1. /\ \A e \in Proven!ToSet(sessions) : now - e.since < SessionTtl => e \in Proven!ToSet(Proven!S)
      /\ \A e \in Proven!ToSet(pending) : now - e.since < PendingTtl => e \in Proven!ToSet(Proven!P)
      /\ \A e \in Proven!ToSet(sessions) \cup Proven!ToSet(pending) : e.since \in 0 .. now
      /\ Proven!ToSet(Proven!S) \subseteq Proven!ToSet(sessions)
      /\ Proven!ToSet(Proven!P) \subseteq Proven!ToSet(pending)
  BY Assumed, Proven!LiveKept DEF LinkInv
<1>2. /\ now \in Nat /\ SessionTtl \in Nat /\ PendingTtl \in Nat /\ 0 < PendingTtl
      /\ 0 < SessionTtl
  <2>1. /\ now \in Nat /\ SessionTtl \in Nat /\ PendingTtl \in Nat /\ 0 < PendingTtl
        /\ Keepalive < SessionTtl /\ Keepalive \in Nat
    BY Times
  <2> QED BY <2>1
<1>3. \A e \in Proven!ToSet(sessions') \cup Proven!ToSet(pending') : e.since \in Nat
  BY SinceAfter
<1>4. \/ \E s \in Proven!ToSet(Proven!S) : s.addr = addr /\ now - s.since < SessionTtl
      \/ \E p \in Proven!ToSet(Proven!P) : p.addr = addr /\ now - p.since < PendingTtl
  BY <1>1 DEF Met
<1>5. Proven!Has(Proven!S, addr) \/ Proven!Has(Proven!P, addr)
  BY <1>4 DEF Proven!Has, Proven!ToSet
<1> DEFINE Still == \/ \E s \in Proven!ToSet(sessions') : s.addr = addr' /\ now' - s.since < SessionTtl
                    \/ \E p \in Proven!ToSet(pending') : p.addr = addr' /\ now' - p.since < PendingTtl
<1>6. ASSUME m.type = "ClientHello", Server!Hello(m.addr, m.hello)
      PROVE  Still
  <2>1. /\ sessions' = Proven!S /\ now' = now
        /\ pending' = Proven!P \/ Proven!NewEntry(m.addr) \in Proven!ToSet(pending')
    BY <1>6, HelloServed
  <2>2. CASE Proven!NewEntry(m.addr) \in Proven!ToSet(pending')
    <3>1. Proven!NewEntry(m.addr).addr = addr /\ Proven!NewEntry(m.addr).since = now
      BY DEF Proven!NewEntry
    <3>2. now - now < PendingTtl
      BY <1>2
    <3> QED BY <2>1, <2>2, <3>1, <3>2
  <2> QED BY <1>4, <2>1, <2>2
<1>7. ASSUME m.type = "Data", Server!Data(m.addr, m.key, m.what)
      PROVE  Still
  <2>1. /\ now' = now
        /\ \A p \in Proven!ToSet(Proven!P) :
             p \in Proven!ToSet(pending') \/ Proven!Confirms(m.addr, m.key, m.what)
        /\ Proven!Confirms(m.addr, m.key, m.what) \/ Proven!Stays(m.addr)
        /\ Proven!Confirms(m.addr, m.key, m.what) => Proven!Heard(m.addr, m.key)
    BY <1>7, DataServed
  <2>2. CASE Proven!Heard(m.addr, m.key)
    <3>1. now - now < SessionTtl
      BY <1>2
    <3> QED BY <2>1, <2>2, <3>1 DEF Proven!Heard
  <2>3. CASE ~Proven!Confirms(m.addr, m.key, m.what)
    <3>1. CASE \E s \in Proven!ToSet(Proven!S) : s.addr = addr /\ now - s.since < SessionTtl
      <4>1. PICK s \in Proven!ToSet(Proven!S) : s.addr = addr /\ now - s.since < SessionTtl
        BY <3>1
      <4>2. PICK e \in Proven!ToSet(sessions') : e.addr = addr /\ s.since <= e.since
        BY <2>1, <2>3, <4>1 DEF Proven!Stays
      <4>3. s.since \in Nat /\ e.since \in Nat
        <5>1. s.since \in 0 .. now
          BY <1>1
        <5> QED BY <1>2, <1>3, <5>1
      <4>4. now - e.since < SessionTtl
        BY ONLY <1>2, <4>1, <4>2, <4>3
      <4> QED BY <2>1, <4>2, <4>4
    <3>2. CASE \E p \in Proven!ToSet(Proven!P) : p.addr = addr /\ now - p.since < PendingTtl
      BY <2>1, <2>3, <3>2
    <3> QED BY <1>4, <3>1, <3>2
  <2> QED BY <2>1, <2>2, <2>3
<1> QED BY <1>5, <1>6, <1>7

\* The server takes the datagram m of a calm network.
Serves(m) ==
  /\ \/ m.type = "ClientHello" /\ Server!Hello(m.addr, m.hello)
     \/ m.type = "Data" /\ Server!Data(m.addr, m.key, m.what)
  /\ wire' = (wire \ {m}) \cup Reply(m)
  /\ UNCHANGED <<client, addr, attempts, calm>>

LEMMA ServedCurrent ==
  ASSUME LinkInv, CalmInv, NEW m \in wire, Serves(m)
  PROVE  \A u \in wire' : Current(u)'
<1>1. /\ m.addr = addr /\ m.timestamp = now
      /\ Overdue < now /\ m.type = "Data" => Met
      /\ \A u \in wire : Current(u)
  BY DEF CalmInv, Current
<1>2. client' = client /\ addr' = addr /\ calm' = calm
  BY DEF Serves
<1>3. now' = now /\ Overdue' = Overdue
  <2>1. now' = now
    BY HelloServed, DataServed DEF Serves
  <2> QED BY <1>2, <2>1 DEF Overdue
<1>4. Met => Met'
  BY <1>1, <1>2, MetStays DEF Serves, Met
<1>5. ASSUME NEW u \in wire
      PROVE  Current(u)'
  <2>1. Current(u)
    BY <1>1
  <2>2. ClientHello(client.hello)' = ClientHello(client.hello)
    BY <1>2, <1>3 DEF ClientHello
  <2> QED BY <1>2, <1>3, <1>4, <2>1, <2>2 DEF Current
<1>6. ASSUME NEW u \in Reply(m)
      PROVE  Current(u)'
  <2>1. CASE m.type = "ClientHello" /\ Server!Hello(m.addr, m.hello)
    <3>1. u.type = "ServerHello" /\ u.addr = m.addr /\ u.timestamp = now
      BY <2>1, HelloServed
    <3> QED BY <1>1, <1>2, <1>3, <3>1 DEF Current
  <2>2. CASE m.type = "Data" /\ Server!Data(m.addr, m.key, m.what)
    <3>1. /\ u.addr = m.addr /\ u.timestamp = now
          /\ \/ /\ u.type = "NoSession"
                /\ ~Proven!Has(Proven!P, m.addr) /\ ~Proven!Has(Proven!S, m.addr)
             \/ u.type = "Pong"
      BY <2>2, DataServed
    <3>2. u.type = "NoSession" => ~(Overdue < now)
      BY <1>1, <1>2, <2>2, <3>1, MetStays
    <3> QED BY <1>1, <1>2, <1>3, <3>1, <3>2 DEF Current
  <2> QED BY <2>1, <2>2 DEF Serves
<1> QED BY <1>5, <1>6 DEF Serves

\* A handshake on its way is answered, one answered stays pending.
LEMMA ServedHello ==
  ASSUME LinkInv, CalmInv, NEW m \in wire, Serves(m), client.phase = "hello"
  PROVE  CalmHello'
<1>1. client' = client /\ addr' = addr /\ wire' = (wire \ {m}) \cup Reply(m)
  BY DEF Serves
<1>2. now' = now /\ now \in Nat
  BY HelloServed, DataServed, Times DEF Serves
<1>3. now < client.until /\ (HelloSent \/ HelloAnswered)
  BY DEF CalmInv, CalmHello, Lost
<1>4. \A u \in wire : u.type = "ClientHello" => u = ClientHello(client.hello)
  BY DEF CalmInv, Current
<1>5. m.addr = addr
  BY DEF CalmInv, Current
<1>6. ASSUME m.type = "ClientHello", Server!Hello(m.addr, m.hello)
      PROVE  HelloAnswered'
  <2>1. m = ClientHello(client.hello) /\ m.hello = client.hello
    BY <1>4, <1>6 DEF ClientHello
  <2>2. HelloSent
    BY <1>3, <1>6 DEF HelloAnswered
  <2>3. Proven!Timely(m.hello)
    <3>1. m.hello \in Hellos /\ m.hello[2] = now
      BY <1>6, <2>1, <2>2 DEF LinkInv, Typed, HelloSent
    <3>2. Freshness \in Nat
      BY Assumed DEF Proven!SecureStateAssumption
    <3> QED BY <1>2, <3>1, <3>2 DEF Proven!Timely
  <2>4. m.hello \notin Proven!Keys(replays)
    BY <2>1, <2>2 DEF HelloSent
  <2>5. /\ Proven!NewEntry(m.addr) \in Proven!ToSet(pending')
        /\ Reply(m) # {}
        /\ \A r \in Reply(m) :
             r.type = "ServerHello" /\ r.hello = m.hello /\ r.key = issued + 1
    BY <1>6, <2>3, <2>4, HelloServed
  <2>6. \E p \in Proven!ToSet(pending') : p.addr = addr' /\ p.key = issued + 1 /\ now' <= p.since
    <3>1. /\ Proven!NewEntry(m.addr).addr = addr /\ Proven!NewEntry(m.addr).key = issued + 1
          /\ Proven!NewEntry(m.addr).since = now
      BY <1>5 DEF Proven!NewEntry
    <3>2. now <= now
      BY <1>2
    <3> QED BY <1>1, <1>2, <2>5, <3>1, <3>2
  <2>7. ~\E u \in wire' : u.type = "ClientHello"
    BY <1>1, <1>4, <2>1, <2>5
  <2>8. \E u \in wire' : u.type = "ServerHello" /\ u.hello = client'.hello
    BY <1>1, <2>1, <2>5
  <2>9. \A u \in wire' : u.type = "ServerHello" /\ u.hello = client'.hello => InPending(u.key)'
    <3>1. \A u \in wire : ~(u.type = "ServerHello" /\ u.hello = client.hello)
      BY <2>2 DEF HelloSent
    <3>2. \A u \in Reply(m) : u.key = issued + 1
      BY <2>5
    <3>3. ASSUME NEW u \in wire', u.type = "ServerHello", u.hello = client'.hello
          PROVE  InPending(u.key)'
      <4>1. u.key = issued + 1
        BY <1>1, <3>1, <3>2, <3>3
      <4> QED BY <2>6, <4>1 DEF InPending
    <3> QED BY <3>3
  <2> QED BY <2>7, <2>8, <2>9 DEF HelloAnswered
<1>7. ASSUME m.type = "Data", Server!Data(m.addr, m.key, m.what)
      PROVE  (HelloSent \/ HelloAnswered)'
  <2>1. /\ replays' = replays
        /\ \A r \in Reply(m) : r.type \in {"NoSession", "Pong"}
    BY <1>7, DataServed
  <2>2. CASE HelloSent
    <3>1. ClientHello(client.hello)' = ClientHello(client.hello)
      BY <1>1, <1>2 DEF ClientHello
    <3>2. ClientHello(client.hello) # m
      BY <1>7 DEF ClientHello
    <3>3. ~\E u \in wire' : u.type = "ServerHello" /\ u.hello = client.hello
      BY <1>1, <2>1, <2>2 DEF HelloSent
    <3> QED BY <1>1, <1>2, <2>1, <2>2, <3>1, <3>2, <3>3 DEF HelloSent
  <2>3. CASE HelloAnswered
    <3>1. ~\E u \in wire' : u.type = "ClientHello"
      BY <1>1, <2>1, <2>3 DEF HelloAnswered
    <3>2. \E u \in wire' : u.type = "ServerHello" /\ u.hello = client'.hello
      BY <1>1, <1>7, <2>3 DEF HelloAnswered
    <3>3. ASSUME NEW u \in wire', u.type = "ServerHello", u.hello = client'.hello
          PROVE  InPending(u.key)'
      <4>1. u \in wire /\ u.hello = client.hello
        BY <1>1, <2>1, <3>3
      <4>2. m.key < u.key /\ m.key \in 1 .. issued /\ InPending(u.key)
        BY <1>7, <2>3, <3>3, <4>1, KeysOnWire DEF HelloAnswered
      <4>3. m.key # u.key
        BY <4>2
      <4>4. \E p \in Proven!ToSet(pending') : p.addr = addr' /\ p.key = u.key /\ now' <= p.since
        BY <1>1, <1>7, <4>2, <4>3, InPendingStays
      <4> QED BY <4>4 DEF InPending
    <3> QED BY <3>1, <3>2, <3>3 DEF HelloAnswered
  <2> QED BY <1>3, <2>2, <2>3
<1>8. now' < client'.until
  BY <1>1, <1>2, <1>3
<1> QED BY <1>6, <1>7, <1>8 DEF Serves, CalmHello

\* Whoever answers under the client's keys has a session of them.
LEMMA ServedVouched ==
  ASSUME LinkInv, PastInv, NEW m \in wire, m.addr = addr, m.type = "Data", Serves(m),
         client.phase \in {"confirm", "forward"}, Vouched(client.key)
  PROVE  Vouched(client.key)'
<1>1. client' = client /\ addr' = addr /\ wire' = (wire \ {m}) \cup Reply(m)
      /\ Server!Data(m.addr, m.key, m.what)
  BY DEF Serves
<1>2. now' = now /\ now \in Nat /\ SessionTtl \in Nat /\ 0 < SessionTtl
  <2>1. SessionTtl \in Nat /\ Keepalive < SessionTtl /\ Keepalive \in Nat /\ now \in Nat
    BY Times
  <2> QED BY <1>1, <2>1, DataServed
<1> DEFINE key == client.key
<1>3. key \in Nat /\ m.key <= key
  <2>1. key \in 1 .. issued /\ m.key <= key
    BY KeysOnWire
  <2> QED BY <2>1
<1>4. ASSUME NEW u \in wire', u.type = "Pong", u.key = key
      PROVE  InSession(key, now)'
  <2>1. CASE u \in wire
    <3>1. InSession(key, now)
      BY <1>4, <2>1 DEF Vouched
    <3>2. now - now < SessionTtl /\ now \in Int
      BY <1>2
    <3> HIDE DEF key
    <3>3. \E e \in Proven!ToSet(sessions') : e.addr = addr' /\ e.key = key /\ now <= e.since
      BY <1>1, <1>3, <3>1, <3>2, InSessionStays
    <3> QED BY <1>1, <1>2, <3>3 DEF InSession, key
  <2>2. CASE u \in Reply(m)
    <3>1. u.key = m.key /\ Proven!Heard(m.addr, m.key)
      BY <1>1, <1>4, <2>2, DataServed
    <3>2. now <= now
      BY <1>2
    <3> QED BY <1>1, <1>2, <1>4, <3>1, <3>2 DEF Proven!Heard, InSession
  <2> QED BY <1>1, <2>1, <2>2
<1> QED BY <1>1, <1>2, <1>4 DEF Vouched, InSession

\* A confirmation on its way is answered.
LEMMA ServedConfirm ==
  ASSUME LinkInv, PastInv, CalmInv, NEW m \in wire, Serves(m), client.phase = "confirm"
  PROVE  CalmConfirm'
<1> DEFINE key == client.key
<1>1. client' = client /\ addr' = addr /\ wire' = (wire \ {m}) \cup Reply(m)
  BY DEF Serves
<1>2. /\ now < client.until /\ ConfirmSent /\ Vouched(key)
      /\ m.addr = addr /\ m.type # "ClientHello"
  BY DEF CalmInv, CalmConfirm, Lost, Current
<1>3. m.type = "Data" /\ Server!Data(m.addr, m.key, m.what)
  BY <1>2 DEF Serves
<1>4. now' = now
  BY <1>3, DataServed
<1>5. Vouched(key)'
  BY <1>2, <1>3, ServedVouched
<1>6. CASE OnWire("Pong", key, "confirm")
  <2>1. OnWire("Pong", key, "confirm")'
    BY <1>1, <1>3, <1>6 DEF OnWire
  <2> QED BY <1>1, <1>2, <1>4, <1>5, <2>1 DEF CalmConfirm, ConfirmSent
<1>7. CASE OnWire("Data", key, "confirm") /\ InPending(key)
  <2>1. ASSUME m.key = key
        PROVE  OnWire("Pong", key, "confirm")'
    <3>1. m.what = "confirm"
      BY <1>3, <2>1, KeysOnWire
    <3>2. PICK p \in Proven!ToSet(pending) : p.addr = addr /\ p.key = key /\ now <= p.since
      BY <1>7 DEF InPending
    <3>3. p \in Proven!ToSet(Proven!P)
      <4>1. /\ now - p.since < PendingTtl => p \in Proven!ToSet(Proven!P)
            /\ p.since \in 0 .. now
        BY <3>2, Assumed, Proven!LiveKept DEF LinkInv
      <4>2. now \in Nat /\ PendingTtl \in Nat /\ 0 < PendingTtl
        BY Times
      <4> QED BY <3>2, <4>1, <4>2
    <3>4. Proven!Confirms(m.addr, m.key, m.what)
      <4>1. Proven!Confirms(p.addr, p.key, "confirm")
        BY <3>3, Assumed, Proven!LiveTakes DEF LinkInv
      <4> QED BY <1>2, <2>1, <3>1, <3>2, <4>1
    <3>5. \E r \in Reply(m) : r.type = "Pong" /\ r.key = m.key /\ r.what = m.what
      BY <1>3, <3>4, DataServed
    <3> QED BY <1>1, <2>1, <3>1, <3>5 DEF OnWire
  <2>2. ASSUME m.key # key
        PROVE  OnWire("Data", key, "confirm")' /\ InPending(key)'
    <3>1. OnWire("Data", key, "confirm")'
      BY <1>1, <1>7, <2>2 DEF OnWire
    <3> HIDE DEF key
    <3>2. \E p \in Proven!ToSet(pending') : p.addr = addr' /\ p.key = key /\ now' <= p.since
      BY <1>1, <1>3, <1>7, <2>2, InPendingStays
    <3> QED BY <1>1, <3>1, <3>2 DEF InPending, key
  <2> QED BY <1>1, <1>2, <1>4, <1>5, <2>1, <2>2 DEF CalmConfirm, ConfirmSent
<1> QED BY <1>2, <1>6, <1>7 DEF ConfirmSent

\* A ping on its way is answered, and the session stays.
LEMMA ServedForward ==
  ASSUME LinkInv, PastInv, CalmInv, NEW m \in wire, Serves(m), client.phase = "forward"
  PROVE  CalmForward'
<1> DEFINE key == client.key
           ping == client.expected
<1>1. client' = client /\ addr' = addr /\ wire' = (wire \ {m}) \cup Reply(m) /\ calm' = calm
  BY DEF Serves
<1>2. /\ client.peer <= calm \/ Recovered
      /\ Vouched(key) /\ m.addr = addr /\ m.type # "ClientHello"
  BY DEF CalmInv, CalmForward, Current
<1>3. m.type = "Data" /\ Server!Data(m.addr, m.key, m.what)
  BY <1>2 DEF Serves
<1>4. now' = now /\ key \in Nat /\ m.key <= key
  <2>1. key \in 1 .. issued /\ m.key <= key
    BY <1>3, KeysOnWire
  <2> QED BY <1>3, <2>1, DataServed
<1>5. Vouched(key)'
  BY <1>2, <1>3, ServedVouched
<1>6. ASSUME NEW then \in Int, now - then < SessionTtl, InSession(key, then)
      PROVE  \E e \in Proven!ToSet(sessions') : e.addr = addr' /\ e.key = key /\ then <= e.since
  <2> HIDE DEF key
  <2> QED BY <1>1, <1>2, <1>3, <1>4, <1>6, InSessionStays
<1>7. /\ now \in Nat /\ Keepalive \in Nat /\ SessionTtl \in Nat /\ Keepalive < SessionTtl
      /\ client.pinged \in Nat /\ now - client.pinged <= Keepalive /\ ping \in Expectations
  <2>1. client \in Forwarding /\ Timers(client, now)
    BY DEF LinkInv, ClientInv
  <2> QED BY <2>1, Times DEF Forwarding, Timers
<1>8. CASE client.peer <= calm
  BY <1>1, <1>5, <1>8 DEF CalmForward
<1>9. CASE InSession(key, client.pinged) /\ client.pinged <= client.peer
  <2>1. now - client.pinged < SessionTtl
    <3> DEFINE pinged == client.pinged
    <3>1. now \in Nat /\ pinged \in Nat /\ now - pinged <= Keepalive
          /\ Keepalive \in Nat /\ SessionTtl \in Nat /\ Keepalive < SessionTtl
      BY <1>7
    <3> HIDE DEF pinged
    <3>2. now - pinged < SessionTtl
      BY ONLY <3>1
    <3> QED BY <3>2 DEF pinged
  <2>2. InSession(key, client.pinged)'
    BY <1>1, <1>6, <1>7, <1>9, <2>1 DEF InSession
  <2> QED BY <1>1, <1>5, <1>9, <2>2 DEF CalmForward, Recovered
<1>10. CASE /\ now - client.peer <= Keepalive /\ ping # Nothing
            /\ OnWire("Pong", key, ping)
  <2>1. OnWire("Pong", key, ping)'
    BY <1>1, <1>3, <1>10 DEF OnWire
  <2> QED BY <1>1, <1>4, <1>5, <1>10, <2>1 DEF CalmForward, Recovered
<1>11. CASE /\ now - client.peer <= Keepalive /\ ping # Nothing
            /\ OnWire("Data", key, ping) /\ client.pinged = now
            /\ InSession(key, now - Keepalive)
            /\ Holding(sessions, key, Said(Len(Pings)) \ {ping})
  <2>1. now - Keepalive \in Int /\ now - (now - Keepalive) < SessionTtl
    BY <1>7
  <2>2. ASSUME m.key = key, m.what = ping
        PROVE  OnWire("Pong", key, ping)'
    <3>1. PICK s \in Proven!ToSet(sessions) :
            s.addr = addr /\ s.key = key /\ now - Keepalive <= s.since
      BY <1>11 DEF InSession
    <3>2. s \in Proven!ToSet(Proven!S)
      <4>1. /\ now - s.since < SessionTtl => s \in Proven!ToSet(Proven!S)
            /\ s.since \in 0 .. now
        BY <3>1, Assumed, Proven!LiveKept DEF LinkInv
      <4> QED BY <1>7, <3>1, <4>1
    <3>3. ping \in Proven!Messages /\ ping # "confirm" /\ ping \notin Proven!Keys(s.nonces)
      <4>1. ping \in {Pings[i] : i \in DOMAIN Pings}
        BY <1>7, <1>11 DEF Expectations
      <4>2. ping # "confirm"
        BY <4>1, PingsDiffer
      <4>3. ping \notin Proven!Keys(s.nonces)
        BY <1>11, <3>1 DEF Holding
      <4> QED BY <4>1, <4>2, <4>3 DEF Proven!Messages
    <3>4. Proven!Acceptable(s.addr, s.key, ping)
      BY <3>2, <3>3, Assumed, Proven!LiveTakes DEF LinkInv
    <3>5. Proven!Acceptable(m.addr, m.key, m.what)
      BY <1>2, <2>2, <3>1, <3>4
    <3>6. \E r \in Reply(m) : r.type = "Pong" /\ r.key = m.key /\ r.what = m.what
      BY <1>3, <3>5, DataServed
    <3> QED BY <1>1, <2>2, <3>6 DEF OnWire
  <2>3. ASSUME ~(m.key = key /\ m.what = ping)
        PROVE  /\ OnWire("Data", key, ping)' /\ InSession(key, now - Keepalive)'
               /\ Holding(sessions', key, Said(Len(Pings)) \ {ping})
    <3>1. OnWire("Data", key, ping)'
      BY <1>1, <1>11, <2>3 DEF OnWire
    <3>2. InSession(key, now - Keepalive)'
      BY <1>1, <1>4, <1>6, <1>11, <2>1 DEF InSession
    <3>3. m.key = key => m.what \in Said(Len(Pings)) \ {ping}
      BY <1>3, <2>3, KeysOnWire
    <3> HIDE DEF key, ping
    <3>4. Holding(sessions', key, Said(Len(Pings)) \ {ping})
      BY <1>3, <1>11, <3>3, HoldingStays
    <3> QED BY <3>1, <3>2, <3>4
  <2>4. CASE m.key = key /\ m.what = ping
    BY <1>1, <1>4, <1>5, <1>11, <2>2, <2>4 DEF CalmForward, Recovered
  <2>5. CASE ~(m.key = key /\ m.what = ping)
    <3>1. Recovered'
      BY <1>1, <1>4, <1>11, <2>3, <2>5 DEF Recovered, Holding, Said
    <3> QED BY <1>1, <1>5, <3>1 DEF CalmForward
  <2> QED BY <2>4, <2>5
<1> QED BY <1>2, <1>8, <1>9, <1>10, <1>11 DEF Recovered

\* A step of the server leaves a calm network calm.
LEMMA CalmServed ==
  ASSUME LinkInv, PastInv, calm # Never, CalmInv, ServerTakes
  PROVE  CalmInv'
<1>1. PICK m \in wire : Serves(m)
  BY DEF ServerTakes, Serves, Left, clientVars
<1>2. client' = client /\ calm' = calm
  BY <1>1 DEF Serves
<1>3. now' = now
  BY <1>1, HelloServed, DataServed DEF Serves
<1>4. \A u \in wire' : Current(u)'
  BY <1>1, ServedCurrent
<1>5. ASSUME client.phase = "delay"
      PROVE  CalmDelay'
  <2>1. client.until <= Overdue + ReconnectDelay /\ now < client.until
    BY <1>5 DEF CalmInv, CalmDelay
  <2> QED BY <1>2, <1>3, <2>1 DEF CalmDelay, Overdue
<1> QED BY <1>1, <1>2, <1>3, <1>4, <1>5, ServedHello, ServedConfirm, ServedForward DEF CalmInv

-----------------------------------------------------------------------------
(* The client of a calm network.                                           *)

LEMMA HeldAreHellos ==
  ASSUME LinkInv
  PROVE  \A h \in Proven!Keys(replays) : h[1] \in Nat
<1>1. replays \in Seq(Proven!Records(Hellos))
  BY DEF LinkInv, Proven!SecureInv, Proven!Tables
<1>2. \A i \in DOMAIN replays : replays[i].key \in Hellos
  <2>1. \A i \in 1 .. Len(replays) : replays[i] \in Proven!Records(Hellos)
    BY <1>1, ElementOfSeq
  <2>2. DOMAIN replays = 1 .. Len(replays)
    BY <1>1, LenProperties
  <2> QED BY <2>1, <2>2 DEF Proven!Records
<1>3. \A x \in Hellos : x[1] \in Nat
  BY DEF Hellos
<1> QED BY <1>2, <1>3 DEF Proven!Keys

LEMMA PastKept ==
  ASSUME LinkInv, PastInv, UNCHANGED <<now, serverVars>>, attempts' \in {attempts, attempts + 1},
         PastClient'
  PROVE  PastInv'
<1>1. \A h \in Proven!Keys(replays') : h[1] <= attempts'
  <2>1. sessions' = sessions /\ pending' = pending /\ replays' = replays
    BY DEF serverVars
  <2>2. PICK n \in Nat : n = attempts /\ attempts' \in {n, n + 1}
    BY Times
  <2>3. ASSUME NEW h \in Proven!Keys(replays)
        PROVE  h[1] <= attempts'
    <3>1. h[1] <= n /\ h[1] \in Nat
      BY <2>2, <2>3, HeldAreHellos DEF PastInv, PastTables
    <3> QED BY <2>2, <3>1
  <2> QED BY <2>1, <2>3
<1> QED BY <1>1 DEF PastInv, PastTables, serverVars

\* What is on the wire stays current while the client keeps its handshake.
LEMMA CurrentKept ==
  ASSUME CalmInv, UNCHANGED <<now, addr, calm, serverVars>>, NEW u \in wire,
         u.type # "ClientHello" \/ client' = client
  PROVE  Current(u)'
<1>1. Current(u)
  BY DEF CalmInv
<1>2. now' = now /\ addr' = addr /\ calm' = calm /\ sessions' = sessions /\ pending' = pending
  BY DEF serverVars
<1>3. Overdue' = Overdue /\ (Met <=> Met')
  BY <1>2 DEF Overdue, Met
<1>4. client' = client => ClientHello(client.hello)' = ClientHello(client.hello)
  BY <1>2 DEF ClientHello
<1> QED BY <1>1, <1>2, <1>3, <1>4 DEF Current

\* A handshake begins.
LEMMA BeginRecovers ==
  ASSUME LinkInv, RecoveryInv, Begin
  PROVE  RecoveryInv'
<1> DEFINE h == <<attempts + 1, now>>
           until == now + HandshakeTimeout
<1>1. /\ client = Idle /\ attempts' = attempts + 1
      /\ client' = [phase |-> "hello", hello |-> h, until |-> until]
      /\ wire' = wire \cup {ClientHello(h)}
      /\ UNCHANGED <<now, serverVars, addr, calm>>
  BY DEF Begin
<1>2. /\ now \in Nat /\ attempts \in Nat /\ HandshakeTimeout \in Nat \ {0}
  BY Times
<1>3. until \in now .. now + HandshakeTimeout /\ now < until
  BY <1>2
<1>4. /\ client'.phase = "hello" /\ client'.hello = h /\ client'.until = until
      /\ h[1] = attempts + 1 /\ h[2] = now /\ client.phase = "idle"
  BY <1>1 DEF Idle
<1> HIDE DEF h, until
<1>5. ASSUME NEW u \in wire', u.type = "ServerHello"
      PROVE  u.hello # h
  <2>1. u \in wire
    BY <1>1, <1>5 DEF ClientHello
  <2>2. u.hello[1] <= attempts /\ u.hello \in Hellos
    BY <1>5, <2>1 DEF LinkInv, Typed
  <2>3. u.hello[1] \in Nat
    BY <2>2 DEF Hellos
  <2> QED BY <1>2, <1>4, <2>2, <2>3
<1>6. PastInv'
  <2>1. PastClient'
    BY <1>1, <1>3, <1>4, <1>5 DEF PastClient, serverVars
  <2> QED BY <1>1, <2>1, PastKept DEF RecoveryInv
<1>7. ASSUME calm # Never
      PROVE  CalmInv'
  <2>1. CalmInv
    BY <1>7 DEF RecoveryInv
  <2>2. HelloSent'
    <3>1. h \notin Proven!Keys(replays)
      <4>1. \A x \in Proven!Keys(replays) : x[1] <= attempts /\ x[1] \in Nat
        BY HeldAreHellos DEF RecoveryInv, PastInv, PastTables
      <4> QED BY <1>2, <1>4, <4>1
    <3>2. ClientHello(client.hello)' = ClientHello(h)
      BY <1>1, <1>4 DEF ClientHello
    <3> QED BY <1>1, <1>4, <1>5, <3>1, <3>2 DEF HelloSent, serverVars
  <2>3. CalmHello'
    BY <1>1, <1>3, <1>4, <2>2 DEF CalmHello
  <2>4. ASSUME NEW u \in wire'
        PROVE  Current(u)'
    <3>1. CASE u \in wire
      <4>1. u.type # "ClientHello"
        BY <1>4, <2>1, <3>1 DEF CalmInv, Current
      <4> QED BY <1>1, <2>1, <3>1, <4>1, CurrentKept
    <3>2. CASE u = ClientHello(h)
      <4>1. u = ClientHello(client.hello)'
        BY <1>1, <1>4, <3>2 DEF ClientHello
      <4>2. u.type = "ClientHello" /\ u.addr = addr' /\ u.timestamp = now'
        BY <1>1, <3>2 DEF ClientHello
      <4> QED BY <1>4, <4>1, <4>2 DEF Current
    <3> QED BY <1>1, <3>1, <3>2
  <2>5. calm' \in 0 .. now'
    BY <1>1, <2>1 DEF CalmInv
  <2> QED BY <1>4, <2>3, <2>4, <2>5 DEF CalmInv
<1> QED BY <1>1, <1>6, <1>7 DEF RecoveryInv

\* A wait that begins in time is not too long.
LEMMA DelayedRecovers ==
  ASSUME LinkInv, RecoveryInv, Becomes(Delayed), wire' \subseteq wire,
         calm # Never => now <= Overdue /\ \A u \in wire' : u.type # "ClientHello"
  PROVE  RecoveryInv'
<1> DEFINE until == now + ReconnectDelay
<1>1. /\ client' = [phase |-> "delay", until |-> until]
      /\ UNCHANGED <<now, serverVars, addr, attempts, calm>>
  BY DEF Becomes, Delayed
<1>2. now \in Nat /\ ReconnectDelay \in Nat \ {0}
  BY Times
<1>3. client'.phase = "delay" /\ client'.until = until
  BY <1>1
<1>4. PastInv'
  <2>1. until \in now .. now + ReconnectDelay
    BY <1>2
  <2>2. PastClient'
    BY <1>1, <1>3, <2>1 DEF PastClient
  <2> QED BY <1>1, <2>2, PastKept DEF RecoveryInv
<1>5. ASSUME calm # Never
      PROVE  CalmInv'
  <2>1. CalmInv /\ calm \in Nat
    BY <1>5 DEF RecoveryInv, CalmInv
  <2>2. \A u \in wire' : Current(u)'
    BY <1>1, <1>5, <2>1, CurrentKept
  <2>3. Overdue \in Nat /\ Overdue' = Overdue
    BY <1>1, <2>1, Times DEF Overdue
  <2>4. until <= Overdue + ReconnectDelay /\ now < until
    BY <1>2, <1>5, <2>3
  <2>5. CalmDelay'
    BY <1>1, <1>3, <2>3, <2>4 DEF CalmDelay
  <2> QED BY <1>1, <1>3, <2>1, <2>2, <2>5 DEF CalmInv
<1> QED BY <1>1, <1>4, <1>5 DEF RecoveryInv

LEMMA IdleRecovers ==
  ASSUME LinkInv, RecoveryInv, Becomes(Idle), wire' \subseteq wire,
         calm # Never => \A u \in wire' : u.type # "ClientHello"
  PROVE  RecoveryInv'
<1>1. client' = Idle /\ UNCHANGED <<now, serverVars, addr, attempts, calm>>
  BY DEF Becomes
<1>2. client'.phase = "idle"
  BY <1>1 DEF Idle
<1>3. PastInv'
  BY <1>1, <1>2, PastKept DEF RecoveryInv, PastClient
<1>4. ASSUME calm # Never
      PROVE  CalmInv'
  <2>1. CalmInv
    BY <1>4 DEF RecoveryInv
  <2>2. \A u \in wire' : Current(u)'
    BY <1>1, <1>4, <2>1, CurrentKept
  <2> QED BY <1>1, <1>2, <2>1, <2>2 DEF CalmInv
<1> QED BY <1>1, <1>3, <1>4 DEF RecoveryInv

\* What a lost handshake waited for is overdue at last.
LEMMA TimesOutRecovers ==
  ASSUME LinkInv, RecoveryInv, TimesOut
  PROVE  RecoveryInv'
<1>1. /\ client.phase \in {"hello", "confirm"} /\ now >= client.until
      /\ Becomes(Delayed) /\ wire' = wire
  BY DEF TimesOut
<1>2. ASSUME calm # Never
      PROVE  now <= Overdue /\ wire = {}
  <2>1. CalmInv /\ calm \in Nat
    BY <1>2 DEF RecoveryInv, CalmInv
  <2>2. client.until \in Nat /\ now <= client.until /\ now \in Nat
    <3>1. CASE client.phase = "hello"
      <4>1. client.until \in now .. now + HandshakeTimeout
        BY <3>1 DEF RecoveryInv, PastInv, PastClient
      <4> QED BY <4>1, Times
    <3>2. CASE client.phase = "confirm"
      BY <3>2, Times DEF LinkInv, ClientInv
    <3> QED BY <1>1, <3>1, <3>2
  <2>3. Lost
    BY <1>1, <2>1, <2>2 DEF CalmInv, CalmHello, CalmConfirm
  <2>4. client.until <= calm + HandshakeTimeout /\ wire = {}
    BY <2>3 DEF Lost
  <2> QED BY <2>1, <2>2, <2>4, Times DEF Overdue
<1> QED BY <1>1, <1>2, DelayedRecovers

LEMMA WakesRecovers ==
  ASSUME LinkInv, RecoveryInv, Wakes
  PROVE  RecoveryInv'
<1>1. client.phase = "delay" /\ Becomes(Idle) /\ wire' = wire
  BY DEF Wakes
<1>2. ASSUME calm # Never, NEW u \in wire
      PROVE  u.type # "ClientHello"
  BY <1>1, <1>2 DEF RecoveryInv, CalmInv, Current
<1> QED BY <1>1, <1>2, IdleRecovers

\* A session the server has too does not expire for silence.
LEMMA ExpiresRecovers ==
  ASSUME Keepalive < PeerTimeout, LinkInv, RecoveryInv, Expires
  PROVE  RecoveryInv'
<1>1. /\ client.phase = "forward" /\ wire' = wire
      /\ Becomes(IF PeerSilent THEN Delayed ELSE Idle)
  BY DEF Expires
<1>2. ASSUME calm # Never, NEW u \in wire
      PROVE  u.type # "ClientHello"
  BY <1>1, <1>2 DEF RecoveryInv, CalmInv, Current
<1>3. ASSUME PeerSilent, calm # Never
      PROVE  now <= Overdue
  <2> DEFINE peer == client.peer
             pinged == client.pinged
             limit == Greater(PeerTimeout, HandshakeTimeout)
  <2>1. /\ client.peer <= calm \/ Recovered
        /\ calm \in 0 .. now
    BY <1>1, <1>3 DEF RecoveryInv, CalmInv, CalmForward
  <2>2. /\ peer \in 0 .. now /\ now - peer <= PeerTimeout
        /\ pinged \in 0 .. now /\ now - pinged <= Keepalive
    BY <1>1 DEF LinkInv, ClientInv, Timers
  <2>3. /\ now \in Nat /\ PeerTimeout \in Nat /\ Keepalive \in Nat
        /\ limit \in Nat /\ PeerTimeout <= limit
    BY Times
  <2>4. now - peer >= PeerTimeout
    BY <1>3 DEF PeerSilent
  <2>5. ~Recovered
    <3>1. Recovered => pinged <= peer \/ now - peer <= Keepalive
      BY DEF Recovered
    <3> HIDE DEF peer, pinged
    <3> QED BY <2>2, <2>3, <2>4, <3>1
  <2>6. peer <= calm
    BY <2>1, <2>5
  <2> HIDE DEF peer, pinged, limit
  <2>7. now <= calm + limit
    BY <2>1, <2>2, <2>3, <2>6
  <2> QED BY <2>7 DEF Overdue, limit
<1>4. CASE PeerSilent
  BY <1>1, <1>2, <1>3, <1>4, DelayedRecovers
<1>5. CASE ~PeerSilent
  BY <1>1, <1>2, <1>5, IdleRecovers
<1> QED BY <1>4, <1>5

\* What a session is known to have been used since, it was used since earlier too.
LEMMA InSessionSince ==
  ASSUME LinkInv, NEW key, NEW then \in Int, NEW since \in Int, since <= then,
         InSession(key, then)
  PROVE  InSession(key, since)
<1>1. PICK s \in Proven!ToSet(sessions) : s.addr = addr /\ s.key = key /\ then <= s.since
  BY DEF InSession
<1>2. s.since \in Int
  <2>1. s.since \in 0 .. now
    BY <1>1, Assumed, Proven!LiveKept DEF LinkInv
  <2> QED BY <2>1, Times
<1>3. since <= s.since
  BY <1>1, <1>2
<1> QED BY <1>1, <1>3 DEF InSession

LEMMA MetInSession ==
  ASSUME LinkInv, NEW key, NEW then \in Int, now - then < SessionTtl, InSession(key, then)
  PROVE  Met
<1>1. PICK s \in Proven!ToSet(sessions) : s.addr = addr /\ s.key = key /\ then <= s.since
  BY DEF InSession
<1>2. s.since \in Int
  <2>1. s.since \in 0 .. now
    BY <1>1, Assumed, Proven!LiveKept DEF LinkInv
  <2> QED BY <2>1, Times
<1>3. now - s.since < SessionTtl
  <2> DEFINE since == s.since
  <2>1. {now, SessionTtl} \subseteq Nat
    BY Times
  <2>2. since \in Int /\ then <= since
    BY <1>1, <1>2
  <2> HIDE DEF since
  <2>3. now - since < SessionTtl
    BY <2>1, <2>2
  <2> QED BY <2>3 DEF since
<1> QED BY <1>1, <1>3 DEF Met

\* The client's next ping goes to a session that does not hold it.
LEMMA PingRecovers ==
  ASSUME LinkInv, RecoveryInv, Ping
  PROVE  RecoveryInv'
<1>0. PICK key, p : key = client.key /\ p = Pings[client.next]
  OBVIOUS
<1> DEFINE c == [client EXCEPT !.pinged = now, !.next = @ + 1, !.expected = p]
           d == Data(key, p)
<1>1. /\ client.phase = "forward" /\ client.next <= Len(Pings)
      /\ now - client.pinged >= Keepalive
      /\ client' = c /\ wire' = wire \cup {d}
      /\ UNCHANGED <<now, serverVars, addr, attempts, calm>>
  BY <1>0 DEF Ping, Becomes, PingDue
<1>2. /\ client \in Forwarding /\ client.key \in 1 .. issued /\ Timers(client, now)
  BY <1>1 DEF LinkInv, ClientInv
<1>3. /\ now \in Nat /\ Keepalive \in Nat \ {0} /\ SessionTtl \in Nat /\ Keepalive < SessionTtl
      /\ PeerTimeout <= Greater(PeerTimeout, HandshakeTimeout) /\ PeerTimeout \in Nat
      /\ Greater(PeerTimeout, HandshakeTimeout) \in Nat
  BY Times
<1>4. /\ client.next \in 1 .. Len(Pings) /\ Len(Pings) \in Nat
      /\ client.peer \in 0 .. now /\ now - client.peer <= PeerTimeout
      /\ client.pinged \in 0 .. now /\ now - client.pinged <= Keepalive
  BY <1>1, <1>2, PingsDiffer DEF Timers
<1>5. /\ c.phase = "forward" /\ c.key = key /\ c.peer = client.peer /\ c.pinged = now
      /\ c.expected = p /\ c.next = client.next + 1
  <2> DEFINE next == client.next + 1
  <2>1. c = [client EXCEPT !.pinged = now, !.next = next, !.expected = p]
    OBVIOUS
  <2> HIDE DEF next, c
  <2>2. /\ c.phase = "forward" /\ c.key = client.key /\ c.peer = client.peer /\ c.pinged = now
        /\ c.expected = p /\ c.next = next
    BY ONLY <1>0, <1>2, <2>1 DEF Forwarding
  <2> QED BY <1>0, <2>2 DEF next
<1>6. p # Nothing /\ \A i \in 1 .. client.next - 1 : Pings[i] # p
  BY <1>0, <1>4, PingsDiffer DEF Nothing
<1>7. p # "confirm"
  BY <1>0, <1>4, PingsDiffer
<1>8. /\ d.type = "Data" /\ d.addr = addr /\ d.key = key /\ d.what = p /\ d.timestamp = now
  BY DEF Data
<1> HIDE DEF c, d
<1>9. Holding(sessions, key, Said(client.next - 1))
  BY <1>0, <1>1 DEF RecoveryInv, PastInv, PastClient
<1>10. PastInv'
  <2>1. Said(client.next - 1) \subseteq Said(c.next - 1)
    <3>1. 1 .. client.next - 1 \subseteq 1 .. c.next - 1
      BY <1>4, <1>5
    <3> QED BY <3>1 DEF Said
  <2>2. Holding(sessions', key, Said(c.next - 1))
    BY <1>1, <1>9, <2>1 DEF Holding, serverVars
  <2>3. PastClient'
    BY <1>1, <1>5, <2>2 DEF PastClient
  <2> QED BY <1>1, <2>3, PastKept DEF RecoveryInv
<1>11. ASSUME calm # Never
       PROVE  CalmInv'
  <2>1. CalmInv /\ calm \in 0 .. now
    BY <1>11 DEF RecoveryInv, CalmInv
  <2>2. /\ client.peer <= calm \/ Recovered
        /\ Vouched(key)
    BY <1>0, <1>1, <2>1 DEF CalmInv, CalmForward
  <2>3. ASSUME Recovered
        PROVE  InSession(key, now - Keepalive) /\ now - client.peer <= Keepalive
    <3>1. CASE InSession(key, client.pinged) /\ client.pinged <= client.peer
      <4> DEFINE peer == client.peer
                 pinged == client.pinged
      <4>1. /\ pinged \in 0 .. now /\ peer \in 0 .. now
            /\ now - pinged <= Keepalive /\ pinged <= peer
        BY <1>4, <3>1
      <4>2. InSession(key, pinged)
        BY <3>1
      <4> HIDE DEF peer, pinged
      <4>3. /\ now - peer <= Keepalive
            /\ now - Keepalive <= pinged /\ now - Keepalive \in Int /\ pinged \in Int
        BY <1>3, <4>1
      <4>4. InSession(key, now - Keepalive)
        BY <4>2, <4>3, InSessionSince
      <4> QED BY <4>3, <4>4 DEF peer
    <3>2. CASE now - client.peer <= Keepalive /\ OnWire("Pong", key, client.expected)
      <4>1. InSession(key, now)
        BY <2>2, <3>2 DEF OnWire, Vouched
      <4>2. now - Keepalive \in Int /\ now \in Int /\ now - Keepalive <= now
        BY <1>3
      <4>3. InSession(key, now - Keepalive)
        BY <4>1, <4>2, InSessionSince
      <4> QED BY <3>2, <4>3
    <3>3. client.pinged # now
      BY <1>1, <1>3
    <3> QED BY <1>0, <2>3, <3>1, <3>2, <3>3 DEF Recovered
  <2>4. ASSUME Recovered
        PROVE  Recovered'
    <3>1. OnWire("Data", key, p)'
      BY <1>1, <1>8 DEF OnWire
    <3>2. Said(client.next - 1) \subseteq Said(Len(Pings)) \ {p}
      <4>1. 1 .. client.next - 1 \subseteq 1 .. Len(Pings)
        BY <1>4
      <4> QED BY <1>6, <1>7, <4>1 DEF Said
    <3>3. Holding(sessions, key, Said(Len(Pings)) \ {p})
      BY <1>9, <3>2 DEF Holding
    <3>4. sessions' = sessions /\ now' = now /\ addr' = addr
      BY <1>1 DEF serverVars
    <3>5. InSession(key, now - Keepalive)' /\ now' - client'.peer <= Keepalive
      BY <1>1, <1>5, <2>3, <2>4, <3>4 DEF InSession
    <3>6. Holding(sessions, key, Said(Len(Pings)) \ {p})'
      BY <3>3, <3>4 DEF Holding, Said
    <3> QED BY <1>1, <1>5, <1>6, <3>1, <3>4, <3>5, <3>6 DEF Recovered, Holding, Said
  <2>5. Vouched(client.key)'
    <3>1. sessions' = sessions /\ now' = now /\ addr' = addr
      BY <1>1 DEF serverVars
    <3>2. \A u \in wire' : u.type = "Pong" => u \in wire
      BY <1>1, <1>8
    <3> QED BY <1>0, <1>1, <1>5, <2>2, <3>1, <3>2 DEF Vouched, InSession
  <2>6. CalmForward'
    BY <1>1, <1>5, <2>2, <2>4, <2>5 DEF CalmForward
  <2>7. ASSUME NEW u \in wire'
        PROVE  Current(u)'
    <3>1. CASE u \in wire
      <4>1. u.type # "ClientHello"
        BY <1>1, <2>1, <3>1 DEF CalmInv, Current
      <4> QED BY <1>1, <2>1, <3>1, <4>1, CurrentKept
    <3>2. CASE u = d
      <4>1. Overdue < now => Recovered
        <5> DEFINE peer == client.peer
                   limit == Greater(PeerTimeout, HandshakeTimeout)
        <5>1. /\ peer \in 0 .. now /\ now - peer <= PeerTimeout
              /\ PeerTimeout <= limit /\ limit \in Nat
              /\ peer <= calm \/ Recovered
          BY <1>3, <1>4, <2>2
        <5> HIDE DEF peer, limit
        <5>2. calm + limit < now => Recovered
          BY <1>3, <2>1, <5>1
        <5> QED BY <5>2 DEF Overdue, limit
      <4>2. Recovered => Met
        <5>1. now - Keepalive \in Int /\ now - (now - Keepalive) < SessionTtl
          BY <1>3
        <5> QED BY <2>3, <5>1, MetInSession
      <4>3. (Met <=> Met') /\ Overdue' = Overdue
        BY <1>1 DEF Met, Overdue, serverVars
      <4> QED BY <1>1, <1>8, <3>2, <4>1, <4>2, <4>3 DEF Current
    <3> QED BY <1>1, <3>1, <3>2
  <2> QED BY <1>1, <1>5, <2>1, <2>6, <2>7 DEF CalmInv
<1> QED BY <1>1, <1>10, <1>11 DEF RecoveryInv

\* A step of the client that takes the datagram m of a calm network.
LEMMA LeftCalm ==
  ASSUME calm # Never, NEW m \in wire
  PROVE  Left(m) = wire \ {m}
BY DEF Left

\* The confirmation goes to a pending session.
LEMMA ConfirmingRecovers ==
  ASSUME LinkInv, RecoveryInv, NEW m \in wire, Confirming(m)
  PROVE  RecoveryInv'
<1> DEFINE d == Data(m.key, "confirm")
           until == now + HandshakeTimeout
<1>1. /\ client.phase = "hello" /\ m.type = "ServerHello" /\ m.hello = client.hello
      /\ client' = [phase |-> "confirm", key |-> m.key, until |-> until]
      /\ wire' = Left(m) \cup {d}
      /\ UNCHANGED <<now, serverVars, addr, attempts, calm>>
  BY DEF Confirming, Answered, Becomes
<1>2. now \in Nat /\ HandshakeTimeout \in Nat \ {0} /\ PendingTtl \in Nat /\ 0 < PendingTtl
  BY Times
<1>3. /\ client'.phase = "confirm" /\ client'.key = m.key /\ client'.until = until
  BY <1>1
<1>4. /\ d.type = "Data" /\ d.addr = addr /\ d.key = m.key /\ d.what = "confirm"
      /\ d.timestamp = now
  BY DEF Data
<1> HIDE DEF d
<1>5. PastInv'
  <2>1. \A s \in Proven!ToSet(sessions) : s.key # m.key
    BY <1>1 DEF RecoveryInv, PastInv, PastClient
  <2>2. PastClient'
    BY <1>1, <1>3, <2>1 DEF PastClient, Holding, serverVars
  <2> QED BY <1>1, <2>2, PastKept DEF RecoveryInv
<1>6. ASSUME calm # Never
      PROVE  CalmInv'
  <2>1. CalmInv /\ calm \in 0 .. now
    BY <1>6 DEF RecoveryInv, CalmInv
  <2>2. HelloAnswered
    BY <1>1, <2>1 DEF CalmInv, CalmHello, Lost, HelloSent
  <2>3. InPending(m.key)
    BY <1>1, <2>2 DEF HelloAnswered
  <2>4. \A u \in wire' : u \in wire \/ u = d
    BY <1>1, LeftIsLess
  <2>5. ConfirmSent'
    <3>1. OnWire("Data", m.key, "confirm")'
      BY <1>1, <1>4 DEF OnWire
    <3>2. InPending(m.key)'
      BY <1>1, <2>3 DEF InPending, serverVars
    <3> QED BY <1>3, <3>1, <3>2 DEF ConfirmSent, OnWire, InPending
  <2>6. Vouched(client.key)'
    <3>1. \A u \in wire : Used(u) => u.key < m.key /\ u.key \in 1 .. issued /\ m.key \in 1 .. issued
      <4>1. Begun(wire, client.hello)
        BY <1>1 DEF LinkInv, ClientInv
      <4> QED BY <1>1, <4>1 DEF LinkInv, Typed, Used, Begun
    <3>2. ASSUME NEW u \in wire', u.type = "Pong"
          PROVE  u.key # m.key
      <4>1. u \in wire /\ Used(u)
        BY <1>4, <2>4, <3>2 DEF Used
      <4> QED BY <3>1, <4>1
    <3> QED BY <1>3, <3>2 DEF Vouched
  <2>7. CalmConfirm'
    BY <1>1, <1>2, <1>3, <2>5, <2>6 DEF CalmConfirm
  <2>8. ASSUME NEW u \in wire'
        PROVE  Current(u)'
    <3>1. CASE u \in wire
      <4>1. u.type # "ClientHello"
        BY <2>2, <3>1 DEF HelloAnswered
      <4> QED BY <1>1, <2>1, <3>1, <4>1, CurrentKept
    <3>2. CASE u = d
      <4>1. Met
        <5>1. PICK p \in Proven!ToSet(pending) : p.addr = addr /\ now <= p.since
          BY <2>3 DEF InPending
        <5>2. p.since \in 0 .. now
          BY <5>1, Assumed, Proven!LiveKept DEF LinkInv
        <5>3. now - p.since < PendingTtl
          BY <1>2, <5>1, <5>2
        <5> QED BY <5>1, <5>3 DEF Met
      <4>2. Met'
        BY <1>1, <4>1 DEF Met, serverVars
      <4> QED BY <1>1, <1>4, <3>2, <4>2 DEF Current
    <3> QED BY <2>4, <3>1, <3>2
  <2> QED BY <1>1, <1>3, <2>1, <2>7, <2>8 DEF CalmInv
<1> QED BY <1>1, <1>5, <1>6 DEF RecoveryInv

\* Its answer comes from a session.
LEMMA ConnectedRecovers ==
  ASSUME LinkInv, RecoveryInv, NEW m \in wire, Connected(m)
  PROVE  RecoveryInv'
<1>0. PICK key : key = client.key
  OBVIOUS
<1> DEFINE c == [phase |-> "forward", key |-> client.key, started |-> now, peer |-> now,
                 pinged |-> now, expected |-> Nothing, next |-> 1,
                 home |-> addr, answered |-> m.timestamp]
<1>1. /\ client.phase = "confirm" /\ m.type = "Pong" /\ m.key = key /\ m.what = "confirm"
      /\ client' = c /\ wire' \subseteq wire
      /\ UNCHANGED <<now, serverVars, addr, attempts, calm>>
  BY <1>0, LeftIsLess DEF Connected, Confirmed, Authenticates, Becomes
<1>2. now \in Nat
  BY Times
<1>3. /\ c.phase = "forward" /\ c.key = key /\ c.peer = now /\ c.pinged = now /\ c.next = 1
  BY <1>0
<1> HIDE DEF c
<1>4. PastInv'
  <2>1. Holding(sessions, key, Said(0))
    BY <1>0, <1>1 DEF RecoveryInv, PastInv, PastClient
  <2>2. PastClient'
    <3>1. c.next - 1 = 0
      BY <1>3
    <3> QED BY <1>1, <1>3, <2>1, <3>1 DEF PastClient, Holding, serverVars
  <2> QED BY <1>1, <2>2, PastKept DEF RecoveryInv
<1>5. ASSUME calm # Never
      PROVE  CalmInv'
  <2>1. CalmInv
    BY <1>5 DEF RecoveryInv
  <2>2. Vouched(key)
    BY <1>0, <1>1, <2>1 DEF CalmInv, CalmConfirm, Lost
  <2>3. InSession(key, now)
    BY <1>1, <2>2 DEF Vouched
  <2>4. sessions' = sessions /\ now' = now /\ addr' = addr
    BY <1>1 DEF serverVars
  <2>5. Recovered'
    <3>1. InSession(key, now)' /\ now <= now
      BY <1>2, <2>3, <2>4 DEF InSession
    <3> QED BY <1>1, <1>3, <2>3, <2>4, <3>1 DEF Recovered, InSession
  <2>6. Vouched(client.key)'
    BY <1>1, <1>3, <2>2, <2>4 DEF Vouched, InSession
  <2>7. CalmForward'
    BY <2>5, <2>6 DEF CalmForward
  <2>8. ASSUME NEW u \in wire'
        PROVE  Current(u)'
    <3>1. u.type # "ClientHello"
      BY <1>1, <2>1 DEF CalmInv, Current
    <3> QED BY <1>1, <2>1, <3>1, CurrentKept
  <2> QED BY <1>1, <1>3, <2>1, <2>7, <2>8 DEF CalmInv
<1> QED BY <1>1, <1>4, <1>5 DEF RecoveryInv

\* So does a pong.
LEMMA KeptAliveRecovers ==
  ASSUME LinkInv, RecoveryInv, NEW m \in wire, KeptAlive(m)
  PROVE  RecoveryInv'
<1>0. PICK key : key = client.key
  OBVIOUS
<1> DEFINE c == [client EXCEPT !.peer = now, !.expected = Nothing, !.answered = m.timestamp]
<1>1. /\ client.phase = "forward" /\ m.type = "Pong" /\ m.key = key
      /\ client' = c /\ wire' \subseteq wire
      /\ UNCHANGED <<now, serverVars, addr, attempts, calm>>
  BY <1>0, LeftIsLess DEF KeptAlive, Ponged, Authenticates, Becomes
<1>2. now \in Nat /\ client \in Forwarding /\ client.pinged \in 0 .. now
  BY <1>1, Times DEF LinkInv, ClientInv, Timers
<1>3. /\ c.phase = "forward" /\ c.key = key /\ c.peer = now /\ c.pinged = client.pinged
      /\ c.next = client.next
  BY <1>0, <1>2 DEF Forwarding
<1> HIDE DEF c
<1>4. PastInv'
  <2>1. Holding(sessions, key, Said(client.next - 1))
    BY <1>0, <1>1 DEF RecoveryInv, PastInv, PastClient
  <2>2. PastClient'
    BY <1>1, <1>3, <2>1 DEF PastClient, Holding, serverVars
  <2> QED BY <1>1, <2>2, PastKept DEF RecoveryInv
<1>5. ASSUME calm # Never
      PROVE  CalmInv'
  <2>1. CalmInv
    BY <1>5 DEF RecoveryInv
  <2>2. Vouched(key)
    BY <1>0, <1>1, <2>1 DEF CalmInv, CalmForward
  <2>3. InSession(key, now)
    BY <1>1, <2>2 DEF Vouched
  <2>4. sessions' = sessions /\ now' = now /\ addr' = addr
    BY <1>1 DEF serverVars
  <2>5. Recovered'
    <3>1. client.pinged <= now /\ client.pinged \in Int /\ now \in Int
      BY <1>2
    <3>2. InSession(key, client.pinged)
      BY <2>3, <3>1, InSessionSince
    <3> QED BY <1>1, <1>3, <2>4, <3>1, <3>2 DEF Recovered, InSession
  <2>6. Vouched(client.key)'
    BY <1>1, <1>3, <2>2, <2>4 DEF Vouched, InSession
  <2>7. CalmForward'
    BY <2>5, <2>6 DEF CalmForward
  <2>8. ASSUME NEW u \in wire'
        PROVE  Current(u)'
    <3>1. u.type # "ClientHello"
      BY <1>1, <2>1 DEF CalmInv, Current
    <3> QED BY <1>1, <2>1, <3>1, CurrentKept
  <2> QED BY <1>1, <1>3, <2>1, <2>7, <2>8 DEF CalmInv
<1> QED BY <1>1, <1>4, <1>5 DEF RecoveryInv

\* The server says that it has no session while waits of before may last, no later.
LEMMA GivesUpRecovers ==
  ASSUME LinkInv, RecoveryInv, NEW m \in wire, GivesUp(m)
  PROVE  RecoveryInv'
<1>1. /\ m.type = "NoSession" /\ client.phase \in {"confirm", "forward"}
      /\ Becomes(Delayed) /\ wire' \subseteq wire
  BY LeftIsLess DEF GivesUp, Rejected
<1>2. ASSUME calm # Never
      PROVE  now <= Overdue /\ \A u \in wire' : u.type # "ClientHello"
  <2>1. CalmInv /\ Current(m) /\ calm \in 0 .. now
    BY <1>2 DEF RecoveryInv, CalmInv
  <2>2. now \in Nat /\ Overdue \in Nat
    BY <2>1, Times DEF Overdue
  <2>3. now <= Overdue
    BY <1>1, <2>1, <2>2 DEF Current
  <2> QED BY <1>1, <2>1, <2>3 DEF CalmInv, Current
<1> QED BY <1>1, <1>2, DelayedRecovers

\* What the client drops is not what it waits for.
LEMMA DropsRecovers ==
  ASSUME LinkInv, RecoveryInv, NEW m \in wire, Drops(m),
         m.type \in {"ServerHello", "Pong", "NoSession"}
  PROVE  RecoveryInv'
<1>1. /\ ~(Answered(m) \/ Confirmed(m) \/ Ponged(m)) /\ wire' = Left(m) /\ wire' \subseteq wire
      /\ client' = client /\ UNCHANGED <<now, serverVars, addr, attempts, calm>>
  BY LeftIsLess DEF Drops, Becomes
<1>2. sessions' = sessions /\ pending' = pending /\ replays' = replays
  BY <1>1 DEF serverVars
<1>3. PastInv'
  <2>1. PastClient'
    BY <1>1, <1>2 DEF RecoveryInv, PastInv, PastClient, Holding
  <2> QED BY <1>1, <2>1, PastKept DEF RecoveryInv
<1>4. ASSUME calm # Never
      PROVE  CalmInv'
  <2>1. CalmInv /\ wire' = wire \ {m}
    BY <1>1, <1>4, LeftCalm DEF RecoveryInv
  <2>2. \A u \in wire' : Current(u)'
    BY <1>1, <2>1, CurrentKept
  <2>3. Overdue' = Overdue
    BY <1>1 DEF Overdue
  <2>4. client.phase = "delay" => CalmDelay'
    BY <1>1, <2>1, <2>3 DEF CalmInv, CalmDelay
  <2>5. ASSUME client.phase = "hello"
        PROVE  CalmHello'
    <3>1. now < client.until /\ (HelloSent \/ HelloAnswered)
      BY <2>1, <2>5 DEF CalmInv, CalmHello, Lost
    <3>2. ClientHello(client.hello)' = ClientHello(client.hello) /\ ClientHello(client.hello) # m
      BY <1>1 DEF ClientHello
    <3>3. HelloSent => HelloSent'
      BY <1>1, <1>2, <2>1, <3>2 DEF HelloSent
    <3>4. ASSUME HelloAnswered
          PROVE  HelloAnswered'
      <4>1. ~(m.type = "ServerHello" /\ m.hello = client.hello)
        BY <1>1, <2>5 DEF Answered
      <4>2. ~\E u \in wire' : u.type = "ClientHello"
        BY <2>1, <3>4 DEF HelloAnswered
      <4>3. \E u \in wire' : u.type = "ServerHello" /\ u.hello = client'.hello
        BY <1>1, <2>1, <3>4, <4>1 DEF HelloAnswered
      <4>4. \A u \in wire' : u.type = "ServerHello" /\ u.hello = client'.hello => InPending(u.key)'
        BY <1>1, <1>2, <2>1, <3>4 DEF HelloAnswered, InPending
      <4> QED BY <4>2, <4>3, <4>4 DEF HelloAnswered
    <3> QED BY <1>1, <3>1, <3>3, <3>4 DEF CalmHello
  <2>6. ASSUME client.phase = "confirm"
        PROVE  CalmConfirm'
    <3> DEFINE key == client.key
    <3>1. now < client.until /\ ConfirmSent /\ Vouched(key)
      BY <2>1, <2>6 DEF CalmInv, CalmConfirm, Lost
    <3>2. ~(m.type = "Pong" /\ m.key = key /\ m.what = "confirm")
      BY <1>1, <2>6 DEF Confirmed, Authenticates
    <3>3. OnWire("Pong", key, "confirm") => OnWire("Pong", key, "confirm")'
      BY <1>1, <2>1, <3>2 DEF OnWire
    <3>4. OnWire("Data", key, "confirm") => OnWire("Data", key, "confirm")'
      BY <1>1, <2>1 DEF OnWire
    <3>5. Vouched(key)' /\ (InPending(key) => InPending(key)')
      BY <1>1, <1>2, <2>1, <3>1 DEF Vouched, InSession, InPending
    <3> QED BY <1>1, <3>1, <3>3, <3>4, <3>5 DEF CalmConfirm, ConfirmSent
  <2>7. ASSUME client.phase = "forward"
        PROVE  CalmForward'
    <3> DEFINE key == client.key
               ping == client.expected
    <3>1. (client.peer <= calm \/ Recovered) /\ Vouched(key)
      BY <2>1, <2>7 DEF CalmInv, CalmForward
    <3>2. ~(m.type = "Pong" /\ m.key = key /\ m.what = ping)
      BY <1>1, <2>7 DEF Ponged, Authenticates
    <3>3. OnWire("Pong", key, ping) => OnWire("Pong", key, ping)'
      BY <1>1, <2>1, <3>2 DEF OnWire
    <3>4. OnWire("Data", key, ping) => OnWire("Data", key, ping)'
      BY <1>1, <2>1 DEF OnWire
    <3>5. Vouched(key)'
      BY <1>1, <1>2, <3>1 DEF Vouched, InSession
    <3>6. Recovered => Recovered'
      BY <1>1, <1>2, <3>3, <3>4 DEF Recovered, InSession, Holding
    <3> QED BY <1>1, <3>1, <3>5, <3>6 DEF CalmForward
  <2> QED BY <1>1, <2>1, <2>2, <2>4, <2>5, <2>6, <2>7 DEF CalmInv
<1> QED BY <1>1, <1>3, <1>4 DEF RecoveryInv

-----------------------------------------------------------------------------
(* The faults, the clock and the result.                                   *)

\* A wait that runs when the network calms down ends in time.
LEMMA CalmsDownRecovers ==
  ASSUME LinkInv, RecoveryInv, CalmsDown
  PROVE  RecoveryInv'
<1>1. calm' = now /\ wire' = {} /\ UNCHANGED <<now, serverVars, client, addr, attempts>>
  BY DEF CalmsDown, clientVars
<1>2. PastInv'
  <2>1. PastClient'
    BY <1>1 DEF RecoveryInv, PastInv, PastClient, Holding, serverVars
  <2> QED BY <1>1, <2>1, PastKept DEF RecoveryInv
<1>3. /\ now \in Nat /\ {HandshakeTimeout, ReconnectDelay} \subseteq Nat
      /\ Greater(PeerTimeout, HandshakeTimeout) \in Nat
  BY Times
<1>4. ASSUME client.phase = "delay"
      PROVE  CalmDelay'
  <2>1. client.until \in now .. now + ReconnectDelay
    BY <1>4 DEF RecoveryInv, PastInv, PastClient
  <2> DEFINE until == client.until
             limit == Greater(PeerTimeout, HandshakeTimeout)
  <2>2. until <= now + limit + ReconnectDelay
    <3>1. until \in now .. now + ReconnectDelay /\ limit \in Nat
      BY <1>3, <2>1
    <3> HIDE DEF until, limit
    <3> QED BY <1>3, <3>1
  <2>3. Overdue' = now + limit
    BY <1>1 DEF Overdue
  <2> QED BY <1>1, <2>2, <2>3 DEF CalmDelay
<1>5. ASSUME client.phase \in {"hello", "confirm"}
      PROVE  Lost'
  <2>1. client.until <= now + HandshakeTimeout
    <3>1. CASE client.phase = "hello"
      <4>1. client.until \in now .. now + HandshakeTimeout
        BY <3>1 DEF RecoveryInv, PastInv, PastClient
      <4> QED BY <1>3, <4>1
    <3>2. CASE client.phase = "confirm"
      BY <3>2 DEF LinkInv, ClientInv
    <3> QED BY <1>5, <3>1, <3>2
  <2> QED BY <1>1, <2>1 DEF Lost
<1>6. ASSUME client.phase = "forward"
      PROVE  CalmForward'
  <2>1. client.peer <= now
    BY <1>3, <1>6 DEF LinkInv, ClientInv, Timers
  <2> QED BY <1>1, <2>1 DEF CalmForward, Vouched
<1>7. now \in 0 .. now
  BY <1>3
<1>8. CalmInv'
  BY <1>1, <1>4, <1>5, <1>6, <1>7 DEF CalmInv, CalmHello, CalmConfirm
<1> QED BY <1>2, <1>8 DEF RecoveryInv

\* Before that, only the past counts.
LEMMA FaultRecovers ==
  ASSUME LinkInv, RecoveryInv, SocketError \/ ClientRestarts \/ Rebind \/ ServerRestarts
  PROVE  RecoveryInv'
<1>1. calm = Never /\ calm' = calm
  BY DEF SocketError, ClientRestarts, Rebind, ServerRestarts, Fault, clientVars
<1>2. CASE SocketError
  <2>1. /\ client' = [phase |-> "delay", until |-> now + ReconnectDelay]
        /\ UNCHANGED <<now, serverVars, attempts>>
    BY <1>2 DEF SocketError, Delayed
  <2>2. now + ReconnectDelay \in now .. now + ReconnectDelay
    BY Times
  <2>3. PastClient'
    BY <2>1, <2>2 DEF PastClient
  <2> QED BY <1>1, <2>1, <2>3, PastKept DEF RecoveryInv
<1>3. CASE ClientRestarts
  <2>1. client' = Idle /\ UNCHANGED <<now, serverVars, attempts>>
    BY <1>3 DEF ClientRestarts
  <2>2. PastClient'
    BY <2>1 DEF PastClient, Idle
  <2> QED BY <1>1, <2>1, <2>2, PastKept DEF RecoveryInv
<1>4. CASE Rebind
  <2>1. UNCHANGED <<now, serverVars, client, attempts, wire>>
    BY <1>4 DEF Rebind
  <2>2. PastClient'
    BY <2>1 DEF RecoveryInv, PastInv, PastClient, Holding, serverVars
  <2> QED BY <1>1, <2>1, <2>2, PastKept DEF RecoveryInv
<1>5. CASE ServerRestarts
  <2>1. /\ sessions' = <<>> /\ pending' = <<>> /\ replays' = <<>>
        /\ UNCHANGED <<now, client, attempts, wire>>
    BY <1>5 DEF ServerRestarts, clientVars
  <2>2. Proven!ToSet(<<>>) = {} /\ Proven!Keys(<<>>) = {}
    BY DEF Proven!ToSet, Proven!Keys
  <2>3. PastTables'
    BY <2>1, <2>2 DEF PastTables
  <2>4. PastClient'
    BY <2>1, <2>2 DEF RecoveryInv, PastInv, PastClient, Holding
  <2> QED BY <1>1, <2>3, <2>4 DEF RecoveryInv, PastInv
<1> QED BY <1>2, <1>3, <1>4, <1>5

\* The clock moves when nothing is on its way.
LEMMA TickRecovers ==
  ASSUME LinkInv, RecoveryInv, Tick
  PROVE  RecoveryInv'
<1>1. /\ Settled /\ now' = now + 1 /\ wire' \subseteq wire
      /\ UNCHANGED <<sessions, pending, replays>>
      /\ UNCHANGED <<client, addr, attempts, calm>>
  BY DEF Tick, Server!Tick, clientVars
<1>2. now \in Nat /\ {HandshakeTimeout, ReconnectDelay} \subseteq Nat
  BY Times
<1>3. PastInv'
  <2>1. ASSUME client.phase \in {"delay", "hello"}, NEW wait \in Nat,
               client.until \in now .. now + wait
        PROVE  client.until \in now + 1 .. now + 1 + wait
    <3> DEFINE until == client.until
    <3>1. now < until /\ until \in now .. now + wait
      BY <1>1, <2>1 DEF Settled
    <3> HIDE DEF until
    <3>2. until \in now + 1 .. now + 1 + wait
      BY <1>2, <3>1
    <3> QED BY <3>2 DEF until
  <2>2. PastClient'
    BY <1>1, <1>2, <2>1 DEF RecoveryInv, PastInv, PastClient, Holding
  <2>3. PastTables'
    BY <1>1 DEF RecoveryInv, PastInv, PastTables
  <2> QED BY <2>2, <2>3 DEF PastInv
<1>4. ASSUME calm # Never
      PROVE  CalmInv'
  <2>1. CalmInv /\ wire = {} /\ wire' = {}
    BY <1>1, <1>4 DEF RecoveryInv, Settled
  <2>2. Overdue' = Overdue
    BY <1>1 DEF Overdue
  <2>3. client.phase = "delay" => CalmDelay'
    BY <1>1, <2>1, <2>2 DEF CalmInv, CalmDelay
  <2>4. client.phase \in {"hello", "confirm"} => Lost'
    BY <1>1, <2>1 DEF CalmInv, CalmHello, CalmConfirm, Lost, HelloSent, HelloAnswered,
                      ConfirmSent, OnWire
  <2>5. client.phase = "forward" => CalmForward'
    BY <1>1, <2>1 DEF CalmInv, CalmForward, Recovered, OnWire, InSession, Vouched
  <2>6. calm' \in 0 .. now'
    BY <1>1, <1>2, <2>1 DEF CalmInv
  <2> QED BY <1>1, <2>1, <2>3, <2>4, <2>5, <2>6 DEF CalmInv, CalmHello, CalmConfirm
<1> QED BY <1>1, <1>3, <1>4 DEF RecoveryInv

LEMMA RecoveryAlways ==
  ASSUME Keepalive < PeerTimeout
  PROVE  Spec => []RecoveryInv
<1>1. Init => RecoveryInv
  <2> SUFFICES ASSUME Init PROVE RecoveryInv
    OBVIOUS
  <2>1. /\ pending = <<>> /\ replays = <<>>
        /\ client.phase = "idle" /\ calm = Never
    BY SameTick DEF Init, Idle, Proven!Init
  <2>2. Proven!ToSet(<<>>) = {} /\ Proven!Keys(<<>>) = {}
    BY DEF Proven!ToSet, Proven!Keys
  <2> QED BY <2>1, <2>2 DEF RecoveryInv, PastInv, PastTables, PastClient
<1>2. LinkInv /\ RecoveryInv /\ [Next]_vars => RecoveryInv'
  <2> SUFFICES ASSUME LinkInv, RecoveryInv, [Next]_vars PROVE RecoveryInv'
    OBVIOUS
  <2>1. CASE ServerTakes
    <3>1. calm' = calm
      BY <2>1 DEF ServerTakes
    <3> QED BY <2>1, <3>1, PastServed, CalmServed DEF RecoveryInv
  <2>2. CASE ClientTakes
    <3>1. PICK m \in wire :
            /\ m.type \in {"ServerHello", "Pong", "NoSession"}
            /\ Confirming(m) \/ Connected(m) \/ KeptAlive(m) \/ GivesUp(m) \/ Drops(m)
      BY <2>2 DEF ClientTakes
    <3> QED BY <3>1, ConfirmingRecovers, ConnectedRecovers, KeptAliveRecovers,
               GivesUpRecovers, DropsRecovers
  <2>3. CASE ClientActs
    BY <2>3, BeginRecovers, TimesOutRecovers, WakesRecovers, ExpiresRecovers, PingRecovers
       DEF ClientActs
  <2>4. CASE UNCHANGED vars
    <3>1. UNCHANGED <<now, serverVars, client, addr, attempts, wire, calm>>
      BY <2>4 DEF vars, clientVars
    <3>2. PastInv'
      BY <3>1 DEF RecoveryInv, PastInv, PastTables, PastClient, Holding, serverVars
    <3>3. CalmInv => CalmInv'
      <4>1. (CalmDelay => CalmDelay') /\ (CalmHello => CalmHello')
        BY <3>1 DEF CalmDelay, CalmHello, Overdue, Lost, HelloSent, HelloAnswered, InPending,
                    ClientHello, serverVars
      <4>2. CalmConfirm => CalmConfirm'
        BY <3>1 DEF CalmConfirm, Lost, ConfirmSent, OnWire, InPending, Vouched, InSession,
                    serverVars
      <4>3. CalmForward => CalmForward'
        BY <3>1 DEF CalmForward, Recovered, OnWire, Vouched, InSession, Holding, serverVars
      <4>4. CalmInv => \A u \in wire' : Current(u)'
        BY <3>1, CurrentKept
      <4> QED BY <3>1, <4>1, <4>2, <4>3, <4>4 DEF CalmInv
    <3> QED BY <3>1, <3>2, <3>3 DEF RecoveryInv
  <2> QED BY <2>1, <2>2, <2>3, <2>4, CalmsDownRecovers, FaultRecovers, TickRecovers DEF Next
<1> QED BY <1>1, <1>2, LinkAlways, PTL DEF Spec

\* perform_handshake and forward_loop of src/nmea_sproxy/nmea_sproxy.py with
\* _secure_server_loop of src/aismixer_secure.py: where pings are sent more often
\* than the peer may stay silent, a calm network has a session both sides hold again
\* after the longest wait that may be running and one reconnect delay, whatever was
\* lost, repeated or forgotten before.
THEOREM RecoveryIsInTime ==
  ASSUME Keepalive < PeerTimeout
  PROVE  Spec => []RecoversInTime
<1>1. ASSUME LinkInv, RecoveryInv
      PROVE  RecoversInTime
  <2> DEFINE limit == Greater(PeerTimeout, HandshakeTimeout)
             until == client.until
             peer == client.peer
             pinged == client.pinged
  <2> SUFFICES ASSUME calm # Never, Settled, now >= calm + limit + ReconnectDelay
               PROVE  Linked
    BY DEF RecoversInTime
  <2>1. CalmInv /\ calm \in 0 .. now /\ wire = {}
    BY <1>1 DEF RecoveryInv, CalmInv, Settled
  <2>2. /\ now \in Nat /\ limit \in Nat /\ PeerTimeout <= limit /\ HandshakeTimeout <= limit
        /\ {HandshakeTimeout, ReconnectDelay, Keepalive, PeerTimeout} \subseteq Nat \ {0}
        /\ SessionTtl \in Nat /\ Keepalive < SessionTtl
    BY <1>1, Times
  <2> HIDE DEF limit
  <2>3. ~(now < calm + limit + ReconnectDelay) /\ ~(now < calm + HandshakeTimeout)
        /\ ~(now < calm + PeerTimeout)
    BY <2>1, <2>2
  <2>4. client.phase # "idle"
    BY DEF Settled
  <2>5. client.phase # "delay"
    <3> SUFFICES ASSUME client.phase = "delay" PROVE FALSE
      OBVIOUS
    <3>1. until <= calm + limit + ReconnectDelay /\ now < until
      BY <2>1 DEF CalmInv, CalmDelay, Overdue, Settled, limit
    <3>2. until \in now .. now + ReconnectDelay
      BY <1>1 DEF RecoveryInv, PastInv, PastClient
    <3> HIDE DEF until
    <3> QED BY <2>1, <2>2, <2>3, <3>1, <3>2
  <2>6. client.phase \notin {"hello", "confirm"}
    <3> SUFFICES ASSUME client.phase \in {"hello", "confirm"} PROVE FALSE
      OBVIOUS
    <3>1. until <= calm + HandshakeTimeout /\ now < until
      BY <2>1 DEF CalmInv, CalmHello, CalmConfirm, Lost, HelloSent, HelloAnswered,
                  ConfirmSent, OnWire, Settled
    <3>2. until \in Nat
      <4>1. CASE client.phase = "hello"
        <5>1. until \in now .. now + HandshakeTimeout
          BY <1>1, <4>1 DEF RecoveryInv, PastInv, PastClient
        <5> QED BY <2>2, <5>1
      <4>2. CASE client.phase = "confirm"
        BY <1>1, <4>2 DEF LinkInv, ClientInv
      <4> QED BY <4>1, <4>2
    <3> HIDE DEF until
    <3> QED BY <2>1, <2>2, <2>3, <3>1, <3>2
  <2>7. client.phase = "forward"
    BY <1>1, <2>4, <2>5, <2>6 DEF RecoveryInv, PastInv, PastClient
  <2>8. ~(now - peer >= PeerTimeout) /\ peer \in 0 .. now /\ pinged \in 0 .. now
        /\ ~(now - pinged >= Keepalive)
    BY <1>1, <2>7 DEF Settled, PeerSilent, PingDue, LinkInv, ClientInv, Timers
  <2>9. ~(client.peer <= calm)
    <3> SUFFICES ~(peer <= calm)
      OBVIOUS
    <3> HIDE DEF peer, pinged
    <3> QED BY <2>1, <2>2, <2>3, <2>8
  <2>10. InSession(client.key, pinged)
    BY <2>1, <2>7, <2>9 DEF CalmInv, CalmForward, Recovered, OnWire
  <2>11. PICK s \in Proven!ToSet(sessions) :
           s.addr = addr /\ s.key = client.key /\ pinged <= s.since
    BY <2>10 DEF InSession
  <2>12. s \in Proven!ToSet(Proven!S)
    <3>1. /\ now - s.since < SessionTtl => s \in Proven!ToSet(Proven!S)
          /\ s.since \in 0 .. now
      BY <1>1, <2>11, Assumed, Proven!LiveKept DEF LinkInv
    <3> DEFINE since == s.since
    <3>2. since \in 0 .. now /\ pinged <= since
      BY <2>11, <3>1
    <3> HIDE DEF since, pinged
    <3>3. now - since < SessionTtl
      BY <2>2, <2>8, <3>2
    <3> QED BY <3>1, <3>3 DEF since
  <2>13. Proven!Has(Proven!S, addr) /\ Proven!Entry(Proven!S, addr).key = client.key
    <3>1. Proven!Has(Proven!S, addr)
      BY <2>11, <2>12 DEF Proven!Has, Proven!ToSet
    <3>2. Proven!Table(Proven!S, now, issued)
      BY <1>1, Assumed, Proven!CleanedTables
         DEF LinkInv, Proven!SecureInv, Proven!Cleaned, Proven!Tables
    <3>3. Proven!Entry(Proven!S, addr) = s
      BY <2>11, <2>12, <3>1, <3>2, Assumed, Proven!EntryOf, Proven!OneEntryEach
    <3> QED BY <2>11, <3>1, <3>3
  <2> QED BY <2>7, <2>13, SameTables, SameCleanup DEF Linked
<1> QED BY <1>1, LinkAlways, RecoveryAlways, PTL

-----------------------------------------------------------------------------
(* Lines on their way.                                                     *)

Rise(s) == \A i, j \in DOMAIN s : i < j => s[i] < s[j]

Below(A, B) == \A x \in A, y \in B : x < y

\* A line that goes from the head of one sequence to the end of the one before it.
LEMMA OneMoves ==
  ASSUME NEW u \in Seq(Nat), NEW v \in Seq(Nat), v # <<>>,
         Rise(u), Rise(v), Below(ToSet(u), ToSet(v))
  PROVE  /\ Head(v) \in Nat /\ Head(v) \in ToSet(v)
         /\ Append(u, Head(v)) \in Seq(Nat) /\ Rise(Append(u, Head(v)))
         /\ ToSet(Append(u, Head(v))) = ToSet(u) \cup {Head(v)}
         /\ Tail(v) \in Seq(Nat) /\ Rise(Tail(v))
         /\ ToSet(Tail(v)) = ToSet(v) \ {Head(v)}
         /\ \A x \in ToSet(Tail(v)) : Head(v) < x
<1> DEFINE h == Head(v)
           w == Tail(v)
           a == Append(u, h)
<1>1. /\ Len(v) \in Nat \ {0} /\ DOMAIN v = 1 .. Len(v) /\ h = v[1] /\ h \in Nat
      /\ w \in Seq(Nat) /\ Len(w) = Len(v) - 1 /\ DOMAIN w = 1 .. Len(v) - 1
      /\ \A i \in 1 .. Len(v) - 1 : w[i] = v[i + 1]
      /\ \A i \in 1 .. Len(v) : v[i] \in Nat
  <2>1. Len(v) \in Nat \ {0} /\ DOMAIN v = 1 .. Len(v)
    BY EmptySeq, LenProperties
  <2>2. h = v[1] /\ h \in Nat /\ w \in Seq(Nat) /\ Len(w) = Len(v) - 1
    BY HeadTailProperties
  <2>3. \A i \in 1 .. Len(v) - 1 : w[i] = v[i + 1]
    BY <2>1
  <2>4. \A i \in 1 .. Len(v) : v[i] \in Nat
    BY <2>1, ElementOfSeq
  <2> QED BY <2>1, <2>2, <2>3, <2>4, LenProperties
<1>2. /\ Len(u) \in Nat /\ DOMAIN u = 1 .. Len(u) /\ \A i \in 1 .. Len(u) : u[i] \in Nat
      /\ a \in Seq(Nat) /\ DOMAIN a = 1 .. Len(u) + 1 /\ a[Len(u) + 1] = h
      /\ \A i \in 1 .. Len(u) : a[i] = u[i]
  <2>1. Len(u) \in Nat /\ DOMAIN u = 1 .. Len(u) /\ \A i \in 1 .. Len(u) : u[i] \in Nat
    BY LenProperties, ElementOfSeq
  <2> QED BY <1>1, <2>1, AppendProperties, LenProperties
<1> HIDE DEF h, w, a
<1>3. h \in ToSet(v) /\ \A x \in ToSet(u) : x < h
  <2>1. h \in ToSet(v)
    <3>1. 1 \in DOMAIN v
      BY <1>1
    <3> QED BY <1>1, <3>1 DEF ToSet
  <2> QED BY <2>1 DEF Below
<1>4. ToSet(a) = ToSet(u) \cup {h}
  <2>1. ASSUME NEW i \in DOMAIN a
        PROVE  a[i] \in ToSet(u) \cup {h}
    <3>1. i \in 1 .. Len(u) \/ i = Len(u) + 1
      BY <1>2
    <3> QED BY <1>2, <3>1 DEF ToSet
  <2>2. \A x \in ToSet(u) : x \in ToSet(a)
    BY <1>2 DEF ToSet
  <2>3. h \in ToSet(a)
    <3>1. Len(u) + 1 \in DOMAIN a
      BY <1>2
    <3> QED BY <1>2, <3>1 DEF ToSet
  <2> QED BY <2>1, <2>2, <2>3 DEF ToSet
<1>5. Rise(a)
  <2> SUFFICES ASSUME NEW i \in DOMAIN a, NEW j \in DOMAIN a, i < j
               PROVE  a[i] < a[j]
    BY DEF Rise
  <2>1. i \in 1 .. Len(u) /\ a[i] = u[i]
    BY <1>2
  <2>2. CASE j \in 1 .. Len(u)
    BY <1>2, <2>1, <2>2 DEF Rise
  <2>3. CASE j = Len(u) + 1
    BY <1>2, <1>3, <2>1, <2>3 DEF ToSet
  <2> QED BY <1>2, <2>2, <2>3
<1>6. ASSUME NEW i \in DOMAIN w
      PROVE  i \in Nat /\ i + 1 \in DOMAIN v /\ w[i] = v[i + 1] /\ h < w[i]
  <2> DEFINE n == Len(v)
  <2>0. n \in Nat /\ i \in 1 .. n - 1 /\ DOMAIN v = 1 .. n /\ w[i] = v[i + 1]
    BY <1>1
  <2> HIDE DEF n
  <2>1. i \in Nat /\ i + 1 \in DOMAIN v /\ 1 \in DOMAIN v /\ 1 < i + 1 /\ w[i] = v[i + 1]
    BY ONLY <2>0
  <2>2. v[1] < v[i + 1]
    BY <2>1 DEF Rise
  <2> QED BY <1>1, <2>1, <2>2
<1>7. Rise(w)
  <2> SUFFICES ASSUME NEW i \in DOMAIN w, NEW j \in DOMAIN w, i < j
               PROVE  w[i] < w[j]
    BY DEF Rise
  <2>1. i + 1 < j + 1
    BY <1>6
  <2>2. /\ i + 1 \in DOMAIN v /\ j + 1 \in DOMAIN v
        /\ w[i] = v[i + 1] /\ w[j] = v[j + 1]
    BY <1>6
  <2> QED BY <2>1, <2>2 DEF Rise
<1>8. \A x \in ToSet(w) : h < x
  BY <1>6 DEF ToSet
<1>9. ToSet(w) = ToSet(v) \ {h}
  <2>1. ASSUME NEW x \in ToSet(w)
        PROVE  x \in ToSet(v) \ {h}
    <3>1. PICK i \in DOMAIN w : x = w[i]
      BY DEF ToSet
    <3>2. h < x /\ x = v[i + 1] /\ i + 1 \in DOMAIN v /\ x \in Nat
      BY <1>1, <1>6, <3>1
    <3>3. x \in ToSet(v)
      BY <3>2 DEF ToSet
    <3>4. x # h
      BY <1>1, <3>2
    <3> QED BY <3>3, <3>4
  <2>2. ASSUME NEW x \in ToSet(v), x # h
        PROVE  x \in ToSet(w)
    <3>1. PICK i \in DOMAIN v : x = v[i]
      BY DEF ToSet
    <3>2. i - 1 \in DOMAIN w /\ w[i - 1] = x
      <4>1. i \in 1 .. Len(v) /\ i # 1
        BY <1>1, <2>2, <3>1
      <4>2. i - 1 \in 1 .. Len(v) - 1 /\ i - 1 + 1 = i
        <5> DEFINE n == Len(v)
        <5>1. n \in Nat /\ i \in 1 .. n /\ i # 1
          BY <1>1, <4>1
        <5> HIDE DEF n
        <5>2. i - 1 \in 1 .. n - 1 /\ i - 1 + 1 = i
          BY ONLY <5>1
        <5> QED BY <5>2 DEF n
      <4> QED BY <1>1, <3>1, <4>2
    <3> QED BY <3>2 DEF ToSet
  <2> QED BY <2>1, <2>2
<1> QED BY <1>1, <1>2, <1>3, <1>4, <1>5, <1>7, <1>8, <1>9 DEF h, w, a

\* Two sequences one after the other.
LEMMA OneAfterTheOther ==
  ASSUME NEW u \in Seq(Nat), NEW v \in Seq(Nat),
         Rise(u), Rise(v), Below(ToSet(u), ToSet(v))
  PROVE  u \o v \in Seq(Nat) /\ Rise(u \o v) /\ ToSet(u \o v) = ToSet(u) \cup ToSet(v)
<1> DEFINE a == u \o v
<1>1. /\ Len(u) \in Nat /\ DOMAIN u = 1 .. Len(u) /\ Len(v) \in Nat /\ DOMAIN v = 1 .. Len(v)
      /\ a \in Seq(Nat) /\ DOMAIN a = 1 .. Len(u) + Len(v)
      /\ \A i \in 1 .. Len(u) : a[i] = u[i]
      /\ \A i \in 1 .. Len(v) : a[Len(u) + i] = v[i]
  <2>1. Len(u) \in Nat /\ DOMAIN u = 1 .. Len(u) /\ Len(v) \in Nat /\ DOMAIN v = 1 .. Len(v)
    BY LenProperties
  <2>2. a \in Seq(Nat) /\ Len(a) = Len(u) + Len(v)
        /\ \A i \in 1 .. Len(a) : a[i] = IF i <= Len(u) THEN u[i] ELSE v[i - Len(u)]
    BY ConcatProperties
  <2>3. DOMAIN a = 1 .. Len(u) + Len(v)
    BY <2>2, LenProperties
  <2> HIDE DEF a
  <2>4. \A i \in 1 .. Len(u) : a[i] = u[i]
    BY <2>1, <2>2
  <2>5. ASSUME NEW i \in 1 .. Len(v)
        PROVE  a[Len(u) + i] = v[i]
    <3>1. Len(u) + i \in 1 .. Len(a) /\ ~(Len(u) + i <= Len(u)) /\ Len(u) + i - Len(u) = i
      BY <2>1, <2>2
    <3> QED BY <2>2, <3>1
  <2> QED BY <2>1, <2>2, <2>3, <2>4, <2>5
<1> HIDE DEF a
<1>2. ASSUME NEW i \in DOMAIN a
      PROVE  \/ i \in 1 .. Len(u) /\ a[i] = u[i]
             \/ ~(i <= Len(u)) /\ i - Len(u) \in 1 .. Len(v) /\ a[i] = v[i - Len(u)]
  <2>1. CASE i <= Len(u)
    BY <1>1, <2>1
  <2>2. CASE ~(i <= Len(u))
    <3>1. i - Len(u) \in 1 .. Len(v) /\ Len(u) + (i - Len(u)) = i
      BY <1>1, <2>2
    <3> QED BY <1>1, <2>2, <3>1
  <2> QED BY <2>1, <2>2
<1>3. ToSet(a) = ToSet(u) \cup ToSet(v)
  <2>1. \A x \in ToSet(a) : x \in ToSet(u) \cup ToSet(v)
    BY <1>1, <1>2 DEF ToSet
  <2>2. \A x \in ToSet(u) : x \in ToSet(a)
    BY <1>1 DEF ToSet
  <2>3. \A i \in 1 .. Len(v) : Len(u) + i \in DOMAIN a
    BY <1>1
  <2>4. \A x \in ToSet(v) : x \in ToSet(a)
    BY <1>1, <2>3 DEF ToSet
  <2> QED BY <2>1, <2>2, <2>4
<1>4. ASSUME NEW i \in DOMAIN a, NEW j \in DOMAIN a, i < j
      PROVE  a[i] < a[j]
  <2>1. CASE i \in 1 .. Len(u) /\ a[i] = u[i] /\ j \in 1 .. Len(u) /\ a[j] = u[j]
    BY <1>1, <1>4, <2>1 DEF Rise
  <2>2. CASE /\ i \in 1 .. Len(u) /\ a[i] = u[i]
             /\ j - Len(u) \in 1 .. Len(v) /\ a[j] = v[j - Len(u)]
    BY <1>1, <2>2 DEF Below, ToSet
  <2>3. CASE /\ ~(i <= Len(u)) /\ i - Len(u) \in 1 .. Len(v) /\ a[i] = v[i - Len(u)]
             /\ j - Len(u) \in 1 .. Len(v) /\ a[j] = v[j - Len(u)]
    <3>1. i - Len(u) < j - Len(u)
      BY <1>1, <1>4
    <3> QED BY <1>1, <2>3, <3>1 DEF Rise
  <2>4. CASE ~(i <= Len(u)) /\ j \in 1 .. Len(u)
    BY <1>1, <1>4, <2>4
  <2> QED BY <1>2, <2>1, <2>2, <2>3, <2>4
<1> QED BY <1>1, <1>3, <1>4 DEF a, Rise

-----------------------------------------------------------------------------
(* The fold of feed, unrolled.                                             *)

\* A set of numbers has a least one.
LEMMA LeastNumber ==
  ASSUME NEW S, S \subseteq Nat, S # {}
  PROVE  \E n \in S : \A m \in S : n <= m
<1>1. PICK n \in S : \A m \in S : ~(<<m, n>> \in OpToRel(<, Nat))
  BY NatLessThanWellFounded, WFMin, Zenon
<1>2. \A m \in S : ~(m < n)
  BY <1>1 DEF OpToRel
<1> QED BY <1>2, n \in Nat, \A m \in S : m \in Nat

\* The fold as the library defines it, over the sets of places.
Folding(iter, base, bytes, S) ==
  iter = [t \in SUBSET S |->
            IF t = {} THEN base ELSE Fed(iter[t \ {Max(t)}], bytes[Max(t)])]

LEMMA BytesAreFolded ==
  ASSUME NEW base, NEW bytes
  PROVE  FoldLeft(Fed, base, bytes)
           = (CHOOSE iter : Folding(iter, base, bytes, DOMAIN bytes))[DOMAIN bytes]
BY DEF FoldLeft, MapThenFoldSet, Folding

\* The greatest place of those up to n.
LEMMA MaxOf ==
  ASSUME NEW n \in Nat, NEW t \in SUBSET (1 .. n), n \in t
  PROVE  Max(t) = n
<1>1. n \in t /\ \A y \in t : n >= y
  OBVIOUS
<1>2. \A x \in t : (\A y \in t : x >= y) => x = n
  <2>1. \A x \in t : x \in Int
    OBVIOUS
  <2> QED BY <2>1
<1> QED BY <1>1, <1>2 DEF Max

Places(iter, base, bytes, n) ==
  \A t \in SUBSET (1 .. n) :
    iter[t] = IF t = {} THEN base ELSE Fed(iter[t \ {Max(t)}], bytes[Max(t)])

LEMMA FoldingAt ==
  ASSUME NEW base, NEW bytes, NEW n \in Nat, NEW iter, Folding(iter, base, bytes, 1 .. n)
  PROVE  Places(iter, base, bytes, n)
BY DEF Folding, Places

\* There is such a function.
LEMMA FoldingExists ==
  ASSUME NEW base, NEW bytes, NEW n \in Nat
  PROVE  \E iter : Folding(iter, base, bytes, 1 .. n)
<1> DEFINE Exists(m) == \E iter : Folding(iter, base, bytes, 1 .. m)
           Missing == {m \in Nat : ~Exists(m)}
<1>1. Exists(0)
  <2> DEFINE g == [t \in SUBSET {} |-> base]
  <2>1. Folding(g, base, bytes, {})
    <3>1. \A t \in SUBSET {} : t = {}
      OBVIOUS
    <3>2. g = [t \in SUBSET {} |-> IF t = {} THEN base ELSE Fed(g[t \ {Max(t)}], bytes[Max(t)])]
      BY <3>1
    <3> QED BY <3>2 DEF Folding
  <2>2. 1 .. 0 = {}
    OBVIOUS
  <2> QED BY <2>1, <2>2
<1>2. ASSUME NEW m \in Nat, Exists(m)
      PROVE  Exists(m + 1)
  <2>1. PICK g : Folding(g, base, bytes, 1 .. m)
    BY <1>2
  <2> DEFINE h == [t \in SUBSET (1 .. m + 1) |->
                     IF m + 1 \in t THEN Fed(g[t \ {m + 1}], bytes[m + 1]) ELSE g[t]]
             E(t) == IF t = {} THEN base ELSE Fed(h[t \ {Max(t)}], bytes[Max(t)])
  <2>2. \A t \in SUBSET (1 .. m) :
          g[t] = IF t = {} THEN base ELSE Fed(g[t \ {Max(t)}], bytes[Max(t)])
    <3>1. Places(g, base, bytes, m)
      BY ONLY <1>2, <2>1, FoldingAt
    <3> QED BY ONLY <3>1 DEF Places
  <2>3. \A t \in SUBSET (1 .. m + 1) : m + 1 \notin t => t \in SUBSET (1 .. m)
    OBVIOUS
  <2>4. ASSUME NEW t \in SUBSET (1 .. m + 1)
        PROVE  h[t] = E(t)
    <3>1. CASE m + 1 \in t
      <4>1. t # {} /\ Max(t) = m + 1 /\ t \ {m + 1} \in SUBSET (1 .. m + 1)
            /\ m + 1 \notin t \ {m + 1}
        BY <3>1, MaxOf
      <4>2. h[t \ {m + 1}] = g[t \ {m + 1}] /\ h[t] = Fed(g[t \ {m + 1}], bytes[m + 1])
        BY <3>1, <4>1
      <4> HIDE DEF h
      <4> QED BY <4>1, <4>2
    <3>2. CASE m + 1 \notin t
      <4>1. t \in SUBSET (1 .. m) /\ t \ {Max(t)} \in SUBSET (1 .. m + 1) /\ m + 1 \notin t \ {Max(t)}
        BY <2>3, <3>2
      <4>2. h[t] = g[t] /\ h[t \ {Max(t)}] = g[t \ {Max(t)}]
        BY <3>2, <4>1
      <4> HIDE DEF h
      <4> QED BY <2>2, <4>1, <4>2
    <3> QED BY <3>1, <3>2
  <2>5. h = [t \in SUBSET (1 .. m + 1) |-> h[t]]
    OBVIOUS
  <2>6. Folding(h, base, bytes, 1 .. m + 1)
    <3> HIDE DEF h
    <3>1. h = [t \in SUBSET (1 .. m + 1) |-> E(t)]
      BY <2>4, <2>5
    <3> QED BY <3>1 DEF Folding
  <2> QED BY <2>6
<1> HIDE DEF Exists
<1>3. Missing = {}
  <2> SUFFICES ASSUME Missing # {} PROVE FALSE
    OBVIOUS
  <2>1. PICK m \in Missing : \A l \in Missing : m <= l
    BY LeastNumber
  <2>2. m \in Nat /\ m # 0 /\ ~Exists(m)
    BY <1>1, <2>1
  <2>3. m - 1 \in Nat /\ m - 1 + 1 = m /\ ~(m <= m - 1)
    BY <2>2
  <2>4. Exists(m - 1)
    BY <2>1, <2>3
  <2> QED BY <1>2, <2>2, <2>3, <2>4
<1> QED BY <1>3 DEF Exists

\* The framer after each byte of a chunk.
LEMMA FeedRuns ==
  ASSUME NEW base, NEW bytes, NEW n \in Nat, DOMAIN bytes = 1 .. n
  PROVE  \E a : /\ a[0] = base
                /\ \A m \in 1 .. n : a[m] = Fed(a[m - 1], bytes[m])
                /\ a[n] = FoldLeft(Fed, base, bytes)
<1> DEFINE iter == CHOOSE it : Folding(it, base, bytes, 1 .. n)
<1>1. FoldLeft(Fed, base, bytes) = iter[1 .. n]
  BY BytesAreFolded
<1>2. Places(iter, base, bytes, n)
  <2>1. Folding(iter, base, bytes, 1 .. n)
    BY FoldingExists
  <2> HIDE DEF iter
  <2> QED BY <2>1, FoldingAt
<1> HIDE DEF iter
<1> DEFINE a == [m \in 0 .. n |-> iter[1 .. m]]
<1>3. a[0] = base /\ a[n] = iter[1 .. n]
  <2>1. 1 .. 0 = {} /\ 0 \in 0 .. n /\ n \in 0 .. n /\ 1 .. 0 \in SUBSET (1 .. n)
    OBVIOUS
  <2> QED BY <1>2, <2>1 DEF Places
<1>4. ASSUME NEW m \in 1 .. n
      PROVE  a[m] = Fed(a[m - 1], bytes[m])
  <2>1. m \in 0 .. n /\ m - 1 \in 0 .. n /\ m \in Nat /\ m \in 1 .. m
    OBVIOUS
  <2>2. 1 .. m \in SUBSET (1 .. n) /\ 1 .. m # {}
    <3> HIDE DEF a
    <3>1. \A l \in 1 .. m : l \in 1 .. n
      OBVIOUS
    <3> QED BY <2>1, <3>1
  <2>3. Max(1 .. m) = m
    BY <2>1, MaxOf
  <2>4. (1 .. m) \ {m} = 1 .. m - 1
    OBVIOUS
  <2>5. a[m] = iter[1 .. m] /\ a[m - 1] = iter[1 .. m - 1]
    BY <2>1
  <2> HIDE DEF a
  <2> QED BY <1>2, <2>2, <2>3, <2>4, <2>5 DEF Places
<1> HIDE DEF a
<1> QED BY <1>1, <1>3, <1>4

\* The framer with the lines of the chunk so far.
Framing ==
  [lines : Seq(Seq(Nat)), overlong : Nat, buffer : Seq(Nat), discarding : BOOLEAN, cr : BOOLEAN]

LEMMA FedFrames ==
  ASSUME NEW f \in Framing, NEW b \in Nat
  PROVE  Fed(f, b) \in Framing
<1> DEFINE g == [f EXCEPT !.cr = b = CR]
<1>1. g \in Framing
  BY DEF Framing
<1> HIDE DEF g
<1>2. Finished(g) \in Framing
  <2>1. Append(g.lines, g.buffer) \in Seq(Seq(Nat)) /\ <<>> \in Seq(Nat)
    BY <1>1, AppendProperties DEF Framing
  <2> QED BY <1>1, <2>1 DEF Finished, Framing
<1>3. Kept(g, b) \in Framing
  <2>1. Append(g.buffer, b) \in Seq(Nat) /\ <<>> \in Seq(Nat) /\ g.overlong + 1 \in Nat
    BY <1>1, AppendProperties DEF Framing
  <2> QED BY <1>1, <2>1 DEF Kept, Framing
<1> QED BY <1>1, <1>2, <1>3 DEF Fed, g

Framer == [buffer : Seq(Nat), discarding : BOOLEAN, cr : BOOLEAN]

\* Whatever the chunk, there are lines and a framer after it.
LEMMA FeedFrames ==
  ASSUME NEW f \in Framer, NEW n \in Nat, NEW bytes \in [1 .. n -> Nat]
  PROVE  Feed(f, bytes) \in Framing
<1> DEFINE base == [buffer |-> f.buffer, discarding |-> f.discarding, cr |-> f.cr,
                    lines |-> <<>>, overlong |-> 0]
<1>1. base \in Framing
  <2>1. <<>> \in Seq(Seq(Nat))
    OBVIOUS
  <2> QED BY <2>1 DEF Framer, Framing
<1> HIDE DEF base
<1>2. PICK a : /\ a[0] = base
               /\ \A m \in 1 .. n : a[m] = Fed(a[m - 1], bytes[m])
               /\ a[n] = FoldLeft(Fed, base, bytes)
  BY FeedRuns
<1> DEFINE Bad == {m \in 0 .. n : a[m] \notin Framing}
<1>3. Bad = {}
  <2> SUFFICES ASSUME Bad # {} PROVE FALSE
    OBVIOUS
  <2>1. Bad \subseteq Nat
    OBVIOUS
  <2>2. PICK m \in Bad : \A l \in Bad : m <= l
    BY <2>1, LeastNumber
  <2>3. m # 0 /\ m \in 0 .. n /\ a[m] \notin Framing
    BY <1>1, <1>2
  <2>4. m \in 1 .. n /\ m - 1 \in 0 .. n /\ ~(m <= m - 1)
    BY <2>3
  <2>5. a[m - 1] \in Framing /\ bytes[m] \in Nat
    BY <2>2, <2>4
  <2> QED BY <1>2, <2>3, <2>4, <2>5, FedFrames
<1> QED BY <1>2, <1>3 DEF Feed, base

-----------------------------------------------------------------------------
(* The invariant.                                                          *)

\* Where the reading thread has lines to queue, and where it has none.
Putting == {"putting", "dropping", "putting again"}

Around == {"starting", "ended", "opening", "opened", "testing", "reading", "releasing"}

RelayPlaces ==
  {"taking", "sending", "recreating", "closing", "looking up", "closing port", "joining", "ended"}

\* The k-th sentence of line n is <<n, k>>.
Pair == Nat \X Nat

Fates == [displaced : SUBSET Nat, lost : SUBSET Nat, searched : SUBSET Nat,
          found : SUBSET Pair, cut : SUBSET Pair]

Shapes ==
  /\ reader \in [at : Putting \cup Around, mine : Nat, todo : Seq(Nat)]
  /\ relay \in [at : RelayPlaces, batch : Seq(Nat), out : Seq(Pair), port : Nat]
  /\ sent \in Seq(Pair) /\ queue \in Seq(Nat) /\ lines \in Seq(Seq(Nat))
  /\ framer \in Framer
  /\ counts \in [dropped : Nat, overlong : Nat]
  /\ fate \in Fates
  /\ budget \in [bytes : Nat, openings : Nat, failures : Nat]
  /\ current \in Nat

\* The lines searched, S, and those taken, queued and yet to queue follow one another.
Moving(S, b, q, t) ==
  /\ S \subseteq Nat
  /\ Rise(b) /\ Rise(q) /\ Rise(t)
  /\ Below(S, ToSet(b)) /\ Below(S, ToSet(q)) /\ Below(S, ToSet(t))
  /\ Below(ToSet(b), ToSet(q)) /\ Below(ToSet(b), ToSet(t))
  /\ Below(ToSet(q), ToSet(t))

\* A line is among them or among those displaced, D, and lost, L; n lines were framed.
Told(S, B, Q, T, D, L, n) ==
  /\ S \cup B \cup Q \cup T \cup D \cup L = 1 .. n
  /\ (S \cup B \cup Q \cup T) \cap (D \cup L) = {} /\ D \cap L = {}
  /\ Below(D, Q \cup T)

\* The sentences sent and about to be, a, are in order, those cut come after the
\* others of their line, and these are all the sentences, F, found in the lines S.
Parts(a, X, F, S) ==
  /\ \A i, j \in DOMAIN a : i < j => Precedes(a[i], a[j])
  /\ F = ToSet(a) \cup X /\ ToSet(a) \cap X = {}
  /\ \A c \in X, s \in ToSet(a) : c[1] = s[1] => s[2] < c[2]
  /\ \A s \in F : s[1] \in S

SerialInv ==
  /\ Shapes
  /\ reader.at \in Putting <=> reader.todo # <<>>
  /\ Len(queue) <= QueueLines
  /\ Moving(fate.searched, relay.batch, queue, reader.todo)
  /\ Told(fate.searched, ToSet(relay.batch), ToSet(queue), ToSet(reader.todo),
          fate.displaced, fate.lost, Len(lines))
  /\ IsFiniteSet(fate.displaced) /\ Cardinality(fate.displaced) <= counts.dropped
  /\ Parts(sent \o relay.out, fate.cut, fate.found, fate.searched)

\* A line moves on, from one sequence to the one before it.
LEMMA PutMoves ==
  ASSUME NEW S, NEW b \in Seq(Nat), NEW q \in Seq(Nat), NEW t \in Seq(Nat),
         Moving(S, b, q, t), t # <<>>
  PROVE  /\ Head(t) \in ToSet(t) /\ Append(q, Head(t)) \in Seq(Nat) /\ Tail(t) \in Seq(Nat)
         /\ ToSet(Append(q, Head(t))) = ToSet(q) \cup {Head(t)}
         /\ ToSet(Tail(t)) = ToSet(t) \ {Head(t)}
         /\ Moving(S, b, Append(q, Head(t)), Tail(t))
<1> DEFINE h == Head(t)
<1>1. /\ h \in ToSet(t) /\ Append(q, h) \in Seq(Nat) /\ Tail(t) \in Seq(Nat)
      /\ Rise(Append(q, h)) /\ Rise(Tail(t))
      /\ ToSet(Append(q, h)) = ToSet(q) \cup {h}
      /\ ToSet(Tail(t)) = ToSet(t) \ {h}
      /\ \A x \in ToSet(Tail(t)) : h < x
  BY OneMoves DEF Moving
<1> HIDE DEF h
<1>2. Moving(S, b, Append(q, h), Tail(t))
  BY <1>1 DEF Moving, Below
<1> QED BY <1>1, <1>2 DEF h

\* What a sequence of lines holds once one more is put at its end.
LEMMA OneMore ==
  ASSUME NEW u \in Seq(Nat), NEW x \in Nat
  PROVE  ToSet(Append(u, x)) = ToSet(u) \cup {x}
<1> DEFINE a == Append(u, x)
<1>1. /\ Len(u) \in Nat /\ DOMAIN u = 1 .. Len(u) /\ DOMAIN a = 1 .. Len(u) + 1
      /\ a[Len(u) + 1] = x /\ \A i \in 1 .. Len(u) : a[i] = u[i]
  BY AppendProperties, LenProperties
<1> HIDE DEF a
<1>2. ASSUME NEW i \in DOMAIN a
      PROVE  a[i] \in ToSet(u) \cup {x}
  <2>1. CASE i = Len(u) + 1
    BY <1>1, <2>1
  <2>2. CASE i # Len(u) + 1
    <3>1. i \in DOMAIN u /\ a[i] = u[i]
      BY <1>1, <2>2
    <3> QED BY <3>1 DEF ToSet
  <2> QED BY <2>1, <2>2
<1>3. ASSUME NEW i \in DOMAIN u
      PROVE  u[i] \in ToSet(a)
  <2>1. i \in DOMAIN a /\ a[i] = u[i]
    BY <1>1
  <2> QED BY <2>1 DEF ToSet
<1>4. x \in ToSet(a)
  <2>1. Len(u) + 1 \in DOMAIN a
    BY <1>1
  <2> QED BY <1>1, <2>1 DEF ToSet
<1>5. ToSet(a) \subseteq ToSet(u) \cup {x}
  BY <1>2 DEF ToSet
<1>6. ToSet(u) \subseteq ToSet(a)
  BY <1>3 DEF ToSet
<1> QED BY <1>4, <1>5, <1>6 DEF a

\* A line leaves the queue, for the batch or for good.
LEMMA TakeMoves ==
  ASSUME NEW S, NEW b \in Seq(Nat), NEW q \in Seq(Nat), NEW t \in Seq(Nat),
         Moving(S, b, q, t), q # <<>>
  PROVE  /\ Head(q) \in ToSet(q) /\ Append(b, Head(q)) \in Seq(Nat) /\ Tail(q) \in Seq(Nat)
         /\ ToSet(Append(b, Head(q))) = ToSet(b) \cup {Head(q)}
         /\ ToSet(Tail(q)) = ToSet(q) \ {Head(q)} /\ \A x \in ToSet(Tail(q)) : Head(q) < x
         /\ Moving(S, Append(b, Head(q)), Tail(q), t) /\ Moving(S, b, Tail(q), t)
<1> DEFINE h == Head(q)
<1>1. /\ h \in ToSet(q) /\ Append(b, h) \in Seq(Nat) /\ Tail(q) \in Seq(Nat)
      /\ Rise(Append(b, h)) /\ Rise(Tail(q))
      /\ ToSet(Append(b, h)) = ToSet(b) \cup {h}
      /\ ToSet(Tail(q)) = ToSet(q) \ {h}
      /\ \A x \in ToSet(Tail(q)) : h < x
  BY OneMoves DEF Moving
<1> HIDE DEF h
<1>2. Moving(S, Append(b, h), Tail(q), t) /\ Moving(S, b, Tail(q), t)
  BY <1>1 DEF Moving, Below
<1> QED BY <1>1, <1>2 DEF h

\* A line of the batch is searched.
LEMMA SearchMoves ==
  ASSUME NEW S, NEW b \in Seq(Nat), NEW q \in Seq(Nat), NEW t \in Seq(Nat),
         Moving(S, b, q, t), b # <<>>
  PROVE  /\ Head(b) \in ToSet(b) /\ Head(b) \in Nat /\ Tail(b) \in Seq(Nat)
         /\ ToSet(Tail(b)) = ToSet(b) \ {Head(b)}
         /\ \A n \in S : n < Head(b)
         /\ Moving(S \cup {Head(b)}, Tail(b), q, t)
<1> DEFINE h == Head(b)
<1>1. /\ h \in ToSet(b) /\ h \in Nat /\ Tail(b) \in Seq(Nat)
      /\ Rise(Tail(b))
      /\ ToSet(Tail(b)) = ToSet(b) \ {h}
      /\ \A x \in ToSet(Tail(b)) : h < x
  <2>1. Rise(<<>>) /\ Below(ToSet(<<>>), ToSet(b)) /\ <<>> \in Seq(Nat)
    BY DEF Rise, Below, ToSet
  <2> QED BY <2>1, OneMoves DEF Moving
<1> HIDE DEF h
<1>2. Moving(S \cup {h}, Tail(b), q, t) /\ \A n \in S : n < h
  BY <1>1 DEF Moving, Below
<1> QED BY <1>1, <1>2 DEF h

\* Nothing on the way is in two places.
LEMMA InOnePlace ==
  ASSUME NEW S, NEW b \in Seq(Nat), NEW q \in Seq(Nat), NEW t \in Seq(Nat),
         Moving(S, b, q, t)
  PROVE  /\ ToSet(b) \cap (S \cup ToSet(q) \cup ToSet(t)) = {}
         /\ ToSet(q) \cap (S \cup ToSet(b) \cup ToSet(t)) = {}
<1>1. S \cup ToSet(b) \cup ToSet(q) \cup ToSet(t) \subseteq Nat
  <2>1. \A r \in Seq(Nat) : ToSet(r) \subseteq Nat
    BY LenProperties, ElementOfSeq DEF ToSet
  <2> QED BY <2>1 DEF Moving
<1> DEFINE B == ToSet(b)
           Q == ToSet(q)
           T == ToSet(t)
<1>2. Below(S, B) /\ Below(S, Q) /\ Below(B, Q) /\ Below(B, T) /\ Below(Q, T)
  BY DEF Moving
<1> HIDE DEF B, Q, T
<1>3. S \cup B \cup Q \cup T \subseteq Nat
  BY <1>1 DEF B, Q, T
<1>4. B \cap S = {} /\ B \cap Q = {} /\ B \cap T = {} /\ Q \cap S = {} /\ Q \cap T = {}
  BY <1>2, <1>3 DEF Below
<1> QED BY <1>4 DEF B, Q, T

\* Two sequences of pairs, one after the other.
LEMMA Joined ==
  ASSUME NEW u \in Seq(Pair), NEW v \in Seq(Pair)
  PROVE  /\ u \o v \in Seq(Pair) /\ Len(u) \in Nat /\ Len(v) \in Nat
         /\ DOMAIN u = 1 .. Len(u) /\ DOMAIN v = 1 .. Len(v)
         /\ DOMAIN (u \o v) = 1 .. Len(u) + Len(v)
         /\ \A i \in 1 .. Len(u) : (u \o v)[i] = u[i]
         /\ \A i \in 1 .. Len(v) : (u \o v)[Len(u) + i] = v[i]
         /\ ToSet(u \o v) = ToSet(u) \cup ToSet(v)
         /\ \A x \in ToSet(u) : \E i \in 1 .. Len(u) : x = u[i]
         /\ \A x \in ToSet(v) : \E i \in 1 .. Len(v) : x = v[i]
         /\ ToSet(u) \cup ToSet(v) \subseteq Pair
<1> DEFINE a == u \o v
<1>1. /\ Len(u) \in Nat /\ DOMAIN u = 1 .. Len(u) /\ Len(v) \in Nat /\ DOMAIN v = 1 .. Len(v)
      /\ \A i \in 1 .. Len(u) : u[i] \in Pair
      /\ \A i \in 1 .. Len(v) : v[i] \in Pair
  BY LenProperties, ElementOfSeq
<1>2. /\ a \in Seq(Pair) /\ DOMAIN a = 1 .. Len(u) + Len(v)
      /\ \A i \in 1 .. Len(u) + Len(v) : a[i] = IF i <= Len(u) THEN u[i] ELSE v[i - Len(u)]
  BY ConcatProperties, LenProperties
<1> HIDE DEF a
<1>3. \A i \in 1 .. Len(u) : i \in DOMAIN a /\ a[i] = u[i]
  BY <1>1, <1>2
<1>4. ASSUME NEW i \in 1 .. Len(v)
      PROVE  Len(u) + i \in DOMAIN a /\ a[Len(u) + i] = v[i]
  <2>1. PICK k : k = Len(u) + i
    OBVIOUS
  <2>2. /\ k \in 1 .. Len(u) + Len(v) /\ ~(k <= Len(u)) /\ k - Len(u) = i
    BY <1>1, <2>1
  <2>3. a[k] = v[k - Len(u)] /\ k \in DOMAIN a
    BY <1>2, <2>2
  <2> QED BY <2>1, <2>2, <2>3
<1>5. ToSet(a) = ToSet(u) \cup ToSet(v)
  <2>1. ASSUME NEW i \in DOMAIN a
        PROVE  a[i] \in ToSet(u) \cup ToSet(v)
    <3>1. CASE i <= Len(u)
      <4>1. i \in DOMAIN u /\ a[i] = u[i]
        BY <1>1, <1>2, <3>1
      <4> QED BY <4>1 DEF ToSet
    <3>2. CASE ~(i <= Len(u))
      <4>1. i - Len(u) \in DOMAIN v /\ a[i] = v[i - Len(u)]
        BY <1>1, <1>2, <3>2
      <4> QED BY <4>1 DEF ToSet
    <3> QED BY <3>1, <3>2
  <2>2. ASSUME NEW x \in ToSet(u) \cup ToSet(v)
        PROVE  x \in ToSet(a)
    BY <1>1, <1>3, <1>4, <2>2 DEF ToSet
  <2>3. \A x \in ToSet(a) : x \in ToSet(u) \cup ToSet(v)
    BY <2>1 DEF ToSet
  <2> QED BY <2>2, <2>3
<1>6. /\ \A x \in ToSet(u) : \E i \in 1 .. Len(u) : x = u[i]
      /\ \A x \in ToSet(v) : \E i \in 1 .. Len(v) : x = v[i]
  BY <1>1 DEF ToSet
<1>7. ToSet(u) \cup ToSet(v) \subseteq Pair
  BY <1>1, <1>6
<1> QED BY <1>1, <1>2, <1>3, <1>4, <1>5, <1>6, <1>7 DEF a

\* The sentences of a line searched after the others.
LEMMA FoundIsLast ==
  ASSUME NEW a \in Seq(Pair), NEW X \in SUBSET Pair, NEW F, NEW S \in SUBSET Nat,
         NEW n \in Nat, NEW m \in Nat, \A s \in S : s < n, Parts(a, X, F, S)
  PROVE  LET p == [k \in 1 .. m |-> <<n, k>>]
         IN  p \in Seq(Pair) /\ Parts(a \o p, X, F \cup ToSet(p), S \cup {n})
<1> DEFINE p == [k \in 1 .. m |-> <<n, k>>]
           w == a \o p
<1>1. p \in Seq(Pair) /\ Len(p) = m /\ DOMAIN p = 1 .. m /\ \A k \in 1 .. m : p[k] = <<n, k>>
  <2>1. \A k \in 1 .. m : <<n, k>> \in Pair
    BY DEF Pair
  <2>2. p \in Seq(Pair) /\ DOMAIN p = 1 .. m
    BY <2>1, IsASeq
  <2> QED BY <2>2, LenProperties
<1> HIDE DEF p
<1>2. /\ Len(a) \in Nat /\ DOMAIN a = 1 .. Len(a) /\ DOMAIN w = 1 .. Len(a) + m
      /\ \A i \in 1 .. Len(a) : w[i] = a[i]
      /\ \A i \in 1 .. m : w[Len(a) + i] = p[i]
      /\ ToSet(w) = ToSet(a) \cup ToSet(p)
      /\ \A x \in ToSet(p) : \E k \in 1 .. m : x = p[k]
      /\ ToSet(a) \subseteq Pair
  BY <1>1, Joined
<1> HIDE DEF w
<1>3. \A s \in F : s[1] \in S /\ s[1] < n
  BY DEF Parts
<1>4. \A i \in DOMAIN a : a[i] \in F
  BY DEF Parts, ToSet
<1>5. \A x \in ToSet(p) : x[1] = n /\ x \in Pair
  BY <1>1, <1>2 DEF Pair
<1>6. ASSUME NEW i \in DOMAIN w, NEW j \in DOMAIN w, i < j
      PROVE  Precedes(w[i], w[j])
  <2>1. CASE j <= Len(a)
    <3>1. i \in DOMAIN a /\ j \in DOMAIN a /\ w[i] = a[i] /\ w[j] = a[j]
      BY <1>2, <1>6, <2>1
    <3> QED BY <1>6, <3>1 DEF Parts
  <2>2. CASE ~(j <= Len(a))
    <3>1. j - Len(a) \in 1 .. m /\ j = Len(a) + (j - Len(a))
      BY <1>2, <1>6, <2>2
    <3>2. w[j] = <<n, j - Len(a)>>
      BY <1>1, <1>2, <3>1
    <3>3. CASE i <= Len(a)
      <4>1. i \in DOMAIN a /\ w[i] = a[i]
        BY <1>2, <1>6, <3>3
      <4> QED BY <1>3, <1>4, <3>2, <4>1 DEF Precedes
    <3>4. CASE ~(i <= Len(a))
      <4>1. i - Len(a) \in 1 .. m /\ i = Len(a) + (i - Len(a)) /\ i - Len(a) < j - Len(a)
        BY <1>2, <1>6, <3>4
      <4>2. w[i] = <<n, i - Len(a)>>
        BY <1>1, <1>2, <4>1
      <4> QED BY <3>2, <4>1, <4>2 DEF Precedes
    <3> QED BY <3>3, <3>4
  <2> QED BY <2>1, <2>2
<1>7. ToSet(p) \cap F = {}
  BY <1>3, <1>5
<1>8. /\ F \cup ToSet(p) = ToSet(w) \cup X
      /\ ToSet(w) \cap X = {}
  BY <1>2, <1>7 DEF Parts
<1>9. \A c \in X, s \in ToSet(w) : c[1] = s[1] => s[2] < c[2]
  <2>1. \A c \in X, s \in ToSet(p) : c[1] # s[1]
    BY <1>3, <1>5 DEF Parts
  <2> QED BY <1>2, <2>1 DEF Parts
<1>10. \A s \in F \cup ToSet(p) : s[1] \in S \cup {n}
  BY <1>3, <1>5
<1> QED BY <1>1, <1>6, <1>8, <1>9, <1>10 DEF Parts, p, w

\* A sentence is sent: it goes from the ones found to the ones sent.
LEMMA SentIsNext ==
  ASSUME NEW u \in Seq(Pair), NEW v \in Seq(Pair), v # <<>>
  PROVE  /\ Append(u, Head(v)) \in Seq(Pair) /\ Tail(v) \in Seq(Pair)
         /\ Append(u, Head(v)) \o Tail(v) = u \o v
<1> DEFINE x == Append(u, Head(v))
           y == Tail(v)
           a == x \o y
           c == u \o v
<1>1. Len(v) \in Nat \ {0} /\ Len(u) \in Nat
  BY EmptySeq, LenProperties
<1>2. Head(v) = v[1] /\ Head(v) \in Pair /\ y \in Seq(Pair) /\ Len(y) + 1 = Len(v) /\ Len(y) \in Nat
  BY <1>1, HeadTailProperties, LenProperties
<1>3. \A i \in 1 .. Len(y) : y[i] = v[i + 1]
  BY <1>1, <1>2
<1>4. /\ x \in Seq(Pair) /\ Len(x) = Len(u) + 1 /\ x[Len(u) + 1] = v[1]
      /\ \A i \in 1 .. Len(u) : x[i] = u[i]
  BY <1>2, AppendProperties
<1> HIDE DEF x, y
<1>5. /\ DOMAIN a = 1 .. Len(u) + 1 + Len(y) /\ a \in Seq(Pair)
      /\ \A i \in 1 .. Len(u) + 1 : a[i] = x[i]
      /\ \A i \in 1 .. Len(y) : a[Len(u) + 1 + i] = y[i]
  <2>1. /\ DOMAIN (x \o y) = 1 .. Len(x) + Len(y) /\ x \o y \in Seq(Pair)
        /\ \A i \in 1 .. Len(x) : (x \o y)[i] = x[i]
        /\ \A i \in 1 .. Len(y) : (x \o y)[Len(x) + i] = y[i]
    BY <1>2, <1>4, Joined, Zenon
  <2> HIDE DEF a
  <2>2. /\ DOMAIN a = 1 .. Len(x) + Len(y) /\ a \in Seq(Pair)
        /\ \A i \in 1 .. Len(x) : a[i] = x[i]
        /\ \A i \in 1 .. Len(y) : a[Len(x) + i] = y[i]
    BY <2>1, Zenon DEF a
  <2> QED BY <1>4, <2>2, Zenon
<1>6. /\ DOMAIN c = 1 .. Len(u) + Len(v) /\ c \in Seq(Pair)
      /\ \A i \in 1 .. Len(u) : c[i] = u[i]
      /\ \A i \in 1 .. Len(v) : c[Len(u) + i] = v[i]
  BY Joined
<1> HIDE DEF a, c
<1>7. DOMAIN a = DOMAIN c
  <2>1. Len(u) + 1 + Len(y) = Len(u) + Len(v)
    BY <1>1, <1>2
  <2> QED BY <1>5, <1>6, <2>1, Zenon
<1>8. ASSUME NEW i \in DOMAIN c
      PROVE  a[i] = c[i]
  <2>1. CASE i <= Len(u)
    <3>1. i \in 1 .. Len(u) /\ i \in 1 .. Len(u) + 1
      BY <1>1, <1>6, <2>1
    <3> QED BY <1>4, <1>5, <1>6, <3>1
  <2>2. CASE i = Len(u) + 1
    <3>1. 1 \in 1 .. Len(v) /\ i \in 1 .. Len(u) + 1
      BY <1>1, <2>2
    <3> QED BY <1>4, <1>5, <1>6, <2>2, <3>1
  <2>3. CASE ~(i <= Len(u)) /\ i # Len(u) + 1
    <3>1. PICK j \in 1 .. Len(y) : i = Len(u) + 1 + j
      <4>1. i \in 1 .. Len(u) + Len(v)
        BY <1>6
      <4>2. PICK k \in Int : k = i - Len(u) - 1
        BY <1>1, <4>1
      <4>3. k \in 1 .. Len(y) /\ i = Len(u) + 1 + k
        BY <1>1, <1>2, <2>3, <4>1, <4>2
      <4> QED BY <4>3
    <3>2. j + 1 \in 1 .. Len(v) /\ i = Len(u) + (j + 1)
      BY <1>1, <1>2, <3>1
    <3>3. c[i] = v[j + 1]
      BY <1>6, <3>2
    <3>4. a[i] = y[j]
      BY <1>5, <3>1
    <3> QED BY <1>3, <3>1, <3>3, <3>4
  <2> QED BY <2>1, <2>2, <2>3
<1>9. a = c
  <2>1. a = [i \in DOMAIN a |-> a[i]] /\ c = [i \in DOMAIN c |-> c[i]]
    BY <1>5, <1>6
  <2> QED BY <1>7, <1>8, <2>1
<1> QED BY <1>2, <1>4, <1>9 DEF x, y, a, c

\* A send fails: what was found and not sent is cut.
LEMMA CutIsLast ==
  ASSUME NEW u \in Seq(Pair), NEW v \in Seq(Pair), NEW X, NEW F, NEW S,
         Parts(u \o v, X, F, S)
  PROVE  Parts(u \o <<>>, X \cup ToSet(v), F, S) /\ ToSet(v) \subseteq Pair
<1> DEFINE a == u \o v
           e == u \o <<>>
<1>1. /\ Len(u) \in Nat /\ Len(v) \in Nat /\ DOMAIN a = 1 .. Len(u) + Len(v)
      /\ \A i \in 1 .. Len(u) : a[i] = u[i]
      /\ \A i \in 1 .. Len(v) : a[Len(u) + i] = v[i]
      /\ ToSet(a) = ToSet(u) \cup ToSet(v)
      /\ \A x \in ToSet(u) : \E i \in 1 .. Len(u) : x = u[i]
      /\ \A x \in ToSet(v) : \E i \in 1 .. Len(v) : x = v[i]
      /\ ToSet(u) \cup ToSet(v) \subseteq Pair
  BY Joined
<1>2. /\ DOMAIN e = 1 .. Len(u) /\ \A i \in 1 .. Len(u) : e[i] = u[i]
      /\ ToSet(e) = ToSet(u)
  <2>1. <<>> \in Seq(Pair) /\ Len(<<>>) = 0 /\ ToSet(<<>>) = {}
    BY DEF ToSet
  <2> QED BY <1>1, <2>1, Joined
<1>3. Parts(a, X, F, S)
  OBVIOUS
<1> HIDE DEF a, e
<1>4. ASSUME NEW x \in ToSet(u), NEW y \in ToSet(v)
      PROVE  Precedes(x, y)
  <2>1. PICK i \in 1 .. Len(u) : x = u[i]
    BY <1>1
  <2>2. PICK j \in 1 .. Len(v) : y = v[j]
    BY <1>1
  <2>3. i \in DOMAIN a /\ Len(u) + j \in DOMAIN a /\ i < Len(u) + j
    BY <1>1
  <2>4. a[i] = x /\ a[Len(u) + j] = y
    BY <1>1, <2>1, <2>2
  <2> QED BY <1>3, <2>3, <2>4 DEF Parts
<1>5. \A x \in Pair : x[1] \in Nat /\ x[2] \in Nat
  BY DEF Pair
<1>6. \A x \in ToSet(u), y \in ToSet(v) : x # y /\ (y[1] = x[1] => x[2] < y[2])
  BY <1>1, <1>4, <1>5 DEF Precedes
<1>7. \A i, j \in DOMAIN e : i < j => Precedes(e[i], e[j])
  <2>1. \A i \in DOMAIN e : i \in DOMAIN a /\ e[i] = a[i]
    BY <1>1, <1>2
  <2> QED BY <1>3, <2>1 DEF Parts
<1>8. F = ToSet(e) \cup (X \cup ToSet(v)) /\ ToSet(e) \cap (X \cup ToSet(v)) = {}
  BY <1>1, <1>2, <1>3, <1>6 DEF Parts
<1>9. \A c \in X \cup ToSet(v), s \in ToSet(e) : c[1] = s[1] => s[2] < c[2]
  BY <1>1, <1>2, <1>3, <1>6 DEF Parts
<1>10. \A s \in F : s[1] \in S
  BY <1>3 DEF Parts
<1> QED BY <1>1, <1>7, <1>8, <1>9, <1>10 DEF Parts, a, e

-----------------------------------------------------------------------------
(* The steps.                                                              *)

\* A step that moves no line.
LEMMA NothingMoves ==
  ASSUME SerialInv, Shapes', UNCHANGED <<sent, queue, lines, fate, counts>>,
         reader'.todo = reader.todo, relay'.batch = relay.batch, relay'.out = relay.out,
         reader'.at \in Putting <=> reader.at \in Putting
  PROVE  SerialInv'
BY DEF SerialInv

LEMMA ReaderTurns ==
  ASSUME SerialInv,
         GoOn \/ Opens \/ OpenFails \/ Publish \/ Test \/ ReadNothing \/ ReadFails \/ Release
  PROVE  SerialInv'
<1>1. Shapes
  BY DEF SerialInv
<1>2. /\ UNCHANGED <<sent, queue, lines, fate, counts, relay>>
      /\ reader'.todo = reader.todo /\ reader.at \notin Putting /\ reader'.at \notin Putting
      /\ reader' \in [at : Putting \cup Around, mine : Nat, todo : Seq(Nat)]
  <2> DEFINE R == [at : Putting \cup Around, mine : Nat, todo : Seq(Nat)]
             Turned(r) == r \in R /\ r.todo = reader.todo /\ r.at \notin Putting
  <2>0. reader \in R /\ budget.openings + 1 \in Nat
    BY <1>1 DEF Shapes
  <2>1. \A at \in Around : at \in Putting \cup Around /\ at \notin Putting
    BY DEF Putting, Around
  <2>2. ASSUME NEW at \in Around
        PROVE  Turned([reader EXCEPT !.at = at])
    <3>1. at \in Putting \cup Around /\ at \notin Putting
      BY <2>1
    <3> QED BY ONLY <2>0, <3>1
  <2>3. ASSUME NEW at \in Around, NEW n \in Nat
        PROVE  Turned([reader EXCEPT !.at = at, !.mine = n])
    <3>1. at \in Putting \cup Around /\ at \notin Putting
      BY <2>1
    <3> QED BY ONLY <2>0, <3>1, n \in Nat
  <2> HIDE DEF Turned, R
  <2>4. UNCHANGED <<sent, queue, lines, fate, counts, relay>> /\ reader.at \in Around
    BY DEF Around, Unread, Elsewhere, GoOn, Opens, OpenFails, Publish, Test, ReadNothing, ReadFails,
           Release
  <2>5. Turned(reader')
    <3>1. \/ \E at \in Around : reader' = [reader EXCEPT !.at = at]
          \/ \E at \in Around, n \in Nat : reader' = [reader EXCEPT !.at = at, !.mine = n]
      <4>1. CASE GoOn
        <5>1. reader' = [reader EXCEPT !.at = IF stop THEN "ended" ELSE "opening"]
          BY <4>1 DEF GoOn, Goes
        <5>2. (IF stop THEN "ended" ELSE "opening") \in Around
          BY DEF Around
        <5> QED BY <5>1, <5>2
      <4>2. CASE Opens
        <5>1. reader' = [reader EXCEPT !.at = "opened", !.mine = budget.openings + 1]
          BY <4>2 DEF Opens
        <5>2. "opened" \in Around /\ budget.openings + 1 \in Nat
          BY <2>0 DEF NoPort, Around
        <5> QED BY <5>1, <5>2
      <4>3. CASE OpenFails
        <5>1. reader' = [reader EXCEPT !.at = "releasing"]
          BY <4>3 DEF OpenFails, Goes
        <5>2. ("releasing") \in Around
          BY DEF Around
        <5> QED BY <5>1, <5>2
      <4>4. CASE Publish
        <5>1. reader' = [reader EXCEPT !.at = "testing"]
          BY <4>4 DEF Publish, Goes
        <5>2. ("testing") \in Around
          BY DEF Around
        <5> QED BY <5>1, <5>2
      <4>5. CASE Test
        <5>1. reader' = [reader EXCEPT !.at = IF stop THEN "releasing" ELSE "reading"]
          BY <4>5 DEF Test, Goes
        <5>2. (IF stop THEN "releasing" ELSE "reading") \in Around
          BY DEF Around
        <5> QED BY <5>1, <5>2
      <4>6. CASE ReadNothing
        <5>1. reader' = [reader EXCEPT !.at = "testing"]
          BY <4>6 DEF ReadNothing, Goes
        <5>2. ("testing") \in Around
          BY DEF Around
        <5> QED BY <5>1, <5>2
      <4>7. CASE ReadFails
        <5>1. reader' = [reader EXCEPT !.at = "releasing"]
          BY <4>7 DEF ReadFails, Goes
        <5>2. ("releasing") \in Around
          BY DEF Around
        <5> QED BY <5>1, <5>2
      <4>8. CASE Release
        <5>1. reader' = [reader EXCEPT !.at = "starting", !.mine = NoPort]
          BY <4>8 DEF Release
        <5>2. "starting" \in Around /\ NoPort \in Nat
          BY <2>0 DEF NoPort, Around
        <5> QED BY <5>1, <5>2
      <4> QED BY <4>1, <4>2, <4>3, <4>4, <4>5, <4>6, <4>7, <4>8
    <3>2. CASE \E at \in Around : reader' = [reader EXCEPT !.at = at]
      BY ONLY <2>2, <3>2
    <3>3. CASE \E at \in Around, n \in Nat : reader' = [reader EXCEPT !.at = at, !.mine = n]
      BY ONLY <2>3, <3>3
    <3> QED BY <3>1, <3>2, <3>3
  <2>6. reader.at \notin Putting
    BY <2>1, <2>4
  <2> QED BY <2>4, <2>5, <2>6 DEF Turned, R
<1>3. framer' \in Framer
  <2>1. EmptyFramer \in Framer
    BY DEF EmptyFramer, Framer
  <2> QED BY <1>1, <2>1 DEF Shapes, Reset, GoOn, Opens, OpenFails, Publish, Test, ReadNothing,
                            ReadFails, Release, Unread
<1>4. budget' \in [bytes : Nat, openings : Nat, failures : Nat]
  <2>1. /\ budget \in [bytes : Nat, openings : Nat, failures : Nat]
        /\ budget.openings + 1 \in Nat
    BY <1>1 DEF Shapes
  <2> QED BY <2>1 DEF GoOn, Opens, OpenFails, Publish, Test, ReadNothing, ReadFails, Release,
              Unread
<1>5. current' \in Nat
  BY <1>1 DEF Shapes, GoOn, Opens, OpenFails, Publish, Test, ReadNothing, ReadFails, Release,
              Unread, NoPort
<1>6. Shapes'
  BY <1>1, <1>2, <1>3, <1>4, <1>5 DEF Shapes
<1> QED BY <1>2, <1>6, NothingMoves

\* A chunk: its lines are numbered after those before them.
LEMMA ReadStep ==
  ASSUME SerialInv, NEW chunk \in Chunks, Read(chunk)
  PROVE  SerialInv'
<1> DEFINE fed == Feed(framer, chunk)
           n == Len(lines)
           m == Len(fed.lines)
           todo == [i \in 1 .. m |-> n + i]
<1>1. Shapes /\ reader.todo = <<>> /\ n \in Nat
  BY LenProperties DEF SerialInv, Shapes, Read, Putting
<1>2. fed \in Framing
  <2>0. PICK k \in 1 .. MaxChunk :
          \E c \in [1 .. k -> {LF, CR, FirstText}] :
            chunk = [i \in 1 .. k |->
                       IF c[i] = FirstText THEN FirstText + budget.bytes + i ELSE c[i]]
    BY DEF Chunks
  <2>1. PICK c \in [1 .. k -> {LF, CR, FirstText}] :
          chunk = [i \in 1 .. k |->
                     IF c[i] = FirstText THEN FirstText + budget.bytes + i ELSE c[i]]
    BY <2>0
  <2>2. k \in Nat /\ framer \in Framer
    BY <1>1, SerialInputAssumption DEF SerialInputAssumption, Shapes
  <2>3. budget.bytes \in Nat /\ LF \in Nat /\ CR \in Nat /\ FirstText \in Nat
    BY <1>1 DEF Shapes, LF, CR, FirstText
  <2>4. \A x, y \in Nat : \A i \in 1 .. k : x + y + i \in Nat
    OBVIOUS
  <2>5. \A i \in 1 .. k : FirstText + budget.bytes + i \in Nat
    BY <2>3, <2>4
  <2>6. \A i \in 1 .. k : c[i] \in Nat
    <3>1. c \in [1 .. k -> {LF, CR, FirstText}]
      BY <2>1
    <3>2. \A i \in 1 .. k : c[i] \in {LF, CR, FirstText}
      BY <3>1
    <3> QED BY <2>3, <3>2
  <2>7. chunk \in [1 .. k -> Nat]
    BY <2>1, <2>5, <2>6
  <2> QED BY <2>2, <2>7, FeedFrames
<1>3. /\ UNCHANGED <<sent, queue, fate, relay, current>>
      /\ framer' = [k \in DOMAIN framer |-> fed[k]]
      /\ counts' = [counts EXCEPT !.overlong = @ + fed.overlong]
      /\ lines' = lines \o fed.lines
      /\ reader' = [reader EXCEPT !.at = IF fed.lines = <<>> THEN "testing" ELSE "putting",
                                  !.todo = [i \in DOMAIN fed.lines |-> n + i]]
      /\ budget' = [budget EXCEPT !.bytes = @ + Len(chunk)]
  BY DEF Read, Elsewhere
<1>4. fed.lines \in Seq(Seq(Nat)) /\ m \in Nat /\ DOMAIN fed.lines = 1 .. m
  BY <1>2, LenProperties DEF Framing
<1>5. /\ lines' \in Seq(Seq(Nat)) /\ Len(lines') = n + m /\ DOMAIN lines' = 1 .. n + m
      /\ DOMAIN lines = 1 .. n
      /\ \A i \in 1 .. n : lines'[i] = lines[i]
  <2>1. lines \in Seq(Seq(Nat))
    BY <1>1 DEF Shapes
  <2> QED BY <1>3, <1>4, <2>1, ConcatProperties, LenProperties
<1>6. Len(chunk) \in Nat
  BY LenProperties DEF Chunks
<1>7. /\ fed.overlong \in Nat /\ fed.buffer \in Seq(Nat)
      /\ fed.discarding \in BOOLEAN /\ fed.cr \in BOOLEAN
  BY <1>2 DEF Framing
<1> HIDE DEF fed, n, m
<1>8. /\ todo \in Seq(Nat) /\ Rise(todo) /\ ToSet(todo) = (n + 1) .. (n + m)
      /\ todo = <<>> <=> fed.lines = <<>>
  <2>1. todo \in Seq(Nat) /\ DOMAIN todo = 1 .. m
    <3>1. \A i \in 1 .. m : n + i \in Nat
      BY <1>1, <1>4
    <3>2. todo \in Seq(Nat)
      BY <1>4, <3>1, IsASeq
    <3> QED BY <3>2
  <2>2. Rise(todo)
    BY <1>1, <1>4 DEF Rise
  <2>3. ToSet(todo) = (n + 1) .. (n + m)
    <3>1. \A i \in 1 .. m : n + i \in (n + 1) .. (n + m)
      BY <1>1, <1>4
    <3>2. \A x \in (n + 1) .. (n + m) : x - n \in 1 .. m /\ n + (x - n) = x
      BY <1>1, <1>4
    <3>3. \A x \in ToSet(todo) : x \in (n + 1) .. (n + m)
      BY <3>1 DEF ToSet
    <3>4. \A x \in (n + 1) .. (n + m) : x \in ToSet(todo)
      <4>1. ASSUME NEW x \in (n + 1) .. (n + m)
            PROVE  x \in ToSet(todo)
        <5>1. x - n \in DOMAIN todo /\ todo[x - n] = x
          BY <3>2
        <5> HIDE DEF todo
        <5> QED BY <5>1 DEF ToSet
      <4> QED BY <4>1
    <3> QED BY <3>3, <3>4
  <2>4. todo = <<>> <=> m = 0
    <3>1. Len(todo) = m
      BY <1>4, <2>1, LenProperties
    <3> HIDE DEF todo
    <3> QED BY <2>1, <3>1, EmptySeq
  <2>5. fed.lines = <<>> <=> m = 0
    BY <1>4, EmptySeq DEF m
  <2> QED BY <2>1, <2>2, <2>3, <2>4, <2>5
<1>9. reader'.todo = todo /\ (reader'.at \in Putting <=> todo # <<>>)
      /\ reader' \in [at : Putting \cup Around, mine : Nat, todo : Seq(Nat)]
  <2>1. [i \in DOMAIN fed.lines |-> n + i] = todo
    BY <1>4
  <2>2. reader \in [at : Putting \cup Around, mine : Nat, todo : Seq(Nat)]
    BY <1>1 DEF Shapes
  <2> HIDE DEF todo
  <2>3. reader' = [reader EXCEPT !.at = IF todo = <<>> THEN "testing" ELSE "putting", !.todo = todo]
    BY <1>3, <1>8, <2>1
  <2>4. todo \in Seq(Nat)
    BY <1>8
  <2>5. CASE todo = <<>>
    <3>1. reader' = [reader EXCEPT !.at = "testing", !.todo = todo]
      BY ONLY <2>3, <2>5
    <3>2. reader'.todo = todo /\ reader'.at = "testing"
      BY ONLY <2>2, <3>1
    <3>3. reader' \in [at : Putting \cup Around, mine : Nat, todo : Seq(Nat)]
      BY ONLY <2>2, <2>4, <3>1 DEF Around
    <3> QED BY ONLY <2>5, <3>2, <3>3 DEF Putting
  <2>6. CASE todo # <<>>
    <3>1. reader' = [reader EXCEPT !.at = "putting", !.todo = todo]
      BY ONLY <2>3, <2>6
    <3>2. reader'.todo = todo /\ reader'.at = "putting"
      BY ONLY <2>2, <3>1
    <3>3. reader' \in [at : Putting \cup Around, mine : Nat, todo : Seq(Nat)]
      BY ONLY <2>2, <2>4, <3>1 DEF Putting
    <3> QED BY ONLY <2>6, <3>2, <3>3 DEF Putting
  <2> QED BY <2>5, <2>6
<1> HIDE DEF todo
<1>10. Shapes'
  <2>1. framer' \in Framer
    <3>1. framer \in [buffer : Seq(Nat), discarding : BOOLEAN, cr : BOOLEAN]
      BY <1>1 DEF Shapes, Framer
    <3>2. framer' = [buffer |-> fed.buffer, discarding |-> fed.discarding, cr |-> fed.cr]
      BY <1>3, <3>1
    <3> QED BY <1>7, <3>2 DEF Framer
  <2>2. counts' \in [dropped : Nat, overlong : Nat]
    <3>1. counts \in [dropped : Nat, overlong : Nat]
      BY <1>1 DEF Shapes
    <3>2. counts.overlong + fed.overlong \in Nat
      BY <1>7, <3>1
    <3> QED BY <1>3, <3>1, <3>2
  <2>3. budget' \in [bytes : Nat, openings : Nat, failures : Nat]
    <3>1. budget \in [bytes : Nat, openings : Nat, failures : Nat]
      BY <1>1 DEF Shapes
    <3>2. budget.bytes + Len(chunk) \in Nat
      BY <1>6, <3>1
    <3> QED BY <1>3, <3>1, <3>2
  <2> QED BY <1>1, <1>3, <1>5, <1>9, <2>1, <2>2, <2>3 DEF Shapes
<1>11. Moving(fate.searched, relay.batch, queue, todo) /\
       Told(fate.searched, ToSet(relay.batch), ToSet(queue), ToSet(todo),
            fate.displaced, fate.lost, n + m)
  <2> DEFINE S == fate.searched
             B == ToSet(relay.batch)
             Q == ToSet(queue)
             T == ToSet(todo)
             D == fate.displaced
             L == fate.lost
  <2>1. /\ Moving(fate.searched, relay.batch, queue, <<>>)
        /\ Told(S, B, Q, {}, D, L, n)
    <3>1. ToSet(<<>>) = {}
      BY DEF ToSet
    <3> QED BY <1>1, <3>1 DEF SerialInv, n
  <2>3. T = (n + 1) .. (n + m) /\ n \in Nat /\ m \in Nat
    BY <1>1, <1>4, <1>8
  <2>4. Moving(fate.searched, relay.batch, queue, todo)
    <3>1. S \cup B \cup Q \subseteq 1 .. n
      BY <2>1 DEF Told
    <3> HIDE DEF S, B, Q, T
    <3>2. Below(S, T) /\ Below(B, T) /\ Below(Q, T)
      BY <2>3, <3>1 DEF Below
    <3> QED BY <1>8, <2>1, <3>2 DEF Moving, S, B, Q, T
  <2> HIDE DEF S, B, Q, T, D, L
  <2>5. Told(S, B, Q, T, D, L, n + m)
    <3>1. S \cup B \cup Q \cup T \cup D \cup L = 1 .. n + m
      BY <2>1, <2>3 DEF Told
    <3>2. T \cap (D \cup L) = {} /\ Below(D, T)
      BY <2>1, <2>3 DEF Told, Below
    <3>3. Below(D, Q \cup T)
      BY <2>1, <3>2 DEF Told, Below
    <3> QED BY <2>1, <3>1, <3>2, <3>3 DEF Told
  <2> QED BY <2>4, <2>5 DEF S, B, Q, T, D, L
<1>12. counts'.dropped = counts.dropped
  BY <1>1, <1>3 DEF Shapes
<1> QED BY <1>3, <1>5, <1>9, <1>10, <1>11, <1>12 DEF SerialInv

\* put_nowait of the line at hand, while the queue has room for it.
LEMMA QueuedStep ==
  ASSUME SerialInv, reader.at \in Putting, Len(queue) < QueueLines, Queued(queue),
         UNCHANGED <<current, relay, sent, framer, counts, fate, lines, budget>>
  PROVE  SerialInv'
<1> DEFINE t == reader.todo
           h == Head(t)
           R == [at : Putting \cup Around, mine : Nat, todo : Seq(Nat)]
<1>1. /\ Shapes /\ Moving(fate.searched, relay.batch, queue, t) /\ t # <<>>
      /\ Told(fate.searched, ToSet(relay.batch), ToSet(queue), ToSet(t),
              fate.displaced, fate.lost, Len(lines))
  BY DEF SerialInv
<1>2. /\ relay.batch \in Seq(Nat) /\ queue \in Seq(Nat) /\ t \in Seq(Nat)
      /\ reader \in R
  BY <1>1 DEF Shapes
<1>3. /\ h \in ToSet(t) /\ Append(queue, h) \in Seq(Nat) /\ Tail(t) \in Seq(Nat)
      /\ ToSet(Append(queue, h)) = ToSet(queue) \cup {h}
      /\ ToSet(Tail(t)) = ToSet(t) \ {h}
      /\ Moving(fate.searched, relay.batch, Append(queue, h), Tail(t))
  BY <1>1, <1>2, PutMoves
<1>4. Told(fate.searched, ToSet(relay.batch), ToSet(Append(queue, h)), ToSet(Tail(t)),
           fate.displaced, fate.lost, Len(lines))
  <2> DEFINE S == fate.searched
             B == ToSet(relay.batch)
             Q == ToSet(queue)
             T == ToSet(t)
             n == Len(lines)
             D == fate.displaced
             L == fate.lost
  <2>1. Told(S, B, Q, T, D, L, n) /\ h \in T
    BY <1>1, <1>3
  <2> HIDE DEF S, B, Q, T, n, D, L, h
  <2>2. Told(S, B, Q \cup {h}, T \ {h}, D, L, n)
    BY ONLY <2>1 DEF Told, Below
  <2> QED BY <1>3, <2>2 DEF S, B, Q, T, n, D, L
<1>5. queue' = Append(queue, h) /\ Len(queue') = Len(queue) + 1 /\ Len(queue) \in Nat
  BY <1>2, <1>3, AppendProperties, LenProperties DEF Queued
<1>6. Len(queue') <= QueueLines
  BY <1>5, SerialInputAssumption DEF SerialInputAssumption
<1>7. Len(t) \in Nat /\ (Tail(t) = <<>> <=> Len(t) = 1)
  <2>1. Len(t) \in Nat \ {0} /\ Len(Tail(t)) = Len(t) - 1
    BY <1>1, <1>2, EmptySeq, HeadTailProperties, LenProperties
  <2>2. Tail(t) = <<>> <=> Len(Tail(t)) = 0
    BY <1>3, EmptySeq
  <2> QED BY <2>1, <2>2
<1>8. reader' = [reader EXCEPT !.todo = Tail(t),
                               !.at = IF Len(t) = 1 THEN "testing" ELSE "putting"]
  BY <1>2 DEF Queued
<1> HIDE DEF t, h
<1>9. reader' \in R /\ reader'.todo = Tail(t) /\ (reader'.at \in Putting <=> Tail(t) # <<>>)
  <2>1. CASE Len(t) = 1
    <3>1. reader' = [reader EXCEPT !.todo = Tail(t), !.at = "testing"]
      BY <1>8, <2>1
    <3>2. "testing" \in Around /\ "testing" \notin Putting
      BY DEF Around, Putting
    <3> QED BY <1>2, <1>3, <1>7, <2>1, <3>1, <3>2
  <2>2. CASE Len(t) # 1
    <3>1. reader' = [reader EXCEPT !.todo = Tail(t), !.at = "putting"]
      BY <1>8, <2>2
    <3>2. "putting" \in Putting
      BY DEF Putting
    <3> QED BY <1>2, <1>3, <1>7, <2>2, <3>1, <3>2
  <2> QED BY <2>1, <2>2
<1>10. Shapes'
  BY <1>1, <1>3, <1>5, <1>9 DEF Shapes
<1> QED BY <1>3, <1>4, <1>5, <1>6, <1>9, <1>10 DEF SerialInv

\* _enqueue_line and _drop_oldest_queued_line.
LEMMA EnqueueStep ==
  ASSUME SerialInv, Put \/ Drop \/ PutAgain
  PROVE  SerialInv'
<1> DEFINE R == [at : Putting \cup Around, mine : Nat, todo : Seq(Nat)]
<1>1. Shapes /\ reader \in R
  BY DEF SerialInv, Shapes
<1>2. ASSUME reader.at \in Putting, NEW at \in Putting, reader' = [reader EXCEPT !.at = at]
      PROVE  reader' \in R /\ reader'.todo = reader.todo /\ reader'.at \in Putting
  BY <1>1, <1>2
<1>3. CASE Put /\ Len(queue) < QueueLines
  BY <1>3, QueuedStep DEF Put, Unread, Elsewhere, Putting
<1>4. CASE PutAgain
  BY <1>4, QueuedStep DEF PutAgain, Unread, Elsewhere, Putting
<1>5. CASE Put /\ ~(Len(queue) < QueueLines)
  <2>1. /\ reader' = [reader EXCEPT !.at = "dropping"] /\ reader.at \in Putting
        /\ "dropping" \in Putting
        /\ UNCHANGED <<queue, current, framer, counts, fate, lines, budget, relay, sent>>
    BY <1>5 DEF Put, Goes, Unread, Elsewhere, Putting
  <2>2. reader' \in R /\ reader'.todo = reader.todo /\ reader'.at \in Putting
    BY <1>2, <2>1
  <2>3. Shapes'
    BY <1>1, <2>1, <2>2 DEF Shapes
  <2> QED BY <2>1, <2>2, <2>3, NothingMoves
<1>6. CASE Drop
  <2>1. /\ reader' = [reader EXCEPT !.at = "putting again"] /\ reader.at \in Putting
        /\ "putting again" \in Putting
        /\ UNCHANGED <<current, framer, lines, budget, relay, sent>>
        /\ queue' = Pushed(queue)
        /\ fate' = [fate EXCEPT !.displaced = @ \cup (ToSet(queue) \ ToSet(queue'))]
        /\ counts' = [counts EXCEPT !.dropped = @ + 1]
    BY <1>6 DEF Drop, Goes, Elsewhere, Putting
  <2>2. reader' \in R /\ reader'.todo = reader.todo /\ reader'.at \in Putting
    BY <1>2, <2>1
  <2>3. /\ counts' \in [dropped : Nat, overlong : Nat] /\ counts.dropped \in Nat
        /\ counts'.dropped = counts.dropped + 1
    <3>1. counts \in [dropped : Nat, overlong : Nat] /\ counts.dropped + 1 \in Nat
      BY <1>1 DEF Shapes
    <3> QED BY <2>1, <3>1
  <2>4. /\ fate \in Fates /\ fate'.lost = fate.lost /\ fate'.cut = fate.cut
        /\ fate'.found = fate.found /\ fate'.searched = fate.searched
        /\ fate'.displaced = fate.displaced \cup (ToSet(queue) \ ToSet(queue'))
    <3>1. fate \in Fates
      BY <1>1 DEF Shapes
    <3> QED BY <2>1, <3>1 DEF Fates
  <2> DEFINE S == fate.searched
             B == ToSet(relay.batch)
             Q == ToSet(queue)
             T == ToSet(reader.todo)
             D == fate.displaced
             L == fate.lost
             n == Len(lines)
  <2>5. /\ Moving(fate.searched, relay.batch, queue, reader.todo) /\ Told(S, B, Q, T, D, L, n)
        /\ IsFiniteSet(D) /\ Cardinality(D) <= counts.dropped /\ Len(queue) <= QueueLines
    BY DEF SerialInv
  <2>6. /\ relay.batch \in Seq(Nat) /\ queue \in Seq(Nat)
        /\ reader.todo \in Seq(Nat)
    BY <1>1 DEF Shapes
  <2>7. Cardinality(D) \in Nat /\ Len(queue) \in Nat /\ QueueLines \in Nat
    BY <2>5, <2>6, FS_CardinalityType, LenProperties, SerialInputAssumption
       DEF SerialInputAssumption
  <2>8. CASE queue = <<>>
    <3>1. queue' = queue /\ fate'.displaced = D
      BY <2>1, <2>4, <2>8 DEF Pushed
    <3>2. fate' = fate
      BY <2>1, <2>4, <3>1 DEF Fates
    <3>3. Shapes'
      BY <1>1, <2>1, <2>2, <2>3, <3>1, <3>2 DEF Shapes
    <3>4. Cardinality(D) <= counts'.dropped
      BY <2>3, <2>5, <2>7
    <3> QED BY <2>1, <2>2, <3>1, <3>2, <3>3, <3>4 DEF SerialInv
  <2>9. CASE queue # <<>>
    <3> DEFINE h == Head(queue)
    <3>1. queue' = Tail(queue)
      BY <2>1, <2>9 DEF Pushed
    <3>2. /\ h \in Q /\ Tail(queue) \in Seq(Nat) /\ ToSet(queue') = Q \ {h}
          /\ Below({h}, Q \ {h}) /\ Moving(fate.searched, relay.batch, queue', reader.todo)
      <4> HIDE DEF S, B, T, D, L, n
      <4>1. /\ h \in Q /\ Tail(queue) \in Seq(Nat) /\ ToSet(Tail(queue)) = Q \ {h}
            /\ \A x \in ToSet(Tail(queue)) : h < x
            /\ Moving(fate.searched, relay.batch, Tail(queue), reader.todo)
        BY <2>5, <2>6, <2>9, TakeMoves
      <4> HIDE DEF Q, h
      <4> QED BY <3>1, <4>1 DEF Below
    <3>3. Len(queue') <= QueueLines
      <4>1. Len(queue') = Len(queue) - 1
        BY <2>6, <2>9, <3>1, HeadTailProperties
      <4> QED BY <2>5, <2>7, <4>1
    <3>4. fate'.displaced = D \cup {h}
      BY <2>4, <3>2
    <3>5. Q \subseteq Nat /\ Below({h}, T) /\ Q \cap (S \cup B \cup T) = {}
      <4>1. Q \subseteq Nat
        BY <2>6, LenProperties, ElementOfSeq DEF ToSet
      <4>2. Below(Q, T)
        BY <2>5 DEF Moving
      <4>3. Q \cap (S \cup B \cup T) = {}
        BY <2>5, <2>6, InOnePlace
      <4> HIDE DEF Q, T, S, B, h
      <4> QED BY <3>2, <4>1, <4>2, <4>3 DEF Below
    <3> HIDE DEF S, B, Q, T, D, L, n, h
    <3>6. Told(S, B, Q \ {h}, T, D \cup {h}, L, n)
      <4>1. Below(D \cup {h}, (Q \ {h}) \cup T)
        BY <2>5, <3>2, <3>5 DEF Told, Below
      <4>2. (D \cup {h}) \cap L = {}
        BY <2>5, <3>2 DEF Told
      <4>3. (S \cup B \cup (Q \ {h}) \cup T) \cap (D \cup {h} \cup L) = {}
        BY <2>5, <3>2, <3>5 DEF Told
      <4> QED BY <2>5, <3>2, <4>1, <4>2, <4>3 DEF Told
    <3>7. fate' \in Fates
      <4>1. D \cup {h} \subseteq Nat
        BY <2>4, <3>2, <3>5 DEF D, Fates
      <4> QED BY <2>1, <2>4, <3>4, <4>1 DEF Fates
    <3>8. Shapes'
      BY <1>1, <2>1, <2>2, <2>3, <3>1, <3>2, <3>7 DEF Shapes
    <3>9. IsFiniteSet(D \cup {h}) /\ Cardinality(D \cup {h}) <= counts'.dropped
      <4>1. IsFiniteSet(D \cup {h}) /\ Cardinality(D \cup {h}) <= Cardinality(D) + 1
        <5>1. /\ Cardinality(D \cup {h}) = (IF h \in D THEN Cardinality(D) ELSE Cardinality(D) + 1)
              /\ IsFiniteSet(D \cup {h})
          BY <2>5, FS_AddElement
        <5> QED BY <2>7, <5>1
      <4>2. Cardinality(D \cup {h}) \in Nat
        BY <4>1, FS_CardinalityType
      <4> QED BY <2>3, <2>5, <2>7, <4>1, <4>2
    <3> QED BY <2>1, <2>2, <2>4, <3>2, <3>3, <3>4, <3>6, <3>8, <3>9
            DEF SerialInv, S, B, Q, T, D, L, n
  <2> QED BY <2>8, <2>9
<1> QED BY <1>3, <1>4, <1>5, <1>6

\* read_pending, forward_input_payload, and a send that fails.
LEMMA ForwardStep ==
  ASSUME SerialInv, Take \/ Extract \/ Send \/ SendFails
  PROVE  SerialInv'
<1> DEFINE R == [at : RelayPlaces, batch : Seq(Nat), out : Seq(Pair), port : Nat]
           b == relay.batch
           o == relay.out
           t == reader.todo
           S == fate.searched
           B == ToSet(b)
           Q == ToSet(queue)
           T == ToSet(t)
           D == fate.displaced
           L == fate.lost
           n == Len(lines)
           P == Parts(sent \o o, fate.cut, fate.found, S)
<1>1. /\ Shapes /\ Moving(fate.searched, b, queue, t) /\ Told(S, B, Q, T, D, L, n)
      /\ reader.at \in Putting <=> t # <<>>
      /\ Len(queue) <= QueueLines /\ IsFiniteSet(D) /\ Cardinality(D) <= counts.dropped
      /\ P
  BY DEF SerialInv
<1>2. /\ sent \in Seq(Pair) /\ o \in Seq(Pair) /\ b \in Seq(Nat) /\ queue \in Seq(Nat) /\ t \in Seq(Nat)
      /\ relay \in R /\ fate \in Fates
  BY <1>1 DEF Shapes
<1>3. UNCHANGED <<current, framer, counts, lines, reader>>
  BY DEF Take, Extract, Send, SendFails, ReaderKept
<1>4. {"taking", "sending", "recreating"} \subseteq RelayPlaces
  BY DEF RelayPlaces
<1>5. CASE Take /\ queue # <<>>
  <2> DEFINE h == Head(queue)
  <2>1. /\ relay' = [relay EXCEPT !.batch = Append(b, h)] /\ queue' = Tail(queue)
        /\ UNCHANGED <<sent, fate, budget>>
    BY <1>5 DEF Take
  <2>2. /\ h \in Q /\ Append(b, h) \in Seq(Nat) /\ Tail(queue) \in Seq(Nat)
        /\ ToSet(Append(b, h)) = B \cup {h} /\ ToSet(Tail(queue)) = Q \ {h}
        /\ Moving(fate.searched, Append(b, h), Tail(queue), t)
    <3> HIDE DEF b, t, T, D, L, n
    <3>1. /\ h \in Q /\ Append(b, h) \in Seq(Nat) /\ Tail(queue) \in Seq(Nat)
          /\ ToSet(Append(b, h)) = ToSet(b) \cup {h} /\ ToSet(Tail(queue)) = Q \ {h}
          /\ Moving(fate.searched, Append(b, h), Tail(queue), t)
      <4>1. /\ b \in Seq(Nat) /\ queue \in Seq(Nat) /\ t \in Seq(Nat)
            /\ Moving(fate.searched, b, queue, t) /\ queue # <<>>
        BY <1>1, <1>2, <1>5
      <4> HIDE DEF Q, b, t, h
      <4>2. /\ Head(queue) \in ToSet(queue) /\ Append(b, Head(queue)) \in Seq(Nat)
            /\ Tail(queue) \in Seq(Nat)
        BY ONLY <4>1, TakeMoves
      <4>3. ToSet(Append(b, h)) = ToSet(b) \cup {h}
        <5>1. h \in Nat
          BY ONLY <4>1, HeadTailProperties, EmptySeq DEF h
        <5> QED BY ONLY <4>1, <5>1, OneMore
      <4>4. ToSet(Tail(queue)) = ToSet(queue) \ {Head(queue)}
        BY ONLY <4>1, TakeMoves
      <4>5. Moving(fate.searched, Append(b, Head(queue)), Tail(queue), t)
        BY ONLY <4>1, TakeMoves
      <4> QED BY ONLY <4>2, <4>3, <4>4, <4>5 DEF Q, h
    <3> HIDE DEF h
    <3> QED BY <3>1
  <2>3. Len(queue') <= QueueLines
    <3>1. /\ Len(queue') = Len(queue) - 1 /\ Len(queue) \in Nat /\ QueueLines \in Nat
      BY <1>2, <1>5, <2>1, HeadTailProperties, LenProperties, SerialInputAssumption
         DEF SerialInputAssumption
    <3> QED BY <1>1, <3>1
  <2>4. relay' \in R /\ relay'.batch = Append(b, h) /\ relay'.out = o
    BY <1>2, <2>1, <2>2
  <2>5. Told(S, B \cup {h}, Q \ {h}, T, D, L, n)
    <3> HIDE DEF S, B, Q, T, D, L, n, h
    <3> QED BY ONLY <1>1, <2>2 DEF Told, Below
  <2>6. Shapes'
    BY <1>1, <1>3, <2>1, <2>2, <2>4 DEF Shapes
  <2> QED BY <1>1, <1>3, <2>1, <2>2, <2>3, <2>4, <2>5, <2>6 DEF SerialInv
<1>6. CASE SendFails
  <2>1. /\ relay' = [relay EXCEPT !.at = "recreating", !.batch = <<>>, !.out = <<>>]
        /\ fate' = [fate EXCEPT !.cut = @ \cup ToSet(o), !.lost = @ \cup B]
        /\ budget' = [budget EXCEPT !.failures = @ + 1]
        /\ UNCHANGED <<sent, queue>>
    BY <1>6 DEF SendFails
  <2>2. relay' \in R /\ relay'.batch = <<>> /\ relay'.out = <<>>
    <3>1. <<>> \in Seq(Nat) /\ <<>> \in Seq(Pair)
      OBVIOUS
    <3> QED BY <1>2, <1>4, <2>1, <3>1
  <2>3. Parts(sent \o <<>>, fate.cut \cup ToSet(o), fate.found, S) /\ ToSet(o) \subseteq Pair
    BY <1>1, <1>2, CutIsLast
  <2>4. B \subseteq Nat
    BY <1>2, LenProperties, ElementOfSeq DEF ToSet
  <2>5. /\ fate' \in Fates /\ fate'.displaced = D /\ fate'.lost = L \cup B
        /\ fate'.searched = S /\ fate'.found = fate.found /\ fate'.cut = fate.cut \cup ToSet(o)
    <3> DEFINE O == ToSet(o)
    <3>1. O \subseteq Pair
      BY <2>3
    <3> HIDE DEF B, O
    <3> QED BY ONLY <1>2, <2>1, <2>4, <3>1 DEF Fates, O
  <2>6. budget' \in [bytes : Nat, openings : Nat, failures : Nat]
    <3>1. budget \in [bytes : Nat, openings : Nat, failures : Nat] /\ budget.failures + 1 \in Nat
      BY <1>1 DEF Shapes
    <3> QED BY <2>1, <3>1
  <2>7. Shapes'
    BY <1>1, <1>3, <2>1, <2>2, <2>5, <2>6 DEF Shapes
  <2>8. ToSet(<<>>) = {} /\ Rise(<<>>)
    BY DEF ToSet, Rise
  <2>9. Moving(S, <<>>, queue, t)
    BY <1>1, <2>8 DEF Moving, Below
  <2>10. B \cap (S \cup Q \cup T) = {}
    BY <1>1, <1>2, InOnePlace
  <2>11. Told(S, {}, Q, T, D, L \cup B, n)
    <3> HIDE DEF S, B, Q, T, D, L, n
    <3> QED BY ONLY <1>1, <2>10 DEF Told, Below
  <2> QED BY <1>1, <1>3, <2>1, <2>2, <2>3, <2>5, <2>7, <2>8, <2>9, <2>11 DEF SerialInv
<1>7. CASE Extract /\ b # <<>>
  <2> DEFINE h == Head(b)
  <2>1. PICK m \in 0 .. MaxSentences :
          LET p == [k \in 1 .. m |-> <<h, k>>]
          IN  /\ relay' = [relay EXCEPT !.batch = Tail(b), !.out = p]
              /\ fate' = [fate EXCEPT !.searched = @ \cup {h}, !.found = @ \cup ToSet(p)]
    <3>1. {0} \subseteq 0 .. MaxSentences
      BY SerialInputAssumption DEF SerialInputAssumption
    <3> QED BY <1>7, <3>1 DEF Extract
  <2> DEFINE p == [k \in 1 .. m |-> <<h, k>>]
  <2>2. o = <<>> /\ UNCHANGED <<sent, queue, budget>>
    BY <1>7 DEF Extract
  <2>3. /\ h \in B /\ h \in Nat /\ Tail(b) \in Seq(Nat) /\ ToSet(Tail(b)) = B \ {h}
        /\ \A s \in S : s < h
        /\ Moving(S \cup {h}, Tail(b), queue, t)
    <3> HIDE DEF b, t
    <3> QED BY <1>1, <1>2, <1>7, SearchMoves
  <2>4. sent \o o = sent
    BY <1>2, <2>2
  <2>5. p \in Seq(Pair) /\ Parts(sent \o p, fate.cut, fate.found \cup ToSet(p), S \cup {h})
    <3>1. Parts(sent, fate.cut, fate.found, S)
      BY <1>1, <2>4
    <3>2. fate.cut \in SUBSET Pair /\ S \in SUBSET Nat /\ m \in Nat
      BY <1>2 DEF Fates
    <3> HIDE DEF h, S
    <3> QED BY <1>2, <2>3, <3>1, <3>2, FoundIsLast
  <2>6. ToSet(p) \subseteq Pair
    BY <1>2, <2>5, Joined
  <2> HIDE DEF p, h
  <2>7. relay' \in R /\ relay'.batch = Tail(b) /\ relay'.out = p
    BY <1>2, <2>1, <2>3, <2>5 DEF p
  <2>8. /\ fate' \in Fates /\ fate'.displaced = D /\ fate'.lost = L
        /\ fate'.searched = S \cup {h} /\ fate'.found = fate.found \cup ToSet(p)
        /\ fate'.cut = fate.cut
    <3> DEFINE O == ToSet(p)
    <3>1. fate' = [fate EXCEPT !.searched = @ \cup {h}, !.found = @ \cup O]
      BY <2>1 DEF p
    <3>2. O \subseteq Pair
      BY <2>6
    <3> HIDE DEF O
    <3> QED BY ONLY <1>2, <2>3, <3>1, <3>2 DEF Fates, O
  <2>9. Shapes'
    BY <1>1, <1>3, <2>2, <2>7, <2>8 DEF Shapes
  <2>10. Told(S \cup {h}, B \ {h}, Q, T, D, L, n)
    <3> HIDE DEF S, B, Q, T, D, L, n
    <3> QED BY ONLY <1>1, <2>3 DEF Told, Below
  <2> QED BY <1>1, <1>3, <2>2, <2>3, <2>5, <2>7, <2>8, <2>9, <2>10 DEF SerialInv
<1>8. CASE Send
  <2>1. /\ sent' = Append(sent, Head(o)) /\ relay' = [relay EXCEPT !.out = Tail(o)] /\ o # <<>>
        /\ UNCHANGED <<queue, fate, budget>>
    BY <1>8 DEF Send
  <2>2. /\ sent' \in Seq(Pair) /\ Tail(o) \in Seq(Pair)
        /\ sent' \o Tail(o) = sent \o o
    <3> HIDE DEF o
    <3> QED BY <1>2, <2>1, SentIsNext
  <2>3. relay' \in R /\ relay'.batch = b /\ relay'.out = Tail(o)
    BY <1>2, <2>1, <2>2
  <2>4. Shapes'
    BY <1>1, <1>3, <2>1, <2>2, <2>3 DEF Shapes
  <2>5. Parts(sent' \o relay'.out, fate.cut, fate.found, S)
    BY <1>1, <2>2, <2>3
  <2> QED BY <1>1, <1>3, <2>1, <2>3, <2>4, <2>5 DEF SerialInv
<1>9. CASE (Take /\ queue = <<>>) \/ (Extract /\ b = <<>>)
  <2>1. /\ relay' = [relay EXCEPT !.at = "sending"] \/ relay' = [relay EXCEPT !.at = "taking"]
        /\ UNCHANGED <<sent, queue, fate, budget>>
    BY <1>9 DEF Take, Extract
  <2>2. relay' \in R /\ relay'.batch = b /\ relay'.out = o
    BY <1>2, <1>4, <2>1
  <2>3. Shapes'
    BY <1>1, <1>3, <2>1, <2>2 DEF Shapes
  <2> QED BY <1>3, <2>1, <2>2, <2>3, NothingMoves
<1> QED BY <1>5, <1>6, <1>7, <1>8, <1>9

\* The socket recreated, an interrupt, and the steps of close.
LEMMA CloseStep ==
  ASSUME SerialInv, Recreate \/ Interrupt \/ Close \/ LookUp \/ ClosePort \/ Join
  PROVE  SerialInv'
<1> DEFINE R == [at : RelayPlaces, batch : Seq(Nat), out : Seq(Pair), port : Nat]
<1>1. Shapes /\ relay \in R /\ current \in Nat
  BY DEF SerialInv, Shapes
<1>2. UNCHANGED <<current, framer, counts, lines, reader, queue, sent, fate, budget>>
  BY DEF Recreate, Interrupt, Close, LookUp, ClosePort, Join, ReaderKept
<1>3. \/ \E at \in RelayPlaces : relay' = [relay EXCEPT !.at = at]
      \/ \E at \in RelayPlaces : relay' = [relay EXCEPT !.at = at, !.port = current]
  <2>1. {"taking", "closing", "looking up", "closing port", "joining", "ended"}
          \subseteq RelayPlaces
    BY DEF RelayPlaces
  <2>2. CASE LookUp
    BY <2>1, <2>2 DEF LookUp
  <2>3. CASE Recreate
    BY <2>1, <2>3 DEF Recreate
  <2>4. CASE Interrupt
    BY <2>1, <2>4 DEF Interrupt
  <2>5. CASE Close
    BY <2>1, <2>5 DEF Close
  <2>6. CASE ClosePort
    BY <2>1, <2>6 DEF ClosePort
  <2>7. CASE Join
    BY <2>1, <2>7 DEF Join
  <2> QED BY <2>2, <2>3, <2>4, <2>5, <2>6, <2>7
<1>4. relay' \in R /\ relay'.batch = relay.batch /\ relay'.out = relay.out
  BY <1>1, <1>3
<1>5. Shapes'
  BY <1>1, <1>2, <1>4 DEF Shapes
<1> QED BY <1>2, <1>4, <1>5, NothingMoves

LEMMA SerialAlways == SerialSpec => []SerialInv
<1>1. SerialInit => SerialInv
  <2> SUFFICES ASSUME SerialInit PROVE SerialInv
    OBVIOUS
  <2>1. /\ "starting" \in Around /\ "starting" \notin Putting /\ "taking" \in RelayPlaces
        /\ 0 \in Nat /\ <<>> \in Seq(Nat) /\ <<>> \in Seq(Pair) /\ <<>> \in Seq(Seq(Nat))
    BY DEF Around, Putting, RelayPlaces
  <2>2. reader.at \notin Putting /\ reader.todo = <<>> /\ relay.batch = <<>> /\ relay.out = <<>>
    BY <2>1 DEF SerialInit
  <2>3. Shapes
    <3>1. EmptyFramer \in Framer
      BY DEF EmptyFramer, Framer
    <3>2. /\ reader \in [at : Putting \cup Around, mine : Nat, todo : Seq(Nat)]
          /\ relay \in [at : RelayPlaces, batch : Seq(Nat), out : Seq(Pair), port : Nat]
      BY <2>1 DEF SerialInit, NoPort
    <3>3. /\ counts \in [dropped : Nat, overlong : Nat]
          /\ fate \in Fates
          /\ budget \in [bytes : Nat, openings : Nat, failures : Nat]
      BY <2>1 DEF SerialInit, Fates
    <3> QED BY <2>1, <3>1, <3>2, <3>3 DEF SerialInit, Shapes, NoPort
  <2>4. ToSet(<<>>) = {} /\ Rise(<<>>) /\ Len(<<>>) = 0
    BY DEF ToSet, Rise
  <2>5. /\ sent = <<>> /\ queue = <<>> /\ lines = <<>>
        /\ fate.displaced = {} /\ fate.lost = {} /\ fate.searched = {} /\ fate.found = {}
        /\ fate.cut = {} /\ counts.dropped = 0
    BY DEF SerialInit
  <2>6. Moving({}, <<>>, <<>>, <<>>)
    BY <2>4 DEF Moving, Below
  <2>7. Told({}, {}, {}, {}, {}, {}, 0)
    BY DEF Told, Below
  <2>8. IsFiniteSet({}) /\ Cardinality({}) <= 0 /\ 0 <= QueueLines
    BY FS_EmptySet, SerialInputAssumption DEF SerialInputAssumption
  <2>9. Parts(<<>> \o <<>>, {}, {}, {})
    <3>1. <<>> \o <<>> = <<>>
      OBVIOUS
    <3> QED BY <2>4, <3>1 DEF Parts
  <2> QED BY <2>2, <2>3, <2>4, <2>5, <2>6, <2>7, <2>8, <2>9 DEF SerialInv
<1>2. SerialInv /\ [SerialNext]_serialVars => SerialInv'
  <2>1. ASSUME SerialInv, UNCHANGED serialVars
        PROVE  SerialInv'
    BY <2>1 DEF serialVars, SerialInv, Shapes
  <2>2. ASSUME SerialInv, ReadingThread
        PROVE  SerialInv'
    BY <2>2, ReaderTurns, ReadStep, EnqueueStep DEF ReadingThread
  <2>3. ASSUME SerialInv, MainThread \/ Interrupt
        PROVE  SerialInv'
    BY <2>3, ForwardStep, CloseStep DEF MainThread
  <2> QED BY <2>1, <2>2, <2>3 DEF SerialNext, Over
<1> QED BY <1>1, <1>2, PTL DEF SerialSpec

\* SerialLineInput and the relay of src/nmea_sproxy: whatever the two threads do
\* between each other's accesses to the queue, lines are searched in the order in
\* which they were framed and the sentences found sent in this order, none twice;
\* no line and no sentence is missing without a reason.
THEOREM LinesAreAccountedFor == SerialSpec => []Accounted
<1>1. ASSUME SerialInv
      PROVE  Accounted
  <2> DEFINE b == relay.batch
             t == reader.todo
             one == b \o queue
             way == one \o t
             out == sent \o relay.out
             S == fate.searched
             B == ToSet(b)
             Q == ToSet(queue)
             T == ToSet(t)
             D == fate.displaced
             L == fate.lost
  <2>1. /\ Shapes /\ Moving(S, b, queue, t) /\ Len(queue) <= QueueLines
        /\ Told(S, B, Q, T, D, L, Len(lines))
        /\ Cardinality(D) <= counts.dropped
        /\ Parts(out, fate.cut, fate.found, S)
    BY <1>1 DEF SerialInv
  <2>2. b \in Seq(Nat) /\ queue \in Seq(Nat) /\ t \in Seq(Nat) /\ DOMAIN lines = 1 .. Len(lines)
    BY <2>1, LenProperties DEF Shapes
  <2> HIDE DEF b, t, out
  <2>3. /\ Rise(b) /\ Rise(queue) /\ Rise(t) /\ S \subseteq Nat
        /\ Below(B, Q) /\ Below(B \cup Q, T) /\ Below(Q, T) /\ Below(S, B \cup Q \cup T)
    BY <2>1 DEF Moving, Below
  <2>4. one \in Seq(Nat) /\ Rise(one) /\ ToSet(one) = B \cup Q
    BY <2>2, <2>3, OneAfterTheOther
  <2> HIDE DEF one
  <2>5. way \in Seq(Nat) /\ Rise(way) /\ ToSet(way) = B \cup Q \cup T
    <3>1. Below(ToSet(one), ToSet(t))
      BY <2>3, <2>4
    <3>2. way \in Seq(Nat) /\ Rise(way) /\ ToSet(way) = ToSet(one) \cup ToSet(t)
      BY <2>2, <2>3, <2>4, <3>1, OneAfterTheOther
    <3> QED BY <2>4, <3>2
  <2>6. ToSet(queue \o t) = Q \cup T
    BY <2>2, <2>3, OneAfterTheOther
  <2>7. way = b \o queue \o t
    BY DEF one
  <2> HIDE DEF way, S, B, Q, T, D, L
  <2>8. /\ \A i, j \in DOMAIN way : i < j => way[i] < way[j]
        /\ \A n \in S, m \in ToSet(way) : n < m
        /\ DOMAIN lines = UNION {ToSet(way), S, D, L}
        /\ S \cap L = {} /\ D \cap (ToSet(way) \cup S \cup L) = {} /\ L \cap ToSet(way) = {}
        /\ \A d \in D, n \in ToSet(queue \o t) : d < n
    BY <2>1, <2>2, <2>3, <2>5, <2>6 DEF Rise, Told, Below
  <2>9. /\ \A i, j \in DOMAIN out : i < j => Precedes(out[i], out[j])
        /\ fate.found = ToSet(out) \cup fate.cut /\ ToSet(out) \cap fate.cut = {}
        /\ \A c \in fate.cut, s \in ToSet(out) : c[1] = s[1] => s[2] < c[2]
        /\ \A s \in fate.found : s[1] \in fate.searched
    BY <2>1 DEF Parts, S
  <2> QED BY <2>1, <2>7, <2>8, <2>9 DEF Accounted, b, t, out, S, D, L
<1> QED BY <1>1, SerialAlways, PTL
=============================================================================
