------------------------------ MODULE SecureLink ------------------------------
(***************************************************************************)
(* One station proxy, the client of src/nmea_sproxy/nmea_sproxy.py, and    *)
(* the secure UDP server of module SecureState over a network that loses,  *)
(* repeats, delays and reorders datagrams.  The server may restart and     *)
(* lose all it knows, the client too, its socket may fail, and the address *)
(* the server sees it under may change.                                    *)
(*                                                                         *)
(* From some time on the network is calm: what is sent arrives, once and   *)
(* before the clock moves, and nothing fails any more.                     *)
(*                                                                         *)
(* Sentences are left out: to the session one is a ping without a pong.    *)
(***************************************************************************)
EXTENDS Naturals, Sequences

CONSTANTS
  Addrs,             \* addresses of the client
  MaxAttempts,       \* bound of the model: handshakes begun
  Pings,             \* the pings of a session, in their order; bounds their number
  HandshakeTimeout, ReconnectDelay, Keepalive, PeerTimeout,
  RefreshInterval,   \* 0: no planned refresh
  SessionTtl, MaxSessions, PendingTtl, MaxPending, ReplayTtl, MaxReplays,
  NonceTtl, MaxNonces, Freshness,     \* of the server
  MaxTime,           \* bound of the model: the clock
  MaxKeys,           \* bound of the model: handshakes answered
  MaxDelay,          \* bound of the model: how late a datagram may come
  MaxFaults          \* bound of the model: restarts, failures and new addresses

ASSUME SecureLinkAssumption ==
  /\ {HandshakeTimeout, ReconnectDelay, Keepalive, PeerTimeout} \subseteq Nat \ {0}
  /\ {RefreshInterval, MaxAttempts, MaxFaults} \subseteq Nat
  /\ Keepalive < SessionTtl
  /\ Pings \in Seq({Pings[n] : n \in DOMAIN Pings})
  /\ \A i, j \in DOMAIN Pings : Pings[i] = Pings[j] => i = j
  /\ \A n \in DOMAIN Pings : Pings[n] # "nothing"

VARIABLES
  now, sessions, pending, replays, issued, currentNonces, net,       \* of the server
  client,    \* what the client does, with what it knows while it does it
  addr,      \* the address it has
  attempts,  \* handshakes begun
  wire,      \* datagrams that may arrive
  calm,      \* the time the network calmed down, or Never
  faults     \* faults so far

serverVars == <<sessions, pending, replays, issued, currentNonces, net>>
clientVars == <<client, addr, attempts>>
vars == <<now, serverVars, clientVars, wire, calm, faults>>

Never == MaxTime + 1
Nothing == "nothing"     \* expected_ping_seq is None

Hellos == (1 .. MaxAttempts) \X (0 .. MaxTime)

Server == INSTANCE SecureState WITH
  Stamp <- [h \in Hellos |-> h[2]],
  Sentences <- {Pings[n] : n \in DOMAIN Pings},
  log <- {}

ASSUME ServerAssumption == Server!SecureStateAssumption

-----------------------------------------------------------------------------
(* Datagrams.                                                              *)

ClientHello(h) == [type |-> "ClientHello", addr |-> addr, hello |-> h, timestamp |-> now]
Data(key, what) ==
  [type |-> "Data", addr |-> addr, key |-> key, what |-> what, timestamp |-> now]
ServerHello(a, h, key) ==
  [type |-> "ServerHello", addr |-> a, hello |-> h, key |-> key, timestamp |-> now]
Pong(a, key, what) ==
  [type |-> "Pong", addr |-> a, key |-> key, what |-> what, timestamp |-> now]
NoSession(a) == [type |-> "NoSession", addr |-> a, timestamp |-> now]

\* A calm network delivers a datagram once.
Left(m) == IF calm # Never THEN wire \ {m} ELSE wire

-----------------------------------------------------------------------------
(* The server takes a datagram and answers.                                *)

Reply(m) ==
  LET a == m.addr
  IN  CASE m.type = "ClientHello" ->
             {ServerHello(a, m.hello, k) : k \in issued + 1 .. issued'}
        [] m.type = "Data" ->
             IF ~Server!Has(Server!P, a) /\ ~Server!Has(Server!S, a) THEN {NoSession(a)}
             ELSE IF \/ m.what = "confirm" /\ Server!ForPending(a, m.key)
                     \/ Server!Acceptable(a, m.key, m.what)
                  THEN {Pong(a, m.key, m.what)} ELSE {}

ServerTakes ==
  /\ \E m \in wire :
       /\ \/ m.type = "ClientHello" /\ Server!Hello(m.addr, m.hello)
          \/ m.type = "Data" /\ Server!Data(m.addr, m.key, m.what)
       /\ wire' = Left(m) \cup Reply(m)
  /\ UNCHANGED <<clientVars, calm, faults>>

-----------------------------------------------------------------------------
(* The client.                                                             *)

Idle == [phase |-> "idle"]

\* time.sleep(reconnect_delay) before the next handshake.
Delayed == [phase |-> "delay", until |-> now + ReconnectDelay]

Becomes(state) ==
  /\ client' = state
  /\ UNCHANGED <<now, serverVars, addr, attempts, calm, faults>>

\* perform_handshake: a new ClientHello is sent.
Begin ==
  LET h == <<attempts + 1, now>>
  IN  /\ client = Idle
      /\ attempts < MaxAttempts
      /\ attempts' = attempts + 1
      /\ client' = [phase |-> "hello", hello |-> h, until |-> now + HandshakeTimeout]
      /\ wire' = wire \cup {ClientHello(h)}
      /\ UNCHANGED <<now, serverVars, addr, calm, faults>>

\* A ServerHello signed over the transcript of this attempt gives the keys,
\* under which the confirmation is sent; the wait for its answer has a deadline
\* of its own.
Answered(m) ==
  /\ client.phase = "hello" /\ m.type = "ServerHello"
  /\ m.hello = client.hello

Confirming(m) ==
  /\ Answered(m)
  /\ Becomes([phase |-> "confirm", key |-> m.key, until |-> now + HandshakeTimeout])
  /\ wire' = Left(m) \cup {Data(m.key, "confirm")}

\* handle_server_packet: a pong under the session's keys with the sequence
\* number expected.
Authenticates_AnyKey(m, key, expected) == m.type = "Pong" /\ m.what = expected

Authenticates_AnyPing(m, key, expected) == m.type = "Pong" /\ m.key = key

Authenticates(m, key, expected) ==
  m.type = "Pong" /\ m.key = key /\ m.what = expected

Confirmed(m) ==
  client.phase = "confirm" /\ Authenticates(m, client.key, "confirm")

\* The keys are in use: forward_loop starts.
Connected(m) ==
  /\ Confirmed(m)
  /\ Becomes([phase |-> "forward", key |-> client.key, started |-> now, peer |-> now,
              pinged |-> now, expected |-> Nothing, next |-> 1,
              home |-> addr, answered |-> m.timestamp])
  /\ wire' = Left(m)

Ponged(m) ==
  client.phase = "forward" /\ Authenticates(m, client.key, client.expected)

\* The peer is alive; a second pong to the same ping is not expected any more.
KeptAlive(m) ==
  /\ Ponged(m)
  /\ Becomes([client EXCEPT !.peer = now, !.expected = Nothing, !.answered = m.timestamp])
  /\ wire' = Left(m)

\* A hint that the server has no session is believed, except while the
\* ServerHello is awaited.
Rejected(m) ==
  m.type = "NoSession" /\ client.phase \in {"confirm", "forward"}

GivesUp(m) ==
  /\ Rejected(m)
  /\ Becomes(Delayed)
  /\ wire' = Left(m)

\* Anything else is dropped.  What arrives while the client sleeps is read, and
\* dropped, as it awaits the next ServerHello.
Drops(m) ==
  /\ ~(Answered(m) \/ Confirmed(m) \/ Ponged(m) \/ Rejected(m))
  /\ wire' = Left(m)
  /\ Becomes(client)

ClientTakes ==
  \E m \in wire :
    /\ m.type \in {"ServerHello", "Pong", "NoSession"} /\ m.addr = addr
    /\ Confirming(m) \/ Connected(m) \/ KeptAlive(m) \/ GivesUp(m) \/ Drops(m)

\* No answer within the handshake timeout.
TimesOut ==
  /\ client.phase \in {"hello", "confirm"} /\ now >= client.until
  /\ Becomes(Delayed)
  /\ UNCHANGED wire

Wakes ==
  /\ client.phase = "delay" /\ now >= client.until
  /\ Becomes(Idle)
  /\ UNCHANGED wire

PeerSilent == now - client.peer >= PeerTimeout

RefreshDue == RefreshInterval > 0 /\ now - client.started >= RefreshInterval

\* session_expiration_reason, looked at on every turn of forward_loop: a planned
\* refresh goes on to the handshake at once.
Expires ==
  /\ client.phase = "forward" /\ (PeerSilent \/ RefreshDue)
  /\ Becomes(IF PeerSilent THEN Delayed ELSE Idle)
  /\ UNCHANGED wire

PingDue == now - client.pinged >= Keepalive

Ping_Unexpected ==
  /\ client.phase = "forward" /\ PingDue
  /\ client.next <= Len(Pings)
  /\ Becomes([client EXCEPT !.pinged = now, !.next = @ + 1])
  /\ wire' = wire \cup {Data(client.key, Pings[client.next])}

\* A ping is sent; from now on only the pong to this one counts.
Ping ==
  /\ client.phase = "forward" /\ PingDue
  /\ client.next <= Len(Pings)
  /\ Becomes([client EXCEPT !.pinged = now, !.next = @ + 1, !.expected = Pings[client.next]])
  /\ wire' = wire \cup {Data(client.key, Pings[client.next])}

ClientActs == Begin \/ TimesOut \/ Wakes \/ Expires \/ Ping

-----------------------------------------------------------------------------
(* Faults, until the network calms down.                                   *)

Fault == calm = Never /\ faults < MaxFaults /\ faults' = faults + 1

\* Sending or receiving fails.
SocketError ==
  /\ Fault
  /\ client.phase \in {"hello", "confirm", "forward"}
  /\ client' = Delayed
  /\ UNCHANGED <<now, serverVars, addr, attempts, wire, calm>>

\* The client starts anew, or the server sees another address of it.
ClientRestarts ==
  /\ Fault
  /\ client' = Idle /\ client # Idle
  /\ UNCHANGED <<now, serverVars, addr, attempts, wire, calm>>

Rebind ==
  /\ Fault
  /\ addr' \in Addrs \ {addr}
  /\ UNCHANGED <<now, serverVars, client, attempts, wire, calm>>

\* The server starts anew; keys stay unique.
ServerRestarts ==
  /\ Fault
  /\ sessions' = <<>> /\ pending' = <<>> /\ replays' = <<>>
  /\ currentNonces' = 0
  /\ net' = [sessions |-> 0, pending |-> 0]
  /\ UNCHANGED <<now, issued, clientVars, wire, calm>>

\* What is still on its way is lost.
CalmsDown ==
  /\ calm = Never
  /\ calm' = now
  /\ wire' = {}
  /\ UNCHANGED <<now, serverVars, clientVars, faults>>

-----------------------------------------------------------------------------

\* Nothing is due and, in a calm network, nothing is under way.
Settled ==
  /\ CASE client.phase = "idle" -> FALSE
       [] client.phase = "forward" -> ~PeerSilent /\ ~RefreshDue /\ ~PingDue
       [] OTHER -> now < client.until
  /\ calm # Never => wire = {}

Tick ==
  /\ Settled /\ Server!Tick
  /\ wire' = {m \in wire : now' - m.timestamp <= MaxDelay}
  /\ UNCHANGED <<clientVars, calm, faults>>

Init ==
  /\ Server!Init
  /\ client = Idle
  /\ addr \in Addrs
  /\ attempts = 0
  /\ wire = {}
  /\ calm = Never
  /\ faults = 0

Next ==
  \/ ServerTakes \/ ClientTakes \/ ClientActs
  \/ SocketError \/ ClientRestarts \/ Rebind \/ ServerRestarts
  \/ CalmsDown \/ Tick

Spec == Init /\ [][Next]_vars

-----------------------------------------------------------------------------
(* Properties.                                                             *)

Greater(i, j) == IF i > j THEN i ELSE j

\* While the client forwards, the server has no session under other keys at the
\* address where the client's were confirmed: no late or repeated handshake
\* takes the place of a newer one.
KeysAgree ==
  client.phase = "forward" =>
    \A s \in Server!ToSet(sessions) : s.addr = client.home => s.key = client.key

\* The client leaves a session the server has stopped answering: late and
\* repeated pongs do not keep it alive longer than the peer timeout and the
\* time a pong may take.
DeadSessionsAreLeft ==
  client.phase = "forward" =>
    now - client.answered <= PeerTimeout + Greater(Keepalive, HandshakeTimeout)

\* The client forwards under the keys of the server's live session.
Linked ==
  /\ client.phase = "forward"
  /\ Server!Has(Server!S, addr) /\ Server!Entry(Server!S, addr).key = client.key

\* Whatever happened before, a calm network has a working session again after
\* the longest wait that may be running and one reconnect delay.
RecoversInTime ==
  (calm # Never /\ Settled /\ now >= calm + Greater(PeerTimeout, HandshakeTimeout) + ReconnectDelay)
    => Linked
=============================================================================
