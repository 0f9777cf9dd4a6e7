# Aismixer: models, checks and proofs

aismixer receives AIS sentences on UDP and secure UDP inputs, reassembles
multipart messages, drops repeats, attaches metadata and sends the result to
UDP targets chosen by routing rules. This directory models its core in TLA+,
checks the models with TLC and proves some of the results with TLAPS. Paths
below are relative to `src/`.

## Inventory

| Component | Source | State | Operations | What must hold |
|---|---|---|---|---|
| multipart assembler | `assembler.py` | groups by key, with deadline and fragments; counters and peaks | feed a fragment, reset | bounded; nothing completes from stale or conflicting fragments; every group's end is reported and counted |
| deduplicator | `dedup.py` | dictionary and queue of the same entries; counters | `is_unique`, `cleanup_expired`, `reset` | one acceptance per window, no suppression outside it, containers agree |
| processor | `core/python_data_plane.py` | per group metadata beside the assembler and the deduplicator | `process`, `reset` | metadata lives and dies with its group; in one deduplication mode a target gets a message once per window |
| source activity | `core/state/s_cache.py`, `core/utils/ttlmap.py` | deadlines, queue of deadlines, associated state | `touch_s`, `reset` | bounded, swept |
| processing admission | `aismixer.py` `_BoundedProcessingQueue` | semaphore permits, waiters, queue | `admit`, `get`, cancellation | permits match slots, no lost wake-up, frames bound to rising routing generations |
| runtime | `aismixer.py` loops, supervision, `main` | queues, batch in hand, completion, tasks | listeners, readers, stages, supervision, interrupt | order, at most once, barrier, no orphan task, fail together |
| forwarder | `forwarder.py` | open transports | send, close | opened once, closed last |
| routing table | `core/routing.py`, `core/runtime_routing.py` | zones being resolved, values so far | compile a section, match a source | zones mean what they say, errors are real, order of routes kept |
| routing state | `core/routing_state.py` | immutable snapshot with generation | snapshot, replace | generation-checked replacement, failed compile changes nothing |
| routing control | `core/routing_control*.py`, `core/runtime_control.py`, `aismixerctl.py` | control socket, connections | start, serve, close; command | what an operator is told is true, only the own socket path removed |
| secure server | `aismixer_secure.py` | sessions, pending sessions, expiring sets | HELLO, DATA | a session is replaced only by a confirmed one; a datagram is delivered once per window |
| secure client | `nmea_sproxy/nmea_sproxy.py` | handshake and session loop | handshake, ping, forward, reconnect | leaves dead sessions, finds its way back |
| sproxy inputs | `nmea_sproxy/input_adapters.py` | line framer, queue between two threads | read, enqueue, poll | bounded, newest kept, every line and every sentence in it accounted for |
| metrics | `aismixer.py`, `core/metrics.py`, `core/runtime_statistics.py` | counters of queues, waits and batches | snapshot | counters add up wherever a request finds them, or the snapshot is refused |
| parsing, wire format, cryptography, network policy, front ends | the remaining files | none | pure functions | covered by table tests |

Components interact in one process by calls and asyncio queues: listener →
ingress queue → reader → admission queue → processor (assembler, deduplicator,
source activity) → egress queue → forwarder. The routing state is read as a
reader's frame is admitted and replaced by the control server. `main` owns all
tasks. The secure client is another process, reached over UDP.

What is hard: readers and stages interleave at every `await`; cancellation can
arrive between being woken and running; a failure in one task must end all;
routing changes while frames wait; several containers describe the same entries
and expire at different moments; metadata is kept beside the groups it belongs
to; datagrams are lost, repeated and late; processes crash and leave their
socket behind; a thread and the main thread share a queue and a port. `PROJECT.json` lists each hazard at
its line with the properties that watch it.

## Modules

| Module | Models | Correspondence |
|---|---|---|
| `Reassembly` | promise of the assembler | a group collects the first fragment of each position and completes exactly when all arrived; anything may be forgotten at any time |
| `Assembler` | `assembler.py` | a step is one call of `feed_parsed_outcome` or `reset`; a fragment is (key, position, total, payload) |
| `DedupCache`, `Dedup` | `dedup.py` | the operators on the two containers, and the class with its counters |
| `Processor` | `core/python_data_plane.py` | extends `Assembler` and uses the cache's operators; begin, feed and emit follow one call of `process`, down to the header of each line |
| `SourceState` | `s_cache.py`, `ttlmap.py` | a step is one call; the queue keeps its stale records |
| `Admission` | `_BoundedProcessingQueue`, `_bind_processing_work_item` | a step is what a reader or the processor does between two suspensions; the semaphore is asyncio's (FIFO hand-over, a handed permit is held until its reader runs) |
| `Delivery` | promise of the runtime | frames in the order of their admission, each source's in the order of arrival and none twice or left out, each under the generation in force at its admission; outputs of one frame together |
| `Runtime` | listeners, readers, fan-in, processor stage, egress stage, supervision, `main` | instantiates `Admission`; a cancelled task is marked and ends when scheduled; processing is abstracted to the dispatches it leads to, over the transports of their targets; the tasks over, `main` stops the control server and then closes the transports |
| `RuntimeStatistics` | the counters in `aismixer.py`, and what `core/metrics.py` accepts of them | `Runtime` with two variables more: each step of the runtime counts what its code counts; a request may read in every state |
| `ExpiringSet`, `SecureState` | `aismixer_secure.py` | the operators of `_BoundedExpiringSet`, and the server: a step handles one datagram, which changes nothing after its first suspension; datagrams repeat, come late and out of order because any one made so far may arrive at any step |
| `SecureLink` | `nmea_sproxy.py` with `SecureState` | instantiates the server; the wire is a set of datagrams, each with its time, that may be lost, repeated and late; a step is one packet or one due timer on either side; restarts, socket failures and a new address until the network calms down |
| `Routing` | `core/routing.py`, `core/runtime_routing.py` | a step is a call or a return of the recursive `resolve`, whose stack is a variable; `MatchTargetIds` is what the data plane asks |
| `RoutingControl` | `core/routing_control.py`, `core/routing_control_protocol.py`, `core/routing_state.py` | `Fails`, `After` and `Answer` are the error, the snapshot and the answer a request leads to |
| `ControlSocket` | `core/routing_control_unix*.py`, `aismixer.py` around them, `aismixerctl.py` | processes start, stop and crash over one path; a connection is read in parts; an answer may be lost; aismixerctl may be killed |
| `SerialInput` | `nmea_sproxy/input_adapters.py`, the relay of `nmea_sproxy.py` | the framer on chunks; the sentences found in a line, each sent on its own; the steps of the reading thread and the main thread between two accesses to what they share |
| `Admission_proofs`, `Runtime_proofs`, `ControlPlane_proofs`, `Dedup_proofs`, `Processor_proofs`, `SourceState_proofs`, `SecureState_proofs`, `Sproxy_proofs` | theorems about the module of that name, `Runtime_proofs` about `RuntimeStatistics` and `Processor_proofs` about `Assembler` too; `ControlPlane_proofs` is about `Routing` and `ControlSocket`, `Sproxy_proofs` about `SecureLink` and `SerialInput` | |
| `MC*` | constants of the runs | |

## Runs

Each component has one run, which checks its invariants, its action properties
and, where there is one, its refinement and its liveness.

* `assembler` — bounds, accounting, expiry, eviction, overload, reset, and that
  `Assembler` implements `Reassembly`. Two keys beyond capacity, a clock past
  the ttl, fragments that repeat and conflict.
* `dedup` — window, capacity and reset with fewer entries than keys.
* `processor` — metadata and deduplication scopes under routing changes; one
  receiver without an alias, one anonymous and one named, and fragments that
  name the anonymous station themselves. A target gets a message exactly when no
  copy stands against it: one let through for it in the same mode, within the ttl,
  with fewer after it than the cache holds.
* `source_state` — capacity two with four sources; the queue holds stale
  deadlines, so evictions meet them, and what it holds is bounded by a sweep.
* `source_state_bound` — **violation**, see Findings.
* `admission` — five readers for two slots, so that sleeping, handed and free
  permits exist together; bindings fail and readers are cancelled in each
  state; under fairness every wait ends.
* `runtime` — two sources, queues of one, frames that emit nothing or for three
  targets of which two share a transport, every failure and interrupt at every
  point. `Runtime` implements `Delivery`; under fairness every queued frame is
  processed or the program ends, and the end of any task ends everything. The
  run is of `RuntimeStatistics`, so that the counters are there to add up.
* `secure_state` — three peers for two sessions and one pending session, three
  handshakes with one replay record, three messages a session with room for two
  nonces: expiry, eviction, replacement and promotion meet in one run. Peers,
  equal handshakes and messages are symmetric.
* `secure_link` — three handshakes of a client under two addresses, datagrams
  up to two units late, one restart or failure at any point, a planned refresh,
  and a clock that lets a session be lost and found again. A session is under
  agreed keys, a dead one is left in time, and a calm network has a working one
  after a bounded time; the bound on the clock makes this an invariant of
  settled states and needs no fairness.
* `routing` — every section of three zones with at most two references, over
  every operation, with cycles of every length, unknown names and empty
  expressions, and three lists of routes.
* `control` — two operators with two commands each and two processes that start
  after or beside one another; four starts, commands, crashes and kills in all.
  What an operator is told is true, updates are not lost, the path stays that of
  a process that runs, and everyone gets done.
* `serial` — four bytes in chunks of one or two over two openings of the port, a
  queue of two lines, up to two sentences or none in a line, one failing send, and
  an end at any moment.

`Consistent` is in most modules the one invariant of what a step must keep: the
types and bounds with the agreement of the containers and the counters
(`ProcessorConsistent` in `Processor`, which extends `Assembler` and its
`Consistent`). Its parts have names of their own.

Bounds are constants of the modules (`MaxTime`, `MaxFrames`, `MaxGeneration`,
`MaxQueue`, ...) and cap history only. Two sources and queues of one already
give contention, waiting and hand-over; two dispatches separate the first from
the last. `CHECK_DEADLOCK FALSE` stands where a run reaches the bound of its
clock, or where the program has ended.

Fairness is assumed of scheduled work only: a resumed reader, a consuming
stage, a task with a delivered cancellation, a supervisor with an ended task.
The asyncio loop runs every ready callback, so each eventually happens; the
operating system schedules both threads of `SerialInput`. In `ControlSocket` a
process that closes is only assumed to get on once its connections are gone:
from Python 3.12 on `wait_closed` waits for them, before it does not, and the
weaker assumption covers both. `Runtime` takes over what `EverythingEnds` shows
there: its `WF(Close)`, after `StopControl`, says that the control server is closed
at some time, which holds if no client stays connected for ever. Arrivals, failures, interrupts, crashes and
replacements are never assumed.

Every property has a mutant: a plausible mistake in one mapped definition that
makes TLC report the property violated; some have two. It stands before the definition under
its name with `_Bug`, or the mistake, after it.

## Proofs

The proofs assume of the constants only what the `ASSUME`s of the modules say:
positive capacities, timeouts and windows, finitely many readers and sources,
batches that are sequences of targets, and that `Sorted` lists every name.
`AssemblerAssumption` numbers the keys, `ControlSocketAssumption` makes the
requests beside the four commands ones that cannot succeed, since what they
would do is in the commands already. `SecureLinkAssumption` makes the pings
distinct, as the sequence numbers in them are, and `ServerAssumption` makes the
constants ones `SecureState` assumes. One theorem, `RecoveryIsInTime`, has a
hypothesis beside them, `Keepalive < PeerTimeout`: the code does not check it, its
defaults (30 and 90 seconds, `nmea_sproxy/nmea_sproxy.py:116`) satisfy it, and the
run has it too. Where it does not hold the client may give up each session
before it has asked for a sign of life.

`Admission_proofs`, for every number of readers, capacity and routing history:
`SlotsAreConserved`, `NoWakeupIsLost` and `BindingFollowsRouting` (`[]Consistent`,
`[]NoLostWakeup`, `[]GenerationsInOrder`). The invariant is `IInv == TypeOK /\
IsFiniteSet(granted) /\ PermitsAreSlots`. The parts need one another: a permit
count is below the capacity because slots are conserved, and conservation needs
that the head of the sleepers is not already granted, which is the uniqueness
in `TypeOK`. `WakeMoves`, `LeavePasses` and `ReturnMoves` say what the
semaphore's operations do to the sum and to the waiters; `StepIInv` uses them
action by action. The other two properties are inductive beside it.

`ControlPlane_proofs`, of `Routing` for every section over any names: `RoutingIsResolved`
(`[]ResolvesAsDefined`). `IInv` has the shape of a depth-first search: the stack
is a simple path (`PathIsSimple`), each call is for the reference its caller
looks at (`Linked`), a zone on the stack has no value while the references it
has passed have theirs (`Progress`), and no zone is forgotten (`Covered`). That
a compiled table has no cycle needs a witness: `Ranked` numbers the zones in
the order they were resolved, each above those it refers to. `ErrorsAreReal`
follows from `Linked`: the stack from the repeated zone on is the cycle.
`TargetsAreMatched` (`[]TargetsInOrder`) is about the two nested folds of
`MatchTargetIds`, unrolled turn by turn: after each turn the list has the targets
named so far, each once and in the order in which they were first named, since a
turn appends a target that is not there yet and else changes nothing.

`Runtime_proofs`, for every set of sources, capacities and dispatches, and any
end of any task:

* `NothingIsOrphaned` (`[]NoOrphans`), from `TasksTyped` and from the order in
  which a task's states come (`TasksAdvance`). Once `main` stops the control server
  every task it owns has ended.
* `StagesAreConsistent` (`[]Consistent`) and `RuntimeDelivers`, from two
  invariants. `PipeInv` is the way of the frames: `TasksTyped`, `QueueInv` (that
  of `Admission_proofs`, taken over by INSTANCE), `IngressInv` and `OrderInv`,
  which says that the work queue continues each source after the frame begun
  last without a gap, and that the frame a reader holds is the next. A frame is
  missing only when its reader has ended. `StageInv` is about the two stages:
  at most one batch is between them, and while the processor waits for it the
  egress stage runs.
* The refinement `RuntimeDelivers` (`Spec => Delivers`): a reader that puts a frame
  in the work queue accepts it, which is the next one of its source by `OrderInv`
  (`AcceptsNext`), `Process` begins a frame of `Delivery`, `Dispatch` sends, the end
  of a batch completes it, and all else, `EgressTakes` with the batch it moves
  included, stutters. Once the processor stage is cancelled or over, whatever is in
  the queue is lost: `Stop`, after which readers may still admit for a while.
* `StatisticsAreAccepted`: the runtime that counts steps as `Runtime` does, and
  its counters add up, `CountedSpec => Spec /\ []StatisticsAddUp`. `CountInv` has
  a part for each owner of counters and is inductive beside the invariants
  above. `WaitersCounted` is stronger than what is read: a reader that may still
  run is counted as waiting exactly while it waits, without which a late
  cancellation could count it down twice.

`Dedup_proofs`, for any keys, window and capacity: `CacheIsConsistent`,
`NoRepeats` and `NoLateRejects` (`[]Consistent`, `[]NoRepeatInWindow`,
`[]NoFalseSuppression`). `CacheInv` says that the queue is ordered by time,
lists each key once, and holds exactly the entries of the dictionary; what a
cleanup or an eviction pops from the front is then what the dictionary loses.
The last two properties relate the cache to the history of acceptances: a key
that is neither cached nor forgotten was accepted a window ago.

`Processor_proofs`, first about the assembler, for any keys, payloads, timeout
and capacities: `AssemblerIsConsistent`, `NoneCompletesStale`, and the action properties
`EveryEndIsReported`, `RepeatsDoNotRenew`, `LongestWaitingGoes`. `AssemblerInv`
adds to the bounds that the groups are finitely many, each with positions below
its total and last progress not in the future; the ledger needs that what a feed
expires, evicts and starts are disjoint sets of keys, whose cardinalities add
up. `LongestWaitingGoes` is about evictions: a live group gives way only when the
dictionary holds as many live groups as it may, it does so alone, and it is the one
that has waited longest, of equals the one with the least key.
`AssemblerReassembles` is the refinement of `Reassembly`, with a step of a
feed mapped to forgetting and collecting at once.

Then about the processor, for any receivers, routing tables, scopes, window and
cache: `ProcessorIsConsistent`, `OutputsAreDrawn` and `EachTargetOncePerWindow`
(`[]ProcessorConsistent`, `[]OutputsDrawOnTheirGroup`, `SentOncePerWindow`). The
last is an equivalence over a history that forgets nothing but at a reset: a target
gets every line of a message if no copy stands against it, and none otherwise.
`ProcessorInv` has `AssemblerInv`, for a feed is one of the assembler's;
`ContextsInv`, by which the metadata kept is that of the arrivals seen since the
group began, and `FeedMeets` between the assembler's outcome and the groups while
a message is under way; and `SentInv`, which ties the history to the cache: its
entries are the end of the log of what was let through (`Trails`), so that whatever
is not cached any more is older than the ttl or has `max_entries` others after it.
The scopes of a message are asked in a fold, each turn of which may evict what an
earlier one has added. It is unrolled into the sequence of its caches (`AskTrace`),
and what holds of each is shown by taking the first that violates it
(`LeastNumber`). The attempt found that an output has its address in the header
only where the group has no name is false when a sentence names the anonymous
station itself, which the run did not enumerate and now does.

`SourceState_proofs`, for any sources, ttl, capacity and sweeping policy:
`SourcesAreConsistent` and `SweepsAreThorough` (`[]Consistent`,
`[]NoneOverstays`). `Kept` says of a map and its queue that every live source
has its own record there and that nothing was due at the last sweep. It is kept
by each part of a touch: by the new deadline, by a sweep, as the queue is
sorted and only the record that holds the present deadline evicts, and by an
eviction, which stops at the latest when the queue, and with it the map, is
empty. That the associated state is bounded does not follow, see Findings.

`ControlPlane_proofs`, of `ControlSocket` for any number of processes and operators:

* `ReachableStays`, from `PathInv`: processes start in order and each takes the
  socket for its own only when it is, so that a process that stops late never
  removes the socket of its successor.
* `ToldIsTrue` and `NoUpdateIsLost`, from `CommandsInv`, which follows a command
  from the operator through its connection to the answer. A generation is the
  number of commands applied, each at most once (`HistoryInv`); a request that
  was handled has left its connection, so that no error is told of a change
  made later (`ToldTruly`). A snapshot shown is of an earlier generation or the
  very present one (`Shown`): with equal generations it is the same table, and
  no table of the past has to be kept to say so.

`SecureState_proofs`, for any peers, capacities, ttls and windows, whatever
arrives when:

* `SecureConsistent` (`[]Consistent`), from `Tables` and `Counts`: either table
  lists its entries by time, one for an address and one for a key, and no key is
  in both. The nonces in use are the cardinality of a set of places, each under
  its key (`Weight`), so that what expiry, eviction, replacement and promotion
  take from the count is what they take from the set; that they never take a
  nonce twice is the uniqueness of keys.
* `NothingTwice` (`[]NoRepeatInWindow`), from `History`: what counts as a
  repetition is backed by an unexpired record, a handshake's among the
  handshakes, a message's with the session of its key, which is never pending.
  The last part is what a promotion needs, as a pending session starts without
  nonces.
* `SessionsEndForAReason` (`EndsForAReason`): the cleanup only removes what was
  silent for its ttl (`KeptTable`), and of the other steps only `Confirm` removes
  an entry, the one `DisplacedEntry` describes.

What the steps do to the tables is stated apart from the history
(`HelloAnsweredTables`, `ConfirmTables`, `AcceptedTables`, `RestartStep`), for a
server that has none. `HelloEffect`, `DataEffect` and `LiveTakes` say what a client
may count on: a timely new handshake makes a session pending at its address,
a live session or pending one takes what it does not hold, has then just been heard
of, and outlives what else arrives.

`Sproxy_proofs`, of `SecureLink` for any pings, timeouts, capacities, faults and restarts:
`SessionsAgree` and `DeadOnesAreLeft` (`[]KeysAgree`,
`[]DeadSessionsAreLeft`). The server's tables are those of `SecureState_proofs`,
taken over by INSTANCE with an empty history; `SameHello` and `SameData` say that
the two instances of `SecureState` take the same steps. `LinkInv` has a part for
each phase of the client, about what may still arrive. While a handshake is
unanswered, the keys of any answer to it are newer than all in use on the wire
(`Begun`). Once the client has keys, none in use are newer, nothing but the
confirmation is under them, and a pong to it, however late, is of a server
that has put them to use (`Awaited`). From there on the session at
the client's address is under its keys, and what is pending there is newer
(`Home`), so that no message under the client's keys can put another session in
its place: `HomeStays` is this for every datagram the server may take, and it
rests on `Tables`, by which no key is in both tables and none comes twice.
`Timers` ties the pong taken last to the ping it answers: each ping is sent once
and one is awaited, so a late pong is not older than that ping (`InUse`), and a
dead session is renewed by at most one.

`RecoveryIsInTime` (`[]RecoversInTime`), of the same module, rests on `RecoveryInv`
beside `LinkInv`. `PastInv` is what any past leaves: no timer runs longer
than its timeout from now, the handshakes held against repetition are of this client
and no later than its last, a pending session is newer than the one it will
replace, and under the client's keys a session holds nothing but what was sent
(`Holding`), so that the next ping is no repetition to it. `CalmInv` is what holds
once the network is calm, phase by phase: either the wait is one from before
(`Lost`; then it ends by `Overdue`), or what it waits for is on the wire or
about to be sent, in answer to something on the wire that the server is bound to
accept (`HelloSent`, `HelloAnswered`, `ConfirmSent`, `Recovered`). Whoever
answers under the client's keys has a session of them (`Vouched`), which is how the
client's use of a session comes to say something of the server's. From
`Overdue` on no hint that there is no session is under way (`Current`): whatever
the client still sends meets a session or a pending one at its address. So after
`Overdue` at most one reconnect delay is left. `ServedHello`,
`ServedConfirm` and `ServedForward` are the steps of the server, one lemma each the
client's; a fault only has to keep `PastInv`.

Of `SerialInput`, for any capacities, chunks and ways in which the two threads
come between each other's accesses: `LinesAreAccountedFor` (`[]Accounted`).
In `SerialInv` the numbers of the lines searched, of those the main thread has
taken, of those in the queue and of those the reader has yet to queue rise, and each
part comes after the one before it (`Moving`); a line is in one of them or given up,
and what was displaced is older than all that is behind it (`Told`). The sentences
sent and about to be are in order, those cut off come after the others of their
line, and together they are what was found (`Parts`; `FoundIsLast`, `SentIsNext` and
`CutIsLast` are its three steps). The hard step is the full queue: the reader gives up its oldest line
and tries again, while the main thread may have taken that line, or the next, in
between. That a chunk's lines come after all earlier ones needs no more of
`feed` than that it returns lines: its fold over the bytes is unrolled into the
states after each (`FeedRuns`, `FeedFrames`).

Induction theorems take an operator, which no prover here can instantiate. Where
a fold or a search had to be reasoned about it is unrolled and the least
counterexample refuted, which needs only that a set of numbers has a least one.
Liveness under fairness, and so ENABLED, is out of reach and checked by TLC only:
`EveryWaitEnds`, `FramesAreHandled`, `EndsTogether`, `EverythingEnds`,
`NothingLingers`. What `feed` makes of all the bytes is induction over data, so
that `FramesAsSplit` of `SerialInput` is checked by TLC only too. Every other
property of a passing run is stated by a theorem.

## Findings

`source_state_bound`: after repeated touches the queue of `TTLMap` holds stale
records; at capacity `_evict_oldest` may delete the key just touched.
`SourceState.touch_s` then creates the associated state after the eviction
callback has run, and nothing removes it. The class promises bounded associated
state (`core/state/s_cache.py:12`); touching a, a, b, c, a with `max_entries`
two leaves three.

The contract and the code disagree on when a frame is bound to its routes.
`BEHAVIORAL_CONTRACT.md` has the processor stage acquire the routing snapshot as it
takes a frame (`:443`; `:594`: a replacement while the prior batch is blocked "can
affect that next frame"), and fan-in do no routing (`:22`). In the code the reader
binds the frame to its snapshot when it is admitted to the processing queue
(`aismixer.py:353`, `:440`), and `tests/test_runtime_stages.py:1090` expects that: a
frame that is queued when a table is replaced is processed under the old one. The
models follow the code, and `Delivers` holds of it alone: a runtime that bound a
frame when the processor stage takes it would violate it, for `Accept` of `Delivery`
fixes the generation.

## Not modelled

Text parsing and formatting, cryptographic primitives and wire encoding,
address policy and the numbering of targets by name are pure functions that
their own table tests cover; the models begin where their results are used. Of
the command line only what `aismixerctl` asks, and how it takes the answer, is
modelled; its shell, its file reading and printing, and the key tools are
sequential front ends. The configuration of the forwarder, of the secure client
(keys, addresses, socket families) and of the control server
(`core/runtime_control.py`) is read once, before anything runs. The UDP input of
the secure client is a socket without state.

`TTLMap.contains` and `SecureState.install_session` have no caller. Of the
counters those of traffic, of single outputs and of processor calls are left
out, and so is who waits in `put` of a full ingress queue: the first are sums
nothing is compared with, the others go with the counters that are there.

What the models assume or simplify:

* `Runtime`: the wait of a full ingress queue is the disabled `Arrive`, and an
  egress stage may be scheduled between any two dispatches, which allows more
  interleavings than the code. An interrupt of a program that is ending already,
  which cuts the await of the control server short, is left out.
* `SecureState`: one clock is both the monotonic and the wall time; a message
  that fails a check after its decryption is treated as a repeated one, since
  it has the same effect.
* `SecureLink`: sentences are left out; to the session one is a ping without a
  pong, and what the server does with it is in `SecureState`.
* `ControlSocket`: no other process starts between the `bind` of one and its
  reading of the socket's identity. Generations restart with the process
  (`README.md:636` calls them process-local), so `NoLostUpdate` is about a basis
  shown by the same process.
* `SerialInput`: the port opens within the time `close` waits for its thread. Which
  sentences a line holds is a table test's matter (`nmea_sproxy/meta_cleaner.py`);
  here a line that is not blank holds any number up to `MaxSentences`, and a blank
  one none.
* `Processor`: names that `sanitize_s` makes equal are one value, and
  `SourceState` is a module of its own, since nothing in `process` reads it. The
  scopes of the two deduplication modes are independent, as the contract has them
  (`BEHAVIORAL_CONTRACT.md:266`): across a change of mode a target may get again
  what it got before it, and `SentOncePerWindow` is about one mode, before,
  between and after such changes.

## Plan

The components of the inventory are modelled and composed as planned; the core
(`Admission`, `Runtime` with its statistics, `Routing`), the three containers of
the data plane with the processor on top of them, the control socket, the secure
server, the client's agreement with it and its recovery, and the relay of a serial
port are proved. Next: the framer of `SerialInput` against the split of its
bytes, byte by byte.
