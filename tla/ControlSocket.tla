---------------------------- MODULE ControlSocket ----------------------------
(***************************************************************************)
(* Control over a Unix socket: processes of the mixer that start, stop and  *)
(* crash, one after the other or side by side, each with a routing state    *)
(* (src/core/routing_control_unix.py, and src/aismixer.py around it), and   *)
(* operators with aismixerctl (src/aismixerctl.py over                      *)
(* src/core/routing_control_unix_client.py), who may kill it.               *)
(*                                                                         *)
(* Processes are numbered as they start, and so are their sockets.  A frame *)
(* is counted in cells, the last of which is the newline; a read takes any  *)
(* part of what has arrived.                                                *)
(*                                                                         *)
(* Assumed: while one process binds its socket and looks at what it bound,  *)
(* no other starts.                                                         *)
(***************************************************************************)
EXTENDS Naturals, Sequences, RoutingControl

CONSTANTS
  Operators,
  Others,            \* requests that must fail: too long, not well-formed, a bad section
  MaxRequestBytes,
  MaxStarts,         \* bound of the model: starts of processes
  MaxCommands,       \* bound of the model: commands of an operator
  MaxEvents          \* bound of the model: starts, commands, crashes and kills

ASSUME ControlSocketAssumption ==
  /\ MaxRequestBytes \in Nat \ {0} /\ MaxStarts \in Nat
  /\ \A r \in Others :
       /\ r.cells \in Nat \ {0}
       /\ \/ r.cells > MaxRequestBytes
          \/ SchemaError(r) # None
          \/ r.method = "routing.replace" /\ CandidateError(r.routing) # None

VARIABLES
  process,   \* [phase, identity] of each, identity being what it takes its socket for
  snapshot,  \* the routing state of each
  path,      \* the socket at the path
  conns,     \* connections, by the command they are for
  operator,  \* [issued, asked, status, told] of each: commands so far, the method
             \* asked for and not answered, the last status, the last answer
  applied,   \* history: the commands that changed the table of each process
  events     \* counts what MaxEvents bounds

vars == <<process, snapshot, path, conns, operator, applied, events>>

Processes == 1 .. MaxStarts
NoSocket == 0
Nobody == 0
Nothing == "nothing"
Unanswered == [id |-> NoId, error |-> "unanswered"]

Accepted(p) == {l \in DOMAIN conns : conns[l].server = p}
Label(o) == <<o, operator[o].issued>>

Event == events < MaxEvents /\ events' = events + 1

\* A connection both ends have left is no more.
Open(c) == [l \in {k \in DOMAIN c : ~(c[k].server = Nobody /\ c[k].eof)} |-> c[l]]

-----------------------------------------------------------------------------
(* Serving a connection.                                                   *)

Says(l, answer, server) ==
  conns' = Open([conns EXCEPT ![l].answer = IF conns[l].eof THEN Unanswered ELSE answer,
                              ![l].arrived = 0, ![l].read = 0, ![l].server = server])

\* A frame holds a request, which is handled and answered; the handler reads on,
\* unless handling failed in a way nobody expects.
Handles(l) ==
  LET p == conns[l].server
      r == conns[l].request
      s == After(r, snapshot[p])
  IN  /\ snapshot' = [snapshot EXCEPT ![p] = s]
      /\ applied' = [applied EXCEPT ![p] = IF s = snapshot[p] THEN @ ELSE Append(@, l)]
      /\ IF Fails(r, snapshot[p]) = "internal_error"
         THEN Says(l, TransportError("internal_error"), Nobody)
         ELSE Says(l, Answer(r, snapshot[p]), p)

\* Too long, with its newline or before it: answered, and the connection closed.
TooLarge(l) == Says(l, TransportError("frame_too_large"), Nobody) /\ UNCHANGED <<snapshot, applied>>

\* read returns n cells more.
Receives(l, n) ==
  LET c == conns[l]
      got == c.read + n
      newline == got = c.request.cells + 1
  IN  /\ c.server # Nobody
      /\ n <= c.arrived - c.read /\ n <= MaxRequestBytes + 1 - c.read
      /\ IF c.request.cells > MaxRequestBytes /\ got > MaxRequestBytes THEN TooLarge(l)
         ELSE IF newline THEN Handles(l)
         ELSE /\ conns' = [conns EXCEPT ![l].read = got]
              /\ UNCHANGED <<snapshot, applied>>

AtEnd_Waits(l) ==
  LET c == conns[l]
  IN  /\ c.server # Nobody /\ c.eof /\ c.read = c.arrived
      /\ c.read = c.request.cells
      /\ Handles(l)

\* read returns nothing more: what is in the buffer is taken for a frame, which
\* only a whole request is.
AtEnd(l) ==
  LET c == conns[l]
  IN  /\ c.server # Nobody /\ c.eof /\ c.read = c.arrived
      /\ IF c.read = c.request.cells THEN Handles(l)
         ELSE Says(l, MalformedAnswer, Nobody) /\ UNCHANGED <<snapshot, applied>>

Serve(l) ==
  /\ l \in DOMAIN conns
  /\ (\E n \in 1 .. MaxRequestBytes + 1 : Receives(l, n)) \/ AtEnd(l)
  /\ UNCHANGED <<process, path, operator, events>>

-----------------------------------------------------------------------------
(* The processes.                                                          *)

Becomes(p, phase) == process' = [process EXCEPT ![p].phase = phase]

\* Its connections end; answers not read yet may be lost.
CutOff(cut) ==
  \E lost \in SUBSET cut :
    conns' = Open([l \in DOMAIN conns |->
      IF l \in cut THEN [conns[l] EXCEPT !.server = Nobody,
                                         !.answer = IF l \in lost THEN Unanswered ELSE @]
      ELSE conns[l]])

\* start: any socket at the path gives way to a new one, which is listened to.
Bind(p) ==
  /\ process[p].phase = "none"
  /\ \A q \in Processes : q < p => process[q].phase \notin {"none", "bound"}
  /\ path' = p
  /\ Becomes(p, "bound")
  /\ Event
  /\ UNCHANGED <<snapshot, conns, operator, applied>>

\* start, resumed: the socket is known by what is at the path.
Identify(p) ==
  /\ process[p].phase = "bound" /\ path # NoSocket
  /\ process' = [process EXCEPT ![p] = [phase |-> "up", identity |-> path]]
  /\ UNCHANGED <<snapshot, path, conns, operator, applied, events>>

\* Its mode cannot be set, or it is gone: the program ends.
StartFails(p) ==
  /\ process[p].phase = "bound"
  /\ path' = NoSocket
  /\ Becomes(p, "ended")
  /\ CutOff(Accepted(p))
  /\ UNCHANGED <<snapshot, operator, applied, events>>

\* close: nobody connects any more, and who was not accepted yet is cut off.
Stop(p) ==
  /\ process[p].phase = "up"
  /\ Becomes(p, "stopping")
  /\ \E cut \in SUBSET {l \in Accepted(p) :
                          conns[l].read = 0 /\ conns[l].answer = Unanswered} : CutOff(cut)
  /\ UNCHANGED <<snapshot, path, operator, applied, events>>

Removed_Any(p) == NoSocket

\* _remove_matching_socket
Removed(p) == IF path = process[p].identity THEN NoSocket ELSE path

\* close, resumed: the socket is removed and the program ends.  From Python 3.12
\* on this waits until the last connection has gone; see Fairness.
Exit(p) ==
  /\ process[p].phase = "stopping"
  /\ path' = Removed(p)
  /\ Becomes(p, "ended")
  /\ CutOff(Accepted(p))
  /\ UNCHANGED <<snapshot, operator, applied, events>>

\* The socket stays at the path.
Crash(p) ==
  /\ process[p].phase \in {"bound", "up", "stopping"}
  /\ Becomes(p, "crashed")
  /\ CutOff(Accepted(p))
  /\ Event
  /\ UNCHANGED <<snapshot, path, operator, applied>>

-----------------------------------------------------------------------------
(* The operators.                                                          *)

\* --expected-generation is left out, or what the last status said.
Expectations(o) ==
  {{}} \cup IF operator[o].status = Unanswered THEN {}
            ELSE {{operator[o].status.snapshot.generation}}

Request(method, params, routing, expected) ==
  [version |-> "1", id |-> "an id", method |-> method, cells |-> 1, routing |-> routing,
   params |-> IF params = {} /\ expected = {} THEN Absent
              ELSE params \cup {"expected_generation" : g \in expected},
   expected |-> expected]

\* What aismixerctl sends.
Requests(o) ==
  Others
  \cup {Request("routing.status", {}, Disabled, {}),
        Request("runtime.statistics.outputs", {"name"}, Disabled, {})}
  \cup {Request("routing.disable", {}, Disabled, e) : e \in Expectations(o)}
  \cup {Request("routing.replace", {"routing"}, <<o, operator[o].issued + 1>>, e) :
          e \in Expectations(o)}

\* It connects and sends one request.
Command(o, r) ==
  /\ operator[o].asked = Nothing /\ operator[o].issued < MaxCommands
  /\ path # NoSocket /\ process[path].phase \in {"bound", "up"}
  /\ operator' = [operator EXCEPT ![o].issued = @ + 1, ![o].asked = r.method,
                                  ![o].told = Unanswered]
  /\ LET l == <<o, operator[o].issued + 1>>
         c == [server |-> path, request |-> r, arrived |-> r.cells + 1, read |-> 0,
               eof |-> FALSE, answer |-> Unanswered,
               to |-> path, basis |-> operator[o].status]
     IN  conns' = [k \in DOMAIN conns \cup {l} |-> IF k = l THEN c ELSE conns[k]]
  /\ Event
  /\ UNCHANGED <<process, snapshot, path, applied>>

\* _validate_response_correlation: an answer counts if it carries the request's id.
Correlated(c) ==
  IF c.answer.id = c.request.id THEN c.answer ELSE Unanswered

\* The answer is read, or the connection found cut, and the connection closed.
Learn(o) ==
  /\ operator[o].asked # Nothing
  /\ LET l == Label(o)
         c == conns[l]
         answer == Correlated(c)
     IN  /\ c.answer # Unanswered \/ c.server = Nobody
         /\ operator' = [operator EXCEPT
              ![o].asked = Nothing, ![o].told = [answer |-> answer, method |-> c.request.method],
              ![o].status = IF "status" \in DOMAIN answer
                            THEN [of |-> c.to, snapshot |-> answer.status] ELSE @]
         /\ conns' = Open([conns EXCEPT ![l].eof = TRUE, ![l].answer = Unanswered])
  /\ UNCHANGED <<process, snapshot, path, applied, events>>

\* The operator kills aismixerctl, which may not have sent everything.
Kill(o) ==
  /\ operator[o].asked # Nothing
  /\ operator' = [operator EXCEPT ![o].asked = Nothing]
  /\ LET l == Label(o)
     IN  \E n \in conns[l].read .. conns[l].arrived :
           conns' = Open([conns EXCEPT ![l].eof = TRUE, ![l].arrived = n,
                                       ![l].answer = Unanswered])
  /\ Event
  /\ UNCHANGED <<process, snapshot, path, applied>>

-----------------------------------------------------------------------------

Init ==
  /\ process = [p \in Processes |-> [phase |-> "none", identity |-> NoSocket]]
  /\ snapshot = [p \in Processes |-> [generation |-> 0, table |-> Disabled]]
  /\ path = NoSocket
  /\ conns = [l \in {} |-> Unanswered]
  /\ operator = [o \in Operators |->
       [issued |-> 0, asked |-> Nothing, status |-> Unanswered, told |-> Unanswered]]
  /\ applied = [p \in Processes |-> <<>>]
  /\ events = 0

Commands == Operators \X (1 .. MaxCommands)

Next ==
  \/ \E l \in Commands : Serve(l)
  \/ \E p \in Processes :
       Bind(p) \/ Identify(p) \/ StartFails(p) \/ Stop(p) \/ Exit(p) \/ Crash(p)
  \/ \E o \in Operators :
       (\E r \in Requests(o) : Command(o, r)) \/ Learn(o) \/ Kill(o)

\* Handlers run, closing goes on, and aismixerctl reads its answer; they are
\* finitely many, so fairness to each kind of step suffices.
Fairness ==
  /\ WF_vars(\E l \in Commands : Serve(l))
  /\ WF_vars(\E p \in Processes : Accepted(p) = {} /\ Exit(p))
  /\ WF_vars(\E o \in Operators : Learn(o))

Spec == Init /\ [][Next]_vars /\ Fairness

-----------------------------------------------------------------------------
(* Properties.                                                             *)

\* A change that names a generation is made to the very table its operator was
\* shown under it, by the same process: of two operators who start from one
\* table, the second is told and overwrites nothing.
NoLostUpdate ==
  [][\A l \in DOMAIN conns :
       LET c == conns[l]
           p == c.server
       IN  (/\ p # Nobody /\ applied'[p] = Append(applied[p], l)
            /\ c.request.expected # {}
            /\ c.basis # Unanswered /\ c.basis.of = p) => c.basis.snapshot = snapshot[p]]_vars

Change == {"routing.replace", "routing.disable"}

\* The command changed the table of p, and was the n-th to do so.
MadeAs(l, p, n) == n \in DOMAIN applied[p] /\ applied[p][n] = l

Made(l) == \E p \in Processes : \E n \in DOMAIN applied[p] : MadeAs(l, p, n)

\* What an operator is told is what happened: an error, and nothing has changed
\* nor will; a success, and the change was made once, as the generation told.
\* A change is never made twice, whatever was lost.
ToldTheTruth ==
  /\ \A p, q \in Processes : \A i \in DOMAIN applied[p], j \in DOMAIN applied[q] :
       applied[p][i] = applied[q][j] => p = q /\ i = j
  /\ \A o \in Operators :
       operator[o].told # Unanswered =>
         LET answer == operator[o].told.answer
         IN  /\ answer.error \notin {None, "unanswered"} => ~Made(Label(o))
             /\ answer.error = None /\ operator[o].told.method \in Change =>
                  \E p \in Processes : MadeAs(Label(o), p, answer.status.generation)

\* The process started last can be reached until it stops, whoever else stops or
\* has crashed, and a process that ended in order leaves no socket behind.
StaysReachable ==
  /\ \A p \in Processes :
       (/\ process[p].phase \in {"bound", "up"}
        /\ \A q \in Processes : q > p => process[q].phase = "none") => path = p
  /\ path # NoSocket => process[path].phase # "ended"

\* Who asks is answered or learns that nobody will, and a server that is closed
\* is not kept from ending.
EverythingEnds ==
  /\ \A o \in Operators : (operator[o].asked # Nothing) ~> (operator[o].asked = Nothing)
  /\ \A p \in Processes : (process[p].phase = "stopping") ~> (process[p].phase # "stopping")
=============================================================================
