----------------------------- MODULE SerialInput -----------------------------
(***************************************************************************)
(* A relay from a serial port to plain UDP: the thread that reads the      *)
(* port, frames lines and queues them (src/nmea_sproxy/input_adapters.py), *)
(* and the main thread, which polls the queue, sends what it finds,        *)
(* recreates its socket when a send fails, and closes the input when it    *)
(* ends (src/nmea_sproxy/nmea_sproxy.py).                                  *)
(*                                                                         *)
(* LF and CR are bytes, and so is every number above them, which is a byte *)
(* of text: text is numbered as it arrives, to tell one byte from another. *)
(* Lines are numbered as they are framed; the queue holds numbers. What is *)
(* sent is not a line but each of the NMEA sentences found in it, none,    *)
(* one or several: the sentence <<n, k>> is the k-th of line n.            *)
(*                                                                         *)
(* Assumed: the port opens or fails to within the time that closing waits  *)
(* for the thread (a read does: it has a shorter timeout).                 *)
(***************************************************************************)
EXTENDS Naturals, Sequences, FiniteSets, SequencesExt

CONSTANTS
  MaxLineBytes,
  QueueLines,
  MaxSentences,  \* NMEA sentences a line holds at most
  MaxChunk,      \* bytes a read returns at most
  MaxBytes,      \* bound of the model: bytes read in all
  MaxOpenings,   \* bound of the model: times the port is opened
  MaxFailures    \* bound of the model: sends that fail

ASSUME SerialInputAssumption ==
  /\ {MaxLineBytes, QueueLines, MaxChunk} \subseteq Nat \ {0}
  /\ MaxSentences \in Nat

VARIABLES
  stop,       \* _stop_event
  current,    \* _serial: the opening it is of, or NoPort
  open,       \* openings whose port is open
  reader,     \* [at, mine, todo]: where the thread is, its port, lines yet to queue
  framer,     \* [buffer, discarding, cr]
  queue,
  counts,     \* [dropped, overlong]: the counters of the adapter
  relay,      \* [at, batch, out, port]: where the main thread is, lines taken and
              \* not yet searched, sentences found and not sent, the port it is to
              \* close
  sent,       \* sentences sent
  fate,       \* history: [displaced, lost, searched, found, cut], lines pushed out
              \* of the queue, lines taken from it and lost as a send failed, lines
              \* searched; the sentences found in these, and which of them were lost
              \* as a send failed
  lines,      \* history: every line framed
  got,        \* history: [bytes, first, overlong], what this opening gave, and the
              \* lines framed and the counter before it
  budget      \* [bytes, openings, failures] used, for the bounds

serialVars == <<stop, current, open, reader, framer, queue, counts, relay, sent, fate,
                lines, got, budget>>

LF == 10
CR == 13
FirstText == 100
NoPort == 0

-----------------------------------------------------------------------------
(* SerialLineFramer.                                                       *)

EmptyFramer == [buffer |-> <<>>, discarding |-> FALSE, cr |-> FALSE]

\* _finish_line
Finished(f) ==
  [f EXCEPT !.buffer = <<>>, !.discarding = FALSE,
            !.lines = IF f.discarding THEN @ ELSE Append(@, f.buffer)]

\* A byte of text, of which a line takes so many.
Kept(f, b) ==
  CASE f.discarding -> f
    [] ~f.discarding /\ Len(f.buffer) < MaxLineBytes -> [f EXCEPT !.buffer = Append(@, b)]
    [] OTHER -> [f EXCEPT !.buffer = <<>>, !.discarding = TRUE, !.overlong = @ + 1]

\* The LF of a CR LF ends no line.
Fed(f, b) ==
  LET g == [f EXCEPT !.cr = b = CR]
  IN  CASE b = LF /\ f.cr -> g
        [] b = CR \/ (b = LF /\ ~f.cr) -> Finished(g)
        [] OTHER -> Kept(g, b)

\* feed: with the lines a chunk completes, and how many it makes too long.
Feed(f, chunk) ==
  FoldLeft(Fed, [buffer |-> f.buffer, discarding |-> f.discarding, cr |-> f.cr,
                 lines |-> <<>>, overlong |-> 0], chunk)

-----------------------------------------------------------------------------
(* The reading thread.                                                     *)

Goes(at) == reader' = [reader EXCEPT !.at = at]

Unread == UNCHANGED <<framer, counts, fate, lines, got, budget>>
Elsewhere == UNCHANGED <<relay, sent>>

\* The loops of _run and _read_until_error test whether to go on.
GoOn ==
  /\ reader.at = "starting"
  /\ Goes(IF stop THEN "ended" ELSE "opening")
  /\ UNCHANGED <<stop, current, open, queue>> /\ Unread /\ Elsewhere

\* _open_serial
Opens ==
  /\ reader.at = "opening"
  /\ budget.openings < MaxOpenings
  /\ LET n == budget.openings + 1
     IN  /\ budget' = [budget EXCEPT !.openings = n]
         /\ open' = open \cup {n}
         /\ reader' = [reader EXCEPT !.at = "opened", !.mine = n]
  /\ UNCHANGED <<stop, current, framer, queue, counts, fate, lines, got>> /\ Elsewhere

OpenFails ==
  /\ reader.at = "opening"
  /\ Goes("releasing")
  /\ UNCHANGED <<stop, current, open, queue>> /\ Unread /\ Elsewhere

Publish ==
  /\ reader.at = "opened"
  /\ current' = reader.mine
  /\ Goes("testing")
  /\ UNCHANGED <<stop, open, queue>> /\ Unread /\ Elsewhere

Test_Once ==
  /\ reader.at = "testing"
  /\ Goes("reading")
  /\ UNCHANGED <<stop, current, open, queue>> /\ Unread /\ Elsewhere

Test ==
  /\ reader.at = "testing"
  /\ Goes(IF stop THEN "releasing" ELSE "reading")
  /\ UNCHANGED <<stop, current, open, queue>> /\ Unread /\ Elsewhere

\* read times out with nothing.
ReadNothing ==
  /\ reader.at = "reading" /\ reader.mine \in open
  /\ Goes("testing")
  /\ UNCHANGED <<stop, current, open, queue>> /\ Unread /\ Elsewhere

\* Text is given its numbers.
Chunks ==
  UNION {{[i \in 1 .. n |-> IF c[i] = FirstText THEN FirstText + budget.bytes + i ELSE c[i]] :
            c \in [1 .. n -> {LF, CR, FirstText}]} : n \in 1 .. MaxChunk}

\* read returns a chunk, which is framed; its lines will be queued one by one.
Read(chunk) ==
  /\ reader.at = "reading" /\ reader.mine \in open
  /\ budget.bytes + Len(chunk) <= MaxBytes
  /\ LET fed == Feed(framer, chunk)
     IN  /\ framer' = [k \in DOMAIN framer |-> fed[k]]
         /\ counts' = [counts EXCEPT !.overlong = @ + fed.overlong]
         /\ lines' = lines \o fed.lines
         /\ reader' = [reader EXCEPT !.at = IF fed.lines = <<>> THEN "testing" ELSE "putting",
                         !.todo = [i \in DOMAIN fed.lines |-> Len(lines) + i]]
  /\ got' = [got EXCEPT !.bytes = @ \o chunk]
  /\ budget' = [budget EXCEPT !.bytes = @ + Len(chunk)]
  /\ UNCHANGED <<stop, current, open, queue, fate>> /\ Elsewhere

\* The port is gone, or was closed under the read.
ReadFails ==
  /\ reader.at = "reading"
  /\ Goes("releasing")
  /\ UNCHANGED <<stop, current, open, queue>> /\ Unread /\ Elsewhere

Queued(q) ==
  /\ queue' = Append(q, Head(reader.todo))
  /\ reader' = [reader EXCEPT !.todo = Tail(@),
                              !.at = IF Len(reader.todo) = 1 THEN "testing" ELSE "putting"]

\* _enqueue_line: put_nowait, which may find the queue full.
Put ==
  /\ reader.at = "putting"
  /\ IF Len(queue) < QueueLines THEN Queued(queue)
     ELSE Goes("dropping") /\ UNCHANGED queue
  /\ UNCHANGED <<stop, current, open>> /\ Unread /\ Elsewhere

Pushed_Newest(q) == SubSeq(q, 1, Len(q) - 1)

\* What is left of the queue without its oldest line; nothing, if it was emptied
\* in the meantime.
Pushed(q) == IF q = <<>> THEN q ELSE Tail(q)

\* _drop_oldest_queued_line, which counts a line even if there was none to drop.
Drop ==
  /\ reader.at = "dropping"
  /\ queue' = Pushed(queue)
  /\ fate' = [fate EXCEPT !.displaced = @ \cup (ToSet(queue) \ ToSet(queue'))]
  /\ counts' = [counts EXCEPT !.dropped = @ + 1]
  /\ Goes("putting again")
  /\ UNCHANGED <<stop, current, open, framer, lines, got, budget>> /\ Elsewhere

\* put_nowait again: nobody else puts, so that it cannot be full.
PutAgain ==
  /\ reader.at = "putting again"
  /\ Len(queue) < QueueLines
  /\ Queued(queue)
  /\ UNCHANGED <<stop, current, open>> /\ Unread /\ Elsewhere

Reset_Kept(f) == f

\* SerialLineFramer.reset
Reset(f) == EmptyFramer

\* The finally of _run.
Release ==
  /\ reader.at = "releasing"
  /\ open' = open \ {reader.mine}
  /\ current' = IF current = reader.mine THEN NoPort ELSE current
  /\ framer' = Reset(framer)
  /\ got' = [bytes |-> <<>>, first |-> Len(lines), overlong |-> counts.overlong]
  /\ reader' = [reader EXCEPT !.at = "starting", !.mine = NoPort]
  /\ UNCHANGED <<stop, queue, counts, fate, lines, budget>> /\ Elsewhere

ReadingThread ==
  \/ GoOn \/ Opens \/ OpenFails \/ Publish \/ Test \/ ReadNothing \/ ReadFails
  \/ \E chunk \in Chunks : Read(chunk)
  \/ Put \/ Drop \/ PutAgain \/ Release

-----------------------------------------------------------------------------
(* The main thread.                                                        *)

ReaderKept == UNCHANGED <<framer, counts, lines, got, reader>>

\* read_pending: one get_nowait after the other, until there is no more.
Take ==
  /\ relay.at = "taking"
  /\ IF queue = <<>> THEN relay' = [relay EXCEPT !.at = "sending"] /\ UNCHANGED queue
     ELSE /\ relay' = [relay EXCEPT !.batch = Append(@, Head(queue))]
          /\ queue' = Tail(queue)
  /\ UNCHANGED <<stop, current, open, sent, fate, budget>> /\ ReaderKept

\* iter_forwardable_nmea_sentences: the sentences of the next line, of which there
\* may be none; after the last line the main thread sleeps and polls again.
Extract ==
  /\ relay.at = "sending" /\ relay.out = <<>>
  /\ IF relay.batch = <<>> THEN relay' = [relay EXCEPT !.at = "taking"] /\ UNCHANGED fate
     ELSE LET n == Head(relay.batch)
          IN  \E m \in IF lines[n] = <<>> THEN {0} ELSE 0 .. MaxSentences :
                LET sentences == [k \in 1 .. m |-> <<n, k>>]
                IN  /\ relay' = [relay EXCEPT !.batch = Tail(@), !.out = sentences]
                    /\ fate' = [fate EXCEPT !.searched = @ \cup {n},
                                           !.found = @ \cup ToSet(sentences)]
  /\ UNCHANGED <<stop, current, open, queue, sent, budget>> /\ ReaderKept

\* Each sentence is a datagram of its own.
Send ==
  /\ relay.at = "sending" /\ relay.out # <<>>
  /\ sent' = Append(sent, Head(relay.out))
  /\ relay' = [relay EXCEPT !.out = Tail(@)]
  /\ UNCHANGED <<stop, current, open, queue, fate, budget>> /\ ReaderKept

SendFails_Retry ==
  /\ relay.at = "sending" /\ relay.out # <<>>
  /\ budget.failures < MaxFailures
  /\ budget' = [budget EXCEPT !.failures = @ + 1]
  /\ relay' = [relay EXCEPT !.at = "recreating", !.out = <<>>,
                           !.batch = <<Head(relay.out)[1]>> \o @]
  /\ UNCHANGED <<stop, current, open, queue, sent, fate>> /\ ReaderKept

\* The sentence is lost, the ones found with it, and the lines taken with theirs.
SendFails ==
  /\ relay.at = "sending" /\ relay.out # <<>>
  /\ budget.failures < MaxFailures
  /\ budget' = [budget EXCEPT !.failures = @ + 1]
  /\ fate' = [fate EXCEPT !.cut = @ \cup ToSet(relay.out),
                         !.lost = @ \cup ToSet(relay.batch)]
  /\ relay' = [relay EXCEPT !.at = "recreating", !.batch = <<>>, !.out = <<>>]
  /\ UNCHANGED <<stop, current, open, queue, sent>> /\ ReaderKept

\* recreate_socket, after the delay: its source address may be gone.
Recreate ==
  /\ relay.at = "recreating"
  /\ \E at \in {"taking", "closing"} : relay' = [relay EXCEPT !.at = at]
  /\ UNCHANGED <<stop, current, open, queue, sent, fate, budget>> /\ ReaderKept

Interrupt ==
  /\ relay.at \in {"taking", "sending", "recreating"}
  /\ relay' = [relay EXCEPT !.at = "closing"]
  /\ UNCHANGED <<stop, current, open, queue, sent, fate, budget>> /\ ReaderKept

\* close: the event is set, then the port looked up, then closed, and the thread
\* waited for.
Close ==
  /\ relay.at = "closing"
  /\ stop' = TRUE
  /\ relay' = [relay EXCEPT !.at = "looking up"]
  /\ UNCHANGED <<current, open, queue, sent, fate, budget>> /\ ReaderKept

LookUp ==
  /\ relay.at = "looking up"
  /\ relay' = [relay EXCEPT !.at = "closing port", !.port = current]
  /\ UNCHANGED <<stop, current, open, queue, sent, fate, budget>> /\ ReaderKept

ClosePort ==
  /\ relay.at = "closing port"
  /\ open' = open \ {relay.port}
  /\ relay' = [relay EXCEPT !.at = "joining"]
  /\ UNCHANGED <<stop, current, queue, sent, fate, budget>> /\ ReaderKept

Join ==
  /\ relay.at = "joining" /\ reader.at = "ended"
  /\ relay' = [relay EXCEPT !.at = "ended"]
  /\ UNCHANGED <<stop, current, open, queue, sent, fate, budget>> /\ ReaderKept

MainThread ==
  \/ Take \/ Extract \/ Send \/ SendFails \/ Recreate
  \/ Close \/ LookUp \/ ClosePort \/ Join

-----------------------------------------------------------------------------

SerialInit ==
  /\ stop = FALSE
  /\ current = NoPort
  /\ open = {}
  /\ reader = [at |-> "starting", mine |-> NoPort, todo |-> <<>>]
  /\ framer = EmptyFramer
  /\ queue = <<>>
  /\ counts = [dropped |-> 0, overlong |-> 0]
  /\ relay = [at |-> "taking", batch |-> <<>>, out |-> <<>>, port |-> NoPort]
  /\ sent = <<>>
  /\ fate = [displaced |-> {}, lost |-> {}, searched |-> {}, found |-> {}, cut |-> {}]
  /\ lines = <<>>
  /\ got = [bytes |-> <<>>, first |-> 0, overlong |-> 0]
  /\ budget = [bytes |-> 0, openings |-> 0, failures |-> 0]

\* The program has ended: no stop of the model is a deadlock but this one.
Over == relay.at = "ended" /\ UNCHANGED serialVars

SerialNext == ReadingThread \/ MainThread \/ Interrupt \/ Over

\* Both threads are scheduled; nobody need interrupt.
SerialSpec ==
  /\ SerialInit /\ [][SerialNext]_serialVars
  /\ WF_serialVars(ReadingThread) /\ WF_serialVars(MainThread)

-----------------------------------------------------------------------------
(* Properties.                                                             *)

\* The lines a sequence of bytes should give: what is between two ends of line,
\* CR, LF or both in this order, of which too long ones are left out.
EndsOfLine(s) ==
  {i \in DOMAIN s : s[i] = CR \/ (s[i] = LF /\ ~(i > 1 /\ s[i - 1] = CR))}

Pieces(s) ==
  LET ends == <<0>> \o SetToSortSeq(EndsOfLine(s), <) \o <<Len(s) + 1>>
  IN  [k \in 1 .. Len(ends) - 1 |->
         SelectSeq(SubSeq(s, ends[k] + 1, ends[k + 1] - 1), LAMBDA b : b >= FirstText)]

\* Whatever the chunks and whatever was read before the port was opened again,
\* lines are those of the bytes this opening gave, none joins two openings, and
\* the counter tells the overlong ones, the one being read included.
FramesAsSplit ==
  LET pieces == Pieces(got.bytes)
      Fits(piece) == Len(piece) <= MaxLineBytes
  IN  /\ SubSeq(lines, got.first + 1, Len(lines)) = SelectSeq(Front(pieces), Fits)
      /\ counts.overlong - got.overlong =
           Cardinality({k \in DOMAIN pieces : ~Fits(pieces[k])})

\* In the order they were read, lines are searched for sentences and what is found
\* is sent, no line or sentence twice. Each line waits, or was searched, or was
\* given up for a reason: pushed out of a full queue, oldest first and counted, or
\* taken together with one of which a sentence could not be sent. Each sentence
\* found waits, or was sent, or was lost with a send that failed, its own or that of
\* a sentence before it in the same line, of which the ones before went out. A line
\* without a sentence is searched and leaves no other trace.
Precedes(a, b) == a[1] < b[1] \/ (a[1] = b[1] /\ a[2] < b[2])

Accounted ==
  LET way == relay.batch \o queue \o reader.todo
      out == sent \o relay.out
  IN  /\ \A i, j \in DOMAIN way : i < j => way[i] < way[j]
      /\ \A i, j \in DOMAIN out : i < j => Precedes(out[i], out[j])
      /\ \A n \in fate.searched, m \in ToSet(way) : n < m
      /\ DOMAIN lines = UNION {ToSet(way), fate.searched, fate.displaced, fate.lost}
      /\ fate.searched \cap fate.lost = {}
      /\ fate.displaced \cap (ToSet(way) \cup fate.searched \cup fate.lost) = {}
      /\ fate.lost \cap ToSet(way) = {}
      /\ fate.found = ToSet(out) \cup fate.cut /\ ToSet(out) \cap fate.cut = {}
      /\ \A c \in fate.cut, s \in ToSet(out) : c[1] = s[1] => s[2] < c[2]
      /\ \A s \in fate.found : s[1] \in fate.searched
      /\ \A d \in fate.displaced, n \in ToSet(queue \o reader.todo) : d < n
      /\ Cardinality(fate.displaced) <= counts.dropped
      /\ Len(queue) <= QueueLines

\* A line does not stay in the queue while the main thread polls; a program that
\* is closing ends, at whatever moment the thread was opening the port, and then
\* no port is open.
NothingLingers ==
  /\ \A n \in 1 .. MaxBytes : n \in ToSet(queue) ~> (n \notin ToSet(queue) \/ stop)
  /\ stop ~> (relay.at = "ended" /\ open = {} /\ current = NoPort)
=============================================================================
