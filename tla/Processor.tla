------------------------------ MODULE Processor ------------------------------
(***************************************************************************)
(* One Python data-plane processor (src/core/python_data_plane.py, class   *)
(* PythonDataPlaneProcessor): the assembler, the deduplicator and the      *)
(* metadata it keeps per assembly key.  process(frame, snapshot) runs      *)
(* without suspension, one sentence of the frame after the other; here the *)
(* frame in work is a variable and every sentence a step, so the clock may *)
(* move between the sentences of a frame as it may in the code.            *)
(*                                                                         *)
(* The assembler is module Assembler, used action by action; the           *)
(* deduplicator is the functions of module DedupCache.  Data: TAG values   *)
(* c, g, s are members of small sets; the formatted payload is the record  *)
(* of what it is formatted from.                                           *)
(***************************************************************************)
EXTENDS Assembler, Sequences, SequencesExt

CONSTANTS
  Ttl, MaxEntries,
  Frames,        \* frames: sequences of parsed sentences
                 \* [key, ordinal, text, c, gid, s, hasG] with the alias and the
                 \* leading s of the frame they are in
  Snapshots,     \* the routing snapshots a frame may be bound to
  StationId,     \* station_id, or NoValue
  Anonymous,     \* the alias that names nobody
  Address,       \* the name made of the sender's address
  PreserveC,     \* preserve_ingress_c
  PreserveGid,   \* preserve_ingress_gid
  AlwaysTagSingle,
  NoValue,       \* a TAG value that is absent
  Generated      \* a group id from the generator

Sentences == UNION {{f[i] : i \in DOMAIN f} : f \in Frames}

\* The scope of GLOBAL mode (dedup.py's _GLOBAL_SCOPE), an object of its own.
GlobalScope == "global"

\* What parsing yields: sentences without a valid fragment header have ordinal 0,
\* a timestamp is a number, and every sender has an address.  Binding gives a
\* mode and a tuple of targets, in which none comes twice.
ASSUME ProcessorAssumption ==
  /\ PreserveC \in BOOLEAN /\ PreserveGid \in BOOLEAN /\ AlwaysTagSingle \in BOOLEAN
  /\ \A f \in Frames : f # <<>> /\ f \in Seq(ToSet(f))
  /\ \A x \in Sentences :
       /\ x.ordinal = 0 \/ (x.key \in Keys /\ x.ordinal \in Ordinals(x.key) /\ x.text \in Texts)
       /\ x.c \in {NoValue} \cup Nat
  /\ \A snap \in Snapshots :
       /\ snap.mode \in {"GLOBAL", "PER_TARGET"}
       /\ snap.targets \in Seq(ToSet(snap.targets)) /\ IsInjective(snap.targets)
       /\ GlobalScope \notin ToSet(snap.targets)
  /\ Address # NoValue
  /\ Ttl \in Nat \ {0} /\ MaxEntries \in Nat \ {0}

VARIABLES
  dedup,      \* the deduplicator's containers
  sCtx,       \* _multipart_s_ctx
  cCtx,       \* _multipart_c_ctx
  gidCtx,     \* _multipart_gid_ctx
  todo,       \* sentences of the frame in work, not yet fed
  snapshot,   \* the snapshot it was bound to
  emission,   \* what the last sentence adds to the OutputBatch, and (history)
              \* the metadata it drew on
  sent,       \* history: the copies given out since the last reset, in order:
              \* [mode, targets, message, at]
  seen        \* history: key |-> metadata of the arrivals of its group

processorVars ==
  <<vars, dedup, sCtx, cCtx, gidCtx, todo, snapshot, emission, sent, seen>>

Dd == INSTANCE DedupCache

NoFrame == <<>>
NoSnapshot == [mode |-> "none", targets |-> <<>>]

-----------------------------------------------------------------------------
(* Metadata contexts.                                                      *)

\* _discard_multipart_contexts
Discard(ctx, S) == [k \in DOMAIN ctx \ S |-> ctx[k]]

Put(ctx, k, v) == [j \in DOMAIN ctx \cup {k} |-> IF j = k THEN v ELSE ctx[j]]

Lesser_Bug(m, n) == n

\* The c of a group: the earliest that was seen.
Lesser(m, n) == IF m <= n THEN m ELSE n

Merging == {"PENDING", "DUPLICATE", "COMPLETE"}

ValidC(x) == IF PreserveC THEN x.c ELSE NoValue
ValidGid(x) == IF PreserveGid THEN x.gid ELSE NoValue

\* The contexts once an arrival x with outcome o is merged into them; those of
\* discarded groups go first.
MergedC(x, o) ==
  LET ctx == Discard(cCtx, o.discarded)
  IN  IF o.status \in Merging /\ ValidC(x) # NoValue
      THEN Put(ctx, o.key,
               IF o.key \in DOMAIN ctx THEN Lesser(ctx[o.key], ValidC(x)) ELSE ValidC(x))
      ELSE ctx

MergedGid_Bug(x, o) ==
  LET ctx == gidCtx
  IN  IF o.status \in Merging /\ ValidGid(x) # NoValue
      THEN Put(Discard(ctx, o.discarded), o.key,
               (IF o.key \in DOMAIN ctx THEN ctx[o.key] ELSE {}) \cup {ValidGid(x)})
      ELSE Discard(ctx, o.discarded)

MergedGid(x, o) ==
  LET ctx == Discard(gidCtx, o.discarded)
  IN  IF o.status \in Merging /\ ValidGid(x) # NoValue
      THEN Put(ctx, o.key,
               (IF o.key \in DOMAIN ctx THEN ctx[o.key] ELSE {}) \cup {ValidGid(x)})
      ELSE ctx

\* Only a sentence that has a g tag may leave its s behind.
MergedS(x, o) ==
  LET ctx == Discard(sCtx, o.discarded)
  IN  IF o.status \in {"PENDING", "DUPLICATE"} /\ x.s # NoValue /\ x.hasG
      THEN Put(ctx, o.key, x.s)
      ELSE ctx

\* Normal completion consumes the contexts of its key.
Consumed(o) == IF o.status = "COMPLETE" THEN {o.key} ELSE {}

-----------------------------------------------------------------------------
(* Deduplication of a completed or single message.                         *)

\* The dedup keys asked for, in order: one in GLOBAL mode, one per route
\* target in PER_TARGET mode.
Scopes(snap) == IF snap.mode = "GLOBAL" THEN <<GlobalScope>> ELSE snap.targets

\* Ask is_unique for one scope after the other: the containers it leaves and
\* the scopes that were let through.
Asked_Bug(message, snap) ==
  FoldLeft(LAMBDA acc, scope :
             LET r == Dd!IsUnique(acc.d, <<GlobalScope, message>>, now)
             IN  [d |-> r.d,
                  passed |-> IF r.unique THEN Append(acc.passed, scope) ELSE acc.passed],
           [d |-> dedup, passed |-> <<>>], Scopes(snap))

Asked(message, snap) ==
  FoldLeft(LAMBDA acc, scope :
             LET r == Dd!IsUnique(acc.d, <<scope, message>>, now)
             IN  [d |-> r.d,
                  passed |-> IF r.unique THEN Append(acc.passed, scope) ELSE acc.passed],
           [d |-> dedup, passed |-> <<>>], Scopes(snap))

\* The targets of the outputs.
Eligible(asked, snap) ==
  IF snap.mode = "GLOBAL"
  THEN IF asked.passed = <<>> THEN <<>> ELSE snap.targets
  ELSE asked.passed

-----------------------------------------------------------------------------
(* Output construction.                                                    *)

\* The timestamp of the header: a single sentence's c of 0 is falsy and the
\* wall clock replaces it, a multipart message keeps it.
HeaderC(x, o) ==
  IF o.status = "COMPLETE"
  THEN IF PreserveC /\ o.key \in DOMAIN MergedC(x, o) THEN MergedC(x, o)[o.key] ELSE NoValue
  ELSE IF ValidC(x) = 0 THEN NoValue ELSE ValidC(x)

\* The group id: preserved when the group saw exactly one.
HeaderGid(x, o) ==
  IF o.status = "COMPLETE"
  THEN LET gids == IF o.key \in DOMAIN MergedGid(x, o) THEN MergedGid(x, o)[o.key] ELSE {}
       IN  IF PreserveGid /\ Cardinality(gids) = 1
           THEN CHOOSE g \in gids : TRUE ELSE Generated
  ELSE IF ValidGid(x) # NoValue THEN ValidGid(x) ELSE Generated

\* The candidate the sentences have for s.
IncomingS(x, o) ==
  IF x.s = NoValue /\ o.status = "COMPLETE" /\ o.key \in DOMAIN MergedS(x, o)
  THEN MergedS(x, o)[o.key]
  ELSE x.s

\* The first of the candidates that there is.
FirstGiven(candidates) ==
  candidates[CHOOSE i \in DOMAIN candidates :
               candidates[i] # NoValue /\ \A j \in 1 .. i - 1 : candidates[j] = NoValue]

\* choose_s_value_from_candidates: the station's own name, the alias or what the
\* sentences say, what leads the frame, the address.  An anonymous alias hides
\* what the sentences say, but not what leads the frame.  Names that sanitize_s
\* makes equal are one value.
ChosenS(x, o) ==
  LET source == IF x.alias # NoValue THEN x.alias ELSE IncomingS(x, o)
      named == IF source = Anonymous THEN NoValue ELSE source
  IN  FirstGiven(<<StationId, named, x.leading, Address>>)

\* wrap_with_meta: the first line of a message says when and who, and every line
\* of a tagged one its place in the group.  No c stands for the wall clock.
Header(i, tagged, c, s, gid) ==
  [c |-> IF i = 1 THEN c ELSE NoValue,
   s |-> IF i = 1 THEN s ELSE NoValue,
   gid |-> IF tagged THEN gid ELSE NoValue]

\* One output per line of the message, all for the same targets.  The source of
\* each is touched (module SourceState); nothing here depends on it.
Outputs(x, o, targets) ==
  LET n == Len(o.sentences)
      tagged == n > 1 \/ AlwaysTagSingle
  IN  [i \in 1 .. n |->
         [header |-> Header(i, tagged, HeaderC(x, o), ChosenS(x, o), HeaderGid(x, o)),
          line |-> o.sentences[i], index |-> i, total |-> n, targets |-> targets]]

-----------------------------------------------------------------------------
(* The history variables.                                                  *)

\* The arrivals merged into each group that is there after the step.
SeenAfter(x) ==
  [k \in DOMAIN groups' |->
     (IF k \in DOMAIN groups /\ ~(k = outcome'.key /\ Stale(groups[k]))
      THEN seen[k] ELSE {})
     \cup (IF outcome'.key = k THEN {x} ELSE {})]

\* The copies of a message that are given out with these outputs: one for all
\* targets in GLOBAL mode, one for each in PER_TARGET mode.
Copies(message, outputs) ==
  LET to == outputs[1].targets
      Copy(targets) == [mode |-> snapshot.mode, targets |-> targets, message |-> message,
                        at |-> now]
  IN  IF outputs = <<>> THEN <<>>
      ELSE IF snapshot.mode = "GLOBAL" THEN <<Copy(ToSet(to))>>
      ELSE [i \in DOMAIN to |-> Copy({to[i]})]

NoEmission == [status |-> "none", outputs |-> <<>>, seen |-> {}, last |-> {}]

-----------------------------------------------------------------------------
(* process                                                                 *)

\* A frame is taken up with the snapshot it was bound to.
Begin(f, snap) ==
  /\ todo = NoFrame
  /\ calls < MaxCalls
  /\ todo' = f
  /\ snapshot' = snap
  /\ UNCHANGED <<vars, dedup, sCtx, cCtx, gidCtx, emission, sent, seen>>

FeedSentence(x) ==
  /\ todo' = Tail(todo)
  /\ IF x.ordinal = 0 THEN Invalid ELSE Feed(x.key, x.ordinal, x.text)
  /\ seen' = SeenAfter(x)
  /\ snapshot' = IF Tail(todo) = NoFrame THEN NoSnapshot ELSE snapshot

\* A sentence that completes nothing only leaves its metadata.
Incomplete(x) ==
  /\ FeedSentence(x)
  /\ outcome'.status \notin {"SINGLE", "COMPLETE"}
  /\ cCtx' = MergedC(x, outcome')
  /\ gidCtx' = MergedGid(x, outcome')
  /\ sCtx' = MergedS(x, outcome')
  /\ emission' = NoEmission
  /\ UNCHANGED <<dedup, sent>>

\* A sentence that is a message or completes one: deduplicate, emit, and
\* consume the contexts of its key even if nothing is emitted.
Emit(x) ==
  /\ FeedSentence(x)
  /\ outcome'.status \in {"SINGLE", "COMPLETE"}
  /\ cCtx' = Discard(MergedC(x, outcome'), Consumed(outcome'))
  /\ gidCtx' = Discard(MergedGid(x, outcome'), Consumed(outcome'))
  /\ sCtx' = Discard(MergedS(x, outcome'), Consumed(outcome'))
  /\ LET message == outcome'.sentences
           asked == Asked(message, snapshot)
           targets == Eligible(asked, snapshot)
           outputs == IF asked.passed = <<>> THEN <<>> ELSE Outputs(x, outcome', targets)
       IN  /\ dedup' = asked.d
         /\ sent' = sent \o Copies(message, outputs)
         /\ emission' = [status |-> outcome'.status, outputs |-> outputs,
                           seen |-> IF outcome'.status = "COMPLETE"
                                    THEN seen[outcome'.key] \cup {x} ELSE {x},
                           last |-> x]

ResetContexts ==
  LET none == [k \in {} |-> {}]
  IN  sCtx' = none /\ cCtx' = none /\ gidCtx' = none

\* reset: assembler, deduplicator, source state, then the contexts.
ProcessorReset ==
  /\ todo = NoFrame
  /\ Reset
  /\ dedup' = Dd!EmptyCache
  /\ ResetContexts
  /\ seen' = [k \in {} |-> {}]
  /\ sent' = <<>>
  /\ UNCHANGED <<todo, snapshot, emission>>

ProcessorTick ==
  /\ Tick
  /\ UNCHANGED <<dedup, sCtx, cCtx, gidCtx, todo, snapshot, emission, sent, seen>>

ProcessorInit ==
  /\ Init
  /\ dedup = Dd!EmptyCache
  /\ sCtx = [k \in {} |-> {}]
  /\ cCtx = [k \in {} |-> {}]
  /\ gidCtx = [k \in {} |-> {}]
  /\ todo = NoFrame
  /\ snapshot = NoSnapshot
  /\ emission = NoEmission
  /\ sent = <<>>
  /\ seen = [k \in {} |-> {}]

ProcessorNext ==
  \/ \E f \in Frames, snap \in Snapshots : Begin(f, snap)
  \/ todo # NoFrame /\ (Incomplete(Head(todo)) \/ Emit(Head(todo)))
  \/ ProcessorReset
  \/ ProcessorTick

ProcessorSpec == ProcessorInit /\ [][ProcessorNext]_processorVars

-----------------------------------------------------------------------------
(* Properties.                                                             *)

Gids == {x.gid : x \in Sentences} \ {NoValue}

\* The parts keep their types, and metadata exists only for sentences seen.
ProcessorTypes ==
  /\ TypeOK
  /\ \A k \in DOMAIN dedup.cache : dedup.cache[k] \in 0 .. now
  /\ \A k \in DOMAIN gidCtx : gidCtx[k] \in (SUBSET Gids) \ {{}}
  /\ \A k \in DOMAIN cCtx : cCtx[k] \in Nat
  /\ \A k \in DOMAIN sCtx : sCtx[k] # NoValue
  /\ snapshot \in Snapshots \cup {NoSnapshot}
  /\ snapshot = NoSnapshot <=> todo = NoFrame

\* Metadata is held only for keys whose group is in the assembler: completion,
\* conflict, expiry, eviction and reset all take it along.  It is that of the
\* arrivals of the present group, repeats included, and never that of an
\* earlier group of the same key.
ContextsAreOfThisGroup ==
  /\ DOMAIN sCtx \cup DOMAIN cCtx \cup DOMAIN gidCtx \subseteq DOMAIN groups
  /\ \A k \in DOMAIN groups :
      LET gids == {ValidGid(x) : x \in seen[k]} \ {NoValue}
          cs == {ValidC(x) : x \in seen[k]} \ {NoValue}
      IN  /\ gids = (IF k \in DOMAIN gidCtx THEN gidCtx[k] ELSE {})
          /\ cs = {} <=> k \notin DOMAIN cCtx
          /\ k \in DOMAIN cCtx => cCtx[k] \in cs /\ \A c \in cs : cCtx[k] <= c
          /\ k \in DOMAIN sCtx => \E x \in seen[k] : x.hasG /\ x.s = sCtx[k]
          /\ k \notin DOMAIN sCtx => \A x \in seen[k] : x.hasG => x.s = NoValue

\* The types, and metadata that belongs to the groups the assembler holds.
ProcessorConsistent == ProcessorTypes /\ ContextsAreOfThisGroup

\* Fragment x can name the source of a message that y completes.
Names(x, y) == x.s # NoValue /\ (x.hasG \/ x = y)

\* A multipart output carries an ingress group id only when that is the only
\* one its own fragments carried, and the earliest of their timestamps.  Its
\* source is a name its receiver or its own fragments have, and the sender's
\* address only when they have none or one of them says it is anonymous.
OutputsDrawOnTheirGroup ==
  emission.status = "COMPLETE" =>
    \A i \in DOMAIN emission.outputs :
      LET out == emission.outputs[i].header
          gids == {ValidGid(x) : x \in emission.seen} \ {NoValue}
          cs == {ValidC(x) : x \in emission.seen} \ {NoValue}
          y == emission.last
          said == IF y.alias # NoValue THEN {y.alias}
                  ELSE {x.s : x \in {z \in emission.seen : Names(z, y)}}
          names == ({StationId, y.leading} \cup (said \ {Anonymous})) \ {NoValue}
          unnamed == names = {} \/ Anonymous \in said
      IN  /\ i = 1 => out.s \in names \cup (IF unnamed THEN {Address} ELSE {})
          /\ out.gid = IF Cardinality(gids) = 1 THEN CHOOSE g \in gids : TRUE
                       ELSE Generated
          /\ i = 1 => IF cs = {} THEN out.c = NoValue
                      ELSE out.c \in cs /\ \A c \in cs : out.c <= c

Emitted == calls' # calls /\ todo' # todo

\* The i-th copy given out before stands against one more for target t when n have
\* been: it is of the same message, its ttl has not passed, and it was made in the
\* same mode, in PER_TARGET mode for t.  It is forgotten for newer ones only when
\* those fill the cache.
Bars(i, t, message, n) ==
  /\ sent[i].message = message
  /\ now - sent[i].at < Ttl
  /\ sent[i].mode = snapshot.mode
  /\ snapshot.mode = "PER_TARGET" => t \in sent[i].targets
  /\ n - i < MaxEntries

\* Line l of the message goes to target t.
Given(l, t) == l \in DOMAIN emission'.outputs /\ t \in ToSet(emission'.outputs[l].targets)

\* A target gets every line of a message, or none when a copy stands against it,
\* whatever was asked, expired, evicted or routed otherwise in between.  The
\* targets of one message are asked for in turn, so that the copy for one may push
\* out what was remembered for the next.  A change of mode forgets nothing and
\* does not carry over: a target may get what it got in the other mode.
SentOncePerWindow ==
  [][ (Emitted /\ emission'.status # "none") =>
        \A j \in DOMAIN snapshot.targets :
          LET message == outcome'.sentences
              t == snapshot.targets[j]
              before == IF snapshot.mode = "GLOBAL" THEN {}
                        ELSE {k \in 1 .. j - 1 : Given(1, snapshot.targets[k])}
              n == Len(sent) + Cardinality(before)
              barred == \E i \in DOMAIN sent : Bars(i, t, message, n)
          IN  \A l \in DOMAIN message : Given(l, t) <=> ~barred
    ]_processorVars
=============================================================================
