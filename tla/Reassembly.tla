----------------------------- MODULE Reassembly -----------------------------
(***************************************************************************)
(* What multipart assembly promises, without time-to-live, capacity or     *)
(* counters: a message that is delivered consists of one fragment for each *)
(* of its ordinals, all of them received after the key was last dropped,   *)
(* none of them replaced.  Any keys may be dropped at any time.            *)
(***************************************************************************)
EXTENDS Naturals

CONSTANTS Keys, Total, Texts

VARIABLES
  pieces,    \* the fragments held for each key, by ordinal
  delivered  \* the message the last call delivered, or Nothing

vars == <<pieces, delivered>>

Nothing == [key |-> 0, lines |-> <<>>]
Empty == [i \in {} |-> {}]

With(f, i, x) == [j \in DOMAIN f \cup {i} |-> IF j = i THEN x ELSE f[j]]

\* The keys of S keep their fragments or lose all of them.
KeptOrDropped(S) ==
  /\ DOMAIN pieces' = Keys
  /\ \A k \in S : pieces'[k] \in {pieces[k], Empty}

Init ==
  /\ pieces = [k \in Keys |-> Empty]
  /\ delivered = Nothing

\* Keep a fragment for an ordinal that has none.
Receive(k, i, x) ==
  /\ delivered' = Nothing
  /\ \E before \in {pieces[k], Empty} :
       /\ i \notin DOMAIN before
       /\ DOMAIN before \cup {i} # 1 .. Total[k]
       /\ pieces'[k] = With(before, i, x)
  /\ KeptOrDropped(Keys \ {k})

\* The last missing fragment delivers the message.
Deliver(k, i, x) ==
  /\ delivered'.key = k
  /\ i \notin DOMAIN pieces[k]
  /\ DOMAIN pieces[k] \cup {i} = 1 .. Total[k]
  /\ delivered' = [key |-> k, lines |-> With(pieces[k], i, x)]
  /\ KeptOrDropped(Keys \ {k})
  /\ pieces'[k] = Empty

\* Fragments are only lost.
Drop ==
  /\ delivered' \in {delivered, Nothing}
  /\ KeptOrDropped(Keys)

Next ==
  \/ Drop
  \/ \E k \in Keys : \E i \in 1 .. Total[k], x \in Texts :
       Receive(k, i, x) \/ Deliver(k, i, x)

Spec == Init /\ [][Next]_vars
=============================================================================
