----------------------------- MODULE MCProcessor -----------------------------
(* One message of two fragments heard by two receivers (keys 1 and 2), a    *)
(* conflicting and a differently tagged copy of its fragments, and a single *)
(* message.                                                                 *)
EXTENDS Processor

MCKeys == 1 .. 3
MCTotal == [k \in MCKeys |-> IF k = 3 THEN 1 ELSE 2]
MCTexts == {"p1", "p2", "q1", "r"}

\* The first receiver has no alias, the second is anonymous, the third named.
MCAlias == <<NoValue, Anonymous, "dock">>

Sentence(k, o, t, c, gid, s) ==
  [key |-> k, ordinal |-> o, text |-> t, c |-> c, gid |-> gid, s |-> s,
   hasG |-> gid # NoValue, alias |-> MCAlias[k]]

\* A frame of these sentences: the s that leads it is that of the first.
Frame(sentences) ==
  [i \in DOMAIN sentences |-> sentences[i] @@ [leading |-> sentences[1].s]]

MCFrames == {Frame(f) : f \in {
  << Sentence(1, 1, "p1", 5, "g1", "s1") >>,
  << Sentence(1, 2, "p2", 3, "g1", NoValue) >>,
  << Sentence(1, 1, "p1", NoValue, "g1", Anonymous) >>,
  << Sentence(1, 2, "p2", NoValue, "g2", "s2") >>,
  << Sentence(1, 1, "q1", NoValue, NoValue, "s2") >>,
  << Sentence(2, 1, "p1", NoValue, NoValue, "s3"),
     Sentence(2, 2, "p2", 0, NoValue, NoValue) >>,
  << Sentence(3, 1, "r", 0, "g1", "s1"), Sentence(3, 0, "r", 0, NoValue, NoValue) >> }}

MCSnapshots == {
  [mode |-> "GLOBAL", targets |-> <<"t1">>],
  [mode |-> "PER_TARGET", targets |-> <<"t1", "t2">>],
  [mode |-> "PER_TARGET", targets |-> <<"t2">>] }
=============================================================================
