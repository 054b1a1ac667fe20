---------------------------- MODULE TopicFilter ----------------------------
(***************************************************************************)
(* What a subscription filter means, independently of how matchTopic()     *)
(* computes it: "+" stands for any one level, "#" for one or more levels,  *)
(* any other level for itself.                                             *)
(***************************************************************************)
EXTENDS Naturals, Sequences

\* A filter or a topic: the levels between the slashes, at least one.
LevelSeq == Seq(STRING) \ {<<>>}

LevelMatches(f, t, i) == f[i] = "+" \/ f[i] = t[i]

\* Levels 1 .. n of the filter each stand for the topic's level.
PrefixMatches(f, t, n) ==
    /\ n <= Len(f) /\ n <= Len(t)
    /\ \A i \in 1..n : LevelMatches(f, t, i)

\* "#" needs a level of its own: a/# does not match a (tests/mqtt.cpp says so).
Matches(f, t) ==
    \/ Len(f) = Len(t) /\ PrefixMatches(f, t, Len(f))
    \/ \E h \in 1..Len(f) : f[h] = "#" /\ h <= Len(t) /\ PrefixMatches(f, t, h - 1)
=============================================================================
