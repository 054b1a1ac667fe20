-------------------------- MODULE TextProofs --------------------------------
(***************************************************************************)
(* The two loops over texts: matchTopic() is right for filters and topics  *)
(* of any length, and assignContent() reads back what a sender wrote,      *)
(* whatever the number of pairs.                                           *)
(***************************************************************************)
EXTENDS TopicMatch, Payload, WellFoundedInduction, TLAPS

\* What the loop knows on each turn: no "#" has been passed and every level
\* before pos has matched.  With it, the value returned is right.
LoopInv ==
    /\ match \in LevelSeq /\ topic \in LevelSeq
    /\ pos \in Nat \ {0}
    /\ result \in {Running, 0, 1}
    /\ PrefixMatches(match, topic, pos - 1)
    /\ \A i \in 1..(pos - 1) : match[i] # "#"

\* The loop invariant holds initially and every turn of the loop preserves it.
LEMMA LoopInvInit == MatchInit => LoopInv
  BY ArgumentsOK DEF MatchInit, LoopInv, PrefixMatches, Running, LevelSeq

LEMMA LoopInvStep == LoopInv /\ [MatchNext]_matchVars => LoopInv'
  <1> SUFFICES ASSUME LoopInv, [MatchNext]_matchVars PROVE LoopInv'
    OBVIOUS
  <1>1. CASE NextLevel
    BY <1>1 DEF NextLevel, LoopInv, MatchEnded, TopicEnded, PrefixMatches,
                LevelMatches, LevelSeq
  <1>2. CASE BothEnded \/ OneEnded \/ AtHash \/ Differ
    BY <1>2 DEF BothEnded, OneEnded, AtHash, Differ, Return, LoopInv, PrefixMatches,
                LevelMatches, Running
  <1>3. CASE UNCHANGED matchVars
    BY <1>3 DEF matchVars, LoopInv, PrefixMatches, LevelMatches
  <1> QED
    BY <1>1, <1>2, <1>3 DEF MatchNext

\* What matchTopic() keeps true while it runs, for every filter and topic.
LEMMA LoopInvariant == MatchSpec => []LoopInv
  <1> QED
    BY LoopInvInit, LoopInvStep, PTL DEF MatchSpec

\* A level that differs rules out every way to match: the levels before it
\* hold no "#", so no "#" can stand for it.
LEMMA MismatchIsFinal ==
  ASSUME NEW f \in LevelSeq, NEW t \in LevelSeq, NEW n \in Nat \ {0},
         n <= Len(f), n <= Len(t),
         \A i \in 1..n : f[i] # "#",
         ~LevelMatches(f, t, n)
  PROVE  ~Matches(f, t)
  BY DEF Matches, PrefixMatches, LevelSeq

\* So does a filter without "#" of another length than the topic's.
LEMMA LengthsDiffer ==
  ASSUME NEW f \in LevelSeq, NEW t \in LevelSeq, NEW n \in Nat,
         n = Len(f) \/ n = Len(t), n <= Len(f), n <= Len(t), Len(f) # Len(t),
         \A i \in 1..n : f[i] # "#"
  PROVE  ~Matches(f, t)
  BY DEF Matches, PrefixMatches, LevelSeq

\* The return value is right in every step that returns.
LEMMA ResultStep == LoopInv /\ MatchIsRight /\ [MatchNext]_matchVars => MatchIsRight'
  <1> SUFFICES ASSUME LoopInv, MatchIsRight, [MatchNext]_matchVars PROVE MatchIsRight'
    OBVIOUS
  <1> USE DEF MatchIsRight, Return, Running
  <1>1. CASE BothEnded
    BY <1>1 DEF BothEnded, LoopInv, MatchEnded, TopicEnded, Matches, PrefixMatches, LevelSeq
  <1>2. CASE OneEnded
    <2>1. ~Matches(match, topic)
      BY <1>2, LengthsDiffer DEF OneEnded, LoopInv, MatchEnded, TopicEnded, PrefixMatches, LevelSeq
    <2> QED
      BY <1>2, <2>1 DEF OneEnded
  <1>3. CASE AtHash
    BY <1>3 DEF AtHash, LoopInv, MatchEnded, TopicEnded, Matches, LevelSeq
  <1>4. CASE Differ
    <2>1. ~Matches(match, topic)
      BY <1>4, MismatchIsFinal DEF Differ, LoopInv, MatchEnded, TopicEnded, LevelMatches, LevelSeq
    <2> QED
      BY <1>4, <2>1 DEF Differ
  <1>5. CASE NextLevel
    BY <1>5 DEF NextLevel
  <1>6. CASE UNCHANGED matchVars
    BY <1>6 DEF matchVars
  <1> QED
    BY <1>1, <1>2, <1>3, <1>4, <1>5, <1>6 DEF MatchNext

\* matchTopic() returns 1 for a topic exactly when the filter stands for it,
\* whatever the number of levels and wherever the wildcards are.
THEOREM MatchTopicCorrect == MatchSpec => []MatchIsRight
  <1>1. MatchInit => MatchIsRight
    BY DEF MatchInit, MatchIsRight
  <1> QED
    BY <1>1, LoopInvariant, ResultStep, PTL DEF MatchSpec
-----------------------------------------------------------------------------
(***************************************************************************)
(* assignContent(): what the loop knows about the rest of the text.        *)
(***************************************************************************)

Pieces == Words \cup {Colon, Comma, Space}

\* The text behind its first a pieces.
Suffix(t, a) == SubSeq(t, a + 1, Len(t))

TextsOK ==
    /\ text \in Seq(Pieces)
    /\ pc \in {"writing", "reading", "done"}
    /\ pc = "writing" => ~underrun

\* A turn of the loop begins at the beginning of the text or behind a comma.
AtComma ==
    pc = "reading" /\ sourceCp_p # <<>> =>
        \E a \in 0..Len(text) : /\ sourceCp_p = <<Suffix(text, a)>>
                                /\ a = 0 \/ text[a] = Comma

\* What is left when the loop ends stands behind the colon of an empty key.
AtEmptyKey ==
    pc = "done" /\ sourceCp_p # <<>> =>
        \E a \in 1..Len(text) : /\ sourceCp_p = <<Suffix(text, a)>>
                                /\ text[a] = Colon
                                /\ a = 1 \/ text[a - 1] = Comma

\* A key of nothing but space.
BlankKey(t) ==
    \E i, j \in 1..Len(t) :
        /\ i <= j /\ NonSpace(SubSeq(t, i, j)) = {}
        /\ i = 1 \/ t[i - 1] = Comma
        /\ j < Len(t) /\ t[j + 1] = Colon

BlankKeyIfUnderrun == underrun => BlankKey(text)

TextInv == TextsOK /\ AtComma /\ AtEmptyKey /\ BlankKeyIfUnderrun

-----------------------------------------------------------------------------
(***************************************************************************)
(* The texts a sender writes.  start[i] is the number of pieces before     *)
(* pair i; open says that the last colon of the text may be missing.       *)
(***************************************************************************)

\* Behind its first a pieces, t goes on with w.
Holds(t, a, w) == a + Len(w) <= Len(t) /\ \A j \in 1..Len(w) : t[a + j] = w[j]

\* From there to its piece z, t is the given pair.
Segment(t, a, z, pair, open) ==
    \/ \E pad \in Pads : z = a + Len(Written(pair, pad)) /\ Holds(t, a, Written(pair, pad))
    \/ open /\ pair[1] = NoKey /\ z = a + 1 /\ Holds(t, a, pair[2])

\* The text is the pairs of msg, with commas between them.
Layout(t, msg, start, open) ==
    /\ t \in Seq(Pieces) /\ msg \in Seq(Pairs)
    /\ start \in [1..Len(msg) -> 0..Len(t)]
    /\ Len(msg) = 0 => Len(t) = 0
    /\ Len(msg) > 0 => /\ start[1] = 0
                       /\ Segment(t, start[Len(msg)], Len(t), msg[Len(msg)], open)
    /\ \A i \in 1..(Len(msg) - 1) :
          /\ start[i + 1] \in 1..Len(t) /\ t[start[i + 1]] = Comma
          /\ Segment(t, start[i], start[i + 1] - 1, msg[i], FALSE)

\* The loop has read the first pairs of the message, and goes on with the next.
PairsRead(msg, start) ==
    /\ ~underrun
    /\ pairs \in Seq(Pairs) /\ Len(pairs) <= Len(msg) /\ pairs = SubSeq(msg, 1, Len(pairs))
    /\ Len(pairs) < Len(msg) =>
          pc = "reading" /\ sourceCp_p = <<Suffix(text, start[Len(pairs) + 1])>>
    /\ Len(pairs) = Len(msg) => sourceCp_p = <<>> \/ (msg = <<>> /\ sourceCp_p = << <<>> >>)

MessageInv ==
    \/ sent = <<>>
    \/ \E msg \in Seq(Pairs) :
          /\ sent = <<msg>>
          /\ \E start \in [1..Len(msg) -> 0..Len(text)] :
                /\ Layout(text, msg, start, pc # "writing")
                /\ IF pc = "writing" THEN pairs = <<>> ELSE PairsRead(msg, start)

-----------------------------------------------------------------------------
(* The operators *)

LEMMA MinIs ==
    ASSUME NEW T \in SUBSET Int, NEW x \in T, \A y \in T : x <= y
    PROVE  Min(T) = x
<1>1. Min(T) \in T /\ \A y \in T : Min(T) <= y
  BY Zenon DEF Min
<1>2. Min(T) <= x /\ x <= Min(T)
  BY <1>1, Zenon
<1>3. PICK m \in Int : m = Min(T)
  BY <1>1, Zenon
<1>4. x \in Int
  BY Zenon
<1> QED
  BY <1>2, <1>3, <1>4

LEMMA MaxIs ==
    ASSUME NEW T \in SUBSET Int, NEW x \in T, \A y \in T : x >= y
    PROVE  Max(T) = x
<1>1. Max(T) \in T /\ \A y \in T : Max(T) >= y
  BY Zenon DEF Max
<1>2. Max(T) >= x /\ x >= Max(T)
  BY <1>1, Zenon
<1>3. PICK m \in Int : m = Max(T)
  BY <1>1, Zenon
<1>4. x \in Int
  BY Zenon
<1> QED
  BY <1>2, <1>3, <1>4

\* Sequences that agree in length and in every place are equal.
LEMMA SameSeq ==
    ASSUME NEW S, NEW s \in Seq(S), NEW t \in Seq(S), Len(s) = Len(t),
           \A j \in 1..Len(s) : s[j] = t[j]
    PROVE  s = t
  OBVIOUS

LEMMA SubSeqAt ==
    ASSUME NEW S, NEW s \in Seq(S), NEW i \in Nat \ {0}, NEW j \in Nat, j <= Len(s), i <= j + 1
    PROVE  /\ SubSeq(s, i, j) \in Seq(S)
           /\ Len(SubSeq(s, i, j)) = j - i + 1
           /\ \A k \in 1..(j - i + 1) : SubSeq(s, i, j)[k] = s[i - 1 + k]
  OBVIOUS

LEMMA SuffixAt ==
    ASSUME NEW S, NEW t \in Seq(S), NEW a \in 0..Len(t)
    PROVE  /\ Suffix(t, a) \in Seq(S)
           /\ Len(Suffix(t, a)) = Len(t) - a
           /\ \A j \in 1..(Len(t) - a) : Suffix(t, a)[j] = t[a + j]
<1>1. /\ Suffix(t, a) \in Seq(S)
      /\ Len(Suffix(t, a)) = Len(t) - (a + 1) + 1
      /\ \A k \in 1..(Len(t) - (a + 1) + 1) : Suffix(t, a)[k] = t[a + 1 - 1 + k]
  BY SubSeqAt, a + 1 \in Nat \ {0}, a + 1 <= Len(t) + 1 DEF Suffix
<1>2. Len(t) \in Nat /\ Len(t) - (a + 1) + 1 = Len(t) - a
  OBVIOUS
<1> QED
  BY <1>1, <1>2

\* A suffix of a suffix is one.
LEMMA SuffixOfSuffix ==
    ASSUME NEW S, NEW t \in Seq(S), NEW a \in 0..Len(t), NEW m \in 0..(Len(t) - a)
    PROVE  Suffix(Suffix(t, a), m) = Suffix(t, a + m)
<1> DEFINE r == Suffix(t, a)
           u == Suffix(r, m)
           v == Suffix(t, a + m)
<1>1. /\ r \in Seq(S) /\ Len(r) = Len(t) - a
      /\ \A j \in 1..(Len(t) - a) : r[j] = t[a + j]
  BY SuffixAt, Zenon
<1>2. Len(t) \in Nat /\ a + m \in 0..Len(t)
  OBVIOUS
<1>3. /\ v \in Seq(S) /\ Len(v) = Len(t) - (a + m)
      /\ \A j \in 1..(Len(t) - (a + m)) : v[j] = t[a + m + j]
  BY <1>2, SuffixAt, Zenon
<1> HIDE DEF r
<1>4. /\ u \in Seq(S) /\ Len(u) = Len(r) - m
      /\ \A j \in 1..(Len(r) - m) : u[j] = r[m + j]
  <2>1. m \in 0..Len(r)
    BY <1>1
  <2> QED
    BY <1>1, <2>1, SuffixAt, Zenon
<1> HIDE DEF u, v
<1>5. Len(u) = Len(v)
  BY <1>1, <1>2, <1>3, <1>4
<1>6. ASSUME NEW j \in 1..Len(u) PROVE u[j] = v[j]
  <2>1. j \in 1..(Len(r) - m) /\ m + j \in 1..(Len(t) - a) /\ j \in 1..(Len(t) - (a + m))
    BY <1>1, <1>2, <1>4
  <2>2. u[j] = t[a + (m + j)] /\ v[j] = t[a + m + j]
    BY <1>1, <1>3, <1>4, <2>1, Zenon
  <2>3. a + (m + j) = a + m + j
    BY <2>1
  <2> QED
    BY <2>2, <2>3
<1>7. u = v
  BY <1>3, <1>4, <1>5, <1>6, SameSeq, Zenon
<1> QED
  BY <1>7 DEF u, v, r

\* strsep() at the first delimiter, and without one.
LEMMA Cut ==
    ASSUME NEW S, NEW r \in Seq(S), NEW delim, NEW m \in 1..Len(r), r[m] = delim,
           \A j \in 1..(m - 1) : r[j] # delim
    PROVE  /\ Token(<<r>>, delim) = <<SubSeq(r, 1, m - 1)>>
           /\ Behind(<<r>>, delim) = <<Suffix(r, m)>>
<1>1. At(r, delim) \in SUBSET Int /\ m \in At(r, delim)
  BY DEF At
<1>2. \A y \in At(r, delim) : m <= y
  BY DEF At
<1>3. Min(At(r, delim)) = m
  BY <1>1, <1>2, MinIs, Zenon
<1>4. <<r>> # <<>> /\ <<r>>[1] = r /\ At(r, delim) # {}
  BY <1>1
<1> QED
  BY <1>3, <1>4, Zenon DEF Token, Behind, Suffix

LEMMA NoCut ==
    ASSUME NEW S, NEW r \in Seq(S), NEW delim, \A j \in 1..Len(r) : r[j] # delim
    PROVE  Token(<<r>>, delim) = <<r>> /\ Behind(<<r>>, delim) = <<>>
<1>1. At(r, delim) = {} /\ <<r>>[1] = r
  BY DEF At
<1> QED
  BY <1>1, Zenon DEF Token, Behind

LEMMA NullCut ==
    ASSUME NEW delim
    PROVE  Token(<<>>, delim) = <<>> /\ Behind(<<>>, delim) = <<>>
  BY Zenon DEF Token, Behind

\* A set of numbers that is not empty has a least one.
LEMMA LeastNat ==
    ASSUME NEW T \in SUBSET Nat, NEW k \in T
    PROVE  \E m \in T : \A y \in T : m <= y
<1> DEFINE R == OpToRel(<, Nat)
<1>1. IsWellFoundedOn(R, Nat)
  BY NatLessThanWellFounded
<1>2. \A x, y \in Nat : <<y, x>> \notin R => x <= y
  BY DEF OpToRel
<1> HIDE DEF R
<1>3. \E x \in T : \A y \in T : <<y, x>> \notin R
  BY <1>1, WFMin
<1> QED
  BY <1>2, <1>3, Zenon

\* The first place of a piece, if it has one.
LEMMA FirstAt ==
    ASSUME NEW S, NEW r \in Seq(S), NEW delim
    PROVE  \/ \A j \in 1..Len(r) : r[j] # delim
           \/ \E m \in 1..Len(r) : r[m] = delim /\ \A j \in 1..(m - 1) : r[j] # delim
<1> SUFFICES ASSUME NEW k \in 1..Len(r), r[k] = delim
             PROVE  \E m \in 1..Len(r) : r[m] = delim /\ \A j \in 1..(m - 1) : r[j] # delim
  OBVIOUS
<1>1. At(r, delim) \in SUBSET Nat /\ k \in At(r, delim)
  BY DEF At
<1>2. PICK m \in At(r, delim) : \A y \in At(r, delim) : m <= y
  BY <1>1, LeastNat, Zenon
<1> QED
  BY <1>2 DEF At

\* Behind the first a pieces of t, piece b is the first delimiter, or there is none.
FirstIs(t, a, delim, b) ==
    b \in (a + 1)..Len(t) /\ t[b] = delim /\ \A j \in (a + 1)..(b - 1) : t[j] # delim
NoneIs(t, a, delim) == \A j \in (a + 1)..Len(t) : t[j] # delim

LEMMA TokenAt ==
    ASSUME NEW S, NEW t \in Seq(S), NEW a \in 0..Len(t), NEW b \in (a + 1)..Len(t)
    PROVE  /\ SubSeq(t, a + 1, b - 1) \in Seq(S)
           /\ Len(SubSeq(t, a + 1, b - 1)) = b - 1 - a
           /\ \A k \in 1..(b - 1 - a) : SubSeq(t, a + 1, b - 1)[k] = t[a + k]
<1>1. a + 1 \in Nat \ {0} /\ b - 1 \in Nat /\ b - 1 <= Len(t) /\ a + 1 <= b - 1 + 1
  OBVIOUS
<1>2. b - 1 - (a + 1) + 1 = b - 1 - a /\ a + 1 - 1 = a
  OBVIOUS
<1>3. PICK i \in Nat, j \in Nat : i = a + 1 /\ j = b - 1
  BY <1>1
<1>4. /\ SubSeq(t, i, j) \in Seq(S) /\ Len(SubSeq(t, i, j)) = j - i + 1
      /\ \A k \in 1..(j - i + 1) : SubSeq(t, i, j)[k] = t[i - 1 + k]
  BY <1>1, <1>3, SubSeqAt
<1> QED
  BY <1>1, <1>2, <1>3, <1>4

\* strsep() on what is left of a text.
LEMMA CutAt ==
    ASSUME NEW S, NEW t \in Seq(S), NEW a \in 0..Len(t), NEW delim, NEW b,
           FirstIs(t, a, delim, b)
    PROVE  /\ Token(<<Suffix(t, a)>>, delim) = <<SubSeq(t, a + 1, b - 1)>>
           /\ Behind(<<Suffix(t, a)>>, delim) = <<Suffix(t, b)>>
<1> DEFINE r == Suffix(t, a)
           m == b - a
           u == SubSeq(r, 1, m - 1)
           v == SubSeq(t, a + 1, b - 1)
<1>0. b \in (a + 1)..Len(t) /\ t[b] = delim /\ \A j \in (a + 1)..(b - 1) : t[j] # delim
  BY DEF FirstIs
<1>1. /\ r \in Seq(S) /\ Len(r) = Len(t) - a
      /\ \A j \in 1..(Len(t) - a) : r[j] = t[a + j]
  BY SuffixAt, Zenon
<1>2. Suffix(r, m) = Suffix(t, b)
  <2>1. m \in 0..(Len(t) - a) /\ a + m = b
    BY <1>0
  <2> QED
    BY <2>1, SuffixOfSuffix
<1> HIDE DEF r
<1>3. m \in 1..Len(r) /\ r[m] = delim /\ \A j \in 1..(m - 1) : r[j] # delim
  <2>1. m \in 1..(Len(t) - a) /\ a + m = b
    BY <1>0
  <2>2. r[m] = delim /\ m \in 1..Len(r)
    BY <1>0, <1>1, <2>1
  <2>3. ASSUME NEW j \in 1..(m - 1) PROVE r[j] # delim
    <3>1. j \in 1..(Len(t) - a) /\ a + j \in (a + 1)..(b - 1)
      BY <1>0
    <3> QED
      BY <1>0, <1>1, <3>1, Zenon
  <2> QED
    BY <2>2, <2>3
<1>4. Token(<<r>>, delim) = <<u>> /\ Behind(<<r>>, delim) = <<Suffix(r, m)>>
  BY <1>1, <1>3, Cut, Zenon
<1>5. u = v
  <2>1. m - 1 \in Nat /\ m - 1 <= Len(r) /\ 1 <= m - 1 + 1 /\ 1 \in Nat \ {0}
    BY <1>0, <1>1
  <2>2. /\ u \in Seq(S) /\ Len(u) = m - 1 - 1 + 1
        /\ \A k \in 1..(m - 1 - 1 + 1) : u[k] = r[1 - 1 + k]
    BY <1>1, <2>1, SubSeqAt
  <2>3. /\ v \in Seq(S) /\ Len(v) = b - 1 - a
        /\ \A k \in 1..(b - 1 - a) : v[k] = t[a + k]
    BY <1>0, TokenAt, Zenon
  <2> HIDE DEF u, v
  <2>4. Len(u) = m - 1 /\ Len(v) = m - 1
    BY <1>0, <2>2, <2>3
  <2>5. ASSUME NEW k \in 1..Len(u) PROVE u[k] = v[k]
    <3>1. k \in 1..(m - 1) /\ k \in 1..(Len(t) - a)
      BY <1>0, <2>4
    <3>2. u[k] = r[k] /\ v[k] = t[a + k]
      BY <1>0, <2>2, <2>3, <3>1
    <3> QED
      BY <1>1, <3>1, <3>2, Zenon
  <2> QED
    BY <2>2, <2>3, <2>4, <2>5, SameSeq
<1> QED
  BY <1>2, <1>4, <1>5 DEF r

LEMMA NoCutAt ==
    ASSUME NEW S, NEW t \in Seq(S), NEW a \in 0..Len(t), NEW delim,
           NoneIs(t, a, delim)
    PROVE  /\ Token(<<Suffix(t, a)>>, delim) = <<Suffix(t, a)>>
           /\ Behind(<<Suffix(t, a)>>, delim) = <<>>
<1> DEFINE r == Suffix(t, a)
<1>1. /\ r \in Seq(S) /\ Len(r) = Len(t) - a
      /\ \A j \in 1..(Len(t) - a) : r[j] = t[a + j]
  BY SuffixAt, Zenon
<1> HIDE DEF r
<1>2. ASSUME NEW j \in 1..Len(r) PROVE r[j] # delim
  <2>1. j \in 1..(Len(t) - a) /\ a + j \in (a + 1)..Len(t)
    BY <1>1
  <2> QED
    BY <1>1, <2>1, Zenon DEF NoneIs
<1>3. Token(<<r>>, delim) = <<r>> /\ Behind(<<r>>, delim) = <<>>
  BY <1>1, <1>2, NoCut, Zenon
<1> QED
  BY <1>3 DEF r

LEMMA FirstBehind ==
    ASSUME NEW S, NEW t \in Seq(S), NEW a \in 0..Len(t), NEW delim
    PROVE  NoneIs(t, a, delim) \/ \E b \in 1..Len(t) : FirstIs(t, a, delim, b)
<1> DEFINE T == {j \in (a + 1)..Len(t) : t[j] = delim}
<1>1. T \in SUBSET Nat
  OBVIOUS
<1>2. CASE T = {}
  BY <1>2 DEF NoneIs
<1>3. ASSUME NEW k \in T PROVE \E b \in 1..Len(t) : FirstIs(t, a, delim, b)
  <2> HIDE DEF T
  <2>1. PICK m \in T : \A y \in T : m <= y
    BY <1>1, <1>3, LeastNat, Zenon
  <2>2. m \in 1..Len(t) /\ FirstIs(t, a, delim, m)
    BY <2>1 DEF T, FirstIs
  <2> QED
    BY <2>2
<1> QED
  BY <1>2, <1>3

-----------------------------------------------------------------------------
(* One turn of the loop *)

LEMMA BlankIs == \A p : Blank(p) <=> p = <<>> \/ p = << <<>> >>
  BY DEF Blank

LEMMA NullTurn ==
    ASSUME sourceCp_p = <<>>
    PROVE  Blank(key) /\ Blank(value) /\ Rest = <<>>
<1>1. key = <<>>
  BY NullCut DEF key
<1>2. Blank(key)
  BY <1>1, BlankIs, Zenon
<1>3. value = <<>> /\ Rest = <<>>
  BY <1>2, NullCut, Zenon DEF value, Rest
<1> QED
  BY <1>2, <1>3, BlankIs, Zenon

\* With an empty rest, or one that begins with a colon, the key is empty.
LEMMA EmptyTurn ==
    ASSUME text \in Seq(Pieces), NEW a \in 0..Len(text), sourceCp_p = <<Suffix(text, a)>>,
           Blank(key)
    PROVE  \/ Rest = <<>>
           \/ a + 1 \in 1..Len(text) /\ text[a + 1] = Colon /\ Rest = <<Suffix(text, a + 1)>>
<1>1. Rest = Behind(<<Suffix(text, a)>>, Colon)
  BY Zenon DEF Rest
<1>2. CASE NoneIs(text, a, Colon)
  BY <1>1, <1>2, NoCutAt, Zenon
<1>3. CASE \E b \in 1..Len(text) : FirstIs(text, a, Colon, b)
  <2>1. PICK b \in 1..Len(text) : FirstIs(text, a, Colon, b)
    BY <1>3
  <2>2. key = <<SubSeq(text, a + 1, b - 1)>> /\ Rest = <<Suffix(text, b)>>
    BY <1>1, <2>1, CutAt, Zenon DEF key
  <2>3. SubSeq(text, a + 1, b - 1) = <<>>
    BY <2>2, BlankIs
  <2>4. b \in (a + 1)..Len(text) /\ text[b] = Colon
    BY <2>1 DEF FirstIs
  <2>5. Len(SubSeq(text, a + 1, b - 1)) = b - 1 - a
    BY <2>4, TokenAt, Zenon
  <2>6. b = a + 1
    <3>1. b - 1 - a = Len(<<>>)
      BY <2>3, <2>5, Zenon
    <3> QED
      BY <2>4, <3>1
  <2> QED
    BY <2>2, <2>4, <2>6
<1> QED
  BY <1>2, <1>3, FirstBehind, Zenon

\* The text of a key that is not empty, and where the loop goes on.
LEMMA KeyTurn ==
    ASSUME text \in Seq(Pieces), NEW a \in 0..Len(text), sourceCp_p = <<Suffix(text, a)>>,
           ~Blank(key)
    PROVE  /\ Rest = <<>> \/ \E b \in 1..Len(text) : text[b] = Comma /\ Rest = <<Suffix(text, b)>>
           /\ \/ value = <<>>
              \/ \E b \in (a + 2)..Len(text) :
                    text[b] = Colon /\ key = <<SubSeq(text, a + 1, b - 1)>>
<1>1. /\ value = Token(Behind(<<Suffix(text, a)>>, Colon), Comma)
      /\ Rest = Behind(Behind(<<Suffix(text, a)>>, Colon), Comma)
  BY Zenon DEF Rest, value
<1>2. CASE NoneIs(text, a, Colon)
  BY <1>1, <1>2, NoCutAt, NullCut, Zenon
<1>3. CASE \E b \in 1..Len(text) : FirstIs(text, a, Colon, b)
  <2>1. PICK b \in 1..Len(text) : FirstIs(text, a, Colon, b)
    BY <1>3
  <2>2. /\ key = <<SubSeq(text, a + 1, b - 1)>>
        /\ Behind(<<Suffix(text, a)>>, Colon) = <<Suffix(text, b)>>
    BY <2>1, CutAt, Zenon DEF key
  <2>3. /\ b \in (a + 1)..Len(text) /\ text[b] = Colon
        /\ SubSeq(text, a + 1, b - 1) \in Seq(Pieces)
        /\ Len(SubSeq(text, a + 1, b - 1)) = b - 1 - a
    <3>1. b \in (a + 1)..Len(text) /\ text[b] = Colon
      BY <2>1 DEF FirstIs
    <3> QED
      BY <3>1, TokenAt, Zenon
  <2>4. b # a + 1
    <3>1. SubSeq(text, a + 1, b - 1) # <<>>
      BY <2>2, BlankIs, Zenon
    <3>2. SUFFICES ASSUME b = a + 1 PROVE FALSE
      OBVIOUS
    <3>3. SubSeq(text, a + 1, b - 1) \in Seq(Pieces) /\ Len(SubSeq(text, a + 1, b - 1)) = 0
      BY <2>3, <3>2
    <3> QED
      BY <3>1, <3>3
  <2>5. b \in (a + 2)..Len(text) /\ b \in 0..Len(text)
    BY <2>3, <2>4
  <2>6. Rest = Behind(<<Suffix(text, b)>>, Comma)
    BY <1>1, <2>2, Zenon
  <2>7. Rest = <<>> \/ \E c \in 1..Len(text) : text[c] = Comma /\ Rest = <<Suffix(text, c)>>
    <3>1. CASE NoneIs(text, b, Comma)
      BY <2>5, <2>6, <3>1, NoCutAt, Zenon
    <3>2. CASE \E c \in 1..Len(text) : FirstIs(text, b, Comma, c)
      <4>1. PICK c \in 1..Len(text) : FirstIs(text, b, Comma, c)
        BY <3>2
      <4>2. Rest = <<Suffix(text, c)>>
        BY <2>5, <2>6, <4>1, CutAt, Zenon
      <4>3. text[c] = Comma
        BY <4>1 DEF FirstIs
      <4> QED
        BY <4>1, <4>2, <4>3
    <3> QED
      BY <2>5, <3>1, <3>2, FirstBehind, Zenon
  <2> QED
    BY <2>2, <2>3, <2>5, <2>7
<1> QED
  BY <1>2, <1>3, FirstBehind, Zenon

\* trimWhitespace() leaves its string only if there is nothing but space in it.
LEMMA UnderrunsMeans ==
    ASSUME NEW S, NEW s \in Seq(S), Underruns(s)
    PROVE  NonSpace(s) = {}
<1> SUFFICES ASSUME NEW k \in NonSpace(s) PROVE FALSE
  OBVIOUS
<1>1. NonSpace(s) \in SUBSET Nat /\ NonSpace(s) \in SUBSET Int
  BY DEF NonSpace
<1>2. PICK m \in NonSpace(s) : \A y \in NonSpace(s) : m <= y
  BY <1>1, LeastNat, Zenon
<1>3. Min(NonSpace(s)) = m
  BY <1>1, <1>2, MinIs, Zenon
<1>4. FromWord(s) = SubSeq(s, m, Len(s))
  BY <1>3, Zenon DEF FromWord
<1>5. m \in Nat \ {0} /\ m <= Len(s) /\ Len(s) \in Nat /\ m <= Len(s) + 1
  BY DEF NonSpace
<1>6. Len(FromWord(s)) = Len(s) - m + 1
  BY <1>4, <1>5, SubSeqAt
<1>7. FromWord(s) = <<>>
  BY DEF Underruns
<1> QED
  BY <1>5, <1>6, <1>7

-----------------------------------------------------------------------------
(* Any text *)

LEMMA TextsAreSeqs == Texts \subseteq Seq(Pieces)
<1> SUFFICES ASSUME NEW n \in 0..MaxPieces, NEW t \in [1..n -> Pieces] PROVE t \in Seq(Pieces)
  BY DEF Texts, Pieces
<1>1. n \in Nat
  BY ConstantsOK
<1> QED
  BY <1>1

LEMMA Symbols == /\ Colon # Comma /\ Colon # Space /\ Comma # Space
                 /\ {Colon, Comma, Space} \subseteq Pieces
                 /\ \A w \in Words : w \in Pieces /\ w # Colon /\ w # Comma /\ w # Space
  BY ConstantsOK DEF Pieces, Colon, Comma, Space

LEMMA Joined ==
    ASSUME NEW S, NEW a \in Seq(S), NEW b \in Seq(S)
    PROVE  /\ a \o b \in Seq(S) /\ Len(a \o b) = Len(a) + Len(b)
           /\ Len(a) \in Nat /\ Len(b) \in Nat
           /\ \A i \in 1..Len(a) : (a \o b)[i] = a[i]
           /\ \A i \in 1..Len(b) : (a \o b)[Len(a) + i] = b[i]
  OBVIOUS

\* One piece behind one, two or three.
LEMMA OneMore ==
    ASSUME NEW S, NEW x \in S, NEW y \in S, NEW z \in S, NEW u \in S
    PROVE  /\ <<x>> \o <<y>> = <<x, y>>
           /\ <<x, y>> \o <<z>> = <<x, y, z>>
           /\ <<x, y, z>> \o <<u>> = <<x, y, z, u>>
<1>0. /\ \A j \in 1..2 : j = 1 \/ j = 2
      /\ \A j \in 1..3 : j = 1 \/ j = 2 \/ j = 3
      /\ \A j \in 1..4 : j = 1 \/ j = 2 \/ j = 3 \/ j = 4
  OBVIOUS
<1>1. ASSUME NEW a \in Seq(S), NEW e \in S
      PROVE  /\ a \o <<e>> \in Seq(S) /\ Len(a \o <<e>>) = Len(a) + 1
             /\ \A i \in 1..Len(a) : (a \o <<e>>)[i] = a[i]
             /\ (a \o <<e>>)[Len(a) + 1] = e
  <2> DEFINE b == <<e>>
  <2>1. b \in Seq(S) /\ Len(b) = 1 /\ b[1] = e /\ 1 \in 1..1
    OBVIOUS
  <2> HIDE DEF b
  <2>2. /\ a \o b \in Seq(S) /\ Len(a \o b) = Len(a) + Len(b)
        /\ \A i \in 1..Len(a) : (a \o b)[i] = a[i]
        /\ \A i \in 1..Len(b) : (a \o b)[Len(a) + i] = b[i]
    BY <2>1, Joined
  <2>3. (a \o b)[Len(a) + 1] = e /\ Len(a \o b) = Len(a) + 1
    BY <2>1, <2>2, Zenon
  <2> QED
    BY <2>2, <2>3 DEF b
<1>2. <<x>> \o <<y>> = <<x, y>>
  <2> DEFINE a == <<x>>
             b == <<x, y>>
             c == a \o <<y>>
  <2>1. /\ a \in Seq(S) /\ Len(a) = 1 /\ a[1] = x
        /\ b \in Seq(S) /\ Len(b) = 2 /\ b[1] = x /\ b[2] = y
    OBVIOUS
  <2> HIDE DEF a, b
  <2>2. /\ c \in Seq(S) /\ Len(c) = Len(a) + 1 /\ \A i \in 1..Len(a) : c[i] = a[i]
        /\ c[Len(a) + 1] = y
    BY <1>1, <2>1, Zenon
  <2> HIDE DEF c
  <2>3. Len(c) = 2 /\ c[1] = x /\ c[2] = y
    BY <2>1, <2>2
  <2>4. c = b
    BY <1>0, <2>1, <2>2, <2>3, SameSeq
  <2> QED
    BY <2>4 DEF a, b, c
<1>3. <<x, y>> \o <<z>> = <<x, y, z>>
  <2> DEFINE a == <<x, y>>
             b == <<x, y, z>>
             c == a \o <<z>>
  <2>1. /\ a \in Seq(S) /\ Len(a) = 2 /\ a[1] = x /\ a[2] = y
        /\ b \in Seq(S) /\ Len(b) = 3 /\ b[1] = x /\ b[2] = y /\ b[3] = z
    OBVIOUS
  <2> HIDE DEF a, b
  <2>2. /\ c \in Seq(S) /\ Len(c) = Len(a) + 1 /\ \A i \in 1..Len(a) : c[i] = a[i]
        /\ c[Len(a) + 1] = z
    BY <1>1, <2>1, Zenon
  <2> HIDE DEF c
  <2>3. Len(c) = 3 /\ c[1] = x /\ c[2] = y /\ c[3] = z
    BY <2>1, <2>2
  <2>4. c = b
    BY <1>0, <2>1, <2>2, <2>3, SameSeq
  <2> QED
    BY <2>4 DEF a, b, c
<1>4. <<x, y, z>> \o <<u>> = <<x, y, z, u>>
  <2> DEFINE a == <<x, y, z>>
             b == <<x, y, z, u>>
             c == a \o <<u>>
  <2>1. /\ a \in Seq(S) /\ Len(a) = 3 /\ a[1] = x /\ a[2] = y /\ a[3] = z
        /\ b \in Seq(S) /\ Len(b) = 4 /\ b[1] = x /\ b[2] = y /\ b[3] = z /\ b[4] = u
    OBVIOUS
  <2> HIDE DEF a, b
  <2>2. /\ c \in Seq(S) /\ Len(c) = Len(a) + 1 /\ \A i \in 1..Len(a) : c[i] = a[i]
        /\ c[Len(a) + 1] = u
    BY <1>1, <2>1, Zenon
  <2> HIDE DEF c
  <2>3. Len(c) = 4 /\ c[1] = x /\ c[2] = y /\ c[3] = z /\ c[4] = u
    BY <2>1, <2>2
  <2>4. c = b
    BY <1>0, <2>1, <2>2, <2>3, SameSeq
  <2> QED
    BY <2>4 DEF a, b, c
<1> QED
  BY <1>2, <1>3, <1>4

\* What is written.
LEMMA WrittenForms ==
    ASSUME NEW pair \in Pairs, NEW pad \in Pads
    PROVE  /\ Written(pair, pad) \in Seq(Pieces)
           /\ pair[1] = NoKey =>
                 \E w \in Words : pair[2] = <<w>> /\ Written(pair, pad) = <<w, Colon>>
           /\ pair[1] # NoKey =>
                 \E w \in Words :
                    /\ pair[1] = <<w>>
                    /\ \/ Written(pair, pad) = <<w, Colon>> \o pair[2]
                       \/ Written(pair, pad) = <<Space, w, Space, Colon>> \o pair[2]
           /\ pair[2] \in Seq(Pieces) /\ Len(pair[2]) > 0
           /\ pair[2][Len(pair[2])] # Colon
           /\ \A j \in 1..Len(pair[2]) : pair[2][j] # Comma
<1> USE Symbols
<1>1. CASE pair[1] = NoKey
  <2>1. PICK w \in Words : pair = <<NoKey, <<w>>>>
    BY <1>1 DEF Pairs, Keys
  <2>2. pair[2] = <<w>> /\ Written(pair, pad) = <<w>> \o <<Colon>>
    BY <1>1, <2>1 DEF Written
  <2>3. <<w>> \o <<Colon>> = <<w, Colon>>
    BY OneMore
  <2>4. <<w>> \in Seq(Pieces) /\ <<w, Colon>> \in Seq(Pieces)
    OBVIOUS
  <2>5. Len(<<w>>) = 1 /\ <<w>>[1] = w
    OBVIOUS
  <2> QED
    BY <1>1, <2>2, <2>3, <2>4, <2>5
<1>2. CASE pair[1] # NoKey
  <2>1. PICK w \in Words, v \in Values : pair = <<<<w>>, v>>
    BY <1>2 DEF Pairs, Keys
  <2>2. pair[1] = <<w>> /\ pair[2] = v
    BY <2>1
  <2>3. /\ v \in Seq(Pieces) /\ Len(v) > 0 /\ v[Len(v)] # Colon
        /\ \A j \in 1..Len(v) : v[j] # Comma
    <3>1. CASE \E x \in Words : v = <<x>>
      <4>1. PICK x \in Words : v = <<x>>
        BY <3>1
      <4>2. <<x>> \in Seq(Pieces) /\ Len(<<x>>) = 1 /\ <<x>>[1] = x
        OBVIOUS
      <4> QED
        BY <4>1, <4>2
    <3>2. CASE \E x \in Words : v = <<x, Colon, x>>
      <4>1. PICK x \in Words : v = <<x, Colon, x>>
        BY <3>2
      <4>2. <<x, Colon, x>> \in Seq(Pieces) /\ Len(<<x, Colon, x>>) = 3
        OBVIOUS
      <4>3. v[1] = x /\ v[2] = Colon /\ v[3] = x
        BY <4>1
      <4>4. \A j \in 1..3 : j = 1 \/ j = 2 \/ j = 3
        OBVIOUS
      <4> QED
        BY <4>1, <4>2, <4>3, <4>4
    <3> QED
      BY <3>1, <3>2 DEF Values
  <2>4. Written(pair, pad) = pad \o <<w>> \o pad \o <<Colon>> \o v
    BY <1>2, <2>2 DEF Written
  <2>5. pad = <<>> \/ pad = <<Space>>
    BY DEF Pads
  <2>6. <<>> \o <<w>> \o <<>> \o <<Colon>> = <<w, Colon>>
    <3>1. <<>> \o <<w>> = <<w>> /\ <<w>> \o <<>> = <<w>>
      OBVIOUS
    <3> QED
      BY <3>1, OneMore
  <2>7. <<Space>> \o <<w>> \o <<Space>> \o <<Colon>> = <<Space, w, Space, Colon>>
    <3>1. Space \in Pieces /\ w \in Pieces /\ Colon \in Pieces
      OBVIOUS
    <3>2. /\ <<Space>> \o <<w>> = <<Space, w>>
          /\ <<Space, w>> \o <<Space>> = <<Space, w, Space>>
          /\ <<Space, w, Space>> \o <<Colon>> = <<Space, w, Space, Colon>>
      BY <3>1, OneMore
    <3> QED
      BY <3>2, Zenon
  <2>8. <<w, Colon>> \in Seq(Pieces) /\ <<Space, w, Space, Colon>> \in Seq(Pieces)
    OBVIOUS
  <2>9. <<w, Colon>> \o v \in Seq(Pieces) /\ <<Space, w, Space, Colon>> \o v \in Seq(Pieces)
    BY <2>3, <2>8
  <2>10. \/ Written(pair, pad) = <<w, Colon>> \o v
         \/ Written(pair, pad) = <<Space, w, Space, Colon>> \o v
    BY <2>4, <2>5, <2>6, <2>7, Zenon
  <2> QED
    BY <1>2, <2>2, <2>3, <2>9, <2>10
<1> QED
  BY <1>1, <1>2

LEMMA SuffixNone == ASSUME NEW S, NEW t \in Seq(S) PROVE Suffix(t, 0) = t /\ 0 \in 0..Len(t)
<1>1. 0 \in 0..Len(t)
  OBVIOUS
<1>2. /\ Suffix(t, 0) \in Seq(S) /\ Len(Suffix(t, 0)) = Len(t) - 0
      /\ \A j \in 1..(Len(t) - 0) : Suffix(t, 0)[j] = t[0 + j]
  BY <1>1, SuffixAt
<1>3. Len(t) - 0 = Len(t) /\ \A j \in 1..Len(t) : 0 + j = j
  OBVIOUS
<1> DEFINE u == Suffix(t, 0)
<1> HIDE DEF u
<1>4. u \in Seq(S) /\ Len(u) = Len(t) /\ \A j \in 1..Len(u) : u[j] = t[j]
  BY <1>2, <1>3 DEF u
<1>5. u = t
  BY <1>4, SameSeq
<1> QED
  BY <1>1, <1>5 DEF u

LEMMA ShortenedIs ==
    ASSUME NEW t \in Seq(Pieces)
    PROVE  /\ Shortened(t) \in Seq(Pieces)
           /\ Shortened(t) # t =>
                 /\ Len(t) > 0 /\ t[Len(t)] = Colon
                 /\ Len(Shortened(t)) = Len(t) - 1
                 /\ \A j \in 1..(Len(t) - 1) : Shortened(t)[j] = t[j]
<1>1. CASE t # <<>> /\ Last(t) = Colon
  <2>1. Len(t) \in Nat /\ Len(t) > 0 /\ t[Len(t)] = Colon
    BY <1>1 DEF Last
  <2>2. Shortened(t) = SubSeq(t, 1, Len(t) - 1)
    BY <1>1 DEF Shortened, Front
  <2>3. /\ SubSeq(t, 1, Len(t) - 1) \in Seq(Pieces)
        /\ Len(SubSeq(t, 1, Len(t) - 1)) = Len(t) - 1
        /\ \A j \in 1..(Len(t) - 1) : SubSeq(t, 1, Len(t) - 1)[j] = t[j]
    <3>1. 0 \in 0..Len(t) /\ Len(t) \in (0 + 1)..Len(t)
      BY <2>1
    <3>2. /\ SubSeq(t, 0 + 1, Len(t) - 1) \in Seq(Pieces)
          /\ Len(SubSeq(t, 0 + 1, Len(t) - 1)) = Len(t) - 1 - 0
          /\ \A k \in 1..(Len(t) - 1 - 0) : SubSeq(t, 0 + 1, Len(t) - 1)[k] = t[0 + k]
      BY <3>1, TokenAt, Zenon
    <3>3. 0 + 1 = 1 /\ Len(t) - 1 - 0 = Len(t) - 1 /\ \A k \in 1..(Len(t) - 1) : 0 + k = k
      BY <2>1
    <3> QED
      BY <3>2, <3>3
  <2> QED
    BY <2>1, <2>2, <2>3, Zenon
<1>2. CASE ~(t # <<>> /\ Last(t) = Colon)
  BY <1>2 DEF Shortened
<1> QED
  BY <1>1, <1>2

LEMMA InitTextInv == Init => TextInv
<1> SUFFICES ASSUME Init PROVE TextInv
  OBVIOUS
<1>1. text \in Seq(Pieces)
  <2>1. <<>> \in Seq(Pieces)
    OBVIOUS
  <2> QED
    BY <2>1, TextsAreSeqs DEF Init
<1>2. pc = "writing" /\ ~underrun
  BY DEF Init
<1> QED
  BY <1>1, <1>2 DEF TextInv, TextsOK, AtComma, AtEmptyKey, BlankKeyIfUnderrun

\* A turn that puts something leaves the rest behind a comma.
LEMMA PutAtComma ==
    ASSUME TextInv, pc = "reading", ~Blank(key), sourceCp_p' = Rest, pc' = "reading", text' = text
    PROVE  AtComma'
<1>1. sourceCp_p # <<>>
  BY NullTurn, Zenon
<1>2. PICK a \in 0..Len(text) : sourceCp_p = <<Suffix(text, a)>>
  BY <1>1 DEF TextInv, AtComma
<1>3. text \in Seq(Pieces) /\ Len(text) \in Nat
  BY DEF TextInv, TextsOK
<1>4. Rest = <<>> \/ \E b \in 1..Len(text) : text[b] = Comma /\ Rest = <<Suffix(text, b)>>
  BY <1>2, <1>3, KeyTurn
<1>5. ASSUME sourceCp_p' # <<>>
      PROVE  \E b \in 0..Len(text) : sourceCp_p' = <<Suffix(text, b)>> /\ (b = 0 \/ text[b] = Comma)
  <2>1. PICK b \in 1..Len(text) : text[b] = Comma /\ sourceCp_p' = <<Suffix(text, b)>>
    BY <1>4, <1>5
  <2>2. b \in 0..Len(text)
    BY <1>3
  <2> QED
    BY <2>1, <2>2
<1>6. Suffix(text, 0)' = Suffix(text, 0)
  BY DEF Suffix
<1> QED
  BY <1>5 DEF AtComma, Suffix

\* A key that trimWhitespace() leaves is one of nothing but space.
LEMMA UnderrunAtBlankKey ==
    ASSUME TextInv, pc = "reading", ~Blank(key), ~Blank(value), Underruns(key[1])
    PROVE  BlankKey(text)
<1>1. sourceCp_p # <<>>
  BY NullTurn, Zenon
<1>2. PICK a \in 0..Len(text) : sourceCp_p = <<Suffix(text, a)>> /\ (a = 0 \/ text[a] = Comma)
  BY <1>1 DEF TextInv, AtComma
<1>3. text \in Seq(Pieces) /\ Len(text) \in Nat
  BY DEF TextInv, TextsOK
<1>4. value # <<>>
  BY BlankIs, Zenon
<1>5. PICK b \in (a + 2)..Len(text) : text[b] = Colon /\ key = <<SubSeq(text, a + 1, b - 1)>>
  BY <1>2, <1>3, <1>4, KeyTurn, Zenon
<1>6. b \in (a + 1)..Len(text)
  OBVIOUS
<1>7. SubSeq(text, a + 1, b - 1) \in Seq(Pieces)
  BY <1>3, <1>6, TokenAt, Zenon
<1>8. key[1] = SubSeq(text, a + 1, b - 1)
  BY <1>5
<1>9. NonSpace(SubSeq(text, a + 1, b - 1)) = {}
  BY <1>7, <1>8, UnderrunsMeans, Zenon
<1>10. PICK i \in 1..Len(text), j \in 1..Len(text) : i = a + 1 /\ j = b - 1
  BY <1>3
<1>11. /\ i <= j /\ j < Len(text) /\ i - 1 = a /\ j + 1 = b /\ (i = 1 \/ a # 0)
  BY <1>10, <1>3
<1>12. NonSpace(SubSeq(text, i, j)) = {} /\ (i = 1 \/ text[i - 1] = Comma) /\ text[j + 1] = Colon
  BY <1>2, <1>5, <1>9, <1>10, <1>11
<1> QED
  BY <1>11, <1>12 DEF BlankKey

LEMMA NextTextInv == TextInv /\ [Next]_vars => TextInv'
<1> SUFFICES ASSUME TextInv, [Next]_vars PROVE TextInv'
  OBVIOUS
<1>0. /\ text \in Seq(Pieces) /\ pc \in {"writing", "reading", "done"}
      /\ pc = "writing" => ~underrun
  BY DEF TextInv, TextsOK
<1>1. ASSUME NEW pair \in Pairs, NEW pad \in Pads, Write(pair, pad) PROVE TextInv'
  <2>1. pc' = "writing" /\ pc = "writing" /\ underrun' = underrun
    BY <1>1 DEF Write
  <2>2. text' \in Seq(Pieces)
    <3>1. Written(pair, pad) \in Seq(Pieces)
      BY WrittenForms
    <3>2. <<Comma>> \in Seq(Pieces)
      BY Symbols
    <3>3. text \o <<Comma>> \in Seq(Pieces)
      BY <1>0, <3>2, Joined
    <3>4. text \o <<Comma>> \o Written(pair, pad) \in Seq(Pieces)
      BY <3>1, <3>3, Joined
    <3> QED
      BY <1>1, <3>1, <3>4, Zenon DEF Write
  <2> QED
    BY <1>0, <2>1, <2>2 DEF TextInv, TextsOK, AtComma, AtEmptyKey, BlankKeyIfUnderrun
<1>2. CASE Call
  <2>1. pc' = "reading" /\ ~underrun' /\ sourceCp_p' = <<text'>>
    BY <1>0, <1>2 DEF Call
  <2>2. text' \in Seq(Pieces)
    BY <1>0, <1>2, ShortenedIs DEF Call
  <2>3. Suffix(text', 0) = text' /\ 0 \in 0..Len(text')
    BY <2>2, SuffixNone
  <2>4. AtComma'
    BY <2>1, <2>3 DEF AtComma, Suffix
  <2> QED
    BY <2>1, <2>2, <2>4 DEF TextInv, TextsOK, AtEmptyKey, BlankKeyIfUnderrun
<1>3. CASE Break
  <2>1. /\ pc = "reading" /\ pc' = "done" /\ text' = text /\ underrun' = underrun
        /\ sourceCp_p' = Rest /\ Blank(key)
    BY <1>3 DEF Break
  <2>2. ASSUME sourceCp_p' # <<>>
        PROVE  \E b \in 1..Len(text) : /\ sourceCp_p' = <<Suffix(text, b)>> /\ text[b] = Colon
                                       /\ b = 1 \/ text[b - 1] = Comma
    <3>1. sourceCp_p # <<>>
      BY <2>1, <2>2, NullTurn, Zenon
    <3>2. PICK a \in 0..Len(text) :
                 sourceCp_p = <<Suffix(text, a)>> /\ (a = 0 \/ text[a] = Comma)
      BY <2>1, <3>1 DEF TextInv, AtComma
    <3>3. a + 1 \in 1..Len(text) /\ text[a + 1] = Colon /\ Rest = <<Suffix(text, a + 1)>>
      BY <1>0, <2>1, <2>2, <3>2, EmptyTurn, Zenon
    <3>4. PICK b \in 1..Len(text) : b = a + 1
      BY <3>3
    <3>5. b - 1 = a /\ (b = 1 \/ a # 0)
      BY <3>4
    <3> QED
      BY <2>1, <3>2, <3>3, <3>4, <3>5
  <2>3. AtEmptyKey'
    BY <2>1, <2>2 DEF AtEmptyKey, Suffix
  <2>4. BlankKeyIfUnderrun'
    BY <2>1 DEF TextInv, BlankKeyIfUnderrun, BlankKey, NonSpace
  <2> QED
    BY <1>0, <2>1, <2>3, <2>4 DEF TextInv, TextsOK, AtComma
<1>4. CASE PutKeyless
  <2>1. /\ pc = "reading" /\ pc' = "reading" /\ text' = text /\ underrun' = underrun
        /\ sourceCp_p' = Rest /\ ~Blank(key)
    BY <1>4 DEF PutKeyless
  <2>2. AtComma'
    BY <2>1, PutAtComma
  <2>3. BlankKeyIfUnderrun'
    BY <2>1 DEF TextInv, BlankKeyIfUnderrun, BlankKey, NonSpace
  <2> QED
    BY <1>0, <2>1, <2>2, <2>3 DEF TextInv, TextsOK, AtEmptyKey
<1>5. CASE PutPair
  <2>1. /\ pc = "reading" /\ pc' = "reading" /\ text' = text
        /\ underrun' = (underrun \/ Underruns(key[1]))
        /\ sourceCp_p' = Rest /\ ~Blank(key) /\ ~Blank(value)
    BY <1>5 DEF PutPair
  <2>2. AtComma'
    BY <2>1, PutAtComma
  <2>3. BlankKey(text)' = BlankKey(text)
    BY <2>1 DEF BlankKey, NonSpace
  <2>4. BlankKeyIfUnderrun'
    <3>1. CASE underrun
      BY <2>3, <3>1 DEF TextInv, BlankKeyIfUnderrun
    <3>2. CASE Underruns(key[1])
      BY <2>1, <2>3, <3>2, UnderrunAtBlankKey DEF BlankKeyIfUnderrun
    <3>3. CASE ~underrun /\ ~Underruns(key[1])
      BY <2>1, <3>3 DEF BlankKeyIfUnderrun
    <3> QED
      BY <3>1, <3>2, <3>3
  <2> QED
    BY <1>0, <2>1, <2>2, <2>4 DEF TextInv, TextsOK, AtEmptyKey
<1>6. CASE UNCHANGED vars
  BY <1>6 DEF vars, TextInv, TextsOK, AtComma, AtEmptyKey, BlankKeyIfUnderrun, BlankKey,
              NonSpace, Suffix
<1> QED
  BY <1>1, <1>2, <1>3, <1>4, <1>5, <1>6 DEF Next

LEMMA TextInvAlways == Spec => []TextInv
  BY InitTextInv, NextTextInv, PTL DEF Spec

\* The only text that assignContent() drops stands behind an empty key, whatever
\* the text and its length.
THEOREM NothingElseDropped == Spec => []DropsOnlyBehindEmptyKey
<1>1. TextInv => DropsOnlyBehindEmptyKey
  <2> SUFFICES ASSUME TextInv, pc = "done", sourceCp_p # <<>>,
                      NEW at, at = Len(text) - Len(sourceCp_p[1])
               PROVE  text[at] = Colon /\ (at = 1 \/ text[at - 1] = Comma)
    BY DEF DropsOnlyBehindEmptyKey
  <2>1. text \in Seq(Pieces) /\ Len(text) \in Nat
    BY DEF TextInv, TextsOK
  <2>2. PICK a \in 1..Len(text) : /\ sourceCp_p = <<Suffix(text, a)>> /\ text[a] = Colon
                                  /\ a = 1 \/ text[a - 1] = Comma
    BY DEF TextInv, AtEmptyKey
  <2>3. a \in 0..Len(text) /\ a \in Int
    BY <2>1
  <2>4. Len(Suffix(text, a)) = Len(text) - a
    BY <2>1, <2>3, SuffixAt
  <2>5. sourceCp_p[1] = Suffix(text, a)
    BY <2>2
  <2>6. at = a
    <3>1. at = Len(text) - (Len(text) - a)
      BY <2>4, <2>5, Zenon
    <3> QED
      BY <2>1, <2>3, <3>1
  <2> QED
    BY <2>2, <2>6
<1> QED
  BY <1>1, TextInvAlways, PTL

-----------------------------------------------------------------------------
(* The texts of a sender *)

\* Behind its first a pieces, t goes on with w up to the delimiter at b, or to its end.
UpTo(t, a, w, delim, b) ==
    /\ w \in Seq(Pieces) /\ Holds(t, a, w) /\ \A j \in 1..Len(w) : w[j] # delim
    /\ b = a + Len(w) + 1 /\ b \in 1..Len(t) /\ t[b] = delim
UpToEnd(t, a, w, delim) ==
    /\ w \in Seq(Pieces) /\ Holds(t, a, w) /\ \A j \in 1..Len(w) : w[j] # delim
    /\ a + Len(w) = Len(t)

\* strsep() then returns w.
LEMMA ReadUpTo ==
    ASSUME NEW t \in Seq(Pieces), NEW a \in 0..Len(t), NEW w, NEW delim, NEW b,
           UpTo(t, a, w, delim, b)
    PROVE  /\ Token(<<Suffix(t, a)>>, delim) = <<w>>
           /\ Behind(<<Suffix(t, a)>>, delim) = <<Suffix(t, b)>>
<1>1. /\ w \in Seq(Pieces) /\ \A j \in 1..Len(w) : w[j] # delim
      /\ b = a + Len(w) + 1 /\ b \in 1..Len(t) /\ t[b] = delim
      /\ Len(w) \in Nat /\ Len(t) \in Nat
      /\ \A j \in 1..Len(w) : t[a + j] = w[j]
  BY DEF Holds, UpTo
<1>2. ASSUME NEW j \in (a + 1)..(b - 1) PROVE t[j] # delim
  <2>1. PICK k \in 1..Len(w) : a + k = j
    <3>1. j - a \in 1..Len(w) /\ a + (j - a) = j
      BY <1>1
    <3> QED
      BY <3>1
  <2> QED
    BY <1>1, <2>1
<1>3. FirstIs(t, a, delim, b) /\ b \in (a + 1)..Len(t)
  BY <1>1, <1>2 DEF FirstIs
<1> DEFINE u == SubSeq(t, a + 1, b - 1)
<1>4. u \in Seq(Pieces) /\ Len(u) = b - 1 - a /\ \A k \in 1..(b - 1 - a) : u[k] = t[a + k]
  BY <1>3, TokenAt, Zenon
<1>5. Token(<<Suffix(t, a)>>, delim) = <<u>> /\ Behind(<<Suffix(t, a)>>, delim) = <<Suffix(t, b)>>
  BY <1>3, CutAt, Zenon
<1> HIDE DEF u
<1>6. Len(u) = Len(w) /\ b - 1 - a = Len(w)
  BY <1>1, <1>4
<1>7. \A j \in 1..Len(u) : u[j] = w[j]
  BY <1>1, <1>4, <1>6, Zenon
<1>8. u = w
  BY <1>1, <1>4, <1>6, <1>7, SameSeq
<1> QED
  BY <1>5, <1>8

LEMMA ReadUpToEnd ==
    ASSUME NEW t \in Seq(Pieces), NEW a \in 0..Len(t), NEW w, NEW delim, UpToEnd(t, a, w, delim)
    PROVE  Token(<<Suffix(t, a)>>, delim) = <<w>> /\ Behind(<<Suffix(t, a)>>, delim) = <<>>
<1>1. /\ w \in Seq(Pieces) /\ \A j \in 1..Len(w) : w[j] # delim
      /\ a + Len(w) = Len(t) /\ Len(w) \in Nat /\ Len(t) \in Nat
      /\ \A j \in 1..Len(w) : t[a + j] = w[j]
  BY DEF Holds, UpToEnd
<1>2. ASSUME NEW j \in (a + 1)..Len(t) PROVE t[j] # delim
  <2>1. PICK k \in 1..Len(w) : a + k = j
    <3>1. j - a \in 1..Len(w) /\ a + (j - a) = j
      BY <1>1
    <3> QED
      BY <3>1
  <2> QED
    BY <1>1, <2>1
<1>3. NoneIs(t, a, delim)
  BY <1>2 DEF NoneIs
<1> DEFINE u == Suffix(t, a)
<1>4. u \in Seq(Pieces) /\ Len(u) = Len(t) - a /\ \A j \in 1..(Len(t) - a) : u[j] = t[a + j]
  BY SuffixAt, Zenon
<1>5. Token(<<u>>, delim) = <<u>> /\ Behind(<<u>>, delim) = <<>>
  BY <1>3, NoCutAt, Zenon
<1> HIDE DEF u
<1>6. Len(u) = Len(w) /\ Len(t) - a = Len(w)
  BY <1>1, <1>4
<1>7. \A j \in 1..Len(u) : u[j] = w[j]
  BY <1>1, <1>4, <1>6, Zenon
<1>8. u = w
  BY <1>1, <1>4, <1>6, <1>7, SameSeq
<1> QED
  BY <1>5, <1>8 DEF u

\* What trimWhitespace() makes of the keys a sender writes.
LEMMA TrimKey ==
    ASSUME NEW w \in Words, NEW K \in {<<w>>, <<Space, w, Space>>}
    PROVE  /\ K \in Seq(Pieces) /\ Len(K) > 0
           /\ \A j \in 1..Len(K) : K[j] # Colon
           /\ trimWhitespace(K) = <<w>> /\ ~Underruns(K)
<1> USE Symbols
<1>1. \A j \in 1..3 : j = 1 \/ j = 2 \/ j = 3
  OBVIOUS
<1>2. ASSUME NEW u \in {<<w>>, <<w, Space>>}
      PROVE  u # <<>> /\ u \in Seq(Pieces) /\ SubSeq(u, 1, Max(NonSpace(u))) = <<w>>
  <2>1. u \in Seq(Pieces) /\ Len(u) \in {1, 2} /\ u[1] = w /\ (Len(u) = 2 => u[2] = Space)
    OBVIOUS
  <2>2. NonSpace(u) = {1}
    BY <2>1 DEF NonSpace
  <2>3. Max(NonSpace(u)) = 1
    <3>1. {1} \in SUBSET Int /\ 1 \in {1} /\ \A y \in {1} : 1 >= y
      OBVIOUS
    <3> QED
      BY <2>2, <3>1, MaxIs, Zenon
  <2>4. 1 \in Nat \ {0} /\ 1 \in Nat /\ 1 <= Len(u) /\ 1 <= 1 + 1 /\ 1 - 1 + 1 = 1
    BY <2>1
  <2>5. /\ SubSeq(u, 1, 1) \in Seq(Pieces) /\ Len(SubSeq(u, 1, 1)) = 1
        /\ SubSeq(u, 1, 1)[1] = w
    BY <2>1, <2>4, SubSeqAt
  <2>6. SubSeq(u, 1, 1) = <<w>>
    <3> DEFINE x == SubSeq(u, 1, 1)
               y == <<w>>
    <3>1. x \in Seq(Pieces) /\ Len(x) = 1 /\ x[1] = w
      BY <2>5
    <3>2. y \in Seq(Pieces) /\ Len(y) = 1 /\ y[1] = w
      OBVIOUS
    <3> HIDE DEF x, y
    <3>3. x = y
      BY <3>1, <3>2, SameSeq
    <3> QED
      BY <3>3 DEF x, y
  <2> QED
    BY <2>1, <2>3, <2>6
<1>3. ASSUME K \in Seq(Pieces), NEW m \in 1..Len(K), NonSpace(K) = {m}
      PROVE  FromWord(K) = SubSeq(K, m, Len(K))
  <2>1. NonSpace(K) \in SUBSET Int /\ m \in NonSpace(K) /\ \A y \in NonSpace(K) : m <= y
    BY <1>3
  <2>2. Min(NonSpace(K)) = m /\ NonSpace(K) # {}
    BY <2>1, MinIs, Zenon
  <2> QED
    BY <2>2, Zenon DEF FromWord
<1>4. ASSUME K = <<w>>
      PROVE  /\ K \in Seq(Pieces) /\ Len(K) > 0
             /\ \A j \in 1..Len(K) : K[j] # Colon
             /\ FromWord(K) \in {<<w>>, <<w, Space>>}
  <2>1. K \in Seq(Pieces) /\ Len(K) = 1 /\ K[1] = w
    BY <1>4
  <2>2. NonSpace(K) = {1} /\ 1 \in 1..Len(K)
    BY <2>1 DEF NonSpace
  <2>3. FromWord(K) = SubSeq(K, 1, Len(K))
    BY <1>3, <2>1, <2>2, Zenon
  <2>4. SubSeq(K, 1, Len(K)) = K
    BY <2>1
  <2> QED
    BY <1>4, <2>1, <2>3, <2>4
<1>5. ASSUME K = <<Space, w, Space>>
      PROVE  /\ K \in Seq(Pieces) /\ Len(K) > 0
             /\ \A j \in 1..Len(K) : K[j] # Colon
             /\ FromWord(K) \in {<<w>>, <<w, Space>>}
  <2>1. K \in Seq(Pieces) /\ Len(K) = 3 /\ K[1] = Space /\ K[2] = w /\ K[3] = Space
    BY <1>5
  <2>2. NonSpace(K) = {2} /\ 2 \in 1..Len(K)
    BY <1>1, <2>1 DEF NonSpace
  <2>3. FromWord(K) = SubSeq(K, 2, Len(K))
    BY <1>3, <2>1, <2>2, Zenon
  <2> DEFINE x == SubSeq(K, 2, Len(K))
             y == <<w, Space>>
  <2>4. x \in Seq(Pieces) /\ Len(x) = 2 /\ x[1] = w /\ x[2] = Space
    BY <2>1
  <2>5. y \in Seq(Pieces) /\ Len(y) = 2 /\ y[1] = w /\ y[2] = Space
    OBVIOUS
  <2> HIDE DEF x, y
  <2>6. x = y
    <3>1. \A j \in 1..2 : j = 1 \/ j = 2
      OBVIOUS
    <3> QED
      BY <2>4, <2>5, <3>1, SameSeq
  <2>7. FromWord(K) = <<w, Space>>
    BY <2>3, <2>6 DEF x, y
  <2>8. \A j \in 1..Len(K) : K[j] # Colon
    BY <1>1, <2>1
  <2> QED
    BY <2>1, <2>7, <2>8
<1>6. FromWord(K) \in {<<w>>, <<w, Space>>}
  BY <1>4, <1>5
<1>7. trimWhitespace(K) = <<w>> /\ ~Underruns(K)
  BY <1>2, <1>6 DEF trimWhitespace, Underruns
<1> QED
  BY <1>4, <1>5, <1>7

\* Where the parts of a written pair stand: K is its key with the space around
\* it, or a word without a key, and piece c the colon behind it.
KeyedAt(t, a, z, pair, K, c) ==
    /\ K \in Seq(Pieces) /\ Len(K) > 0 /\ \A j \in 1..Len(K) : K[j] # Colon
    /\ Holds(t, a, K) /\ c = a + Len(K) + 1 /\ c \in 1..Len(t) /\ t[c] = Colon
    /\ trimWhitespace(K) = pair[1] /\ ~Underruns(K)
    /\ Holds(t, c, pair[2]) /\ z = c + Len(pair[2])

KeylessAt(t, a, z, pair) ==
    /\ Holds(t, a, pair[2]) /\ Len(pair[2]) = 1 /\ pair[2][1] # Colon
    /\ z = a + 2 /\ z \in 1..Len(t) /\ t[z] = Colon

BareAt(t, a, z, pair) ==
    Holds(t, a, pair[2]) /\ Len(pair[2]) = 1 /\ pair[2][1] # Colon /\ z = a + 1

\* A text that goes on with u \o v goes on with u and then with v.
LEMMA HoldsJoined ==
    ASSUME NEW t \in Seq(Pieces), NEW a \in 0..Len(t), NEW u \in Seq(Pieces), NEW v \in Seq(Pieces),
           Holds(t, a, u \o v)
    PROVE  /\ Holds(t, a, u) /\ Holds(t, a + Len(u), v)
           /\ a + Len(u \o v) = a + Len(u) + Len(v)
<1> DEFINE w == u \o v
<1>1. /\ w \in Seq(Pieces) /\ Len(w) = Len(u) + Len(v) /\ Len(u) \in Nat /\ Len(v) \in Nat
      /\ \A i \in 1..Len(u) : w[i] = u[i]
      /\ \A i \in 1..Len(v) : w[Len(u) + i] = v[i]
  BY Joined
<1>2. a + Len(w) <= Len(t) /\ \A j \in 1..Len(w) : t[a + j] = w[j]
  BY DEF Holds
<1> HIDE DEF w
<1>3. Len(t) \in Nat /\ a \in Nat /\ a + Len(u) <= Len(t) /\ a + Len(u) + Len(v) <= Len(t)
      /\ a + Len(w) = a + Len(u) + Len(v)
  BY <1>1, <1>2
<1>4. \A j \in 1..Len(u) : j \in 1..Len(w)
  BY <1>1
<1>5. \A j \in 1..Len(u) : t[a + j] = u[j]
  BY <1>1, <1>2, <1>4, Zenon
<1>6. ASSUME NEW j \in 1..Len(v) PROVE t[a + Len(u) + j] = v[j]
  <2>1. Len(u) + j \in 1..Len(w) /\ a + (Len(u) + j) = a + Len(u) + j
    BY <1>1, <1>3
  <2>2. t[a + (Len(u) + j)] = v[j]
    BY <1>1, <1>2, <2>1, Zenon
  <2> QED
    BY <2>1, <2>2
<1> QED
  BY <1>3, <1>5, <1>6 DEF Holds, w

LEMMA SegmentParts ==
    ASSUME NEW t \in Seq(Pieces), NEW a \in 0..Len(t), NEW z, NEW pair \in Pairs, NEW open,
           Segment(t, a, z, pair, open)
    PROVE  /\ pair[1] # NoKey => \E K, c : KeyedAt(t, a, z, pair, K, c)
           /\ pair[1] = NoKey => KeylessAt(t, a, z, pair) \/ (open /\ BareAt(t, a, z, pair))
<1>0. Len(t) \in Nat /\ a \in Nat
  OBVIOUS
<1>1. CASE pair[1] = NoKey
  <2>1. PICK w \in Words : pair[2] = <<w>> /\ \A pad \in Pads : Written(pair, pad) = <<w, Colon>>
    <3>1. <<>> \in Pads
      BY DEF Pads
    <3>2. PICK w \in Words : pair[2] = <<w>>
      BY <1>1, <3>1, WrittenForms
    <3>3. ASSUME NEW pad \in Pads PROVE Written(pair, pad) = <<w, Colon>>
      <4>1. PICK x \in Words : pair[2] = <<x>> /\ Written(pair, pad) = <<x, Colon>>
        BY <1>1, WrittenForms
      <4>2. x = w
        BY <3>2, <4>1
      <4> QED
        BY <4>1, <4>2
    <3> QED
      BY <3>2, <3>3
  <2>2. Len(pair[2]) = 1 /\ pair[2][1] = w /\ w # Colon
    BY <2>1, Symbols
  <2>3. ASSUME z = a + Len(<<w, Colon>>), Holds(t, a, <<w, Colon>>)
        PROVE  KeylessAt(t, a, z, pair)
    <3>1. a + 2 <= Len(t) /\ t[a + 1] = w /\ t[a + 2] = Colon /\ z = a + 2
      BY <1>0, <2>3 DEF Holds
    <3>2. Holds(t, a, pair[2])
      BY <1>0, <2>2, <3>1 DEF Holds
    <3> QED
      BY <1>0, <2>2, <3>1, <3>2 DEF KeylessAt
  <2>4. CASE \E pad \in Pads : z = a + Len(Written(pair, pad)) /\ Holds(t, a, Written(pair, pad))
    BY <1>1, <2>1, <2>3, <2>4, Zenon
  <2>5. CASE open /\ z = a + 1 /\ Holds(t, a, pair[2])
    BY <1>1, <2>2, <2>5 DEF BareAt
  <2> QED
    BY <2>4, <2>5, Zenon DEF Segment
<1>2. CASE pair[1] # NoKey
  <2>1. PICK pad \in Pads : z = a + Len(Written(pair, pad)) /\ Holds(t, a, Written(pair, pad))
    BY <1>2, Zenon DEF Segment
  <2>2. PICK w \in Words :
               /\ pair[1] = <<w>>
               /\ \/ Written(pair, pad) = <<w, Colon>> \o pair[2]
                  \/ Written(pair, pad) = <<Space, w, Space, Colon>> \o pair[2]
    BY <1>2, WrittenForms, Zenon
  <2>3. pair[2] \in Seq(Pieces) /\ Len(pair[2]) \in Nat
    BY WrittenForms
  <2>4. ASSUME NEW K \in {<<w>>, <<Space, w, Space>>},
               Written(pair, pad) = (K \o <<Colon>>) \o pair[2]
        PROVE  KeyedAt(t, a, z, pair, K, a + Len(K) + 1)
    <3>1. /\ K \in Seq(Pieces) /\ Len(K) > 0
          /\ \A j \in 1..Len(K) : K[j] # Colon
          /\ trimWhitespace(K) = <<w>> /\ ~Underruns(K)
      BY <2>4, TrimKey
    <3> DEFINE C == <<Colon>>
    <3>2. C \in Seq(Pieces) /\ Len(C) = 1 /\ C[1] = Colon
      BY Symbols
    <3> HIDE DEF C
    <3>3. K \o C \in Seq(Pieces) /\ Len(K \o C) = Len(K) + 1 /\ Len(K) \in Nat
      <4>1. K \o C \in Seq(Pieces) /\ Len(K \o C) = Len(K) + Len(C) /\ Len(K) \in Nat
        BY <3>1, <3>2, Joined, Zenon
      <4> QED
        BY <3>2, <4>1, Zenon
    <3>4. /\ Holds(t, a, K \o C) /\ Holds(t, a + Len(K \o C), pair[2])
          /\ z = a + Len(K \o C) + Len(pair[2])
      <4> DEFINE D == K \o C
      <4>1. Holds(t, a, D \o pair[2]) /\ z = a + Len(D \o pair[2]) /\ D \in Seq(Pieces)
        BY <2>1, <2>4, <3>3 DEF C
      <4> HIDE DEF D
      <4>2. /\ Holds(t, a, D) /\ Holds(t, a + Len(D), pair[2])
            /\ a + Len(D \o pair[2]) = a + Len(D) + Len(pair[2])
        BY <2>3, <4>1, HoldsJoined, Zenon
      <4> QED
        BY <4>1, <4>2, Zenon DEF D
    <3>5. Holds(t, a, K) /\ Holds(t, a + Len(K), C)
      BY <3>1, <3>2, <3>4, HoldsJoined
    <3>6. /\ a + Len(K) + 1 <= Len(t) /\ t[a + Len(K) + 1] = Colon
      BY <3>2, <3>5 DEF Holds
    <3>7. a + Len(K \o C) = a + Len(K) + 1 /\ a + Len(K) + 1 \in 1..Len(t)
      BY <1>0, <3>3, <3>6
    <3> QED
      BY <2>2, <3>1, <3>4, <3>5, <3>6, <3>7 DEF KeyedAt
  <2>5. <<w>> \o <<Colon>> = <<w, Colon>>
        /\ <<Space, w, Space>> \o <<Colon>> = <<Space, w, Space, Colon>>
    <3>1. Space \in Pieces /\ w \in Pieces /\ Colon \in Pieces
      BY Symbols
    <3>2. /\ <<Space>> \o <<w>> = <<Space, w>>
          /\ <<Space, w>> \o <<Space>> = <<Space, w, Space>>
          /\ <<Space, w, Space>> \o <<Colon>> = <<Space, w, Space, Colon>>
      BY <3>1, OneMore
    <3>3. <<w>> \o <<Colon>> = <<w, Colon>>
      BY <3>1, OneMore
    <3> QED
      BY <3>2, <3>3, Zenon
  <2> QED
    BY <1>2, <2>2, <2>4, <2>5, Zenon
<1> QED
  BY <1>1, <1>2

\* A turn of the loop at a written pair: it puts the pair, and goes on behind the
\* comma.
LEMMA PairTurn ==
    ASSUME text \in Seq(Pieces), NEW pair \in Pairs, NEW open,
           NEW a \in 0..Len(text), NEW z \in 0..Len(text), Segment(text, a, z, pair, open),
           z = Len(text) \/ (~open /\ z + 1 \in 1..Len(text) /\ text[z + 1] = Comma),
           sourceCp_p = <<Suffix(text, a)>>
    PROVE  /\ ~Blank(key)
           /\ Rest = IF z = Len(text) THEN <<>> ELSE <<Suffix(text, z + 1)>>
           /\ pair[1] = NoKey => Blank(value) /\ key[1] = pair[2]
           /\ pair[1] # NoKey => /\ ~Blank(value) /\ value[1] = pair[2]
                                 /\ trimWhitespace(key[1]) = pair[1] /\ ~Underruns(key[1])
<1>0. Len(text) \in Nat /\ a \in Nat
  OBVIOUS
<1>1. pair[2] \in Seq(Pieces) /\ Len(pair[2]) > 0 /\ \A j \in 1..Len(pair[2]) : pair[2][j] # Comma
  <2>1. <<>> \in Pads
    BY DEF Pads
  <2> QED
    BY <2>1, WrittenForms
<1>2. ASSUME NEW K \in Seq(Pieces), Len(K) > 0
      PROVE  ~Blank(<<K>>) /\ <<K>>[1] = K
  <2>1. K # <<>>
    BY <1>2
  <2> QED
    BY <2>1, BlankIs
<1>3. ~Blank(key) => /\ value = Token(Behind(<<Suffix(text, a)>>, Colon), Comma)
                     /\ Rest = Behind(Behind(<<Suffix(text, a)>>, Colon), Comma)
  BY Zenon DEF value, Rest
<1>4. CASE pair[1] # NoKey
  <2>1. PICK K, c : KeyedAt(text, a, z, pair, K, c)
    BY <1>4, SegmentParts, Zenon
  <2>2. /\ K \in Seq(Pieces) /\ Len(K) > 0 /\ \A j \in 1..Len(K) : K[j] # Colon
        /\ Holds(text, a, K) /\ c = a + Len(K) + 1 /\ c \in 1..Len(text) /\ text[c] = Colon
        /\ trimWhitespace(K) = pair[1] /\ ~Underruns(K)
        /\ Holds(text, c, pair[2]) /\ z = c + Len(pair[2])
    BY <2>1, Zenon DEF KeyedAt
  <2>3. key = <<K>> /\ Behind(<<Suffix(text, a)>>, Colon) = <<Suffix(text, c)>>
    <3>1. UpTo(text, a, K, Colon, c)
      BY <2>2, Zenon DEF UpTo
    <3> QED
      BY <3>1, ReadUpTo DEF key
  <2>4. ~Blank(key) /\ key[1] = K
    BY <1>2, <2>2, <2>3, Zenon
  <2>5. c \in 0..Len(text)
    BY <2>2
  <2>6. /\ value = Token(<<Suffix(text, c)>>, Comma)
        /\ Rest = Behind(<<Suffix(text, c)>>, Comma)
    BY <1>3, <2>3, <2>4, Zenon
  <2>7. /\ value = <<pair[2]>>
        /\ Rest = IF z = Len(text) THEN <<>> ELSE <<Suffix(text, z + 1)>>
    <3>1. CASE z = Len(text)
      <4>1. UpToEnd(text, c, pair[2], Comma)
        BY <1>1, <2>2, <3>1, Zenon DEF UpToEnd
      <4> QED
        BY <2>5, <2>6, <3>1, <4>1, ReadUpToEnd
    <3>2. CASE z # Len(text)
      <4>1. UpTo(text, c, pair[2], Comma, z + 1)
        BY <1>1, <2>2, <3>2, Zenon DEF UpTo
      <4> QED
        BY <2>5, <2>6, <3>2, <4>1, ReadUpTo
    <3> QED
      BY <3>1, <3>2
  <2>8. ~Blank(value) /\ value[1] = pair[2]
    BY <1>1, <1>2, <2>7, Zenon
  <2> QED
    BY <1>4, <2>2, <2>4, <2>7, <2>8, Zenon
<1>5. CASE pair[1] = NoKey /\ KeylessAt(text, a, z, pair)
  <2>1. /\ Holds(text, a, pair[2]) /\ Len(pair[2]) = 1 /\ pair[2][1] # Colon
        /\ z = a + 2 /\ z \in 1..Len(text) /\ text[z] = Colon
    BY <1>5 DEF KeylessAt
  <2>2. z = a + Len(pair[2]) + 1
    BY <2>1
  <2>3. \A j \in 1..Len(pair[2]) : pair[2][j] # Colon
    BY <2>1
  <2>4. key = <<pair[2]>> /\ Behind(<<Suffix(text, a)>>, Colon) = <<Suffix(text, z)>>
    <3>1. UpTo(text, a, pair[2], Colon, z)
      BY <1>1, <2>1, <2>2, <2>3, Zenon DEF UpTo
    <3> QED
      BY <3>1, ReadUpTo DEF key
  <2>5. ~Blank(key) /\ key[1] = pair[2]
    BY <1>1, <1>2, <2>4, Zenon
  <2>6. /\ value = Token(<<Suffix(text, z)>>, Comma)
        /\ Rest = Behind(<<Suffix(text, z)>>, Comma)
    BY <1>3, <2>4, <2>5, Zenon
  <2>7. /\ z = Len(text) => UpToEnd(text, z, <<>>, Comma)
        /\ z # Len(text) => UpTo(text, z, <<>>, Comma, z + 1)
    <3>1. <<>> \in Seq(Pieces) /\ Len(<<>>) = 0
      OBVIOUS
    <3>2. z + 0 = z /\ z <= Len(text) /\ z \in Nat /\ z + 0 + 1 = z + 1 /\ 1..0 = {}
      BY <2>1
    <3>3. Holds(text, z, <<>>)
      BY <3>1, <3>2 DEF Holds
    <3>4. \A j \in 1..Len(<<>>) : <<>>[j] # Comma
      BY <3>1, <3>2
    <3> QED
      BY <3>1, <3>2, <3>3, <3>4, Zenon DEF UpTo, UpToEnd
  <2>8. /\ value = << <<>> >>
        /\ Rest = IF z = Len(text) THEN <<>> ELSE <<Suffix(text, z + 1)>>
    BY <2>6, <2>7, ReadUpTo, ReadUpToEnd
  <2> QED
    BY <1>5, <2>5, <2>8, BlankIs, Zenon
<1>6. CASE pair[1] = NoKey /\ open /\ BareAt(text, a, z, pair)
  <2>1. /\ Holds(text, a, pair[2]) /\ Len(pair[2]) = 1 /\ pair[2][1] # Colon
        /\ z = a + 1 /\ z = Len(text)
    BY <1>6 DEF BareAt
  <2>2. \A j \in 1..Len(pair[2]) : pair[2][j] # Colon
    BY <2>1
  <2>3. key = <<pair[2]>> /\ Behind(<<Suffix(text, a)>>, Colon) = <<>>
    <3>1. UpToEnd(text, a, pair[2], Colon)
      BY <1>1, <2>1, <2>2, Zenon DEF UpToEnd
    <3> QED
      BY <3>1, ReadUpToEnd, Zenon DEF key
  <2>4. ~Blank(key) /\ key[1] = pair[2]
    BY <1>1, <1>2, <2>3, Zenon
  <2>5. value = <<>> /\ Rest = <<>>
    BY <1>3, <2>3, <2>4, NullCut, Zenon
  <2> QED
    BY <1>6, <2>1, <2>4, <2>5, BlankIs, Zenon
<1>7. pair[1] = NoKey => KeylessAt(text, a, z, pair) \/ (open /\ BareAt(text, a, z, pair))
  BY SegmentParts, Zenon
<1> QED
  BY <1>4, <1>5, <1>6, <1>7, Zenon

\* A pair stays where it is in a text that is the same up to there.
LEMMA SegmentStays ==
    ASSUME NEW t \in Seq(Pieces), NEW u \in Seq(Pieces), NEW a \in Nat, NEW z \in Nat,
           NEW pair \in Pairs, NEW open, Segment(t, a, z, pair, open),
           z <= Len(u), \A j \in 1..z : u[j] = t[j]
    PROVE  Segment(u, a, z, pair, open)
<1>1. ASSUME NEW w \in Seq(Pieces), z = a + Len(w), Holds(t, a, w)
      PROVE  Holds(u, a, w)
  <2>1. ASSUME NEW j \in 1..Len(w) PROVE u[a + j] = w[j]
    <3>1. a + j \in 1..z
      BY <1>1
    <3>2. t[a + j] = w[j]
      BY <1>1, Zenon DEF Holds
    <3> QED
      BY <3>1, <3>2
  <2> QED
    BY <1>1, <2>1 DEF Holds
<1>2. CASE \E pad \in Pads : z = a + Len(Written(pair, pad)) /\ Holds(t, a, Written(pair, pad))
  <2>1. PICK pad \in Pads : z = a + Len(Written(pair, pad)) /\ Holds(t, a, Written(pair, pad))
    BY <1>2
  <2>2. Written(pair, pad) \in Seq(Pieces)
    BY WrittenForms
  <2>3. Holds(u, a, Written(pair, pad))
    BY <1>1, <2>1, <2>2, Zenon
  <2> QED
    BY <2>1, <2>3, Zenon DEF Segment
<1>3. CASE open /\ pair[1] = NoKey /\ z = a + 1 /\ Holds(t, a, pair[2])
  <2>1. <<>> \in Pads
    BY DEF Pads
  <2>2. PICK w \in Words : pair[2] = <<w>>
    BY <1>3, <2>1, WrittenForms
  <2>3. pair[2] \in Seq(Pieces) /\ Len(pair[2]) = 1
    BY <2>2, Symbols
  <2>4. Holds(u, a, pair[2])
    BY <1>1, <1>3, <2>3
  <2> QED
    BY <1>3, <2>4, Zenon DEF Segment
<1> QED
  BY <1>2, <1>3, Zenon DEF Segment

\* A pair takes up some of the text.
LEMMA SegmentLength ==
    ASSUME NEW t \in Seq(Pieces), NEW a \in 0..Len(t), NEW z, NEW pair \in Pairs, NEW open,
           Segment(t, a, z, pair, open)
    PROVE  z \in (a + 1)..Len(t)
<1>1. Len(t) \in Nat /\ pair[2] \in Seq(Pieces) /\ Len(pair[2]) > 0
  <2>1. <<>> \in Pads
    BY DEF Pads
  <2> QED
    BY <2>1, WrittenForms
<1>2. CASE pair[1] # NoKey
  <2>1. PICK K, c : KeyedAt(t, a, z, pair, K, c)
    BY <1>2, SegmentParts
  <2>2. /\ K \in Seq(Pieces) /\ c = a + Len(K) + 1 /\ Len(K) > 0
        /\ z = c + Len(pair[2]) /\ c + Len(pair[2]) <= Len(t)
    BY <2>1, Zenon DEF KeyedAt, Holds
  <2>3. PICK k \in Nat, v \in Nat : k = Len(K) /\ v = Len(pair[2])
    BY <1>1, <2>2
  <2>4. z = a + k + 1 + v /\ z <= Len(t)
    BY <2>2, <2>3, Zenon
  <2> QED
    BY <1>1, <2>4
<1>3. CASE pair[1] = NoKey
  <2>1. KeylessAt(t, a, z, pair) \/ (open /\ BareAt(t, a, z, pair))
    BY <1>3, SegmentParts
  <2> QED
    BY <1>1, <2>1 DEF KeylessAt, BareAt, Holds
<1> QED
  BY <1>2, <1>3

\* One more pair.
LEMMA LayoutWrite ==
    ASSUME NEW t, NEW msg, NEW start, Layout(t, msg, start, FALSE),
           NEW pair \in Pairs, NEW pad \in Pads,
           NEW u, u = IF msg = <<>> THEN Written(pair, pad)
                      ELSE t \o <<Comma>> \o Written(pair, pad)
    PROVE  \E s \in [1..Len(Append(msg, pair)) -> 0..Len(u)] :
              Layout(u, Append(msg, pair), s, FALSE)
<1> DEFINE w == Written(pair, pad)
           m == Append(msg, pair)
           n == Len(msg)
<1>1. /\ t \in Seq(Pieces) /\ msg \in Seq(Pairs) /\ start \in [1..n -> 0..Len(t)]
      /\ n > 0 => start[1] = 0 /\ Segment(t, start[n], Len(t), msg[n], FALSE)
      /\ \A i \in 1..(n - 1) : /\ start[i + 1] \in 1..Len(t) /\ t[start[i + 1]] = Comma
                               /\ Segment(t, start[i], start[i + 1] - 1, msg[i], FALSE)
  BY Zenon DEF Layout
<1>2. w \in Seq(Pieces) /\ Len(w) \in Nat
  BY WrittenForms
<1>3. /\ m \in Seq(Pairs) /\ Len(m) = n + 1 /\ m[n + 1] = pair /\ n \in Nat /\ Len(t) \in Nat
      /\ \A i \in 1..n : m[i] = msg[i]
  BY <1>1
<1> HIDE DEF w, m
<1>4. CASE msg = <<>>
  <2>1. n = 0 /\ u = w /\ Len(m) = 1 /\ m[1] = pair
    BY <1>3, <1>4 DEF w
  <2> DEFINE s == [i \in 1..1 |-> 0]
  <2>2. s \in [1..1 -> 0..Len(u)] /\ s[1] = 0
    BY <1>2, <2>1
  <2>3. Segment(u, 0, Len(u), pair, FALSE)
    <3>1. Len(u) = 0 + Len(w) /\ Holds(u, 0, w)
      BY <1>2, <2>1 DEF Holds
    <3> QED
      BY <3>1 DEF Segment, w
  <2> HIDE DEF s
  <2>4. Layout(u, m, s, FALSE)
    <3>1. 1..(1 - 1) = {} /\ 1 > 0 /\ 1 # 0
      OBVIOUS
    <3> QED
      BY <1>2, <1>3, <2>1, <2>2, <2>3, <3>1, Zenon DEF Layout
  <2> QED
    BY <2>1, <2>2, <2>4 DEF m
<1>5. CASE msg # <<>>
  <2> DEFINE C == <<Comma>>
             tc == t \o C
  <2>1. C \in Seq(Pieces) /\ Len(C) = 1 /\ C[1] = Comma
    BY Symbols
  <2>2. u = tc \o w
    BY <1>5 DEF w
  <2> HIDE DEF C
  <2>3. /\ tc \in Seq(Pieces) /\ Len(tc) = Len(t) + Len(C)
        /\ \A i \in 1..Len(t) : tc[i] = t[i]
        /\ \A i \in 1..Len(C) : tc[Len(t) + i] = C[i]
    BY <1>1, <2>1, Joined
  <2> HIDE DEF tc
  <2>4. /\ u \in Seq(Pieces) /\ Len(u) = Len(tc) + Len(w)
        /\ \A i \in 1..Len(tc) : u[i] = tc[i]
        /\ \A i \in 1..Len(w) : u[Len(tc) + i] = w[i]
    <3>1. /\ tc \o w \in Seq(Pieces) /\ Len(tc \o w) = Len(tc) + Len(w)
          /\ \A i \in 1..Len(tc) : (tc \o w)[i] = tc[i]
          /\ \A i \in 1..Len(w) : (tc \o w)[Len(tc) + i] = w[i]
      <4>1. tc \in Seq(Pieces) /\ w \in Seq(Pieces)
        BY <1>2, <2>3, Zenon
      <4> QED
        BY <4>1, Joined
    <3> QED
      BY <2>2, <3>1, Zenon
  <2>5. /\ Len(tc) = Len(t) + 1 /\ Len(u) = Len(t) + 1 + Len(w) /\ Len(u) \in Nat
        /\ u[Len(t) + 1] = Comma /\ \A i \in 1..Len(t) : u[i] = t[i]
        /\ \A i \in 1..Len(w) : u[Len(t) + 1 + i] = w[i]
    <3>1. Len(tc) = Len(t) + 1 /\ tc[Len(t) + 1] = Comma
      BY <1>3, <2>1, <2>3
    <3>2. \A i \in 1..Len(t) : i \in 1..Len(tc)
      BY <1>3, <3>1
    <3>3. Len(t) + 1 \in 1..Len(tc) /\ Len(u) = Len(t) + 1 + Len(w) /\ Len(u) \in Nat
      BY <1>2, <1>3, <2>4, <3>1
    <3> QED
      BY <2>3, <2>4, <3>1, <3>2, <3>3, Zenon
  <2>6. n > 0
    BY <1>1, <1>3, <1>5
  <2> DEFINE s == [i \in 1..(n + 1) |-> IF i = n + 1 THEN Len(t) + 1 ELSE start[i]]
  <2>7. /\ s \in [1..(n + 1) -> 0..Len(u)] /\ s[n + 1] = Len(t) + 1
        /\ \A i \in 1..n : s[i] = start[i]
    <3>1. ASSUME NEW i \in 1..(n + 1) PROVE (IF i = n + 1 THEN Len(t) + 1 ELSE start[i]) \in 0..Len(u)
      <4>1. CASE i = n + 1
        BY <1>2, <1>3, <2>5, <4>1
      <4>2. CASE i # n + 1
        <5>1. i \in 1..n
          BY <1>3, <4>2
        <5>2. start[i] \in 0..Len(t)
          BY <1>1, <5>1
        <5> QED
          BY <1>2, <1>3, <2>5, <4>2, <5>2
      <4> QED
        BY <4>1, <4>2
    <3> QED
      BY <1>3, <3>1
  <2> HIDE DEF s
  <2>8. Segment(u, s[n + 1], Len(u), m[n + 1], FALSE)
    <3>1. Len(u) = s[n + 1] + Len(w) /\ Holds(u, s[n + 1], w)
      BY <1>2, <1>3, <2>5, <2>7 DEF Holds
    <3> QED
      BY <1>3, <3>1 DEF Segment, w
  <2>9. ASSUME NEW i \in 1..n
        PROVE  /\ s[i + 1] \in 1..Len(u) /\ u[s[i + 1]] = Comma
               /\ Segment(u, s[i], s[i + 1] - 1, m[i], FALSE)
    <3>1. start[i] \in 0..Len(t) /\ start[i] \in Nat /\ m[i] \in Pairs /\ s[i] = start[i]
      <4>1. start[i] \in 0..Len(t) /\ s[i] = start[i]
        BY <1>1, <2>7, Zenon
      <4>2. m[i] \in Pairs
        BY <1>3
      <4> QED
        BY <4>1, <4>2
    <3>2. CASE i = n
      <4>1. s[i + 1] = Len(t) + 1 /\ s[i + 1] - 1 = Len(t)
        BY <1>3, <2>7, <3>2
      <4>2. Segment(t, start[i], Len(t), m[i], FALSE)
        BY <1>1, <1>3, <2>6, <3>2
      <4>3. Segment(u, start[i], Len(t), m[i], FALSE)
        <5>1. Len(t) <= Len(u)
          BY <1>2, <1>3, <2>5
        <5> QED
          BY <1>1, <1>3, <2>4, <2>5, <3>1, <4>2, <5>1, SegmentStays
      <4>4. s[i + 1] \in 1..Len(u)
        BY <1>2, <1>3, <2>5, <4>1
      <4> QED
        BY <2>5, <3>1, <4>1, <4>3, <4>4
    <3>3. CASE i # n
      <4>1. i \in 1..(n - 1) /\ i + 1 \in 1..n
        BY <1>3, <3>3
      <4>2. /\ start[i + 1] \in 1..Len(t) /\ t[start[i + 1]] = Comma
            /\ Segment(t, start[i], start[i + 1] - 1, msg[i], FALSE)
        BY <1>1, <4>1, Zenon
      <4>3. PICK z \in Nat : z = start[i + 1] - 1
        BY <4>2
      <4>4. z <= Len(u) /\ \A j \in 1..z : u[j] = t[j]
        <5>1. z <= Len(t) /\ Len(t) <= Len(u) /\ z <= Len(u)
          <6>1. PICK y \in 1..Len(t) : y = start[i + 1]
            BY <4>2
          <6>2. z <= Len(t)
            BY <1>3, <4>3, <6>1
          <6>3. Len(t) <= Len(u)
            BY <1>2, <1>3, <2>5
          <6> QED
            BY <1>3, <2>5, <6>2, <6>3
        <5>2. \A j \in 1..z : j \in 1..Len(t)
          BY <1>3, <5>1
        <5> QED
          BY <2>5, <5>1, <5>2, Zenon
      <4>5. Segment(u, start[i], z, m[i], FALSE)
        <5>1. Segment(t, start[i], z, m[i], FALSE)
          BY <1>3, <4>2, <4>3
        <5> QED
          BY <1>1, <2>4, <3>1, <4>4, <5>1, SegmentStays
      <4>6. s[i + 1] = start[i + 1] /\ start[i + 1] \in 1..Len(u) /\ u[start[i + 1]] = Comma
        BY <1>2, <1>3, <2>5, <2>7, <4>1, <4>2
      <4> QED
        BY <3>1, <4>3, <4>5, <4>6
    <3> QED
      BY <3>2, <3>3
  <2>10. s[1] = 0
    BY <1>1, <1>3, <2>6, <2>7
  <2>11. Layout(u, m, s, FALSE)
    <3>1. Len(m) # 0 /\ 1..(Len(m) - 1) = 1..n /\ 1..Len(m) = 1..(n + 1) /\ m[Len(m)] = m[n + 1]
          /\ s[Len(m)] = s[n + 1]
      BY <1>3
    <3>2. s \in [1..Len(m) -> 0..Len(u)] /\ Segment(u, s[Len(m)], Len(u), m[Len(m)], FALSE)
      BY <2>7, <2>8, <3>1, Zenon
    <3>3. \A i \in 1..(Len(m) - 1) :
             /\ s[i + 1] \in 1..Len(u) /\ u[s[i + 1]] = Comma
             /\ Segment(u, s[i], s[i + 1] - 1, m[i], FALSE)
      BY <2>9, <3>1, Zenon
    <3> QED
      BY <1>3, <2>4, <2>10, <3>1, <3>2, <3>3, Zenon DEF Layout
  <2> QED
    BY <1>3, <2>7, <2>11 DEF m
<1> QED
  BY <1>4, <1>5

\* The text may be read with its last colon or without it.
LEMMA LayoutCall ==
    ASSUME NEW t, NEW msg, NEW start, Layout(t, msg, start, FALSE),
           NEW u \in {t, Shortened(t)}
    PROVE  Layout(u, msg, start, TRUE)
<1> DEFINE n == Len(msg)
<1>1. /\ t \in Seq(Pieces) /\ msg \in Seq(Pairs) /\ start \in [1..n -> 0..Len(t)]
      /\ n = 0 => Len(t) = 0
      /\ n > 0 => start[1] = 0 /\ Segment(t, start[n], Len(t), msg[n], FALSE)
      /\ \A i \in 1..(n - 1) : /\ start[i + 1] \in 1..Len(t) /\ t[start[i + 1]] = Comma
                               /\ Segment(t, start[i], start[i + 1] - 1, msg[i], FALSE)
  BY Zenon DEF Layout
<1>2. n \in Nat /\ Len(t) \in Nat
  BY <1>1
<1>3. CASE u = t
  <2>1. n > 0 => Segment(t, start[n], Len(t), msg[n], TRUE)
    BY <1>1, Zenon DEF Segment
  <2> QED
    BY <1>1, <1>3, <2>1, Zenon DEF Layout
<1>4. CASE u # t
  <2>1. /\ u \in Seq(Pieces) /\ Len(t) > 0 /\ t[Len(t)] = Colon /\ Len(u) = Len(t) - 1
        /\ \A j \in 1..(Len(t) - 1) : u[j] = t[j]
    BY <1>1, <1>4, ShortenedIs
  <2>2. n > 0 /\ start[1] = 0 /\ Segment(t, start[n], Len(t), msg[n], FALSE)
    <3>1. n # 0
      <4>1. Len(t) # 0
        BY <1>2, <2>1
      <4> QED
        BY <1>1, <4>1, Zenon
    <3>2. n > 0
      BY <1>2, <3>1
    <3> QED
      BY <1>1, <3>2, Zenon
  <2>3. start[n] \in 0..Len(t) /\ msg[n] \in Pairs
    <3>1. n \in 1..n
      BY <1>2, <2>2
    <3> QED
      BY <1>1, <3>1
  <2>4. Segment(u, start[n], Len(u), msg[n], TRUE) /\ start[n] \in 0..Len(u)
    <3> DEFINE a == start[n]
               pair == msg[n]
    <3>1. a \in 0..Len(t) /\ pair \in Pairs /\ Segment(t, a, Len(t), pair, FALSE)
      BY <2>2, <2>3
    <3> HIDE DEF a, pair
    <3>2. pair[1] = NoKey
      <4> SUFFICES ASSUME pair[1] # NoKey PROVE FALSE
        OBVIOUS
      <4>1. PICK K, c : KeyedAt(t, a, Len(t), pair, K, c)
        BY <1>1, <3>1, SegmentParts
      <4>2. /\ \A j \in 1..Len(pair[2]) : t[c + j] = pair[2][j]
            /\ Len(t) = c + Len(pair[2])
        BY <4>1, Zenon DEF KeyedAt, Holds
      <4>3. Len(pair[2]) \in 1..Len(pair[2]) /\ pair[2][Len(pair[2])] # Colon
        <5>1. <<>> \in Pads
          BY DEF Pads
        <5>2. /\ pair[2] \in Seq(Pieces) /\ Len(pair[2]) > 0
              /\ pair[2][Len(pair[2])] # Colon
          BY <3>1, <5>1, WrittenForms
        <5>3. Len(pair[2]) \in Nat
          BY <5>2
        <5> QED
          BY <5>2, <5>3
      <4> QED
        BY <2>1, <4>2, <4>3, Zenon
    <3>3. KeylessAt(t, a, Len(t), pair)
      BY <1>1, <3>1, <3>2, SegmentParts
    <3>4. /\ Holds(t, a, pair[2]) /\ Len(pair[2]) = 1 /\ Len(t) = a + 2
      BY <3>3, Zenon DEF KeylessAt
    <3>5. t[a + 1] = pair[2][1] /\ a + 1 = Len(u) /\ a + 1 \in 1..(Len(t) - 1) /\ a \in 0..Len(u)
      BY <2>1, <3>1, <3>4 DEF Holds
    <3>6. u[a + 1] = pair[2][1]
      BY <2>1, <3>5, Zenon
    <3>7. Holds(u, a, pair[2])
      BY <2>1, <3>1, <3>4, <3>5, <3>6 DEF Holds
    <3>8. Segment(u, a, Len(u), pair, TRUE)
      BY <3>2, <3>5, <3>7, Zenon DEF Segment
    <3> QED
      BY <3>5, <3>8 DEF a, pair
  <2>5. ASSUME NEW i \in 1..(n - 1)
        PROVE  /\ start[i + 1] \in 1..Len(u) /\ u[start[i + 1]] = Comma
               /\ Segment(u, start[i], start[i + 1] - 1, msg[i], FALSE)
               /\ start[i] \in 0..Len(u)
    <3>1. /\ start[i + 1] \in 1..Len(t) /\ t[start[i + 1]] = Comma
          /\ Segment(t, start[i], start[i + 1] - 1, msg[i], FALSE)
      BY <1>1, Zenon
    <3>2. start[i] \in 0..Len(t) /\ msg[i] \in Pairs
      <4>1. i \in 1..n
        BY <1>2
      <4> QED
        BY <1>1, <4>1
    <3>3. PICK y \in 1..Len(t) : y = start[i + 1]
      BY <3>1
    <3>4. y # Len(t)
      BY <2>1, <3>1, <3>3, Symbols
    <3>5. PICK z \in Nat : z = y - 1
      BY <3>3
    <3>6. y \in 1..Len(u) /\ y \in 1..(Len(t) - 1) /\ z <= Len(u) /\ z <= Len(t) - 1
      BY <1>2, <2>1, <3>3, <3>4, <3>5
    <3>7. u[y] = Comma
      BY <2>1, <3>1, <3>3, <3>6, Zenon
    <3>8. Segment(t, start[i], z, msg[i], FALSE)
      BY <3>1, <3>3, <3>5
    <3>9. \A j \in 1..z : j \in 1..(Len(t) - 1)
      BY <1>2, <3>6
    <3>10. \A j \in 1..z : u[j] = t[j]
      BY <2>1, <3>9, Zenon
    <3>11. start[i] \in Nat
      BY <3>2
    <3>12. Segment(u, start[i], z, msg[i], FALSE)
      BY <1>1, <2>1, <3>2, <3>6, <3>8, <3>10, <3>11, SegmentStays
    <3>13. z \in (start[i] + 1)..Len(t)
      BY <1>1, <3>2, <3>8, SegmentLength
    <3>14. start[i] \in 0..Len(u)
      BY <1>2, <2>1, <3>6, <3>11, <3>13
    <3> QED
      BY <3>3, <3>5, <3>6, <3>7, <3>12, <3>14
  <2>6. start \in [1..n -> 0..Len(u)]
    <3>1. ASSUME NEW i \in 1..n PROVE start[i] \in 0..Len(u)
      <4>1. i = n \/ i \in 1..(n - 1)
        BY <1>2
      <4> QED
        BY <2>4, <2>5, <4>1
    <3> QED
      BY <1>1, <3>1
  <2>7. n # 0
    BY <1>2, <2>2
  <2> QED
    BY <1>1, <2>1, <2>2, <2>4, <2>5, <2>6, <2>7, Zenon DEF Layout
<1> QED
  BY <1>3, <1>4

\* The state of the loop that a message is read back from.
ReadingFrom(msg, start) ==
    /\ msg \in Seq(Pairs) /\ sent = <<msg>> /\ start \in [1..Len(msg) -> 0..Len(text)]
    /\ Layout(text, msg, start, pc # "writing")
    /\ IF pc = "writing" THEN pairs = <<>> ELSE PairsRead(msg, start)

LEMMA MessageInvIs == MessageInv <=> sent = <<>> \/ \E msg, start : ReadingFrom(msg, start)
  BY Zenon DEF MessageInv, ReadingFrom

LEMMA PairIs == ASSUME NEW pair \in Pairs PROVE pair = <<pair[1], pair[2]>>
  BY DEF Pairs

LEMMA PrefixAppend ==
    ASSUME NEW S, NEW s \in Seq(S), NEW k \in Nat, k + 1 <= Len(s)
    PROVE  Append(SubSeq(s, 1, k), s[k + 1]) = SubSeq(s, 1, k + 1)
<1> DEFINE u == SubSeq(s, 1, k)
           v == SubSeq(s, 1, k + 1)
           w == Append(u, s[k + 1])
<1>1. /\ u \in Seq(S) /\ Len(u) = k /\ \A j \in 1..k : u[j] = s[j]
  OBVIOUS
<1>2. /\ v \in Seq(S) /\ Len(v) = k + 1 /\ \A j \in 1..(k + 1) : v[j] = s[j]
  OBVIOUS
<1>3. s[k + 1] \in S
  OBVIOUS
<1> HIDE DEF u, v
<1>4. /\ w \in Seq(S) /\ Len(w) = k + 1 /\ w[k + 1] = s[k + 1] /\ \A j \in 1..k : w[j] = u[j]
  BY <1>1, <1>3
<1> HIDE DEF w
<1>5. ASSUME NEW j \in 1..(k + 1) PROVE w[j] = v[j]
  <2>1. j = k + 1 \/ j \in 1..k
    OBVIOUS
  <2> QED
    BY <1>1, <1>2, <1>4, <2>1
<1>6. w = v
  BY <1>2, <1>4, <1>5, SameSeq
<1> QED
  BY <1>6 DEF u, v, w

\* A turn of the loop at a message of which k pairs are read.
LEMMA TurnInMessage ==
    ASSUME NEW msg, NEW start, ReadingFrom(msg, start), pc = "reading"
    PROVE  /\ Len(pairs) \in Nat /\ Len(msg) \in Nat /\ Len(pairs) <= Len(msg)
           /\ Len(pairs) = Len(msg) => Blank(key) /\ Blank(value) /\ Rest = <<>>
           /\ Len(pairs) < Len(msg) =>
                 /\ ~Blank(key)
                 /\ Blank(value) => <<NoKey, key[1]>> = msg[Len(pairs) + 1]
                 /\ ~Blank(value) => /\ <<trimWhitespace(key[1]), value[1]>> = msg[Len(pairs) + 1]
                                     /\ ~Underruns(key[1])
                 /\ Rest = IF Len(pairs) + 1 = Len(msg) THEN <<>>
                           ELSE <<Suffix(text, start[Len(pairs) + 2])>>
<1>1. /\ msg \in Seq(Pairs) /\ start \in [1..Len(msg) -> 0..Len(text)]
      /\ Layout(text, msg, start, TRUE) /\ PairsRead(msg, start)
  BY Zenon DEF ReadingFrom
<1>2. /\ text \in Seq(Pieces)
      /\ Len(msg) = 0 => Len(text) = 0
      /\ Len(msg) > 0 => Segment(text, start[Len(msg)], Len(text), msg[Len(msg)], TRUE)
      /\ \A i \in 1..(Len(msg) - 1) :
            /\ start[i + 1] \in 1..Len(text) /\ text[start[i + 1]] = Comma
            /\ Segment(text, start[i], start[i + 1] - 1, msg[i], FALSE)
  BY <1>1, Zenon DEF Layout
<1>3. /\ pairs \in Seq(Pairs) /\ Len(pairs) <= Len(msg)
      /\ Len(pairs) < Len(msg) => sourceCp_p = <<Suffix(text, start[Len(pairs) + 1])>>
      /\ Len(pairs) = Len(msg) => sourceCp_p = <<>> \/ (msg = <<>> /\ sourceCp_p = << <<>> >>)
  BY <1>1, Zenon DEF PairsRead
<1>4. Len(pairs) \in Nat /\ Len(msg) \in Nat /\ Len(text) \in Nat
  BY <1>1, <1>2, <1>3
<1>5. ASSUME Len(pairs) = Len(msg) PROVE Blank(key) /\ Blank(value) /\ Rest = <<>>
  <2>1. CASE sourceCp_p = <<>>
    BY <2>1, NullTurn, Zenon
  <2>2. CASE sourceCp_p = << <<>> >>
    <3>1. <<>> \in Seq(Pieces) /\ \A j \in 1..Len(<<>>) : <<>>[j] # Colon
      OBVIOUS
    <3>2. key = << <<>> >> /\ Behind(sourceCp_p, Colon) = <<>>
      BY <2>2, <3>1, NoCut DEF key
    <3>3. Blank(key)
      BY <3>2, BlankIs, Zenon
    <3>4. value = <<>> /\ Rest = <<>>
      BY <3>2, <3>3, Zenon DEF value, Rest
    <3> QED
      BY <3>3, <3>4, BlankIs, Zenon
  <2> QED
    BY <1>3, <1>5, <2>1, <2>2, Zenon
<1>6. ASSUME Len(pairs) < Len(msg)
      PROVE  /\ ~Blank(key)
             /\ Blank(value) => <<NoKey, key[1]>> = msg[Len(pairs) + 1]
             /\ ~Blank(value) => /\ <<trimWhitespace(key[1]), value[1]>> = msg[Len(pairs) + 1]
                                 /\ ~Underruns(key[1])
             /\ Rest = IF Len(pairs) + 1 = Len(msg) THEN <<>>
                       ELSE <<Suffix(text, start[Len(pairs) + 2])>>
  <2>1. PICK i \in 1..Len(msg) : i = Len(pairs) + 1
    BY <1>4, <1>6
  <2>2. PICK a \in 0..Len(text), pair \in Pairs : a = start[i] /\ pair = msg[i]
    BY <1>1
  <2>3. sourceCp_p = <<Suffix(text, a)>>
    BY <1>3, <1>6, <2>1, <2>2
  <2>4. pair = <<pair[1], pair[2]>>
    BY PairIs
  <2>5. CASE i = Len(msg)
    <3>1. Segment(text, a, Len(text), pair, TRUE) /\ Len(text) \in 0..Len(text)
      <4>1. Len(msg) > 0 /\ Len(text) \in 0..Len(text)
        BY <1>4
      <4> QED
        BY <1>2, <2>2, <2>5, <4>1, Zenon
    <3>2. /\ ~Blank(key) /\ Rest = <<>>
          /\ pair[1] = NoKey => Blank(value) /\ key[1] = pair[2]
          /\ pair[1] # NoKey => /\ ~Blank(value) /\ value[1] = pair[2]
                                /\ trimWhitespace(key[1]) = pair[1] /\ ~Underruns(key[1])
      BY <1>2, <2>3, <3>1, PairTurn
    <3> QED
      BY <2>1, <2>2, <2>4, <2>5, <3>2
  <2>6. CASE i # Len(msg)
    <3>1. i \in 1..(Len(msg) - 1) /\ Len(pairs) + 2 = i + 1
      BY <1>4, <2>1, <2>6
    <3>2. /\ start[i + 1] \in 1..Len(text) /\ text[start[i + 1]] = Comma
          /\ Segment(text, a, start[i + 1] - 1, pair, FALSE)
      BY <1>2, <2>2, <3>1
    <3>3. PICK z \in 0..Len(text) : /\ z = start[i + 1] - 1 /\ z + 1 = start[i + 1]
                                    /\ z # Len(text) /\ z + 1 \in 1..Len(text)
      BY <1>4, <3>2
    <3>4. Segment(text, a, z, pair, FALSE) /\ text[z + 1] = Comma
      BY <3>2, <3>3
    <3>5. /\ ~Blank(key) /\ Rest = <<Suffix(text, z + 1)>>
          /\ pair[1] = NoKey => Blank(value) /\ key[1] = pair[2]
          /\ pair[1] # NoKey => /\ ~Blank(value) /\ value[1] = pair[2]
                                /\ trimWhitespace(key[1]) = pair[1] /\ ~Underruns(key[1])
      BY <1>2, <2>3, <3>3, <3>4, PairTurn
    <3>6. Rest = <<Suffix(text, start[Len(pairs) + 2])>>
      BY <3>1, <3>3, <3>5, Zenon
    <3> QED
      BY <2>1, <2>2, <2>4, <2>6, <3>5, <3>6
  <2> QED
    BY <2>5, <2>6
<1> QED
  BY <1>3, <1>4, <1>5, <1>6

\* A turn that puts the next pair of the message.
LEMMA PutInMessage ==
    ASSUME NEW msg, NEW start, ReadingFrom(msg, start), pc = "reading",
           Len(pairs) < Len(msg), UNCHANGED <<text, sent, pc>>, ~underrun',
           pairs' = Append(pairs, msg[Len(pairs) + 1]), sourceCp_p' = Rest
    PROVE  MessageInv'
<1>1. /\ msg \in Seq(Pairs) /\ start \in [1..Len(msg) -> 0..Len(text)] /\ sent = <<msg>>
      /\ Layout(text, msg, start, TRUE) /\ PairsRead(msg, start)
  BY Zenon DEF ReadingFrom
<1>2. pairs \in Seq(Pairs) /\ pairs = SubSeq(msg, 1, Len(pairs))
  BY <1>1, Zenon DEF PairsRead
<1>3. PICK k \in Nat : k = Len(pairs) /\ k + 1 <= Len(msg) /\ Len(msg) \in Nat
  BY TurnInMessage
<1>4. Rest = IF k + 1 = Len(msg) THEN <<>> ELSE <<Suffix(text, start[k + 2])>>
  BY <1>3, TurnInMessage
<1>5. msg[k + 1] \in Pairs
  BY <1>1, <1>3
<1>6. /\ pairs' \in Seq(Pairs) /\ Len(pairs') = k + 1
  <2>1. pairs' = Append(pairs, msg[k + 1])
    BY <1>3
  <2> QED
    BY <1>2, <1>3, <1>5, <2>1
<1>7. pairs' = SubSeq(msg, 1, k + 1)
  <2>1. pairs' = Append(SubSeq(msg, 1, k), msg[k + 1])
    BY <1>2, <1>3, Zenon
  <2> QED
    BY <1>1, <1>3, <2>1, PrefixAppend
<1>8. PairsRead(msg, start)'
  <2>1. k + 1 < Len(msg) => sourceCp_p' = <<Suffix(text', start[k + 1 + 1])>>
    <3>1. k + 1 + 1 = k + 2 /\ (k + 1 < Len(msg) => k + 1 # Len(msg))
      BY <1>3
    <3> QED
      BY <1>4, <3>1
  <2>2. k + 1 = Len(msg) => sourceCp_p' = <<>>
    BY <1>4
  <2>3. Suffix(text, 0)' = Suffix(text', 0)
    BY DEF Suffix
  <2>4. /\ Len(pairs') <= Len(msg) /\ pairs' = SubSeq(msg, 1, Len(pairs'))
        /\ Len(pairs') < Len(msg) => sourceCp_p' = <<Suffix(text', start[Len(pairs') + 1])>>
        /\ Len(pairs') = Len(msg) => sourceCp_p' = <<>>
    BY <1>3, <1>6, <1>7, <2>1, <2>2
  <2> QED
    BY <1>6, <2>4 DEF PairsRead, Suffix
<1>9. Layout(text, msg, start, TRUE)'
  BY <1>1 DEF Layout, Segment, Holds
<1>10. ReadingFrom(msg, start)'
  BY <1>1, <1>8, <1>9 DEF ReadingFrom
<1> QED
  BY <1>1, <1>10, Zenon DEF MessageInv, ReadingFrom

LEMMA InitMessageInv == Init => MessageInv
<1> SUFFICES ASSUME Init, sent # <<>> PROVE MessageInv
  BY DEF MessageInv
<1>1. sent = << <<>> >> /\ text = <<>> /\ pc = "writing" /\ pairs = <<>>
  BY DEF Init
<1> DEFINE start == [i \in 1..Len(<<>>) |-> 0]
<1>2. <<>> \in Seq(Pairs) /\ text \in Seq(Pieces) /\ Len(<<>>) = 0 /\ Len(text) = 0
  BY <1>1
<1>3. start \in [1..Len(<<>>) -> 0..Len(text)]
  BY <1>2
<1>4. 1..(Len(<<>>) - 1) = {} /\ ~(Len(<<>>) > 0)
  BY <1>2
<1> HIDE DEF start
<1>5. Layout(text, <<>>, start, FALSE)
  BY <1>2, <1>3, <1>4, Zenon DEF Layout
<1>6. ReadingFrom(<<>>, start)
  BY <1>1, <1>2, <1>3, <1>5 DEF ReadingFrom
<1> QED
  BY <1>6, MessageInvIs, Zenon

LEMMA NextMessageInv == TextInv /\ MessageInv /\ [Next]_vars => MessageInv'
<1> SUFFICES ASSUME TextInv, MessageInv, [Next]_vars PROVE MessageInv'
  OBVIOUS
<1>1. CASE sent = <<>>
  <2>1. sent' = <<>>
    BY <1>1 DEF Next, Write, Call, Break, PutKeyless, PutPair, vars
  <2> QED
    BY <2>1 DEF MessageInv
<1>2. CASE sent # <<>>
  <2>1. PICK msg, start : ReadingFrom(msg, start)
    BY <1>2, MessageInvIs, Zenon
  <2>2. /\ msg \in Seq(Pairs) /\ sent = <<msg>> /\ start \in [1..Len(msg) -> 0..Len(text)]
        /\ pc = "writing" => Layout(text, msg, start, FALSE) /\ pairs = <<>>
        /\ pc # "writing" => Layout(text, msg, start, TRUE) /\ PairsRead(msg, start)
    BY <2>1 DEF ReadingFrom
  <2>3. sent[1] = msg /\ Len(msg) \in Nat
    BY <2>2
  <2>4. ASSUME NEW pair \in Pairs, NEW pad \in Pads, Write(pair, pad) PROVE MessageInv'
    <3>1. /\ pc = "writing" /\ pc' = pc /\ pairs' = pairs /\ sent' = <<Append(msg, pair)>>
          /\ text' = IF msg = <<>> THEN Written(pair, pad)
                     ELSE text \o <<Comma>> \o Written(pair, pad)
      BY <2>3, <2>4 DEF Write
    <3>2. PICK s \in [1..Len(Append(msg, pair)) -> 0..Len(text')] :
                 Layout(text', Append(msg, pair), s, FALSE)
      BY <2>2, <3>1, LayoutWrite
    <3>3. Append(msg, pair) \in Seq(Pairs)
      BY <2>2
    <3> DEFINE m == Append(msg, pair)
    <3> HIDE DEF m
    <3>4. /\ m \in Seq(Pairs) /\ sent' = <<m>> /\ s \in [1..Len(m) -> 0..Len(text')]
          /\ Layout(text', m, s, FALSE) /\ pc' = "writing" /\ pairs' = <<>>
      BY <2>2, <3>1, <3>2, <3>3 DEF m
    <3>5. Layout(text', m, s, (pc # "writing")')
      BY <3>4, Zenon DEF Layout, Segment
    <3> QED
      BY <3>4, <3>5 DEF MessageInv, Layout, Segment, Holds
  <2>5. CASE Call
    <3>1. /\ pc = "writing" /\ pc' = "reading" /\ pairs' = <<>> /\ sent' = <<msg>>
          /\ text' \in {text, Shortened(text)} /\ sourceCp_p' = <<text'>> /\ underrun' = underrun
      BY <1>2, <2>2, <2>5 DEF Call
    <3>2. Layout(text', msg, start, TRUE)
      BY <2>2, <3>1, LayoutCall
    <3>3. /\ text' \in Seq(Pieces) /\ start \in [1..Len(msg) -> 0..Len(text')]
          /\ Len(msg) = 0 => Len(text') = 0
          /\ Len(msg) > 0 => start[1] = 0
      BY <3>2, Zenon DEF Layout
    <3>4. ~underrun'
      BY <3>1 DEF TextInv, TextsOK
    <3>5. Len(pairs') = 0 /\ pairs' \in Seq(Pairs) /\ pairs' = SubSeq(msg, 1, 0)
      BY <2>2, <3>1
    <3>6. Suffix(text', 0) = text'
      BY <3>3, SuffixNone
    <3>7. 0 < Len(msg) => sourceCp_p' = <<Suffix(text', start[0 + 1])>>
      BY <2>3, <3>1, <3>3, <3>6
    <3>8. 0 = Len(msg) => msg = <<>> /\ sourceCp_p' = << <<>> >>
      <4>1. ASSUME Len(msg) = 0 PROVE msg = <<>> /\ text' = <<>>
        BY <2>2, <3>3, <4>1
      <4> QED
        BY <3>1, <4>1
    <3>9. PairsRead(msg, start)'
      BY <2>3, <3>1, <3>4, <3>5, <3>7, <3>8 DEF PairsRead, Suffix
    <3>10. Layout(text, msg, start, pc # "writing")'
      BY <3>1, <3>2 DEF Layout, Segment, Holds
    <3> QED
      BY <2>2, <3>1, <3>3, <3>9, <3>10 DEF MessageInv
  <2>6. CASE Break
    <3>1. /\ pc = "reading" /\ pc' = "done" /\ Blank(key) /\ sourceCp_p' = Rest
          /\ UNCHANGED <<text, sent, pairs, underrun>>
      BY <2>6 DEF Break
    <3>2. Len(pairs) = Len(msg) /\ Rest = <<>> /\ Len(pairs) \in Nat
      BY <2>1, <3>1, TurnInMessage
    <3>3. PairsRead(msg, start)'
      <4>1. ~underrun /\ pairs \in Seq(Pairs) /\ pairs = SubSeq(msg, 1, Len(pairs))
        BY <2>2, <3>1, Zenon DEF PairsRead
      <4>2. ~(Len(pairs) < Len(msg)) /\ Len(pairs) <= Len(msg)
        BY <3>2
      <4> QED
        BY <3>1, <3>2, <4>1, <4>2 DEF PairsRead
    <3>4. Layout(text, msg, start, TRUE)'
      BY <2>2, <3>1 DEF Layout, Segment, Holds
    <3> QED
      BY <2>2, <3>1, <3>3, <3>4 DEF MessageInv
  <2>7. CASE PutKeyless
    <3>1. /\ pc = "reading" /\ ~Blank(key) /\ Blank(value) /\ sourceCp_p' = Rest
          /\ pairs' = Append(pairs, <<NoKey, key[1]>>)
          /\ UNCHANGED <<text, sent, underrun, pc>>
      BY <2>7 DEF PutKeyless
    <3>2. Len(pairs) < Len(msg) /\ <<NoKey, key[1]>> = msg[Len(pairs) + 1]
      BY <2>1, <3>1, TurnInMessage
    <3>3. ~underrun
      BY <2>2, <3>1 DEF PairsRead
    <3> QED
      BY <2>1, <3>1, <3>2, <3>3, PutInMessage
  <2>8. CASE PutPair
    <3>1. /\ pc = "reading" /\ ~Blank(key) /\ ~Blank(value) /\ sourceCp_p' = Rest
          /\ pairs' = Append(pairs, <<trimWhitespace(key[1]), value[1]>>)
          /\ underrun' = (underrun \/ Underruns(key[1]))
          /\ UNCHANGED <<text, sent, pc>>
      BY <2>8 DEF PutPair
    <3>2. /\ Len(pairs) < Len(msg) /\ ~Underruns(key[1])
          /\ <<trimWhitespace(key[1]), value[1]>> = msg[Len(pairs) + 1]
      BY <2>1, <3>1, TurnInMessage
    <3>3. ~underrun'
      BY <2>2, <3>1, <3>2 DEF PairsRead
    <3> QED
      BY <2>1, <3>1, <3>2, <3>3, PutInMessage
  <2>9. CASE UNCHANGED vars
    <3>1. UNCHANGED <<text, sent, sourceCp_p, pairs, underrun, pc>>
      BY <2>9 DEF vars
    <3>2. (pc = "writing")' => Layout(text, msg, start, FALSE)' /\ (pairs = <<>>)'
      BY <2>2, <3>1 DEF Layout, Segment, Holds
    <3>3. (pc # "writing")' => Layout(text, msg, start, TRUE)'
      BY <2>2, <3>1 DEF Layout, Segment, Holds
    <3>4. (pc # "writing")' => PairsRead(msg, start)'
      BY <2>2, <3>1 DEF PairsRead, Suffix
    <3>5. ReadingFrom(msg, start)'
      BY <2>2, <3>1, <3>2, <3>3, <3>4 DEF ReadingFrom
    <3> QED
      BY <3>5, Zenon DEF MessageInv, ReadingFrom
  <2> QED
    BY <2>4, <2>5, <2>6, <2>7, <2>8, <2>9 DEF Next
<1> QED
  BY <1>1, <1>2

\* What the loop keeps true, for texts and messages of any length.
LEMMA ParseInvAlways == Spec => [](TextInv /\ MessageInv)
  BY InitTextInv, NextTextInv, InitMessageInv, NextMessageInv, PTL DEF Spec

\* What a sender wrote is what assignContent() stores, whatever the number of pairs,
\* the space around keys, the colons in values, and the words without a key.
THEOREM MessageReadBack == Spec => []ReadsBack
<1>1. TextInv /\ MessageInv => ReadsBack
  <2> SUFFICES ASSUME MessageInv, pc = "done", sent # <<>> PROVE pairs = sent[1]
    BY DEF ReadsBack
  <2>1. PICK msg, start : ReadingFrom(msg, start)
    BY MessageInvIs, Zenon
  <2>2. msg \in Seq(Pairs) /\ sent = <<msg>> /\ PairsRead(msg, start)
    BY <2>1 DEF ReadingFrom
  <2>3. /\ pairs \in Seq(Pairs) /\ Len(pairs) <= Len(msg) /\ pairs = SubSeq(msg, 1, Len(pairs))
        /\ ~(Len(pairs) < Len(msg))
    BY <2>2, Zenon DEF PairsRead
  <2>4. Len(pairs) = Len(msg)
    <3>1. Len(msg) \in Nat
      BY <2>2
    <3>2. Len(pairs) \in Nat
      BY <2>3 DEF PairsRead
    <3> QED
      BY <2>3, <3>1, <3>2
  <2>5. SubSeq(msg, 1, Len(msg)) = msg
    BY <2>2
  <2> QED
    BY <2>2, <2>3, <2>4, <2>5
<1> QED
  BY <1>1, ParseInvAlways, PTL

\* trimWhitespace() stays inside its string for every message of a sender, and for
\* every other text unless it has a key of nothing but space.
THEOREM TrimStaysInside == Spec => []InBoundsUnlessBlankKey
<1>1. TextInv /\ MessageInv => InBoundsUnlessBlankKey
  <2> SUFFICES ASSUME TextInv, MessageInv, underrun
               PROVE  sent = <<>> /\ BlankKey(text)
    BY Zenon DEF InBoundsUnlessBlankKey, BlankKey
  <2>1. BlankKey(text)
    BY DEF TextInv, BlankKeyIfUnderrun
  <2>2. ASSUME sent # <<>> PROVE FALSE
    <3>1. PICK msg, start : ReadingFrom(msg, start)
      BY <2>2, MessageInvIs, Zenon
    <3>2. pc # "writing"
      BY DEF TextInv, TextsOK
    <3>3. PairsRead(msg, start)
      BY <3>1, <3>2 DEF ReadingFrom
    <3> QED
      BY <3>3 DEF PairsRead
  <2> QED
    BY <2>1, <2>2
<1> QED
  BY <1>1, ParseInvAlways, PTL
=============================================================================
