------------------------------ MODULE Payload ------------------------------
(***************************************************************************)
(* main/buffer.cpp, assignContent(): the loop that cuts a payload such as  *)
(* "state:on,forMs:3600000" into pairs with strsep(), and trimWhitespace() *)
(* of main/flatmap.c, through which each key passes on its way into the    *)
(* child map.  A text is a sequence of pieces: the two separators, spaces, *)
(* and words that contain none of them.                                    *)
(*                                                                         *)
(* A char* that may be NULL is a sequence of at most one text: <<>> is     *)
(* NULL, << <<>> >> the empty string.                                      *)
(***************************************************************************)
EXTENDS Naturals, Sequences, FiniteSets, FiniteSetsExt, SequencesExt

CONSTANTS Words,        \* pieces of text without a separator
          MaxPairs,     \* pairs of the messages that are written and read back
          MaxPieces     \* pieces of the arbitrary texts

Colon == ":"
Comma == ","
Space == " "
NoKey == <<"no_key">>

ASSUME ConstantsOK ==
    /\ Words \cap {Colon, Comma, Space} = {}
    /\ MaxPairs \in Nat /\ MaxPieces \in Nat

\* What a sender writes: pairs, whose values may hold a colon as times do, and
\* words without a key.
Keys == {<<w>> : w \in Words} \ {NoKey}
Values == {<<w>> : w \in Words} \cup {<<w, Colon, w>> : w \in Words}
Pairs == (Keys \X Values) \cup ({NoKey} \X {<<w>> : w \in Words})

Texts == UNION {[1..n -> Words \cup {Colon, Comma, Space}] : n \in 0..MaxPieces}

VARIABLES text,       \* the payload
          sent,       \* the message it is written from: at most one
          sourceCp_p, \* what is left of it, or NULL
          pairs,      \* what was put into the child map, in this order
          underrun,   \* trimWhitespace() read, and perhaps wrote, before a key
          pc          \* the text is being written, being read, or the loop was left

vars == <<text, sent, sourceCp_p, pairs, underrun, pc>>

\* The text comes from a sender who writes a message, or is any text.
Init ==
    /\ \/ sent = << <<>> >> /\ text = <<>>
       \/ sent = <<>> /\ text \in Texts
    /\ sourceCp_p = <<>>
    /\ pairs = <<>>
    /\ underrun = FALSE
    /\ pc = "writing"

\* The sender writes one more pair.  A key may have space around it, and a word
\* without a key has an empty value.
Pads == {<<>>, <<Space>>}
Written(pair, pad) == IF pair[1] = NoKey THEN pair[2] \o <<Colon>>
                      ELSE pad \o pair[1] \o pad \o <<Colon>> \o pair[2]
Write(pair, pad) ==
    /\ pc = "writing"
    /\ sent # <<>> /\ Len(sent[1]) < MaxPairs
    /\ sent' = <<Append(sent[1], pair)>>
    /\ text' = IF sent[1] = <<>> THEN Written(pair, pad)
               ELSE text \o <<Comma>> \o Written(pair, pad)
    /\ UNCHANGED <<sourceCp_p, pairs, underrun, pc>>

\* assignContent() gets the text and copies it.  Of a message that ends in a
\* word without a key, the last colon may be missing.
Shortened(t) == IF t # <<>> /\ Last(t) = Colon THEN Front(t) ELSE t
Call ==
    /\ pc = "writing"
    /\ text' \in IF sent = <<>> THEN {text} ELSE {text, Shortened(text)}
    /\ sourceCp_p' = <<text'>>
    /\ pc' = "reading"
    /\ UNCHANGED <<sent, pairs, underrun>>

\* strsep(&s, delim): the text before the first delim, and the text behind it;
\* NULL stays NULL, and a text without delim leaves NULL.
At(s, delim) == {i \in 1..Len(s) : s[i] = delim}
Token(p, delim) ==
    IF p = <<>> \/ At(p[1], delim) = {} THEN p
    ELSE <<SubSeq(p[1], 1, Min(At(p[1], delim)) - 1)>>
Behind(p, delim) ==
    IF p = <<>> \/ At(p[1], delim) = {} THEN <<>>
    ELSE <<SubSeq(p[1], Min(At(p[1], delim)) + 1, Len(p[1]))>>

Blank(p) == p \in {<<>>, << <<>> >>}

key == Token(sourceCp_p, Colon)

\* Mutant of value: the value ends at the next colon.
valueToColon == IF Blank(key) THEN <<>> ELSE Token(Behind(sourceCp_p, Colon), Colon)

\* The value is only read behind a key; without one it stays NULL.
value == IF Blank(key) THEN <<>> ELSE Token(Behind(sourceCp_p, Colon), Comma)
Rest == IF Blank(key) THEN Behind(sourceCp_p, Colon)
        ELSE Behind(Behind(sourceCp_p, Colon), Comma)

\* Mutant of Break: a key without a value ends the payload.
BreakAtBareKey ==
    /\ pc = "reading"
    /\ Blank(value)
    /\ pc' = "done"
    /\ sourceCp_p' = Rest
    /\ UNCHANGED <<text, sent, pairs, underrun>>

Break ==
    /\ pc = "reading"
    /\ Blank(key) /\ Blank(value)
    /\ pc' = "done"
    /\ sourceCp_p' = Rest
    /\ UNCHANGED <<text, sent, pairs, underrun>>

PutKeyless ==
    /\ pc = "reading"
    /\ ~Blank(key) /\ Blank(value)
    /\ pairs' = Append(pairs, <<NoKey, key[1]>>)
    /\ sourceCp_p' = Rest
    /\ UNCHANGED <<text, sent, underrun, pc>>

\* trimWhitespace(): the first loop copies the string from its first character
\* that is no space, the second cuts the copy behind its last one.
NonSpace(s) == {i \in 1..Len(s) : s[i] # Space}
FromWord(s) == SubSeq(s, IF NonSpace(s) = {} THEN Len(s) + 1 ELSE Min(NonSpace(s)), Len(s))
trimWhitespace(s) ==
    LET t == FromWord(s) IN IF t = <<>> THEN t ELSE SubSeq(t, 1, Max(NonSpace(t)))

\* Mutant of Underruns: the second loop starts one character too early.
UnderrunsByOne(s) == Len(FromWord(s)) < 2

\* The second loop starts before a string that the first has left empty.
Underruns(s) == FromWord(s) = <<>>

\* Mutant of PutPair: the loop goes on with the text it has just read.
PutPairAgain ==
    /\ pc = "reading"
    /\ ~Blank(key) /\ ~Blank(value)
    /\ pairs' = IF pairs = <<>> THEN <<<<key[1], value[1]>>>> ELSE pairs
    /\ UNCHANGED <<text, sent, sourceCp_p, underrun, pc>>

PutPair ==
    /\ pc = "reading"
    /\ ~Blank(key) /\ ~Blank(value)
    /\ pairs' = Append(pairs, <<trimWhitespace(key[1]), value[1]>>)
    /\ underrun' = (underrun \/ Underruns(key[1]))
    /\ sourceCp_p' = Rest
    /\ UNCHANGED <<text, sent, pc>>

\* The branch for a value without a key (buffer.cpp, line 58) is never taken:
\* a value is only read behind a key.
Next ==
    \/ \E pair \in Pairs, pad \in Pads : Write(pair, pad)
    \/ Call \/ Break \/ PutKeyless \/ PutPair

\* The loop runs on; nobody has to write or to send.
Spec == Init /\ [][Next]_vars /\ WF_vars(Break \/ PutKeyless \/ PutPair)

-----------------------------------------------------------------------------
(* Properties *)

\* What a sender wrote is what the buffer stores: pairs in their order, so that
\* of two values for one key the later wins, under keys without the space around
\* them, and words without a key under "no_key", whether or not the last of them
\* has its colon.
ReadsBack == pc = "done" /\ sent # <<>> => pairs = sent[1]

\* Whatever the text: nothing is dropped in silence except what stands behind
\* an empty key, a colon at the beginning or right behind a comma.
DropsOnlyBehindEmptyKey ==
    pc = "done" /\ sourceCp_p # <<>> =>
        LET at == Len(text) - Len(sourceCp_p[1])
        IN  text[at] = Colon /\ (at = 1 \/ text[at - 1] = Comma)

\* trimWhitespace() stays inside its string unless the text has a key of nothing
\* but space, at its beginning or behind a comma: no message of a sender has one.
InBoundsUnlessBlankKey ==
    underrun =>
        /\ sent = <<>>
        /\ \E i, j \in 1..Len(text) :
              /\ i <= j /\ NonSpace(SubSeq(text, i, j)) = {}
              /\ i = 1 \/ text[i - 1] = Comma
              /\ j < Len(text) /\ text[j + 1] = Colon

\* assignContent's loop, while(1), ends for every text.
LoopEnds == pc = "reading" ~> pc = "done"
=============================================================================
