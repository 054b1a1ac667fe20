----------------------------- MODULE TopicMatch -----------------------------
(***************************************************************************)
(* matchTopic() of main/mqttHelpers.cpp, the loop that decides whether a   *)
(* topic falls under a subscription filter.  A filter and a topic are the  *)
(* sequences of levels strsep(.., "/\n") cuts them into.  One step is one  *)
(* turn of the loop.                                                       *)
(***************************************************************************)
EXTENDS Integers, TopicFilter

CONSTANTS Filters,  \* values of the match argument
          Topics    \* values of the topic argument

ASSUME ArgumentsOK ==
    /\ \A f \in Filters : f \in LevelSeq
    /\ \A t \in Topics : t \in LevelSeq

VARIABLES match, topic,  \* the arguments
          pos,           \* which level the next strsep() calls return
          result         \* Running, then the value returned: 0 or 1

matchVars == <<match, topic, pos, result>>

Running == -1

MatchInit ==
    /\ match \in Filters
    /\ topic \in Topics
    /\ pos = 1
    /\ result = Running

\* strsep() returns nullptr once the levels are used up.
MatchEnded == pos > Len(match)
TopicEnded == pos > Len(topic)

Return(r) ==
    /\ result' = r
    /\ UNCHANGED <<match, topic, pos>>

\* Mutant of BothEnded: the end of both strings is not noticed.
BothEndedMissed == result = Running /\ MatchEnded /\ TopicEnded /\ UNCHANGED matchVars

\* Mutant of OneEnded: a filter that ends before the topic is a match.
PrefixAccepted ==
    result = Running /\ MatchEnded # TopicEnded /\ Return(IF MatchEnded THEN 1 ELSE 0)

BothEnded == result = Running /\ MatchEnded /\ TopicEnded /\ Return(1)

OneEnded == result = Running /\ MatchEnded # TopicEnded /\ Return(0)

\* The tokens of this turn are compared in the order of the code: "#" first.
AtHash ==
    /\ result = Running /\ ~MatchEnded /\ ~TopicEnded
    /\ match[pos] = "#"
    /\ Return(1)

Differ ==
    /\ result = Running /\ ~MatchEnded /\ ~TopicEnded
    /\ match[pos] # "#"
    /\ match[pos] # topic[pos] /\ match[pos] # "+"
    /\ Return(0)

NextLevel ==
    /\ result = Running /\ ~MatchEnded /\ ~TopicEnded
    /\ match[pos] # "#"
    /\ match[pos] = topic[pos] \/ match[pos] = "+"
    /\ pos' = pos + 1
    /\ UNCHANGED <<match, topic, result>>

MatchNext == BothEnded \/ OneEnded \/ AtHash \/ Differ \/ NextLevel

MatchSpec == MatchInit /\ [][MatchNext]_matchVars /\ WF_matchVars(MatchNext)

-----------------------------------------------------------------------------
(* Properties *)

\* matchTopic() returns 1 exactly for the topics the filter stands for.
MatchIsRight == result # Running => (result = 1 <=> Matches(match, topic))

\* The loop ends on every pair of arguments: neither strsep() runs on past
\* the end of its string.
MatchReturns == <>(result # Running)
=============================================================================
