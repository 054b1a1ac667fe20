---------------------------- MODULE MCTopicMatch ----------------------------
(* Every filter and topic of up to three levels, over two names.           *)
EXTENDS TopicMatch

CONSTANTS Names, MaxLevels

NonEmptySeqs(S) == UNION {[1..n -> S] : n \in 1..MaxLevels}
MCFilters == NonEmptySeqs(Names \cup {"+", "#"})
MCTopics == NonEmptySeqs(Names)
=============================================================================
