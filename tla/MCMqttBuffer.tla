---------------------------- MODULE MCMqttBuffer ----------------------------
(* Two topics of the house, a filter for both and one for a single topic,  *)
(* a message of two pairs and one that touches only the first key.         *)
EXTENDS MqttBuffer

Override == <<"heating", "override">>
State == <<"heating", "state">>

MCTopics == {Override, State}
MCFilters == {<<"heating", "+">>, State}
MCMessages == {<<<<"state", "on">>, <<"forMs", "hour">>>>, <<<<"state", "off">>>>}
\* Once two tasks met in the first use, the properties promise nothing: from
\* there on only the ways to fail before the first entry are explored.
Explored == overlapped => slots = <<>>
=============================================================================
