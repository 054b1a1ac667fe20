---------------------------- MODULE AtomicStore ----------------------------
(***************************************************************************)
(* What main/buffer.h promises its callers: a store of the latest values   *)
(* per topic on which every mqttBuffer_put and every mqttBuffer_getMatching *)
(* takes effect at one instant between its call and its return.  A message *)
(* is merged into what the topic already holds.                            *)
(*                                                                         *)
(* The promise is void once two tasks met in the first use of the store:   *)
(* from then on nothing is said ("undefined").                             *)
(***************************************************************************)
EXTENDS Naturals, Sequences, TopicFilter

CONSTANTS Tasks, Topics, Filters, Keys, Values, Messages, Times, NoValue

VARIABLES phase,    \* "defined" or "undefined"
          store,    \* what each topic holds
          request,  \* request[t]: the call task t is in
          reply     \* reply[t]: what getMatching will return to t

vars == <<phase, store, request, reply>>

-----------------------------------------------------------------------------
(* What a topic holds, and what a message does to it *)

Blank == [pairs |-> [k \in Keys |-> NoValue], timestamp |-> NoValue]

Entries == [pairs : [Keys -> Values \cup {NoValue}], timestamp : Times \cup {NoValue}]

\* The last value a message has for a key; the old value if it has none.
Merged(old, msg) ==
    [k \in Keys |->
        LET at == {i \in 1..Len(msg) : msg[i][1] = k}
        IN  IF at = {} THEN old[k]
            ELSE msg[CHOOSE i \in at : \A j \in at : j <= i][2]]

\* A topic without a timestamp has never been written.
Snapshot(st, f) ==
    [tp \in Topics |-> IF Matches(f, tp) THEN st[tp] ELSE Blank]

-----------------------------------------------------------------------------
(* Calls *)

Idle == [op |-> "idle"]
PutRequests == [op : {"put"}, topic : Topics, msg : Messages]
GetRequests == [op : {"getMatching"}, filter : Filters]

Nothing == [tp \in Topics |-> Blank]

Init ==
    /\ phase = "defined"
    /\ store = Nothing
    /\ request = [t \in Tasks |-> Idle]
    /\ reply = [t \in Tasks |-> Nothing]

Call(t, r) ==
    /\ phase = "defined"
    /\ request[t] = Idle
    /\ request' = [request EXCEPT ![t] = r]
    /\ UNCHANGED <<phase, store, reply>>

Put(t) ==
    /\ phase = "defined"
    /\ request[t].op = "put"
    /\ \E time \in Times :
          store' = [store EXCEPT ![request[t].topic] =
                       [pairs |-> Merged(@.pairs, request[t].msg), timestamp |-> time]]
    /\ request' = [request EXCEPT ![t] = [op |-> "done"]]
    /\ UNCHANGED <<phase, reply>>

Get(t) ==
    /\ phase = "defined"
    /\ request[t].op = "getMatching"
    /\ reply' = [reply EXCEPT ![t] = Snapshot(store, request[t].filter)]
    /\ request' = [request EXCEPT ![t] = [op |-> "done"]]
    /\ UNCHANGED <<phase, store>>

Return(t) ==
    /\ phase = "defined"
    /\ request[t].op = "done"
    /\ request' = [request EXCEPT ![t] = Idle]
    /\ reply' = [reply EXCEPT ![t] = Nothing]
    /\ UNCHANGED <<phase, store>>

MeetInFirstUse ==
    /\ phase = "defined"
    /\ phase' = "undefined"

Undefined == phase = "undefined" /\ UNCHANGED phase

Next ==
    \/ \E t \in Tasks, r \in PutRequests \cup GetRequests : Call(t, r)
    \/ \E t \in Tasks : Put(t) \/ Get(t) \/ Return(t)
    \/ MeetInFirstUse
    \/ Undefined

Spec == Init /\ [][Next]_vars
=============================================================================
