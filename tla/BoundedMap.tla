----------------------------- MODULE BoundedMap -----------------------------
(***************************************************************************)
(* What flatmap.h promises, and how far: a map from keys to contents that  *)
(* is created, filled and freed, and that holds at most Capacity keys.     *)
(* Storing one key more has no defined meaning.                            *)
(***************************************************************************)
EXTENDS Naturals, FiniteSets

CONSTANTS Words,     \* the keys, free of surrounding whitespace
          Contents,  \* what can be stored under a key
          Capacity   \* number of keys a map holds

VARIABLES phase,     \* "null" before creation and after Free, "live", "undefined"
          store      \* the map: a function on the keys that are present

vars == <<phase, store>>

Empty == [w \in {} |-> w]

Init == phase = "null" /\ store = Empty

Create ==
    /\ phase = "null"
    /\ phase' = "live"
    /\ store' = Empty

\* The latest content put under a key replaces the earlier one.
Put(w, c) ==
    /\ phase = "live"
    /\ w \in DOMAIN store \/ Cardinality(DOMAIN store) < Capacity
    /\ store' = [x \in DOMAIN store \cup {w} |-> IF x = w THEN c ELSE store[x]]
    /\ UNCHANGED phase

Overflow ==
    /\ phase = "live"
    /\ Cardinality(DOMAIN store) = Capacity
    /\ phase' = "undefined"
    /\ UNCHANGED store

Free ==
    /\ phase = "live"
    /\ phase' = "null"
    /\ store' = Empty

Next ==
    \/ Create
    \/ \E w \in Words, c \in Contents : Put(w, c)
    \/ Overflow
    \/ Free

Spec == Init /\ [][Next]_vars
=============================================================================
