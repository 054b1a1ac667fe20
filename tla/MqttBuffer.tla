----------------------------- MODULE MqttBuffer -----------------------------
(***************************************************************************)
(* main/buffer.cpp: the store of the latest message per topic, shared by   *)
(* the mqtt client's task and the application's tasks.  Every public       *)
(* function calls initialize() first, which creates the map and the mutex  *)
(* on the first use; nothing protects that first use itself.               *)
(*                                                                         *)
(* A step is what a task does between two points where another task can    *)
(* run and notice: a test or an assignment of the shared variables, one    *)
(* key written by assignContent(), one topic copied by getMatching().      *)
(* Within its capacity a MapInfo is a map (module FlatMap), so the topics  *)
(* are kept as the order of their slots plus what each one holds; the      *)
(* payload's text is the sequence of pairs that module Payload reads from  *)
(* it, a word without a key being a pair with the key "no_key".            *)
(***************************************************************************)
EXTENDS Naturals, Sequences, FiniteSets, TopicFilter

CONSTANTS Tasks,     \* the tasks that use the buffer
          Topics,    \* topics that are ever published or received
          Filters,   \* arguments of mqttBuffer_getMatching
          Keys,      \* keys of the payloads, other than "timestamp"
          Values,    \* values of the payloads
          Messages,  \* payloads: sequences of <<key, value>> pairs
          MaxTime,   \* millis() counts up to MaxTime and starts again at 0
          NoValue,   \* what is read for a key that is not there
          NoTask     \* the holder of a free mutex

ASSUME ConstantsOK ==
    /\ Topics \subseteq LevelSeq /\ Filters \subseteq LevelSeq
    /\ Messages \subseteq Seq(Keys \X Values)
    /\ MaxTime \in Nat
    /\ NoValue \notin 0..MaxTime   \* NULL is no text
    /\ IsFiniteSet(Tasks)
    /\ NoTask \notin Tasks

\* More would make flatmap_put() grow its array (FlatMap!EntriesFitAllocation).
ASSUME FitsInFlatMap == Cardinality(Topics) <= 16 /\ Cardinality(Keys) <= 15

VARIABLES initialized, \* the flag initialize() tests
          mapExists,   \* mapInfo.entries # NULL
          mutex,       \* the handle in the variable mutex; 0 is NULL
          holder,      \* holder[h]: the task that took the mutex with handle h
          slots,       \* keys of mapInfo.entries[0 .. entriesLen - 1]
          content,     \* what the child map of each topic holds
          now,         \* what millis() returns
          pc,          \* pc[t]: the next step of task t
          call,        \* call[t]: the function t is in and its arguments
          pos,         \* pos[t]: position of t's loop over pairs or slots
          mapCopy,     \* mapCopy[t]: the caller's map that getMatching fills
          failed,      \* the assertion that stopped the program, or "none"
          committed,   \* history: content when a put last completed it
          overlapped   \* history: two tasks were in the first use at once

vars == <<initialized, mapExists, mutex, holder, slots, content, now, pc, call, pos,
          mapCopy, failed, committed, overlapped>>

Times == 0..MaxTime
Handles == 1..Cardinality(Tasks)

Blank == [pairs |-> [k \in Keys |-> NoValue], timestamp |-> NoValue]
Nothing == [tp \in Topics |-> Blank]

Idle == [op |-> "idle"]
Display == [op |-> "display"]
PutCalls == [op : {"put"}, topic : Topics, msg : Messages]
GetCalls == [op : {"getMatching"}, filter : Filters]

Init ==
    /\ initialized = FALSE
    /\ mapExists = FALSE
    /\ mutex = 0
    /\ holder = [h \in Handles |-> NoTask]
    /\ slots = <<>>
    /\ content = Nothing
    /\ now = 0
    /\ pc = [t \in Tasks |-> "idle"]
    /\ call = [t \in Tasks |-> Idle]
    /\ pos = [t \in Tasks |-> 1]
    /\ mapCopy = [t \in Tasks |-> Nothing]
    /\ failed = "none"
    /\ committed = Nothing
    /\ overlapped = FALSE

\* Task t goes from its step a to its step b.
Goto(t, a, b) ==
    /\ failed = "none"
    /\ pc[t] = a
    /\ pc' = [pc EXCEPT ![t] = b]

\* An assertion of buffer.cpp, flatmap.c or FreeRTOS stops the program.
Abort(t, a, why) ==
    /\ Goto(t, a, a)
    /\ failed' = why

-----------------------------------------------------------------------------
(* initialize() *)

\* Task t enters mqttBuffer_put or mqttBuffer_getMatching.
Enter(t, c) ==
    /\ Goto(t, "idle", "test")
    /\ call' = [call EXCEPT ![t] = c]
    /\ pos' = [pos EXCEPT ![t] = 1]
    /\ UNCHANGED <<initialized, mapExists, mutex, holder, slots, content, now, mapCopy,
                   failed, committed, overlapped>>

InFirstUse(t) == pc[t] \in {"set", "reset", "initmap", "create"}

\* The test of the flag.  Whoever gets past it while another task is still at
\* work in initialize() overlaps with that task's first use.
TestInitialized(t) ==
    /\ Goto(t, "test", IF initialized THEN "take" ELSE "set")
    /\ overlapped' = (overlapped \/ \E u \in Tasks \ {t} : InFirstUse(u))
    /\ UNCHANGED <<initialized, mapExists, mutex, holder, slots, content, now, call, pos,
                   mapCopy, failed, committed>>

SetInitialized(t) ==
    /\ Goto(t, "set", "reset")
    /\ initialized' = TRUE
    /\ UNCHANGED <<mapExists, mutex, holder, slots, content, now, call, pos, mapCopy,
                   failed, committed, overlapped>>

ResetMap(t) ==
    /\ Goto(t, "reset", "initmap")
    /\ mapExists' = FALSE
    /\ slots' = <<>>
    /\ content' = Nothing
    /\ UNCHANGED <<initialized, mutex, holder, now, call, pos, mapCopy, failed, committed,
                   overlapped>>

\* flatmap_init() asserts that the map has no entries yet.
InitMap(t) ==
    /\ IF mapExists
       THEN Abort(t, "initmap", "MapInfo not empty.") /\ UNCHANGED mapExists
       ELSE Goto(t, "initmap", "create") /\ mapExists' = TRUE /\ UNCHANGED failed
    /\ UNCHANGED <<initialized, mutex, holder, slots, content, now, call, pos, mapCopy,
                   committed, overlapped>>

CreateMutex(t) ==
    /\ Goto(t, "create", "take")
    /\ mutex' = mutex + 1
    /\ UNCHANGED <<initialized, mapExists, holder, slots, content, now, call, pos, mapCopy,
                   failed, committed, overlapped>>

-----------------------------------------------------------------------------
(* The mutex *)

\* Where a function continues once it has the mutex.  Displaying only reads.
Body(op) == CASE op = "put" -> "slot"
              [] op = "getMatching" -> "copy"
              [] op = "display" -> "give"

\* Mutant of Take: the result of a take that timed out is not looked at.
TakeWithoutWaiting(t) ==
    /\ mutex # 0
    /\ Goto(t, "take", Body(call[t].op))
    /\ holder' = [holder EXCEPT ![mutex] = t]
    /\ UNCHANGED <<initialized, mapExists, mutex, slots, content, now, call, pos, mapCopy,
                   failed, committed, overlapped>>

\* xSemaphoreTake(mutex, portMAX_DELAY): waits for a free mutex; taking NULL
\* is an assertion failure in FreeRTOS.
Take(t) ==
    /\ \/ /\ mutex = 0
          /\ Abort(t, "take", "NULL mutex")
          /\ UNCHANGED holder
       \/ /\ mutex # 0
          /\ holder[mutex] = NoTask
          /\ Goto(t, "take", Body(call[t].op))
          /\ holder' = [holder EXCEPT ![mutex] = t]
          /\ UNCHANGED failed
    /\ UNCHANGED <<initialized, mapExists, mutex, slots, content, now, call, pos, mapCopy,
                   committed, overlapped>>

\* Mutant of Give: getMatching returns without giving the mutex back.
GiveForgotten(t) ==
    /\ Goto(t, "give", IF call[t].op = "put" THEN "test" ELSE "idle")
    /\ holder' = IF call[t].op = "getMatching" THEN holder
                 ELSE [holder EXCEPT ![mutex] = NoTask]
    /\ call' = [call EXCEPT ![t] = IF @.op = "put" THEN Display ELSE Idle]
    /\ mapCopy' = [mapCopy EXCEPT ![t] = Nothing]
    /\ UNCHANGED <<initialized, mapExists, mutex, slots, content, now, pos, failed,
                   committed, overlapped>>

\* xSemaphoreGive(mutex), and what follows it: mqttBuffer_put goes on to
\* display everything, the others return to their caller.  Giving a mutex that
\* is free has no effect; giving one that another task holds fails.
Give(t) ==
    /\ pc[t] = "give"
    /\ IF holder[mutex] \in {t, NoTask}
       THEN /\ Goto(t, "give", IF call[t].op = "put" THEN "test" ELSE "idle")
            /\ holder' = [holder EXCEPT ![mutex] = NoTask]
            /\ call' = [call EXCEPT ![t] = IF @.op = "put" THEN Display ELSE Idle]
            /\ mapCopy' = [mapCopy EXCEPT ![t] = Nothing]
            /\ UNCHANGED failed
       ELSE /\ Abort(t, "give", "not the holder")
            /\ UNCHANGED <<holder, call, mapCopy>>
    /\ UNCHANGED <<initialized, mapExists, mutex, slots, content, now, pos, committed,
                   overlapped>>

-----------------------------------------------------------------------------
(* mqttBuffer_put *)

HasSlot(tp) == \E i \in 1..Len(slots) : slots[i] = tp

\* Mutant of PutSlot: assignContent makes a new child map for every message.
PutSlotFresh(t) ==
    LET tp == call[t].topic
    IN  /\ mapExists
        /\ Goto(t, "slot", "pair")
        /\ slots' = IF HasSlot(tp) THEN slots ELSE Append(slots, tp)
        /\ content' = [content EXCEPT ![tp] = Blank]
        /\ UNCHANGED <<initialized, mapExists, mutex, holder, now, call, pos, mapCopy,
                       failed, committed, overlapped>>

\* flatmap_put() finds or makes the topic's entry; for a new one assignContent
\* starts from an empty child map.  A map that initialize() has reset meanwhile
\* has no entry to write to.
PutSlot(t) ==
    LET tp == call[t].topic
    IN  /\ IF mapExists
           THEN /\ Goto(t, "slot", "pair")
                /\ slots' = IF HasSlot(tp) THEN slots ELSE Append(slots, tp)
                /\ content' = IF HasSlot(tp) THEN content
                              ELSE [content EXCEPT ![tp] = Blank]
                /\ UNCHANGED failed
           ELSE /\ Abort(t, "slot", "NULL entries")
                /\ UNCHANGED <<slots, content>>
        /\ UNCHANGED <<initialized, mapExists, mutex, holder, now, call, pos, mapCopy,
                       committed, overlapped>>

\* One turn of assignContent's loop: the pair is put into the child map.
PutPair(t) ==
    LET msg == call[t].msg
    IN  /\ Goto(t, "pair", "pair")
        /\ pos[t] <= Len(msg)
        /\ content' = [content EXCEPT ![call[t].topic].pairs[msg[pos[t]][1]] = msg[pos[t]][2]]
        /\ pos' = [pos EXCEPT ![t] = @ + 1]
        /\ UNCHANGED <<initialized, mapExists, mutex, holder, slots, now, call, mapCopy,
                       failed, committed, overlapped>>

\* Mutant of PutStamp: a payload with pairs of its own is not stamped.
PutUnstamped(t) ==
    /\ Goto(t, "pair", "give")
    /\ pos[t] > Len(call[t].msg)
    /\ content' = IF call[t].msg = <<>>
                  THEN [content EXCEPT ![call[t].topic].timestamp = now] ELSE content
    /\ committed' = content'
    /\ UNCHANGED <<initialized, mapExists, mutex, holder, slots, now, call, pos, mapCopy,
                   failed, overlapped>>

\* The payload is used up: the time goes in last.
PutStamp(t) ==
    /\ Goto(t, "pair", "give")
    /\ pos[t] > Len(call[t].msg)
    /\ content' = [content EXCEPT ![call[t].topic].timestamp = now]
    /\ committed' = content'
    /\ UNCHANGED <<initialized, mapExists, mutex, holder, slots, now, call, pos, mapCopy,
                   failed, overlapped>>

-----------------------------------------------------------------------------
(* mqttBuffer_getMatching *)

\* One turn of the loop over the entries, which copies a matching one whole.
CopyEntry(t) ==
    /\ pos[t] <= Len(slots)
    /\ Goto(t, "copy", "copy")
    /\ mapCopy' = IF Matches(call[t].filter, slots[pos[t]])
                  THEN [mapCopy EXCEPT ![t][slots[pos[t]]] = content[slots[pos[t]]]]
                  ELSE mapCopy
    /\ pos' = [pos EXCEPT ![t] = @ + 1]
    /\ UNCHANGED <<initialized, mapExists, mutex, holder, slots, content, now, call, failed,
                   committed, overlapped>>

CopyEnded(t) ==
    /\ pos[t] > Len(slots)
    /\ Goto(t, "copy", "give")
    /\ UNCHANGED <<initialized, mapExists, mutex, holder, slots, content, now, call, pos,
                   mapCopy, failed, committed, overlapped>>

-----------------------------------------------------------------------------
(* Time, and the system *)

\* Mutant of Tick: the counter is wider than the type it is stored in.
TickUnwrapped ==
    /\ failed = "none"
    /\ now' = now + 1
    /\ UNCHANGED <<initialized, mapExists, mutex, holder, slots, content, pc, call, pos,
                   mapCopy, failed, committed, overlapped>>

Tick ==
    /\ failed = "none"
    /\ now' = (now + 1) % (MaxTime + 1)
    /\ UNCHANGED <<initialized, mapExists, mutex, holder, slots, content, pc, call, pos,
                   mapCopy, failed, committed, overlapped>>

Step(t) ==
    \/ TestInitialized(t) \/ SetInitialized(t) \/ ResetMap(t) \/ InitMap(t) \/ CreateMutex(t)
    \/ Take(t) \/ Give(t)
    \/ PutSlot(t) \/ PutPair(t) \/ PutStamp(t)
    \/ CopyEntry(t) \/ CopyEnded(t)

Next ==
    \/ \E t \in Tasks :
          \/ \E c \in PutCalls \cup GetCalls : Enter(t, c)
          \/ Step(t)
    \/ Tick

Fairness == \A t \in Tasks : WF_vars(Step(t)) /\ SF_vars(Take(t))

Spec == Init /\ [][Next]_vars /\ Fairness

-----------------------------------------------------------------------------
(* Properties *)

Steps == {"idle", "test", "set", "reset", "initmap", "create", "take", "slot", "pair",
          "copy", "give"}
Entries == [pairs : [Keys -> Values \cup {NoValue}], timestamp : Times \cup {NoValue}]

\* The variables of buffer.cpp hold what their types allow, and each task is at
\* a step of the function it is in.
TypeOK ==
    /\ initialized \in BOOLEAN /\ mapExists \in BOOLEAN /\ overlapped \in BOOLEAN
    /\ mutex \in Nat
    /\ holder \in [Handles -> Tasks \cup {NoTask}]
    /\ slots \in Seq(Topics)
    /\ content \in [Topics -> Entries] /\ committed \in [Topics -> Entries]
    /\ now \in Times
    /\ pc \in [Tasks -> Steps]
    /\ call \in [Tasks -> {Idle, Display} \cup PutCalls \cup GetCalls]
    /\ pos \in [Tasks -> Nat]
    /\ mapCopy \in [Tasks -> [Topics -> Entries]]
    /\ failed \in {"none", "MapInfo not empty.", "NULL mutex", "NULL entries", "not the holder"}
    /\ \A t \in Tasks :
          /\ pc[t] \in {"slot", "pair"} => call[t].op = "put"
          /\ pc[t] = "copy" => call[t].op = "getMatching"
          /\ pc[t] = "idle" <=> call[t] = Idle

InBody(t) == pc[t] \in {"slot", "pair", "copy", "give"}

\* As long as no two tasks met in the first use of the buffer, at most one of
\* them is between xSemaphoreTake and xSemaphoreGive, and it is the holder.
OneTaskInside ==
    ~overlapped => \A t \in Tasks : InBody(t) => mutex # 0 /\ holder[mutex] = t

\* No assertion of the buffer, its map or its mutex fails unless two tasks met
\* in the first use: initialize() is the only place that can go wrong.
FailsOnlyInFirstUse == failed # "none" => overlapped

\* Whatever a snapshot holds of a topic carries a timestamp: its readers
\* dereference the "timestamp" entry without a test (menu.cpp, updateButton1).
SnapshotsStamped ==
    \A t \in Tasks :
        ~overlapped /\ pc[t] = "give" /\ call[t].op = "getMatching" =>
            \A tp \in Topics : mapCopy[t][tp] # Blank => mapCopy[t][tp].timestamp # NoValue

\* The buffer implements the atomic store: a put takes effect when it writes
\* the timestamp, a getMatching when its loop ends.
TookEffect(t) == \/ call[t].op = "display"
                 \/ call[t].op \in {"put", "getMatching"} /\ pc[t] = "give"
Request(t) == IF TookEffect(t) THEN [op |-> "done"] ELSE call[t]
Reply(t) == IF call[t].op = "getMatching" /\ pc[t] = "give" THEN mapCopy[t] ELSE Nothing

Phase == IF overlapped THEN "undefined" ELSE "defined"
Requests == [t \in Tasks |-> Request(t)]
Replies == [t \in Tasks |-> Reply(t)]
Store == INSTANCE AtomicStore WITH
             phase <- Phase, store <- committed, request <- Requests, reply <- Replies
ImplementsStore == Store!Spec

\* Every call of the buffer returns: no task keeps the mutex, and none waits
\* for it for ever.
CallsReturn == \A t \in Tasks : pc[t] # "idle" ~> (pc[t] = "idle" \/ overlapped)

\* The assertions of buffer.cpp, of flatmap.c and of FreeRTOS hold.
NoAssertionFails == failed = "none"
=============================================================================
