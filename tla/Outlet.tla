------------------------------- MODULE Outlet -------------------------------
(***************************************************************************)
(* OutletKankun of main/outlet.cpp: asks a relay for its state over HTTP,  *)
(* publishes that state on its topic, and answers getState() from what was *)
(* published last.  loopTask15sec and loopTask30min both call getState(),  *)
(* which serialises them with a mutex only up to the point where it goes   *)
(* on to read the buffer.                                                  *)
(*                                                                         *)
(* Times are kept in a counter of 32 bits that starts again at 0: millis() *)
(* is the true uptime modulo Wrap, and so is every sum of times.  The      *)
(* relay answers a request with its state at that moment (external).  Its  *)
(* answer takes its time: HttpRequest::writeData() compares each piece of  *)
(* the body with "ON", and publish() reads the clock once the last piece   *)
(* is there.  A request that fails makes HttpRequest::get() assert, which  *)
(* restarts the device.  The buffer's operations are one step each (module *)
(* MqttBuffer).                                                            *)
(***************************************************************************)
EXTENDS Naturals, Sequences

CONSTANTS Callers,      \* tasks that call getState()
          Fresh,        \* 5000 ms in getState()
          Interval,     \* PUBLISH_INTERVAL, 10 minutes
          MaxTransfer,  \* bound on the time from the relay's answer to its publication
          Wrap,         \* 2^32
          MaxUptime,    \* bound on the uptime
          None,         \* nothing published yet
          NoTask        \* the holder of a free mutex

ASSUME ConstantsOK ==
    /\ {Fresh, Interval, MaxTransfer, Wrap, MaxUptime} \subseteq Nat
    /\ 0 < Fresh /\ Fresh < Interval /\ Interval < Wrap
    /\ NoTask \notin Callers /\ None \notin BOOLEAN

VARIABLES relay,             \* whether the relay is on
          uptime,            \* true time since the device started
          lastPublishTime, lastPublishState,
          mutex,             \* who holds it
          buffered,          \* "state" of the outlet's topic in the buffer
          pc,                \* pc[t]: the next step of caller t
          fetched,           \* match.result
          answered,          \* history: the relay's last answer, if it came in one piece
          answeredAt,        \* history: true time of the relay's last answer
          publishedAt,       \* history: true time of lastPublishTime
          confirmedAt        \* history: true time of the answer that buffered reflects

last == <<lastPublishTime, lastPublishState, publishedAt>>
request == <<fetched, answered, answeredAt>>
store == <<buffered, confirmedAt>>
vars == <<relay, uptime, last, mutex, store, pc, request>>

\* Mutant of millis: the time is not cut to the width of the variables it is
\* stored in.
UptimeUncut == uptime

millis == uptime % Wrap

\* What the constructors leave: lastPublishState is not initialised.
Init ==
    /\ lastPublishTime = 0
    /\ lastPublishState \in BOOLEAN
    /\ mutex = NoTask
    /\ buffered = None
    /\ fetched = FALSE /\ answered = None
    /\ relay \in BOOLEAN
    /\ uptime = 0
    /\ pc = [t \in Callers |-> "idle"]
    /\ answeredAt = 0 /\ publishedAt = 0 /\ confirmedAt = 0

Goto(t, a, b) ==
    /\ pc[t] = a
    /\ pc' = [pc EXCEPT ![t] = b]

-----------------------------------------------------------------------------
(* getState *)

Call(t) ==
    /\ Goto(t, "idle", "take")
    /\ UNCHANGED <<relay, uptime, last, mutex, store, request>>

\* Mutant of Due: the interval between publications is used for the cache.
DueAfterInterval == lastPublishTime = 0 \/ (lastPublishTime + Interval) % Wrap < millis

Due == lastPublishTime = 0 \/ (lastPublishTime + Fresh) % Wrap < millis

Take(t) ==
    /\ mutex = NoTask
    /\ mutex' = t
    /\ Goto(t, "take", IF Due THEN "fetch" ELSE "give")
    /\ UNCHANGED <<relay, uptime, last, store, request>>

\* Mutants of Publishes, each without one of its alternatives.
PublishesWhenKnown(state) ==
    \/ lastPublishState # state
    \/ (lastPublishTime + Interval) % Wrap < millis
PublishesChanges(state) == lastPublishState # state \/ lastPublishTime = 0

\* The condition under which publish() publishes state.
Publishes(state) ==
    \/ lastPublishState # state
    \/ lastPublishTime = 0
    \/ (lastPublishTime + Interval) % Wrap < millis

Body(state) == IF state THEN <<"O", "N", "\n">> ELSE <<"O", "F", "F", "\n">>

\* Mutant of writeData: all of the piece is compared, its line end too.
writeDataAll(piece) == piece = <<"O", "N">>

\* strncmp() of "ON" with all but the last character of a piece.
writeData(piece) ==
    Len(piece) <= 3 /\ \A i \in 1..(Len(piece) - 1) : piece[i] = <<"O", "N">>[i]

\* HttpRequest::get(): the relay answers, and its answer arrives in any number of
\* pieces, of which the last decides the result.
Answer(t) ==
    /\ Goto(t, "fetch", "transfer")
    /\ \E i \in 1..Len(Body(relay)) :
          /\ fetched' = writeData(SubSeq(Body(relay), i, Len(Body(relay))))
          /\ answered' = IF i = 1 THEN relay ELSE None
    /\ answeredAt' = uptime
    /\ UNCHANGED <<relay, uptime, last, mutex, store>>

\* get() has returned: the test in publish().  What is not published confirms what
\* the buffer has.
TestPublish(t) ==
    /\ Goto(t, "transfer", IF Publishes(fetched) THEN "stamp" ELSE "give")
    /\ confirmedAt' = IF Publishes(fetched) THEN confirmedAt ELSE answeredAt
    /\ UNCHANGED <<relay, uptime, last, mutex, buffered, request>>

\* publish() reads the clock for a second time.
Stamp(t) ==
    /\ Goto(t, "stamp", "put")
    /\ lastPublishState' = fetched
    /\ lastPublishTime' = millis
    /\ publishedAt' = uptime
    /\ UNCHANGED <<relay, uptime, mutex, store, request>>

\* mqtt_publish() puts the message in the buffer.
PutState(t) ==
    /\ Goto(t, "put", "give")
    /\ buffered' = lastPublishState
    /\ confirmedAt' = answeredAt
    /\ UNCHANGED <<relay, uptime, last, mutex, request>>

\* Mutant of Give: the mutex is kept when nothing was fetched.
GiveForgotten(t) ==
    /\ Goto(t, "give", "read")
    /\ mutex' = IF confirmedAt = uptime THEN NoTask ELSE mutex
    /\ UNCHANGED <<relay, uptime, last, store, request>>

Give(t) ==
    /\ Goto(t, "give", "read")
    /\ mutex' = NoTask
    /\ UNCHANGED <<relay, uptime, last, store, request>>

\* getMatching() finds the topic, and getState() returns what it holds.
ReadAndReturn(t) ==
    /\ Goto(t, "read", "idle")
    /\ UNCHANGED <<relay, uptime, last, mutex, store, request>>

\* The request fails: the assertion in HttpRequest::get() restarts the device.
FetchFails(t) ==
    /\ pc[t] \in {"fetch", "transfer"}
    /\ lastPublishTime' = 0
    /\ lastPublishState' \in BOOLEAN
    /\ mutex' = NoTask
    /\ buffered' = None
    /\ fetched' = FALSE /\ answered' = None
    /\ pc' = [u \in Callers |-> "idle"]
    /\ uptime' = 0
    /\ answeredAt' = 0 /\ publishedAt' = 0 /\ confirmedAt' = 0
    /\ UNCHANGED relay

-----------------------------------------------------------------------------
(* The outside world *)

\* Time passes at any point, but an answer is there and dealt with in MaxTransfer.
Tick ==
    /\ uptime < MaxUptime
    /\ \A t \in Callers :
          pc[t] \in {"transfer", "stamp"} => uptime < answeredAt + MaxTransfer
    /\ uptime' = uptime + 1
    /\ UNCHANGED <<relay, last, mutex, store, pc, request>>

SwitchRelay ==
    /\ relay' = ~relay
    /\ UNCHANGED <<uptime, last, mutex, store, pc, request>>

Step(t) ==
    \/ Take(t) \/ Answer(t) \/ TestPublish(t) \/ Stamp(t) \/ PutState(t)
    \/ Give(t) \/ ReadAndReturn(t)

Next ==
    \/ \E t \in Callers : Call(t) \/ Step(t) \/ FetchFails(t)
    \/ Tick
    \/ SwitchRelay

Spec == Init /\ [][Next]_vars /\ \A t \in Callers : WF_vars(Step(t)) /\ SF_vars(Take(t))

-----------------------------------------------------------------------------
(* Properties *)

\* Steps between take and give.
Inside == {"fetch", "transfer", "stamp", "put", "give"}

\* The variables have their types, times of the code fit their width, and the
\* caller between take and give is the holder of the mutex.
TypeOK ==
    /\ answered \in BOOLEAN \cup {None}
    /\ relay \in BOOLEAN /\ lastPublishState \in BOOLEAN /\ fetched \in BOOLEAN
    /\ {uptime, answeredAt, publishedAt, confirmedAt} \subseteq 0..MaxUptime
    /\ lastPublishTime \in 0..(Wrap - 1)
    /\ mutex \in Callers \cup {NoTask}
    /\ buffered \in {None, TRUE, FALSE}
    /\ pc \in [Callers -> {"idle", "take", "fetch", "transfer", "stamp", "put", "give", "read"}]
    /\ \A t \in Callers : pc[t] \in Inside <=> mutex = t

\* getState() never reaches its "No outlet found." answer, nor the dereference
\* of a missing "state": by the time it reads the buffer, its topic is there.
StateIsThere == \A t \in Callers : pc[t] = "read" => buffered # None

\* Whenever nobody is inside, the buffer holds the result of the last request, also
\* when that was not published because it had not changed, and the result is the
\* state the relay answered with if the answer came in one piece.
BufferIsLastAnswer ==
    mutex = NoTask /\ buffered # None =>
        buffered = fetched /\ answered \in {fetched, None}

\* How often millis() has started again since time s, in time.
RestartsSince(s) == Wrap * ((uptime \div Wrap) - (s \div Wrap))

\* When getState() does without a request, the relay gave the answer that it returns
\* at most Fresh ago - longer by at most the time from an answer to its publication,
\* and by one turn for each restart of the clock since the last publication.
AnswerIsFresh ==
    [][\A t \in Callers : Take(t) /\ pc'[t] = "give"
          => uptime <= confirmedAt + Fresh + MaxTransfer + RestartsSince(publishedAt)]_vars

\* A call of getState() that publishes nothing comes at most Interval after the last
\* publication, or longer by one turn for each restart of the clock since.
RepublishedInTime ==
    [][\A t \in Callers : (Take(t) \/ TestPublish(t)) /\ pc'[t] = "give"
          => uptime <= publishedAt + Interval + RestartsSince(publishedAt)]_vars

\* Every call of getState() returns, even if the clock stands still: the callers
\* do not wait for each other for ever.
GetStateReturns == \A t \in Callers : pc[t] = "take" ~> pc[t] = "idle"
=============================================================================
