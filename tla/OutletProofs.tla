--------------------------- MODULE OutletProofs ---------------------------
(***************************************************************************)
(* What getState() of main/outlet.cpp relies on, for any number of callers *)
(* and any times: the topic it reads is in the buffer, and holds the       *)
(* result of the last request.                                             *)
(***************************************************************************)
EXTENDS Outlet, Integers, TLAPS

\* The part of TypeOK that the proofs need.
Types ==
    /\ relay \in BOOLEAN /\ lastPublishState \in BOOLEAN /\ fetched \in BOOLEAN
    /\ buffered \in BOOLEAN \cup {None}
    /\ mutex \in Callers \cup {NoTask}
    /\ pc \in [Callers -> {"idle", "take", "fetch", "transfer", "stamp", "put", "give", "read"}]

\* A caller between take and give holds the mutex.
BodyHolds == \A t \in Callers : pc[t] \in Inside <=> mutex = t

\* Unless its publisher is about to put it there: a topic exists if lastPublishTime
\* is not 0, and what exists holds lastPublishState.
Published ==
    (\A t \in Callers : pc[t] # "put") =>
        /\ lastPublishTime # 0 => buffered # None
        /\ buffered # None => buffered = lastPublishState

\* What a caller that has passed update() knows.
AfterUpdate ==
    \A t \in Callers :
        /\ pc[t] = "put" => lastPublishState = fetched
        /\ pc[t] \in {"give", "read"} => buffered # None

\* Outside of a request the buffer holds its result.
Reflects ==
    (\A t \in Callers : pc[t] \notin {"transfer", "stamp", "put"}) /\ buffered # None
        => buffered = fetched

\* An answer in one piece is understood.
Understood == answered \in {fetched, None}

IInv == Types /\ BodyHolds /\ Published /\ AfterUpdate /\ Reflects /\ Understood

\* Every comparison of a piece has an outcome.
LEMMA PieceOutcome == ASSUME NEW p PROVE writeData(p) \in BOOLEAN
  BY DEF writeData

\* A whole piece "ON\n" matches.
LEMMA OnMatches ==
    ASSUME NEW s, s = <<"O", "N", "\n">>
    PROVE  writeData(SubSeq(s, 1, Len(s)))
<1> DEFINE p == SubSeq(s, 1, Len(s))
<1>1. s \in Seq({"O", "N", "\n"}) /\ Len(s) = 3 /\ s[1] = "O" /\ s[2] = "N"
  OBVIOUS
<1>2. Len(p) = 3 /\ p[1] = "O" /\ p[2] = "N"
  BY <1>1
<1>3. <<"O", "N">>[1] = "O" /\ <<"O", "N">>[2] = "N"
  OBVIOUS
<1> HIDE DEF p
<1>4. Len(p) <= 3 /\ \A i \in 1..(Len(p) - 1) : i = 1 \/ i = 2
  BY <1>2
<1>5. \A i \in 1..(Len(p) - 1) : p[i] = <<"O", "N">>[i]
  BY <1>2, <1>3, <1>4, Zenon
<1>6. writeData(p)
  BY <1>4, <1>5, Zenon DEF writeData
<1> QED
  BY <1>6 DEF p

\* A whole piece "OFF\n" does not.
LEMMA OffDiffers ==
    ASSUME NEW s, s = <<"O", "F", "F", "\n">>
    PROVE  ~writeData(SubSeq(s, 1, Len(s)))
<1>1. s \in Seq({"O", "F", "\n"}) /\ Len(s) = 4
  OBVIOUS
<1>2. Len(SubSeq(s, 1, Len(s))) = 4
  BY <1>1
<1>3. ~(Len(SubSeq(s, 1, Len(s))) <= 3)
  BY <1>2
<1> QED
  BY <1>3, Zenon DEF writeData

\* The whole body gives the state it was written from.
LEMMA WholeBody ==
    ASSUME NEW state \in BOOLEAN
    PROVE  writeData(SubSeq(Body(state), 1, Len(Body(state)))) = state
<1>1. CASE state
  <2>1. Body(state) = <<"O", "N", "\n">>
    BY <1>1, Zenon DEF Body
  <2>2. writeData(SubSeq(Body(state), 1, Len(Body(state))))
    BY <2>1, OnMatches, Zenon
  <2> QED
    BY <1>1, <2>2, PieceOutcome, Zenon
<1>2. CASE ~state
  <2>1. Body(state) = <<"O", "F", "F", "\n">>
    BY <1>2, Zenon DEF Body
  <2>2. ~writeData(SubSeq(Body(state), 1, Len(Body(state))))
    BY <2>1, OffDiffers, Zenon
  <2> QED
    BY <1>2, <2>2, PieceOutcome, Zenon
<1> QED
  BY <1>1, <1>2

LEMMA InitIInv == Init => IInv
  BY ConstantsOK DEF Init, IInv, Types, BodyHolds, Published, AfterUpdate, Reflects, Understood, Inside

\* The answer leaves the result, and what is known of the answer, consistent.
LEMMA AnswerUnderstands ==
    ASSUME relay \in BOOLEAN, NEW t \in Callers, Answer(t)
    PROVE  fetched' \in BOOLEAN /\ answered' \in {fetched', None}
<1>1. PICK i \in 1..Len(Body(relay)) :
         /\ fetched' = writeData(SubSeq(Body(relay), i, Len(Body(relay))))
         /\ answered' = IF i = 1 THEN relay ELSE None
  BY Zenon DEF Answer
<1>2. fetched' \in BOOLEAN
  BY <1>1, PieceOutcome, Zenon
<1>3. CASE i = 1
  BY <1>1, <1>2, <1>3, WholeBody, Zenon
<1>4. CASE i # 1
  BY <1>1, <1>2, <1>4, Zenon
<1> QED
  BY <1>3, <1>4

LEMMA NextIInv == IInv /\ [Next]_vars => IInv'
<1> SUFFICES ASSUME IInv, [Next]_vars PROVE IInv'
  OBVIOUS
<1> USE ConstantsOK DEF ConstantsOK, IInv, Types, BodyHolds, Published, AfterUpdate, Reflects,
        Understood, Goto, Inside, last, request, store
<1>1. ASSUME NEW t \in Callers, Call(t) PROVE IInv'
  BY <1>1 DEF Call
<1>2. ASSUME NEW t \in Callers, Take(t) PROVE IInv'
  <2>1. pc'[t] = "give" => lastPublishTime # 0
    BY <1>2 DEF Take, Due
  <2> QED
    BY <1>2, <2>1 DEF Take
<1>3. ASSUME NEW t \in Callers, Answer(t) PROVE IInv'
  <2>1. fetched' \in BOOLEAN /\ answered' \in {fetched', None}
    BY <1>3, AnswerUnderstands
  <2>2. \A u \in Callers : u # t => pc[u] \notin Inside
    BY <1>3 DEF Answer
  <2>3. /\ pc[t] = "fetch" /\ pc' = [pc EXCEPT ![t] = "transfer"]
        /\ UNCHANGED <<relay, uptime, last, mutex, store>>
    BY <1>3 DEF Answer
  <2> QED
    BY <2>1, <2>2, <2>3
<1>3a. ASSUME NEW t \in Callers, TestPublish(t) PROVE IInv'
  <2>1. \A u \in Callers : u # t => pc[u] \notin Inside
    BY <1>3a DEF TestPublish
  <2>2. CASE Publishes(fetched)
    BY <1>3a, <2>1, <2>2 DEF TestPublish
  <2>3. CASE ~Publishes(fetched)
    <3>1. lastPublishTime # 0 /\ lastPublishState = fetched
      BY <2>3 DEF Publishes
    <3> QED
      BY <1>3a, <2>1, <2>3, <3>1 DEF TestPublish
  <2> QED
    BY <2>2, <2>3
<1>3b. ASSUME NEW t \in Callers, Stamp(t) PROVE IInv'
  <2>1. \A u \in Callers : u # t => pc[u] \notin Inside
    BY <1>3b DEF Stamp
  <2> QED
    BY <1>3b, <2>1 DEF Stamp
<1>4. ASSUME NEW t \in Callers, PutState(t) PROVE IInv'
  BY <1>4 DEF PutState
<1>5. ASSUME NEW t \in Callers, Give(t) PROVE IInv'
  BY <1>5 DEF Give
<1>6. ASSUME NEW t \in Callers, ReadAndReturn(t) PROVE IInv'
  BY <1>6 DEF ReadAndReturn
<1>7. ASSUME NEW t \in Callers, FetchFails(t) PROVE IInv'
  BY <1>7 DEF FetchFails
<1>8. CASE Tick
  BY <1>8 DEF Tick
<1>9. CASE SwitchRelay
  BY <1>9 DEF SwitchRelay
<1>10. CASE UNCHANGED vars
  BY <1>10 DEF vars
<1> QED
  BY <1>1, <1>2, <1>3, <1>3a, <1>3b, <1>4, <1>5, <1>6, <1>7, <1>8, <1>9, <1>10 DEF Next, Step

LEMMA IInvAlways == Spec => []IInv
<1>1. Init => IInv
  BY InitIInv
<1>2. IInv /\ [Next]_vars => IInv'
  BY NextIInv
<1> QED
  BY <1>1, <1>2, PTL DEF Spec

-----------------------------------------------------------------------------
(* The results *)

\* getState() finds its topic whenever it gets to read the buffer, with any number
\* of callers, and although it reads after it gave the mutex back.
THEOREM TopicIsThere == Spec => []StateIsThere
<1>1. IInv => StateIsThere
  BY DEF IInv, AfterUpdate, StateIsThere
<1> QED
  BY <1>1, IInvAlways, PTL

\* With the mutex free, the buffer holds the result of the last request, for every
\* division of the answers into pieces, with any number of callers and any times.
THEOREM BufferReflectsRelay == Spec => []BufferIsLastAnswer
<1>1. IInv => BufferIsLastAnswer
  <2> SUFFICES ASSUME IInv, mutex = NoTask, buffered # None
               PROVE  buffered = fetched /\ answered \in {fetched, None}
    BY DEF BufferIsLastAnswer
  <2>1. \A t \in Callers : pc[t] \notin {"transfer", "stamp", "put"}
    BY ConstantsOK DEF ConstantsOK, IInv, BodyHolds, Inside
  <2> QED
    BY <2>1 DEF IInv, Reflects, Understood
<1> QED
  BY <1>1, IInvAlways, PTL

\* Of the callers only the holder of the mutex is between take and give: requests
\* and publications never overlap.
THEOREM OneCallerInside ==
    Spec => [](\A t, u \in Callers :
                  {pc[t], pc[u]} \subseteq Inside => t = u)
<1>1. IInv => \A t, u \in Callers : {pc[t], pc[u]} \subseteq Inside => t = u
  BY DEF IInv, BodyHolds
<1> QED
  BY <1>1, IInvAlways, PTL

-----------------------------------------------------------------------------
(* Times *)

\* lastPublishTime is the low half of a time that has passed, and what is published
\* or confirmed is an answer that arrived at most MaxTransfer earlier.
Times ==
    /\ uptime \in Nat /\ answeredAt \in Nat /\ publishedAt \in Nat /\ confirmedAt \in Nat
    /\ publishedAt <= uptime
    /\ lastPublishTime = publishedAt % Wrap
    /\ \A t \in Callers :
          /\ pc[t] \in {"transfer", "stamp"} => uptime <= answeredAt + MaxTransfer
          /\ pc[t] = "put" => publishedAt <= answeredAt + MaxTransfer
    /\ (\A t \in Callers : pc[t] # "put") => publishedAt <= confirmedAt + MaxTransfer

\* A time is its turns of the clock and the rest.
LEMMA Division ==
    ASSUME NEW a \in Nat
    PROVE  /\ a \div Wrap \in Nat /\ a % Wrap \in 0..(Wrap - 1)
           /\ a = Wrap * (a \div Wrap) + (a % Wrap)
  BY ConstantsOK, Z3 DEF ConstantsOK

\* A sum that fits into the clock's width is not cut.
LEMMA NotCut == ASSUME NEW a \in 0..(Wrap - 1) PROVE a % Wrap = a
  BY ConstantsOK, Z3 DEF ConstantsOK

\* Cutting a sum makes it no larger.
LEMMA CutIsLess == ASSUME NEW a \in Nat PROVE a % Wrap \in Nat /\ a % Wrap <= a
  BY ConstantsOK, Z3 DEF ConstantsOK

LEMMA Turns ==
    ASSUME NEW j \in Nat, NEW k \in Nat
    PROVE  Wrap * (k - j) \in Int /\ Wrap * k = Wrap * j + Wrap * (k - j)
  BY ConstantsOK, Z3 DEF ConstantsOK

\* The test of outlet.cpp:83 and outlet.cpp:50: how far the clock can be past a time
\* that it does not take for a past one.
LEMMA DeadlineHeld ==
    ASSUME NEW a \in Nat, NEW b \in Nat, NEW d \in Nat,
           ~(((a % Wrap) + d) % Wrap < b % Wrap)
    PROVE  /\ Wrap * ((b \div Wrap) - (a \div Wrap)) \in Int
           /\ b <= a + d + Wrap * ((b \div Wrap) - (a \div Wrap))
<1>1. a % Wrap \in Nat /\ b % Wrap \in Nat /\ a \div Wrap \in Nat /\ b \div Wrap \in Nat
  BY Division
<1>2. ((a % Wrap) + d) % Wrap \in Nat /\ ((a % Wrap) + d) % Wrap <= (a % Wrap) + d
  <2>1. (a % Wrap) + d \in Nat
    BY <1>1
  <2> QED
    BY <2>1, CutIsLess
<1>3. b % Wrap <= (a % Wrap) + d
  BY <1>1, <1>2
<1>4. PICK m \in Int : /\ m = Wrap * ((b \div Wrap) - (a \div Wrap))
                       /\ Wrap * (b \div Wrap) = Wrap * (a \div Wrap) + m
  BY <1>1, Turns
<1>5. PICK p \in Nat, r \in Nat : a = p + (a % Wrap) /\ b = r + (b % Wrap) /\ r = p + m
  <2>1. Wrap * (a \div Wrap) \in Nat /\ Wrap * (b \div Wrap) \in Nat
    BY <1>1, ConstantsOK DEF ConstantsOK
  <2> QED
    BY <1>4, <2>1, Division
<1>6. b <= a + d + m
  BY <1>1, <1>3, <1>5
<1> QED
  BY <1>4, <1>6

LEMMA InitTimes == Init => Times
<1>1. 0 % Wrap = 0
  BY ConstantsOK, NotCut DEF ConstantsOK
<1> QED
  BY <1>1, ConstantsOK DEF ConstantsOK, Init, Times

LEMMA NextTimes == IInv /\ Times /\ [Next]_vars => Times'
<1> SUFFICES ASSUME IInv, Times, [Next]_vars PROVE Times'
  OBVIOUS
<1> USE ConstantsOK DEF ConstantsOK, IInv, Types, BodyHolds, Inside, Times, Goto, last, request,
        store
<1>1. ASSUME NEW t \in Callers, Call(t) PROVE Times'
  BY <1>1 DEF Call
<1>2. ASSUME NEW t \in Callers, Take(t) PROVE Times'
  BY <1>2 DEF Take
<1>3. ASSUME NEW t \in Callers, Answer(t) PROVE Times'
  <2>1. \A u \in Callers : u # t => pc[u] \notin Inside
    BY <1>3 DEF Answer
  <2>2. /\ pc[t] = "fetch" /\ pc' = [pc EXCEPT ![t] = "transfer"] /\ answeredAt' = uptime
        /\ UNCHANGED <<uptime, last, store>>
    BY <1>3 DEF Answer
  <2> QED
    BY <2>1, <2>2
<1>3a. ASSUME NEW t \in Callers, TestPublish(t) PROVE Times'
  <2>1. \A u \in Callers : u # t => pc[u] \notin Inside
    BY <1>3a DEF TestPublish
  <2>2. CASE Publishes(fetched)
    BY <1>3a, <2>1, <2>2 DEF TestPublish
  <2>3. CASE ~Publishes(fetched)
    <3>1. /\ pc[t] = "transfer" /\ pc' = [pc EXCEPT ![t] = "give"] /\ confirmedAt' = answeredAt
          /\ UNCHANGED <<uptime, last, answeredAt>>
      BY <1>3a, <2>3 DEF TestPublish
    <3> QED
      BY <2>1, <3>1
  <2> QED
    BY <2>2, <2>3
<1>3b. ASSUME NEW t \in Callers, Stamp(t) PROVE Times'
  <2>1. \A u \in Callers : u # t => pc[u] \notin Inside
    BY <1>3b DEF Stamp
  <2>2. /\ pc[t] = "stamp" /\ pc' = [pc EXCEPT ![t] = "put"]
        /\ lastPublishTime' = uptime % Wrap /\ publishedAt' = uptime
        /\ UNCHANGED <<uptime, confirmedAt, answeredAt>>
    BY <1>3b DEF Stamp, millis
  <2> QED
    BY <2>1, <2>2
<1>4. ASSUME NEW t \in Callers, PutState(t) PROVE Times'
  BY <1>4 DEF PutState
<1>5. ASSUME NEW t \in Callers, Give(t) PROVE Times'
  BY <1>5 DEF Give
<1>6. ASSUME NEW t \in Callers, ReadAndReturn(t) PROVE Times'
  BY <1>6 DEF ReadAndReturn
<1>7. ASSUME NEW t \in Callers, FetchFails(t) PROVE Times'
  <2>1. 0 % Wrap = 0
    BY NotCut
  <2> QED
    BY <1>7, <2>1 DEF FetchFails
<1>8. CASE Tick
  BY <1>8 DEF Tick
<1>9. CASE SwitchRelay
  BY <1>9 DEF SwitchRelay
<1>10. CASE UNCHANGED vars
  BY <1>10 DEF vars
<1> QED
  BY <1>1, <1>2, <1>3, <1>3a, <1>3b, <1>4, <1>5, <1>6, <1>7, <1>8, <1>9, <1>10 DEF Next, Step

\* A caller that does without a request or a publication has tested the deadline.
LEMMA TestedDeadline ==
    ASSUME Times, NEW d \in Nat, ~((lastPublishTime + d) % Wrap < millis)
    PROVE  /\ RestartsSince(publishedAt) \in Int
           /\ uptime <= publishedAt + d + RestartsSince(publishedAt)
  BY DeadlineHeld DEF Times, RestartsSince, millis

\* Without a request getState() answers with what the relay answered at most Fresh ago,
\* and the time of a transfer, for every such time, every width of the clock and any
\* number of its restarts.
THEOREM CachedAnswerIsFresh == Spec => AnswerIsFresh
<1> DEFINE Step1 == \A t \in Callers : Take(t) /\ pc'[t] = "give"
               => uptime <= confirmedAt + Fresh + MaxTransfer + RestartsSince(publishedAt)
<1>1. IInv /\ Times => Step1
  <2> SUFFICES ASSUME IInv, Times, NEW t \in Callers, Take(t), pc'[t] = "give"
               PROVE  uptime <= confirmedAt + Fresh + MaxTransfer + RestartsSince(publishedAt)
    OBVIOUS
  <2>1. ~Due
    BY DEF Take, Goto, IInv, Types
  <2>2. /\ RestartsSince(publishedAt) \in Int
        /\ uptime <= publishedAt + Fresh + RestartsSince(publishedAt)
    BY <2>1, TestedDeadline, ConstantsOK DEF Due, ConstantsOK
  <2>3. \A u \in Callers : pc[u] # "put"
    BY ConstantsOK DEF Take, ConstantsOK, IInv, BodyHolds, Inside
  <2> QED
    BY <2>2, <2>3, ConstantsOK DEF Times, ConstantsOK
<1>2. IInv /\ Times /\ [Next]_vars => [Step1]_vars
  BY <1>1
<1>3. Spec => []Times
  BY InitTimes, NextTimes, IInvAlways, PTL DEF Spec
<1>4. Spec => [][Step1]_vars
  BY <1>2, <1>3, IInvAlways, PTL DEF Spec
<1> QED
  BY <1>4 DEF AnswerIsFresh

\* A getState() that publishes nothing comes at most Interval after the last publication,
\* for every width of the clock, and one turn more for each of its restarts.
THEOREM Republished == Spec => RepublishedInTime
<1> DEFINE Step2 == \A t \in Callers : (Take(t) \/ TestPublish(t)) /\ pc'[t] = "give"
                      => uptime <= publishedAt + Interval + RestartsSince(publishedAt)
<1>1. IInv /\ Times => Step2
  <2> SUFFICES ASSUME IInv, Times, NEW t \in Callers, Take(t) \/ TestPublish(t),
                      pc'[t] = "give"
               PROVE  uptime <= publishedAt + Interval + RestartsSince(publishedAt)
    OBVIOUS
  <2>1. CASE Take(t)
    <3>1. ~Due
      BY <2>1 DEF Take, Goto, IInv, Types
    <3>2. /\ RestartsSince(publishedAt) \in Int
          /\ uptime <= publishedAt + Fresh + RestartsSince(publishedAt)
      BY <3>1, TestedDeadline, ConstantsOK DEF Due, ConstantsOK
    <3> QED
      BY <3>2, ConstantsOK DEF Times, ConstantsOK
  <2>2. CASE TestPublish(t)
    <3>1. ~Publishes(fetched)
      BY <2>2 DEF TestPublish, Goto, IInv, Types
    <3> QED
      BY <3>1, TestedDeadline, ConstantsOK DEF Publishes, ConstantsOK
  <2> QED
    BY <2>1, <2>2
<1>2. IInv /\ Times /\ [Next]_vars => [Step2]_vars
  BY <1>1
<1>3. Spec => []Times
  BY InitTimes, NextTimes, IInvAlways, PTL DEF Spec
<1>4. Spec => [][Step2]_vars
  BY <1>2, <1>3, IInvAlways, PTL DEF Spec
<1> QED
  BY <1>4 DEF RepublishedInTime
-----------------------------------------------------------------------------
(* Widths *)

\* No time is ahead of the uptime.
InTime == uptime <= MaxUptime /\ confirmedAt <= uptime /\ answeredAt <= uptime

LEMMA NextInTime == IInv /\ Times /\ InTime /\ [Next]_vars => InTime'
<1> SUFFICES ASSUME IInv, Times, InTime, [Next]_vars PROVE InTime'
  OBVIOUS
<1> USE ConstantsOK DEF ConstantsOK, Times, InTime, last, request, store
<1>1. ASSUME NEW t \in Callers, Answer(t) PROVE InTime'
  BY <1>1 DEF Answer
<1>2. ASSUME NEW t \in Callers, TestPublish(t) PROVE InTime'
  BY <1>2 DEF TestPublish
<1>3. ASSUME NEW t \in Callers, Call(t) \/ Take(t) \/ Give(t) \/ ReadAndReturn(t) PROVE InTime'
  BY <1>3 DEF Call, Take, Give, ReadAndReturn
<1>4. ASSUME NEW t \in Callers, Stamp(t) \/ PutState(t) PROVE InTime'
  BY <1>4 DEF Stamp, PutState
<1>5. ASSUME NEW t \in Callers, FetchFails(t) PROVE InTime'
  BY <1>5 DEF FetchFails
<1>6. CASE Tick
  BY <1>6 DEF Tick
<1>7. CASE SwitchRelay \/ UNCHANGED vars
  BY <1>7 DEF SwitchRelay, vars
<1> QED
  BY <1>1, <1>2, <1>3, <1>4, <1>5, <1>6, <1>7 DEF Next, Step

\* The variables keep their types and the times of the code their width, for any
\* number of callers, any width and any uptime.
THEOREM WellTyped == Spec => []TypeOK
<1>1. Init => InTime
  BY ConstantsOK DEF Init, InTime, ConstantsOK
<1>2. Spec => []Times
  BY InitTimes, NextTimes, IInvAlways, PTL DEF Spec
<1>3. Spec => []InTime
  BY <1>1, <1>2, NextInTime, IInvAlways, PTL DEF Spec
<1>4. IInv /\ Times /\ InTime => TypeOK
  <2> SUFFICES ASSUME IInv, Times, InTime PROVE TypeOK
    OBVIOUS
  <2>1. lastPublishTime \in 0..(Wrap - 1)
    BY Division DEF Times
  <2>2. {uptime, answeredAt, publishedAt, confirmedAt} \subseteq 0..MaxUptime
    BY ConstantsOK DEF ConstantsOK, Times, InTime
  <2>3. answered \in BOOLEAN \cup {None} /\ buffered \in {None, TRUE, FALSE}
    BY DEF IInv, Types, Understood
  <2> QED
    BY <2>1, <2>2, <2>3 DEF IInv, Types, BodyHolds, TypeOK
<1> QED
  BY <1>2, <1>3, <1>4, IInvAlways, PTL
===========================================================================
