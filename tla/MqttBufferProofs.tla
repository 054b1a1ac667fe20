-------------------------- MODULE MqttBufferProofs --------------------------
(***************************************************************************)
(* main/buffer.cpp, for any number of tasks, topics and messages:          *)
(* initialize() run by one task at a time is enough for the mutex to       *)
(* protect the store, for no assertion to fail, and for every put and      *)
(* every getMatching to take effect at one instant (AtomicStore).          *)
(***************************************************************************)
EXTENDS MqttBuffer, FiniteSetTheorems, TLAPS

-----------------------------------------------------------------------------
(* The inductive invariant *)

\* The part of the type invariant that the argument needs.
ControlOK ==
    /\ initialized \in BOOLEAN /\ mapExists \in BOOLEAN /\ overlapped \in BOOLEAN
    /\ holder \in [Handles -> Tasks \cup {NoTask}]
    /\ pc \in [Tasks -> Steps]
    /\ call \in [Tasks -> {Idle, Display} \cup PutCalls \cup GetCalls]
    /\ \A t \in Tasks : pc[t] # "idle" => call[t].op \in {"put", "getMatching", "display"}

PastInitialize(t) == pc[t] = "take" \/ InBody(t)

\* The first use has one task in it, and nobody is past initialize() meanwhile.
AloneInFirstUse ==
    \A t, u \in Tasks : InFirstUse(t) /\ u # t => pc[u] \in {"idle", "test"}

\* How far the first use has come, by the step its task is at.
FirstUseProgress ==
    \A t \in Tasks :
        /\ pc[t] = "set" => ~initialized
        /\ InFirstUse(t) => mutex = 0
        /\ pc[t] \in {"reset", "initmap"} => initialized /\ ~mapExists
        /\ pc[t] = "create" => initialized /\ mapExists

\* Before the flag is set nothing exists, and nobody is past initialize().
NothingBefore ==
    ~initialized => mutex = 0 /\ ~mapExists /\ \A t \in Tasks : ~PastInitialize(t)

\* Once the first use is over, everything exists.
EverythingAfter ==
    initialized /\ (\A t \in Tasks : ~InFirstUse(t)) => mapExists /\ mutex = 1

\* A task between take and give is the holder.
BodyHolds == \A t \in Tasks : InBody(t) => holder[1] = t

Orderly ==
    /\ failed = "none"
    /\ AloneInFirstUse
    /\ FirstUseProgress
    /\ NothingBefore
    /\ EverythingAfter
    /\ BodyHolds

IInv == ControlOK /\ (~overlapped => Orderly)

-----------------------------------------------------------------------------
(* It holds initially, and every step keeps it *)

LEMMA HandleOne == ASSUME NEW t \in Tasks PROVE 1 \in Handles
  <1>1. Cardinality(Tasks) \in Nat /\ Cardinality(Tasks) # 0
    BY ConstantsOK, FS_EmptySet, FS_CardinalityType DEF ConstantsOK
  <1> QED
    BY <1>1 DEF Handles

LEMMA InitIInv == Init => IInv
  BY DEF Init, IInv, ControlOK, Orderly, AloneInFirstUse, FirstUseProgress, NothingBefore,
         EverythingAfter, BodyHolds, InFirstUse, PastInitialize, InBody, Steps

\* A task that is past initialize() meets a map and the one mutex there is.
LEMMA MeetsMutex ==
  ASSUME IInv, ~overlapped, NEW t \in Tasks, PastInitialize(t)
  PROVE  initialized /\ mapExists /\ mutex = 1 /\ \A u \in Tasks : ~InFirstUse(u)
  <1>1. \A u \in Tasks : ~InFirstUse(u)
    BY DEF IInv, Orderly, AloneInFirstUse, InFirstUse, PastInitialize, InBody
  <1>2. initialized
    BY DEF IInv, ControlOK, Orderly, NothingBefore
  <1> QED
    BY <1>1, <1>2 DEF IInv, Orderly, EverythingAfter

\* Every function continues inside the mutex at a step of its own.
LEMMA BodyType ==
  ASSUME ControlOK, NEW t \in Tasks, pc[t] # "idle"
  PROVE  Body(call[t].op) \in {"slot", "copy", "give"}
  BY DEF ControlOK, Body

\* A step from one place between take and give to another.
LEMMA InsideStep ==
  ASSUME IInv, NEW t \in Tasks, InBody(t),
         NEW b \in {"slot", "pair", "copy", "give"}, pc' = [pc EXCEPT ![t] = b],
         UNCHANGED <<initialized, mapExists, mutex, holder, call, failed, overlapped>>
  PROVE  IInv'
  <1>1. ControlOK'
    BY DEF IInv, ControlOK, InBody, Steps
  <1>2. ASSUME ~overlapped PROVE Orderly'
    <2>1. \A u \in Tasks : ~InFirstUse(u) /\ initialized /\ mapExists /\ mutex = 1
      BY <1>2, MeetsMutex DEF PastInitialize
    <2>2. \A u \in Tasks : ~InFirstUse(u)'
      BY <2>1 DEF IInv, ControlOK, InFirstUse
    <2>3. BodyHolds'
      BY <1>2 DEF IInv, ControlOK, Orderly, BodyHolds, InBody
    <2> QED
      BY <1>2, <2>1, <2>2, <2>3
      DEF IInv, Orderly, AloneInFirstUse, FirstUseProgress, NothingBefore, EverythingAfter,
          InFirstUse
  <1> QED
    BY <1>1, <1>2 DEF IInv

\* A failed assertion: only the variable failed changes, and the tasks have met.
LEMMA AbortStep ==
  ASSUME IInv, overlapped,
         UNCHANGED <<initialized, mapExists, holder, call, pc, overlapped>>
  PROVE  IInv'
  BY DEF IInv, ControlOK

LEMMA EnterStep ==
  ASSUME IInv, NEW t \in Tasks, NEW c \in PutCalls \cup GetCalls, Enter(t, c)
  PROVE  IInv'
  <1> USE DEF Enter, Goto
  <1>1. ControlOK'
    BY DEF IInv, ControlOK, Steps, PutCalls, GetCalls
  <1>2. ASSUME ~overlapped PROVE Orderly'
    <2>1. \A u \in Tasks : pc'[u] # pc[u] => u = t /\ pc[t] = "idle" /\ pc'[t] = "test"
      BY DEF IInv, ControlOK
    <2>2. /\ \A u \in Tasks : InFirstUse(u)' <=> InFirstUse(u)
          /\ \A u \in Tasks : InBody(u)' <=> InBody(u)
          /\ \A u \in Tasks : PastInitialize(u)' <=> PastInitialize(u)
      BY <2>1 DEF InFirstUse, InBody, PastInitialize
    <2> QED
      BY <1>2, <2>1, <2>2
      DEF IInv, Orderly, AloneInFirstUse, FirstUseProgress, NothingBefore, EverythingAfter,
          BodyHolds
  <1> QED
    BY <1>1, <1>2 DEF IInv

LEMMA TestStep ==
  ASSUME IInv, NEW t \in Tasks, TestInitialized(t)
  PROVE  IInv'
  <1> USE DEF TestInitialized, Goto
  <1>1. ControlOK'
    BY DEF IInv, ControlOK, Steps
  <1>2. ASSUME ~overlapped' PROVE Orderly'
    <2>1. ~overlapped /\ \A u \in Tasks : ~InFirstUse(u)
      BY <1>2 DEF IInv, ControlOK, InFirstUse
    <2>2. CASE initialized
      <3>1. pc' = [pc EXCEPT ![t] = "take"] /\ pc[t] = "test"
        BY <2>2
      <3>2. mapExists /\ mutex = 1
        BY <2>1, <2>2 DEF IInv, Orderly, EverythingAfter
      <3>3. \A u \in Tasks : ~InFirstUse(u)'
        BY <2>1, <3>1 DEF IInv, ControlOK, InFirstUse
      <3>4. BodyHolds'
        BY <2>1, <3>1 DEF IInv, ControlOK, Orderly, BodyHolds, InBody
      <3> QED
        BY <2>1, <2>2, <3>2, <3>3, <3>4
        DEF IInv, Orderly, AloneInFirstUse, FirstUseProgress, NothingBefore, EverythingAfter,
            InFirstUse
    <2>3. CASE ~initialized
      <3>1. pc' = [pc EXCEPT ![t] = "set"] /\ pc[t] = "test"
        BY <2>3
      <3>2. mutex = 0 /\ ~mapExists /\ \A u \in Tasks : ~PastInitialize(u)
        BY <2>1, <2>3 DEF IInv, Orderly, NothingBefore
      <3>3. \A u \in Tasks : pc[u] \in {"idle", "test"}
        BY <2>1, <3>2 DEF IInv, ControlOK, Steps, PastInitialize, InBody, InFirstUse
      <3>4. pc'[t] = "set" /\ \A u \in Tasks : u # t => pc'[u] \in {"idle", "test"}
        BY <3>1, <3>3 DEF IInv, ControlOK
      <3> QED
        BY <2>1, <2>3, <3>2, <3>4
        DEF IInv, Orderly, AloneInFirstUse, FirstUseProgress, NothingBefore, EverythingAfter,
            BodyHolds, InFirstUse, InBody, PastInitialize
    <2> QED
      BY <2>2, <2>3
  <1> QED
    BY <1>1, <1>2 DEF IInv

\* A step inside the first use: the task stays in it, and the flag and the map
\* are what its next step expects.
LEMMA FirstUseStep ==
  ASSUME IInv, NEW t \in Tasks, InFirstUse(t),
         NEW b \in {"reset", "initmap", "create"}, pc' = [pc EXCEPT ![t] = b],
         ~overlapped => initialized',
         ~overlapped => (mapExists' <=> b = "create"),
         initialized' \in BOOLEAN, mapExists' \in BOOLEAN,
         UNCHANGED <<mutex, holder, call, failed, overlapped>>
  PROVE  IInv'
  <1>1. ControlOK'
    BY DEF IInv, ControlOK, Steps, InFirstUse
  <1>2. ASSUME ~overlapped PROVE Orderly'
    <2>1. mutex = 0 /\ \A u \in Tasks : u # t => pc[u] \in {"idle", "test"}
      BY <1>2 DEF IInv, Orderly, AloneInFirstUse, FirstUseProgress
    <2>2. pc'[t] = b /\ \A u \in Tasks : u # t => pc'[u] \in {"idle", "test"}
      BY <2>1 DEF IInv, ControlOK
    <2> QED
      BY <1>2, <2>1, <2>2
      DEF IInv, Orderly, AloneInFirstUse, FirstUseProgress, NothingBefore, EverythingAfter,
          BodyHolds, InFirstUse, InBody
  <1> QED
    BY <1>1, <1>2 DEF IInv

LEMMA SetStep ==
  ASSUME IInv, NEW t \in Tasks, SetInitialized(t)
  PROVE  IInv'
  <1>1. InFirstUse(t) /\ (~overlapped => ~mapExists) /\ mapExists \in BOOLEAN
    BY DEF SetInitialized, Goto, InFirstUse, IInv, ControlOK, Orderly, FirstUseProgress,
           NothingBefore
  <1> QED
    BY <1>1, FirstUseStep DEF SetInitialized, Goto

LEMMA ResetStep ==
  ASSUME IInv, NEW t \in Tasks, ResetMap(t)
  PROVE  IInv'
  <1>1. InFirstUse(t) /\ (~overlapped => initialized) /\ initialized \in BOOLEAN
    BY DEF ResetMap, Goto, InFirstUse, IInv, ControlOK, Orderly, FirstUseProgress
  <1> QED
    BY <1>1, FirstUseStep DEF ResetMap, Goto

LEMMA InitMapStep ==
  ASSUME IInv, NEW t \in Tasks, InitMap(t)
  PROVE  IInv'
  <1>1. /\ InFirstUse(t) /\ pc[t] = "initmap"
        /\ ~overlapped => initialized /\ ~mapExists
        /\ initialized \in BOOLEAN
    BY DEF InitMap, Abort, Goto, InFirstUse, IInv, ControlOK, Orderly, FirstUseProgress
  <1>2. CASE mapExists
    <2>1. overlapped /\ pc' = pc
      BY <1>1, <1>2 DEF InitMap, Abort, Goto, IInv, ControlOK
    <2> QED
      BY <1>2, <2>1, AbortStep DEF InitMap
  <1>3. CASE ~mapExists
    BY <1>1, <1>3, FirstUseStep DEF InitMap, Goto
  <1> QED
    BY <1>2, <1>3

LEMMA CreateStep ==
  ASSUME IInv, NEW t \in Tasks, CreateMutex(t)
  PROVE  IInv'
  <1> USE DEF CreateMutex, Goto
  <1>1. ControlOK'
    BY DEF IInv, ControlOK, Steps
  <1>2. ASSUME ~overlapped PROVE Orderly'
    <2>1. /\ mutex = 0 /\ initialized /\ mapExists
          /\ \A u \in Tasks : u # t => pc[u] \in {"idle", "test"}
      BY <1>2 DEF IInv, Orderly, AloneInFirstUse, FirstUseProgress, InFirstUse
    <2>2. pc'[t] = "take" /\ \A u \in Tasks : u # t => pc'[u] \in {"idle", "test"}
      BY <2>1 DEF IInv, ControlOK
    <2>3. mutex' = 1
      BY <2>1
    <2> QED
      BY <1>2, <2>1, <2>2, <2>3
      DEF IInv, Orderly, AloneInFirstUse, FirstUseProgress, NothingBefore, EverythingAfter,
          BodyHolds, InFirstUse, InBody
  <1> QED
    BY <1>1, <1>2 DEF IInv

\* Taking the mutex: it was free, so nobody else is between take and give.
LEMMA TakeStep ==
  ASSUME IInv, NEW t \in Tasks, Take(t)
  PROVE  IInv'
  <1>0. pc[t] = "take" /\ PastInitialize(t)
    BY DEF Take, Abort, Goto, PastInitialize
  <1>1. CASE mutex = 0
    <2>1. overlapped
      BY <1>0, <1>1, MeetsMutex DEF IInv, ControlOK
    <2>2. UNCHANGED pc
      BY <1>0, <1>1 DEF Take, Abort, Goto, IInv, ControlOK
    <2> QED
      BY <1>1, <2>1, <2>2, AbortStep DEF Take
  <1>2. CASE mutex # 0
    <2> PICK b \in {"slot", "copy", "give"} : b = Body(call[t].op)
      BY <1>0, BodyType DEF IInv
    <2>1. /\ holder[mutex] = NoTask /\ holder' = [holder EXCEPT ![mutex] = t]
          /\ pc' = [pc EXCEPT ![t] = b]
          /\ UNCHANGED <<initialized, mapExists, mutex, call, failed, overlapped>>
      BY <1>2 DEF Take, Goto
    <2>2. ControlOK'
      BY <1>0, <2>1 DEF IInv, ControlOK, Steps
    <2>3. ASSUME ~overlapped PROVE Orderly'
      <3>1. initialized /\ mapExists /\ mutex = 1 /\ \A u \in Tasks : ~InFirstUse(u)
        BY <1>0, <2>3, MeetsMutex
      <3>2. \A u \in Tasks : ~InFirstUse(u)'
        BY <2>1, <3>1 DEF IInv, ControlOK, InFirstUse
      <3>3. \A u \in Tasks : ~InBody(u)
        BY <2>1, <2>3, <3>1, ConstantsOK DEF ConstantsOK, IInv, Orderly, BodyHolds
      <3>4. holder'[1] = t
        BY <2>1, <3>1, HandleOne DEF IInv, ControlOK
      <3>5. BodyHolds'
        BY <2>1, <3>3, <3>4 DEF IInv, ControlOK, BodyHolds, InBody
      <3> QED
        BY <2>1, <2>3, <3>1, <3>2, <3>5
        DEF IInv, Orderly, AloneInFirstUse, FirstUseProgress, NothingBefore, EverythingAfter,
            InFirstUse
    <2> QED
      BY <2>1, <2>2, <2>3 DEF IInv
  <1> QED
    BY <1>1, <1>2

\* Giving the mutex: the task is the holder, and leaves.
LEMMA GiveStep ==
  ASSUME IInv, NEW t \in Tasks, Give(t)
  PROVE  IInv'
  <1>0. pc[t] = "give" /\ InBody(t) /\ PastInitialize(t)
    BY DEF Give, PastInitialize, InBody
  <1>1. CASE holder[mutex] \in {t, NoTask}
    <2> PICK b \in {"test", "idle"} : b = IF call[t].op = "put" THEN "test" ELSE "idle"
      OBVIOUS
    <2>1. /\ holder' = [holder EXCEPT ![mutex] = NoTask] /\ pc' = [pc EXCEPT ![t] = b]
          /\ call' = [call EXCEPT ![t] = IF @.op = "put" THEN Display ELSE Idle]
          /\ UNCHANGED <<initialized, mapExists, mutex, failed, overlapped>>
      BY <1>1 DEF Give, Goto
    <2>2. ControlOK'
      BY <1>0, <2>1 DEF IInv, ControlOK, Steps, Display, Idle
    <2>3. ASSUME ~overlapped PROVE Orderly'
      <3>1. initialized /\ mapExists /\ mutex = 1 /\ \A u \in Tasks : ~InFirstUse(u)
        BY <1>0, <2>3, MeetsMutex
      <3>2. \A u \in Tasks : ~InFirstUse(u)'
        BY <2>1, <3>1 DEF IInv, ControlOK, InFirstUse
      <3>3. \A u \in Tasks : InBody(u) => u = t
        BY <1>0, <2>3 DEF IInv, Orderly, BodyHolds
      <3>4. \A u \in Tasks : ~InBody(u)'
        BY <2>1, <3>3 DEF IInv, ControlOK, InBody
      <3> QED
        BY <2>1, <2>3, <3>1, <3>2, <3>4
        DEF IInv, Orderly, AloneInFirstUse, FirstUseProgress, NothingBefore, EverythingAfter,
            BodyHolds, InFirstUse
    <2> QED
      BY <2>1, <2>2, <2>3 DEF IInv
  <1>2. CASE holder[mutex] \notin {t, NoTask}
    <2>1. overlapped
      BY <1>0, <1>2, MeetsMutex DEF IInv, ControlOK, Orderly, BodyHolds
    <2>2. UNCHANGED pc
      BY <1>2 DEF Give, Abort, Goto, IInv, ControlOK
    <2> QED
      BY <1>2, <2>1, <2>2, AbortStep DEF Give
  <1> QED
    BY <1>1, <1>2

LEMMA PutSlotStep ==
  ASSUME IInv, NEW t \in Tasks, PutSlot(t)
  PROVE  IInv'
  <1>0. pc[t] = "slot" /\ InBody(t) /\ PastInitialize(t)
    BY DEF PutSlot, Abort, Goto, PastInitialize, InBody
  <1>1. CASE mapExists
    BY <1>0, <1>1, InsideStep DEF PutSlot, Goto
  <1>2. CASE ~mapExists
    <2>1. overlapped
      BY <1>0, <1>2, MeetsMutex DEF IInv, ControlOK
    <2>2. UNCHANGED pc
      BY <1>0, <1>2 DEF PutSlot, Abort, Goto, IInv, ControlOK
    <2> QED
      BY <1>2, <2>1, <2>2, AbortStep DEF PutSlot
  <1> QED
    BY <1>1, <1>2

LEMMA StepIInv == IInv /\ [Next]_vars => IInv'
  <1> SUFFICES ASSUME IInv, [Next]_vars PROVE IInv'
    OBVIOUS
  <1>1. ASSUME NEW t \in Tasks, NEW c \in PutCalls \cup GetCalls, Enter(t, c) PROVE IInv'
    BY <1>1, EnterStep
  <1>2. ASSUME NEW t \in Tasks, Step(t) PROVE IInv'
    <2>1. CASE TestInitialized(t)
      BY <2>1, TestStep
    <2>2. CASE SetInitialized(t)
      BY <2>2, SetStep
    <2>3. CASE ResetMap(t)
      BY <2>3, ResetStep
    <2>4. CASE InitMap(t)
      BY <2>4, InitMapStep
    <2>5. CASE CreateMutex(t)
      BY <2>5, CreateStep
    <2>6. CASE Take(t)
      BY <2>6, TakeStep
    <2>7. CASE Give(t)
      BY <2>7, GiveStep
    <2>8. CASE PutSlot(t)
      BY <2>8, PutSlotStep
    <2>9. CASE PutPair(t)
      BY <2>9, InsideStep DEF PutPair, Goto, InBody
    <2>10. CASE PutStamp(t)
      BY <2>10, InsideStep DEF PutStamp, Goto, InBody
    <2>11. CASE CopyEntry(t)
      BY <2>11, InsideStep DEF CopyEntry, Goto, InBody
    <2>12. CASE CopyEnded(t)
      BY <2>12, InsideStep DEF CopyEnded, Goto, InBody
    <2> QED
      BY <1>2, <2>1, <2>2, <2>3, <2>4, <2>5, <2>6, <2>7, <2>8, <2>9, <2>10, <2>11, <2>12
      DEF Step
  <1>3. ASSUME UNCHANGED <<initialized, mapExists, mutex, holder, pc, call, failed, overlapped>>
        PROVE  IInv'
    BY <1>3 DEF IInv, ControlOK, Orderly, AloneInFirstUse, FirstUseProgress, NothingBefore,
                EverythingAfter, BodyHolds, InFirstUse, InBody, PastInitialize
  <1>4. CASE Tick
    BY <1>3, <1>4 DEF Tick
  <1>5. CASE UNCHANGED vars
    BY <1>3, <1>5 DEF vars
  <1> QED
    BY <1>1, <1>2, <1>4, <1>5 DEF Next

LEMMA Invariance == Spec => []IInv
  BY InitIInv, StepIInv, PTL DEF Spec

\* However many tasks use the buffer: as long as no two of them met in its first
\* use, at most one is between xSemaphoreTake and xSemaphoreGive.
THEOREM MutualExclusion == Spec => []OneTaskInside
  <1>1. IInv => OneTaskInside
    <2> SUFFICES ASSUME IInv, ~overlapped, NEW t \in Tasks, InBody(t)
                 PROVE  mutex # 0 /\ holder[mutex] = t
      BY DEF OneTaskInside
    <2>1. mutex = 1
      BY MeetsMutex DEF PastInitialize
    <2> QED
      BY <2>1 DEF IInv, Orderly, BodyHolds
  <1> QED
    BY <1>1, Invariance, PTL

\* No assertion of the buffer, of its map or of its mutex fails, for any tasks,
\* topics and messages, unless two tasks met in initialize().
THEOREM SafeAfterFirstUse == Spec => []FailsOnlyInFirstUse
  <1>1. IInv => FailsOnlyInFirstUse
    BY DEF IInv, Orderly, ControlOK, FailsOnlyInFirstUse
  <1> QED
    BY <1>1, Invariance, PTL
-----------------------------------------------------------------------------
(* Types *)

Calls == {Idle, Display} \cup PutCalls \cup GetCalls

\* The values of the variables, and the steps the functions have.  The loops
\* over pairs and slots count from 1.
DataTypes ==
    /\ initialized \in BOOLEAN /\ mapExists \in BOOLEAN /\ overlapped \in BOOLEAN
    /\ mutex \in Nat
    /\ holder \in [Handles -> Tasks \cup {NoTask}]
    /\ slots \in Seq(Topics)
    /\ content \in [Topics -> Entries] /\ committed \in [Topics -> Entries]
    /\ now \in Times
    /\ pos \in [Tasks -> Nat \ {0}]
    /\ mapCopy \in [Tasks -> [Topics -> Entries]]
    /\ failed \in {"none", "MapInfo not empty.", "NULL mutex", "NULL entries", "not the holder"}

FitsCall(b, c) ==
    /\ b \in {"slot", "pair"} => c.op = "put"
    /\ b = "copy" => c.op = "getMatching"
    /\ b = "idle" <=> c = Idle

AtStep ==
    /\ pc \in [Tasks -> Steps]
    /\ call \in [Tasks -> Calls]
    /\ \A t \in Tasks : FitsCall(pc[t], call[t])

TypeInv == DataTypes /\ AtStep

LEMMA TypeInvTypes == TypeInv => TypeOK
  BY DEF TypeInv, DataTypes, AtStep, FitsCall, Calls, TypeOK

\* What each kind of call is made of.
LEMMA CallTypes ==
  ASSUME NEW c \in Calls
  PROVE  /\ c.op \in {"idle", "put", "getMatching", "display"}
         /\ c.op = "put" => c.topic \in Topics /\ c.msg \in Messages
         /\ c.op = "getMatching" => c.filter \in Filters
         /\ c.op = "idle" <=> c = Idle
         /\ c.op = "display" <=> c = Display
  BY DEF Calls, PutCalls, GetCalls, Idle, Display

LEMMA BlankType == Blank \in Entries /\ Nothing \in [Topics -> Entries]
  BY DEF Blank, Nothing, Entries

\* One task moves from a step to another, in the same call or the next one.
LEMMA MoveTypes ==
  ASSUME AtStep, NEW t \in Tasks, NEW b \in Steps, NEW c \in Calls, FitsCall(b, c),
         pc' = [pc EXCEPT ![t] = b],
         \/ call' = [call EXCEPT ![t] = c]
         \/ call' = call /\ c = call[t]
  PROVE  AtStep'
  <1>1. call' = [call EXCEPT ![t] = c]
    BY DEF AtStep
  <1>2. pc' \in [Tasks -> Steps] /\ call' \in [Tasks -> Calls]
    BY <1>1 DEF AtStep
  <1>3. ASSUME NEW u \in Tasks PROVE FitsCall(pc'[u], call'[u])
    <2>1. CASE u = t
      BY <1>1, <2>1 DEF AtStep
    <2>2. CASE u # t
      BY <1>1, <2>2 DEF AtStep
    <2> QED
      BY <2>1, <2>2
  <1> QED
    BY <1>2, <1>3 DEF AtStep

LEMMA InitTypes == Init => TypeInv
  <1> SUFFICES ASSUME Init PROVE TypeInv
    OBVIOUS
  <1>1. 0 \in Times
    BY ConstantsOK DEF ConstantsOK, Times
  <1>2. DataTypes
    <2>1. mapCopy \in [Tasks -> [Topics -> Entries]]
      BY BlankType DEF Init
    <2>2. holder \in [Handles -> Tasks \cup {NoTask}]
      BY DEF Init
    <2>3. slots \in Seq(Topics)
      BY DEF Init
    <2>4. pos \in [Tasks -> Nat \ {0}]
      BY DEF Init
    <2>5. content \in [Topics -> Entries] /\ committed \in [Topics -> Entries]
      BY BlankType DEF Init
    <2>6. now \in Times /\ mutex \in Nat /\ failed = "none"
      BY <1>1 DEF Init
    <2>7. initialized \in BOOLEAN /\ mapExists \in BOOLEAN /\ overlapped \in BOOLEAN
      BY DEF Init
    <2> QED
      BY <2>1, <2>2, <2>3, <2>4, <2>5, <2>6, <2>7 DEF DataTypes
  <1>3. pc \in [Tasks -> Steps] /\ call \in [Tasks -> Calls]
    BY DEF Init, Steps, Calls
  <1>4. FitsCall("idle", Idle)
    BY DEF FitsCall
  <1>5. AtStep
    BY <1>3, <1>4 DEF AtStep, Init
  <1> QED
    BY <1>2, <1>5 DEF TypeInv

LEMMA DataTypesKept ==
  ASSUME DataTypes,
         UNCHANGED <<initialized, mapExists, mutex, holder, slots, content, now, pos, mapCopy,
                     failed, committed, overlapped>>
  PROVE  DataTypes'
  BY DEF DataTypes

LEMMA DataTypesStep ==
  ASSUME TypeInv, NEW t \in Tasks, Step(t)
  PROVE  DataTypes'
  <1> DEFINE c == call[t]
  <1>0. c \in Calls /\ DataTypes /\ FitsCall(pc[t], c)
    BY DEF TypeInv, AtStep
  <1> USE <1>0 DEF Goto, Abort
  <1>1. CASE TestInitialized(t)
    BY <1>1 DEF TestInitialized, DataTypes
  <1>2. CASE SetInitialized(t)
    BY <1>2 DEF SetInitialized, DataTypes
  <1>3. CASE ResetMap(t)
    <2>1. slots' \in Seq(Topics)
      BY <1>3 DEF ResetMap
    <2> QED
      BY <1>3, <2>1, BlankType DEF ResetMap, DataTypes
  <1>4. CASE InitMap(t)
    BY <1>4 DEF InitMap, DataTypes
  <1>5. CASE CreateMutex(t)
    BY <1>5 DEF CreateMutex, DataTypes
  <1>6. CASE Take(t)
    BY <1>6 DEF Take, DataTypes
  <1>7. CASE Give(t)
    BY <1>7, BlankType DEF Give, DataTypes
  <1>8. CASE PutSlot(t)
    <2>1. c.topic \in Topics
      BY <1>8, CallTypes DEF PutSlot, FitsCall
    <2>2. slots' \in Seq(Topics)
      <3>1. slots' = slots \/ slots' = Append(slots, c.topic)
        BY <1>8 DEF PutSlot
      <3>2. slots \in Seq(Topics)
        BY DEF DataTypes
      <3> HIDE DEF c
      <3> QED
        BY <2>1, <3>1, <3>2
    <2>3. content' \in [Topics -> Entries]
      BY <1>8, <2>1, BlankType DEF PutSlot, DataTypes
    <2> QED
      BY <1>8, <2>2, <2>3 DEF PutSlot, DataTypes
  <1>9. CASE PutPair(t)
    <2>1. c.topic \in Topics /\ c.msg \in Seq(Keys \X Values)
      BY <1>9, CallTypes, ConstantsOK DEF PutPair, FitsCall, ConstantsOK
    <2>2. pos[t] \in 1..Len(c.msg)
      BY <1>9, <2>1 DEF PutPair, DataTypes
    <2> PICK k \in Keys, v \in Values : c.msg[pos[t]] = <<k, v>>
      BY <2>1, <2>2
    <2>3. content' = [content EXCEPT ![c.topic].pairs[k] = v]
      BY <1>9 DEF PutPair
    <2>4. content' \in [Topics -> Entries]
      BY <2>1, <2>3 DEF DataTypes, Entries
    <2>5. pos' \in [Tasks -> Nat \ {0}]
      BY <1>9 DEF PutPair, DataTypes
    <2> QED
      BY <1>9, <2>4, <2>5 DEF PutPair, DataTypes
  <1>10. CASE PutStamp(t)
    <2>1. c.topic \in Topics
      BY <1>10, CallTypes DEF PutStamp, FitsCall
    <2>2. content' \in [Topics -> Entries]
      BY <1>10, <2>1 DEF PutStamp, DataTypes, Entries
    <2> QED
      BY <1>10, <2>2 DEF PutStamp, DataTypes
  <1>11. CASE CopyEntry(t)
    <2>1. slots[pos[t]] \in Topics
      BY <1>11 DEF CopyEntry, DataTypes
    <2>2. mapCopy' \in [Tasks -> [Topics -> Entries]]
      BY <1>11, <2>1 DEF CopyEntry, DataTypes
    <2>3. pos' \in [Tasks -> Nat \ {0}]
      BY <1>11 DEF CopyEntry, DataTypes
    <2> QED
      BY <1>11, <2>2, <2>3 DEF CopyEntry, DataTypes
  <1>12. CASE CopyEnded(t)
    BY <1>12, DataTypesKept DEF CopyEnded
  <1> QED
    BY <1>1, <1>2, <1>3, <1>4, <1>5, <1>6, <1>7, <1>8, <1>9, <1>10, <1>11, <1>12 DEF Step

LEMMA AtStepStep ==
  ASSUME TypeInv, NEW t \in Tasks, Step(t)
  PROVE  AtStep'
  <1>0. call[t] \in Calls /\ AtStep /\ FitsCall(pc[t], call[t]) /\ pc[t] \in Steps
    BY DEF TypeInv, AtStep
  <1>1. CASE Give(t)
    <2>1. CASE holder[mutex] \in {t, NoTask}
      <3> PICK b \in Steps, d \in Calls :
             /\ b = IF call[t].op = "put" THEN "test" ELSE "idle"
             /\ d = IF call[t].op = "put" THEN Display ELSE Idle
        BY DEF Steps, Calls
      <3>1. FitsCall(b, d)
        BY DEF FitsCall, Display, Idle
      <3>2. pc' = [pc EXCEPT ![t] = b] /\ call' = [call EXCEPT ![t] = d]
        BY <1>0, <1>1, <2>1 DEF Give, Goto, AtStep
      <3> QED
        BY <1>0, <3>1, <3>2, MoveTypes
    <2>2. CASE holder[mutex] \notin {t, NoTask}
      BY <1>0, <1>1, <2>2, MoveTypes DEF Give, Abort, Goto
    <2> QED
      BY <2>1, <2>2
  <1>2. CASE Take(t)
    <2>1. CASE mutex = 0
      BY <1>0, <1>2, <2>1, MoveTypes DEF Take, Abort, Goto
    <2>2. CASE mutex # 0
      <3>1. pc[t] = "take" /\ call' = call /\ pc' = [pc EXCEPT ![t] = Body(call[t].op)]
        BY <1>2, <2>2 DEF Take, Goto
      <3>2. call[t].op \in {"put", "getMatching", "display"}
        BY <1>0, <3>1, CallTypes DEF FitsCall
      <3>3. Body(call[t].op) \in Steps /\ FitsCall(Body(call[t].op), call[t])
        BY <1>0, <3>1, <3>2 DEF Body, Steps, FitsCall
      <3> QED
        BY <1>0, <3>1, <3>3, MoveTypes
    <2> QED
      BY <2>1, <2>2
  <1>3. CASE ~Give(t) /\ ~Take(t)
    <2>1. PICK b \in Steps : pc' = [pc EXCEPT ![t] = b] /\ call' = call /\ FitsCall(b, call[t])
      <3> USE <1>0, <1>3 DEF Goto, Abort, FitsCall, Steps
      <3>1. CASE TestInitialized(t) \/ SetInitialized(t) \/ ResetMap(t) \/ InitMap(t)
        BY <3>1 DEF TestInitialized, SetInitialized, ResetMap, InitMap
      <3>2. CASE CreateMutex(t) \/ PutSlot(t) \/ PutPair(t) \/ PutStamp(t)
        BY <3>2 DEF CreateMutex, PutSlot, PutPair, PutStamp
      <3>3. CASE CopyEntry(t) \/ CopyEnded(t)
        BY <3>3 DEF CopyEntry, CopyEnded
      <3> QED
        BY <3>1, <3>2, <3>3 DEF Step
    <2> QED
      BY <1>0, <2>1, MoveTypes
  <1> QED
    BY <1>1, <1>2, <1>3

LEMMA StepTypes == TypeInv /\ [Next]_vars => TypeInv'
  <1> SUFFICES ASSUME TypeInv, [Next]_vars PROVE TypeInv'
    OBVIOUS
  <1>1. ASSUME NEW t \in Tasks, NEW c \in PutCalls \cup GetCalls, Enter(t, c) PROVE TypeInv'
    <2>1. c \in Calls /\ c.op \in {"put", "getMatching"}
      BY DEF Calls, PutCalls, GetCalls
    <2>2. FitsCall("test", c)
      BY <2>1 DEF FitsCall, Idle
    <2>3. AtStep'
      BY <1>1, <2>1, <2>2, MoveTypes DEF Enter, Goto, TypeInv, Steps
    <2>4. DataTypes'
      <3>1. pos \in [Tasks -> Nat \ {0}] /\ pos' = [pos EXCEPT ![t] = 1]
        BY <1>1 DEF Enter, TypeInv, DataTypes
      <3>2. pos' \in [Tasks -> Nat \ {0}]
        BY <3>1
      <3> QED
        BY <1>1, <3>2 DEF Enter, TypeInv, DataTypes
    <2> QED
      BY <2>3, <2>4 DEF TypeInv
  <1>2. ASSUME NEW t \in Tasks, Step(t) PROVE TypeInv'
    BY <1>2, DataTypesStep, AtStepStep DEF TypeInv
  <1>3. CASE Tick
    BY <1>3, ConstantsOK DEF Tick, ConstantsOK, Times, TypeInv, DataTypes, AtStep
  <1>4. CASE UNCHANGED vars
    BY <1>4 DEF vars, TypeInv, DataTypes, AtStep
  <1> QED
    BY <1>1, <1>2, <1>3, <1>4 DEF Next

LEMMA Types == Spec => []TypeInv
  BY InitTypes, StepTypes, PTL DEF Spec

\* The variables of buffer.cpp hold what their types allow, and each task is at
\* a step of the function it is in, for any tasks, topics and messages.
THEOREM WellTyped == Spec => []TypeOK
  BY TypeInvTypes, Types, PTL

-----------------------------------------------------------------------------
(* What the store holds while a message goes in and while a snapshot is made *)

\* What the first n pairs of a message make of the values a topic had.
MergedUpTo(old, msg, n) ==
    [k \in Keys |->
        LET at == {i \in 1..n : msg[i][1] = k}
        IN  IF at = {} THEN old[k]
            ELSE msg[CHOOSE i \in at : \A j \in at : j <= i][2]]

\* The store with the first n pairs of a message in it, before the time is.
PartlyWritten(tp, msg, n) ==
    [committed EXCEPT ![tp] = [pairs |-> MergedUpTo(committed[tp].pairs, msg, n),
                               timestamp |-> committed[tp].timestamp]]

\* The entries that the first n turns of getMatching's loop have copied.
PartlyCopied(f, n) ==
    [tp \in Topics |-> IF Matches(f, tp) /\ \E i \in 1..n : slots[i] = tp
                       THEN committed[tp] ELSE Blank]

\* What a task has done to the store, or learned of it, at its step.
TaskData(t) ==
    /\ pc[t] = "pair" =>
          /\ HasSlot(call[t].topic)
          /\ pos[t] <= Len(call[t].msg) + 1
          /\ content = PartlyWritten(call[t].topic, call[t].msg, pos[t] - 1)
    /\ pc[t] = "copy" =>
          /\ pos[t] <= Len(slots) + 1
          /\ mapCopy[t] = PartlyCopied(call[t].filter, pos[t] - 1)
    /\ pc[t] = "give" /\ call[t].op = "getMatching" =>
          mapCopy[t] = Store!Snapshot(committed, call[t].filter)
    /\ pc[t] \notin {"copy", "give"} => mapCopy[t] = Nothing
    /\ pc[t] \notin {"idle", "pair", "copy", "give"} /\ call[t].op # "display" => pos[t] = 1

\* Between the puts, every message is complete and carries its time, and the
\* topics that hold something are those with a slot.
StoreData ==
    /\ (\A t \in Tasks : pc[t] # "pair") => content = committed
    /\ \A tp \in Topics : committed[tp] # Blank => HasSlot(tp)
    /\ \A tp \in Topics : committed[tp] # Blank => committed[tp].timestamp # NoValue
    /\ ~mapExists => slots = <<>>

DataInv == ~overlapped => StoreData /\ \A t \in Tasks : TaskData(t)

LEMMA AloneInside ==
  ASSUME IInv, ~overlapped, NEW t \in Tasks, NEW u \in Tasks, InBody(t), InBody(u)
  PROVE  u = t
  BY DEF IInv, Orderly, BodyHolds

LEMMA MergedNone ==
  ASSUME NEW V, NEW old \in [Keys -> V], NEW msg
  PROVE  MergedUpTo(old, msg, 0) = old
  BY DEF MergedUpTo

LEMMA GreatestIs ==
  ASSUME NEW S \in SUBSET Nat, NEW m \in S, \A i \in S : i <= m
  PROVE  (CHOOSE i \in S : \A j \in S : j <= i) = m
  <1>1. ASSUME NEW i \in S, \A j \in S : j <= i PROVE i = m
    <2>1. i <= m /\ m <= i /\ i \in Nat /\ m \in Nat
      BY <1>1
    <2> QED
      BY <2>1
  <1> QED
    BY <1>1

\* The pair a turn of assignContent's loop puts is the last one so far.
LEMMA MergedOneMore ==
  ASSUME NEW old, NEW msg, NEW n \in Nat,
         NEW k \in Keys, NEW v \in Values, msg[n + 1] = <<k, v>>
  PROVE  MergedUpTo(old, msg, n + 1) = [MergedUpTo(old, msg, n) EXCEPT ![k] = v]
  <1> DEFINE at(x, m) == {i \in 1..m : msg[i][1] = x}
             last(S) == CHOOSE i \in S : \A j \in S : j <= i
             value(x, m) == IF at(x, m) = {} THEN old[x] ELSE msg[last(at(x, m))][2]
  <1>1. \A m : MergedUpTo(old, msg, m) = [x \in Keys |-> value(x, m)]
    BY DEF MergedUpTo
  <1>2. n + 1 \in at(k, n + 1) /\ at(k, n + 1) \in SUBSET Nat /\ \A i \in at(k, n + 1) : i <= n + 1
    OBVIOUS
  <1>3. \A x \in Keys : x # k => at(x, n + 1) = at(x, n)
    OBVIOUS
  <1> HIDE DEF at
  <1>4. last(at(k, n + 1)) = n + 1
    BY <1>2, GreatestIs
  <1> HIDE DEF last
  <1>5. value(k, n + 1) = v
    BY <1>2, <1>4
  <1>6. \A x \in Keys : x # k => value(x, n + 1) = value(x, n)
    BY <1>3
  <1> HIDE DEF value
  <1> QED
    BY <1>1, <1>5, <1>6

LEMMA MergedAll == ASSUME NEW old, NEW msg
                   PROVE  MergedUpTo(old, msg, Len(msg)) = Store!Merged(old, msg)
  BY DEF MergedUpTo, Store!Merged

\* A task that does not move keeps what it knows, as long as the store does.
LEMMA TaskKept ==
  ASSUME NEW u \in Tasks, TaskData(u), UNCHANGED <<slots, content, committed>>,
         UNCHANGED <<pc[u], call[u], pos[u], mapCopy[u]>>
  PROVE  TaskData(u)'
  BY DEF TaskData, PartlyWritten, PartlyCopied, HasSlot, Store!Snapshot

\* A task outside take and give knows nothing of the store yet.
LEMMA OutsideKept ==
  ASSUME NEW u \in Tasks, TaskData(u), ~InBody(u),
         UNCHANGED <<pc[u], call[u], pos[u], mapCopy[u]>>
  PROVE  TaskData(u)'
  BY DEF TaskData, InBody

LEMMA InitData == Init => DataInv
  BY DEF Init, DataInv, StoreData, TaskData, Nothing, Blank, HasSlot

\* A step that leaves the store alone, and starts or ends no writing.
LEMMA QuietStep ==
  ASSUME StoreData, \A u \in Tasks : TaskData(u), NEW t \in Tasks,
         UNCHANGED <<slots, content, committed>>,
         \A u \in Tasks : u # t => UNCHANGED <<pc[u], call[u], pos[u], mapCopy[u]>>,
         pc[t] = "pair" <=> pc'[t] = "pair",
         mapExists => mapExists',
         TaskData(t)'
  PROVE  StoreData' /\ \A u \in Tasks : TaskData(u)'
  <1>1. \A u \in Tasks : TaskData(u)'
    BY TaskKept
  <1>2. \A u \in Tasks : pc'[u] = "pair" <=> pc[u] = "pair"
    OBVIOUS
  <1>3. \A tp \in Topics : HasSlot(tp)' <=> HasSlot(tp)
    BY DEF HasSlot
  <1> QED
    BY <1>1, <1>2, <1>3 DEF StoreData

\* The state in which a task takes a step, and the step it takes.
LEMMA Moves ==
  ASSUME TypeInv, NEW t \in Tasks, NEW a, NEW b, Goto(t, a, b)
  PROVE  /\ pc[t] = a /\ pc'[t] = b
         /\ \A u \in Tasks : u # t => UNCHANGED pc[u]
  BY DEF TypeInv, AtStep, Goto

LEMMA EnterData ==
  ASSUME TypeInv, IInv, DataInv, ~overlapped, NEW t \in Tasks,
         NEW c \in PutCalls \cup GetCalls, Enter(t, c)
  PROVE  StoreData' /\ \A u \in Tasks : TaskData(u)'
  <1>1. pc[t] = "idle" /\ pc'[t] = "test" /\ \A u \in Tasks : u # t => UNCHANGED pc[u]
    BY Moves DEF Enter
  <1>2. call'[t] = c /\ \A u \in Tasks : u # t => UNCHANGED call[u]
    BY DEF Enter, TypeInv, AtStep
  <1>3. pos'[t] = 1 /\ \A u \in Tasks : u # t => UNCHANGED pos[u]
    BY DEF Enter, TypeInv, DataTypes
  <1>4. UNCHANGED <<slots, content, committed, mapCopy, mapExists>>
    BY DEF Enter
  <1>5. TaskData(t)'
    BY <1>1, <1>2, <1>3, <1>4 DEF DataInv, TaskData, Nothing, Blank
  <1> QED
    BY <1>1, <1>2, <1>3, <1>4, <1>5, QuietStep DEF DataInv

\* The steps of initialize().
LEMMA InitializeData ==
  ASSUME TypeInv, IInv, DataInv, ~overlapped', NEW t \in Tasks,
         \/ TestInitialized(t) \/ SetInitialized(t) \/ ResetMap(t) \/ InitMap(t) \/ CreateMutex(t)
  PROVE  StoreData' /\ \A u \in Tasks : TaskData(u)'
  <1> PICK b \in Steps : /\ pc[t] \in {"test", "set", "reset", "initmap", "create"}
                         /\ b \in {"take", "set", "reset", "initmap", "create"}
                         /\ pc' = [pc EXCEPT ![t] = b]
    BY DEF TestInitialized, SetInitialized, ResetMap, InitMap, CreateMutex, Goto, Abort, Steps
  <1>1. ~overlapped /\ UNCHANGED <<committed, call, pos, mapCopy>>
    BY DEF TestInitialized, SetInitialized, ResetMap, InitMap, CreateMutex, TypeInv, DataTypes
  <1>2. pc'[t] = b /\ \A u \in Tasks : u # t => UNCHANGED pc[u]
    BY DEF TypeInv, AtStep
  <1>3. UNCHANGED <<slots, content>> /\ (mapExists => mapExists')
    <2>1. CASE ResetMap(t)
      <3>1. ~mapExists /\ \A u \in Tasks : pc[u] # "pair"
        BY <1>1, <2>1
         DEF ResetMap, Goto, IInv, Orderly, FirstUseProgress, AloneInFirstUse, InFirstUse
      <3>2. slots = <<>> /\ content = committed
        BY <1>1, <3>1 DEF DataInv, StoreData
      <3>3. \A tp \in Topics : content[tp] = Blank
        BY <1>1, <3>2 DEF DataInv, StoreData, HasSlot
      <3>4. content = Nothing
        BY <3>3 DEF TypeInv, DataTypes, Nothing
      <3> QED
        BY <2>1, <3>2, <3>4, <3>1 DEF ResetMap
    <2>2. CASE InitMap(t)
      BY <2>2 DEF InitMap
    <2>3. CASE TestInitialized(t) \/ SetInitialized(t) \/ CreateMutex(t)
      BY <2>3 DEF TestInitialized, SetInitialized, CreateMutex
    <2> QED
      BY <2>1, <2>2, <2>3
  <1>4. TaskData(t)'
    BY <1>1, <1>2 DEF DataInv, TaskData, Nothing, Blank
  <1> QED
    BY <1>1, <1>2, <1>3, <1>4, QuietStep DEF DataInv

LEMMA TakeData ==
  ASSUME TypeInv, IInv, DataInv, ~overlapped, NEW t \in Tasks, Take(t)
  PROVE  StoreData' /\ \A u \in Tasks : TaskData(u)'
  <1>1. pc[t] = "take" /\ mutex = 1
    BY MeetsMutex DEF Take, Abort, Goto, PastInitialize
  <1>2. pc' = [pc EXCEPT ![t] = Body(call[t].op)]
    BY <1>1 DEF Take, Goto
  <1>3. UNCHANGED <<slots, content, committed, mapCopy, mapExists, call, pos>>
    BY DEF Take
  <1>4. pc'[t] = Body(call[t].op) /\ \A u \in Tasks : u # t => UNCHANGED pc[u]
    BY <1>2 DEF TypeInv, AtStep
  <1>5. call[t].op \in {"put", "getMatching", "display"}
    BY <1>1, CallTypes DEF TypeInv, AtStep, FitsCall
  <1>6. TaskData(t)
    BY DEF DataInv
  <1>7. TaskData(t)'
    <2>1. CASE call[t].op = "getMatching"
      <3>1. pc'[t] = "copy" /\ pos[t] = 1 /\ mapCopy[t] = Nothing
        BY <1>1, <1>4, <1>6, <2>1 DEF Body, TaskData
      <3>2. slots \in Seq(Topics)
        BY DEF TypeInv, DataTypes
      <3>3. PartlyCopied(call[t].filter, 0)' = Nothing
        BY DEF PartlyCopied, Nothing, Blank
      <3> QED
        BY <1>3, <2>1, <3>1, <3>2, <3>3 DEF TaskData, Nothing, Blank
    <2>2. CASE call[t].op # "getMatching"
      BY <1>1, <1>3, <1>4, <1>5, <1>6, <2>2 DEF Body, TaskData, Nothing, Blank
    <2> QED
      BY <2>1, <2>2
  <1>8. pc'[t] # "pair"
    BY <1>4, <1>5 DEF Body
  <1> QED
    BY <1>1, <1>3, <1>4, <1>7, <1>8, QuietStep DEF DataInv

LEMMA GiveData ==
  ASSUME TypeInv, IInv, DataInv, ~overlapped, NEW t \in Tasks, Give(t)
  PROVE  StoreData' /\ \A u \in Tasks : TaskData(u)'
  <1>1. pc[t] = "give" /\ holder[mutex] = t
    BY MeetsMutex DEF Give, PastInitialize, InBody, IInv, Orderly, BodyHolds
  <1>2. /\ pc'[t] = (IF call[t].op = "put" THEN "test" ELSE "idle")
        /\ \A u \in Tasks : u # t => UNCHANGED pc[u]
    BY <1>1 DEF Give, Goto, TypeInv, AtStep
  <1>3. /\ call'[t] = (IF call[t].op = "put" THEN Display ELSE Idle)
        /\ \A u \in Tasks : u # t => UNCHANGED call[u]
    BY <1>1 DEF Give, TypeInv, AtStep
  <1>4. mapCopy'[t] = Nothing /\ \A u \in Tasks : u # t => UNCHANGED mapCopy[u]
    BY <1>1 DEF Give, TypeInv, DataTypes
  <1>5. UNCHANGED <<slots, content, committed, mapExists, pos>>
    BY DEF Give
  <1>6. TaskData(t)'
    BY <1>2, <1>3, <1>4 DEF TaskData, Display, Nothing, Blank
  <1> QED
    BY <1>1, <1>2, <1>3, <1>4, <1>5, <1>6, QuietStep DEF DataInv

\* A task is at work inside the mutex: the others are outside it.
LEMMA OthersOutside ==
  ASSUME IInv, ~overlapped, \A u \in Tasks : TaskData(u), NEW t \in Tasks, InBody(t),
         \A u \in Tasks : u # t => UNCHANGED <<pc[u], call[u], pos[u], mapCopy[u]>>,
         TaskData(t)'
  PROVE  \A u \in Tasks : TaskData(u)'
  BY AloneInside, OutsideKept

\* A call of mqttBuffer_put that is at work: its topic and its message.
LEMMA PutTypes ==
  ASSUME TypeInv, NEW t \in Tasks, pc[t] \in {"slot", "pair"}
  PROVE  /\ call[t].op = "put" /\ call[t].topic \in Topics
         /\ call[t].msg \in Seq(Keys \X Values)
  BY CallTypes, ConstantsOK DEF TypeInv, AtStep, FitsCall, ConstantsOK

LEMMA PutSlotData ==
  ASSUME TypeInv, IInv, DataInv, ~overlapped, NEW t \in Tasks, PutSlot(t)
  PROVE  /\ StoreData' /\ \A u \in Tasks : TaskData(u)'
         /\ UNCHANGED content
  <1> DEFINE tp == call[t].topic
  <1>0. pc[t] = "slot" /\ InBody(t) /\ mapExists
    BY MeetsMutex DEF PutSlot, Abort, Goto, InBody, PastInitialize
  <1>1. tp \in Topics /\ call[t].op = "put" /\ call[t].msg \in Seq(Keys \X Values)
    BY <1>0, PutTypes
  <1>2. pc'[t] = "pair" /\ \A u \in Tasks : u # t => UNCHANGED pc[u]
    BY <1>0, Moves DEF PutSlot
  <1>3. UNCHANGED <<committed, mapCopy, mapExists, call, pos>>
    BY DEF PutSlot
  <1>4. pos[t] = 1 /\ mapCopy[t] = Nothing
    BY <1>0, <1>1 DEF DataInv, TaskData
  <1>5. \A u \in Tasks : pc[u] # "pair"
    BY <1>0, AloneInside DEF InBody
  <1>6. content = committed
    BY <1>5 DEF DataInv, StoreData
  <1>7. UNCHANGED content
    <2>1. CASE HasSlot(tp)
      BY <1>0, <2>1 DEF PutSlot
    <2>2. CASE ~HasSlot(tp)
      <3>1. content[tp] = Blank
        BY <1>1, <1>6, <2>2 DEF DataInv, StoreData
      <3>2. content' = [content EXCEPT ![tp] = Blank]
        BY <1>0, <2>2 DEF PutSlot
      <3> QED
        BY <3>1, <3>2 DEF TypeInv, DataTypes
    <2> QED
      BY <2>1, <2>2
  <1>8. HasSlot(tp)' /\ \A x \in Topics : HasSlot(x) => HasSlot(x)'
    <2>1. slots \in Seq(Topics)
      BY DEF TypeInv, DataTypes
    <2>2. CASE HasSlot(tp)
      BY <1>0, <2>2, <1>3 DEF PutSlot, HasSlot
    <2>3. CASE ~HasSlot(tp)
      <3>1. slots' = Append(slots, tp)
        BY <1>0, <2>3 DEF PutSlot
      <3> HIDE DEF tp
      <3>2. /\ Len(slots') = Len(slots) + 1 /\ slots'[Len(slots) + 1] = tp
            /\ \A i \in 1..Len(slots) : slots'[i] = slots[i]
            /\ Len(slots) \in Nat
        BY <1>1, <2>1, <3>1
      <3> USE DEF tp
      <3>3. HasSlot(tp)'
        BY <1>3, <3>2 DEF HasSlot
      <3>4. ASSUME NEW x \in Topics, HasSlot(x) PROVE HasSlot(x)'
        <4>1. PICK i \in 1..Len(slots) : slots[i] = x
          BY <3>4 DEF HasSlot
        <4>2. i \in 1..Len(slots') /\ slots'[i] = x
          BY <3>2, <4>1
        <4> QED
          BY <4>2 DEF HasSlot
      <3> QED
        BY <3>3, <3>4
    <2> QED
      BY <2>2, <2>3
  <1>9. StoreData'
    BY <1>0, <1>2, <1>3, <1>8 DEF DataInv, StoreData
  <1>10. content = PartlyWritten(tp, call[t].msg, 0)
    <2>1. committed \in [Topics -> Entries] /\ committed[tp] \in Entries
      BY <1>1 DEF TypeInv, DataTypes
    <2>2. MergedUpTo(committed[tp].pairs, call[t].msg, 0) = committed[tp].pairs
      BY <2>1, MergedNone DEF Entries
    <2> QED
      BY <1>6, <2>1, <2>2 DEF PartlyWritten, Entries
  <1>11. TaskData(t)'
    <2>1. PartlyWritten(tp, call[t].msg, 0)' = PartlyWritten(tp, call[t].msg, 0)
      BY <1>3 DEF PartlyWritten
    <2>2. pos'[t] - 1 = 0 /\ pos'[t] <= Len(call[t].msg) + 1
      BY <1>1, <1>3, <1>4
    <2> QED
      BY <1>1, <1>2, <1>3, <1>4, <1>7, <1>8, <1>10, <2>1, <2>2 DEF TaskData, Nothing, Blank
  <1>12. \A u \in Tasks : TaskData(u)'
    BY <1>0, <1>2, <1>3, <1>11, OthersOutside DEF DataInv
  <1> QED
    BY <1>7, <1>9, <1>12

\* A turn of assignContent's loop, on what a topic holds.
LEMMA PairWritten ==
  ASSUME NEW S, NEW f \in [Topics -> S], NEW tp \in Topics, NEW A, NEW B, NEW k, NEW v,
         NEW g, NEW h, B = [A EXCEPT ![k] = v],
         g = [f EXCEPT ![tp] = [pairs |-> A, timestamp |-> @.timestamp]],
         h = [g EXCEPT ![tp].pairs[k] = v]
  PROVE  h = [f EXCEPT ![tp] = [pairs |-> B, timestamp |-> @.timestamp]]
  <1>1. g[tp] = [pairs |-> A, timestamp |-> f[tp].timestamp]
    OBVIOUS
  <1>2. h = [g EXCEPT ![tp] = [g[tp] EXCEPT !.pairs = [g[tp].pairs EXCEPT ![k] = v]]]
    OBVIOUS
  <1>3. [g[tp] EXCEPT !.pairs = [g[tp].pairs EXCEPT ![k] = v]]
           = [pairs |-> B, timestamp |-> f[tp].timestamp]
    BY <1>1
  <1> QED
    BY <1>2, <1>3

LEMMA PutPairData ==
  ASSUME TypeInv, IInv, DataInv, ~overlapped, NEW t \in Tasks, PutPair(t)
  PROVE  StoreData' /\ \A u \in Tasks : TaskData(u)'
  <1> DEFINE tp == call[t].topic
             msg == call[t].msg
  <1> PICK n \in Nat : pos[t] = n + 1
    <2>1. pos[t] \in Nat \ {0}
      BY DEF TypeInv, DataTypes
    <2> QED
      BY <2>1
  <1>0. pc[t] = "pair" /\ InBody(t)
    BY DEF PutPair, Goto, InBody
  <1>1. tp \in Topics /\ call[t].op = "put" /\ msg \in Seq(Keys \X Values)
    BY <1>0, PutTypes
  <1>2. pc'[t] = "pair" /\ \A u \in Tasks : u # t => UNCHANGED pc[u]
    BY <1>0, Moves DEF PutPair
  <1>3. UNCHANGED <<committed, mapCopy, mapExists, call, slots>>
    BY DEF PutPair
  <1>4. pos'[t] = pos[t] + 1 /\ \A u \in Tasks : u # t => UNCHANGED pos[u]
    BY DEF PutPair, TypeInv, DataTypes
  <1>5. n + 1 <= Len(msg) /\ pos[t] - 1 = n
    BY DEF PutPair
  <1>6. /\ HasSlot(tp) /\ mapCopy[t] = Nothing
        /\ content = PartlyWritten(tp, msg, n)
    BY <1>0 DEF DataInv, TaskData
  <1> PICK k \in Keys, v \in Values : msg[n + 1] = <<k, v>>
    BY <1>1, <1>5
  <1>7. content' = PartlyWritten(tp, msg, n + 1)
    <2>1. content' = [content EXCEPT ![tp].pairs[k] = v]
      BY <1>5 DEF PutPair
    <2>2. committed \in [Topics -> Entries]
      BY DEF TypeInv, DataTypes
    <2>3. content = PartlyWritten(tp, msg, n)
      BY <1>6
    <2> HIDE DEF tp, msg
    <2> DEFINE A == MergedUpTo(committed[tp].pairs, msg, n)
               B == MergedUpTo(committed[tp].pairs, msg, n + 1)
    <2>4. B = [A EXCEPT ![k] = v]
      BY MergedOneMore
    <2>5. /\ content = [committed EXCEPT ![tp] = [pairs |-> A, timestamp |-> @.timestamp]]
          /\ PartlyWritten(tp, msg, n + 1)
                = [committed EXCEPT ![tp] = [pairs |-> B, timestamp |-> @.timestamp]]
      BY <2>3 DEF PartlyWritten
    <2> HIDE DEF A, B
    <2> QED
      BY <1>1, <2>1, <2>2, <2>4, <2>5, PairWritten
  <1>8. TaskData(t)'
    <2>1. content' = PartlyWritten(call[t].topic, call[t].msg, n + 1)'
      BY <1>3, <1>7 DEF PartlyWritten
    <2>2. pos'[t] - 1 = n + 1 /\ pos'[t] <= Len(msg) + 1
      BY <1>1, <1>4, <1>5
    <2> QED
      BY <1>1, <1>2, <1>3, <1>6, <2>1, <2>2 DEF TaskData, HasSlot, Nothing, Blank
  <1>9. \A u \in Tasks : TaskData(u)'
    BY <1>0, <1>2, <1>3, <1>4, <1>8, OthersOutside DEF DataInv
  <1>10. StoreData'
    BY <1>0, <1>2, <1>3 DEF DataInv, StoreData, HasSlot
  <1> QED
    BY <1>9, <1>10

\* What the whole of a put has done to the store when it writes the time.
LEMMA PutEffect ==
  ASSUME TypeInv, IInv, DataInv, ~overlapped, NEW t \in Tasks, PutStamp(t)
  PROVE  /\ call[t].op = "put" /\ call[t].topic \in Topics /\ HasSlot(call[t].topic)
         /\ committed' = [committed EXCEPT ![call[t].topic] =
               [pairs |-> Store!Merged(@.pairs, call[t].msg), timestamp |-> now]]
  <1> DEFINE tp == call[t].topic
             msg == call[t].msg
  <1>0. pc[t] = "pair"
    BY DEF PutStamp, Goto
  <1>1. tp \in Topics /\ call[t].op = "put" /\ msg \in Seq(Keys \X Values)
    BY <1>0, PutTypes
  <1>2. HasSlot(tp) /\ pos[t] <= Len(msg) + 1 /\ content = PartlyWritten(tp, msg, pos[t] - 1)
    BY <1>0 DEF DataInv, TaskData
  <1>3. pos[t] - 1 = Len(msg)
    <2>1. pos[t] \in Nat
      BY DEF TypeInv, DataTypes
    <2>2. pos[t] > Len(msg)
      BY DEF PutStamp
    <2> HIDE DEF msg
    <2> QED
      BY <1>1, <1>2, <2>1, <2>2
  <1>4. committed' = [content EXCEPT ![tp].timestamp = now]
    BY DEF PutStamp
  <1>5. committed \in [Topics -> Entries]
    BY DEF TypeInv, DataTypes
  <1> DEFINE A == Store!Merged(committed[tp].pairs, msg)
  <1>6. content = [committed EXCEPT ![tp] = [pairs |-> A, timestamp |-> @.timestamp]]
    BY <1>2, <1>3, MergedAll DEF PartlyWritten
  <1>7. [content[tp] EXCEPT !.timestamp = now] = [pairs |-> A, timestamp |-> now]
    <2> HIDE DEF A, tp
    <2> QED
      BY <1>1, <1>5, <1>6
  <1>8. committed' = [content EXCEPT ![tp] = [pairs |-> A, timestamp |-> now]]
    BY <1>4, <1>7
  <1>9. committed' = [committed EXCEPT ![tp] = [pairs |-> A, timestamp |-> now]]
    <2> HIDE DEF A, tp
    <2> QED
      BY <1>1, <1>5, <1>6, <1>8
  <1> QED
    BY <1>1, <1>2, <1>9

LEMMA PutStampData ==
  ASSUME TypeInv, IInv, DataInv, ~overlapped, NEW t \in Tasks, PutStamp(t)
  PROVE  StoreData' /\ \A u \in Tasks : TaskData(u)'
  <1> DEFINE tp == call[t].topic
  <1>0. pc[t] = "pair" /\ InBody(t)
    BY DEF PutStamp, Goto, InBody
  <1>1. PICK e : /\ committed' = [committed EXCEPT ![tp] = e]
                 /\ e.timestamp \in Times
                 /\ tp \in Topics /\ HasSlot(tp) /\ call[t].op = "put"
    <2> DEFINE e == [pairs |-> Store!Merged(committed[tp].pairs, call[t].msg), timestamp |-> now]
    <2>1. committed' = [committed EXCEPT ![tp] = e]
      BY PutEffect
    <2>2. e.timestamp \in Times
      BY DEF TypeInv, DataTypes
    <2> HIDE DEF e
    <2> QED
      BY <2>1, <2>2, PutEffect
  <1>2. pc'[t] = "give" /\ \A u \in Tasks : u # t => UNCHANGED pc[u]
    BY <1>0, Moves DEF PutStamp
  <1>3. content' = committed' /\ UNCHANGED <<mapCopy, mapExists, call, slots, pos>>
    BY DEF PutStamp
  <1>4. TaskData(t)'
    BY <1>1, <1>2, <1>3 DEF TaskData
  <1>5. \A u \in Tasks : TaskData(u)'
    BY <1>0, <1>2, <1>3, <1>4, OthersOutside DEF DataInv
  <1>6. e.timestamp # NoValue
    BY <1>1, ConstantsOK DEF ConstantsOK, Times
  <1>7. committed \in [Topics -> Entries]
    BY DEF TypeInv, DataTypes
  <1>8. \A x \in Topics : committed'[x] = IF x = tp THEN e ELSE committed[x]
    BY <1>1, <1>7
  <1>9. StoreData'
    <2> HIDE DEF tp
    <2> QED
      BY <1>1, <1>3, <1>6, <1>8 DEF DataInv, StoreData, HasSlot, Blank
  <1> QED
    BY <1>5, <1>9

\* A call of mqttBuffer_getMatching that is at work: its filter.
LEMMA GetTypes ==
  ASSUME TypeInv, NEW t \in Tasks, pc[t] = "copy"
  PROVE  call[t].op = "getMatching" /\ call[t].filter \in Filters
  BY CallTypes DEF TypeInv, AtStep, FitsCall

LEMMA CopyEntryData ==
  ASSUME TypeInv, IInv, DataInv, ~overlapped, NEW t \in Tasks, CopyEntry(t)
  PROVE  StoreData' /\ \A u \in Tasks : TaskData(u)'
  <1> DEFINE f == call[t].filter
  <1>0. pc[t] = "copy" /\ InBody(t)
    BY DEF CopyEntry, Goto, InBody
  <1>1. pc'[t] = "copy" /\ \A u \in Tasks : u # t => UNCHANGED pc[u]
    BY <1>0, Moves DEF CopyEntry
  <1>2. UNCHANGED <<slots, content, committed, mapExists, call>>
    BY DEF CopyEntry
  <1>3. pos'[t] = pos[t] + 1 /\ \A u \in Tasks : u # t => UNCHANGED pos[u]
    BY DEF CopyEntry, TypeInv, DataTypes
  <1> PICK n \in Nat : pos[t] = n + 1
    <2>1. pos[t] \in Nat \ {0}
      BY DEF TypeInv, DataTypes
    <2> QED
      BY <2>1
  <1>4. n + 1 <= Len(slots) /\ Len(slots) \in Nat
    <2>1. slots \in Seq(Topics)
      BY DEF TypeInv, DataTypes
    <2> QED
      BY <2>1 DEF CopyEntry
  <1> PICK tp \in Topics : tp = slots[n + 1]
    <2>1. slots \in Seq(Topics)
      BY DEF TypeInv, DataTypes
    <2> QED
      BY <1>4, <2>1
  <1>5. mapCopy[t] = PartlyCopied(f, n)
    BY <1>0 DEF DataInv, TaskData
  <1>6. content = committed
    BY <1>0, AloneInside DEF DataInv, StoreData, InBody
  <1>7. /\ mapCopy' = IF Matches(f, tp) THEN [mapCopy EXCEPT ![t][tp] = committed[tp]] ELSE mapCopy
        /\ mapCopy \in [Tasks -> [Topics -> Entries]]
    BY <1>6 DEF CopyEntry, TypeInv, DataTypes
  <1>8. \A u \in Tasks : u # t => UNCHANGED mapCopy[u]
    BY <1>7
  <1>9. mapCopy'[t] = PartlyCopied(f, n + 1)
    <2>1. \A x \in Topics : (\E i \in 1..(n + 1) : slots[i] = x)
                               <=> x = tp \/ \E i \in 1..n : slots[i] = x
      OBVIOUS
    <2>2. mapCopy'[t] = IF Matches(f, tp) THEN [mapCopy[t] EXCEPT ![tp] = committed[tp]]
                        ELSE mapCopy[t]
      BY <1>7
    <2> HIDE DEF f
    <2>3. mapCopy'[t] \in [Topics -> Entries]
      BY <1>7, <2>2 DEF TypeInv, DataTypes
    <2>4. ASSUME NEW x \in Topics
          PROVE  mapCopy'[t][x] = IF Matches(f, x) /\ \E i \in 1..(n + 1) : slots[i] = x
                                  THEN committed[x] ELSE Blank
      BY <1>5, <2>1, <2>2 DEF PartlyCopied
    <2> QED
      BY <2>3, <2>4 DEF PartlyCopied
  <1>10. TaskData(t)'
    <2>1. mapCopy'[t] = PartlyCopied(call[t].filter, n + 1)'
      BY <1>2, <1>9 DEF PartlyCopied
    <2>2. pos'[t] - 1 = n + 1 /\ pos'[t] <= Len(slots) + 1
      BY <1>3, <1>4
    <2> QED
      BY <1>1, <1>2, <2>1, <2>2 DEF TaskData
  <1> QED
    BY <1>0, <1>1, <1>2, <1>3, <1>8, <1>10, QuietStep DEF DataInv

\* What getMatching has copied when its loop ends.
LEMMA GetEffect ==
  ASSUME TypeInv, IInv, DataInv, ~overlapped, NEW t \in Tasks, CopyEnded(t)
  PROVE  /\ call[t].op = "getMatching"
         /\ mapCopy[t] = Store!Snapshot(committed, call[t].filter)
  <1> DEFINE f == call[t].filter
  <1>0. pc[t] = "copy"
    BY DEF CopyEnded, Goto
  <1>1. mapCopy[t] = PartlyCopied(f, pos[t] - 1) /\ pos[t] <= Len(slots) + 1
    BY <1>0 DEF DataInv, TaskData
  <1>2. pos[t] - 1 = Len(slots)
    <2>1. pos[t] \in Nat /\ slots \in Seq(Topics) /\ pos[t] > Len(slots)
      BY DEF CopyEnded, TypeInv, DataTypes
    <2> QED
      BY <1>1, <2>1
  <1>3. \A tp \in Topics : (\E i \in 1..Len(slots) : slots[i] = tp) \/ committed[tp] = Blank
    BY DEF DataInv, StoreData, HasSlot
  <1>4. \A tp \in Topics : Store!Matches(f, tp) <=> Matches(f, tp)
    BY DEF Matches, PrefixMatches, LevelMatches, Store!Matches, Store!PrefixMatches,
           Store!LevelMatches
  <1>5. Store!Blank = Blank
    BY DEF Store!Blank, Blank
  <1>6. PartlyCopied(f, Len(slots)) = Store!Snapshot(committed, f)
    BY <1>3, <1>4, <1>5 DEF PartlyCopied, Store!Snapshot
  <1> QED
    BY <1>0, <1>1, <1>2, <1>6, GetTypes

LEMMA CopyEndedData ==
  ASSUME TypeInv, IInv, DataInv, ~overlapped, NEW t \in Tasks, CopyEnded(t)
  PROVE  StoreData' /\ \A u \in Tasks : TaskData(u)'
  <1>0. pc[t] = "copy"
    BY DEF CopyEnded, Goto
  <1>1. pc'[t] = "give" /\ \A u \in Tasks : u # t => UNCHANGED pc[u]
    BY <1>0, Moves DEF CopyEnded
  <1>2. UNCHANGED <<slots, content, committed, mapExists, call, pos, mapCopy>>
    BY DEF CopyEnded
  <1>3. TaskData(t)'
    BY <1>1, <1>2, GetEffect DEF TaskData, Store!Snapshot
  <1> QED
    BY <1>0, <1>1, <1>2, <1>3, QuietStep DEF DataInv

LEMMA StepData == TypeInv /\ IInv /\ DataInv /\ [Next]_vars => DataInv'
  <1> SUFFICES ASSUME TypeInv, IInv, DataInv, [Next]_vars, ~overlapped'
               PROVE  StoreData' /\ \A u \in Tasks : TaskData(u)'
    BY DEF DataInv
  <1>1. ASSUME NEW t \in Tasks, NEW c \in PutCalls \cup GetCalls, Enter(t, c)
        PROVE  StoreData' /\ \A u \in Tasks : TaskData(u)'
    BY <1>1, EnterData DEF Enter
  <1>2. ASSUME NEW t \in Tasks, Step(t)
        PROVE  StoreData' /\ \A u \in Tasks : TaskData(u)'
    <2>1. CASE \/ TestInitialized(t) \/ SetInitialized(t) \/ ResetMap(t)
               \/ InitMap(t) \/ CreateMutex(t)
      BY <2>1, InitializeData
    <2>2. CASE Take(t)
      BY <2>2, TakeData DEF Take
    <2>3. CASE Give(t)
      BY <2>3, GiveData DEF Give
    <2>4. CASE PutSlot(t)
      BY <2>4, PutSlotData DEF PutSlot
    <2>5. CASE PutPair(t)
      BY <2>5, PutPairData DEF PutPair
    <2>6. CASE PutStamp(t)
      BY <2>6, PutStampData DEF PutStamp
    <2>7. CASE CopyEntry(t)
      BY <2>7, CopyEntryData DEF CopyEntry
    <2>8. CASE CopyEnded(t)
      BY <2>8, CopyEndedData DEF CopyEnded
    <2> QED
      BY <1>2, <2>1, <2>2, <2>3, <2>4, <2>5, <2>6, <2>7, <2>8 DEF Step
  <1>3. ASSUME UNCHANGED <<slots, content, committed, mapExists, call, pos, mapCopy, pc, overlapped>>
        PROVE  StoreData' /\ \A u \in Tasks : TaskData(u)'
    <2>1. StoreData /\ \A u \in Tasks : TaskData(u)
      BY <1>3 DEF DataInv
    <2>2. \A u \in Tasks : TaskData(u)'
      BY <1>3, <2>1, TaskKept
    <2> QED
      BY <1>3, <2>1, <2>2 DEF StoreData, HasSlot
  <1>4. CASE Tick
    BY <1>3, <1>4 DEF Tick
  <1>5. CASE UNCHANGED vars
    BY <1>3, <1>5 DEF vars
  <1> QED
    BY <1>1, <1>2, <1>4, <1>5 DEF Next

LEMMA DataInvariance == Spec => []DataInv
  BY InitData, StepData, Types, Invariance, PTL DEF Spec

\* Whatever a snapshot holds of a topic carries a timestamp, however many tasks
\* put and copy at the same time: no reader of mqttBuffer_getMatching's result
\* dereferences a missing "timestamp" entry.
THEOREM SnapshotsAreStamped == Spec => []SnapshotsStamped
  <1>1. DataInv => SnapshotsStamped
    BY DEF DataInv, TaskData, StoreData, SnapshotsStamped, Store!Snapshot, Store!Blank, Blank
  <1> QED
    BY <1>1, DataInvariance, PTL

-----------------------------------------------------------------------------
(* The atomic store *)

LEMMA RefineInit == Init => Store!Init
  <1> SUFFICES ASSUME Init PROVE Store!Init
    OBVIOUS
  <1>1. Store!Nothing = Nothing /\ Store!Idle = Idle
    BY DEF Store!Nothing, Store!Blank, Nothing, Blank, Store!Idle, Idle
  <1>2. \A t \in Tasks : Request(t) = Idle /\ Reply(t) = Nothing
    BY DEF Init, Request, Reply, TookEffect, Idle
  <1> QED
    BY <1>1, <1>2 DEF Init, Store!Init, Phase, Requests, Replies

\* One task has moved: its request and its reply are the only ones that change.
LEMMA OneMoves ==
  ASSUME NEW t \in Tasks,
         \A u \in Tasks : u # t => UNCHANGED <<pc[u], call[u], mapCopy[u]>>
  PROVE  /\ Requests' = [Requests EXCEPT ![t] = Request(t)']
         /\ Replies' = [Replies EXCEPT ![t] = Reply(t)']
  <1>1. \A u \in Tasks : u # t => UNCHANGED <<Request(u), Reply(u)>>
    BY DEF Request, Reply, TookEffect
  <1> QED
    BY <1>1 DEF Requests, Replies

\* A step nobody who uses the store can see.
LEMMA Unseen ==
  ASSUME NEW t \in Tasks,
         \A u \in Tasks : u # t => UNCHANGED <<pc[u], call[u], mapCopy[u]>>,
         UNCHANGED <<committed, overlapped, Request(t), Reply(t)>>
  PROVE  UNCHANGED Store!vars
  <1>1. UNCHANGED <<Requests, Replies>>
    BY OneMoves DEF Requests, Replies
  <1> QED
    BY <1>1 DEF Store!vars, Phase

\* A step of a function inside the mutex that neither begins nor ends it.
LEMMA InsideUnseen ==
  ASSUME NEW t \in Tasks, pc[t] # "give", pc'[t] # "give", UNCHANGED call
  PROVE  UNCHANGED <<Request(t), Reply(t)>>
  BY DEF Request, Reply, TookEffect

\* Once two tasks have met in the first use, they have.
LEMMA MetForGood == [Next]_vars /\ overlapped => overlapped'
  <1> SUFFICES ASSUME [Next]_vars, overlapped PROVE overlapped'
    OBVIOUS
  <1>1. ASSUME NEW t \in Tasks, Step(t) PROVE overlapped'
    BY <1>1 DEF Step, TestInitialized, SetInitialized, ResetMap, InitMap, CreateMutex, Take,
                Give, PutSlot, PutPair, PutStamp, CopyEntry, CopyEnded
  <1> QED
    BY <1>1 DEF Next, Enter, Tick, vars

LEMMA RefineEnter ==
  ASSUME TypeInv, ~overlapped', NEW t \in Tasks, NEW c \in PutCalls \cup GetCalls, Enter(t, c)
  PROVE  Store!Call(t, c)
  <1>1. pc[t] = "idle" /\ pc'[t] = "test" /\ \A u \in Tasks : u # t => UNCHANGED pc[u]
    BY Moves DEF Enter
  <1>2. call'[t] = c /\ \A u \in Tasks : u # t => UNCHANGED call[u]
    BY DEF Enter, TypeInv, AtStep
  <1>3. c.op \in {"put", "getMatching"} /\ call[t] = Idle
    BY <1>1 DEF PutCalls, GetCalls, TypeInv, AtStep, FitsCall
  <1>4. UNCHANGED <<committed, overlapped, mapCopy>>
    BY DEF Enter
  <1>5. Request(t) = Idle /\ Request(t)' = c /\ UNCHANGED Reply(t)
    BY <1>1, <1>2, <1>3 DEF Request, Reply, TookEffect, Idle
  <1>6. UNCHANGED Replies /\ Requests' = [Requests EXCEPT ![t] = c]
    BY <1>1, <1>2, <1>4, <1>5, OneMoves DEF Replies
  <1> QED
    BY <1>4, <1>5, <1>6 DEF Store!Call, Store!Idle, Idle, Phase, Requests

LEMMA RefinePut ==
  ASSUME TypeInv, IInv, DataInv, ~overlapped', NEW t \in Tasks, PutStamp(t)
  PROVE  Store!Put(t)
  <1>1. pc[t] = "pair" /\ pc'[t] = "give" /\ \A u \in Tasks : u # t => UNCHANGED pc[u]
    BY Moves DEF PutStamp
  <1>2. UNCHANGED <<overlapped, mapCopy, call>>
    BY DEF PutStamp
  <1>3. /\ call[t].op = "put"
        /\ committed' = [committed EXCEPT ![call[t].topic] =
              [pairs |-> Store!Merged(@.pairs, call[t].msg), timestamp |-> now]]
    BY <1>2, PutEffect
  <1>4. now \in Times
    BY DEF TypeInv, DataTypes
  <1>5. Request(t) = call[t] /\ Request(t)' = [op |-> "done"] /\ UNCHANGED Reply(t)
    BY <1>1, <1>2, <1>3 DEF Request, Reply, TookEffect
  <1>6. UNCHANGED Replies /\ Requests' = [Requests EXCEPT ![t] = [op |-> "done"]]
    BY <1>1, <1>2, <1>5, OneMoves DEF Replies
  <1>7. Requests[t] = call[t]
    BY <1>5 DEF Requests
  <1> QED
    BY <1>2, <1>3, <1>4, <1>6, <1>7 DEF Store!Put, Phase

LEMMA RefineGet ==
  ASSUME TypeInv, IInv, DataInv, ~overlapped', NEW t \in Tasks, CopyEnded(t)
  PROVE  Store!Get(t)
  <1>1. pc[t] = "copy" /\ pc'[t] = "give" /\ \A u \in Tasks : u # t => UNCHANGED pc[u]
    BY Moves DEF CopyEnded
  <1>2. UNCHANGED <<overlapped, mapCopy, call, committed>>
    BY DEF CopyEnded
  <1>3. /\ call[t].op = "getMatching"
        /\ mapCopy[t] = Store!Snapshot(committed, call[t].filter)
    BY <1>2, GetEffect
  <1>4. /\ Request(t) = call[t] /\ Request(t)' = [op |-> "done"]
        /\ Reply(t)' = Store!Snapshot(committed, call[t].filter)
    BY <1>1, <1>2, <1>3 DEF Request, Reply, TookEffect
  <1>5. /\ Requests' = [Requests EXCEPT ![t] = [op |-> "done"]]
        /\ Replies' = [Replies EXCEPT ![t] = Store!Snapshot(committed, call[t].filter)]
    BY <1>1, <1>2, <1>4, OneMoves
  <1>6. Requests[t] = call[t]
    BY <1>4 DEF Requests
  <1> QED
    BY <1>2, <1>3, <1>5, <1>6 DEF Store!Get, Phase

\* Giving the mutex back ends getMatching and the display after a put.  Between
\* mqttBuffer_put and its display nothing is to be seen.
LEMMA RefineGive ==
  ASSUME TypeInv, IInv, ~overlapped', NEW t \in Tasks, Give(t)
  PROVE  Store!Return(t) \/ UNCHANGED Store!vars
  <1>0. ~overlapped /\ UNCHANGED <<overlapped, committed>>
    BY DEF Give
  <1>1. pc[t] = "give" /\ holder[mutex] = t
    BY <1>0, MeetsMutex DEF Give, PastInitialize, InBody, IInv, Orderly, BodyHolds
  <1>2. /\ pc'[t] = (IF call[t].op = "put" THEN "test" ELSE "idle")
        /\ \A u \in Tasks : u # t => UNCHANGED pc[u]
    BY <1>1 DEF Give, Goto, TypeInv, AtStep
  <1>3. /\ call'[t] = (IF call[t].op = "put" THEN Display ELSE Idle)
        /\ \A u \in Tasks : u # t => UNCHANGED call[u]
    BY <1>1 DEF Give, TypeInv, AtStep
  <1>4. \A u \in Tasks : u # t => UNCHANGED mapCopy[u]
    BY <1>1 DEF Give, TypeInv, DataTypes
  <1>5. call[t].op \in {"put", "getMatching", "display"}
    BY <1>1, CallTypes DEF TypeInv, AtStep, FitsCall
  <1>6. CASE call[t].op = "put"
    <2>1. UNCHANGED <<Request(t), Reply(t)>>
      BY <1>1, <1>2, <1>3, <1>6 DEF Request, Reply, TookEffect, Display
    <2> QED
      BY <1>0, <1>2, <1>3, <1>4, <2>1, Unseen
  <1>7. CASE call[t].op # "put"
    <2>1. Request(t) = [op |-> "done"] /\ Request(t)' = Idle /\ Reply(t)' = Nothing
      BY <1>1, <1>2, <1>3, <1>5, <1>7 DEF Request, Reply, TookEffect, Idle
    <2>2. /\ Requests' = [Requests EXCEPT ![t] = Idle]
          /\ Replies' = [Replies EXCEPT ![t] = Nothing]
      BY <1>2, <1>3, <1>4, <2>1, OneMoves
    <2>3. Requests[t].op = "done"
      BY <2>1 DEF Requests
    <2>4. Store!Nothing = Nothing /\ Store!Idle = Idle
      BY DEF Store!Nothing, Store!Blank, Nothing, Blank, Store!Idle, Idle
    <2> QED
      BY <1>0, <2>2, <2>3, <2>4 DEF Store!Return, Phase
  <1> QED
    BY <1>6, <1>7

\* What is left of the steps is not to be seen.
LEMMA RefineUnseen ==
  ASSUME TypeInv, IInv, DataInv, ~overlapped, ~overlapped', NEW t \in Tasks, Step(t),
         ~Give(t), ~PutStamp(t), ~CopyEnded(t)
  PROVE  UNCHANGED Store!vars
  <1>0. UNCHANGED overlapped
    BY DEF TypeInv, DataTypes, Step, TestInitialized, SetInitialized, ResetMap, InitMap,
           CreateMutex, Take, PutSlot, PutPair, CopyEntry
  <1>1. CASE Take(t)
    <2>1. pc[t] = "take" /\ mutex = 1
      BY <1>1, MeetsMutex DEF Take, Abort, Goto, PastInitialize
    <2>2. /\ pc'[t] = Body(call[t].op)
          /\ \A u \in Tasks : u # t => UNCHANGED pc[u]
      BY <1>1, <2>1 DEF Take, Goto, TypeInv, AtStep
    <2>3. call[t].op \in {"put", "getMatching", "display"}
      BY <2>1, CallTypes DEF TypeInv, AtStep, FitsCall
    <2>4. UNCHANGED <<committed, call, mapCopy>>
      BY <1>1 DEF Take
    <2>5. UNCHANGED <<Request(t), Reply(t)>>
      BY <2>1, <2>2, <2>3, <2>4 DEF Request, Reply, TookEffect, Body
    <2> QED
      BY <1>0, <2>2, <2>4, <2>5, Unseen
  <1>2. CASE ~Take(t)
    <2>1. PICK a \in Steps \ {"give"}, b \in Steps \ {"give"} : Goto(t, a, b)
      BY <1>2 DEF Step, TestInitialized, SetInitialized, ResetMap, InitMap, CreateMutex,
                  PutSlot, PutPair, CopyEntry, Abort, Steps
    <2>2. UNCHANGED <<committed, call>> /\ \A u \in Tasks : u # t => UNCHANGED mapCopy[u]
      BY <1>2 DEF Step, TestInitialized, SetInitialized, ResetMap, InitMap, CreateMutex,
                  PutSlot, PutPair, CopyEntry, TypeInv, DataTypes
    <2>3. UNCHANGED <<Request(t), Reply(t)>>
      BY <2>1, <2>2, Moves, InsideUnseen
    <2> QED
      BY <1>0, <2>1, <2>2, <2>3, Moves, Unseen
  <1> QED
    BY <1>1, <1>2

LEMMA RefineStep == TypeInv /\ IInv /\ DataInv /\ [Next]_vars => [Store!Next]_Store!vars
  <1> SUFFICES ASSUME TypeInv, IInv, DataInv, [Next]_vars
               PROVE  Store!Next \/ UNCHANGED Store!vars
    OBVIOUS
  <1>1. CASE overlapped
    BY <1>1, MetForGood DEF Store!Next, Store!Undefined, Phase
  <1>2. CASE ~overlapped /\ overlapped'
    BY <1>2 DEF Store!Next, Store!MeetInFirstUse, Phase
  <1>3. CASE ~overlapped /\ ~overlapped'
    <2>1. ASSUME NEW t \in Tasks, NEW c \in PutCalls \cup GetCalls, Enter(t, c)
          PROVE  Store!Next
      BY <1>3, <2>1, RefineEnter
      DEF Store!Next, Store!PutRequests, Store!GetRequests, PutCalls, GetCalls
    <2>2. ASSUME NEW t \in Tasks, Step(t) PROVE Store!Next \/ UNCHANGED Store!vars
      BY <1>3, <2>2, RefinePut, RefineGet, RefineGive, RefineUnseen DEF Store!Next
    <2>3. CASE Tick
      BY <2>3 DEF Tick, Store!vars, Phase, Requests, Replies, Request, Reply, TookEffect
    <2>4. CASE UNCHANGED vars
      BY <2>4 DEF vars, Store!vars, Phase, Requests, Replies, Request, Reply, TookEffect
    <2> QED
      BY <2>1, <2>2, <2>3, <2>4 DEF Next
  <1> QED
    BY <1>1, <1>2, <1>3

\* buffer.cpp implements the store of buffer.h, for any tasks, topics, filters
\* and messages: every mqttBuffer_put and mqttBuffer_getMatching takes effect at
\* one instant between its call and its return, until two tasks have met in the
\* first use.
THEOREM BufferRefines == Spec => ImplementsStore
  BY RefineInit, RefineStep, Types, Invariance, DataInvariance, PTL
  DEF Spec, ImplementsStore, Store!Spec
=============================================================================
