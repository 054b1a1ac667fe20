-------------------------- MODULE MqttClientProofs --------------------------
(***************************************************************************)
(* The subscriptions, the connect state and the override of main/mqtt.cpp, *)
(* for any number of losses, failed attempts and messages.                 *)
(***************************************************************************)
EXTENDS MqttClient, TLAPS

-----------------------------------------------------------------------------
(* The inductive invariant *)

Steps ==
    {"wifi", "wait", "start", "flag", "subscribe", "test", "request", "done", "created", "idle",
     "send", "store", "storeUnsent", "stopped", "offline", "birth", "replay", "connected",
     "online", "disconnected"}

Types ==
    /\ pc \in [Tasks -> Steps]
    /\ subscriptions \in Seq({"temperature", "override"})
    /\ replay \in Nat \ {0}
    /\ connected \in BOOLEAN /\ session \in BOOLEAN /\ setupComplete \in BOOLEAN
    /\ failed \in BOOLEAN

\* The handler's task starts with the client; the flag lags behind the session by the steps of the handler.
FlagFollows ==
    /\ pc["main"] \in {"wifi", "wait", "start"} => pc["mqtt"] = "stopped"
    /\ pc["mqtt"] = "online" => connected
    /\ pc["mqtt"] \in {"stopped", "offline", "birth", "replay", "connected"} => ~connected
    /\ pc["mqtt"] \in {"stopped", "offline", "disconnected"} => ~session

\* In the handler's loop: what the iterator has passed is subscribed.
PassedIsLive ==
    pc["mqtt"] = "replay" =>
        /\ replay <= Len(subscriptions) + 1
        /\ session /\ ~failed =>
              \A i \in 1..Len(subscriptions) : i < replay => subscriptions[i] \in brokerSubs

\* The task that saves x is between saving and asking for it.
Pending(x) == \E t \in {"main", "loop"} : TopicOf(t) = x /\ pc[t] \in {"test", "request"}

\* Behind the loop: a saved topic is subscribed, or about to be, or was missed.
SavedIsLive ==
    session /\ ~failed /\ pc["mqtt"] \in {"connected", "online"} =>
        \A i \in 1..Len(subscriptions) :
            subscriptions[i] \in brokerSubs \cup raced \/ Pending(subscriptions[i])

IInv ==
    /\ Types /\ FlagFollows /\ PassedIsLive /\ SavedIsLive
    /\ ConnectStateStaysLocal

LEMMA InitIInv == Init => IInv
<1> SUFFICES ASSUME Init PROVE IInv
  OBVIOUS
<1>1. DOMAIN pc = Tasks
  BY DEF Init, Tasks
<1>2. pc["main"] = "wifi" /\ pc["loop"] = "created" /\ pc["mqtt"] = "stopped"
  BY DEF Init
<1>3. pc = [t \in Tasks |-> pc[t]]
  BY <1>1, <1>2 DEF Init
<1>4. \A t \in Tasks : pc[t] \in Steps
  BY <1>2 DEF Tasks, Steps
<1>5. pc \in [Tasks -> Steps]
  BY <1>3, <1>4, Zenon
<1>6. subscriptions \in Seq({"temperature", "override"}) /\ replay \in Nat \ {0}
  BY DEF Init
<1>7. Types
  BY <1>5, <1>6 DEF Init, Types
<1>8. FlagFollows
  BY <1>2 DEF Init, FlagFollows
<1>9. PassedIsLive /\ SavedIsLive /\ ConnectStateStaysLocal
  BY <1>2 DEF Init, PassedIsLive, SavedIsLive, ConnectStateStaysLocal
<1> QED
  BY <1>7, <1>8, <1>9 DEF IInv

LEMMA NextIInv == IInv /\ [Next]_vars => IInv'
<1> SUFFICES ASSUME IInv, [Next]_vars PROVE IInv'
  OBVIOUS
<1> USE DEF IInv, Types, FlagFollows, PassedIsLive, SavedIsLive, ConnectStateStaysLocal, Pending,
        TopicOf, Goto, Tasks, Steps, flags, saved, wifi, store, broker, bounds, history
<1>1. CASE WifiStep
  BY <1>1 DEF WifiStep, HandleWifiEvent, GetIp
<1>2. CASE StartWifi
  BY <1>2 DEF StartWifi
<1>3. CASE WaitForIp
  BY <1>3 DEF WaitForIp
<1>4. CASE StartClient
  BY <1>4 DEF StartClient
<1>5. CASE SetSetupComplete
  BY <1>5 DEF SetSetupComplete
<1>6. CASE StartLoopTask
  BY <1>6 DEF StartLoopTask
<1>7. ASSUME NEW t \in {"main", "loop"}, SaveTopic(t) PROVE IInv'
  <2> DEFINE x == TopicOf(t)
  <2>1. /\ pc[t] = "subscribe" /\ pc' = [pc EXCEPT ![t] = "test"] /\ ~failed
        /\ subscriptions' = Append(subscriptions, x)
        /\ UNCHANGED <<flags, replay, broker, raced>>
    BY <1>7 DEF SaveTopic
  <2>2. x \in {"temperature", "override"}
    OBVIOUS
  <2>3. /\ Len(subscriptions') = Len(subscriptions) + 1
        /\ subscriptions'[Len(subscriptions) + 1] = x
        /\ \A i \in 1..Len(subscriptions) : subscriptions'[i] = subscriptions[i]
        /\ subscriptions' \in Seq({"temperature", "override"})
    BY <2>1, <2>2
  <2>4. failed' \in BOOLEAN
    BY <1>7 DEF SaveTopic
  <2>5. Types' /\ FlagFollows'
    BY <2>1, <2>3, <2>4
  <2>6. PassedIsLive'
    BY <2>1, <2>3
  <2>7. SavedIsLive'
    BY <2>1, <2>3
  <2> QED
    BY <2>1, <2>5, <2>6, <2>7
<1>8. ASSUME NEW t \in {"main", "loop"}, TestConnected(t) PROVE IInv'
  BY <1>8 DEF TestConnected, Finished
<1>9. ASSUME NEW t \in {"main", "loop"}, RequestSubscription(t) PROVE IInv'
  BY <1>9 DEF RequestSubscription, Finished
<1>10. ASSUME NEW m \in Own, BeginPublish(m) PROVE IInv'
  BY <1>10 DEF BeginPublish
<1>11. CASE SendOverride
  BY <1>11 DEF SendOverride, Publish
<1>12. CASE StoreOverride
  BY <1>12 DEF StoreOverride
<1>13. CASE Connect
  BY <1>13 DEF Connect
<1>14. CASE ConnectedPublish
  BY <1>14 DEF ConnectedPublish, PublishConnectState
<1>15. CASE ReplaySubscription
  BY <1>15 DEF ReplaySubscription
<1>16. CASE ReplayEnded
  BY <1>16 DEF ReplayEnded
<1>17. CASE SetConnected
  BY <1>17 DEF SetConnected
<1>18. CASE Receive
  BY <1>18 DEF Receive
<1>19. CASE DisconnectedPublish
  BY <1>19 DEF DisconnectedPublish, PublishConnectState
<1>20. CASE ConnectFails
  BY <1>20 DEF ConnectFails, PublishConnectState
<1>21. CASE ClearConnected
  BY <1>21 DEF ClearConnected
<1>22. CASE LoseWifi
  BY <1>22 DEF LoseWifi, SessionEnds
<1>23. CASE Drop
  BY <1>23 DEF Drop, SessionEnds
<1>24. ASSUME NEW m \in Foreign, OtherController(m) PROVE IInv'
  BY <1>24 DEF OtherController, Publish
<1>25. CASE UNCHANGED vars
  BY <1>25 DEF vars
<1> QED
  BY <1>1, <1>2, <1>3, <1>4, <1>5, <1>6, <1>7, <1>8, <1>9, <1>10, <1>11, <1>12, <1>13, <1>14,
     <1>15, <1>16, <1>17, <1>18, <1>19, <1>20, <1>21, <1>22, <1>23, <1>24, <1>25
     DEF Next, AppStep, MqttStep

LEMMA IInvAlways == Spec => []IInv
  BY InitIInv, NextIInv, PTL DEF Spec

-----------------------------------------------------------------------------
(* The results *)

\* Whenever the client is online, what was saved is subscribed, except for a topic
\* that was tested behind the handler's loop and before its setting of connected;
\* for any number of losses and whatever they interrupt.
THEOREM SavedAreSubscribed == Spec => []SavedTopicsLive
<1>1. IInv => SavedTopicsLive
  <2> SUFFICES ASSUME IInv, session, pc["mqtt"] = "online", pc["main"] = "done",
                      pc["loop"] \notin Subscribing, ~failed
               PROVE  Rng(subscriptions) \subseteq brokerSubs \cup raced
    BY DEF SavedTopicsLive
  <2>1. \A x : ~Pending(x)
    BY DEF Pending, Subscribing
  <2>2. \A i \in 1..Len(subscriptions) : subscriptions[i] \in brokerSubs \cup raced
    BY <2>1 DEF IInv, SavedIsLive
  <2> QED
    BY <2>2 DEF Rng
<1> QED
  BY <1>1, IInvAlways, PTL

\* The broker never hears the connect state: the device is not connected yet when it
\* says "true", and has no session any more when it says "false".
THEOREM ConnectStateUnheard == Spec => []ConnectStateStaysLocal
<1>1. IInv => ConnectStateStaysLocal
  BY DEF IInv
<1> QED
  BY <1>1, IInvAlways, PTL
-----------------------------------------------------------------------------
(* Types, and the override in the buffer *)

\* A task that has saved its topic finds it saved until it is done.
OwnTopicSaved ==
    \A t \in {"main", "loop"} : pc[t] \in {"test", "request"} => TopicOf(t) \in Rng(subscriptions)

\* Messages arrive in order: the last one under way is the broker's latest.  What
\* loopTask is about to store is what it published last; while that is still under
\* way it is where `ahead' says, and once nothing is it is the broker's latest
\* unless a newer message was handled before it is stored.
OverrideInOrder ==
    /\ delivered /\ inbox # <<>> => inbox[Len(inbox)] = latest
    /\ Publishing => draft = lastOwn
    /\ pc["loop"] = "store" /\ ahead > 0 => inbox[ahead] = draft
    /\ pc["loop"] = "store" /\ delivered /\ inbox = <<>> => latest = draft \/ overtaken
    /\ OverrideIsLatest

TInv == TypeOK /\ OwnTopicSaved /\ OverrideInOrder

LEMMA InitTInv == Init => TInv
<1> SUFFICES ASSUME Init PROVE TInv
  OBVIOUS
<1>1. DOMAIN pc = Tasks
  BY DEF Init, Tasks
<1>2. pc["main"] = "wifi" /\ pc["loop"] = "created" /\ pc["mqtt"] = "stopped"
  BY DEF Init
<1>3. subscriptions \in Seq({"temperature", "override"}) /\ inbox \in Seq(Messages)
      /\ wifiEvents \in Seq({"START", "GOT_IP", "DISCONNECTED"})
  BY DEF Init
<1>4. {draft, override, latest, lastOwn} \subseteq Messages
  BY DEF Init, Messages
<1>5. raced \subseteq Rng(subscriptions) /\ brokerSubs \subseteq Rng(subscriptions)
  BY DEF Init
<1>6. drops \in 0..MaxDrops /\ messages \in 0..MaxMessages /\ replay \in Nat \ {0}
  BY ConstantsOK DEF Init, ConstantsOK
<1>6a. ahead \in 0..Len(inbox) /\ overtaken \in BOOLEAN
  <2>1. ahead = 0 /\ Len(inbox) = 0 /\ overtaken = FALSE
    BY DEF Init
  <2>2. overtaken \in BOOLEAN
    BY <2>1
  <2> QED
    BY <2>1, <2>2
<1>7. TypeOK
  BY <1>1, <1>2, <1>3, <1>4, <1>5, <1>6, <1>6a DEF Init, TypeOK
<1>8. OwnTopicSaved /\ OverrideInOrder
  BY <1>2 DEF Init, OwnTopicSaved, OverrideInOrder, Publishing, OverrideIsLatest
<1> QED
  BY <1>7, <1>8 DEF TInv

\* What the broker does with a message.
LEMMA PublishTypes ==
  ASSUME inbox \in Seq(Messages), NEW m \in Messages, Publish(m)
  PROVE  /\ latest' = m /\ delivered' \in BOOLEAN
         /\ inbox' \in Seq(Messages)
         /\ "override" \notin brokerSubs => inbox' = inbox /\ ~delivered'
         /\ delivered' => inbox' # <<>> /\ inbox'[Len(inbox')] = m
         /\ Len(inbox) \in Nat /\ Len(inbox') \in Nat /\ Len(inbox') >= Len(inbox)
         /\ \A i \in 1..Len(inbox) : inbox'[i] = inbox[i]
         /\ "override" \in brokerSubs => Len(inbox') > 0 /\ inbox'[Len(inbox')] = m
<1>1. delivered' = ("override" \in brokerSubs)
  BY DEF Publish
<1>2. CASE "override" \in brokerSubs
  <2>1. delivered' = TRUE
    BY <1>1, <1>2
  <2> QED
    BY <1>2, <2>1 DEF Publish
<1>3. CASE "override" \notin brokerSubs
  <2>1. ~delivered'
    BY <1>1, <1>3
  <2>2. delivered' \in BOOLEAN
    BY <1>1
  <2> QED
    BY <1>3, <2>1, <2>2 DEF Publish
<1> QED
  BY <1>2, <1>3

\* The end of a session, and the beginning of the next one.
LEMMA FreshSession ==
  ASSUME inbox' = <<>>, delivered' = FALSE
  PROVE  /\ inbox' \in Seq(Messages) /\ ~delivered' /\ delivered' \in BOOLEAN
         /\ ahead' = 0 => ahead' \in 0..Len(inbox')
<1>1. inbox' \in Seq(Messages)
  OBVIOUS
<1>2. ~delivered'
  OBVIOUS
<1>3. delivered' \in BOOLEAN
  OBVIOUS
<1>4. ahead' = 0 => ahead' \in 0..Len(inbox')
  OBVIOUS
<1> QED
  BY <1>1, <1>2, <1>3, <1>4

\* Taking the first message leaves the last one where it was.
LEMMA LastOfTail ==
  ASSUME NEW S, NEW q \in Seq(S), q # <<>>
  PROVE  /\ Head(q) \in S /\ Tail(q) \in Seq(S)
         /\ Tail(q) # <<>> => Tail(q)[Len(Tail(q))] = q[Len(q)]
         /\ Tail(q) = <<>> => Head(q) = q[Len(q)]
         /\ Len(q) \in Nat \ {0} /\ Len(Tail(q)) = Len(q) - 1
         /\ \A i \in 1..Len(q) : i > 1 => Tail(q)[i - 1] = q[i]
         /\ Tail(q) = <<>> => Len(q) = 1
         /\ Head(q) = q[1]
<1>1. Len(q) \in Nat \ {0} /\ Head(q) = q[1] /\ Head(q) \in S
  OBVIOUS
<1>2. /\ Tail(q) \in Seq(S) /\ Len(Tail(q)) = Len(q) - 1
      /\ \A i \in 1..(Len(q) - 1) : Tail(q)[i] = q[i + 1]
  OBVIOUS
<1>3. Tail(q) # <<>> => Len(q) - 1 \in 1..(Len(q) - 1)
  <2>1. \A r \in Seq(S) : r # <<>> => Len(r) # 0
    OBVIOUS
  <2>2. Tail(q) # <<>> => Len(q) - 1 # 0
    BY <1>2, <2>1
  <2> QED
    BY <1>1, <2>2
<1>4. Tail(q) = <<>> => Len(q) = 1
  <2>1. \A r : r = <<>> => Len(r) = 0
    OBVIOUS
  <2>2. Tail(q) = <<>> => Len(q) - 1 = 0
    BY <1>2, <2>1
  <2> QED
    BY <1>1, <2>2
<1>5. \A i \in 1..Len(q) : i > 1 => i - 1 \in 1..(Len(q) - 1) /\ i - 1 + 1 = i
  BY <1>1
<1> QED
  BY <1>1, <1>2, <1>3, <1>4, <1>5

\* The handler takes a message: what becomes of the order of the messages.
LEMMA ReceiveInOrder ==
  ASSUME TypeOK, OverrideInOrder, Receive
  PROVE  /\ override' \in Messages /\ inbox' \in Seq(Messages)
         /\ ahead' \in 0..Len(inbox') /\ overtaken' \in BOOLEAN
         /\ OverrideInOrder'
<1>1. inbox \in Seq(Messages) /\ inbox # <<>> /\ inbox' = Tail(inbox) /\ override' = Head(inbox)
  BY DEF Receive, TypeOK
<1>2. /\ override' \in Messages /\ inbox' \in Seq(Messages)
      /\ inbox' # <<>> => inbox'[Len(inbox')] = inbox[Len(inbox)]
      /\ inbox' = <<>> => override' = inbox[Len(inbox)] /\ Len(inbox) = 1
      /\ Len(inbox) \in Nat \ {0} /\ Len(inbox') = Len(inbox) - 1
      /\ \A i \in 1..Len(inbox) : i > 1 => inbox'[i - 1] = inbox[i]
  BY <1>1, LastOfTail
<1>3. overtaken' = (pc["loop"] = "store" /\ ahead = 0)
  BY DEF Receive
<1>4. overtaken' \in BOOLEAN
  BY <1>3
<1>5. ahead \in 0..Len(inbox) /\ ahead' = IF ahead > 0 THEN ahead - 1 ELSE 0
  BY DEF Receive, TypeOK
<1>6. ahead' \in 0..Len(inbox')
  BY <1>2, <1>5
<1>7. pc' = [pc EXCEPT !["mqtt"] = "online"] /\ UNCHANGED <<draft, latest, delivered, lastOwn>>
  BY DEF Receive, Goto
<1>8. pc'["loop"] = pc["loop"]
  BY <1>7
<1>9. delivered' /\ inbox' # <<>> => inbox'[Len(inbox')] = latest'
  BY <1>1, <1>2, <1>7 DEF OverrideInOrder
<1>10. Publishing' => draft' = lastOwn'
  BY <1>7, <1>8 DEF OverrideInOrder, Publishing
<1>11. ASSUME pc'["loop"] = "store", ahead' > 0 PROVE inbox'[ahead'] = draft'
  <2>1. ahead > 1 /\ ahead \in 1..Len(inbox) /\ ahead' = ahead - 1
    BY <1>2, <1>5, <1>11
  <2>2. inbox[ahead] = draft
    BY <1>8, <1>11, <2>1 DEF OverrideInOrder
  <2> QED
    BY <1>2, <1>7, <2>1, <2>2
<1>12. ASSUME pc'["loop"] = "store", delivered', inbox' = <<>>
       PROVE  latest' = draft' \/ overtaken'
  <2>1. inbox[Len(inbox)] = latest /\ Len(inbox) = 1
    BY <1>1, <1>2, <1>7, <1>12 DEF OverrideInOrder
  <2>2. CASE ahead = 0
    BY <1>3, <1>8, <1>12, <2>2
  <2>3. CASE ahead > 0
    <3>1. ahead = 1
      BY <1>5, <2>1, <2>3
    <3> QED
      BY <1>7, <1>8, <1>12, <2>1, <2>3, <3>1 DEF OverrideInOrder
  <2> QED
    BY <1>5, <2>2, <2>3
<1>13. OverrideIsLatest'
  BY <1>1, <1>2, <1>7 DEF OverrideInOrder, OverrideIsLatest
<1> QED
  BY <1>2, <1>4, <1>6, <1>9, <1>10, <1>11, <1>12, <1>13 DEF OverrideInOrder

LEMMA NextTInv == IInv /\ TInv /\ [Next]_vars => TInv'
<1> SUFFICES ASSUME IInv, TInv, [Next]_vars PROVE TInv'
  OBVIOUS
<1>0. pc \in [Tasks -> Steps]
  BY DEF IInv, Types
<1> USE <1>0, ConstantsOK
    DEF ConstantsOK, TInv, TypeOK, OwnTopicSaved, OverrideInOrder, OverrideIsLatest, Publishing,
        TopicOf, Goto, Tasks, flags, saved, wifi, store, broker, bounds, history, order, Rng,
        Messages
<1>1. CASE WifiStep
  <2>1. /\ connectedBit' \in BOOLEAN
        /\ station' \in {"off", "idle", "trying", "online"}
        /\ wifiEvents' \in Seq({"START", "GOT_IP", "DISCONNECTED"})
    <3>1. CASE HandleWifiEvent
      <4>1. connectedBit' = connectedBit \/ connectedBit' = (Head(wifiEvents) = "GOT_IP")
        BY <3>1 DEF HandleWifiEvent, WifiHandler
      <4>2. connectedBit' \in BOOLEAN
        BY <4>1, Zenon DEF TypeOK
      <4> QED
        BY <3>1, <4>2 DEF HandleWifiEvent, WifiHandler
    <3>2. CASE GetIp
      BY <3>2 DEF GetIp
    <3> QED
      BY <1>1, <3>1, <3>2 DEF WifiStep
  <2>2. UNCHANGED <<flags, saved, pc, store, broker, bounds, history, failed>>
    BY <1>1 DEF WifiStep, HandleWifiEvent, GetIp
  <2>3. UNCHANGED <<setupComplete, connected, subscriptions, replay, pc, draft, connectState,
                    override, session, brokerSubs, inbox, latest, announced, failed, drops,
                    messages, raced, delivered, lastOwn, ahead, overtaken>>
    BY <2>2
  <2>4. TypeOK'
    BY <2>1, <2>3
  <2>5. OwnTopicSaved' /\ OverrideInOrder'
    BY <2>3
  <2> QED
    BY <2>4, <2>5
<1>2. CASE StartWifi
  BY <1>2 DEF StartWifi
<1>3. CASE WaitForIp
  BY <1>3 DEF WaitForIp
<1>4. CASE StartClient
  BY <1>4 DEF StartClient
<1>5. CASE SetSetupComplete
  BY <1>5 DEF SetSetupComplete
<1>6. CASE StartLoopTask
  BY <1>6 DEF StartLoopTask
<1>7. ASSUME NEW t \in {"main", "loop"}, SaveTopic(t) PROVE TInv'
  BY <1>7 DEF SaveTopic
<1>8. ASSUME NEW t \in {"main", "loop"}, TestConnected(t) PROVE TInv'
  BY <1>8 DEF TestConnected, Finished
<1>9. ASSUME NEW t \in {"main", "loop"}, RequestSubscription(t) PROVE TInv'
  BY <1>9 DEF RequestSubscription, Finished
<1>10. ASSUME NEW m \in Own, BeginPublish(m) PROVE TInv'
  BY <1>10 DEF BeginPublish
<1>11. CASE SendOverride
  <2>1. CASE session
    <3>1. /\ Publish(draft) /\ draft \in Messages /\ inbox \in Seq(Messages)
          /\ pc["loop"] = "send" /\ pc' = [pc EXCEPT !["loop"] = "store"]
          /\ ahead' = IF "override" \in brokerSubs THEN Len(inbox') ELSE 0
          /\ overtaken' = FALSE
          /\ UNCHANGED <<flags, wifi, saved, store, session, brokerSubs, announced, bounds, raced,
                         lastOwn, failed>>
      BY <1>11, <2>1 DEF SendOverride
    <3>2. /\ latest' = draft /\ delivered' \in BOOLEAN /\ inbox' \in Seq(Messages)
          /\ delivered' => inbox' # <<>> /\ inbox'[Len(inbox')] = draft
          /\ Len(inbox') \in Nat
          /\ "override" \in brokerSubs => Len(inbox') > 0 /\ inbox'[Len(inbox')] = draft
      BY <3>1, PublishTypes
    <3>3. ahead' \in 0..Len(inbox') /\ (ahead' > 0 => inbox'[ahead'] = draft)
      BY <3>1, <3>2
    <3>4. overtaken' \in BOOLEAN
      BY <3>1
    <3>5. inbox' = <<>> => ~delivered'
      BY <3>2
    <3> QED
      BY <2>1, <3>1, <3>2, <3>3, <3>4, <3>5
  <2>2. CASE ~session
    BY <1>11, <2>2 DEF SendOverride
  <2> QED
    BY <2>1, <2>2
<1>12. CASE StoreOverride
  <2>1. CASE pc["loop"] = "store"
    BY <1>12, <2>1 DEF StoreOverride
  <2>2. CASE pc["loop"] = "storeUnsent"
    <3>1. delivered' = FALSE
      BY <1>12, <2>2 DEF StoreOverride
    <3>2. delivered' \in BOOLEAN /\ ~delivered'
      BY <3>1
    <3>3. /\ pc' = [pc EXCEPT !["loop"] = "idle"] /\ override' = draft /\ draft' = None
          /\ UNCHANGED <<flags, wifi, saved, connectState, broker, bounds, raced, lastOwn, order,
                         failed>>
      BY <1>12, <2>2 DEF StoreOverride
    <3> QED
      BY <2>2, <3>2, <3>3
  <2> QED
    BY <1>12, <2>1, <2>2 DEF StoreOverride
<1>13. CASE Connect
  <2>1. /\ inbox' \in Seq(Messages) /\ ~delivered' /\ delivered' \in BOOLEAN
        /\ ahead' = 0 /\ ahead' \in 0..Len(inbox')
    BY <1>13, FreshSession DEF Connect
  <2> QED
    BY <1>13, <2>1 DEF Connect
<1>14. CASE ConnectedPublish
  BY <1>14 DEF ConnectedPublish, PublishConnectState
<1>15. CASE ReplaySubscription
  BY <1>15 DEF ReplaySubscription
<1>16. CASE ReplayEnded
  BY <1>16 DEF ReplayEnded
<1>17. CASE SetConnected
  BY <1>17 DEF SetConnected
<1>18. CASE Receive
  <2>1. /\ override' \in Messages /\ inbox' \in Seq(Messages)
        /\ ahead' \in 0..Len(inbox') /\ overtaken' \in BOOLEAN
        /\ OverrideInOrder'
    BY <1>18, ReceiveInOrder
  <2> HIDE DEF OverrideInOrder
  <2>2. OwnTopicSaved'
    BY <1>18 DEF Receive
  <2>3. TypeOK'
    BY <1>18, <2>1 DEF Receive
  <2> QED
    BY <2>1, <2>2, <2>3 DEF TInv
<1>19. CASE DisconnectedPublish
  BY <1>19 DEF DisconnectedPublish, PublishConnectState
<1>20. CASE ConnectFails
  BY <1>20 DEF ConnectFails, PublishConnectState
<1>21. CASE ClearConnected
  <2>1. pc' = [pc EXCEPT !["mqtt"] = "offline"] /\ connected' \in BOOLEAN
    BY <1>21 DEF ClearConnected
  <2> QED
    BY <1>21, <2>1 DEF ClearConnected
<1>22. CASE LoseWifi
  <2>1. /\ inbox' \in Seq(Messages) /\ ~delivered' /\ delivered' \in BOOLEAN
        /\ ahead' = 0 /\ ahead' \in 0..Len(inbox')
    BY <1>22, FreshSession DEF LoseWifi, SessionEnds
  <2>2. drops' \in 0..MaxDrops
    BY <1>22 DEF LoseWifi
  <2>3. /\ session' = FALSE /\ brokerSubs' = {} /\ inbox' = <<>> /\ station' = "idle"
        /\ wifiEvents' = Append(wifiEvents, "DISCONNECTED")
        /\ UNCHANGED <<flags, connectedBit, saved, pc, store, latest, announced, messages, raced,
                       lastOwn, overtaken, failed>>
    BY <1>22 DEF LoseWifi, SessionEnds
  <2>4. session' \in BOOLEAN
    BY <2>3
  <2>5. wifiEvents' \in Seq({"START", "GOT_IP", "DISCONNECTED"})
    BY <2>3
  <2> QED
    BY <2>1, <2>2, <2>3, <2>4, <2>5
<1>23. CASE Drop
  <2>1. /\ inbox' \in Seq(Messages) /\ ~delivered' /\ delivered' \in BOOLEAN
        /\ ahead' = 0 /\ ahead' \in 0..Len(inbox')
    BY <1>23, FreshSession DEF Drop, SessionEnds
  <2>2. drops' \in 0..MaxDrops
    BY <1>23 DEF Drop
  <2>3. /\ session' = FALSE /\ brokerSubs' = {} /\ inbox' = <<>>
        /\ UNCHANGED <<flags, wifi, saved, pc, store, latest, announced, messages, raced, lastOwn,
                       overtaken, failed>>
    BY <1>23 DEF Drop, SessionEnds
  <2>4. session' \in BOOLEAN
    BY <2>3
  <2> QED
    BY <2>1, <2>2, <2>3, <2>4
<1>24. ASSUME NEW m \in Foreign, OtherController(m) PROVE TInv'
  <2>1. m \in Messages /\ Publish(m) /\ inbox \in Seq(Messages)
    BY <1>24 DEF OtherController
  <2>2. /\ latest' = m /\ delivered' \in BOOLEAN /\ inbox' \in Seq(Messages)
        /\ "override" \notin brokerSubs => inbox' = inbox /\ ~delivered'
        /\ delivered' => inbox' # <<>> /\ inbox'[Len(inbox')] = m
        /\ Len(inbox) \in Nat /\ Len(inbox') \in Nat /\ Len(inbox') >= Len(inbox)
        /\ \A i \in 1..Len(inbox) : inbox'[i] = inbox[i]
    BY <2>1, PublishTypes
  <2>3. ahead' = ahead /\ ahead' \in 0..Len(inbox') /\ (ahead > 0 => inbox'[ahead] = inbox[ahead])
    BY <1>24, <2>2 DEF OtherController
  <2>4. inbox' = <<>> => ~delivered'
    BY <2>2
  <2> QED
    BY <1>24, <2>2, <2>3, <2>4 DEF OtherController
<1>25. CASE UNCHANGED vars
  BY <1>25 DEF vars
<1> QED
  BY <1>1, <1>2, <1>3, <1>4, <1>5, <1>6, <1>7, <1>8, <1>9, <1>10, <1>11, <1>12, <1>13, <1>14,
     <1>15, <1>16, <1>17, <1>18, <1>19, <1>20, <1>21, <1>22, <1>23, <1>24, <1>25
     DEF Next, AppStep, MqttStep

LEMMA TInvAlways == Spec => []TInv
  BY InitTInv, NextTInv, IInvAlways, PTL DEF Spec

\* The variables of mqtt.cpp and of the tasks that use it stay in their types, and
\* the broker keeps nothing for a session that has ended.
THEOREM WellTyped == Spec => []TypeOK
<1>1. TInv => TypeOK
  BY DEF TInv
<1> QED
  BY <1>1, TInvAlways, PTL

\* With nothing under way the buffer has the broker's latest override, or the own
\* one that a newer message came before while it was being stored - for any number
\* of controllers' messages and of losses in between.
THEOREM OverrideUpToDate == Spec => []OverrideIsLatest
<1>1. TInv => OverrideIsLatest
  BY DEF TInv, OverrideInOrder
<1> QED
  BY <1>1, TInvAlways, PTL
=============================================================================
