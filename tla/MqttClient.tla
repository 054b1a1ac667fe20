----------------------------- MODULE MqttClient -----------------------------
(***************************************************************************)
(* main/mqtt.cpp and the tasks that use it: app_main starts the WiFi       *)
(* station, waits for its address, starts the client and makes the         *)
(* Temperature object's subscription; loopTask, which app_main creates     *)
(* afterwards, makes the menu's subscription and publishes the heating     *)
(* override; the system's event task runs wifi_event_handler, and the mqtt *)
(* client's own task mqtt_event_handler.                                   *)
(* None of the variables of mqtt.cpp is protected, so a step is one access *)
(* to a variable another task writes, or one call of the client library.   *)
(*                                                                         *)
(* The WiFi driver, the client library and the broker are external: the    *)
(* driver makes one attempt per esp_wifi_connect(), a session exists or    *)
(* not, a request made without one is lost, the broker forgets the         *)
(* subscriptions of a session that ends (clean session), and it sends each *)
(* message of a subscribed topic, the device's own included, in order.     *)
(* Storing in the buffer is one step (module MqttBuffer).                  *)
(***************************************************************************)
EXTENDS Naturals, Sequences

CONSTANTS Own,         \* overrides this device publishes
          Foreign,     \* overrides other controllers publish
          None,        \* no message
          MaxDrops,    \* how often WiFi or a session is lost or an attempt to get it fails
          MaxMessages  \* how many overrides are published in all

ASSUME ConstantsOK ==
    /\ Own \cap Foreign = {} /\ None \notin Own \cup Foreign
    /\ MaxDrops \in Nat /\ MaxMessages \in Nat

VARIABLES setupComplete, connected,  \* the flags of mqtt.cpp
          subscriptions,   \* the vector of saved topics
          connectedBit,    \* CONNECTED_BIT of wifi_event_group
          station,         \* the WiFi driver: off, idle, trying or online
          wifiEvents,      \* events for wifi_event_handler
          pc,              \* pc[t]: the next step of task t
          replay,          \* the handler's iterator over subscriptions
          draft,           \* the override loopTask is publishing
          connectState,    \* the buffer's entry for BROKER_CONNECT_TOPIC
          override,        \* the buffer's entry for HEATING_CONTROL
          session,         \* whether the broker has a session with the client
          brokerSubs,      \* topics subscribed in that session
          inbox,           \* messages on their way from the broker to the client
          latest,          \* the last override the broker received
          announced,       \* connect states the broker received
          failed,          \* whether the handler used an iterator after its vector moved
          drops, messages, \* counters for the bounds
          raced,           \* history: topics tested behind the handler's loop in this session
          delivered,       \* history: latest was sent to this device, nothing local since
          lastOwn,         \* history: the last override this device published
          ahead,           \* history: messages in inbox up to lastOwn, 0 when it is not there
          overtaken        \* history: loopTask stores what a newer message had replaced

flags == <<setupComplete, connected>>
saved == <<subscriptions, replay>>
wifi == <<connectedBit, station, wifiEvents>>
store == <<draft, connectState, override>>
broker == <<session, brokerSubs, inbox, latest, announced>>
bounds == <<drops, messages>>
order == <<ahead, overtaken>>
history == <<raced, delivered, lastOwn, order>>
vars == <<flags, saved, wifi, pc, store, broker, failed, bounds, history>>

Tasks == {"main", "loop", "mqtt"}

\* The one topic each of the two subscribing tasks asks for.
TopicOf(t) == IF t = "main" THEN "temperature" ELSE "override"

Init ==
    /\ setupComplete = FALSE /\ connected = FALSE
    /\ subscriptions = <<>>
    /\ connectedBit = FALSE /\ station = "off" /\ wifiEvents = <<>>
    /\ pc = [main |-> "wifi", loop |-> "created", mqtt |-> "stopped"]
    /\ replay = 1
    /\ draft = None /\ connectState = None /\ override = None
    /\ session = FALSE /\ brokerSubs = {} /\ inbox = <<>> /\ latest = None
    /\ announced = {}
    /\ failed = FALSE
    /\ drops = 0 /\ messages = 0
    /\ raced = {} /\ delivered = FALSE /\ lastOwn = None
    /\ ahead = 0 /\ overtaken = FALSE

Goto(t, a, b) ==
    /\ ~failed
    /\ pc[t] = a
    /\ pc' = [pc EXCEPT ![t] = b]

-----------------------------------------------------------------------------
(* wifi_init and wifi_event_handler *)

StartWifi ==
    /\ Goto("main", "wifi", "wait")
    /\ station' = "idle"
    /\ wifiEvents' = Append(wifiEvents, "START")
    /\ UNCHANGED <<flags, connectedBit, saved, store, broker, bounds, history, failed>>

\* xEventGroupWaitBits(), without a limit.
WaitForIp ==
    /\ connectedBit
    /\ Goto("main", "wait", "start")
    /\ UNCHANGED <<flags, wifi, saved, store, broker, bounds, history, failed>>

\* Mutant of WifiHandler: only the first attempt is made.
WifiHandlerOnce(e) ==
    /\ station' = IF e = "START" THEN "trying" ELSE station
    /\ connectedBit' = IF e = "START" THEN connectedBit ELSE e = "GOT_IP"

\* esp_wifi_connect() at the start and after each loss.
WifiHandler(e) ==
    /\ station' = IF e \in {"START", "DISCONNECTED"} THEN "trying" ELSE station
    /\ connectedBit' = IF e = "START" THEN connectedBit ELSE e = "GOT_IP"

HandleWifiEvent ==
    /\ ~failed
    /\ wifiEvents # <<>>
    /\ WifiHandler(Head(wifiEvents))
    /\ wifiEvents' = Tail(wifiEvents)
    /\ UNCHANGED <<flags, saved, pc, store, broker, bounds, history, failed>>

\* An attempt succeeds.
GetIp ==
    /\ ~failed
    /\ station = "trying"
    /\ station' = "online"
    /\ wifiEvents' = Append(wifiEvents, "GOT_IP")
    /\ UNCHANGED <<flags, connectedBit, saved, pc, store, broker, bounds, history, failed>>

-----------------------------------------------------------------------------
(* mqtt_app_start *)

\* esp_mqtt_client_start() lets the mqtt task run, before setupComplete is set.
StartClient ==
    /\ ~failed
    /\ pc["main"] = "start"
    /\ pc' = [pc EXCEPT !["main"] = "flag", !["mqtt"] = "offline"]
    /\ UNCHANGED <<flags, wifi, saved, store, broker, bounds, history, failed>>

SetSetupComplete ==
    /\ Goto("main", "flag", "subscribe")
    /\ setupComplete' = TRUE
    /\ UNCHANGED <<connected, wifi, saved, store, broker, bounds, history, failed>>

\* app_main creates loopTask when setup() is done; updateMenu() subscribes on
\* its first turn, and not again because mqtt_subscribe returned 1.
StartLoopTask ==
    /\ pc["main"] = "done"
    /\ Goto("loop", "created", "subscribe")
    /\ UNCHANGED <<flags, wifi, saved, store, broker, bounds, history, failed>>

-----------------------------------------------------------------------------
(* mqtt_subscribe *)

\* A vector of length n moves to another block when n is its capacity: 0 or a
\* power of two.
Moves(n) == n = 0 \/ \E e \in 0..n : n = 2^e

\* Mutant of SaveTopic: only a topic that cannot be requested at once is saved.
SaveWhenOffline(t) ==
    /\ setupComplete
    /\ Goto(t, "subscribe", "test")
    /\ subscriptions' = IF connected THEN subscriptions ELSE Append(subscriptions, TopicOf(t))
    /\ failed' = (pc["mqtt"] = "replay" /\ Moves(Len(subscriptions)))
    /\ UNCHANGED <<flags, wifi, replay, store, broker, bounds, history>>

\* push_back(); the handler's iterator, if it is in its loop, points into the
\* block that has just been freed.
SaveTopic(t) ==
    /\ setupComplete
    /\ Goto(t, "subscribe", "test")
    /\ subscriptions' = Append(subscriptions, TopicOf(t))
    /\ failed' = (pc["mqtt"] = "replay" /\ Moves(Len(subscriptions)))
    /\ UNCHANGED <<flags, wifi, replay, store, broker, bounds, history>>

Finished(t) == IF t = "main" THEN "done" ELSE "idle"

TestConnected(t) ==
    /\ Goto(t, "test", IF connected THEN "request" ELSE Finished(t))
    /\ raced' = IF pc["mqtt"] = "connected" THEN raced \cup {TopicOf(t)} ELSE raced
    /\ UNCHANGED <<flags, wifi, saved, store, broker, bounds, delivered, lastOwn, order,
                   failed>>

RequestSubscription(t) ==
    /\ Goto(t, "request", Finished(t))
    /\ brokerSubs' = IF session THEN brokerSubs \cup {TopicOf(t)} ELSE brokerSubs
    /\ UNCHANGED <<flags, wifi, saved, store, session, inbox, latest, announced, bounds, history, failed>>

-----------------------------------------------------------------------------
(* mqtt_publish, called by loopTask *)

\* The user applies an override.  setupComplete is set by now.
BeginPublish(m) ==
    /\ setupComplete
    /\ messages < MaxMessages
    /\ Goto("loop", "idle", IF connected THEN "send" ELSE "storeUnsent")
    /\ draft' = m
    /\ messages' = messages + 1
    /\ lastOwn' = m
    /\ UNCHANGED <<flags, wifi, saved, connectState, override, broker, drops, raced,
                   delivered, order, failed>>

Publish(m) ==
    /\ latest' = m
    /\ delivered' = ("override" \in brokerSubs)
    /\ inbox' = IF "override" \in brokerSubs THEN Append(inbox, m) ELSE inbox

\* esp_mqtt_client_publish(): lost if the session has just ended.
SendOverride ==
    /\ Goto("loop", "send", IF session THEN "store" ELSE "storeUnsent")
    /\ IF session
       THEN /\ Publish(draft)
            /\ ahead' = IF "override" \in brokerSubs THEN Len(inbox') ELSE 0
            /\ overtaken' = FALSE
       ELSE UNCHANGED <<latest, delivered, inbox, order>>
    /\ UNCHANGED <<flags, wifi, saved, store, session, brokerSubs, announced, bounds, raced,
                   lastOwn, failed>>

\* mqttBuffer_put(), after the message was handed to the client, if it was.
StoreOverride ==
    /\ \/ Goto("loop", "store", "idle") /\ UNCHANGED delivered
       \/ Goto("loop", "storeUnsent", "idle") /\ delivered' = FALSE
    /\ override' = draft
    /\ draft' = None
    /\ UNCHANGED <<flags, wifi, saved, connectState, broker, bounds, raced, lastOwn, order,
                   failed>>

-----------------------------------------------------------------------------
(* mqtt_event_handler *)

\* MQTT_EVENT_CONNECTED is dispatched.
Connect ==
    /\ station = "online"
    /\ Goto("mqtt", "offline", "birth")
    /\ session' = TRUE
    /\ brokerSubs' = {}
    /\ inbox' = <<>>
    /\ delivered' = FALSE
    /\ raced' = {}
    /\ ahead' = 0
    /\ UNCHANGED <<flags, wifi, saved, store, latest, announced, bounds, lastOwn, overtaken,
                   failed>>

\* mqtt_publish() inside the handler, of a topic nobody else uses: refused
\* before setupComplete, handed to the client only when connected, and stored.
PublishConnectState(v) ==
    /\ connectState' = IF setupComplete THEN v ELSE connectState
    /\ announced' = IF setupComplete /\ connected /\ session
                    THEN announced \cup {v} ELSE announced
    /\ UNCHANGED <<draft, override, session, brokerSubs, inbox, latest>>

\* Mutant of ConnectedPublish: the loop does not start from the beginning.
ReplayNotRestarted ==
    /\ Goto("mqtt", "birth", "replay")
    /\ PublishConnectState("true")
    /\ UNCHANGED <<flags, wifi, saved, bounds, history, failed>>

ConnectedPublish ==
    /\ Goto("mqtt", "birth", "replay")
    /\ PublishConnectState("true")
    /\ replay' = 1
    /\ UNCHANGED <<flags, wifi, subscriptions, bounds, history, failed>>

\* One turn of the loop over the saved topics.
ReplaySubscription ==
    /\ Goto("mqtt", "replay", "replay")
    /\ replay <= Len(subscriptions)
    /\ brokerSubs' = IF session THEN brokerSubs \cup {subscriptions[replay]} ELSE brokerSubs
    /\ replay' = replay + 1
    /\ UNCHANGED <<flags, wifi, subscriptions, store, session, inbox, latest, announced, bounds,
                   history, failed>>

ReplayEnded ==
    /\ Goto("mqtt", "replay", "connected")
    /\ replay > Len(subscriptions)
    /\ UNCHANGED <<flags, wifi, saved, store, broker, bounds, history, failed>>

SetConnected ==
    /\ Goto("mqtt", "connected", "online")
    /\ connected' = TRUE
    /\ UNCHANGED <<setupComplete, wifi, saved, store, broker, bounds, history, failed>>

\* Mutant of Receive: what the buffer has is not replaced.
ReceiveFirstOnly ==
    /\ Goto("mqtt", "online", "online")
    /\ session /\ inbox # <<>>
    /\ override' = IF override = None THEN Head(inbox) ELSE override
    /\ inbox' = Tail(inbox)
    /\ overtaken' = (pc["loop"] = "store" /\ ahead = 0)
    /\ ahead' = IF ahead > 0 THEN ahead - 1 ELSE 0
    /\ UNCHANGED <<flags, wifi, saved, draft, connectState, session, brokerSubs, latest, announced,
                   bounds, raced, delivered, lastOwn, failed>>

\* MQTT_EVENT_DATA: mqttBuffer_put().  The message is newer than the override
\* loopTask has yet to store when that one is no longer ahead of it.
Receive ==
    /\ Goto("mqtt", "online", "online")
    /\ session /\ inbox # <<>>
    /\ override' = Head(inbox)
    /\ inbox' = Tail(inbox)
    /\ overtaken' = (pc["loop"] = "store" /\ ahead = 0)
    /\ ahead' = IF ahead > 0 THEN ahead - 1 ELSE 0
    /\ UNCHANGED <<flags, wifi, saved, draft, connectState, session, brokerSubs, latest, announced,
                   bounds, raced, delivered, lastOwn, failed>>

\* The client notices that the session is gone: MQTT_EVENT_DISCONNECTED.
DisconnectedPublish ==
    /\ Goto("mqtt", "online", "disconnected")
    /\ ~session
    /\ PublishConnectState("false")
    /\ UNCHANGED <<flags, wifi, saved, bounds, history, failed>>

\* The client library reports a failed attempt to connect the same way.
ConnectFails ==
    /\ Goto("mqtt", "offline", "disconnected")
    /\ drops < MaxDrops
    /\ drops' = drops + 1
    /\ PublishConnectState("false")
    /\ UNCHANGED <<flags, wifi, saved, messages, history, failed>>

\* Mutant of ClearConnected: the flag is left set.
ClearForgotten ==
    /\ Goto("mqtt", "disconnected", "offline")
    /\ UNCHANGED <<flags, wifi, saved, store, broker, bounds, history, failed>>

ClearConnected ==
    /\ Goto("mqtt", "disconnected", "offline")
    /\ connected' = FALSE
    /\ UNCHANGED <<setupComplete, wifi, saved, store, broker, bounds, history, failed>>

-----------------------------------------------------------------------------
(* The outside world *)

SessionEnds ==
    /\ session' = FALSE
    /\ brokerSubs' = {}
    /\ inbox' = <<>>
    /\ delivered' = FALSE
    /\ ahead' = 0

\* WiFi is lost, or an attempt to get it fails.
LoseWifi ==
    /\ ~failed
    /\ station \in {"trying", "online"} /\ drops < MaxDrops
    /\ station' = "idle"
    /\ wifiEvents' = Append(wifiEvents, "DISCONNECTED")
    /\ SessionEnds
    /\ drops' = drops + 1
    /\ UNCHANGED <<flags, connectedBit, saved, pc, store, latest, announced, messages, raced,
                   lastOwn, overtaken, failed>>

\* The network or the broker ends the session; what was under way is lost.
Drop ==
    /\ ~failed
    /\ session /\ drops < MaxDrops
    /\ SessionEnds
    /\ drops' = drops + 1
    /\ UNCHANGED <<flags, wifi, saved, pc, store, latest, announced, messages, raced, lastOwn,
                   overtaken, failed>>

\* Another controller publishes an override.
OtherController(m) ==
    /\ ~failed
    /\ messages < MaxMessages
    /\ messages' = messages + 1
    /\ Publish(m)
    /\ UNCHANGED <<flags, wifi, saved, pc, store, session, brokerSubs, announced, drops, raced,
                   lastOwn, order, failed>>

WifiStep == HandleWifiEvent \/ GetIp

AppStep ==
    \/ StartWifi \/ WaitForIp \/ StartClient \/ SetSetupComplete \/ StartLoopTask
    \/ \E t \in {"main", "loop"} : SaveTopic(t) \/ TestConnected(t) \/ RequestSubscription(t)
    \/ SendOverride \/ StoreOverride

MqttStep ==
    \/ Connect \/ ConnectedPublish \/ ReplaySubscription \/ ReplayEnded \/ SetConnected
    \/ Receive \/ DisconnectedPublish \/ ClearConnected

Next ==
    \/ WifiStep
    \/ AppStep
    \/ MqttStep
    \/ \E m \in Own : BeginPublish(m)
    \/ \E m \in Foreign : OtherController(m)
    \/ LoseWifi \/ Drop \/ ConnectFails

Spec ==
    Init /\ [][Next]_vars /\ WF_vars(WifiStep) /\ WF_vars(AppStep) /\ WF_vars(MqttStep)

-----------------------------------------------------------------------------
(* Properties *)

Rng(q) == {q[i] : i \in 1..Len(q)}
Subscribing == {"subscribe", "test", "request"}
Publishing == pc["loop"] \in {"send", "store", "storeUnsent"}
Messages == Own \cup Foreign \cup {None}

\* The variables hold what their types allow; setupComplete and the tasks'
\* progress agree; nothing is subscribed without a session.
TypeOK ==
    /\ setupComplete \in BOOLEAN /\ connected \in BOOLEAN
    /\ session \in BOOLEAN /\ failed \in BOOLEAN /\ delivered \in BOOLEAN
    /\ subscriptions \in Seq({"temperature", "override"})
    /\ connectedBit \in BOOLEAN /\ station \in {"off", "idle", "trying", "online"}
    /\ wifiEvents \in Seq({"START", "GOT_IP", "DISCONNECTED"})
    /\ pc["main"] \in {"wifi", "wait", "start", "flag", "subscribe", "test", "request", "done"}
    /\ pc["loop"] \in {"created", "subscribe", "test", "request", "idle", "send", "store",
                       "storeUnsent"}
    /\ pc["mqtt"] \in {"stopped", "offline", "birth", "replay", "connected", "online",
                       "disconnected"}
    /\ DOMAIN pc = Tasks
    /\ replay \in Nat \ {0} /\ raced \subseteq Rng(subscriptions)
    /\ connectState \in {None, "true", "false"}
    /\ {draft, override, latest, lastOwn} \subseteq Messages
    /\ brokerSubs \subseteq Rng(subscriptions)
    /\ inbox \in Seq(Messages)
    /\ ahead \in 0..Len(inbox) /\ overtaken \in BOOLEAN
    /\ announced \subseteq {"true", "false"}
    /\ drops \in 0..MaxDrops /\ messages \in 0..MaxMessages
    /\ ~session => brokerSubs = {} /\ inbox = <<>>
    /\ setupComplete <=> pc["main"] \notin {"wifi", "wait", "start", "flag"}

\* With the client online and no subscription in progress, every saved topic is
\* subscribed at the broker, however often the connection was lost and wherever
\* the handler was when a topic was saved - but for a topic that was tested
\* between the end of the handler's loop and its setting of connected.
SavedTopicsLive ==
    session /\ pc["mqtt"] = "online" /\ pc["main"] = "done" /\ pc["loop"] \notin Subscribing
        /\ ~failed
    => Rng(subscriptions) \subseteq brokerSubs \cup raced

\* BROKER_CONNECT_TOPIC never leaves the device: "state:true" is published while
\* connected is still 0, "state:false" while there is no session.
ConnectStateStaysLocal == announced = {}

\* Once the broker's latest override was sent to this device, nothing is under
\* way and loopTask is not publishing, the buffer has that override - or, only
\* when a newer message was handled between loopTask's handing its own override
\* to the client and its storing it, that own one, until the next message.
OverrideIsLatest ==
    delivered /\ inbox = <<>> /\ ~Publishing =>
        override = latest \/ (overtaken /\ override = lastOwn)

\* The device gets to work and back to work by itself: once losses end, WiFi and
\* the client are connected and stay so, app_main has passed its wait for an
\* address, and what was saved is subscribed.
Converges ==
    <>[](failed \/ (/\ connected /\ session /\ connectedBit
                    /\ pc["main"] = "done" /\ pc["loop"] \notin Subscribing \cup {"created"}
                    /\ Rng(subscriptions) \subseteq brokerSubs \cup raced))
=============================================================================
