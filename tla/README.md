# Verification of the m5stack home automation controller

TLA+ models of the program in `src/main/`, an ESP32 / M5Stack device that shows
temperatures, lets its user override the heating over MQTT, polls a relay over
HTTP and appends readings to a Google sheet. TLC checks small instances of the
models, and TLAPS proves the results that have to hold for every size.

`PROJECT.json` lists the runs, the mutants that each property has to catch, the
source lines behind each definition, the hazards, the findings and the theorems.

## 1. Inventory

The program is about 1500 lines of C and C++ in `src/main/`. Everything else in
the repository (Arduino core, M5Stack library, ESP-IDF components) is vendored,
and the GUI library `cfGUI` is an empty submodule. Of the vendored code only the
buttons' debouncing is modelled, because what counts as a press decides what the
program does.

| component | state | operations | used by |
|---|---|---|---|
| flat map, `flatmap.c` | array of entries in one heap block, `entriesLen`, `entriesMax` | init, put, get, getByIndex, free | buffer |
| topic matching, `mqttHelpers.cpp` | none | `matchTopic` | buffer |
| message buffer, `buffer.cpp` | `initialized`, `mapInfo`, `mutex` | put, getMatching, dispalyAll | every task |
| mqtt client, `mqtt.cpp` | `setupComplete`, `connected`, `subscriptions` | start, publish, subscribe, event handler | every task; the handler runs in the client's own task |
| WiFi station, `mqtt.cpp` | event group bit | `wifi_init`, event handler | `app_main`; the handler runs in the system's event task |
| outlet, `outlet.cpp` | `mutex`, `lastPublishTime`, `lastPublishState` | getState, update, publish | 15 second and 30 minute tasks |
| HTTP request, `getUrl.cpp` | curl handle and reference count | get, getHttps, writeData | outlet |
| temperature, `temperature.cpp` | subscribed zone | constructor, `average` | 15 second task |
| buttons, `Button.cpp` of the M5Stack library | level, last change | `read`, `wasPressed`, `wasReleased`, `pressedFor` | loop task |
| occupancy, `occupancy.cpp` | `timeoutLastSet`, `currentOccupancy` | `occupancy_set`, `occupancy_update` | loop task |
| menu, `menu.cpp` | `editingButton1Value`, titles, current values | updateMenu, updateButton1, button callbacks | loop task and 15 second task |
| Google sheet, `googleSheet.cpp` | static location buffer, TLS handle | upload with redirects | 30 minute task |
| application, `main.cpp` | task handles | `setup`, `app_main`, three loop tasks | - |

How they interact: `app_main` waits for an IP address, starts the mqtt client,
creates the components and then the tasks. Five tasks then share the message
buffer (through its mutex), the variables of `mqtt.cpp` (through nothing) and
one `Outlet` (through a mutex of its own). Messages from the broker reach the
application only through the buffer: the mqtt task puts, the others read
snapshots.

What is hard here, and what correctness means for each part:

* **Flat map.** The array at its limit. It must be a map from trimmed keys to
  the latest content, and stay inside its heap block.
* **Topic matching.** Filter and topic ending at different levels. It must
  agree with the meaning of `+` and `#`.
* **Buffer.** The first use, which nothing protects; a message written key by
  key while another task reads. Puts and snapshots must be atomic, calls must
  return, and every snapshot must carry the timestamp its readers dereference.
* **Payload.** Empty and blank keys, empty values, bare words. What a sender
  wrote is what must be stored, the loop must end on any text, and trimming must
  stay inside its string.
* **WiFi and mqtt client.** The wait for the first IP address, which has no
  limit; WiFi or a session lost at any step of the handler; a subscription made
  during it; a local store that comes after a newer message. Saved topics must
  be live whenever the client is online, the device must get back to work by
  itself, and the buffer must end up with the override the broker heard last.
* **Outlet.** Two callers, an answer that arrives in pieces and later than it was
  given, a request that fails, a 32-bit clock that starts again at 0. The answer
  must exist, be the relay's, be recent, and be published in time.
* **Buttons and occupancy.** A contact that bounces, a button held for long or
  while the device starts, a signed deadline compared with an unsigned clock. A
  press must count as occupancy for its time and no longer, and give one event.
* **Menu.** The user's edit in one task, the refresh of the same title in
  another; messages without the entries the refresh dereferences; times that
  are subtracted in 32 bits. The edited value must stay visible, and the time
  left must be right.
* **Google sheet.** An answer cut anywhere, a body longer than the buffer, a
  static location that survives a call, a request composed from the buffer its
  answer changes. The redirect must lead where the answer says, the server must
  get the whole request, every path must close its connection, and the call
  must return.

## 2. Modules

| module | models | abstraction it is compared with |
|---|---|---|
| `FlatMap` | `flatmap.c` | `BoundedMap`, a map of limited capacity |
| `TopicMatch` | `matchTopic` | `TopicFilter`, what a filter stands for |
| `Payload` | the `strsep` loop of `assignContent`, `trimWhitespace` | the message a text was written from |
| `MqttBuffer` | `buffer.cpp` | `AtomicStore`, puts and snapshots as single steps |
| `MqttClient` | `mqtt.cpp` with WiFi, and the tasks that subscribe and publish | - |
| `Outlet` | `OutletKankun`, with `HttpRequest::get` and `writeData` | - |
| `LoopTask` | a turn of `loopTask`: `Button::read`, `occupancy.cpp`, the button events of `updateMenu` | - |
| `Menu` | button 1 of `menu.cpp` in `loopTask` and `loopTask15sec` | - |
| `GoogleSheet` | `googleSheet_connect` as `loopTask30min` calls it | what HTTP says about headers |

`MCTopicMatch` and `MCMqttBuffer` hold the constants of the runs, the `...Proofs`
modules the theorems (`TextProofs` those of `TopicMatch` and `Payload`).
The modules stand on each other's results: `MqttBuffer` uses a map (what `FlatMap` implements up to 16 keys), the meaning of filters
(what `TopicMatch` computes) and messages as pairs (what `Payload` reads);
`MqttClient`, `Outlet` and `Menu` use a buffer whose operations are single steps
(what `MqttBuffer` implements once its first use is over); `Menu` uses callbacks
that come one per press (what `LoopTask` delivers).

### FlatMap

`entries` is the array up to `entriesLen`, `bytes` the size of the heap block,
`heap` becomes `"corrupt"` with the first entry written outside it, after which
nothing is modelled. `asked` is the set of keys the map was asked for since its
`flatmap_init`. Each operation is one step because the buffer's mutex gives
a map one user at a time. `flatmap_put` is split into `PutExisting` and
`PutNew`; the latter contains the test for space and the `realloc`. A key is a
word plus whether whitespace surrounds it. What `trimWhitespace` does with the
characters of a key is modelled in `Payload`.

### TopicMatch

One action per branch of the loop. Filters and topics are sequences of levels.
Its specification is `MatchSpec`, so that `TextProofs` can extend `Payload` too.

### Payload

A text is any sequence of words and separators, or it is written pair by pair by a
sender (`Write`), whose values may hold a colon, whose keys may have space around
them, and who may leave out the last colon of a message that ends in a word
without a key. `Call` is `assignContent` copying the text; then there is one action
per branch of the loop that the code can take. `sourceCp_p` is what
`strsep` has left, which may be NULL. The branch for a value without a key
(line 58) cannot be taken, because a value is only read behind a key. Keys are
trimmed on their way into the child map: `trimWhitespace` is the two loops of
`flatmap.c`, and `underrun` records that the second one read before a string
that the first had left empty, as it does for a key of nothing but space.

### MqttBuffer

A step is what a task does between two points where another task may notice:
the test of `initialized`, its assignment, the reset of `mapInfo`,
`flatmap_init`, the creation of the mutex, take, give, one key written, one
topic copied. Assertions of `buffer.cpp`, `flatmap.c` and FreeRTOS stop the
model and are named in `failed`. `overlapped` records that one task got past the
test of the flag while another was still inside `initialize()`.

### MqttClient

A step is one access to a variable of `mqtt.cpp` or one call of a library.
`app_main` starts the station, waits for `connectedBit` and then starts the
client; `wifiEvents` is the queue of the system's event task, which runs
`wifi_event_handler`. The WiFi driver, the client library and the broker are
external: one attempt per `esp_wifi_connect()`, clean sessions, requests without
a session are lost, messages of a topic arrive in order, the device's own
included. `failed` records that `push_back` moved the vector under the
handler's iterator. `raced` is the set of topics that were tested against
`connected` between the end of the handler's loop and its assignment
(`mqtt.cpp:40`): neither the loop nor the caller subscribes them. `overtaken` records
that a message newer than `loopTask`'s own override was stored between
`esp_mqtt_client_publish` and the local store (`mqtt.cpp:164-165`); `ahead` tells which
messages are newer, as the position of the own one among those under way.

### Outlet

`millis` is the uptime modulo `Wrap`, and sums of times are cut the same way.
The relay switches by itself at any time. Its answer, `"ON\n"` or `"OFF\n"`,
arrives in any number of pieces, each of which `writeData` compares anew without
its last character, so that the last piece decides; `answered` is the relay's
state if there was one piece. `update` takes four steps with time passing between
them: the relay answers (`Answer`), `get` has returned and `publish` compares
times (`TestPublish`), `publish` reads the clock again (`Stamp`), `mqtt_publish`
stores the message (`PutState`). `answeredAt` is the time of the answer,
`confirmedAt` that of the answer the buffer reflects, `publishedAt` the true
`lastPublishTime`. `FetchFails` is the `assert(0)` of
`HttpRequest::get`: the device restarts, and everything but the relay starts
from `Init`. `lastPublishState` starts with any value, as in the code, which does
not initialise it.

### LoopTask

Four steps per turn, with time passing and contacts moving between any two:
`update` is `Button::read` for all buttons, `occupancy_set` and `expire` are the
two halves of `occupancy_update`, `updateMenu` is its part for BtnB. The clock has
`Wrap` values; `timeoutLastSet` is signed, and its sum with the timeout becomes
unsigned when it is compared. `setAt` keeps the true time, and `events` counts
the widget events of the present press.

### Menu

Both tasks run on one core, so the lower one (`loopTask`) can only run where the
15 second task waits: for the buffer's mutex, and for the output's lock in the
`printf` before `SetTitle`. The steps of the 15 second task are therefore the
check of the average (a topic without a temperature stops the device), the test
of `editingButton1Value`, the snapshot, and the title. A title is the number it
tells. `failed` names the missing entry through which the code would read NULL.

### GoogleSheet

`Write` sends a part of the request, which the code composes anew for each part
from `url`; in a redirected call `url` is `locationBuffer` itself (`aliased`).
`Read` adds a piece of any size to the page buffer and takes the status line off
the first one. If that piece has neither a space nor a line end, the search for
the status code goes on behind the buffer, and the code is any (`CodesFound`).
`StripHeader` is one turn of the loop over the headers. An answer
is a sequence of symbols with both characters of a line end, so that a piece may
end between them. The server completes it header by header (`SendHeader`, then
`SendBody`) before the first piece of it is read; a read that fails earlier changes
no more than one that fails then. `before` is the location buffer when the connection was made.

## 3. Runs

Passing runs check the properties named in their `.cfg`; each property has a
mutant, a plausible bug in a mapped definition, that makes it fail.

| run | instance | what it shows |
|---|---|---|
| `flatmap` | 4 words, plain and padded, 2 contents, capacity 3 | up to its capacity the array is the map `BoundedMap`; keys stay unique; a map asked for no more keys than its capacity never leaves its block and has them all |
| `topic_match` | all filters and topics of up to 3 levels over 2 names, `+`, `#` | `matchTopic` returns, and returns what the filter means |
| `payload` | all messages of up to 3 pairs over 2 words, with and without spaces around keys and colons in values; all texts of up to 5 pieces | messages are read back; nothing is dropped except behind an empty key; trimming stays in bounds unless a key is blank; the loop ends |
| `buffer` | 2 tasks from a cold start, 2 topics, 2 filters, 2 messages, a clock of 2 values | unless two tasks meet in the first use: mutual exclusion, no failed assertion, stamped snapshots, atomicity (`AtomicStore`), and every call returns |
| `mqtt_client` | from power-on, 4 tasks, 2 losses or failed attempts, 3 overrides | online, saved topics are subscribed unless they `raced`; the connect state never leaves the device; the buffer ends up with the broker's latest override, or with the own one that `overtaken` speaks of; once losses end, the device is connected and subscribed for good |
| `outlet` | 2 callers, `Fresh` 1, `Interval` 3, `MaxTransfer` 1, `Wrap` 8, uptime to 15 | the answer exists and is the relay's last if it came in one piece; how old it can be and when it is published again, over restarts of the clock; every call returns |
| `loop_task` | 2 buttons, `Debounce` 2, `Long` 3, `Timeout` 3, `Wrap` 8, uptime to 13 | a press counts as occupancy for its time and no longer, unless the clock starts again; each press of BtnB gives one event |
| `menu` | `HalfHour` 2, `Longest` 4, one foreign duration of 5, `Wrap` 12, clock readings 5 apart up to 20 | the edited value stays visible unless a refresh was past its test, and can be negated; own messages can be displayed; the time left is right |
| `google_sheet` | 2 locations, a status line and headers of up to `MaxHead` 12 symbols, bodies up to the buffer's 6 symbols, up to 2 redirects per call, any number of calls | the redirect leads to the last Location header; the server gets the whole request; no connection stays open; every call returns |

The bounds. A capacity of 3 with 4 words lets a map fill up, replace and
overflow. Three levels suffice for a wildcard before, at and behind the end of the
topic. Five pieces contain every combination of empty and non-empty key, value
and following key. Two tasks are enough for every pair of steps to meet; a message
with two pairs and one with a single pair make a torn or merged entry visible.
In `buffer`, states after an overlap are explored only until the first entry is
stored (the constraint `Explored`), because no property says anything about them
but how they fail. Two drops let a session end, its re-connect be interrupted
and the next one succeed; a further drop repeats this. Three overrides are an
own one, a foreign one in between and another own one.

The clocks. In `outlet` and `loop_task` the uptime covers one complete turn and
most of a second one, so that a publication, a press or a deadline falls before,
at and behind the restart; `Wrap` is more than twice the longest time, as 2^32 ms
are. In `outlet`, an answer is dealt with within
`MaxTransfer`: one unit makes it as old as `Fresh` allows when it is stamped. Curl
has no timeout, so the code has no such bound; the theorem is for every value
of it. In `loop_task`, `Long` exceeds `Debounce` by one, the narrowest case. In
`menu`, a `Step` of 5 (coprime to `Wrap`) gives readings before and behind the
end of the override and of the clock; the foreign duration is no multiple of
`HalfHour` and almost half a turn, so that the difference of the times takes
both signs. An edit reaches its limits in both directions after two pushes.

In `google_sheet`, a body can fill the page buffer, so that the read ends without
space; a body may look like a header; 12 symbols hold two headers of any kind, which let
a location be replaced, and
two urls tell the stale location from the new one.

### Fairness

* `buffer`, `outlet`: weak fairness of each task's steps, since FreeRTOS runs
  ready tasks and the callers sleep between their rounds, so none occupies a
  core. Strong fairness of `Take`: a FreeRTOS mutex hands over to the waiting
  task of highest priority, the number of tasks is fixed, and each of them
  delays for seconds between two uses. The relay's answer and its transfer, or the
  failure of the request, are part of it: curl is given no timeout, so a relay that accepts the
  connection and never answers would keep the mutex. This case is excluded.
* `mqtt_client`: weak fairness of the application's and of the mqtt task's
  steps, `Connect` included, because the client library re-connects by itself;
  of the WiFi driver and the event task, since each `esp_wifi_connect()` makes an
  attempt that ends in an address or in the event of a loss. Losses and failed
  attempts are bounded and have no fairness.
* `google_sheet`: weak fairness of the call's steps; the server sends its answer
  and then closes the connection, or the read ends because the buffer is full. No
  timeout is configured, so a server that accepts the connection and stays
  silent is excluded, as for the relay. Nothing makes the application call
  again, and no failure has to happen.
* `topic_match`, `payload`: weak fairness of the turns of the one sequential loop;
  nobody has to write or to send a message.
* `loop_task`, `menu`: none; their properties are about what steps may do.

### Disagreements between the code and what the repository says

| run | source | what happens |
|---|---|---|
| `flatmap_growth` | `flatmap.c:88` | `realloc` is given a number of entries as bytes; the entry after the initial capacity (the 17th) is written outside the block |
| `buffer_first_use` | `buffer.cpp:94` | two tasks in `initialize()` at once take a NULL mutex or fail "MapInfo not empty." |
| `menu_edit` | `menu.cpp:264` | a refresh that passed its test before the user began to edit replaces the edited value by the stored one, against "Don't update the values while we are editing them." |

### Limits that the properties name

No document excludes the following behaviour of the code, so it is no
disagreement. Where a property holds only outside of it, it says so.

* `mqtt.cpp:40`: a topic saved behind the handler's loop and tested before
  `connected` is set is subscribed by nobody until the next session (`raced` in
  `SavedTopicsLive` and `Converges`).
* `mqtt.cpp:165`: an own override is stored after it was sent, so it can replace
  a newer foreign one that arrives in between, until the next message
  (`overtaken` in `OverrideIsLatest`).
* `mqtt.cpp:37`: a vector that moves under the handler's iterator (`failed`).
* `outlet.cpp:83`: after `millis()` starts again, it can be almost a turn of the
  clock until the relay is asked, or its state published, again (`RestartsSince` in
  `AnswerIsFresh` and `RepublishedInTime`).
* `outlet.cpp:76`: an answer is dated when it has arrived. One that took longer than
  the 5 seconds of the cache is served as recent (`MaxTransfer` in `AnswerIsFresh`).
* `occupancy.cpp:39`: in the same way a press whose deadline lies
  behind the restart expires at once, and a deadline missed shortly before the
  restart keeps the room occupied for another turn (`SameTurn` in
  `OccupiedForTimeout` and `ExpiresInTime`).
* `getUrl.cpp:147`: of a body in pieces the last piece decides, and a piece of
  one character always matches (`answered` in `BufferIsLastAnswer`).
* `googleSheet.cpp:166`: a 302 without a Location redirects to the location of
  an earlier answer, of an earlier call even (`before` in `RedirectTarget`). A
  first piece that ends inside the status line loses the rest of it.
* `googleSheet.cpp:109`: the search for the status code passes the end of the buffer
  if the first piece has neither a space nor a line end. Which code it finds is
  open; that it could stop the device is not modelled.
* `menu.cpp:264-299`: a message without `forMs` leaves the old duration with a new
  time; the state of an override is not looked at, so that the menu's own "off"
  is shown as "on" after the next refresh, and one that has run out as "off"; a
  cancelled edit keeps its title while no override is stored.
* `temperature.cpp:39`, `menu.cpp:291`: a topic without the entry that is read
  stops the device (`failed` in `Menu`).
* `flatmap.c:26`: a key of nothing but space (`underrun`).

## 4. Proofs

All theorems hold for every value of the constants that satisfies the named
assumptions (`ConstantsOK` of the respective module).

* `TextProofs`, for `TopicMatch`: `MatchTopicCorrect`, from `LoopInvariant`. The loop
  invariant (`LoopInv`: all levels before `pos` match and none is `#`) is inductive; with
  it every return value is the meaning of the filter.
* `TextProofs`, for `Payload`: `MessageReadBack`, `NothingElseDropped` and
  `TrimStaysInside`, for texts of any length and messages of any number of pairs.
  `TextInv` is about any text: a turn of the loop begins at the beginning of the
  text or behind a comma (`AtComma`), and what is left when the loop ends stands
  behind the colon of an empty key (`AtEmptyKey`); a key that `trimWhitespace`
  leaves empty is therefore one of nothing but space (`BlankKeyIfUnderrun`).
  `MessageInv` is about a written text: there is a position for each pair from
  which on the text is that pair, written with some space and followed by a comma
  (`Layout`), `Write` extends this layout (lemma `LayoutWrite`) and a missing last
  colon is within it (`LayoutCall`); the loop has stored the first pairs and goes on
  at the position of the next (`PairsRead`). Lemmas say where `strsep` cuts
  a text whose first separator is known, what trimming leaves of a written key, and
  what a turn thus makes of each kind of pair (`TurnInMessage`). None of the
  properties is inductive alone, as they speak only of the end of the loop. The
  message grows by steps of the model because a text defined by recursion over
  the message could not be reasoned about here. That a text holds a separator
  for the first time somewhere (`LeastNat`) is the library's theorem on
  well-founded minima. The assumption that words contain no separator is the
  definition of a word.
* `FlatMapProofs`: `TypeCorrect`, `UniqueKeys`, `IntactUntilFull` and
  `FlatMapRefines`. The inductive invariant is the conjunction of the types, the
  unique keys, the size of the block (`BlockUnchanged`) and what was asked for
  (`AskedFor`). None is inductive alone: that an append stays in bounds needs the
  size of the block, and the block keeps its size because a growth (lemma
  `GrownBlockTooSmall`) never leaves room for the new entry and so ends in
  `"corrupt"`. For the refinement, lemmas show that the number of keys is the
  number of entries (`KeysCount`, a bijection, from unique keys) and that
  replacing or appending an entry is a `Put` of the abstract map (`StorePut`). For
  `IntactUntilFull`, the block keeps its size as long as nothing was written past
  it (`BlockUnchanged`) and every key asked for has its entry (`AskedFor`): a put
  that finds the array full is then one of a key beyond the capacity (`PutAsked`).
  The assumption `EntrySize >= 2` is weaker than the two pointers of an entry.
* `MqttBufferProofs`: `MutualExclusion`, `SafeAfterFirstUse`, `WellTyped`,
  `SnapshotsAreStamped` and `BufferRefines`, for any finite number of tasks. The
  control invariant (`IInv`) says, unless tasks have met in the first use:
  a task in the first use is alone past the test (`AloneInFirstUse`), the flag,
  the map and the mutex are what its step expects (`FirstUseProgress`), nothing
  exists before (`NothingBefore`), everything exists after (`EverythingAfter`),
  and a task between take and give holds the mutex (`BodyHolds`). Mutual
  exclusion alone is not inductive: it needs that there is only one mutex, which
  is a fact about the first use.

  The data invariant (`DataInv`) stands on it, because only the holder of the mutex
  changes the map. Between puts the map holds what was committed, whole messages
  with their time (`StoreData`); within a put it holds the committed entry with the
  first pairs of the message (`PartlyWritten`), within a snapshot the copy holds the
  matching topics of the first slots (`PartlyCopied`). Stamped snapshots follow. In
  the refinement a put takes effect when it writes the time, a snapshot when its
  loop ends, and a call of `AtomicStore` ends with the give; all other steps are
  stutters (`RefinePut`, `RefineGet`, `RefineGive`, `RefineUnseen`). Lemmas
  `MergedOneMore` and `MergedAll` show that pairs written one after the other make
  the message that the abstract put merges at once. The constants' assumption that
  NULL is no text (`NoValue`) separates an entry without a time from one with it.
* `OutletProofs`: `TopicIsThere`, `BufferReflectsRelay`, `OneCallerInside`,
  `CachedAnswerIsFresh`, `Republished` and `WellTyped`, for any number of callers and any
  times. The invariant relates `lastPublishTime` and `lastPublishState` to the
  buffer whenever no caller is about to put (`Published`, `Reflects`): a request
  whose result is not published found its state unchanged. For the times,
  `DeadlineHeld` shows that if a sum that was cut passes the test, the true time is
  at most the deadline and one turn for each restart since (`Turns`, `CutIsLess`). How
  far an answer and its publication are apart is part of `Times`. That no time is
  ahead of the uptime (`InTime`) gives the types.
* `MqttClientProofs`: `SavedAreSubscribed`, `ConnectStateUnheard`, `WellTyped` and
  `OverrideUpToDate`, for any number of losses and messages. In the handler's loop, what the iterator has
  passed is subscribed (`PassedIsLive`); behind it every saved topic is
  subscribed, raced, or its task is still between saving and asking
  (`SavedIsLive`); the flag follows the session (`FlagFollows`). For the override
  (`OverrideInOrder`): the last message under way is the broker's latest, what
  `loopTask` is about to store is what it published last, and where that message is
  among those under way, or whether it was handled, is what `ahead` and `overtaken`
  say (lemma `ReceiveInOrder`).
* `MenuProofs`: `EditShown`, `OwnMessagesAreComplete`, `RemainingCorrect`,
  `EditsNegatable` and `WellTyped`. The first needs that an edit that met no refresh keeps refreshes out
  (`NoRefreshDuringEdit`), the second that an entry for `forMs` stays
  (`EntryStays`), the third that numbers of 32 bits which differ from the true
  ones by full turns are the true ones in the signed range (`SignedIsRight`). `EditsNegatable`
  says that an edited value can be negated however often it was doubled. The
  test of `menu.cpp:134` lets `INT32_MIN / 2` itself be doubled, so this rests on
  the numbers: edited values are multiples of half an hour (`Editable`), and 2^30 is
  none of 1 800 000 (`ConstantsOK`, lemma `QuarterIsNoMultiple`).
* `GoogleSheetProofs`: `ConnectionsDeleted` and `RequestArrivesWhole`, with what
  was received kept equal to the written part of the request (`PartSent`), and
  `RedirectFound`. For the latter, `AnswerLayout` shows that every answer has a
  status line, complete headers and a blank line (`Layout`), from lemmas about one
  more header; `Parsed` says that, until the blank line was met, the page buffer is
  the part of the answer behind one of its line ends, and the location is that of
  the headers before it; when the loop over the headers ends, no complete header is
  left in the page buffer (`NoMoreHeaders`, lemma `NoneLeft`). The assumption that
  a url has no line end is what the syntax of urls guarantees. The number of headers
  (`MaxHead`), the urls, the lengths of the body and of the page buffer are
  arbitrary.
* `LoopTaskProofs`: `PressKeepsOccupied`, `PressExpires`, `OneEvent` and `WellTyped`.
  `DeadlineReading` shows that the deadline is read correctly although it is
  signed and may overflow, `ExpiredMeans` that within a turn of the clock the
  comparison is that of the true times. For the events, `longPush` says whether
  the present press has had its event (`Down`).

Only model-checked: the liveness properties `MatchReturns`, `LoopEnds`,
`CallsReturn`, `GetStateReturns`, `CallReturns` and `Converges`, since fairness and
ENABLED are beyond the prover. All other properties of the passing runs have a
theorem. `GoogleSheet`, `TopicMatch` and `Payload` have no type invariant of their
own; what their proofs need of types is part of the invariants above.

## 5. Not modelled

* All five tasks in one module. What they share is the buffer, the variables of
  `mqtt.cpp` and the outlet, and each of these has a module with the tasks that
  use it; the product of them is out of TLC's reach.
* Allocation failures: the code asserts on them, and they restart the device.
* The length of a Location, the depth of recursion over redirects, the stack.
* Functions nobody calls: `getHttps`, `setPostFields`, `curlTest`,
  `addControlSubscription`, the button queries the program does not use.
* Text, layout and drawing (titles as they are worded, the WiFi symbol, the
  average as a number), logging, and the url of the broker from standard input.
* Vendored code except for `Button.cpp`. FreeRTOS, the WiFi driver, the mqtt
  client library, the broker, curl, the TLS library, `strsep` and the clock are
  modelled as the code uses them. The widgets of `cfGUI`, which two tasks use at
  once (`menu.cpp:315`), are not in the repository: the callbacks come in any
  order.

## 6. State of the plan

Every part of `src/main/` that keeps state has a module, every module has theorems,
and every safety property that a passing run checks is proved. What is left:

1. The properties of the way back to work (`Converges`) and of returning calls
   for every value of the constants: out of the prover's reach, so larger
   instances of the runs are the way to more confidence.
2. A module with several of the five tasks, if the buffer or the mqtt client ever
   offers more than the single steps that their users rely on.
