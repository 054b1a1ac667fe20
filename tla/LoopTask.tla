------------------------------ MODULE LoopTask ------------------------------
(***************************************************************************)
(* One turn of loopTask (main/main.cpp): M5.update() reads and debounces   *)
(* the buttons (Button::read), occupancy_update() notes a press and lets   *)
(* it expire (main/occupancy.cpp), updateMenu() turns what the buttons did *)
(* into events for the widgets (main/menu.cpp).  Time passes between any   *)
(* two steps, since tasks of higher priority run on the same core.         *)
(*                                                                         *)
(* Times have 32 bits: millis() is the uptime modulo Wrap, timeoutLastSet  *)
(* is signed, and its sum with timeout is made unsigned to be compared.    *)
(* That sum may exceed the signed range; the build's addition wraps.       *)
(***************************************************************************)
EXTENDS Integers

CONSTANTS Buttons,    \* BtnA, BtnB, BtnC
          B,          \* the one of them with a long push
          Debounce,   \* DEBOUNCE_MS
          Long,       \* 1000 ms in updateMenu()
          Timeout,    \* VALID_TIME_BUTTON_PRESS
          Wrap,       \* 2^32
          MaxUptime   \* bound on the uptime

ASSUME ConstantsOK ==
    /\ B \in Buttons
    /\ {Debounce, Long, Timeout, MaxUptime} \subseteq Nat \ {0}
    /\ Wrap \in Nat /\ Wrap % 2 = 0 /\ 2 * Timeout < Wrap /\ Debounce < Long

VARIABLES pin,         \* which buttons are held down
          state, changed, lastChange, time,   \* the fields of Button
          timeoutLastSet, currentOccupancy,   \* occupancy.cpp
          longPush,    \* menu.cpp
          pc,          \* the next step of the turn
          uptime,      \* true time since the device started
          setAt,       \* history: true time of timeoutLastSet
          events       \* history: widget events since B was last seen going down

button == <<state, changed, lastChange, time>>
occupancy == <<timeoutLastSet, currentOccupancy, setAt>>
vars == <<pin, button, occupancy, longPush, pc, uptime, events>>

millis == uptime % Wrap

\* Mutant of Signed: the time is kept unsigned.
SignedNever(n) == n % Wrap

Signed(n) == IF n % Wrap < Wrap \div 2 THEN n % Wrap ELSE (n % Wrap) - Wrap
Unsigned(n) == n % Wrap

\* A button may be held while its constructor reads it.
Init ==
    /\ uptime = 0
    /\ pin \in [Buttons -> BOOLEAN]
    /\ state = pin
    /\ changed = [b \in Buttons |-> FALSE]
    /\ lastChange = [b \in Buttons |-> 0]
    /\ time = 0
    /\ timeoutLastSet = -Timeout /\ setAt = -Timeout
    /\ currentOccupancy = TRUE
    /\ longPush = FALSE
    /\ pc = "update"
    /\ events = IF pin[B] THEN 0 ELSE 1

-----------------------------------------------------------------------------
(* Button and M5Stack::update *)

Settled(b) == Unsigned(millis - lastChange[b]) >= Debounce
wasPressed(b) == state[b] /\ changed[b]
wasReleased(b) == ~state[b] /\ changed[b]
pressedFor(b, ms) == state[b] /\ Unsigned(time - lastChange[b]) >= ms

update ==
    /\ pc = "update"
    /\ pc' = "set"
    /\ time' = millis
    /\ state' = [b \in Buttons |-> IF Settled(b) THEN pin[b] ELSE state[b]]
    /\ changed' = [b \in Buttons |-> state'[b] # state[b]]
    /\ lastChange' = [b \in Buttons |-> IF changed'[b] THEN millis ELSE lastChange[b]]
    /\ events' = IF wasPressed(B)' THEN 0 ELSE events
    /\ UNCHANGED <<pin, occupancy, longPush, uptime>>

-----------------------------------------------------------------------------
(* occupancy_update *)

occupancy_set ==
    /\ pc = "set"
    /\ pc' = "expire"
    /\ IF \E b \in Buttons : wasPressed(b)
       THEN timeoutLastSet' = Signed(millis) /\ currentOccupancy' = TRUE /\ setAt' = uptime
       ELSE UNCHANGED occupancy
    /\ UNCHANGED <<pin, button, longPush, uptime, events>>

\* Mutant of Expired: the comparison is off by one.
ExpiredLate == Unsigned(timeoutLastSet + Timeout) + 1 < millis

\* Mutant of Expired: both sides are compared as signed numbers.
ExpiredSigned == Signed(timeoutLastSet + Timeout) < Signed(millis)

Expired == Unsigned(timeoutLastSet + Timeout) < millis

expire ==
    /\ pc = "expire"
    /\ pc' = "menu"
    /\ currentOccupancy' = (currentOccupancy /\ ~Expired)
    /\ UNCHANGED <<pin, button, timeoutLastSet, setAt, longPush, uptime, events>>

-----------------------------------------------------------------------------
(* updateMenu, the part that looks at BtnB *)

LongPushB == pressedFor(B, Long) /\ ~longPush

\* Mutant of ShortPushB: every release is an event.
ShortPushAlways == ~pressedFor(B, Long) /\ wasReleased(B)

ShortPushB == ~pressedFor(B, Long) /\ wasReleased(B) /\ ~longPush

updateMenu ==
    /\ pc = "menu"
    /\ pc' = "update"
    /\ events' = IF LongPushB \/ ShortPushB THEN events + 1 ELSE events
    /\ longPush' = (pressedFor(B, Long) \/ (longPush /\ ~wasReleased(B)))
    /\ UNCHANGED <<pin, button, occupancy, uptime>>

-----------------------------------------------------------------------------
(* The outside world *)

Tick ==
    /\ uptime < MaxUptime
    /\ uptime' = uptime + 1
    /\ UNCHANGED <<pin, button, occupancy, longPush, pc, events>>

\* Somebody presses or releases a button.
Move(b) ==
    /\ pin' = [pin EXCEPT ![b] = ~pin[b]]
    /\ UNCHANGED <<button, occupancy, longPush, pc, uptime, events>>

Next ==
    \/ update \/ occupancy_set \/ expire \/ updateMenu
    \/ Tick
    \/ \E b \in Buttons : Move(b)

Spec == Init /\ [][Next]_vars

-----------------------------------------------------------------------------
(* Properties *)

Deadline == setAt + Timeout
SameTurn(s, t) == s \div Wrap = t \div Wrap

\* The variables have their types and widths, and timeoutLastSet is the low half
\* of the time it stands for.
TypeOK ==
    /\ pin \in [Buttons -> BOOLEAN] /\ state \in [Buttons -> BOOLEAN]
    /\ changed \in [Buttons -> BOOLEAN] /\ lastChange \in [Buttons -> 0..(Wrap - 1)]
    /\ time \in 0..(Wrap - 1)
    /\ timeoutLastSet \in -(Wrap \div 2)..(Wrap \div 2 - 1)
    /\ timeoutLastSet = Signed(setAt)
    /\ currentOccupancy \in BOOLEAN /\ longPush \in BOOLEAN
    /\ pc \in {"update", "set", "expire", "menu"}
    /\ uptime \in 0..MaxUptime /\ setAt \in -Timeout..MaxUptime

\* After a press the room counts as occupied for Timeout, for every time at which
\* the press can come (also where the signed sum overflows), except when the
\* clock starts again before the deadline: then the press expires at once.
OccupiedForTimeout ==
    uptime <= Deadline /\ SameTurn(setAt, Deadline) => currentOccupancy

\* No turn leaves the room occupied after the deadline, at boot (when nobody has
\* pressed anything) included, unless the clock started again since the deadline.
ExpiresInTime ==
    [][expire => ~currentOccupancy' \/ uptime <= Deadline \/ ~SameTurn(Deadline, uptime)]_vars

\* Each time BtnB goes down, however long and over whatever turn of the clock it
\* is held, the focused widget gets exactly one event: a long push or a push.
OneEventPerPress ==
    /\ events <= 1
    /\ pc = "update" /\ ~state[B] => events = 1
=============================================================================
