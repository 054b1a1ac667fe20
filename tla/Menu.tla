-------------------------------- MODULE Menu --------------------------------
(***************************************************************************)
(* Button 1 of main/menu.cpp, the heating override: loopTask runs the      *)
(* callbacks with which its user edits, applies or cancels a value, and    *)
(* loopTask15sec shows what is left of the override in the buffer, unless  *)
(* a value is being edited.  The two tasks share the variables of menu.cpp *)
(* and nothing protects them.                                              *)
(*                                                                         *)
(* Both run on one core, and the 15 second task has the higher priority:   *)
(* loopTask can only run where the other waits, for the buffer's mutex     *)
(* before its snapshot, or for the output's lock in the printf() before    *)
(* SetTitle.  The callbacks come in any order (the widget library is not   *)
(* part of the repository).  A title is the number of ms it tells, with    *)
(* its sign for on and off; a message is its forMs.  Reading through NULL  *)
(* panics: the device starts again, from Init, and the model stops.        *)
(***************************************************************************)
EXTENDS Integers

CONSTANTS HalfHour,   \* 30 * 60 * 1000
          Longest,    \* 120 * 60 * 1000
          Foreign,    \* forMs of other controllers' messages
          Wrap,       \* 2^32
          Step,       \* how far the clock moves between two readings of it
          MaxUptime,  \* bound on the uptime
          NoKey,      \* a message without forMs
          None        \* no message

ASSUME ConstantsOK ==
    /\ {HalfHour, Longest, Step, MaxUptime} \subseteq Nat \ {0}
    /\ Wrap \in Nat /\ Wrap % 4 = 0
    /\ Foreign \subseteq 0..(Wrap - 1)
    /\ Longest % HalfHour = 0 /\ 2 * Longest < Wrap
    /\ (Wrap \div 4) % HalfHour # 0   \* a doubled HalfHour is never INT32_MIN / 2
    /\ NoKey \notin Int /\ None \notin [forMs : Int \cup {NoKey}, at : Nat]
    /\ None \notin {"forMs", "temperature"}

VARIABLES editingButton1Value, editButton1Value, editOldButton1Value,
          title,    \* of button 1
          stored,   \* HEATING_CONTROL in the buffer: forMs and time of arrival
          pc,       \* pc[t]: the next step of task t
          shown,    \* shown[t]: the argument of task t's updateButton1(value)
          failed,   \* the key whose missing entry was dereferenced
          uptime,   \* true time since the device started
          applied,  \* history: a value was applied here since the start
          raced     \* history: a refresh was under way when the value was last edited

edit == <<editingButton1Value, editButton1Value, editOldButton1Value>>
vars == <<edit, title, stored, pc, shown, failed, uptime, applied, raced>>

millis == uptime % Wrap
Signed(n) == IF n % Wrap < Wrap \div 2 THEN n % Wrap ELSE (n % Wrap) - Wrap

Init ==
    /\ editingButton1Value = FALSE
    /\ editButton1Value = 0 /\ editOldButton1Value = 0
    /\ title = 0
    /\ stored = None
    /\ pc = [t \in {"loop", "task15"} |-> "idle"]
    /\ shown = [t \in {"loop", "task15"} |-> 0]
    /\ failed = None
    /\ uptime = 0
    /\ applied = FALSE /\ raced = FALSE

Goto(t, a, b) ==
    /\ failed = None
    /\ pc[t] = a
    /\ pc' = [pc EXCEPT ![t] = b]

-----------------------------------------------------------------------------
(* The callbacks of button 1, and updateButton1(value) in them *)

Raised ==
    CASE editButton1Value < 0 -> 0
      [] editButton1Value \in 0..(Longest - 1) -> editButton1Value + HalfHour
      [] OTHER -> editButton1Value

\* Mutant of Lowered: the value is doubled without a limit.
LoweredUnlimited ==
    CASE editButton1Value > 0 -> 0
      [] editButton1Value = 0 -> -HalfHour
      [] OTHER -> 2 * editButton1Value

Lowered ==
    CASE editButton1Value > 0 -> 0
      [] editButton1Value = 0 -> -HalfHour
      [] editButton1Value < 0 /\ editButton1Value >= -(Wrap \div 4) -> 2 * editButton1Value
      [] OTHER -> editButton1Value

Refreshing == pc["task15"] \in {"snapshot", "show"}

\* The up callback, and the down callback.
Edit(v) ==
    /\ Goto("loop", "idle", "idle")
    /\ editingButton1Value' = TRUE
    /\ editButton1Value' = v
    /\ title' = v
    /\ raced' = Refreshing
    /\ UNCHANGED <<editOldButton1Value, stored, shown, failed, uptime, applied>>

Apply ==
    /\ Goto("loop", "idle", "put")
    /\ editingButton1Value' = FALSE
    /\ editOldButton1Value' = editButton1Value
    /\ UNCHANGED <<editButton1Value, title, stored, shown, failed, uptime, applied, raced>>

Cancel ==
    /\ Goto("loop", "idle", "snapshot")
    /\ editingButton1Value' = FALSE
    /\ editButton1Value' = editOldButton1Value
    /\ UNCHANGED <<editOldButton1Value, title, stored, shown, failed, uptime, applied, raced>>

\* A message adds its pairs and its time to the topic; forMs stays if it has none.
Put(forMs) ==
    stored' = [forMs |-> IF forMs = NoKey /\ stored # None THEN stored.forMs ELSE forMs,
               at |-> uptime]

\* Mutant of Payload1: "auto" is published without a duration.
PayloadAuto(v) == IF v = 0 THEN NoKey ELSE IF v > 0 THEN v ELSE -v

\* forMs in the payload of publishButton1(v).
Payload1(v) == IF v > 0 THEN v ELSE -v

publishButton1 ==
    /\ Goto("loop", "put", "idle")
    /\ Put(Payload1(editOldButton1Value))
    /\ applied' = TRUE
    /\ UNCHANGED <<edit, title, shown, failed, uptime, raced>>

-----------------------------------------------------------------------------
(* loopTask15sec, and updateButton1() *)

\* average(): every topic found must have a "temperature".
Average(complete) ==
    /\ Goto("task15", "idle", "test")
    /\ failed' = IF complete THEN None ELSE "temperature"
    /\ UNCHANGED <<edit, title, stored, shown, uptime, applied, raced>>

\* Mutant of TestEditing: the 15 second task does not care.
TestNothing ==
    /\ Goto("task15", "test", "snapshot")
    /\ UNCHANGED <<edit, title, stored, shown, failed, uptime, applied, raced>>

\* setButton1() with the outlet's state (module Outlet), and the test.
TestEditing ==
    /\ Goto("task15", "test", IF editingButton1Value THEN "idle" ELSE "snapshot")
    /\ UNCHANGED <<edit, title, stored, shown, failed, uptime, applied, raced>>

\* Mutant of Remaining: the difference of the times is not cut to 32 bits.
RemainingUncut == stored.forMs - (millis - (stored.at % Wrap))

\* timeRemaining, which becomes signed as an argument.
Remaining == Signed(stored.forMs - (millis - (stored.at % Wrap)))

\* With the buffer's mutex: the snapshot, and what follows up to printf().
Snapshot(t) ==
    /\ Goto(t, "snapshot", IF stored = None THEN "idle" ELSE "show")
    /\ IF stored = None THEN UNCHANGED <<shown, failed>>
       ELSE IF stored.forMs = NoKey THEN failed' = "forMs" /\ UNCHANGED shown
       ELSE shown' = [shown EXCEPT ![t] = Remaining] /\ UNCHANGED failed
    /\ UNCHANGED <<edit, title, stored, uptime, applied, raced>>

Show(t) ==
    /\ Goto(t, "show", "idle")
    /\ title' = shown[t]
    /\ shown' = [shown EXCEPT ![t] = 0]
    /\ UNCHANGED <<edit, stored, failed, uptime, applied, raced>>

-----------------------------------------------------------------------------
(* The outside world *)

\* MQTT_EVENT_DATA for the topic.
Receive(forMs) ==
    /\ failed = None
    /\ Put(forMs)
    /\ UNCHANGED <<edit, title, pc, shown, failed, uptime, applied, raced>>

Tick ==
    /\ failed = None
    /\ uptime + Step <= MaxUptime
    /\ uptime' = uptime + Step
    /\ UNCHANGED <<edit, title, stored, pc, shown, failed, applied, raced>>

Next ==
    \/ Edit(Raised) \/ Edit(Lowered) \/ Apply \/ Cancel \/ publishButton1
    \/ \E complete \in BOOLEAN : Average(complete)
    \/ TestEditing
    \/ \E t \in {"loop", "task15"} : Snapshot(t) \/ Show(t)
    \/ \E forMs \in Foreign \cup {NoKey} : Receive(forMs)
    \/ Tick

Spec == Init /\ [][Next]_vars

-----------------------------------------------------------------------------
(* Properties *)

SignedRange == -(Wrap \div 2)..(Wrap \div 2 - 1)

\* The variables have their types, what is shown fits into a signed number, and
\* each task is at one of its steps.
TypeOK ==
    /\ editingButton1Value \in BOOLEAN /\ applied \in BOOLEAN /\ raced \in BOOLEAN
    /\ {editButton1Value, editOldButton1Value} \subseteq Int
    /\ title \in SignedRange
    /\ stored \in {None} \cup [forMs : 0..(Wrap - 1) \cup {NoKey}, at : 0..uptime]
    /\ pc \in [{"loop", "task15"} -> {"idle", "put", "test", "snapshot", "show"}]
    /\ pc["loop"] # "test" /\ pc["task15"] # "put"
    /\ shown \in [{"loop", "task15"} -> SignedRange]
    /\ failed \in {None, "forMs", "temperature"}
    /\ uptime \in 0..MaxUptime

\* A value can be published however often it was doubled, raised and cancelled in
\* between: publishButton1() negates it, and neither leaves the signed numbers.
EditCanBeNegated ==
    \A v \in {editButton1Value, editOldButton1Value} : {v, -v} \subseteq SignedRange

\* While a value is edited the title tells that value, unless the 15 second task
\* had already passed its test when the value was edited.
EditShownUnlessRefreshing ==
    editingButton1Value /\ ~raced => title = editButton1Value

\* What a refresh is going to show is the time that is really left (negative if
\* the override has run out), over a restart of the clock too, until half a turn
\* of the clock after the end of the override.
RemainingIsRight ==
    [][\A t \in {"loop", "task15"} : Snapshot(t) /\ pc'[t] = "show" /\ failed' = None =>
          LET left == stored.forMs - (uptime - stored.at)
          IN  left \in SignedRange => shown'[t] = left]_vars

\* What this menu publishes can be shown by it: once a value was applied here, the
\* entry for forMs that updateButton1() dereferences is never missing, whatever
\* other controllers send.
OwnMessagesDisplay == applied => failed # "forMs"

\* The values are not updated while they are being edited.
EditNotOverwritten == editingButton1Value => title = editButton1Value
=============================================================================
