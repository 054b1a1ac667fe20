---------------------------- MODULE MenuProofs ----------------------------
(***************************************************************************)
(* Button 1 of main/menu.cpp, for every width of the clock and all values: *)
(* whose title is shown during an edit, what the refresh dereferences, and *)
(* the time it computes.                                                   *)
(***************************************************************************)
EXTENDS Menu, TLAPS

-----------------------------------------------------------------------------
(* Times in 32 bits *)

LEMMA Halves == Wrap \in Nat /\ Wrap > 0 /\ Wrap \div 2 \in Nat /\ Wrap = 2 * (Wrap \div 2)
<1>1. Wrap \in Nat /\ Wrap % 4 = 0 /\ Wrap > 0
  BY ConstantsOK DEF ConstantsOK
<1> QED
  BY <1>1, Z3

LEMMA Division ==
    ASSUME NEW n \in Int
    PROVE  /\ n \div Wrap \in Int /\ n % Wrap \in Int
           /\ 0 <= n % Wrap /\ n % Wrap < Wrap
           /\ n = Wrap * (n \div Wrap) + (n % Wrap)
  BY Halves, Z3

LEMMA SignedType == ASSUME NEW n \in Int PROVE Signed(n) \in Int
  BY Halves, Division DEF Signed

LEMMA Distribute ==
    ASSUME NEW a \in Int, NEW b \in Int, NEW c \in Int
    PROVE  a * (b - c) = a * b - a * c
  BY Z3

\* Full turns can be moved from one side to the other.
LEMMA MoveTurns ==
    ASSUME NEW a \in Int, NEW q \in Int, NEW k \in Int, NEW l \in Int, NEW r \in Int,
           l + a * k = a * q + r
    PROVE  l = a * (q - k) + r
  OBVIOUS

\* Few multiples of Wrap are small.
LEMMA SmallMultiples ==
    ASSUME NEW m \in Int, -(2 * Wrap) < Wrap * m, Wrap * m < Wrap
    PROVE  m = 0 \/ m = -1
<1>1. ~(m >= 1)
  BY Halves, Z3
<1>2. ~(m <= -2)
  BY Halves, Z3
<1> QED
  BY <1>1, <1>2

\* A number that differs from a signed one by full turns is that number.
LEMMA SignedIsRight ==
    ASSUME NEW n \in Int, NEW k \in Int, NEW l \in SignedRange, n = l + Wrap * k
    PROVE  Signed(n) = l
<1>1. l \in Int /\ -(Wrap \div 2) <= l /\ l < Wrap \div 2
  BY Halves DEF SignedRange
<1>2. PICK q \in Int, r \in Int : n = Wrap * q + r /\ r = n % Wrap /\ 0 <= r /\ r < Wrap
  <2>1. /\ n \div Wrap \in Int /\ n % Wrap \in Int
        /\ n = Wrap * (n \div Wrap) + (n % Wrap) /\ 0 <= n % Wrap /\ n % Wrap < Wrap
    BY Division, Zenon
  <2> QED
    BY <2>1, Zenon
<1> DEFINE m == q - k
<1>3. l = Wrap * m + r
  BY <1>1, <1>2, Halves, MoveTurns
<1>8. m \in Int
  OBVIOUS
<1> HIDE DEF m
<1>4. Wrap * m \in Int
  BY <1>8, Halves
<1>5. m = 0 \/ m = -1
  BY <1>1, <1>2, <1>3, <1>4, <1>8, Halves, SmallMultiples
<1>6. CASE m = 0
  <2>1. Wrap * 0 = 0
    BY Halves
  <2>2. l = r
    BY <1>1, <1>2, <1>3, <1>6, <2>1
  <2>3. n % Wrap < Wrap \div 2 /\ n % Wrap = l
    BY <1>1, <1>2, <2>2
  <2> QED
    BY <2>3, Zenon DEF Signed
<1>7. CASE m = -1
  <2>1. Wrap * (-1) = -Wrap
    BY Halves
  <2>2. l = r - Wrap
    BY <1>1, <1>2, <1>3, <1>7, <2>1, Halves
  <2>3. ~(n % Wrap < Wrap \div 2) /\ (n % Wrap) - Wrap = l
    BY <1>1, <1>2, <2>2, Halves
  <2> QED
    BY <2>3, Zenon DEF Signed
<1> QED
  BY <1>5, <1>6, <1>7

-----------------------------------------------------------------------------
(* The inductive invariant *)

Entries == [forMs : Int \cup {NoKey}, at : Nat]

Types ==
    /\ editingButton1Value \in BOOLEAN /\ applied \in BOOLEAN /\ raced \in BOOLEAN
    /\ editButton1Value \in Int /\ editOldButton1Value \in Int
    /\ stored \in {None} \cup Entries
    /\ uptime \in Nat
    /\ shown \in [{"loop", "task15"} -> Int]
    /\ pc \in [{"loop", "task15"} -> {"idle", "put", "snapshot", "show", "test"}]
    /\ failed \in {None, "forMs", "temperature"}

\* Outside of the callbacks' idle point nothing is being edited.
EditsWhenIdle == pc["loop"] # "idle" => ~editingButton1Value

\* During an edit that met no refresh, none can have begun.
NoRefreshDuringEdit == editingButton1Value /\ ~raced => ~Refreshing

\* What this device published has left an entry for forMs.
EntryStays == applied => stored # None /\ stored.forMs # NoKey

IInv ==
    /\ Types /\ EditsWhenIdle /\ NoRefreshDuringEdit /\ EntryStays
    /\ EditShownUnlessRefreshing /\ OwnMessagesDisplay

LEMMA InitIInv == Init => IInv
<1> SUFFICES ASSUME Init PROVE IInv
  OBVIOUS
<1>1. Types
  <2>1. pc \in [{"loop", "task15"} -> {"idle", "put", "snapshot", "show", "test"}]
    BY DEF Init
  <2>2. shown \in [{"loop", "task15"} -> Int]
    BY DEF Init
  <2>3. uptime \in Nat /\ editButton1Value \in Int /\ editOldButton1Value \in Int
    BY DEF Init
  <2> QED
    BY <2>1, <2>2, <2>3, Zenon DEF Init, Types
<1>2. EditsWhenIdle /\ NoRefreshDuringEdit /\ EntryStays /\ EditShownUnlessRefreshing
  BY DEF Init, EditsWhenIdle, NoRefreshDuringEdit, EntryStays, EditShownUnlessRefreshing
<1>3. OwnMessagesDisplay
  BY DEF Init, OwnMessagesDisplay
<1> QED
  BY <1>1, <1>2, <1>3 DEF IInv

\* A message leaves an entry, and its duration unless it has none of its own.
LEMMA PutEntry ==
    ASSUME NEW forMs \in Int \cup {NoKey}, Types, Put(forMs)
    PROVE  /\ stored' \in Entries /\ stored' # None
           /\ forMs # NoKey => stored'.forMs # NoKey
           /\ stored # None /\ stored.forMs # NoKey => stored'.forMs # NoKey
  BY ConstantsOK DEF ConstantsOK, Types, Put, Entries

LEMMA EditedValues ==
    ASSUME Types
    PROVE  Raised \in Int /\ Lowered \in Int /\ Payload1(editOldButton1Value) \in Int
<1> USE ConstantsOK DEF ConstantsOK, Types
<1>1. Raised \in Int
  BY DEF Raised
<1>2. Lowered \in Int
  BY DEF Lowered
<1>3. Payload1(editOldButton1Value) \in Int
  BY DEF Payload1
<1> QED
  BY <1>1, <1>2, <1>3

LEMMA NextIInv == IInv /\ [Next]_vars => IInv'
<1> SUFFICES ASSUME IInv, [Next]_vars PROVE IInv'
  OBVIOUS
<1> USE ConstantsOK DEF ConstantsOK, IInv, Types, EditsWhenIdle, NoRefreshDuringEdit, EntryStays,
        EditShownUnlessRefreshing, OwnMessagesDisplay, Goto, edit, Refreshing
<1>1. ASSUME NEW v \in Int, Edit(v) PROVE IInv'
  <2>1. raced' = (pc["task15"] \in {"snapshot", "show"})
    BY <1>1, Zenon DEF Edit
  <2>2. raced' \in BOOLEAN
    BY <2>1
  <2>3. ~raced' => pc["task15"] \notin {"snapshot", "show"}
    BY <2>1, Zenon
  <2>4. /\ pc' = pc /\ pc["loop"] = "idle" /\ failed = None /\ failed' = None
        /\ editingButton1Value' = TRUE /\ editButton1Value' = v /\ title' = v
        /\ UNCHANGED <<editOldButton1Value, stored, shown, uptime, applied>>
    BY <1>1 DEF Edit
  <2> QED
    BY <2>2, <2>3, <2>4
<1>2. CASE Apply
  BY <1>2 DEF Apply
<1>3. CASE Cancel
  BY <1>3 DEF Cancel
<1>4. CASE publishButton1
  <2>1. Put(Payload1(editOldButton1Value)) /\ Payload1(editOldButton1Value) \in Int
    BY <1>4, EditedValues DEF publishButton1
  <2>2. stored' \in Entries /\ stored' # None /\ stored'.forMs # NoKey
    BY <2>1, PutEntry
  <2> QED
    BY <1>4, <2>2 DEF publishButton1
<1>5. ASSUME NEW complete \in BOOLEAN, Average(complete) PROVE IInv'
  BY <1>5 DEF Average
<1>6. CASE TestEditing
  BY <1>6 DEF TestEditing
<1>7. ASSUME NEW t \in {"loop", "task15"}, Snapshot(t) PROVE IInv'
  <2>1. stored # None /\ stored.forMs # NoKey => Remaining \in Int
    <3> SUFFICES ASSUME stored # None, stored.forMs # NoKey PROVE Remaining \in Int
      OBVIOUS
    <3>1. stored.forMs \in Int /\ stored.at \in Int /\ uptime \in Int
      BY DEF Entries
    <3>2. stored.at % Wrap \in Int /\ uptime % Wrap \in Int
      BY <3>1, Division
    <3> QED
      BY <3>1, <3>2, SignedType DEF Remaining, millis
  <2> QED
    BY <1>7, <2>1 DEF Snapshot
<1>8. ASSUME NEW t \in {"loop", "task15"}, Show(t) PROVE IInv'
  BY <1>8 DEF Show
<1>9. ASSUME NEW forMs \in Foreign \cup {NoKey}, Receive(forMs) PROVE IInv'
  <2>1. Put(forMs) /\ forMs \in Int \cup {NoKey}
    BY <1>9 DEF Receive
  <2>2. stored' \in Entries /\ stored' # None
        /\ (stored # None /\ stored.forMs # NoKey => stored'.forMs # NoKey)
    BY <2>1, PutEntry
  <2> QED
    BY <1>9, <2>2 DEF Receive
<1>10. CASE Tick
  BY <1>10 DEF Tick
<1>11. CASE UNCHANGED vars
  BY <1>11 DEF vars
<1> QED
  BY <1>1, <1>2, <1>3, <1>4, <1>5, <1>6, <1>7, <1>8, <1>9, <1>10, <1>11, EditedValues DEF Next

LEMMA IInvAlways == Spec => []IInv
  BY InitIInv, NextIInv, PTL DEF Spec

-----------------------------------------------------------------------------
(* The results *)

\* While a value is being edited its title stays, unless a refresh was already past
\* its test of editingButton1Value when the value was edited.
THEOREM EditShown == Spec => []EditShownUnlessRefreshing
<1>1. IInv => EditShownUnlessRefreshing
  BY DEF IInv
<1> QED
  BY <1>1, IInvAlways, PTL

\* updateButton1() finds forMs ever after this device has published an override,
\* whatever messages other controllers send.
THEOREM OwnMessagesAreComplete == Spec => []OwnMessagesDisplay
<1>1. IInv => OwnMessagesDisplay
  BY DEF IInv
<1> QED
  BY <1>1, IInvAlways, PTL

\* The difference that updateButton1() computes from two readings of the clock is
\* the true one but for full turns.
LEMMA RemainingTurns ==
    ASSUME NEW f \in Int, NEW u \in Int, NEW a \in Int
    PROVE  \E k \in Int : f - ((u % Wrap) - (a % Wrap)) = (f - (u - a)) + Wrap * k
<1>1. PICK q \in Int, r \in Int : u = Wrap * q + r /\ r = u % Wrap
  BY Division, Zenon
<1>2. PICK p \in Int, s \in Int : a = Wrap * p + s /\ s = a % Wrap
  BY Division, Zenon
<1>3. Wrap * (q - p) = Wrap * q - Wrap * p
  BY Halves, Distribute
<1>4. Wrap * q \in Int /\ Wrap * p \in Int /\ q - p \in Int
  BY Halves
<1>5. f - (r - s) = (f - (u - a)) + (Wrap * q - Wrap * p)
  BY <1>1, <1>2, <1>4
<1>6. f - ((u % Wrap) - (a % Wrap)) = (f - (u - a)) + Wrap * (q - p)
  BY <1>1, <1>2, <1>3, <1>5, Zenon
<1> QED
  BY <1>4, <1>6, Zenon

\* What a refresh is going to show is the time that is left, for every width of the
\* clock and across its restarts, unless it is out of the range of signed numbers.
THEOREM RemainingCorrect == Spec => RemainingIsRight
<1> DEFINE Right == \A t \in {"loop", "task15"} :
                       Snapshot(t) /\ pc'[t] = "show" /\ failed' = None =>
                           LET left == stored.forMs - (uptime - stored.at)
                           IN  left \in SignedRange => shown'[t] = left
<1>1. IInv => Right
  <2> SUFFICES ASSUME IInv, NEW t \in {"loop", "task15"}, Snapshot(t), pc'[t] = "show",
                      failed' = None,
                      stored.forMs - (uptime - stored.at) \in SignedRange
               PROVE  shown'[t] = stored.forMs - (uptime - stored.at)
    OBVIOUS
  <2>1. stored # None
    BY DEF Snapshot, Goto, IInv, Types
  <2>2. stored.forMs # NoKey
    BY <2>1, ConstantsOK DEF Snapshot, ConstantsOK
  <2>3. stored.forMs \in Int /\ stored.at \in Int /\ uptime \in Int
    BY <2>1, <2>2 DEF IInv, Types, Entries
  <2>4. shown'[t] = Remaining
    BY <2>1, <2>2 DEF Snapshot, IInv, Types
  <2>5. Remaining = Signed(stored.forMs - ((uptime % Wrap) - (stored.at % Wrap)))
    BY DEF Remaining, millis
  <2>6. PICK k \in Int : stored.forMs - ((uptime % Wrap) - (stored.at % Wrap))
                           = (stored.forMs - (uptime - stored.at)) + Wrap * k
    BY <2>3, RemainingTurns
  <2>7. stored.forMs - ((uptime % Wrap) - (stored.at % Wrap)) \in Int
    BY <2>3, Division
  <2>8. Signed(stored.forMs - ((uptime % Wrap) - (stored.at % Wrap)))
          = stored.forMs - (uptime - stored.at)
    BY <2>6, <2>7, SignedIsRight
  <2> QED
    BY <2>4, <2>5, <2>8, Zenon
<1>2. IInv /\ [Next]_vars => [Right]_vars
  BY <1>1
<1>3. Spec => [][Right]_vars
  BY <1>2, IInvAlways, PTL DEF Spec
<1> QED
  BY <1>3 DEF RemainingIsRight
-----------------------------------------------------------------------------
(* Ranges *)

\* A value that the callbacks can reach: a multiple of half an hour that is not above
\* the longest, nor so low that it cannot be negated.
Editable(v) ==
    /\ \E k \in Int : v = HalfHour * k
    /\ v <= Longest /\ -(Wrap \div 2) < v

\* Numbers that the code keeps are in the range of their type.
Ranges ==
    /\ Editable(editButton1Value) /\ Editable(editOldButton1Value)
    /\ title \in SignedRange /\ shown \in [{"loop", "task15"} -> SignedRange]
    /\ stored # None =>
          /\ stored.at <= uptime
          /\ stored.forMs # NoKey => stored.forMs \in 0..(Wrap - 1)
    /\ uptime <= MaxUptime
    /\ pc["loop"] # "test" /\ pc["task15"] # "put"

LEMMA Quarters == Wrap \div 4 \in Nat /\ Wrap = 4 * (Wrap \div 4) /\ Wrap \div 2 = 2 * (Wrap \div 4)
<1>1. Wrap \in Nat /\ Wrap % 4 = 0 /\ Wrap > 0
  BY ConstantsOK DEF ConstantsOK
<1> QED
  BY <1>1, Z3

LEMMA SignedInRange == ASSUME NEW n \in Int PROVE Signed(n) \in SignedRange
<1> DEFINE r == n % Wrap
           h == Wrap \div 2
<1>1. r \in Int /\ 0 <= r /\ r < Wrap /\ h \in Nat /\ Wrap \in Nat /\ Wrap = 2 * h
  BY Division, Halves
<1>2. Signed(n) = IF r < h THEN r ELSE r - Wrap
  BY DEF Signed
<1> HIDE DEF r, h
<1>3. Signed(n) \in -h..(h - 1)
  BY <1>1, <1>2
<1> QED
  BY <1>3 DEF h, SignedRange

\* The longest value is a number of half hours, and one half hour is not longer.
LEMMA LongestMultiple ==
    \E m \in Nat : m >= 1 /\ Longest = HalfHour * m /\ HalfHour <= Longest
<1>1. HalfHour \in Nat /\ HalfHour > 0 /\ Longest \in Nat /\ Longest > 0 /\ Longest % HalfHour = 0
  BY ConstantsOK DEF ConstantsOK
<1>2. Longest \div HalfHour \in Nat /\ Longest = HalfHour * (Longest \div HalfHour)
  BY <1>1, Z3
<1>3. PICK m \in Nat : Longest = HalfHour * m
  BY <1>2, Zenon
<1>4. m # 0
  BY <1>1, <1>3
<1>5. HalfHour <= HalfHour * m
  BY <1>1, <1>4, Z3
<1> QED
  BY <1>3, <1>4, <1>5

\* A multiple below the longest value has room for another half hour.
LEMMA RaisedStays ==
    ASSUME NEW k \in Int, HalfHour * k < Longest
    PROVE  HalfHour * (k + 1) <= Longest
<1>1. PICK m \in Nat : Longest = HalfHour * m
  BY LongestMultiple
<1>2. HalfHour \in Nat /\ HalfHour > 0
  BY ConstantsOK DEF ConstantsOK
<1>3. k < m
  <2>1. k >= m => HalfHour * k >= HalfHour * m
    BY <1>2, Z3
  <2> QED
    BY <1>1, <1>2, <2>1
<1>4. k + 1 <= m => HalfHour * (k + 1) <= HalfHour * m
  BY <1>2, Z3
<1> QED
  BY <1>1, <1>3, <1>4

\* INT32_MIN / 2 is no multiple of half an hour.
LEMMA QuarterIsNoMultiple == ASSUME NEW k \in Int PROVE HalfHour * k # -(Wrap \div 4)
<1>1. HalfHour \in Nat /\ HalfHour > 0 /\ Wrap \div 4 \in Nat /\ (Wrap \div 4) % HalfHour # 0
  BY ConstantsOK, Quarters DEF ConstantsOK
<1> DEFINE w == Wrap \div 4
<1>2. ASSUME HalfHour * k = -w PROVE w % HalfHour = 0
  <2>1. w = HalfHour * (-k) /\ w \in Nat
    BY <1>1, <1>2, Z3
  <2>2. PICK j \in Int : j = -k
    OBVIOUS
  <2>3. w = HalfHour * j
    BY <2>1, <2>2
  <2> HIDE DEF w
  <2> QED
    BY <1>1, <2>1, <2>3, Z3
<1> QED
  BY <1>1, <1>2

LEMMA EditableValues ==
    ASSUME Types, Ranges
    PROVE  Editable(Raised) /\ Editable(Lowered)
<1> DEFINE v == editButton1Value
<1>1. PICK k \in Int : v = HalfHour * k
  BY DEF Ranges, Editable
<1>2. v \in Int /\ v <= Longest /\ -(Wrap \div 2) < v
  BY DEF Types, Ranges, Editable
<1>3. /\ HalfHour \in Nat /\ HalfHour > 0 /\ Longest \in Nat /\ HalfHour <= Longest
      /\ 2 * Longest < Wrap
  BY ConstantsOK, LongestMultiple DEF ConstantsOK
<1>4. /\ Wrap \div 4 \in Nat /\ Wrap = 4 * (Wrap \div 4) /\ Wrap \div 2 = 2 * (Wrap \div 4)
      /\ Wrap \in Nat /\ Wrap > 0
  BY Quarters, Halves
<1>5. Editable(0)
  <2>1. 0 = HalfHour * 0
    BY <1>3
  <2>2. 0 <= Longest /\ -(Wrap \div 2) < 0
    BY <1>3, <1>4
  <2> QED
    BY <2>1, <2>2 DEF Editable
<1>6. Editable(v)
  BY DEF Ranges
<1>7. Editable(Raised)
  <2>1. CASE v < 0
    BY <1>5, <2>1 DEF Raised
  <2>2. CASE v \in 0..(Longest - 1)
    <3>1. Raised = v + HalfHour
      BY <1>2, <2>2 DEF Raised
    <3>2. v + HalfHour = HalfHour * (k + 1) /\ k + 1 \in Int
      BY <1>1, <1>3, Z3
    <3>3. v + HalfHour <= Longest
      BY <1>1, <1>3, <2>2, <3>2, RaisedStays
    <3>4. -(Wrap \div 2) < v + HalfHour
      BY <1>2, <1>3, <1>4
    <3> QED
      BY <3>1, <3>2, <3>3, <3>4, Zenon DEF Editable
  <2>3. CASE ~(v < 0) /\ v \notin 0..(Longest - 1)
    BY <1>6, <2>3 DEF Raised
  <2> QED
    BY <2>1, <2>2, <2>3
<1>8. Editable(Lowered)
  <2>1. CASE v > 0
    BY <1>2, <1>5, <2>1 DEF Lowered
  <2>2. CASE v = 0
    <3>1. Lowered = -HalfHour
      BY <2>2 DEF Lowered
    <3>2. -HalfHour = HalfHour * (-1) /\ -1 \in Int
      BY <1>3
    <3>3. -HalfHour <= Longest /\ -(Wrap \div 2) < -HalfHour
      BY <1>3, <1>4
    <3> QED
      BY <3>1, <3>2, <3>3, Zenon DEF Editable
  <2>3. CASE v < 0 /\ v >= -(Wrap \div 4)
    <3>1. Lowered = 2 * v
      BY <1>2, <2>3 DEF Lowered
    <3>2. 2 * v = HalfHour * (2 * k) /\ 2 * k \in Int
      BY <1>1, <1>3, Z3
    <3>3. v # -(Wrap \div 4)
      BY <1>1, QuarterIsNoMultiple
    <3>4. 2 * v <= Longest /\ -(Wrap \div 2) < 2 * v
      BY <1>2, <1>3, <1>4, <2>3, <3>3
    <3> QED
      BY <3>1, <3>2, <3>4, Zenon DEF Editable
  <2>4. CASE v < 0 /\ ~(v >= -(Wrap \div 4))
    BY <1>2, <1>6, <2>4 DEF Lowered
  <2> QED
    BY <1>2, <2>1, <2>2, <2>3, <2>4
<1> QED
  BY <1>7, <1>8

\* What can be edited can be shown, and negated.
LEMMA EditableInRange ==
    ASSUME NEW v \in Int, Editable(v)
    PROVE  v \in SignedRange \ {-(Wrap \div 2)} /\ Payload1(v) \in 0..(Wrap - 1)
<1>1. v <= Longest /\ -(Wrap \div 2) < v
  BY DEF Editable
<1>2. Longest \in Nat /\ 2 * Longest < Wrap
  BY ConstantsOK DEF ConstantsOK
<1> DEFINE h == Wrap \div 2
<1>3. h \in Nat /\ Wrap = 2 * h /\ Wrap \in Nat
  BY Halves
<1>4. -h < v /\ v <= Longest
  BY <1>1
<1> HIDE DEF h
<1>5. v \in -h..(h - 1) /\ v # -h
  BY <1>2, <1>3, <1>4
<1>6. Payload1(v) \in 0..(Wrap - 1)
  BY <1>2, <1>3, <1>4 DEF Payload1
<1> QED
  BY <1>5, <1>6 DEF h, SignedRange

LEMMA ZeroInRange == 0 \in SignedRange /\ Editable(0)
<1>1. Wrap \div 2 \in Nat /\ Wrap \div 2 > 0
  BY Halves
<1>2. HalfHour \in Nat /\ Longest \in Nat
  BY ConstantsOK DEF ConstantsOK
<1>3. 0 = HalfHour * 0 /\ 0 <= Longest /\ -(Wrap \div 2) < 0
  BY <1>1, <1>2
<1> QED
  BY <1>1, <1>3 DEF SignedRange, Editable

LEMMA InitRanges == Init => Ranges
<1> SUFFICES ASSUME Init PROVE Ranges
  OBVIOUS
<1>1. Editable(editButton1Value) /\ Editable(editOldButton1Value) /\ title \in SignedRange
  BY ZeroInRange DEF Init
<1>2. shown \in [{"loop", "task15"} -> SignedRange]
  BY ZeroInRange DEF Init
<1>3. uptime <= MaxUptime
  BY ConstantsOK DEF Init, ConstantsOK
<1>4. stored = None /\ pc["loop"] = "idle" /\ pc["task15"] = "idle"
  BY DEF Init
<1> QED
  BY <1>1, <1>2, <1>3, <1>4 DEF Ranges

LEMMA NextRanges == Types /\ Ranges /\ [Next]_vars => Ranges'
<1> SUFFICES ASSUME Types, Ranges, [Next]_vars PROVE Ranges'
  OBVIOUS
<1> USE DEF Goto, edit
<1>1. ASSUME NEW v \in Int, Editable(v), Edit(v) PROVE Ranges'
  <2>1. v \in SignedRange
    BY <1>1, EditableInRange
  <2>2. /\ editButton1Value' = v /\ title' = v /\ pc["loop"] = "idle"
        /\ pc' = [pc EXCEPT !["loop"] = "idle"]
        /\ UNCHANGED <<editOldButton1Value, stored, shown, uptime>>
    BY <1>1 DEF Edit
  <2> QED
    BY <1>1, <2>1, <2>2 DEF Types, Ranges, Editable
<1>2. CASE Apply
  BY <1>2 DEF Apply, Types, Ranges, Editable
<1>3. CASE Cancel
  BY <1>3 DEF Cancel, Types, Ranges, Editable
<1>4. ASSUME NEW forMs \in 0..(Wrap - 1) \cup {NoKey}, Put(forMs), uptime' = uptime
      PROVE  /\ stored'.at <= uptime'
             /\ stored'.forMs # NoKey => stored'.forMs \in 0..(Wrap - 1)
  BY <1>4 DEF Put, Types, Ranges
<1>5. CASE publishButton1
  <2>1. Payload1(editOldButton1Value) \in 0..(Wrap - 1)
    BY EditableInRange DEF Types, Ranges
  <2>2. /\ Put(Payload1(editOldButton1Value)) /\ pc' = [pc EXCEPT !["loop"] = "idle"]
        /\ UNCHANGED <<editButton1Value, editOldButton1Value, title, shown, uptime>>
    BY <1>5 DEF publishButton1
  <2>3. /\ stored'.at <= uptime'
        /\ stored'.forMs # NoKey => stored'.forMs \in 0..(Wrap - 1)
    BY <1>4, <2>1, <2>2
  <2> QED
    BY <2>2, <2>3 DEF Types, Ranges, Editable
<1>6. ASSUME NEW complete \in BOOLEAN, Average(complete) PROVE Ranges'
  BY <1>6 DEF Average, Types, Ranges, Editable
<1>7. CASE TestEditing
  BY <1>7 DEF TestEditing, Types, Ranges, Editable
<1>8. ASSUME NEW t \in {"loop", "task15"}, Snapshot(t) PROVE Ranges'
  <2>1. stored # None /\ stored.forMs # NoKey => Remaining \in SignedRange
    <3> SUFFICES ASSUME stored # None, stored.forMs # NoKey PROVE Remaining \in SignedRange
      OBVIOUS
    <3>1. stored.forMs \in Int /\ stored.at \in Int /\ uptime \in Int
      BY DEF Types, Entries
    <3>2. stored.at % Wrap \in Int /\ uptime % Wrap \in Int
      BY <3>1, Division
    <3> QED
      BY <3>1, <3>2, SignedInRange DEF Remaining, millis
  <2>2. shown' \in [{"loop", "task15"} -> SignedRange]
    BY <1>8, <2>1 DEF Snapshot, Ranges
  <2> QED
    BY <1>8, <2>2 DEF Snapshot, Types, Ranges, Editable
<1>9. ASSUME NEW t \in {"loop", "task15"}, Show(t) PROVE Ranges'
  <2>1. shown' \in [{"loop", "task15"} -> SignedRange] /\ title' \in SignedRange
    BY <1>9, ZeroInRange DEF Show, Ranges
  <2> QED
    BY <1>9, <2>1 DEF Show, Types, Ranges, Editable
<1>10. ASSUME NEW forMs \in Foreign \cup {NoKey}, Receive(forMs) PROVE Ranges'
  <2>1. /\ Put(forMs) /\ forMs \in 0..(Wrap - 1) \cup {NoKey}
        /\ UNCHANGED <<editButton1Value, editOldButton1Value, title, shown, uptime, pc>>
    BY <1>10, ConstantsOK DEF Receive, ConstantsOK
  <2>2. /\ stored'.at <= uptime'
        /\ stored'.forMs # NoKey => stored'.forMs \in 0..(Wrap - 1)
    BY <1>4, <2>1
  <2> QED
    BY <2>1, <2>2 DEF Ranges, Editable
<1>11. CASE Tick
  <2>1. /\ uptime' = uptime + Step /\ uptime' <= MaxUptime
        /\ UNCHANGED <<editButton1Value, editOldButton1Value, title, stored, shown, pc>>
    BY <1>11 DEF Tick
  <2>2. stored # None => stored.at <= uptime'
    BY <2>1, ConstantsOK DEF ConstantsOK, Types, Entries, Ranges
  <2> QED
    BY <2>1, <2>2 DEF Ranges, Editable
<1>12. CASE UNCHANGED vars
  BY <1>12 DEF vars, Ranges, Editable
<1>13. Editable(Raised) /\ Editable(Lowered) /\ Raised \in Int /\ Lowered \in Int
  BY EditableValues, EditedValues
<1> QED
  BY <1>1, <1>2, <1>3, <1>5, <1>6, <1>7, <1>8, <1>9, <1>10, <1>11, <1>12, <1>13 DEF Next

LEMMA RangesAlways == Spec => [](Types /\ Ranges)
<1>1. IInv => Types
  BY DEF IInv
<1> QED
  BY <1>1, InitRanges, NextRanges, IInvAlways, PTL DEF Spec

\* A value of the menu can be negated for its message however often it was doubled, for
\* every width of the clock a quarter of which is no multiple of half an hour.
THEOREM EditsNegatable == Spec => []EditCanBeNegated
<1>1. Types /\ Ranges => EditCanBeNegated
  <2> SUFFICES ASSUME Types, Ranges, NEW v \in {editButton1Value, editOldButton1Value}
               PROVE  v \in SignedRange /\ -v \in SignedRange
    BY DEF EditCanBeNegated
  <2>1. v \in SignedRange \ {-(Wrap \div 2)}
    BY EditableInRange DEF Types, Ranges
  <2> QED
    BY <2>1, Halves DEF SignedRange
<1> QED
  BY <1>1, RangesAlways, PTL

\* The numbers of the menu stay in the range of their types, for every width of the
\* clock, half an hour and limit.
THEOREM WellTyped == Spec => []TypeOK
<1>1. Types /\ Ranges => TypeOK
  <2> SUFFICES ASSUME Types, Ranges PROVE TypeOK
    OBVIOUS
  <2>1. {editButton1Value, editOldButton1Value} \subseteq Int
    BY DEF Types
  <2>2. uptime \in 0..MaxUptime
    BY ConstantsOK DEF ConstantsOK, Types, Ranges
  <2>3. stored \in {None} \cup [forMs : 0..(Wrap - 1) \cup {NoKey}, at : 0..uptime]
    <3>1. CASE stored = None
      BY <3>1
    <3>2. CASE stored # None
      <4>1. stored \in Entries
        BY <3>2 DEF Types
      <4>2. stored.forMs \in 0..(Wrap - 1) \cup {NoKey}
        BY <3>2 DEF Ranges
      <4>3. stored.at \in 0..uptime
        BY <3>2, <4>1 DEF Types, Ranges, Entries
      <4> QED
        BY <4>1, <4>2, <4>3 DEF Entries
    <3> QED
      BY <3>1, <3>2
  <2> QED
    BY <2>1, <2>2, <2>3 DEF Types, Ranges, TypeOK
<1> QED
  BY <1>1, RangesAlways, PTL
===========================================================================
