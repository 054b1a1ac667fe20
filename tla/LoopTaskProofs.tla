--------------------------- MODULE LoopTaskProofs ---------------------------
(***************************************************************************)
(* One turn of loopTask, for any number of buttons, any width of the clock *)
(* and any times: how long a press counts as occupancy, and how many       *)
(* events it gives.                                                        *)
(***************************************************************************)
EXTENDS LoopTask, TLAPS

-----------------------------------------------------------------------------
(* Times in 32 bits *)

LEMMA Halves == Wrap \in Nat /\ Wrap > 0 /\ Wrap \div 2 \in Nat /\ Wrap = 2 * (Wrap \div 2)
<1>1. Wrap \in Nat /\ Wrap % 2 = 0 /\ Wrap > 0
  BY ConstantsOK DEF ConstantsOK
<1> QED
  BY <1>1, Z3

LEMMA Division ==
    ASSUME NEW n \in Int
    PROVE  /\ n \div Wrap \in Int /\ n % Wrap \in Int
           /\ 0 <= n % Wrap /\ n % Wrap < Wrap
           /\ n = Wrap * (n \div Wrap) + (n % Wrap)
  BY Halves, Z3

\* There is one way to divide a number into turns and a rest.
LEMMA UniqueDivision ==
    ASSUME NEW q \in Int, NEW r \in Int, NEW p \in Int, NEW s \in Int,
           0 <= r, r < Wrap, 0 <= s, s < Wrap, Wrap * q + r = Wrap * p + s
    PROVE  r = s /\ q = p
<1> DEFINE m == q - p
<1>1. m \in Int
  OBVIOUS
<1>2. Wrap * m = s - r
  BY Halves, Z3
<1> HIDE DEF m
<1>3. ~(m >= 1)
  <2>1. m >= 1 => Wrap * m >= Wrap
    BY <1>1, Halves, Z3
  <2> QED
    BY <1>1, <1>2, <2>1, Halves
<1>4. ~(m <= -1)
  <2>1. m <= -1 => Wrap * m <= -Wrap
    BY <1>1, Halves, Z3
  <2> QED
    BY <1>1, <1>2, <2>1, Halves
<1>5. m = 0
  BY <1>1, <1>3, <1>4
<1>6. Wrap * 0 = 0
  BY Halves
<1> QED
  BY <1>2, <1>5, <1>6 DEF m

\* Full turns do not change the rest.
LEMMA TurnsVanish ==
    ASSUME NEW n \in Int, NEW k \in Int
    PROVE  (n + Wrap * k) % Wrap = n % Wrap
<1>1. PICK q \in Int, r \in Int : n = Wrap * q + r /\ r = n % Wrap /\ 0 <= r /\ r < Wrap
  <2>1. n \div Wrap \in Int /\ n % Wrap \in Int /\ 0 <= n % Wrap /\ n % Wrap < Wrap
        /\ n = Wrap * (n \div Wrap) + (n % Wrap)
    BY Division, Zenon
  <2> QED
    BY <2>1, Zenon
<1>2. n + Wrap * k \in Int
  BY Halves
<1>3. PICK p \in Int, s \in Int :
         n + Wrap * k = Wrap * p + s /\ s = (n + Wrap * k) % Wrap /\ 0 <= s /\ s < Wrap
  <2> DEFINE x == n + Wrap * k
  <2>1. x \div Wrap \in Int /\ x % Wrap \in Int /\ 0 <= x % Wrap /\ x % Wrap < Wrap
        /\ x = Wrap * (x \div Wrap) + (x % Wrap)
    BY <1>2, Division, Zenon
  <2> QED
    BY <2>1, Zenon
<1>4. Wrap * (q + k) + r = Wrap * p + s
  <2>1. Wrap * (q + k) = Wrap * q + Wrap * k
    BY Halves, Z3
  <2>2. Wrap * q \in Int /\ Wrap * k \in Int /\ Wrap * p \in Int
    BY Halves
  <2> QED
    BY <1>1, <1>3, <2>1, <2>2
<1>5. q + k \in Int
  OBVIOUS
<1>6. r = s
  BY <1>1, <1>3, <1>4, <1>5, UniqueDivision
<1> QED
  BY <1>1, <1>3, <1>6

\* Two times of the same turn are ordered like their readings.
LEMMA SameTurnOrder ==
    ASSUME NEW s \in Int, NEW t \in Int, SameTurn(s, t)
    PROVE  s < t <=> s % Wrap < t % Wrap
<1>1. PICK q \in Int : s = Wrap * q + (s % Wrap) /\ t = Wrap * q + (t % Wrap)
  BY Division, Zenon DEF SameTurn
<1>2. Wrap * q \in Int /\ s % Wrap \in Int /\ t % Wrap \in Int
  BY Division, Halves
<1> DEFINE w == Wrap * q
           a == s % Wrap
           b == t % Wrap
<1>3. s = w + a /\ t = w + b /\ w \in Int /\ a \in Int /\ b \in Int
  BY <1>1, <1>2
<1> HIDE DEF w, a, b
<1>4. s < t <=> a < b
  BY <1>3
<1> QED
  BY <1>4 DEF a, b

\* The deadline that occupancy_update() computes is that of the true time, whether
\* or not the signed sum overflows.
LEMMA DeadlineReading ==
    ASSUME NEW a \in Int, NEW d \in Nat
    PROVE  Unsigned(Signed(a) + d) = (a + d) % Wrap
<1>1. PICK k \in Int : Signed(a) = a + Wrap * k
  <2>1. a = Wrap * (a \div Wrap) + (a % Wrap) /\ a \div Wrap \in Int /\ a % Wrap \in Int
    BY Division
  <2>2. PICK q \in Int, r \in Int : a = Wrap * q + r /\ r = a % Wrap
    BY <2>1, Zenon
  <2>3. Wrap * (-q) = -(Wrap * q) /\ Wrap * (-q - 1) = -(Wrap * q) - Wrap /\ Wrap * q \in Int
    BY Halves, Z3
  <2>4. r = a + Wrap * (-q) /\ r - Wrap = a + Wrap * (-q - 1)
    BY <2>2, <2>3, Halves
  <2>5. Signed(a) = r \/ Signed(a) = r - Wrap
    BY <2>2, Zenon DEF Signed
  <2>6. -q \in Int /\ -q - 1 \in Int
    OBVIOUS
  <2> QED
    BY <2>4, <2>5, <2>6, Zenon
<1>2. Signed(a) + d = (a + d) + Wrap * k
  <2>1. Wrap * k \in Int
    BY Halves
  <2> QED
    BY <1>1, <2>1
<1>3. a + d \in Int
  OBVIOUS
<1> QED
  BY <1>2, <1>3, TurnsVanish DEF Unsigned

\* A time between two of the same turn is of that turn.
LEMMA BetweenSameTurn ==
    ASSUME NEW s \in Int, NEW t \in Int, NEW u \in Int, s <= t, t <= u, SameTurn(s, u)
    PROVE  SameTurn(t, u)
<1>1. PICK q \in Int, a \in Int, b \in Int :
         /\ s = Wrap * q + a /\ u = Wrap * q + b /\ q = u \div Wrap
         /\ 0 <= a /\ a < Wrap /\ 0 <= b /\ b < Wrap
  <2>1. /\ s \div Wrap = u \div Wrap /\ u \div Wrap \in Int /\ s % Wrap \in Int /\ u % Wrap \in Int
        /\ s = Wrap * (s \div Wrap) + (s % Wrap) /\ u = Wrap * (u \div Wrap) + (u % Wrap)
        /\ 0 <= s % Wrap /\ s % Wrap < Wrap /\ 0 <= u % Wrap /\ u % Wrap < Wrap
    BY Division, Zenon DEF SameTurn
  <2> QED
    BY <2>1, Zenon
<1>2. PICK p \in Int, r \in Int : t = Wrap * p + r /\ p = t \div Wrap /\ 0 <= r /\ r < Wrap
  <2>1. t \div Wrap \in Int /\ t % Wrap \in Int /\ 0 <= t % Wrap /\ t % Wrap < Wrap
        /\ t = Wrap * (t \div Wrap) + (t % Wrap)
    BY Division, Zenon
  <2> QED
    BY <2>1, Zenon
<1>3. PICK c \in Int : t = Wrap * q + c /\ 0 <= c /\ c < Wrap
  <2>1. Wrap * q \in Int
    BY Halves
  <2>2. t - Wrap * q \in Int /\ t = Wrap * q + (t - Wrap * q)
        /\ 0 <= t - Wrap * q /\ t - Wrap * q < Wrap
    BY <1>1, <2>1, Halves
  <2> QED
    BY <2>2, Zenon
<1>4. Wrap * q + c = Wrap * p + r
  BY <1>2, <1>3
<1>5. q = p
  BY <1>2, <1>3, <1>4, UniqueDivision
<1> QED
  BY <1>1, <1>2, <1>5 DEF SameTurn

-----------------------------------------------------------------------------
(* Occupancy *)

\* timeoutLastSet is the signed reading of a time that has passed.
OInv ==
    /\ uptime \in Nat /\ setAt \in Int /\ setAt <= uptime
    /\ currentOccupancy \in BOOLEAN
    /\ timeoutLastSet = Signed(setAt)
    /\ OccupiedForTimeout

LEMMA SignedReading == ASSUME NEW n \in Int PROVE Signed(n % Wrap) = Signed(n)
<1>1. PICK q \in Int : n = (n % Wrap) + Wrap * q
  <2>1. n \div Wrap \in Int /\ n % Wrap \in Int /\ n = Wrap * (n \div Wrap) + (n % Wrap)
    BY Division
  <2>2. PICK q \in Int, r \in Int : n = Wrap * q + r /\ r = n % Wrap
    BY <2>1, Zenon
  <2>3. Wrap * q \in Int
    BY Halves
  <2>4. n = r + Wrap * q
    BY <2>2, <2>3
  <2> QED
    BY <2>2, <2>4, Zenon
<1>2. n % Wrap \in Int
  BY Division
<1>3. ((n % Wrap) + Wrap * q) % Wrap = (n % Wrap) % Wrap
  BY <1>2, TurnsVanish
<1>4. n % Wrap = (n % Wrap) % Wrap
  BY <1>1, <1>3, Zenon
<1> QED
  BY <1>4, Zenon DEF Signed

\* The comparison of occupancy_update() is that of the true times within a turn.
LEMMA ExpiredMeans ==
    ASSUME OInv, SameTurn(Deadline, uptime)
    PROVE  Expired <=> Deadline < uptime
<1>1. Timeout \in Nat
  BY ConstantsOK DEF ConstantsOK
<1>2. Unsigned(timeoutLastSet + Timeout) = Deadline % Wrap
  BY <1>1, DeadlineReading DEF OInv, Deadline
<1>3. Deadline \in Int /\ uptime \in Int
  BY <1>1 DEF OInv, Deadline
<1>4. Deadline < uptime <=> Deadline % Wrap < uptime % Wrap
  BY <1>3, SameTurnOrder
<1> QED
  BY <1>2, <1>4, Zenon DEF Expired, millis

LEMMA InitOInv == Init => OInv
<1> SUFFICES ASSUME Init PROVE OInv
  OBVIOUS
<1>1. Timeout \in Nat /\ Timeout > 0
  BY ConstantsOK DEF ConstantsOK
<1>2. Signed(-Timeout) = -Timeout
  <2>1. Timeout < Wrap \div 2
    BY <1>1, ConstantsOK, Halves DEF ConstantsOK
  <2>2. (-Timeout) % Wrap = Wrap - Timeout
    <3>1. -Timeout = Wrap * (-1) + (Wrap - Timeout)
      BY <1>1, Halves
    <3>2. PICK q \in Int, r \in Int :
             -Timeout = Wrap * q + r /\ r = (-Timeout) % Wrap /\ 0 <= r /\ r < Wrap
      <4>1. -Timeout \in Int
        BY <1>1
      <4>2. (-Timeout) \div Wrap \in Int /\ (-Timeout) % Wrap \in Int
            /\ -Timeout = Wrap * ((-Timeout) \div Wrap) + ((-Timeout) % Wrap)
            /\ 0 <= (-Timeout) % Wrap /\ (-Timeout) % Wrap < Wrap
        BY <4>1, Division, Zenon
      <4> QED
        BY <4>2, Zenon
    <3>3. -1 \in Int /\ Wrap - Timeout \in Int /\ 0 <= Wrap - Timeout /\ Wrap - Timeout < Wrap
      BY <1>1, <2>1, Halves
    <3>4. Wrap * (-1) + (Wrap - Timeout) = Wrap * q + r
      BY <3>1, <3>2
    <3>5. Wrap - Timeout = r
      BY <3>2, <3>3, <3>4, UniqueDivision
    <3> QED
      BY <3>2, <3>5
  <2>3. ~(Wrap - Timeout < Wrap \div 2) /\ (Wrap - Timeout) - Wrap = -Timeout
    BY <1>1, <2>1, Halves
  <2> QED
    BY <2>2, <2>3, Zenon DEF Signed
<1> QED
  BY <1>1, <1>2 DEF Init, OInv, OccupiedForTimeout

LEMMA NextOInv == OInv /\ [Next]_vars => OInv'
<1> SUFFICES ASSUME OInv, [Next]_vars PROVE OInv'
  OBVIOUS
<1>0. Timeout \in Nat /\ Timeout > 0
  BY ConstantsOK DEF ConstantsOK
<1>1. ASSUME UNCHANGED <<occupancy, uptime>> PROVE OInv'
  BY <1>1 DEF OInv, OccupiedForTimeout, Deadline, occupancy
<1>2. CASE occupancy_set
  <2>1. CASE UNCHANGED occupancy
    BY <1>1, <1>2, <2>1 DEF occupancy_set
  <2>2. CASE timeoutLastSet' = Signed(millis) /\ currentOccupancy' = TRUE /\ setAt' = uptime
    <3>1. timeoutLastSet' = Signed(uptime)
      BY <2>2, SignedReading DEF millis, OInv
    <3> QED
      BY <1>2, <2>2, <3>1 DEF occupancy_set, OInv, OccupiedForTimeout
  <2> QED
    BY <1>2, <2>1, <2>2 DEF occupancy_set
<1>3. CASE expire
  <2>1. /\ UNCHANGED <<uptime, setAt, timeoutLastSet>>
        /\ currentOccupancy' = (currentOccupancy /\ ~Expired)
    BY <1>3 DEF expire
  <2>2. currentOccupancy' \in BOOLEAN
    BY <2>1
  <2>3. ASSUME uptime <= Deadline, SameTurn(setAt, Deadline) PROVE currentOccupancy'
    <3>1. currentOccupancy
      BY <2>3 DEF OInv, OccupiedForTimeout
    <3>2. setAt \in Int /\ uptime \in Int /\ Deadline \in Int /\ setAt <= uptime
      BY <1>0 DEF OInv, Deadline
    <3>3. SameTurn(uptime, Deadline)
      BY <2>3, <3>2, BetweenSameTurn
    <3>4. SameTurn(Deadline, uptime)
      BY <3>3, Zenon DEF SameTurn
    <3>5. ~(Deadline < uptime)
      BY <2>3, <3>2
    <3>6. ~Expired
      BY <3>4, <3>5, ExpiredMeans
    <3> QED
      BY <2>1, <3>1, <3>6, Zenon
  <2>4. OccupiedForTimeout'
    BY <2>1, <2>3 DEF OccupiedForTimeout, Deadline
  <2> QED
    BY <2>1, <2>2, <2>4 DEF OInv
<1>4. CASE Tick
  BY <1>0, <1>4 DEF Tick, OInv, OccupiedForTimeout, Deadline, occupancy
<1>5. CASE update \/ updateMenu \/ UNCHANGED vars
  BY <1>1, <1>5 DEF update, updateMenu, vars
<1>6. ASSUME NEW b \in Buttons, Move(b) PROVE OInv'
  BY <1>1, <1>6 DEF Move
<1> QED
  BY <1>2, <1>3, <1>4, <1>5, <1>6 DEF Next

\* A press counts as occupancy for its time, for every time at which it can come and
\* every width of the clock, unless the clock starts again before its deadline.
THEOREM PressKeepsOccupied == Spec => []OccupiedForTimeout
<1>1. OInv => OccupiedForTimeout
  BY DEF OInv
<1> QED
  BY <1>1, InitOInv, NextOInv, PTL DEF Spec

\* A turn behind the deadline ends the occupancy, if the clock has not started again
\* since the deadline.
THEOREM PressExpires == Spec => ExpiresInTime
<1> DEFINE Ends == expire => ~currentOccupancy' \/ uptime <= Deadline
                             \/ ~SameTurn(Deadline, uptime)
<1>1. OInv => Ends
  <2> SUFFICES ASSUME OInv, expire, ~(uptime <= Deadline), SameTurn(Deadline, uptime)
               PROVE  ~currentOccupancy'
    OBVIOUS
  <2>1. Deadline < uptime
    BY ConstantsOK DEF ConstantsOK, OInv, Deadline
  <2>2. Expired
    BY <2>1, ExpiredMeans
  <2>3. currentOccupancy' = (currentOccupancy /\ ~Expired)
    BY DEF expire
  <2> QED
    BY <2>2, <2>3, Zenon
<1>2. OInv /\ [Next]_vars => [Ends]_vars
  BY <1>1
<1>3. Spec => [][Ends]_vars
  BY <1>2, InitOInv, NextOInv, PTL DEF Spec
<1> QED
  BY <1>3 DEF ExpiresInTime

-----------------------------------------------------------------------------
(* Events *)

\* What the events of the present press are, before and within updateMenu().
Down == IF longPush THEN events = 1 ELSE events = 0

\* At the beginning of a turn; and behind the update, by what the button did.
EInv ==
    /\ state \in [Buttons -> BOOLEAN] /\ changed \in [Buttons -> BOOLEAN]
    /\ pin \in [Buttons -> BOOLEAN] /\ longPush \in BOOLEAN
    /\ pc \in {"update", "set", "expire", "menu"}
    /\ pc = "update" => IF state[B] THEN Down ELSE events = 1 /\ ~longPush
    /\ pc # "update" =>
         CASE wasPressed(B) -> events = 0 /\ ~longPush /\ time = lastChange[B]
           [] wasReleased(B) -> Down
           [] state[B] /\ ~changed[B] -> Down
           [] OTHER -> events = 1 /\ ~longPush
    /\ time \in Int /\ lastChange \in [Buttons -> Int] /\ uptime \in Nat

LEMMA InitEInv == Init => EInv
<1> SUFFICES ASSUME Init PROVE EInv
  OBVIOUS
<1>1. /\ state \in [Buttons -> BOOLEAN] /\ pin \in [Buttons -> BOOLEAN]
      /\ changed \in [Buttons -> BOOLEAN] /\ lastChange \in [Buttons -> Int]
  BY DEF Init
<1>2. IF state[B] THEN Down ELSE events = 1 /\ ~longPush
  BY Zenon DEF Init, Down
<1>3. time \in Int /\ uptime \in Nat /\ longPush \in BOOLEAN /\ pc = "update"
  <2>1. time = 0 /\ uptime = 0 /\ longPush = FALSE /\ pc = "update"
    BY Zenon DEF Init
  <2>2. time \in Int /\ uptime \in Nat
    BY <2>1
  <2>3. longPush \in BOOLEAN
    BY <2>1, Zenon
  <2> QED
    BY <2>1, <2>2, <2>3, Zenon
<1>4. pc # "update" => FALSE
  BY <1>3
<1> QED
  BY <1>1, <1>2, <1>3, <1>4, Zenon DEF EInv

LEMMA NextEInv == EInv /\ [Next]_vars => EInv'
<1> SUFFICES ASSUME EInv, [Next]_vars PROVE EInv'
  OBVIOUS
<1>0. B \in Buttons /\ Long \in Nat /\ Long > 0
  BY ConstantsOK DEF ConstantsOK
<1> USE DEF EInv, Down, wasPressed, wasReleased
<1>1. CASE update
  <2>1. millis \in Int
    BY Division DEF millis
  <2>2. /\ state' \in [Buttons -> BOOLEAN]
        /\ changed' = [b \in Buttons |-> state'[b] # state[b]]
    BY <1>1 DEF update
  <2>3. changed' \in [Buttons -> BOOLEAN] /\ (changed'[B] <=> state'[B] # state[B])
    BY <1>0, <2>2
  <2>4. /\ time' = millis /\ pc = "update" /\ pc' = "set"
        /\ lastChange' \in [Buttons -> Int]
        /\ changed'[B] => lastChange'[B] = millis
        /\ events' = IF state'[B] /\ changed'[B] THEN 0 ELSE events
        /\ UNCHANGED <<pin, longPush, uptime>>
    BY <1>0, <1>1, <2>1, <2>3 DEF update
  <2> QED
    BY <1>0, <2>1, <2>2, <2>3, <2>4
<1>2. CASE occupancy_set
  BY <1>2 DEF occupancy_set, button
<1>3. CASE expire
  BY <1>3 DEF expire, button
<1>4. CASE updateMenu
  <2>1. wasPressed(B) => ~pressedFor(B, Long)
    <3>1. lastChange[B] \in Int /\ time \in Int
      BY <1>0
    <3>2. 0 % Wrap = 0
      BY Halves, Z3
    <3>3. time = lastChange[B] => Unsigned(time - lastChange[B]) = 0
      BY <3>1, <3>2 DEF Unsigned
    <3> QED
      BY <1>0, <1>4, <3>3 DEF pressedFor, updateMenu
  <2>2. pressedFor(B, Long) => state[B]
    BY DEF pressedFor
  <2>3. /\ pc = "menu" /\ pc' = "update"
        /\ events' = IF LongPushB \/ ShortPushB THEN events + 1 ELSE events
        /\ longPush' = (pressedFor(B, Long) \/ (longPush /\ ~wasReleased(B)))
        /\ UNCHANGED <<pin, state, changed, lastChange, time, uptime>>
    BY <1>4 DEF updateMenu, button
  <2>4. longPush' \in BOOLEAN
    BY <2>3
  <2>5. state[B] \in BOOLEAN /\ changed[B] \in BOOLEAN
    BY <1>0
  <2> QED
    BY <2>1, <2>2, <2>3, <2>4, <2>5 DEF LongPushB, ShortPushB
<1>5. CASE Tick
  BY <1>5 DEF Tick, button
<1>6. ASSUME NEW b \in Buttons, Move(b) PROVE EInv'
  BY <1>6 DEF Move, button
<1>7. CASE UNCHANGED vars
  BY <1>7 DEF vars, button
<1> QED
  BY <1>1, <1>2, <1>3, <1>4, <1>5, <1>6, <1>7 DEF Next

\* Each press of the button gives one event, however long it is held and over
\* whatever restarts of the clock.
THEOREM OneEvent == Spec => []OneEventPerPress
<1>1. EInv => OneEventPerPress
  BY DEF EInv, Down, OneEventPerPress, wasPressed, wasReleased
<1> QED
  BY <1>1, InitEInv, NextEInv, PTL DEF Spec
-----------------------------------------------------------------------------
(* Widths *)

\* The times that the code keeps fit into 32 bits, and none is ahead of the uptime.
Widths ==
    /\ lastChange \in [Buttons -> 0..(Wrap - 1)] /\ time \in 0..(Wrap - 1)
    /\ uptime <= MaxUptime /\ -Timeout <= setAt

\* Half of the readings stand for negative numbers.
LEMMA SignedWidth == ASSUME NEW n \in Int PROVE Signed(n) \in -(Wrap \div 2)..(Wrap \div 2 - 1)
<1> DEFINE r == n % Wrap
           h == Wrap \div 2
<1>1. r \in Int /\ 0 <= r /\ r < Wrap /\ h \in Nat /\ Wrap \in Nat /\ Wrap = 2 * h
  BY Division, Halves
<1>2. Signed(n) = IF r < h THEN r ELSE r - Wrap
  BY DEF Signed
<1> HIDE DEF r, h
<1>3. Signed(n) \in -h..(h - 1)
  BY <1>1, <1>2
<1> QED
  BY <1>3 DEF h

LEMMA InitWidths == Init => Widths
<1> SUFFICES ASSUME Init PROVE Widths
  OBVIOUS
<1>1. 0 \in 0..(Wrap - 1)
  BY Halves
<1>2. 0 <= MaxUptime /\ -Timeout <= -Timeout
  BY ConstantsOK DEF ConstantsOK
<1> QED
  BY <1>1, <1>2 DEF Init, Widths

LEMMA NextWidths == OInv /\ Widths /\ [Next]_vars => Widths'
<1> SUFFICES ASSUME OInv, Widths, [Next]_vars PROVE Widths'
  OBVIOUS
<1>0. Timeout \in Nat /\ MaxUptime \in Nat
  BY ConstantsOK DEF ConstantsOK
<1>1. ASSUME UNCHANGED <<lastChange, time, uptime, setAt>> PROVE Widths'
  BY <1>1 DEF Widths
<1>2. CASE update
  <2>1. millis \in 0..(Wrap - 1)
    BY Division, Halves DEF millis, OInv
  <2>2. /\ time' = millis /\ UNCHANGED <<uptime, setAt>>
        /\ lastChange' = [b \in Buttons |-> IF changed'[b] THEN millis ELSE lastChange[b]]
    BY <1>2 DEF update, occupancy
  <2> QED
    BY <2>1, <2>2 DEF Widths
<1>3. CASE occupancy_set
  <2>1. UNCHANGED <<lastChange, time, uptime>> /\ (setAt' = setAt \/ setAt' = uptime)
    BY <1>3 DEF occupancy_set, button, occupancy
  <2> QED
    BY <1>0, <2>1 DEF OInv, Widths
<1>4. CASE expire \/ updateMenu \/ UNCHANGED vars
  BY <1>1, <1>4 DEF expire, updateMenu, vars, button, occupancy
<1>5. CASE Tick
  BY <1>0, <1>5 DEF Tick, OInv, Widths, button, occupancy
<1>6. ASSUME NEW b \in Buttons, Move(b) PROVE Widths'
  BY <1>1, <1>6 DEF Move, button, occupancy
<1> QED
  BY <1>2, <1>3, <1>4, <1>5, <1>6 DEF Next

\* The variables keep their types and the times of the code their width, and the signed
\* timeoutLastSet reads like the time it stands for, for every width of the clock.
THEOREM WellTyped == Spec => []TypeOK
<1>1. OInv /\ EInv /\ Widths => TypeOK
  <2> SUFFICES ASSUME OInv, EInv, Widths PROVE TypeOK
    OBVIOUS
  <2>1. uptime \in 0..MaxUptime /\ setAt \in -Timeout..MaxUptime
    BY ConstantsOK DEF ConstantsOK, OInv, Widths
  <2>2. timeoutLastSet = Signed(setAt) /\ timeoutLastSet \in -(Wrap \div 2)..(Wrap \div 2 - 1)
    BY SignedWidth DEF OInv
  <2> QED
    BY <2>1, <2>2, Zenon DEF OInv, EInv, Widths, TypeOK
<1> QED
  BY <1>1, InitOInv, NextOInv, InitEInv, NextEInv, InitWidths, NextWidths, PTL DEF Spec
=============================================================================
