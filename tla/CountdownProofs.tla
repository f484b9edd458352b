--------------------------- MODULE CountdownProofs ---------------------------
(***************************************************************************)
(* Theorems about the countdown, for any clock, length of the day and      *)
(* number of presses.                                                      *)
(***************************************************************************)
EXTENDS Countdown, TLAPS

\* The end was set from the whole, and the clock only goes forward.
EndInReach == timer # "none" => endTime <= now + initialTime

\* Before the first press there is nothing to count.
NothingYet == timer = "none" => timeLeft = 0 /\ forgotten = 0

\* A timer was started by a press.
StartedByPress == timer # "none" => presses > 0

\* The part is no more than the whole, whichever of them is set last.
PartOfWhole == timeLeft <= initialTime

\* When nothing is left, the end has come.
NothingLeft == timer # "none" /\ timeLeft <= 0 => endTime <= now

IInv == /\ TypeOK
        /\ EndInReach
        /\ NothingYet
        /\ StartedByPress
        /\ PartOfWhole
        /\ NothingLeft
        /\ NotStoppedEarly

\* The text of a tick is a second of the day.
LEMMA TimeOfDayTyped ==
  ASSUME NEW t \in Nat PROVE TimeOfDay(t) \in SecondsOfDay
<1>1. TicksPerSecond \in Nat \ {0} /\ Day \in Nat \ {0}
  BY CountdownAssumption
<1>2. t \div TicksPerSecond \in Nat
  BY <1>1
<1>3. (t \div TicksPerSecond) % Day \in 0..(Day - 1)
  BY <1>1, <1>2
<1> QED
  BY <1>3 DEF TimeOfDay, SecondsOfDay

\* Nothing is counted down when the screen opens.
LEMMA Initially == Init => IInv
<1> SUFFICES ASSUME Init PROVE IInv
  OBVIOUS
<1>1. now \in Nat
  BY CountdownAssumption DEF Init
<1> QED
  BY <1>1 DEF Init, IInv, TypeOK, EndInReach, NothingYet, StartedByPress, PartOfWhole, NothingLeft,
              NotStoppedEarly

\* A countdown that starts at t with what is left.
LEMMA StartKeeps ==
  ASSUME IInv, NEW left \in Int, NEW t \in Nat, Start(t, left),
         now' = t, presses' = presses + 1, written' \in Int,
         UNCHANGED timeoutTextField
  PROVE  IInv'
<1>1. /\ timeLeft' = left /\ initialTime' = left /\ endTime' = t + left
      /\ timer' = "valid"
      /\ forgotten' = IF timer = "valid" THEN forgotten + 1 ELSE forgotten
  BY DEF Start
<1>2. forgotten \in Nat /\ presses \in Nat /\ (forgotten = 0 \/ forgotten < presses)
  BY DEF IInv, TypeOK
<1>3. timer = "valid" => presses > 0
  BY DEF IInv, StartedByPress
<1>4. TypeOK'
  <2>1. timeoutTextField' \in SecondsOfDay \cup {Empty}
    BY DEF IInv, TypeOK
  <2>2. forgotten' \in Nat /\ presses' \in Nat /\ (forgotten' = 0 \/ forgotten' < presses')
    BY <1>1, <1>2, <1>3
  <2> QED
    BY <1>1, <2>1, <2>2 DEF TypeOK
<1>5. /\ EndInReach' /\ NothingYet' /\ StartedByPress' /\ PartOfWhole'
      /\ NothingLeft' /\ NotStoppedEarly'
  BY <1>1, <1>2 DEF EndInReach, NothingYet, StartedByPress, PartOfWhole, NothingLeft,
                    NotStoppedEarly
<1> QED
  BY <1>4, <1>5 DEF IInv

\* A press starts a countdown from a new limit or from what was left.
LEMMA PressKeeps == IInv /\ Press => IInv'
<1> SUFFICES ASSUME IInv, Press PROVE IInv'
  OBVIOUS
<1>1. now \in Nat /\ timeLeft \in Int /\ written \in Int
      /\ timeoutTextField \in SecondsOfDay \cup {Empty}
  BY DEF IInv, TypeOK
<1>2. PICK subtracted \in now..(now + Gap) :
        \E ended \in subtracted..(subtracted + Gap) :
          /\ now' = ended
          /\ \/ /\ StillToCome(timeoutTextField, now)
                /\ LET seconds == SecondsLeft(timeoutTextField, subtracted)
                   IN /\ written' = seconds
                      /\ Start(ended, seconds * TicksPerSecond)
             \/ /\ ~StillToCome(timeoutTextField, now)
                /\ written' = written
                /\ Start(ended, timeLeft)
  BY DEF Press
<1>3. PICK ended \in subtracted..(subtracted + Gap) :
        /\ now' = ended
        /\ \/ /\ StillToCome(timeoutTextField, now)
              /\ LET seconds == SecondsLeft(timeoutTextField, subtracted)
                 IN /\ written' = seconds
                    /\ Start(ended, seconds * TicksPerSecond)
           \/ /\ ~StillToCome(timeoutTextField, now)
              /\ written' = written
              /\ Start(ended, timeLeft)
  BY <1>2
<1>4. presses' = presses + 1 /\ UNCHANGED timeoutTextField
  BY DEF Press
<1>5. subtracted \in Nat /\ ended \in Nat
  BY <1>1, CountdownAssumption
<1>6. CASE StillToCome(timeoutTextField, now)
  <2> DEFINE seconds == SecondsLeft(timeoutTextField, subtracted)
  <2>1. seconds \in Int
    <3>1. timeoutTextField \in Int
      BY <1>1, <1>6 DEF StillToCome, SecondsOfDay
    <3>2. TimeOfDay(subtracted) \in Int
      BY <1>5, TimeOfDayTyped DEF SecondsOfDay
    <3> QED
      BY <3>1, <3>2 DEF SecondsLeft
  <2>2. seconds * TicksPerSecond \in Int
    BY <2>1, CountdownAssumption
  <2>3. written' = seconds /\ Start(ended, seconds * TicksPerSecond)
    BY <1>3, <1>6
  <2> HIDE DEF seconds
  <2> QED
    BY <1>3, <1>4, <1>5, <2>1, <2>2, <2>3, StartKeeps
<1>7. CASE ~StillToCome(timeoutTextField, now)
  BY <1>1, <1>3, <1>4, <1>5, <1>7, StartKeeps
<1> QED
  BY <1>6, <1>7

\* A timer that fires moves the part towards the end, or stops at it.
LEMMA UpdateTimeKeeps == IInv /\ UpdateTime => IInv'
<1> SUFFICES ASSUME IInv, UpdateTime PROVE IInv'
  OBVIOUS
<1>1. timer # "none"
  BY DEF UpdateTime, IInv, NothingYet, TypeOK
<1>2. UNCHANGED <<now, initialTime, endTime, forgotten, written, presses>>
  BY DEF UpdateTime
<1>3. CASE timeLeft > 0
  BY <1>1, <1>2, <1>3 DEF UpdateTime, IInv, TypeOK, EndInReach, NothingYet,
     StartedByPress, PartOfWhole, NothingLeft, NotStoppedEarly
<1>4. CASE ~(timeLeft > 0)
  BY <1>1, <1>2, <1>4 DEF UpdateTime, IInv, TypeOK, EndInReach, NothingYet,
     StartedByPress, PartOfWhole, NothingLeft, NotStoppedEarly
<1> QED
  BY <1>3, <1>4

\* Time that goes by only brings the end nearer.
LEMMA ClockKeeps == IInv /\ Clock => IInv'
  BY DEF Clock, IInv, TypeOK, EndInReach, NothingYet, StartedByPress, PartOfWhole, NothingLeft,
         NotStoppedEarly

\* The field has no part in a countdown that runs.
LEMMA PickTimeKeeps ==
  ASSUME IInv, NEW input \in SecondsOfDay, PickTime(input) PROVE IInv'
  BY DEF PickTime, IInv, TypeOK, EndInReach, NothingYet, StartedByPress, PartOfWhole, NothingLeft,
         NotStoppedEarly

\* The inductive invariant of the countdown.
THEOREM Invariant == Spec => []IInv
<1>1. IInv /\ [Next]_vars => IInv'
  <2> SUFFICES ASSUME IInv, [Next]_vars PROVE IInv'
    OBVIOUS
  <2>1. CASE UNCHANGED vars
    BY <2>1 DEF vars, IInv, TypeOK, EndInReach, NothingYet, StartedByPress, PartOfWhole, NothingLeft,
                NotStoppedEarly
  <2>2. CASE Next
    BY <2>2, PressKeeps, UpdateTimeKeeps, ClockKeeps, PickTimeKeeps DEF Next
  <2> QED
    BY <2>1, <2>2
<1> QED
  BY Initially, <1>1, PTL DEF Spec

\* Every variable of the countdown keeps its type.
THEOREM Typing == Spec => []TypeOK
<1>1. IInv => TypeOK
  BY DEF IInv
<1> QED
  BY Invariant, <1>1, PTL

\* The progress bar never divides by nothing and never shows more than all,
\* whatever timers fire between presses.
THEOREM ProgressShown == Spec => []ProgressDefined
<1>1. IInv => ProgressDefined
  BY DEF IInv, TypeOK, PartOfWhole, ProgressDefined
<1> QED
  BY Invariant, <1>1, PTL

\* However many timers were forgotten, none of them stops a countdown ahead
\* of its end.
THEOREM StoppedAtTheEnd == Spec => []NotStoppedEarly
<1>1. IInv => NotStoppedEarly
  BY DEF IInv
<1> QED
  BY Invariant, <1>1, PTL

-----------------------------------------------------------------------------
(* The limit that is written, and the arithmetic of the clock.             *)

\* A number is its quotient and its remainder.
LEMMA DivMod ==
  ASSUME NEW n \in Nat \ {0}, NEW s \in Nat
  PROVE  /\ s \div n \in Nat /\ s % n \in 0..(n - 1)
         /\ s = n * (s \div n) + (s % n)
<1>1. s \div n \in Nat
  OBVIOUS
<1>2. s % n \in 0..(n - 1)
  OBVIOUS
<1>3. s % n = s - n * (s \div n)
  BY Z3T(10)
<1>4. n * (s \div n) \in Int
  BY <1>1
<1> QED
  BY <1>1, <1>2, <1>3, <1>4

\* There is one such quotient.
LEMMA DivUnique ==
  ASSUME NEW n \in Nat \ {0}, NEW p \in Nat, NEW r \in 0..(n - 1)
  PROVE  (n * p + r) \div n = p
<1> DEFINE s == n * p + r
           q == s \div n
           t == s % n
<1>1. s \in Nat /\ q \in Nat /\ t \in 0..(n - 1) /\ s = n * q + t
  BY DivMod
<1>2. n * p + r = n * q + t
  BY <1>1
<1>3. CASE q >= p + 1
  <2>1. n * q >= n * p + n
    BY <1>1, <1>3
  <2> QED
    BY <2>1, <1>1, <1>2
<1>4. CASE p >= q + 1
  <2>1. n * p >= n * q + n
    BY <1>1, <1>4
  <2> QED
    BY <2>1, <1>1, <1>2
<1> QED
  BY <1>1, <1>3, <1>4

\* The day of a tick is the day of its second.
LEMMA DivDiv ==
  ASSUME NEW a \in Nat \ {0}, NEW b \in Nat \ {0}, NEW s \in Nat
  PROVE  s \div a = b * (s \div (a * b)) + ((s \div a) % b)
<1> DEFINE q == s \div a
           r == s % a
           p == q \div b
           m == q % b
<1>1. q \in Nat /\ r \in 0..(a - 1) /\ s = a * q + r
  BY DivMod
<1>2. p \in Nat /\ m \in 0..(b - 1) /\ q = b * p + m
  BY <1>1, DivMod
<1> HIDE DEF q, r, p, m
<1>3. a * b \in Nat \ {0}
  OBVIOUS
<1>4. a * m + r \in 0..(a * b - 1)
  <2>1. m <= b - 1 /\ a * m <= a * (b - 1)
    BY <1>2
  <2>2. a * (b - 1) = a * b - a
    OBVIOUS
  <2>3. a * m \in Nat
    BY <1>2
  <2> QED
    BY <1>1, <2>1, <2>2, <2>3, <1>3
<1>5. s = (a * b) * p + (a * m + r)
  <2>1. a * q = a * (b * p) + a * m
    BY <1>2
  <2>2. a * (b * p) = (a * b) * p
    BY <1>2
  <2>3. a * m \in Nat /\ (a * b) * p \in Nat
    BY <1>2, <1>3
  <2> DEFINE am == a * m
             abp == (a * b) * p
             aq == a * q
  <2>4. am \in Nat /\ abp \in Nat /\ r \in Nat /\ aq = abp + am /\ s = aq + r
    BY <1>1, <2>1, <2>2, <2>3
  <2> HIDE DEF am, abp, aq
  <2>5. s = abp + (am + r)
    BY <2>4
  <2> QED
    BY <2>5 DEF am, abp
<1>6. s \div (a * b) = p
  BY <1>2, <1>3, <1>4, <1>5, DivUnique
<1> QED
  BY <1>6, <1>2 DEF q, m

\* A later tick is not of an earlier day.
LEMMA DivMonotone ==
  ASSUME NEW n \in Nat \ {0}, NEW x \in Nat, NEW y \in Nat, x <= y
  PROVE  x \div n <= y \div n
<1> DEFINE p == x \div n
           q == y \div n
<1>1. p \in Nat /\ q \in Nat /\ n * p <= x /\ y < n * q + n
  BY DivMod
<1> HIDE DEF p, q
<1>2. CASE p >= q + 1
  <2>1. n * p >= n * q + n
    BY <1>1, <1>2
  <2>2. n * p \in Int /\ n * q \in Int
    BY <1>1
  <2> QED
    BY <1>1, <2>1, <2>2
<1> QED
  BY <1>1, <1>2 DEF p, q

\* Products of the time scale.
LEMMA Scaled ==
  ASSUME NEW a \in Int, NEW x \in Int, NEW y \in Int
  PROVE  /\ (x + y) * a = x * a + y * a
         /\ (x - y) * a = x * a - y * a
  OBVIOUS

\* How far a countdown ends after its limit is what its second and its press
\* had left, once the days and the limit are taken away.
LEMMA EndAfterLimit ==
  ASSUME NEW S \in Int, NEW T \in Int, NEW I \in Int, NEW a \in Int, NEW gap \in Int,
         NEW t \in Int, NEW u \in Int, S <= t, t < S + a, t <= u, u <= t + gap
  PROVE  /\ T + I <= u + (I - (S - T))
         /\ u + (I - (S - T)) < (T + I) + a + gap
  OBVIOUS

\* A limit that is written ends at the second the user asked for, and no later
\* than the press took and a second, for any clock and any delay between its
\* reads, on one day.
THEOREM LimitExact == Spec => LimitKept
<1> DEFINE a == TicksPerSecond
           D == TicksPerSecond * Day
           input == timeoutTextField
           limit == TickOf(input, now)
           end == now' + written' * a
<1>1. ASSUME TypeOK, [Next]_vars, presses' # presses, StillToCome(input, now),
             SameDay(now, now')
      PROVE  limit <= end /\ end < limit + a + Gap
  <2>1. Press
    BY <1>1 DEF Next, vars, PickTime, UpdateTime, Clock, TypeOK
  <2>2. PICK s \in now..(now + Gap) :
          /\ now' \in s..(s + Gap)
          /\ written' = SecondsLeft(input, s)
    BY <2>1, <1>1 DEF Press
  <2>3. /\ a \in Nat \ {0} /\ Day \in Nat \ {0} /\ D \in Nat \ {0} /\ Gap \in Nat
        /\ now \in Nat /\ s \in Nat /\ now' \in Nat /\ input \in Int
        /\ now <= s /\ s <= now' /\ now' <= s + Gap
    BY <1>1, <2>2, CountdownAssumption DEF TypeOK, StillToCome, SecondsOfDay
  <2> DEFINE d == now \div D
             second == s \div a
  <2>4. s \div D = d /\ d \in Nat
    <3>1. now \div D = now' \div D
      BY <1>1 DEF SameDay
    <3>2. now \div D <= s \div D /\ s \div D <= now' \div D
      BY <2>3, DivMonotone
    <3>3. now \div D \in Nat /\ s \div D \in Nat
      BY <2>3, DivMod
    <3> HIDE DEF D
    <3> QED
      BY <3>1, <3>2, <3>3
  <2>5. second = Day * d + (second % Day) /\ second \in Nat
    <3>1. s \div a = Day * (s \div (a * Day)) + ((s \div a) % Day)
      BY <2>3, DivDiv
    <3> QED
      BY <3>1, <2>3, <2>4, DivMod
  <2>6. written' = input - (second - Day * d)
    <3> DEFINE tod == second % Day
               days == Day * d
    <3>1. written' = input - tod
      BY <2>2 DEF SecondsLeft, TimeOfDay
    <3>2. tod \in Int /\ days \in Int /\ second = days + tod
      BY <2>3, <2>4, <2>5, DivMod
    <3> HIDE DEF second, tod, days
    <3>3. tod = second - days
      BY <3>2
    <3> QED
      BY <3>1, <3>3 DEF days
  <2>7. second * a <= s /\ s < second * a + a
    BY <2>3, DivMod
  <2>8. limit = (d * Day + input) * a
    BY DEF TickOf
  <2> DEFINE S == second * a
             T == (d * Day) * a
             I == input * a
  <2>9. d * Day \in Int /\ Day * d = d * Day
    BY <2>3, <2>4
  <2>10. S \in Int /\ T \in Int /\ I \in Int
    BY <2>3, <2>5, <2>9
  <2>11. limit = T + I
    BY <2>3, <2>8, <2>9, Scaled
  <2>12. written' * a = I - (S - T)
    <3> HIDE DEF second, d, a
    <3>1. second - d * Day \in Int
      BY <2>5, <2>9
    <3>2. written' = input - (second - d * Day)
      BY <2>6, <2>9
    <3>3. written' * a = I - (second - d * Day) * a
      BY <2>3, <3>1, <3>2, Scaled
    <3>4. (second - d * Day) * a = S - T
      BY <2>3, <2>5, <2>9, Scaled
    <3> QED
      BY <3>3, <3>4
  <2>13. S <= s /\ s < S + a
    BY <2>7
  <2>14. end = now' + (I - (S - T))
    BY <2>12
  <2>15. a \in Int /\ Gap \in Int /\ s \in Int /\ now' \in Int /\ s <= now' /\ now' <= s + Gap
    BY <2>3
  <2> HIDE DEF S, T, I, limit, a, end
  <2> QED
    BY <2>10, <2>11, <2>13, <2>14, <2>15, EndAfterLimit
<1>2. TypeOK /\ [Next]_vars =>
        [presses' # presses /\ StillToCome(timeoutTextField, now) /\ SameDay(now, now') =>
           limit <= end /\ end < limit + TicksPerSecond + Gap]_vars
  BY <1>1
<1> QED
  BY Typing, <1>2, PTL DEF LimitKept, Spec
=============================================================================
