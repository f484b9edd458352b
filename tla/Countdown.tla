------------------------------ MODULE Countdown ------------------------------
(***************************************************************************)
(* The time limit of an engine, as the four timer screens count it down    *)
(* (FanViewController and its copies).  The user picks a time of the day;  *)
(* the button writes the seconds until then to the database and starts a   *)
(* repeating timer, which it does on every press, whatever came of it.     *)
(* Time is counted in ticks of the clock; "HH:mm:ss" is a second of the    *)
(* day.  What is written to the database is the output of this module.     *)
(***************************************************************************)
EXTENDS Integers

CONSTANTS
  TicksPerSecond,
  Day,         \* seconds of a day
  Gap,         \* the most ticks between two reads of the clock by one press
  Empty,       \* the text of the field before a time is picked
  LastPress,   \* bound: the last tick at which the user does anything
  MaxNow,      \* bound: ticks
  MaxPresses   \* bound: presses of the button

ASSUME CountdownAssumption ==
  /\ TicksPerSecond \in Nat \ {0} /\ Day \in Nat \ {0} /\ Gap \in Nat
  /\ Empty \notin 0..(Day - 1)
  /\ LastPress \in Nat /\ MaxNow \in Nat /\ MaxPresses \in Nat

VARIABLES
  now,               \* the clock
  timeoutTextField,  \* the text of the field, a second of the day or Empty
  timeLeft,          \* ticks left, as of the last update
  initialTime,       \* timeLeft at the last press
  endTime,           \* when the countdown ends, if there is one
  timer,             \* the timer the screen knows: "none", "valid", "invalid"
  forgotten,         \* timers that still fire but are no longer known
  written,           \* the seconds last written to the database
  presses

vars == <<now, timeoutTextField, timeLeft, initialTime, endTime, timer,
          forgotten, written, presses>>

SecondsOfDay == 0..(Day - 1)

Init ==
  /\ now \in 0..(Day * TicksPerSecond - 1)
  /\ timeoutTextField = Empty
  /\ timeLeft = 0
  /\ initialTime = 0
  /\ endTime = 0
  /\ timer = "none"
  /\ forgotten = 0
  /\ written = 0
  /\ presses = 0

-----------------------------------------------------------------------------
\* "HH:mm:ss" of a tick.
TimeOfDay(t) == (t \div TicksPerSecond) % Day

\* Mutant: the interval is taken the wrong way round.
SecondsSince(input, t) == TimeOfDay(t) - input

\* getTimeLeft: from the current time to the time in the field.
SecondsLeft(input, t) == input - TimeOfDay(t)

\* Is there a time in the field, and is it still to come (compareTime)?
StillToCome(input, t) == input # Empty /\ input >= TimeOfDay(t)

\* doneButtonTapped of the time picker.
PickTime(input) ==
  /\ now <= LastPress
  /\ timeoutTextField' = input
  /\ UNCHANGED <<now, timeLeft, initialTime, endTime, timer, forgotten, written,
                 presses>>

\* Mutant: the end is reckoned from the limit of the press before.
StartFromOld(t, left) ==
  /\ timeLeft' = left
  /\ initialTime' = timeLeft
  /\ endTime' = t + left
  /\ timer' = "valid"
  /\ forgotten' = IF timer = "valid" THEN forgotten + 1 ELSE forgotten

\* The end of every press: the countdown starts again from what is left, with
\* one more timer; a timer that still fires is forgotten.
Start(t, left) ==
  /\ timeLeft' = left
  /\ initialTime' = left
  /\ endTime' = t + left
  /\ timer' = "valid"
  /\ forgotten' = IF timer = "valid" THEN forgotten + 1 ELSE forgotten

\* touchUpInsideFanConfigButton.  The clock is read to compare, read again to
\* subtract, and once more to set the end.  A press without a time to come
\* writes no limit, but starts the countdown all the same.
Press ==
  /\ now <= LastPress
  /\ presses < MaxPresses /\ presses' = presses + 1
  /\ \E subtracted \in now..(now + Gap) : \E ended \in subtracted..(subtracted + Gap) :
       /\ now' = ended
       /\ \/ /\ StillToCome(timeoutTextField, now)
             /\ LET seconds == SecondsLeft(timeoutTextField, subtracted)
                IN /\ written' = seconds
                   /\ Start(ended, seconds * TicksPerSecond)
          \/ /\ ~StillToCome(timeoutTextField, now)
             /\ written' = written
             /\ Start(ended, timeLeft)
  /\ UNCHANGED timeoutTextField

\* Mutant: the last second is not counted.
UpdateTimeShort ==
  /\ timer = "valid" \/ forgotten > 0
  /\ IF timeLeft > TicksPerSecond
     THEN /\ timeLeft' = endTime - now
          /\ UNCHANGED <<timer, timeoutTextField>>
     ELSE /\ timer' = "invalid"
          /\ timeoutTextField' = Empty
          /\ timeLeft' = timeLeft
  /\ UNCHANGED <<now, initialTime, endTime, forgotten, written, presses>>

\* Mutant: time is only told when it is over.
UpdateTimeLate ==
  /\ timer = "valid" \/ forgotten > 0
  /\ IF timeLeft > 0
     THEN UNCHANGED <<timeLeft, timer, timeoutTextField>>
     ELSE /\ timer' = "invalid"
          /\ timeoutTextField' = Empty
          /\ timeLeft' = timeLeft
  /\ UNCHANGED <<now, initialTime, endTime, forgotten, written, presses>>

\* updateTime, fired by any of the timers: the timer that is known is the one
\* that is stopped at the end.
UpdateTime ==
  /\ timer = "valid" \/ forgotten > 0
  /\ IF timeLeft > 0
     THEN /\ timeLeft' = endTime - now
          /\ UNCHANGED <<timer, timeoutTextField>>
     ELSE /\ timer' = "invalid"
          /\ timeoutTextField' = Empty
          /\ timeLeft' = timeLeft
  /\ UNCHANGED <<now, initialTime, endTime, forgotten, written, presses>>

Clock ==
  /\ now < MaxNow
  /\ now' = now + 1
  /\ UNCHANGED <<timeoutTextField, timeLeft, initialTime, endTime, timer,
                 forgotten, written, presses>>

Next == \/ \E input \in SecondsOfDay : PickTime(input)
        \/ Press
        \/ UpdateTime
        \/ Clock

\* Time goes by and timers fire.
Spec == Init /\ [][Next]_vars /\ WF_vars(Clock) /\ WF_vars(UpdateTime)

-----------------------------------------------------------------------------
TypeOK ==
  /\ now \in Nat
  /\ timeoutTextField \in SecondsOfDay \cup {Empty}
  /\ timeLeft \in Int /\ initialTime \in Int /\ endTime \in Int
  /\ timer \in {"none", "valid", "invalid"}
  /\ forgotten \in Nat
  /\ written \in Int
  /\ presses \in Nat /\ (forgotten = 0 \/ forgotten < presses)

\* The progress that is drawn is timeLeft / initialTime, and the two are set
\* at different times: while there is something left, the whole is more than
\* nothing and no less than the part.
ProgressDefined ==
  timeLeft > 0 => 0 < initialTime /\ timeLeft <= initialTime

\* The tick at which a time of the day comes, on the day of tick t.
TickOf(input, t) ==
  ((t \div (TicksPerSecond * Day)) * Day + input) * TicksPerSecond

SameDay(t, u) == t \div (TicksPerSecond * Day) = u \div (TicksPerSecond * Day)

\* A limit that is written ends when the user asked, to the second and the
\* time the press took, however the clock turns between its reads.  It may be
\* -1, if the second turned at the limit itself.  At midnight it may be a day.
LimitKept ==
  [][presses' # presses /\ StillToCome(timeoutTextField, now) /\ SameDay(now, now') =>
       LET limit == TickOf(timeoutTextField, now)
           end   == now' + written' * TicksPerSecond
       IN limit <= end /\ end < limit + TicksPerSecond + Gap]_vars

\* The timer of a countdown is not stopped ahead of its end, whichever timer
\* it was that fired.
NotStoppedEarly == timer = "invalid" => endTime <= now

\* Every countdown comes to its end and its own timer is stopped, also if
\* others that were forgotten still fire.
CountdownEnds == timer = "valid" ~> timer = "invalid"
=============================================================================
