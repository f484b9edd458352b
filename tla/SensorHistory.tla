--------------------------- MODULE SensorHistory ---------------------------
(***************************************************************************)
(* The history of one sensor, as the four chart screens (Temperature,      *)
(* Humidity, SoilMosture, Light) keep it: two arrays that run in parallel, *)
(* the readings and the times they were taken, appended to by the callback *)
(* of DULIEUCAMBIEN, drawn, and saved in UserDefaults by two calls.  The   *)
(* app may be killed between any two steps, and draw itself may trap.      *)
(***************************************************************************)
EXTENDS Integers, Sequences

CONSTANTS
  Readings,   \* what a slice of the sensor string may be
  Plottable,  \* those that are numbers
  MaxClock    \* bound: callbacks

ASSUME SensorHistoryAssumption ==
  /\ Plottable \subseteq Readings
  /\ MaxClock \in Nat

VARIABLES
  screen,      \* "closed", "open", or "saving" between the calls of a save
  values,      \* tempData, each with the time at which it was read
  times,       \* timeTitle
  savedValues, \* UserDefaults "tempData"
  savedTimes,  \* UserDefaults "timeTitle"
  clock,       \* the present time
  torn         \* was the app killed between the two calls of a save? (a ghost)

vars == <<screen, values, times, savedValues, savedTimes, clock, torn>>

\* The code keeps val alone; at tells which reading it was.
Reading == [val : Readings, at : Nat]

Init ==
  /\ screen = "closed"
  /\ values = <<>> /\ times = <<>>
  /\ savedValues = <<>> /\ savedTimes = <<>>
  /\ clock = 0
  /\ torn = FALSE

\* viewDidLoad and initData.
Open ==
  /\ screen = "closed"
  /\ screen' = "open"
  /\ values' = savedValues
  /\ times' = savedTimes
  /\ UNCHANGED <<savedValues, savedTimes, clock, torn>>

\* appendTemperature: is there anything new to record?
IsNew(val) == values = <<>> \/ values[Len(values)].val # val

\* The two arrays after appendTemperature.
Recorded(val) == IF IsNew(val) THEN Append(values, [val |-> val, at |-> clock])
                 ELSE values

\* Mutant: every callback adds a time.
StampedAlways(val) == Append(times, clock)

\* Mutant: the two arguments of appendTemperature, both strings, swapped.
StampedSwapped(val) == IF IsNew(val) THEN Append(times, val) ELSE times

Stamped(val) == IF IsNew(val) THEN Append(times, clock) ELSE times

\* Mutant: eight are kept.
TooLongByOne(vs, ts) == Len(vs) > 8 /\ Len(ts) > 8

\* The callback's test before removeFirst.
TooLong(vs, ts) == Len(vs) > 7 /\ Len(ts) > 7

Trimmed(vs, ts, s) == IF TooLong(vs, ts) THEN Tail(s) ELSE s

\* The two arrays that are drawn.
NextValues(val) == Trimmed(Recorded(val), Stamped(val), Recorded(val))
NextTimes(val) == Trimmed(Recorded(val), Stamped(val), Stamped(val))

\* createLineChart indexes the readings by the times, and parses them.
Draws(vs, ts) ==
  \A i \in 1..Len(ts) : i \in 1..Len(vs) /\ vs[i].val \in Plottable

\* Mutant: saveData before createLineChart.
SensorEventSavesFirst(val) ==
  /\ screen = "open" /\ clock < MaxClock
  /\ clock' = clock + 1
  /\ savedValues' = NextValues(val)
  /\ savedTimes' = NextTimes(val)
  /\ IF Draws(NextValues(val), NextTimes(val))
     THEN values' = NextValues(val) /\ times' = NextTimes(val) /\ screen' = "saving"
     ELSE values' = <<>> /\ times' = <<>> /\ screen' = "closed"
  /\ UNCHANGED torn

\* The callback, down to the first call of saveData; a trap kills the app.
SensorEvent(val) ==
  /\ screen = "open" /\ clock < MaxClock
  /\ clock' = clock + 1
  /\ IF Draws(NextValues(val), NextTimes(val))
     THEN /\ values' = NextValues(val)
          /\ times' = NextTimes(val)
          /\ savedValues' = values'
          /\ screen' = "saving"
     ELSE /\ screen' = "closed" /\ values' = <<>> /\ times' = <<>>
          /\ UNCHANGED savedValues
  /\ UNCHANGED <<savedTimes, torn>>

\* The second call of saveData.
SaveTimes ==
  /\ screen = "saving"
  /\ screen' = "open"
  /\ savedTimes' = times
  /\ UNCHANGED <<values, times, savedValues, clock, torn>>

\* The screen is closed, or the app is killed, which may tear a save.
Leave ==
  /\ screen \in {"open", "saving"}
  /\ torn' = (torn \/ screen = "saving")
  /\ screen' = "closed" /\ values' = <<>> /\ times' = <<>>
  /\ UNCHANGED <<savedValues, savedTimes, clock>>

Next ==
  \/ Open
  \/ \E val \in Readings : SensorEvent(val)
  \/ SaveTimes
  \/ Leave

Spec == Init /\ [][Next]_vars

-----------------------------------------------------------------------------
TypeOK ==
  /\ screen \in {"closed", "open", "saving"}
  /\ values \in Seq(Reading) /\ savedValues \in Seq(Reading)
  /\ times \in Seq(Nat) /\ savedTimes \in Seq(Nat)
  /\ clock \in Nat
  /\ torn \in BOOLEAN

\* The chart never indexes past the readings, whenever the app was killed:
\* the save writes them before the times, and both arrays grow and shrink
\* together.
NoIndexTrap ==
  /\ Len(savedTimes) <= Len(savedValues)
  /\ screen = "open" => \A val \in Readings :
                         Len(NextTimes(val)) <= Len(NextValues(val))

\* Each reading is shown at the time it was taken, and at most seven are
\* kept, as long as no save is torn.
AlignedWith(vs, ts) ==
  /\ Len(vs) = Len(ts) /\ Len(vs) <= 7
  /\ \A i \in 1..Len(vs) : vs[i].at = ts[i]

Aligned ==
  ~torn => /\ AlignedWith(values, times)
           /\ screen # "saving" => AlignedWith(savedValues, savedTimes)

\* What has been saved can be drawn again: a reading that is not a number
\* stops the app once, not at every start from then on.
SavedDraws == ~torn /\ screen # "saving" => Draws(savedValues, savedTimes)
=============================================================================
