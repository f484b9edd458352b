------------------------------ MODULE HomeScreen ------------------------------
(***************************************************************************)
(* The home screen (HomeViewController): the four sensors and the weather  *)
(* image of the garden, by two observers of one string.  What they cut out *)
(* of the string is not told apart from the string itself, and the weather *)
(* of the city, which comes from elsewhere, is left out.                   *)
(***************************************************************************)
EXTENDS Screen

CONSTANTS
  Blank  \* what is shown before the first event

VARIABLES
  homeLoaded,       \* has viewDidLoad run?
  parameterValues,  \* the string that the four cells show a part of
  rainState         \* the string that the weather image was chosen by

homeVars == <<homeLoaded, parameterValues, rainState>>

HomeInit ==
  /\ homeLoaded = FALSE
  /\ parameterValues = Blank
  /\ rainState = Blank

\* Mutant: the rain is asked for from the callback of the sensors.
LoadHomeInTurn ==
  /\ ~homeLoaded
  /\ homeLoaded' = TRUE
  /\ Client!Room /\ Client!Dispatch("show")
  /\ sharedQueue' = Append(sharedQueue, ObserveCall("sensors"))
  /\ UNCHANGED <<farVars, hudVars, alert, parameterValues, rainState>>

\* viewDidLoad: initDataFirebase, then initDataRaintState.
LoadHome ==
  /\ ~homeLoaded
  /\ homeLoaded' = TRUE
  /\ Client!Room /\ Client!Dispatch("show")
  /\ sharedQueue' = sharedQueue \o <<ObserveCall("sensors"), ObserveCall("rain")>>
  /\ UNCHANGED <<farVars, hudVars, alert, parameterValues, rainState>>

\* Mutant: the overlay is dismissed only by an event with a string.
ShowsQuietly(h, shown1, shown2) ==
  /\ RunningHandler(h)
  /\ LET data == Head(mainQueue).val
     IN IF Readable(data)
        THEN shown1' = data /\ alert' = alert /\ Client!FireEvent(HideBlock)
        ELSE ShowAlert("home") /\ shown1' = shown1 /\ Client!FireEvent(<<>>)
  /\ UNCHANGED <<farVars, sharedQueue, hudVars, tab, homeLoaded, shown2>>

\* One of the two callbacks: every event dismisses the overlay, whoever
\* raised it, and an event without a string shows an alert.
Shows(h, shown1, shown2) ==
  /\ RunningHandler(h)
  /\ LET data == Head(mainQueue).val
     IN IF Readable(data) THEN shown1' = data /\ alert' = alert
        ELSE ShowAlert("home") /\ shown1' = shown1
  /\ Client!FireEvent(HideBlock)
  /\ UNCHANGED <<farVars, sharedQueue, hudVars, tab, homeLoaded, shown2>>

SensorEvent == Shows("sensors", parameterValues, rainState)
RainEvent == Shows("rain", rainState, parameterValues)

HomeCallback == SensorEvent \/ RainEvent

-----------------------------------------------------------------------------
HomeTypeOK ==
  /\ homeLoaded \in BOOLEAN
  /\ {parameterValues, rainState} \subseteq (Values \ {Null}) \cup {Blank}

\* Two observers cut up one string: once nothing is on its way, both show the
\* string that the database holds, and not two different ones.
SensorsCurrent ==
  homeLoaded /\ Quiet /\ db["DULIEUCAMBIEN"] # Null =>
    /\ parameterValues = db["DULIEUCAMBIEN"]
    /\ rainState = db["DULIEUCAMBIEN"]
=============================================================================
