---------------------------- MODULE ConfigScreen ----------------------------
(***************************************************************************)
(* The control screen (ConfigViewController): one switch for each of the   *)
(* four engines of the garden, enabled while the garden is in app mode.    *)
(* The engines' states are one string of the database, which the screen    *)
(* keeps a copy of and writes back whole; here it is the set of the rows   *)
(* that are on.  A touch or a block of the main queue is one step.         *)
(***************************************************************************)
EXTENDS WorkModes

CONSTANTS
  Rows,              \* the rows of the collection view
  Pump,              \* the row of the pump, the first character
  One,               \* pump speed "1"
  QuickTaps,         \* may a second tap come before the overlay is raised?
  MaxTaps            \* bound: taps

\* What the engines' string may say: which rows are on.  The controller and
\* the phones write no other strings.
EngineStates == {on : on \in SUBSET Rows}

ASSUME ConfigScreenAssumption ==
  /\ Pump \in Rows
  /\ {Button, App, AutoMode, One} \cup EngineStates \subseteq Values \ {Null}
  /\ {"CHEDO", "TINHIEUDONGCO", "pumpSpeed"} \subseteq Paths
  /\ {"mode", "engine"} \subseteq Handlers
  /\ PathOf["mode"] = "CHEDO"
  /\ \A h \in Handlers : PathOf[h] = "TINHIEUDONGCO" <=> h = "engine"
  /\ Tasks = {"show", "hide"}
  /\ InitialDb["TINHIEUDONGCO"] \in EngineStates \cup {Null}
  /\ "TINHIEUDONGCO" \in RemotePaths
       => RemoteValues["TINHIEUDONGCO"] \subseteq EngineStates \cup {Null}
  /\ QuickTaps \in BOOLEAN
  /\ MaxTaps \in Nat

VARIABLES
  opened,        \* has viewDidLoad run?
  workMode,
  engineStates,  \* the rows that are on, as the screen knows them
  taps

controlVars == <<opened, workMode, engineStates, taps>>
controlScreenVars == <<sharedVars, controlVars>>

ControlInit ==
  /\ opened = FALSE
  /\ workMode = Button
  /\ engineStates = {}
  /\ taps = 0

ControlScreenInit ==
  /\ ServiceInit(InitialDb)
  /\ HudInit
  /\ tab = "control"
  /\ alert = FALSE
  /\ ControlInit

-----------------------------------------------------------------------------
\* viewDidLoad and initDataWorkModeFirebase.
LoadControl ==
  /\ ~opened
  /\ opened' = TRUE
  /\ Client!Room /\ Client!Dispatch("show")
  /\ sharedQueue' = Append(sharedQueue, ObserveCall("mode"))
  /\ UNCHANGED <<farVars, hudVars, alert, workMode, engineStates, taps>>

ControlViewDidLoad == LoadControl /\ UNCHANGED tab

\* cellForItemAt: the switches work in every mode but these two.
SwitchesEnabled(mode) == mode \notin {Button, AutoMode}

\* The callback of the work mode.  Each time it finds the switches enabled it
\* registers one more observer of the engines.
ModeEvent ==
  /\ RunningHandler("mode")
  /\ LET data == Head(mainQueue).val
     IN IF Readable(data)
        THEN /\ workMode' = data
             /\ sharedQueue' = IF SwitchesEnabled(data)
                               THEN Append(sharedQueue, ObserveCall("engine"))
                               ELSE sharedQueue
             /\ alert' = alert
        ELSE /\ ShowAlert("control")
             /\ UNCHANGED <<workMode, sharedQueue>>
  /\ Client!FireEvent(HideBlock)
  /\ UNCHANGED <<farVars, hudVars, tab, opened, engineStates, taps>>

\* The callback of the engines' states.
EngineEvent ==
  /\ RunningHandler("engine")
  /\ LET data == Head(mainQueue).val
     IN IF Readable(data) THEN engineStates' = data /\ alert' = alert
        ELSE ShowAlert("control") /\ engineStates' = engineStates
  /\ Client!FireEvent(<<>>)
  /\ UNCHANGED <<farVars, sharedQueue, hudVars, tab, opened, workMode, taps>>

\* Mutant: the overlay is dismissed only by a success.
EngineWrittenHidesOnSuccess ==
  /\ Written("control", "TINHIEUDONGCO",
             IF Head(mainQueue).ok THEN HideBlock ELSE <<>>)
  /\ UNCHANGED controlVars

\* The completion of the write of the engines' states.
EngineWritten ==
  /\ Written("control", "TINHIEUDONGCO", HideBlock)
  /\ UNCHANGED controlVars

\* The completion of the write of the pump's speed.
SpeedWritten ==
  /\ Written("control", "pumpSpeed", <<>>)
  /\ UNCHANGED controlVars

\* Mutant: the string is made anew from one switch.
SetRowAlone(states, r, isOn) == IF isOn THEN {r} ELSE {}

\* handleSwitchChanged: replace the character of one row.
SetRow(states, r, isOn) == IF isOn THEN states \cup {r} ELSE states \ {r}

\* Mutant: the engines first.
SwitchCallsReversed(old, new) ==
  <<SetCall("TINHIEUDONGCO", new)>>
    \o (IF Pump \in new \ old THEN <<SetCall("pumpSpeed", One)>> ELSE <<>>)

\* The writes of one switch, in order: turning the pump on first resets its
\* speed; then updateFirebaseData writes all the engines.
SwitchCalls(old, new) ==
  (IF Pump \in new \ old THEN <<SetCall("pumpSpeed", One)>> ELSE <<>>)
    \o <<SetCall("TINHIEUDONGCO", new)>>

\* The user turns a switch: handleSwitchChanged, then updateFirebaseData.
Tap(r) ==
  /\ opened /\ Touchable("control") /\ SwitchesEnabled(workMode)
  /\ QuickTaps \/ ~ShowPending
  /\ taps < MaxTaps /\ taps' = taps + 1
  /\ LET isOn == r \notin engineStates
     IN engineStates' = SetRow(engineStates, r, isOn)
  /\ sharedQueue' = sharedQueue \o SwitchCalls(engineStates, engineStates')
  /\ Client!Room /\ Client!Dispatch("show")
  /\ UNCHANGED <<farVars, hudVars, tab, alert, opened, workMode>>

\* The callbacks of this screen.
ControlCallback == ModeEvent \/ EngineEvent \/ EngineWritten \/ SpeedWritten

ControlMainThread == ControlCallback \/ (HudBlock /\ UNCHANGED controlVars)

ControlScreenNext ==
  \/ ControlViewDidLoad
  \/ ControlMainThread
  \/ \E r \in Rows : Tap(r)
  \/ (HideAnimationDone \/ DismissAlert \/ Background) /\ UNCHANGED controlVars

\* The main thread runs its queue and its animations; nobody has to tap.
ControlScreenFairness ==
  /\ ServiceFairness
  /\ WF_controlScreenVars(ControlMainThread)
  /\ WF_controlScreenVars(HideAnimationDone /\ UNCHANGED controlVars)

ControlScreenSpec ==
  /\ ControlScreenInit /\ [][ControlScreenNext]_controlScreenVars
  /\ ControlScreenFairness

-----------------------------------------------------------------------------
ControlTypeOK ==
  /\ opened \in BOOLEAN
  /\ workMode \in Values \ {Null}
  /\ engineStates \subseteq Rows
  /\ taps \in 0..MaxTaps

\* Whatever taps, refusals, writes of others and late events there were: once
\* nothing is on its way, the switches show what the database holds.
ScreenCurrent ==
  opened /\ Quiet =>
    /\ db["CHEDO"] # Null => workMode = db["CHEDO"]
    /\ Client!Observed(view["TINHIEUDONGCO"]) /\ db["TINHIEUDONGCO"] # Null
         => engineStates = db["TINHIEUDONGCO"]

\* The overlay is the lock of the read-modify-write of the engines' string:
\* one write of it is outstanding at most, and the overlay is up, or about to
\* be, for as long as that one is unanswered.
OverlayLocks ==
  LET writes == {w \in allWrites : w.path = "TINHIEUDONGCO"}
      calls  == {i \in 1..Len(sharedQueue) :
                   /\ sharedQueue[i].call = "set"
                   /\ sharedQueue[i].path = "TINHIEUDONGCO"}
  IN /\ \A w, x \in writes : w = x
     /\ \A i, j \in calls : i = j
     /\ writes = {} \/ calls = {}
     /\ writes # {} \/ calls # {} => viewBackground \/ ShowPending

\* A tap that reaches the database changes no other engine than its own.
OtherEnginesKept ==
  [][LET was == db["TINHIEUDONGCO"]
         is  == db'["TINHIEUDONGCO"]
     IN ServePut /\ was # Null =>
          \E r \in Rows : is \ {r} = was \ {r}]_controlScreenVars

\* The garden never sees the pump turned on by this screen before it has
\* seen the pump's speed set to 1.
PumpSpeedFirst ==
  [][ServePut /\ Pump \in db'["TINHIEUDONGCO"] \ db["TINHIEUDONGCO"]
       => db["pumpSpeed"] = One]_controlScreenVars

\* The overlay does not stay up: the screen can always be touched again.
OverlayReleased == viewBackground ~> ~viewBackground
=============================================================================
