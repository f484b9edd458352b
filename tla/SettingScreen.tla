---------------------------- MODULE SettingScreen ----------------------------
(***************************************************************************)
(* The settings screen (SettingViewController): one switch for each work   *)
(* mode of the garden, and the thresholds of the automatic mode, which are *)
(* checked before that mode is written and written after it was accepted.  *)
(* Of the two fields of a threshold the screen keeps only what they would  *)
(* be written as, or Empty if there is nothing in one of them.             *)
(***************************************************************************)
EXTENDS WorkModes

CONSTANTS
  Thresholds,        \* the leaves of the thresholds, in the order of the code
  Texts,             \* what the user may enter for a threshold
  Empty,             \* one of the two fields is empty
  Zeros,             \* what empty fields are written as
  MaxTurns,          \* bound: switches turned
  MaxEdits           \* bound: thresholds edited

ThresholdPaths == {Thresholds[i] : i \in 1..Len(Thresholds)}

ASSUME SettingScreenAssumption ==
  /\ Thresholds \in Seq(Paths)
  /\ ThresholdPaths \cup {"CHEDO"} \subseteq Paths /\ "CHEDO" \notin ThresholdPaths
  /\ "setting" \in Handlers /\ PathOf["setting"] = "CHEDO"
  /\ Tasks = {"show", "hide"}
  /\ Modes \cup Texts \cup {Zeros} \subseteq Values \ {Null}
  /\ Button # App /\ Button # AutoMode /\ App # AutoMode
  /\ Empty \notin Texts
  /\ MaxTurns \in Nat /\ MaxEdits \in Nat

VARIABLES
  loaded,    \* has viewDidLoad run?
  switches,  \* the modes whose switch is on
  fields,    \* what is entered for each threshold
  turned, edits,
  bypassed   \* ghost: has the user got past the check of the fields, by one of
             \* the two ways that the code leaves open?

settingVars == <<loaded, switches, fields, turned, edits, bypassed>>
settingScreenVars == <<sharedVars, settingVars>>

SettingInit ==
  /\ loaded = FALSE
  /\ switches = {}
  /\ fields = [p \in ThresholdPaths |-> Empty]
  /\ turned = 0
  /\ edits = 0
  /\ bypassed = FALSE

SettingScreenInit ==
  /\ ServiceInit(InitialDb)
  /\ HudInit
  /\ tab = "setting"
  /\ alert = FALSE
  /\ SettingInit

-----------------------------------------------------------------------------
\* Mutant: the mode that is observed already is not observed again.
InitDataModeOnce ==
  /\ Client!Room /\ Client!Dispatch("show")
  /\ sharedQueue' = IF loaded THEN sharedQueue
                    ELSE Append(sharedQueue, ObserveCall("setting"))

\* initDataModeFirebase: the overlay, and one more observer of the mode.
InitDataMode == /\ Client!Room /\ Client!Dispatch("show")
                /\ sharedQueue' = Append(sharedQueue, ObserveCall("setting"))

LoadSetting ==
  /\ ~loaded
  /\ loaded' = TRUE
  /\ switches' = {}
  /\ InitDataMode
  /\ UNCHANGED <<farVars, hudVars, alert, fields, turned, edits, bypassed>>

SettingViewDidLoad == LoadSetting /\ UNCHANGED tab

\* handleAssignValueSwitch: a mode that is no number counts as 2.  A number
\* other than 1, 2 and 3, which nobody writes, is left out.
SwitchesOf(mode) == IF mode \in Modes THEN {mode} ELSE {App}

\* Mutant: a switch that is on is left on.
SettingEventKeepsChoice ==
  /\ RunningHandler("setting")
  /\ LET data == Head(mainQueue).val
     IN IF Readable(data)
        THEN /\ switches' = IF switches = {} THEN SwitchesOf(data) ELSE switches
             /\ alert' = alert
        ELSE ShowAlert("setting") /\ switches' = switches
  /\ Client!FireEvent(HideBlock)
  /\ UNCHANGED <<farVars, sharedQueue, hudVars, tab, loaded, fields, turned, edits,
                 bypassed>>

\* The callback of the mode.
SettingEvent ==
  /\ RunningHandler("setting")
  /\ LET data == Head(mainQueue).val
     IN IF Readable(data) THEN switches' = SwitchesOf(data) /\ alert' = alert
        ELSE ShowAlert("setting") /\ switches' = switches
  /\ Client!FireEvent(HideBlock)
  /\ UNCHANGED <<farVars, sharedQueue, hudVars, tab, loaded, fields, turned, edits,
                 bypassed>>

\* The switch of m is turned, and the others are turned off.
Turned(m) == IF m \in switches THEN {} ELSE {m}

\* Mutant: the fields are not looked at.
AlwaysFilled(on) == TRUE

\* checkTextFieldsEmpty: only looked at when the automatic mode is on.
Filled(on) == AutoMode \in on => \A p \in ThresholdPaths : fields[p] # Empty

\* The automatic switch is turned off, which is not checked, over an empty field.
SwitchedOffEmpty(m) ==
  m = AutoMode /\ m \in switches /\ \E p \in ThresholdPaths : fields[p] = Empty

\* The automatic mode is being written, or its completion is yet to run.
AutoModeOutstanding ==
  \/ \E w \in allWrites : w.path = "CHEDO" /\ w.val = AutoMode
  \/ \E i \in 1..Len(sharedQueue) : sharedQueue[i] = SetCall("CHEDO", AutoMode)
  \/ \E i \in 1..Len(mainQueue) : /\ mainQueue[i].kind = "done"
                                  /\ mainQueue[i].write.path = "CHEDO"
                                  /\ mainQueue[i].write.val = AutoMode

\* switchChanged: writes the mode whose switch was turned, on or off; but the
\* automatic mode only with all the fields filled, or else all is read again.
Turn(m) ==
  /\ loaded /\ Touchable("setting")
  /\ turned < MaxTurns /\ turned' = turned + 1
  /\ bypassed' = (bypassed \/ SwitchedOffEmpty(m))
  /\ switches' = Turned(m)
  /\ IF m # AutoMode \/ Filled(switches')
     THEN /\ sharedQueue' = Append(sharedQueue, SetCall("CHEDO", m))
          /\ UNCHANGED <<clientVars, alert>>
     ELSE InitDataMode /\ ShowAlert("setting")
  /\ UNCHANGED <<farVars, hudVars, tab, loaded, fields, edits>>

\* Int(above) ?? 0 and Int(below) ?? 0.
Format(text) == IF text = Empty THEN Zeros ELSE text

\* Mutant: the thresholds follow any change of mode.
ThresholdCallsAlways(m) ==
  [i \in 1..Len(Thresholds) |->
     SetCall(Thresholds[i], Format(fields[Thresholds[i]]))]

\* writeThresholdTempData and its two copies: once "3" has been accepted, the
\* thresholds are written from what the fields hold now.
ThresholdCalls(m) ==
  IF m # AutoMode THEN <<>>
  ELSE [i \in 1..Len(Thresholds) |->
          SetCall(Thresholds[i], Format(fields[Thresholds[i]]))]

\* The completion of the write of the mode.
ModeWritten ==
  /\ RunningDone("CHEDO")
  /\ LET done == Head(mainQueue)
     IN IF done.ok
        THEN /\ sharedQueue' = sharedQueue \o ThresholdCalls(done.write.val)
             /\ alert' = alert
        ELSE ShowAlert("setting") /\ sharedQueue' = sharedQueue
  /\ Client!FireEvent(<<>>)
  /\ UNCHANGED <<farVars, hudVars, tab, settingVars>>

\* The completions of the writes of the thresholds.
ThresholdWritten ==
  /\ \E p \in ThresholdPaths : Written("setting", p, <<>>)
  /\ UNCHANGED settingVars

\* The user types into the fields of a threshold.
Edit(p, text) ==
  /\ loaded /\ Touchable("setting")
  /\ edits < MaxEdits /\ edits' = edits + 1
  /\ bypassed' = (bypassed \/ (text = Empty /\ AutoModeOutstanding))
  /\ fields' = [fields EXCEPT ![p] = text]
  /\ UNCHANGED <<serviceVars, hudVars, tab, alert, loaded, switches, turned>>

SettingCallback == SettingEvent \/ ModeWritten \/ ThresholdWritten

SettingMainThread == SettingCallback \/ (HudBlock /\ UNCHANGED settingVars)

SettingUser ==
  \/ \E m \in Modes : Turn(m)
  \/ \E p \in ThresholdPaths, text \in Texts \cup {Empty} : Edit(p, text)

SettingScreenNext ==
  \/ SettingViewDidLoad
  \/ SettingMainThread
  \/ SettingUser
  \/ (HideAnimationDone \/ DismissAlert \/ Background) /\ UNCHANGED settingVars

SettingScreenFairness ==
  /\ ServiceFairness
  /\ WF_settingScreenVars(SettingMainThread)
  /\ WF_settingScreenVars(HideAnimationDone /\ UNCHANGED settingVars)

SettingScreenSpec ==
  /\ SettingScreenInit /\ [][SettingScreenNext]_settingScreenVars
  /\ SettingScreenFairness

-----------------------------------------------------------------------------
SettingTypeOK ==
  /\ loaded \in BOOLEAN
  /\ switches \subseteq Modes
  /\ fields \in [ThresholdPaths -> Texts \cup {Empty}]
  /\ turned \in 0..MaxTurns /\ edits \in 0..MaxEdits
  /\ bypassed \in BOOLEAN

\* Once nothing is on its way, a switch that is on is the mode of the garden,
\* whatever was refused, overtaken, or turned while events were queued.  That
\* no switch may be on is what turning one off leaves behind: the mode is
\* written once more and raises no event.
SwitchIsMode ==
  loaded /\ Quiet /\ switches # {} /\ db["CHEDO"] # Null
    => switches = SwitchesOf(db["CHEDO"])

\* The thresholds are written only after the automatic mode was accepted: a
\* garden that is never in that mode keeps the thresholds it has.
ThresholdsNeedAuto ==
  [](db["CHEDO"] # AutoMode) =>
    [](\A p \in ThresholdPaths : db[p] = InitialDb[p])

\* Zeros reach the database for a threshold only if the check of the fields was
\* got past: the automatic switch was turned off over an empty field, which
\* writes "3" and then all the thresholds without a check, or a field was emptied
\* while "3" was being written.  No other interleaving of refusals, slow answers,
\* modes set by another phone and fields that change has zeros written, unless
\* the user enters them.
ZerosOnlyPastCheck ==
  [][ServePut /\ (\E p \in ThresholdPaths : db[p] # Zeros /\ db'[p] = Zeros)
       => bypassed]_settingScreenVars
=============================================================================
