-------------------------------- MODULE Garden --------------------------------
(***************************************************************************)
(* The app: the three screens of the tab bar over one database client, one *)
(* main queue, one overlay and one alert.  A screen is loaded when its tab *)
(* is selected for the first time and is never unloaded; from then on its  *)
(* callbacks run whichever tab is selected.                                *)
(***************************************************************************)
EXTENDS HomeScreen, ConfigScreen, SettingScreen

CONSTANTS
  MaxSelections  \* bound: tabs selected

\* No threshold is one of the leaves that the other screens read or write.
ASSUME GardenAssumption ==
  /\ "DULIEUCAMBIEN" \in Paths /\ {"sensors", "rain"} \subseteq Handlers
  /\ PathOf["sensors"] = "DULIEUCAMBIEN" /\ PathOf["rain"] = "DULIEUCAMBIEN"
  /\ ThresholdPaths \cap {"TINHIEUDONGCO", "pumpSpeed", "DULIEUCAMBIEN"} = {}
  /\ MaxSelections \in Nat

VARIABLES
  selections

vars == <<sharedVars, homeVars, controlVars, settingVars, selections>>

Init ==
  /\ ServiceInit(InitialDb)
  /\ HudInit
  /\ tab = "home"
  /\ alert = FALSE
  /\ HomeInit /\ ControlInit /\ SettingInit
  /\ selections = 0

-----------------------------------------------------------------------------
\* The tab bar comes up with the home screen.
Start == /\ LoadHome
         /\ UNCHANGED <<tab, controlVars, settingVars, selections>>

\* The view of a tab is loaded the first time it is selected.
LoadTab(t) ==
  \/ /\ t = "setting" /\ LoadSetting /\ UNCHANGED <<homeVars, controlVars>>
  \/ /\ t = "control" /\ LoadControl /\ UNCHANGED <<homeVars, settingVars>>
  \/ /\ IF t = "setting" THEN loaded ELSE IF t = "control" THEN opened ELSE homeLoaded
     /\ UNCHANGED <<serviceVars, hudVars, alert, homeVars, controlVars, settingVars>>

SelectTab(t) ==
  /\ homeLoaded /\ Touchable(tab) /\ t # tab
  /\ selections < MaxSelections /\ selections' = selections + 1
  /\ tab' = t
  /\ LoadTab(t)

\* The callbacks of all the screens share the main queue with the overlay.
MainThread ==
  \/ HomeCallback /\ UNCHANGED <<controlVars, settingVars, selections>>
  \/ ControlCallback /\ UNCHANGED <<homeVars, settingVars, selections>>
  \/ SettingCallback /\ UNCHANGED <<homeVars, controlVars, selections>>
  \/ HudBlock /\ UNCHANGED <<homeVars, controlVars, settingVars, selections>>

User ==
  \/ \E r \in Rows : Tap(r) /\ UNCHANGED <<homeVars, settingVars, selections>>
  \/ SettingUser /\ UNCHANGED <<homeVars, controlVars, selections>>

Next ==
  \/ Start
  \/ \E t \in {"home", "setting", "control"} : SelectTab(t)
  \/ MainThread
  \/ User
  \/ /\ HideAnimationDone \/ DismissAlert \/ Background
     /\ UNCHANGED <<homeVars, controlVars, settingVars, selections>>

Fairness ==
  /\ ServiceFairness
  /\ WF_vars(MainThread)
  /\ WF_vars(/\ HideAnimationDone
             /\ UNCHANGED <<homeVars, controlVars, settingVars, selections>>)

Spec == Init /\ [][Next]_vars /\ Fairness

-----------------------------------------------------------------------------
TypeOK ==
  /\ SharedTypeOK
  /\ tab \in {"home", "setting", "control"}
  /\ HomeTypeOK /\ ControlTypeOK /\ SettingTypeOK
  /\ selections \in 0..MaxSelections

\* Three screens and their seven kinds of callbacks on one main queue: each
\* shows what the database holds once nothing is on its way, also the two
\* that the tab bar does not show.
AllCurrent == SensorsCurrent /\ ScreenCurrent /\ SwitchIsMode
=============================================================================
