------------------------------- MODULE Screen -------------------------------
(***************************************************************************)
(* What the screens of the app have in common: BaseViewController's        *)
(* displayIndicator and showAlert, the way a block of the main queue calls *)
(* their callbacks, and the tab bar that shows one of them at a time.      *)
(***************************************************************************)
EXTENDS RealtimeDatabase, ProgressHUD

CONSTANTS
  InitialDb  \* the database when the app is started

ASSUME ScreenAssumption == InitialDb \in [Paths -> Values]

VARIABLES
  tab,   \* the screen that the tab bar shows
  alert  \* is an alert presented?

sharedVars == <<serviceVars, hudVars, tab, alert>>

Running(kind) == mainQueue # <<>> /\ Head(mainQueue).kind = kind
RunningHandler(h) == Running("value") /\ Head(mainQueue).handler = h
RunningDone(p) == Running("done") /\ Head(mainQueue).write.path = p

\* displayIndicator(isShow: false) dispatches a block of the overlay.
HideBlock == <<Client!TaskBlock("hide")>>

ShowPending == \E i \in 1..Len(mainQueue) :
                 mainQueue[i] = Client!TaskBlock("show")

\* Mutant: the data is taken as it comes.
AnyData(data) == TRUE

\* fetchDataFromFirebase: data that is no string, as of a missing leaf, fails.
Readable(data) == data # Null

\* showAlert: nothing is presented over another alert, nor by a screen that
\* the tab bar does not show.
ShowAlert(screen) == alert' = (alert \/ tab = screen)

\* The completion of a write that says no more than whether it failed.
Written(screen, p, blocks) ==
  /\ RunningDone(p)
  /\ IF Head(mainQueue).ok THEN alert' = alert ELSE ShowAlert(screen)
  /\ Client!FireEvent(blocks)
  /\ UNCHANGED <<farVars, sharedQueue, hudVars, tab>>

\* A block of the overlay.
HudBlock ==
  /\ Running("task")
  /\ IF Head(mainQueue).task = "show" THEN HudSetup ELSE HudHide
  /\ Client!FireEvent(<<>>)
  /\ UNCHANGED <<farVars, sharedQueue, tab, alert>>

HideAnimationDone == HudHidden /\ UNCHANGED <<serviceVars, tab, alert>>

\* Mutant: the overlay lets touches through.
TouchableUnderOverlay(screen) == tab = screen /\ ~alert

\* The overlay and an alert keep touches from what is below them.
Touchable(screen) == tab = screen /\ ~viewBackground /\ ~alert

DismissAlert ==
  /\ alert /\ ~viewBackground
  /\ alert' = FALSE
  /\ UNCHANGED <<serviceVars, hudVars, tab>>

\* What goes on without any screen: the database client, the server, others.
Background == ServiceNext /\ UNCHANGED <<hudVars, tab, alert>>

\* Nobody counts the users of the overlay, and a dismissal that runs ahead of
\* its show is lost: all the same, once nothing is on its way and nothing
\* fades, the overlay is down, whatever was refused, missing or overtaken.
OverlayDown == Quiet /\ hideAnimations = 0 => ~viewBackground

SharedTypeOK == ServiceTypeOK /\ HudTypeOK /\ alert \in BOOLEAN
=============================================================================
