----------------------------- MODULE PumpScreen -----------------------------
(***************************************************************************)
(* The pump's screen (LampViewController): its time limit and its speed,   *)
(* written together by one button.  The speed is shown by a slider that    *)
(* both the user and the database move.  The countdown of the limit is     *)
(* modelled by Countdown; here the limit is a value, or there is none, or  *)
(* its time is over.                                                       *)
(***************************************************************************)
EXTENDS Screen

CONSTANTS
  Speeds,     \* the speeds of the pump
  Slowest,    \* the slider's first value
  Limits,     \* the seconds that a time in the field may come to
  None, Over, \* nothing in the field; a time that is over
  MaxMoves,   \* bound: the slider moved
  MaxPresses  \* bound: the button pressed

ASSUME PumpScreenAssumption ==
  /\ {"pumpSpeed", "timeoutPump"} \subseteq Paths
  /\ "speed" \in Handlers /\ PathOf["speed"] = "pumpSpeed"
  /\ Speeds \cup Limits \subseteq Values \ {Null} /\ Slowest \in Speeds
  /\ None \notin Limits /\ Over \notin Limits
  /\ MaxMoves \in Nat /\ MaxPresses \in Nat

VARIABLES
  pumpLoaded,      \* has viewDidLoad run?
  pumpModeSlider,  \* where the slider stands
  unsent,          \* has the user moved it since it was written or set?
  moves, presses

pumpVars == <<pumpLoaded, pumpModeSlider, unsent, moves, presses>>
pumpScreenVars == <<sharedVars, pumpVars>>

PumpScreenInit ==
  /\ ServiceInit(InitialDb)
  /\ HudInit
  /\ tab = "pump"
  /\ alert = FALSE
  /\ pumpLoaded = FALSE
  /\ pumpModeSlider = Slowest
  /\ unsent = FALSE
  /\ moves = 0
  /\ presses = 0

-----------------------------------------------------------------------------
\* initDataPumpSpeed.
PumpViewDidLoad ==
  /\ ~pumpLoaded
  /\ pumpLoaded' = TRUE
  /\ sharedQueue' = Append(sharedQueue, ObserveCall("speed"))
  /\ UNCHANGED <<clientVars, farVars, hudVars, tab, alert, pumpModeSlider,
                 unsent, moves, presses>>

\* Mutant: a slider that the user has moved is left where it is.
SpeedEventIfUntouched ==
  /\ RunningHandler("speed")
  /\ LET data == Head(mainQueue).val
     IN IF Readable(data)
        THEN /\ pumpModeSlider' = IF unsent THEN pumpModeSlider ELSE data
             /\ unsent' = FALSE /\ alert' = alert
        ELSE ShowAlert("pump") /\ UNCHANGED <<pumpModeSlider, unsent>>
  /\ Client!FireEvent(<<>>)
  /\ UNCHANGED <<farVars, sharedQueue, hudVars, tab, pumpLoaded, moves, presses>>

\* The callback of the speed: the slider follows, wherever the user left it.
SpeedEvent ==
  /\ RunningHandler("speed")
  /\ LET data == Head(mainQueue).val
     IN IF Readable(data)
        THEN pumpModeSlider' = data /\ unsent' = FALSE /\ alert' = alert
        ELSE ShowAlert("pump") /\ UNCHANGED <<pumpModeSlider, unsent>>
  /\ Client!FireEvent(<<>>)
  /\ UNCHANGED <<farVars, sharedQueue, hudVars, tab, pumpLoaded, moves, presses>>

\* valueChangedSlider.
MoveSlider(speed) ==
  /\ pumpLoaded /\ Touchable("pump")
  /\ moves < MaxMoves /\ moves' = moves + 1
  /\ pumpModeSlider' = speed
  /\ unsent' = TRUE
  /\ UNCHANGED <<serviceVars, hudVars, tab, alert, pumpLoaded, presses>>

\* Mutant: the speed first.
ButtonCallsReversed(limit) ==
  IF limit = Over THEN <<>>
  ELSE <<SetCall("pumpSpeed", pumpModeSlider)>>
         \o (IF limit = None THEN <<>> ELSE <<SetCall("timeoutPump", limit)>>)

\* touchUpInsidePumpConfigButton: the limit, if there is one, and the speed;
\* neither of them if the limit is over.
ButtonCalls(limit) ==
  IF limit = Over THEN <<>>
  ELSE (IF limit = None THEN <<>> ELSE <<SetCall("timeoutPump", limit)>>)
         \o <<SetCall("pumpSpeed", pumpModeSlider)>>

Press(limit) ==
  /\ pumpLoaded /\ Touchable("pump")
  /\ presses < MaxPresses /\ presses' = presses + 1
  /\ sharedQueue' = sharedQueue \o ButtonCalls(limit)
  /\ IF limit = Over THEN ShowAlert("pump") /\ unsent' = unsent
     ELSE unsent' = FALSE /\ alert' = alert
  /\ UNCHANGED <<clientVars, farVars, hudVars, tab, pumpLoaded, pumpModeSlider, moves>>

\* The completion of either write shows an alert, whatever the answer; the
\* second one is dropped if the first is still up.
WriteAnswered(p) ==
  /\ RunningDone(p)
  /\ ShowAlert("pump")
  /\ Client!FireEvent(<<>>)
  /\ UNCHANGED <<farVars, sharedQueue, hudVars, tab, pumpVars>>

PumpMainThread ==
  SpeedEvent \/ WriteAnswered("pumpSpeed") \/ WriteAnswered("timeoutPump")

PumpScreenNext ==
  \/ PumpViewDidLoad
  \/ PumpMainThread
  \/ \E speed \in Speeds : MoveSlider(speed)
  \/ \E limit \in Limits \cup {None, Over} : Press(limit)
  \/ (DismissAlert \/ Background) /\ UNCHANGED pumpVars

PumpScreenSpec ==
  /\ PumpScreenInit /\ [][PumpScreenNext]_pumpScreenVars
  /\ ServiceFairness /\ WF_pumpScreenVars(PumpMainThread)

-----------------------------------------------------------------------------
\* Once nothing is on its way, the slider stands at the pump's speed, unless
\* the user has moved it and not pressed the button since: also after refusals,
\* writes of others, and echoes of earlier presses that moved it back.
SliderIsSpeed ==
  pumpLoaded /\ Quiet /\ ~unsent /\ db["pumpSpeed"] # Null
    => pumpModeSlider = db["pumpSpeed"]

\* The two writes of a press are handled in order and with nothing in between:
\* right behind a limit that is on its way there is a speed, or else one is the
\* next call to be run.  This is said of the order alone: no answer is waited
\* for, so that either of the two may be refused and the other accepted.
SpeedFollowsLimit ==
  \A i \in 1..Len(toServer) :
    toServer[i].msg = "put" /\ toServer[i].path = "timeoutPump" =>
      IF i < Len(toServer)
      THEN toServer[i + 1].msg = "put" /\ toServer[i + 1].path = "pumpSpeed"
      ELSE /\ sharedQueue # <<>>
           /\ Head(sharedQueue).call = "set" /\ Head(sharedQueue).path = "pumpSpeed"
=============================================================================
