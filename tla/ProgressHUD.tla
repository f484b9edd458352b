---------------------------- MODULE ProgressHUD ----------------------------
(***************************************************************************)
(* The progress overlay of Common/ProgressHUB.swift, a single view shared  *)
(* by all screens.  It does not count its users: one show is undone by the *)
(* first dismiss, whoever made it.  Calls of show and dismiss dispatch a   *)
(* block to the main queue; the operators here are what those blocks do.   *)
(* While the background view is up it takes every touch of the screen.     *)
(***************************************************************************)
EXTENDS Naturals

VARIABLES
  alpha,           \* alpha of the overlay, 0 or 1
  viewBackground,  \* is the background view in the window?
  hideAnimations   \* hide animations that have not completed

hudVars == <<alpha, viewBackground, hideAnimations>>

HudInit == alpha = 0 /\ viewBackground = FALSE /\ hideAnimations = 0

\* setup, then hudShow: an overlay that is fading out is left fading out.
HudSetup ==
  /\ viewBackground' = TRUE
  /\ alpha' = 1
  /\ UNCHANGED hideAnimations

\* hudHide: nothing to do unless alpha is 1; alpha stays 1 until the
\* animation completes.
HudHide ==
  /\ hideAnimations' = IF alpha = 1 THEN hideAnimations + 1 ELSE hideAnimations
  /\ UNCHANGED <<alpha, viewBackground>>

\* Mutant: the completion leaves the background view in the window.
HudHiddenKeepingBackground ==
  /\ hideAnimations > 0
  /\ hideAnimations' = hideAnimations - 1
  /\ alpha' = 0
  /\ UNCHANGED viewBackground

\* The completion of a hide animation: hudDestroy, alpha = 0.
HudHidden ==
  /\ hideAnimations > 0
  /\ hideAnimations' = hideAnimations - 1
  /\ viewBackground' = FALSE
  /\ alpha' = 0

HudTypeOK == /\ alpha \in {0, 1} /\ viewBackground \in BOOLEAN
             /\ hideAnimations \in Nat
=============================================================================
