----------------------------- MODULE WorkModes -----------------------------
(***************************************************************************)
(* The garden's work modes, which the control screen observes and the      *)
(* settings screen changes: by its buttons, by the app, or by itself.      *)
(***************************************************************************)
EXTENDS Screen

CONSTANTS
  Button, App, AutoMode  \* "1", "2" and "3"

Modes == {Button, App, AutoMode}
=============================================================================
