--------------------------- MODULE MCConfigScreen ---------------------------
(* Small instances of the control screen.                                *)
EXTENDS ConfigScreen, TLC

CONSTANTS bulb, pump, Fast

MCPaths == {"CHEDO", "TINHIEUDONGCO", "pumpSpeed"}
MCHandlers == {"mode", "engine"}
MCPathOf == [mode |-> "CHEDO", engine |-> "TINHIEUDONGCO"]
MCTasks == {"show", "hide"}
MCRows == {bulb, pump}
MCValues == {Null, Button, App, AutoMode, One, Fast} \cup {on : on \in SUBSET Rows}

\* Another phone changes the mode, or a wall button an engine.
SharedPaths == {"CHEDO", "TINHIEUDONGCO"}
SharedValues == [CHEDO |-> {Null, Button, App}, TINHIEUDONGCO |-> {Null, {bulb}}]
NoPaths == {}
NoValues == [p \in {} |-> {}]

AppModeEnginesOff ==
  [CHEDO |-> App, TINHIEUDONGCO |-> {}, pumpSpeed |-> Fast]
AppModePumpOn ==
  [CHEDO |-> App, TINHIEUDONGCO |-> {pump}, pumpSpeed |-> Fast]

Accepted == {TRUE}
=============================================================================
