------------------------------ MODULE MCGarden ------------------------------
(* Small instances of the app.                                            *)
EXTENDS Garden, TLC

CONSTANTS d, t1

MCPaths == {"DULIEUCAMBIEN", "CHEDO", "TINHIEUDONGCO", "pumpSpeed"}
MCHandlers == {"sensors", "rain", "mode", "engine", "setting"}
MCPathOf == [sensors |-> "DULIEUCAMBIEN", rain |-> "DULIEUCAMBIEN",
             mode |-> "CHEDO", setting |-> "CHEDO", engine |-> "TINHIEUDONGCO"]
MCTasks == {"show", "hide"}
MCValues == {Null, d, Button, App, AutoMode, One, Zeros, t1} \cup {on : on \in SUBSET Rows}
NoThresholds == <<>>

\* The controller of a new garden has not reported the sensors yet.
SharedPaths == {"DULIEUCAMBIEN"}
SharedValues == [DULIEUCAMBIEN |-> {d}]

NewGarden == [DULIEUCAMBIEN |-> Null, CHEDO |-> Button, TINHIEUDONGCO |-> {Pump},
              pumpSpeed |-> One]
=============================================================================
