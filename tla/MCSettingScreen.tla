--------------------------- MODULE MCSettingScreen ---------------------------
(* Small instances of the settings screen, with one threshold.            *)
EXTENDS SettingScreen, TLC

CONSTANTS t1, t2, Strange

OneThreshold == <<"thresholdTemp">>
MCPaths == {"CHEDO"} \cup ThresholdPaths
MCHandlers == {"setting"}
MCPathOf == [setting |-> "CHEDO"]
MCTasks == {"show", "hide"}
MCValues == {Null, Button, App, AutoMode, Strange, t1, t2, Zeros}

\* Another phone sets the automatic mode.
SharedPaths == {"CHEDO"}
SharedValues == [CHEDO |-> {AutoMode}]

\* At the start the mode is no number.
StrangeMode == [p \in MCPaths |-> IF p = "CHEDO" THEN Strange ELSE t1]
=============================================================================
