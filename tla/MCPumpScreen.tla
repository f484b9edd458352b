---------------------------- MODULE MCPumpScreen ----------------------------
(* Small instances of the pump's screen.                                 *)
EXTENDS PumpScreen, TLC

CONSTANTS s1, s2, s3, seconds

MCPaths == {"pumpSpeed", "timeoutPump"}
MCHandlers == {"speed"}
MCPathOf == [speed |-> "pumpSpeed"]
MCValues == {Null, seconds} \cup Speeds

\* The control screen of another phone resets the speed.
SharedPaths == {"pumpSpeed"}
SharedValues == [pumpSpeed |-> {Null, s1}]

Running2 == [pumpSpeed |-> s2, timeoutPump |-> Null]
=============================================================================
