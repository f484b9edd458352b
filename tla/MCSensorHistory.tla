-------------------------- MODULE MCSensorHistory --------------------------
(* A small instance: two numbers and a reading that is none.              *)
EXTENDS SensorHistory

CONSTANTS r1, r2, bad

MCReadings == {r1, r2, bad}
MCPlottable == {r1, r2}
=============================================================================
