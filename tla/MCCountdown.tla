---------------------------- MODULE MCCountdown ----------------------------
(* Small instances of the countdown: a day of a few seconds.             *)
EXTENDS Countdown, TLC
=============================================================================
