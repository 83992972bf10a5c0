------------------------------ MODULE MCTimers ------------------------------
(* Instances of Timers for TLC. *)
EXTENDS Timers, TLC
=============================================================================
