-------------------------- MODULE MCSpeedtestPool --------------------------
(* Instances of SpeedtestPool for TLC. *)
EXTENDS SpeedtestPool
=============================================================================
