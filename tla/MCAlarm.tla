------------------------------ MODULE MCAlarm ------------------------------
(* A short clock for Alarm. *)
EXTENDS Alarm

MCEnough == <<3, 4>>
=============================================================================
