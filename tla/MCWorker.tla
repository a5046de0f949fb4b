------------------------------ MODULE MCWorker ------------------------------
(***************************************************************************)
(* Two cycles for TLC, a quick one and the monitor.  In units of 10 s the  *)
(* dispatcher runs every unit and the floor is 6: the code's own numbers.  *)
(* The monitor's minute is scaled to 3 units.                              *)
(***************************************************************************)
EXTENDS Worker

Periods == [dispatcher |-> 1, monitor |-> 3]
=============================================================================
