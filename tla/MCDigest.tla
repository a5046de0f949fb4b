------------------------------ MODULE MCDigest ------------------------------
(***************************************************************************)
(* Two users and two weeks for TLC.  The western zone reaches its weekly   *)
(* moment a day after the eastern one; the first user's quiet hours hold   *)
(* a moment back for a day.                                                *)
(***************************************************************************)
EXTENDS Digest

EastAndWest == [east |-> {1, 8}, west |-> {2, 9}]
FirstSleepsLong == [u \in Users |-> [m \in 0 .. 20 |-> IF u = 1 /\ m \in {8, 9} THEN 10 ELSE m]]
WeeksBusy == [u \in Users |-> IF u = 1 THEN {1, 2} ELSE {1, 8, 9}]
=============================================================================
