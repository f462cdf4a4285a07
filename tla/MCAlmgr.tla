------------------------------ MODULE MCAlmgr ------------------------------
(* Instance of Almgr for TLC: a timer with a constant duration and one     *)
(* whose duration doubles.                                                 *)
EXTENDS Almgr

MCDuration(key, k) == IF key = "TIMER_A" THEN 2 ^ k ELSE 1
=============================================================================
