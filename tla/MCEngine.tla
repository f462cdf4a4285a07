------------------------------ MODULE MCEngine ------------------------------
(***************************************************************************)
(* Instances of Engine for TLC; the other constants are in the .cfg files. *)
(***************************************************************************)
EXTENDS Engine, TLC
CONSTANTS c1, c2, m1, m2, m3

\* One parser per queue, as SIPENGINE, SL_CC, TRNSPRT, DAO and ALMGR are built.
OnePerQueue == c1 :> 0 @@ c2 :> 1
\* Two messages of one call, and one of another.
Moduli == m1 :> 2 @@ m2 :> 2 @@ m3 :> 1
\* Commands that name a queue that exists: one queue, both, and a negative
\* number, which atoi reads and the remainder forgives.
SafeTunings == {-2, 1, 2}
=============================================================================
