------------------------------ MODULE MCComap ------------------------------
(***************************************************************************)
(* Instances of Comap for TLC; the constants are in the .cfg files.        *)
(***************************************************************************)
EXTENDS Comap, TLC

\* Used for safety properties only.
Symmetry ==
    Permutations(CallIds) \cup Permutations(Addr)
        \cup Permutations(Workers) \cup Permutations(Keys)
=============================================================================
