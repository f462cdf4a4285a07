------------------------------- MODULE MCSlCo -------------------------------
(* Instances of SlCo for TLC; the constants are in the .cfg files.         *)
EXTENDS SlCo
=============================================================================
