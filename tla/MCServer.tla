------------------------------ MODULE MCServer ------------------------------
(* Instance of Server for TLC; the constants are in the .cfg file.         *)
EXTENDS Server
=============================================================================
