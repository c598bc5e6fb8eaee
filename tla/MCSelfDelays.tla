---------------------------- MODULE MCSelfDelays ----------------------------
(* The constants are plain numbers, given in the .cfg file.                 *)
EXTENDS SelfDelays
=============================================================================
