---------------------------- MODULE MCEpochCommit ---------------------------
(* The constants are plain numbers, given in the .cfg files.                *)
EXTENDS EpochChain
=============================================================================
