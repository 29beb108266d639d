-------------------------------- MODULE MCPoll --------------------------------
(* Small instances of Poll for TLC.                                           *)
EXTENDS Poll

MCFds == 3 .. 5   \* 0 to 2 are the standard streams
===============================================================================
