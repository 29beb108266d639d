------------------------------ MODULE MCRuntime -------------------------------
(* Small instances of Runtime for TLC.                                        *)
EXTENDS Runtime

\* the last one wraps to 701, which is no HTTP status
MCResults == {-1, 0, 404, 2^IntBits + 701}
===============================================================================
