------------------------------- MODULE MCStream -------------------------------
(* The streamed response on a small instance (MCStream.cfg).                  *)
EXTENDS Stream
===============================================================================
