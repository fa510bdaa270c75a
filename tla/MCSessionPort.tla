---------------------------- MODULE MCSessionPort ----------------------------
(* Small instances of the session port for TLC.                            *)
EXTENDS SessionPort
=============================================================================
