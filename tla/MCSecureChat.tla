----------------------------- MODULE MCSecureChat -----------------------------
(* Small instances of signed chat for TLC.                                 *)
EXTENDS SecureChat
=============================================================================
