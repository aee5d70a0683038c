--------------------------- MODULE MCEchoSession ---------------------------
(* A TLC instance of EchoSession.                                           *)
EXTENDS EchoSession
=============================================================================
