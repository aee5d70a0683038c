--------------------------- MODULE MCSignalDemos ---------------------------
(* A TLC instance of SignalDemos.                                          *)
EXTENDS SignalDemos
=============================================================================
