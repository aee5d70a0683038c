---------------------------- MODULE MCForkServer ----------------------------
(* TLC instances of ForkServer.                                            *)
EXTENDS ForkServer

CONSTANTS c1, c2, c3

MCClients == {c1, c2, c3}
=============================================================================
