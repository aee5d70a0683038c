---------------------------- MODULE MCPollServer ----------------------------
(* A TLC instance of PollServer.                                           *)
EXTENDS PollServer

CONSTANTS c1, c2, c3

MCClients == {c1, c2, c3}
MCRudeClients == {c3}
MCMaxChunks == [c \in MCClients |-> IF c = c2 THEN 0 ELSE 2]
=============================================================================
