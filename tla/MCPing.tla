------------------------------- MODULE MCPing -------------------------------
(* A TLC instance of Ping: words of three bits, seconds of two ticks.      *)
EXTENDS Ping

Stranger(type, id, len) == [type |-> type, id |-> id, seq |-> 0, len |-> len,
                            tv |-> [sec |-> 7, usec |-> 1]]

MCForeign == {Stranger("reply", 5, 64), Stranger("reply", 7, 12), Stranger("other", 7, 64)}
=============================================================================
