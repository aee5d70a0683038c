------------------------ MODULE MCRawObserverThreads ------------------------
(* A TLC instance of RawObserverThreads.                                   *)
EXTENDS RawObserverThreads

CONSTANTS t1, t2, t3, p1, p2, p3

MCThreads == {t1, t2, t3}
MCFoos == {p1, p2, p3}
=============================================================================
