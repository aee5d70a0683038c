-------------------------- MODULE MCSafeObservable --------------------------
(* A TLC instance of SafeObservable.                                       *)
EXTENDS SafeObservable

CONSTANTS t1, t2, t3

MCThreads == {t1, t2, t3}
=============================================================================
