-------------------------- MODULE MCCountDownLatch --------------------------
(* TLC instances of CountDownLatch.                                        *)
EXTENDS CountDownLatch

CONSTANTS w1, w2, w3, v1, v2

MCWorkers == {w1, w2, w3}
MCWaiters == {v1, v2}
=============================================================================
