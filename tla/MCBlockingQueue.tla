-------------------------- MODULE MCBlockingQueue --------------------------
(* A TLC instance of BlockingQueue.                                        *)
EXTENDS BlockingQueue

CONSTANTS m, n, c1, c2, c3, x, y

MCProducers == {m, n}
MCConsumers == {c1, c2, c3}
MCItems == {x, y}
=============================================================================
