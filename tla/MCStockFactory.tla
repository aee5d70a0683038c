--------------------------- MODULE MCStockFactory ---------------------------
(* A TLC instance of StockFactory.                                          *)
EXTENDS StockFactory

CONSTANTS t1, t2, t3, k1, k2

MCThreads == {t1, t2, t3}
MCKeys == {k1, k2}
=============================================================================
