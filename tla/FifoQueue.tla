----------------------------- MODULE FifoQueue -----------------------------
(***************************************************************************)
(* What a blocking queue promises, whatever locks it is built from: items  *)
(* are handed over one at a time, each exactly once, in the order they     *)
(* were put in, and every item put in is handed over eventually.           *)
(***************************************************************************)
EXTENDS Sequences, Naturals

CONSTANT Items

VARIABLES produced,    \* all items ever put in, in order
          taken        \* all items ever handed to a consumer, in order

fifo == <<produced, taken>>

Init == produced = <<>> /\ taken = <<>>

Put == /\ \E x \in Items : produced' = Append(produced, x)
       /\ UNCHANGED taken

Get == /\ Len(taken) < Len(produced)
       /\ taken' = Append(taken, produced[Len(taken) + 1])
       /\ UNCHANGED produced

Next == Put \/ Get

Safety == Init /\ [][Next]_fifo

Spec == Safety /\ WF_fifo(Get)
=============================================================================
