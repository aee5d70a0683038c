-------------------------------- MODULE Gate --------------------------------
(***************************************************************************)
(* What a count-down latch promises: nobody passes before Count arrivals,  *)
(* and once they happened everybody passes.                                *)
(***************************************************************************)
EXTENDS Naturals

CONSTANTS Arrivals,    \* how many arrivals there will be
          Waiters,     \* who wants to pass
          Count        \* how many arrivals open the gate

VARIABLES arrived,     \* arrivals so far
          through      \* the waiters that passed

gate == <<arrived, through>>

Init == arrived = 0 /\ through = {}

Arrive == /\ arrived < Arrivals
          /\ arrived' = arrived + 1
          /\ UNCHANGED through

Pass(v) == /\ arrived >= Count
           /\ v \notin through
           /\ through' = through \cup {v}
           /\ UNCHANGED arrived

Next == Arrive \/ \E v \in Waiters : Pass(v)

Safety == Init /\ [][Next]_gate

Spec == /\ Safety
        /\ WF_gate(Arrive)
        /\ \A v \in Waiters : WF_gate(Pass(v))
=============================================================================
