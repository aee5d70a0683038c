------------------------------ MODULE Monitor ------------------------------
(***************************************************************************)
(* A mutex with one condition variable, as the demos wrap it in Condition. *)
(* Again the primitive is the C library's, and this is what the wrappers   *)
(* rely on:                                                                *)
(*                                                                         *)
(*   - pthread_cond_wait releases the mutex and joins the sleepers in one  *)
(*     step, and takes the mutex again before it returns;                  *)
(*   - pthread_cond_signal wakes AT LEAST one sleeper, and is lost when    *)
(*     nobody sleeps; pthread_cond_broadcast wakes them all;               *)
(*   - a sleeper may also wake for no reason (a spurious wakeup).          *)
(***************************************************************************)
EXTENDS Mutex

VARIABLE sleepers      \* the threads asleep inside pthread_cond_wait

MonitorInit == owner = NoThread /\ sleepers = {}

MonitorTypeOK(T) == owner \in T \cup {NoThread} /\ sleepers \in SUBSET T

\* The first half of pthread_cond_wait: release the mutex and fall asleep.
Sleep(t) == Release /\ sleepers' = sleepers \cup {t}

\* The second half: thread t was woken and takes the mutex again.
Resume(t) == t \notin sleepers /\ Acquire(t)

\* pthread_cond_signal wakes one sleeper or several.
Signal == /\ sleepers' \in SUBSET sleepers
          /\ sleepers # {} => sleepers' # sleepers

\* pthread_cond_broadcast.
Broadcast == sleepers' = {}

\* A wakeup that no call caused.
WakeSpuriously(t) == t \in sleepers /\ sleepers' = sleepers \ {t}
=============================================================================
