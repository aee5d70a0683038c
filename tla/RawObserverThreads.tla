------------------------- MODULE RawObserverThreads -------------------------
(***************************************************************************)
(* demoOne/test_thread.cc: every thread makes a Foo, has it observe the    *)
(* shared subject, notifies, deletes it and notifies again, Sum times.     *)
(***************************************************************************)
EXTENDS RawObservable

CONSTANT Sum           \* the global sum: rounds of each thread

VARIABLES next,        \* the statement of a thread's loop body, 1 to 5
          mine,        \* its local p
          count        \* its local count

locals == <<next, mine, count>>

ThreadsInit == /\ Init
               /\ next = [t \in Threads |-> 1]
               /\ mine = [t \in Threads |-> NoFoo]
               /\ count = [t \in Threads |-> 0]

Then(t, s) == /\ next[t] = s
              /\ count[t] < Sum
              /\ next' = [next EXCEPT ![t] = (s % 5) + 1]

\* One iteration: new; observe; notify; delete; notify and count++.
Body(t) == \/ \E f \in Foos : /\ Then(t, 1) /\ New(t, f)
                              /\ mine' = [mine EXCEPT ![t] = f]
                              /\ UNCHANGED count
           \/ /\ Then(t, 2) /\ Observe(t, mine[t])
              /\ UNCHANGED <<mine, count>>
           \/ /\ Then(t, 3) /\ Notify(t)
              /\ UNCHANGED <<mine, count>>
           \/ /\ Then(t, 4) /\ Delete(t, mine[t])
              /\ UNCHANGED <<mine, count>>
           \/ /\ Then(t, 5) /\ Notify(t)
              /\ count' = [count EXCEPT ![t] = @ + 1]
              /\ UNCHANGED mine

ThreadsNext == \E t \in Threads : \/ Body(t)
                                  \/ Operation(t) /\ UNCHANGED locals

ThreadsSpec == ThreadsInit /\ [][ThreadsNext]_<<vars, locals>>

\* demoOne/readme.md:19: with sum = 1 the program of three threads exits
\* normally, that is, without touching an object that is gone.
ExitsNormally == fault = {}
=============================================================================
