--------------------------- MODULE CountDownLatch ---------------------------
(***************************************************************************)
(* The latch of mutli-thread-study/doc/2/countDownLatch.cc.  Workers call  *)
(* countDOwn once each, waiters call wait and then getCount.               *)
(***************************************************************************)
EXTENDS Monitor, Integers, FiniteSets

CONSTANTS Workers,     \* threads that call countDOwn (the program has ten)
          Waiters,     \* threads that call wait (the program has one: main)
          Count        \* the latch's initial count (the program's is ten)

Threads == Workers \cup Waiters

ASSUME LatchAssumption ==
    /\ IsFiniteSet(Workers)
    /\ Workers \cap Waiters = {}
    /\ NoThread \notin Threads
    /\ Count \in Nat

VARIABLES count,       \* count_
          pc,          \* next statement of each thread
          seen         \* what getCount returned to a waiter; Count before

latch == <<owner, sleepers, count, pc, seen>>

Init == /\ MonitorInit
        /\ count = Count
        /\ pc = [t \in Threads |-> "lock"]
        /\ seen = [v \in Waiters |-> Count]

Goto(t, from, to) == pc[t] = from /\ pc' = [pc EXCEPT ![t] = to]

\* MutexLockGuard's constructor and destructor.
Lock(t, from, to) == /\ Goto(t, from, to)
                     /\ Acquire(t)
                     /\ UNCHANGED <<sleepers, count, seen>>

Unlock(t, from, to) == /\ Goto(t, from, to)
                       /\ Release
                       /\ UNCHANGED <<sleepers, count, seen>>

----------------------------------------------------------------------------
(* countDOwn()                                                             *)

CountDownLock(w) == Lock(w, "lock", "decrement")

\* Fault: the count goes the wrong way.
CountDownIncrement(w) ==
    /\ count' = count + 1
    /\ Goto(w, "decrement", "unlock")
    /\ UNCHANGED <<owner, sleepers, seen>>

\* --count_; if (count_ == 0): the thread that opens the latch notifies.
CountDownDecrement(w) ==
    /\ count' = count - 1
    /\ \/ count' = 0 /\ Goto(w, "decrement", "notifyAll")
       \/ count' # 0 /\ Goto(w, "decrement", "unlock")
    /\ UNCHANGED <<owner, sleepers, seen>>

\* Fault: pthread_cond_signal instead of broadcast.
CountDownNotifyOne(w) ==
    /\ Goto(w, "notifyAll", "unlock")
    /\ Signal
    /\ UNCHANGED <<owner, count, seen>>

CountDownNotifyAll(w) ==
    /\ Goto(w, "notifyAll", "unlock")
    /\ Broadcast
    /\ UNCHANGED <<owner, count, seen>>

CountDownUnlock(w) == Unlock(w, "unlock", "done")

CountDown(w) == \/ CountDownLock(w) \/ CountDownDecrement(w)
                \/ CountDownNotifyAll(w) \/ CountDownUnlock(w)

----------------------------------------------------------------------------
(* wait(), then getCount()                                                 *)

WaitLock(v) == Lock(v, "lock", "test")

\* Fault: while (count_ >= 0).
WaitTestNotNegative(v) ==
    /\ \/ count >= 0 /\ Goto(v, "test", "wait")
       \/ count < 0 /\ Goto(v, "test", "leave")
    /\ UNCHANGED <<owner, sleepers, count, seen>>

\* while (count_ > 0)
WaitTest(v) ==
    /\ \/ count > 0 /\ Goto(v, "test", "wait")
       \/ count <= 0 /\ Goto(v, "test", "leave")
    /\ UNCHANGED <<owner, sleepers, count, seen>>

WaitSleep(v) ==
    /\ Goto(v, "wait", "resume")
    /\ Sleep(v)
    /\ UNCHANGED <<count, seen>>

\* Fault: `if' instead of `while' around the wait.
WaitResumeOnce(v) ==
    /\ Goto(v, "resume", "leave")
    /\ Resume(v)
    /\ UNCHANGED <<sleepers, count, seen>>

WaitResume(v) ==
    /\ Goto(v, "resume", "test")
    /\ Resume(v)
    /\ UNCHANGED <<sleepers, count, seen>>

WaitUnlock(v) == Unlock(v, "leave", "passed")

GetCountLock(v) == Lock(v, "passed", "read")

GetCountRead(v) ==
    /\ Goto(v, "read", "return")
    /\ seen' = [seen EXCEPT ![v] = count]
    /\ UNCHANGED <<owner, sleepers, count>>

GetCountUnlock(v) == Unlock(v, "return", "done")

Wait(v) == \/ WaitLock(v) \/ WaitTest(v) \/ WaitSleep(v)
           \/ WaitResume(v) \/ WaitUnlock(v)

GetCount(v) == GetCountLock(v) \/ GetCountRead(v) \/ GetCountUnlock(v)

Spurious(v) == /\ WakeSpuriously(v)
               /\ UNCHANGED <<owner, count, pc, seen>>

----------------------------------------------------------------------------

Next == \/ \E w \in Workers : CountDown(w)
        \/ \E v \in Waiters : Wait(v) \/ GetCount(v) \/ Spurious(v)

\* A worker that keeps finding the mutex free now and then gets it (waiters
\* that wake spuriously for ever would otherwise keep it out); any other
\* thread that can run does run.
Fairness == /\ \A w \in Workers : SF_latch(CountDown(w))
            /\ \A v \in Waiters : WF_latch(Wait(v) \/ GetCount(v))

Safety == Init /\ [][Next]_latch

Spec == Safety /\ Fairness

----------------------------------------------------------------------------
(* Properties                                                              *)

WorkerPCs == {"lock", "decrement", "notifyAll", "unlock", "done"}
WaiterPCs == {"lock", "test", "wait", "resume", "leave",
              "passed", "read", "return", "done"}

\* Every variable has its type.
TypeOK == /\ MonitorTypeOK(Threads)
          /\ count \in Int /\ count <= Count
          /\ pc \in [Threads -> WorkerPCs \cup WaiterPCs]
          /\ \A w \in Workers : pc[w] \in WorkerPCs
          /\ \A v \in Waiters : pc[v] \in WaiterPCs
          /\ seen \in [Waiters -> Int]

Arrived == {w \in Workers : pc[w] \in {"notifyAll", "unlock", "done"}}
Through == {v \in Waiters : pc[v] \in {"leave", "passed", "read", "return", "done"}}

\* The count is exact whatever the interleaving, and a waiter that got past
\* wait() (countDownLatch.cc:134) got past it after the Count-th countDOwn; the
\* latch never closes again, so getCount never shows it closed afterwards.
OpenMeansCounted ==
    /\ count = Count - Cardinality(Arrived)
    /\ Through # {} => Cardinality(Arrived) >= Count
    /\ \A v \in Waiters : pc[v] \in {"return", "done"} => seen[v] <= 0

\* Only the countDOwn that reaches zero notifies (line 146), so that one
\* broadcast must find every sleeper: an open latch with a thread asleep in it
\* still has its broadcast to come.
NobodyLeftAsleep ==
    count <= 0 /\ sleepers # {} => \E w \in Workers : pc[w] = "notifyAll"

Abstract == INSTANCE Gate WITH Arrivals <- Cardinality(Workers),
                               arrived <- Cardinality(Arrived),
                               through <- Through

\* The latch implements the gate: no waiter passes early, every waiter passes.
ImplementsGate == Abstract!Spec
=============================================================================
