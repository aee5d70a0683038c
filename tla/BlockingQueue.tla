--------------------------- MODULE BlockingQueue ---------------------------
(***************************************************************************)
(* The blocking queue of mutli-thread-study/doc/2/queue.cc: a deque, one   *)
(* mutex and one condition.  main() enqueues for ever, every thread that   *)
(* runs threadProc dequeues for ever.  A thread's pc names the statement   *)
(* it executes next.                                                       *)
(***************************************************************************)
EXTENDS Monitor, Sequences, Naturals, FiniteSets

CONSTANTS Producers,   \* threads that call enqueue (the program has one: main)
          Consumers,   \* threads that run threadProc (the program has five)
          Items,       \* the values enqueued
          Garbage,     \* what front() yields on an empty deque
          MaxItems     \* bound: how many items the producers enqueue

Threads == Producers \cup Consumers

ASSUME ThreadsAssumption ==
    /\ IsFiniteSet(Producers) /\ IsFiniteSet(Consumers)
    /\ Producers \cap Consumers = {}
    /\ NoThread \notin Threads
    /\ Garbage \notin Items
    /\ MaxItems \in Nat

VARIABLES queue,       \* the deque
          pc,          \* next statement of each thread
          top,         \* dequeue's local variable, per consumer
          produced,    \* history: the items pushed, in order
          taken        \* history: the items popped, in order

vars == <<owner, sleepers, queue, pc, top, produced, taken>>

Init == /\ MonitorInit
        /\ queue = <<>>
        /\ pc = [t \in Threads |-> "lock"]
        /\ top = [c \in Consumers |-> Garbage]
        /\ produced = <<>>
        /\ taken = <<>>

Goto(t, from, to) == pc[t] = from /\ pc' = [pc EXCEPT ![t] = to]

----------------------------------------------------------------------------
(* enqueue(x)                                                              *)

EnqueueLock(p) ==
    /\ Goto(p, "lock", "push")
    /\ Acquire(p)
    /\ Len(produced) < MaxItems
    /\ UNCHANGED <<sleepers, queue, top, produced, taken>>

EnqueuePush(p, x) ==
    /\ Goto(p, "push", "notify")
    /\ queue' = Append(queue, x)
    /\ produced' = Append(produced, x)
    /\ UNCHANGED <<owner, sleepers, top, taken>>

\* Fault: notify only when the deque was empty before.
EnqueueNotifyFirst(p) ==
    /\ Goto(p, "notify", "unlock")
    /\ IF Len(queue) = 1 THEN Signal ELSE UNCHANGED sleepers
    /\ UNCHANGED <<owner, queue, top, produced, taken>>

\* Fault: no notify at all.
EnqueueNotifyNobody(p) ==
    /\ Goto(p, "notify", "unlock")
    /\ UNCHANGED <<owner, sleepers, queue, top, produced, taken>>

EnqueueNotify(p) ==
    /\ Goto(p, "notify", "unlock")
    /\ Signal
    /\ UNCHANGED <<owner, queue, top, produced, taken>>

\* Fault: a path that leaves without unLock().
UnlockForgotten(t) ==
    /\ Goto(t, "unlock", "lock")
    /\ UNCHANGED <<owner, sleepers, queue, top, produced, taken>>

Unlock(t) ==
    /\ Goto(t, "unlock", "lock")
    /\ Release
    /\ UNCHANGED <<sleepers, queue, top, produced, taken>>

----------------------------------------------------------------------------
(* dequeue()                                                               *)

DequeueLock(c) ==
    /\ Goto(c, "lock", "test")
    /\ Acquire(c)
    /\ UNCHANGED <<sleepers, queue, top, produced, taken>>

\* while (queue.empty())
DequeueTest(c) ==
    /\ \/ queue = <<>> /\ Goto(c, "test", "wait")
       \/ queue # <<>> /\ Goto(c, "test", "front")
    /\ UNCHANGED <<owner, sleepers, queue, top, produced, taken>>

\* cond.wait() up to the moment the thread sleeps ...
DequeueSleep(c) ==
    /\ Goto(c, "wait", "resume")
    /\ Sleep(c)
    /\ UNCHANGED <<queue, top, produced, taken>>

\* Fault: `if' instead of `while' around the wait.
DequeueResumeOnce(c) ==
    /\ Goto(c, "resume", "front")
    /\ Resume(c)
    /\ UNCHANGED <<sleepers, queue, top, produced, taken>>

\* ... and from its wakeup to its return, to the test of the loop.
DequeueResume(c) ==
    /\ Goto(c, "resume", "test")
    /\ Resume(c)
    /\ UNCHANGED <<sleepers, queue, top, produced, taken>>

\* front() of an empty deque reads storage that holds no item.
DequeueFront(c) ==
    /\ Goto(c, "front", "pop")
    /\ top' = [top EXCEPT ![c] = IF queue = <<>> THEN Garbage ELSE Head(queue)]
    /\ UNCHANGED <<owner, sleepers, queue, produced, taken>>

\* Fault: pop_back() instead of pop_front().
DequeuePopBack(c) ==
    /\ Goto(c, "pop", "unlock")
    /\ queue' = IF queue = <<>> THEN queue ELSE SubSeq(queue, 1, Len(queue) - 1)
    /\ taken' = Append(taken, top[c])
    /\ UNCHANGED <<owner, sleepers, top, produced>>

DequeuePop(c) ==
    /\ Goto(c, "pop", "unlock")
    /\ queue' = IF queue = <<>> THEN queue ELSE Tail(queue)
    /\ taken' = Append(taken, top[c])
    /\ UNCHANGED <<owner, sleepers, top, produced>>

\* The C library wakes a consumer although nobody signalled it.
Spurious(c) ==
    /\ WakeSpuriously(c)
    /\ UNCHANGED <<owner, queue, pc, top, produced, taken>>

----------------------------------------------------------------------------

Enqueue(p) == \/ EnqueueLock(p)
              \/ \E x \in Items : EnqueuePush(p, x)
              \/ EnqueueNotify(p)
              \/ Unlock(p)

Dequeue(c) == \/ DequeueLock(c) \/ DequeueTest(c) \/ DequeueSleep(c)
              \/ DequeueResume(c) \/ DequeueFront(c) \/ DequeuePop(c)
              \/ Unlock(c)

Next == \/ \E p \in Producers : Enqueue(p)
        \/ \E c \in Consumers : Dequeue(c) \/ Spurious(c)

\* A thread that can run does run; a spurious wakeup is never owed.
Fairness == /\ \A p \in Producers : WF_vars(Enqueue(p))
            /\ \A c \in Consumers : WF_vars(Dequeue(c))

Safety == Init /\ [][Next]_vars

Spec == Safety /\ Fairness

----------------------------------------------------------------------------
(* Properties                                                              *)

PCs == {"lock", "push", "notify", "unlock",
        "test", "wait", "resume", "front", "pop"}

\* Every variable has its type; a producer never runs dequeue's statements
\* nor a consumer enqueue's.
TypeOK == /\ MonitorTypeOK(Threads)
          /\ queue \in Seq(Items)
          /\ pc \in [Threads -> PCs]
          /\ \A p \in Producers : pc[p] \in {"lock", "push", "notify", "unlock"}
          /\ \A c \in Consumers : pc[c] \notin {"push", "notify"}
          /\ top \in [Consumers -> Items \cup {Garbage}]
          /\ produced \in Seq(Items)
          /\ taken \in Seq(Items)

Inside(t) == pc[t] \notin {"lock", "resume"}

\* A thread between its lock() and its unLock() (queue.cc:128-135, 141-144)
\* owns the mutex, and nobody else does; it gives it up while it waits.
MutualExclusion == \A t \in Threads : Inside(t) <=> owner = t

\* Items leave the deque in the order they entered, none twice, none lost and
\* none invented, although front() and pop_front() are two calls.
FirstInFirstOut == taken \o queue = produced

\* The producers that pushed an item and have not called notify() yet.
Notifiers == {p \in Producers : pc[p] = "notify"}

\* No wakeup is lost: when a consumer sleeps, the items in the deque are no
\* more than the consumers awake to take them and the notify() still owed by
\* the thread that has just pushed one.
NoLostWakeup ==
    sleepers # {} =>
        Len(queue) <= Cardinality(Consumers \ sleepers) + Cardinality(Notifiers)

Abstract == INSTANCE FifoQueue

\* The queue implements the abstract one: every push is a Put, every pop the
\* Get that is due, every other step a stutter, and no item stays for ever.
ImplementsFifoQueue == Abstract!Spec
=============================================================================
