------------------------ MODULE BlockingQueueProofs ------------------------
(***************************************************************************)
(* Safety of BlockingQueue for any number of producers and consumers: type *)
(* correctness, mutual exclusion, order, no lost wakeup, and the safety    *)
(* part of the refinement of FifoQueue.                                    *)
(***************************************************************************)
EXTENDS BlockingQueue, SequenceTheorems, FiniteSetTheorems, TLAPS

USE DEF Threads

----------------------------------------------------------------------------
(* The inductive invariant                                                 *)

\* Only a consumer inside cond.wait() can be asleep.
SleepersResume == \A t \in sleepers : t \in Consumers /\ pc[t] = "resume"

\* What a consumer learned about the deque under the mutex is still so.
TestHolds == \A c \in Consumers :
                /\ pc[c] = "wait" => queue = <<>>
                /\ pc[c] \in {"front", "pop"} => queue # <<>>
                /\ pc[c] = "pop" => top[c] = Head(queue)

IInv == /\ TypeOK
        /\ MutualExclusion
        /\ SleepersResume
        /\ TestHolds
        /\ FirstInFirstOut
        /\ NoLostWakeup

----------------------------------------------------------------------------
(* Sequences                                                               *)

\* A push appends to the deque and to the history alike.
LEMMA PushKeepsOrder ==
    ASSUME NEW S, NEW s \in Seq(S), NEW t \in Seq(S), NEW x \in S
    PROVE  s \o Append(t, x) = Append(s \o t, x)
<1>1. Append(t, x) = t \o <<x>> BY AppendIsConcat
<1>2. s \o t \in Seq(S) BY ConcatProperties
<1>3. Append(s \o t, x) = (s \o t) \o <<x>> BY <1>2, AppendIsConcat
<1>4. <<x>> \in Seq(S) OBVIOUS
<1>. QED BY <1>1, <1>3, <1>4, ConcatAssociative

\* Moving the head of t to the end of s leaves the concatenation as it was.
LEMMA PopKeepsOrder ==
    ASSUME NEW S, NEW s \in Seq(S), NEW t \in Seq(S), t # <<>>
    PROVE  /\ Append(s, Head(t)) \o Tail(t) = s \o t
           /\ Len(s) < Len(s \o t)
           /\ Head(t) = (s \o t)[Len(s) + 1]
<1>1. Head(t) \in S /\ Tail(t) \in Seq(S) BY HeadTailProperties
<1>2. Len(s) \in Nat /\ Len(t) \in Nat \ {0} BY LenProperties, EmptySeq
<1>3. <<Head(t)>> \o Tail(t) = t
  <2>1. SubSeq(t, 1, Len(t)) = <<t[1]>> \o SubSeq(t, 2, Len(t))
    BY <1>2, SubSeqRecursiveFirst
  <2>2. Head(t) = t[1] OBVIOUS
  <2>. QED BY <2>1, <2>2, SubSeqFull, TailIsSubSeq
<1>4. Append(s, Head(t)) = s \o <<Head(t)>> BY <1>1, AppendIsConcat
<1>5. <<Head(t)>> \in Seq(S) BY <1>1
<1>6. Append(s, Head(t)) \o Tail(t) = s \o t
  BY <1>1, <1>3, <1>4, <1>5, ConcatAssociative
<1>7. /\ Len(s \o t) = Len(s) + Len(t)
      /\ (s \o t)[Len(s) + 1] = t[1]
  <2>1. \A i \in 1 .. Len(s) + Len(t) :
            (s \o t)[i] = IF i <= Len(s) THEN s[i] ELSE t[i - Len(s)]
    BY ConcatProperties
  <2>2. /\ Len(s) + 1 \in 1 .. Len(s) + Len(t)
        /\ ~(Len(s) + 1 <= Len(s)) /\ Len(s) + 1 - Len(s) = 1
    BY <1>2
  <2>. QED BY <2>1, <2>2, ConcatProperties
<1>. QED BY <1>2, <1>6, <1>7

----------------------------------------------------------------------------
(* Cardinalities                                                           *)

\* Both counts of NoLostWakeup are of finite sets.
LEMMA CountsAreNatural ==
           /\ IsFiniteSet(Consumers \ sleepers)
           /\ Cardinality(Consumers \ sleepers) \in Nat
           /\ IsFiniteSet(Notifiers)
           /\ Cardinality(Notifiers) \in Nat
<1>1. IsFiniteSet(Consumers) /\ IsFiniteSet(Producers) BY ThreadsAssumption DEF ThreadsAssumption
<1>2. IsFiniteSet(Consumers \ sleepers) BY <1>1, FS_Subset
<1>3. IsFiniteSet(Notifiers) BY <1>1, FS_Subset DEF Notifiers
<1>. QED BY <1>2, <1>3, FS_CardinalityType

----------------------------------------------------------------------------
(* The invariant is inductive                                              *)

\* The initial states satisfy the invariant.
LEMMA InitEstablishes == Init => IInv
<1>. SUFFICES ASSUME Init PROVE IInv OBVIOUS
<1>. USE ThreadsAssumption DEF Init, MonitorInit, ThreadsAssumption
<1>1. TypeOK BY EmptySeq DEF TypeOK, MonitorTypeOK, PCs
<1>2. MutualExclusion BY DEF MutualExclusion, Inside
<1>3. SleepersResume /\ TestHolds /\ NoLostWakeup
  BY DEF SleepersResume, TestHolds, NoLostWakeup
<1>4. FirstInFirstOut BY ConcatEmptySeq, EmptySeq DEF FirstInFirstOut
<1>. QED BY <1>1, <1>2, <1>3, <1>4 DEF IInv

\* Control alone: types, the mutex and who sleeps.  The deque and the
\* histories matter only through their types.
LEMMA ControlPreserved ==
    ASSUME IInv, [Next]_vars
    PROVE  TypeOK' /\ MutualExclusion' /\ SleepersResume'
<1>. USE ThreadsAssumption
     DEF ThreadsAssumption, IInv, TypeOK, MonitorTypeOK, MutualExclusion,
         Inside, SleepersResume, TestHolds, Goto, PCs
<1>1. ASSUME NEW p \in Producers, EnqueueLock(p)
      PROVE  TypeOK' /\ MutualExclusion' /\ SleepersResume'
  BY <1>1 DEF EnqueueLock, Acquire
<1>2. ASSUME NEW p \in Producers, NEW x \in Items, EnqueuePush(p, x)
      PROVE  TypeOK' /\ MutualExclusion' /\ SleepersResume'
  <2>1. queue' \in Seq(Items) /\ produced' \in Seq(Items)
    BY <1>2, AppendProperties DEF EnqueuePush
  <2>. QED BY <1>2, <2>1 DEF EnqueuePush
<1>3. ASSUME NEW p \in Producers, EnqueueNotify(p)
      PROVE  TypeOK' /\ MutualExclusion' /\ SleepersResume'
  BY <1>3 DEF EnqueueNotify, Signal
<1>4. ASSUME NEW t \in Threads, Unlock(t)
      PROVE  TypeOK' /\ MutualExclusion' /\ SleepersResume'
  BY <1>4 DEF Unlock, Release
<1>5. ASSUME NEW c \in Consumers, DequeueLock(c)
      PROVE  TypeOK' /\ MutualExclusion' /\ SleepersResume'
  BY <1>5 DEF DequeueLock, Acquire
<1>6. ASSUME NEW c \in Consumers, DequeueTest(c)
      PROVE  TypeOK' /\ MutualExclusion' /\ SleepersResume'
  BY <1>6 DEF DequeueTest
<1>7. ASSUME NEW c \in Consumers, DequeueSleep(c)
      PROVE  TypeOK' /\ MutualExclusion' /\ SleepersResume'
  BY <1>7 DEF DequeueSleep, Sleep, Release
<1>8. ASSUME NEW c \in Consumers, DequeueResume(c)
      PROVE  TypeOK' /\ MutualExclusion' /\ SleepersResume'
  BY <1>8 DEF DequeueResume, Resume, Acquire
<1>9. ASSUME NEW c \in Consumers, DequeueFront(c)
      PROVE  TypeOK' /\ MutualExclusion' /\ SleepersResume'
  <2>1. top' \in [Consumers -> Items \cup {Garbage}]
    BY <1>9, HeadTailProperties DEF DequeueFront
  <2>. QED BY <1>9, <2>1 DEF DequeueFront
<1>10. ASSUME NEW c \in Consumers, DequeuePop(c)
       PROVE  TypeOK' /\ MutualExclusion' /\ SleepersResume'
  <2>1. queue # <<>> /\ top[c] = Head(queue) BY <1>10 DEF DequeuePop
  <2>2. queue' \in Seq(Items) /\ taken' \in Seq(Items)
    BY <1>10, <2>1, HeadTailProperties, AppendProperties DEF DequeuePop
  <2>. QED BY <1>10, <2>2 DEF DequeuePop
<1>11. ASSUME NEW c \in Consumers, Spurious(c)
       PROVE  TypeOK' /\ MutualExclusion' /\ SleepersResume'
  BY <1>11 DEF Spurious, WakeSpuriously
<1>12. CASE UNCHANGED vars BY <1>12 DEF vars
<1>. QED
  BY <1>1, <1>2, <1>3, <1>4, <1>5, <1>6, <1>7, <1>8, <1>9, <1>10, <1>11, <1>12
  DEF Next, Enqueue, Dequeue

\* What a consumer saw under the mutex stays so while it holds it, and the
\* deque stays the tail of the history.
LEMMA DataPreserved ==
    ASSUME IInv, [Next]_vars
    PROVE  TestHolds' /\ FirstInFirstOut'
<1>. USE ThreadsAssumption
     DEF ThreadsAssumption, IInv, MutualExclusion, Inside, TestHolds,
         FirstInFirstOut, Goto
<1>0. /\ queue \in Seq(Items) /\ taken \in Seq(Items)
      /\ pc \in [Threads -> PCs] /\ DOMAIN top = Consumers
  BY DEF TypeOK
<1>1. ASSUME NEW p \in Producers, NEW x \in Items, EnqueuePush(p, x)
      PROVE  TestHolds' /\ FirstInFirstOut'
  <2>1. \A c \in Consumers : pc'[c] \notin {"wait", "front", "pop"}
    BY <1>0, <1>1 DEF EnqueuePush
  <2>2. taken \o Append(queue, x) = Append(taken \o queue, x)
    BY <1>0, PushKeepsOrder
  <2>. QED BY <1>1, <2>1, <2>2 DEF EnqueuePush
<1>2. ASSUME NEW t \in Threads, UNCHANGED <<queue, top, produced, taken>>,
             \E from, to \in PCs : /\ Goto(t, from, to)
                                   /\ to \notin {"wait", "front", "pop"}
      PROVE  TestHolds' /\ FirstInFirstOut'
  BY <1>0, <1>2
<1>3. ASSUME NEW c \in Consumers, DequeueTest(c)
      PROVE  TestHolds' /\ FirstInFirstOut'
  BY <1>0, <1>3 DEF DequeueTest
<1>4. ASSUME NEW c \in Consumers, DequeueFront(c)
      PROVE  TestHolds' /\ FirstInFirstOut'
  BY <1>0, <1>4 DEF DequeueFront
<1>5. ASSUME NEW c \in Consumers, DequeuePop(c)
      PROVE  TestHolds' /\ FirstInFirstOut'
  <2>1. queue # <<>> /\ top[c] = Head(queue) BY <1>5 DEF DequeuePop
  <2>2. \A d \in Consumers : pc'[d] \notin {"wait", "front", "pop"}
    BY <1>0, <1>5 DEF DequeuePop
  <2>3. Append(taken, Head(queue)) \o Tail(queue) = taken \o queue
    BY <1>0, <2>1, PopKeepsOrder
  <2>. QED BY <1>5, <2>1, <2>2, <2>3 DEF DequeuePop
<1>6. CASE UNCHANGED <<queue, pc, top, produced, taken>>
  BY <1>6
<1>. USE DEF PCs
<1>7. ASSUME NEW p \in Producers, EnqueueLock(p) \/ EnqueueNotify(p)
      PROVE  TestHolds' /\ FirstInFirstOut'
  BY <1>2, <1>7 DEF EnqueueLock, EnqueueNotify
<1>8. ASSUME NEW t \in Threads, Unlock(t)
      PROVE  TestHolds' /\ FirstInFirstOut'
  BY <1>2, <1>8 DEF Unlock
<1>9. ASSUME NEW c \in Consumers,
             DequeueLock(c) \/ DequeueSleep(c) \/ DequeueResume(c)
      PROVE  TestHolds' /\ FirstInFirstOut'
  BY <1>2, <1>9 DEF DequeueLock, DequeueSleep, DequeueResume
<1>10. ASSUME NEW c \in Consumers, Spurious(c)
       PROVE  TestHolds' /\ FirstInFirstOut'
  BY <1>6, <1>10 DEF Spurious
<1>11. CASE UNCHANGED vars BY <1>6, <1>11 DEF vars
<1>. QED
  BY <1>1, <1>3, <1>4, <1>5, <1>7, <1>8, <1>9, <1>10, <1>11
  DEF Next, Enqueue, Dequeue

\* A step that leaves the deque alone, wakes nobody up into sleep and owes as
\* many notifications keeps the count of wakeups right.
LEMMA CountKept ==
    ASSUME NoLostWakeup, TypeOK, TypeOK',
           Len(queue') <= Len(queue), sleepers' \subseteq sleepers,
           Notifiers' = Notifiers
    PROVE  NoLostWakeup'
<1>1. IsFiniteSet(Consumers \ sleepers) /\ IsFiniteSet(Consumers \ sleepers')
  BY ThreadsAssumption, FS_Subset DEF ThreadsAssumption
<1>2. Cardinality(Consumers \ sleepers) <= Cardinality(Consumers \ sleepers')
  BY <1>1, FS_Subset
<1>3. /\ Cardinality(Consumers \ sleepers) \in Nat
      /\ Cardinality(Consumers \ sleepers') \in Nat
      /\ Cardinality(Notifiers) \in Nat
  BY <1>1, CountsAreNatural, FS_CardinalityType
<1>4. Len(queue) \in Nat /\ Len(queue') \in Nat
  BY LenProperties DEF TypeOK
<1>. QED BY <1>2, <1>3, <1>4 DEF NoLostWakeup

\* The count of wakeups is inductive.
LEMMA WakeupsPreserved ==
    ASSUME IInv, [Next]_vars, TypeOK'
    PROVE  NoLostWakeup'
<1>. USE DEF Goto
<1>0. /\ pc \in [Threads -> PCs] /\ queue \in Seq(Items)
      /\ Len(queue) \in Nat /\ NoLostWakeup /\ TypeOK
  BY LenProperties DEF IInv, TypeOK
<1>1. ASSUME NEW p \in Producers, NEW x \in Items, EnqueuePush(p, x)
      PROVE  NoLostWakeup'
  <2>1. Notifiers' = Notifiers \cup {p} /\ p \notin Notifiers
    BY <1>0, <1>1 DEF EnqueuePush, Notifiers
  <2>2. Cardinality(Notifiers') = Cardinality(Notifiers) + 1
    BY <2>1, CountsAreNatural, FS_AddElement
  <2>3. Len(queue') = Len(queue) + 1
    BY <1>0, <1>1, AppendProperties DEF EnqueuePush
  <2>4. sleepers' = sleepers BY <1>1 DEF EnqueuePush
  <2>. QED BY <1>0, <2>2, <2>3, <2>4, CountsAreNatural DEF NoLostWakeup
<1>2. ASSUME NEW p \in Producers, EnqueueNotify(p)
      PROVE  NoLostWakeup'
  <2>. SUFFICES ASSUME sleepers' # {} PROVE NoLostWakeup'
    BY DEF NoLostWakeup
  <2>1. Notifiers' = Notifiers \ {p} /\ p \in Notifiers
    BY <1>0, <1>2 DEF EnqueueNotify, Notifiers, PCs
  <2>2. Cardinality(Notifiers') = Cardinality(Notifiers) - 1
    BY <2>1, CountsAreNatural, FS_RemoveElement
  <2>3. sleepers' \subseteq sleepers /\ sleepers' # sleepers /\ sleepers # {}
    BY <1>2 DEF EnqueueNotify, Signal
  <2>4. Consumers \ sleepers \subseteq Consumers \ sleepers'
    BY <2>3
  <2>5. Consumers \ sleepers # Consumers \ sleepers'
    BY <2>3 DEF IInv, SleepersResume
  <2>6. IsFiniteSet(Consumers \ sleepers')
    BY ThreadsAssumption, FS_Subset DEF ThreadsAssumption
  <2>7. /\ Cardinality(Consumers \ sleepers') \in Nat
        /\ Cardinality(Consumers \ sleepers) <= Cardinality(Consumers \ sleepers')
        /\ Cardinality(Consumers \ sleepers) # Cardinality(Consumers \ sleepers')
    BY <2>4, <2>5, <2>6, FS_Subset, FS_CardinalityType
  <2>8. queue' = queue BY <1>2 DEF EnqueueNotify
  <2>9. Cardinality(Consumers \ sleepers) + 1 <= Cardinality(Consumers \ sleepers')
    BY <2>7, CountsAreNatural
  <2>10. Len(queue) <= Cardinality(Consumers \ sleepers) + Cardinality(Notifiers)
    BY <1>0, <2>3 DEF NoLostWakeup
  <2>11. Len(queue) <= Cardinality(Consumers \ sleepers') + Cardinality(Notifiers')
    BY <1>0, <2>2, <2>7, <2>9, <2>10, CountsAreNatural
  <2>. QED BY <2>8, <2>11 DEF NoLostWakeup
<1>3. ASSUME NEW c \in Consumers, DequeueSleep(c)
      PROVE  NoLostWakeup'
  <2>1. queue = <<>> /\ queue' = queue
    BY <1>3 DEF DequeueSleep, IInv, TestHolds
  <2>2. Len(queue') = 0 BY <2>1
  <2>3. IsFiniteSet(Consumers \ sleepers') /\ IsFiniteSet(Notifiers')
    BY ThreadsAssumption, FS_Subset DEF ThreadsAssumption, Notifiers
  <2>4. /\ Cardinality(Consumers \ sleepers') \in Nat
        /\ Cardinality(Notifiers') \in Nat
    BY <2>3, FS_CardinalityType
  <2>. QED BY <2>2, <2>4 DEF NoLostWakeup
<1>4. ASSUME sleepers' \subseteq sleepers,
             Len(queue') <= Len(queue),
             \A p \in Producers : pc'[p] = "notify" <=> pc[p] = "notify"
      PROVE  NoLostWakeup'
  <2>1. Notifiers' = Notifiers BY <1>0, <1>4 DEF Notifiers
  <2>. QED BY <1>0, <1>4, <2>1, CountKept
<1>. USE DEF PCs
<1>5. ASSUME NEW p \in Producers, EnqueueLock(p)
      PROVE  NoLostWakeup'
  BY <1>0, <1>4, <1>5 DEF EnqueueLock
<1>6. ASSUME NEW t \in Threads, Unlock(t)
      PROVE  NoLostWakeup'
  BY <1>0, <1>4, <1>6 DEF Unlock
<1>7. ASSUME NEW c \in Consumers,
             DequeueLock(c) \/ DequeueTest(c) \/ DequeueResume(c) \/ DequeueFront(c)
      PROVE  NoLostWakeup'
  <2>1. queue' = queue /\ sleepers' = sleepers
    BY <1>7 DEF DequeueLock, DequeueTest, DequeueResume, DequeueFront
  <2>2. /\ pc[c] # "notify"
        /\ \E to \in PCs \ {"notify"} : pc' = [pc EXCEPT ![c] = to]
    BY <1>7 DEF DequeueLock, DequeueTest, DequeueResume, DequeueFront
  <2>3. \A p \in Producers : pc'[p] = "notify" <=> pc[p] = "notify"
    BY <1>0, <2>2
  <2>4. Len(queue') <= Len(queue) /\ sleepers' \subseteq sleepers
    BY <1>0, <2>1
  <2>. QED BY <1>4, <2>3, <2>4
<1>8. ASSUME NEW c \in Consumers, DequeuePop(c)
      PROVE  NoLostWakeup'
  <2>1. queue # <<>> BY <1>8 DEF DequeuePop, IInv, TestHolds
  <2>2. Len(queue') <= Len(queue) /\ sleepers' = sleepers
    BY <1>0, <1>8, <2>1, HeadTailProperties DEF DequeuePop
  <2>. QED BY <1>4, <1>8, <2>2 DEF DequeuePop
<1>9. ASSUME NEW c \in Consumers, Spurious(c)
      PROVE  NoLostWakeup'
  BY <1>0, <1>4, <1>9 DEF Spurious, WakeSpuriously
<1>10. CASE UNCHANGED vars
  BY <1>0, <1>10 DEF vars, NoLostWakeup, Notifiers
<1>. QED
  BY <1>1, <1>2, <1>3, <1>5, <1>6, <1>7, <1>8, <1>9, <1>10
  DEF Next, Enqueue, Dequeue

\* Every reachable state satisfies the inductive invariant.
THEOREM Invariance == Safety => []IInv
<1>1. IInv /\ [Next]_vars => IInv'
  BY ControlPreserved, DataPreserved, WakeupsPreserved DEF IInv
<1>. QED BY <1>1, InitEstablishes, PTL DEF Safety

----------------------------------------------------------------------------
(* The properties the runs check                                           *)

\* Every variable keeps its type, for any number of threads and any items.
THEOREM TypeCorrect == Safety => []TypeOK
BY Invariance, PTL DEF IInv

\* A thread between lock() and unLock() owns the mutex, alone.
THEOREM MutexIsExclusive == Safety => []MutualExclusion
BY Invariance, PTL DEF IInv

\* Items leave the deque in order, once each, none lost.
THEOREM OrderIsKept == Safety => []FirstInFirstOut
BY Invariance, PTL DEF IInv

\* No wakeup is lost, although notify() is pthread_cond_signal and several
\* consumers may sleep.
THEOREM WakeupsSuffice == Safety => []NoLostWakeup
BY Invariance, PTL DEF IInv

\* Every step of the queue is a Put, a Get or a stutter of the abstract one.
THEOREM RefinesFifoQueue == Safety => Abstract!Safety
<1>1. Init => Abstract!Init BY DEF Init, Abstract!Init
<1>2. ASSUME IInv, [Next]_vars
      PROVE  [Abstract!Next]_(Abstract!fifo)
  <2>. USE <1>2 DEF Abstract!Next, Abstract!Put, Abstract!Get, Abstract!fifo
  <2>1. ASSUME NEW p \in Producers, NEW x \in Items, EnqueuePush(p, x)
        PROVE  Abstract!Put
    BY <2>1 DEF EnqueuePush
  <2>2. ASSUME NEW c \in Consumers, DequeuePop(c)
        PROVE  Abstract!Get
    <3>1. queue # <<>> /\ top[c] = Head(queue)
      BY <2>2 DEF DequeuePop, Goto, IInv, TestHolds
    <3>2. /\ Len(taken) < Len(taken \o queue)
          /\ Head(queue) = (taken \o queue)[Len(taken) + 1]
      BY <3>1, PopKeepsOrder DEF IInv, TypeOK
    <3>. QED BY <2>2, <3>1, <3>2 DEF DequeuePop, IInv, FirstInFirstOut
  <2>3. CASE UNCHANGED <<produced, taken>> BY <2>3
  <2>. QED
    BY <2>1, <2>2, <2>3
    DEF Next, Enqueue, Dequeue, EnqueueLock, EnqueueNotify, Unlock, DequeueLock,
        DequeueTest, DequeueSleep, DequeueResume, DequeueFront, Spurious, vars
<1>. QED BY <1>1, <1>2, Invariance, PTL DEF Safety, Abstract!Safety
=============================================================================
