------------------------ MODULE CountDownLatchProofs ------------------------
(***************************************************************************)
(* Safety of CountDownLatch for any count and any threads: the count is    *)
(* exact, nobody passes early, nobody is left asleep, and every step is a  *)
(* step of Gate or a stutter.                                              *)
(***************************************************************************)
EXTENDS CountDownLatch, FiniteSetTheorems, TLAPS

USE DEF Threads

----------------------------------------------------------------------------
(* The inductive invariant                                                 *)

\* A thread inside the latch's critical section owns the mutex, alone.
Inside(t) == pc[t] \in {"decrement", "notifyAll", "unlock", "test", "wait",
                        "leave", "read", "return"}
Exclusive == \A t \in Threads : Inside(t) <=> owner = t

\* Only a waiter inside cond_.wait() can be asleep.
SleepersResume == \A t \in sleepers : t \in Waiters /\ pc[t] = "resume"

\* A waiter about to sleep has just seen the latch closed, under the mutex.
SleepsWhenClosed == \A v \in Waiters : pc[v] = "wait" => count > 0

IInv == /\ TypeOK
        /\ Exclusive
        /\ SleepersResume
        /\ SleepsWhenClosed
        /\ OpenMeansCounted
        /\ NobodyLeftAsleep

----------------------------------------------------------------------------

\* The set of workers that counted down is finite.
LEMMA ArrivedIsFinite == IsFiniteSet(Arrived) /\ Cardinality(Arrived) \in Nat
<1>1. IsFiniteSet(Workers) BY LatchAssumption DEF LatchAssumption
<1>2. IsFiniteSet(Arrived) BY <1>1, FS_Subset DEF Arrived
<1>. QED BY <1>2, FS_CardinalityType

\* The initial states satisfy the invariant.
LEMMA InitEstablishes == Init => IInv
<1>. SUFFICES ASSUME Init PROVE IInv OBVIOUS
<1>. USE LatchAssumption DEF Init, MonitorInit, LatchAssumption
<1>1. TypeOK BY DEF TypeOK, MonitorTypeOK, WorkerPCs, WaiterPCs
<1>2. Arrived = {} /\ Through = {} BY DEF Arrived, Through
<1>3. OpenMeansCounted BY <1>2, FS_EmptySet DEF OpenMeansCounted
<1>. QED
  BY <1>1, <1>3
  DEF IInv, Exclusive, Inside, SleepersResume, SleepsWhenClosed, NobodyLeftAsleep

\* Control: the mutex, the sleepers and what a waiter saw before it sleeps.
LEMMA ControlPreserved ==
    ASSUME IInv, [Next]_latch
    PROVE  TypeOK' /\ Exclusive' /\ SleepersResume' /\ SleepsWhenClosed'
<1>. DEFINE Goal == TypeOK' /\ Exclusive' /\ SleepersResume' /\ SleepsWhenClosed'
<1>. USE LatchAssumption
     DEF LatchAssumption, IInv, TypeOK, MonitorTypeOK, WorkerPCs, WaiterPCs,
         Exclusive, Inside, SleepersResume, SleepsWhenClosed, Goto
<1>1. ASSUME NEW w \in Workers, CountDown(w) PROVE Goal
  <2>1. CASE CountDownLock(w) BY <2>1 DEF CountDownLock, Lock, Acquire
  <2>2. CASE CountDownDecrement(w) BY <2>2 DEF CountDownDecrement
  <2>3. CASE CountDownNotifyAll(w) BY <2>3 DEF CountDownNotifyAll, Broadcast
  <2>4. CASE CountDownUnlock(w) BY <2>4 DEF CountDownUnlock, Unlock, Release
  <2>. QED BY <1>1, <2>1, <2>2, <2>3, <2>4 DEF CountDown
<1>2. ASSUME NEW v \in Waiters, Wait(v) PROVE Goal
  <2>1. CASE WaitLock(v) BY <2>1 DEF WaitLock, Lock, Acquire
  <2>2. CASE WaitTest(v) BY <2>2 DEF WaitTest
  <2>3. CASE WaitSleep(v) BY <2>3 DEF WaitSleep, Sleep, Release
  <2>4. CASE WaitResume(v) BY <2>4 DEF WaitResume, Resume, Acquire
  <2>5. CASE WaitUnlock(v) BY <2>5 DEF WaitUnlock, Unlock, Release
  <2>. QED BY <1>2, <2>1, <2>2, <2>3, <2>4, <2>5 DEF Wait
<1>3. ASSUME NEW v \in Waiters, GetCount(v) PROVE Goal
  <2>1. CASE GetCountLock(v) BY <2>1 DEF GetCountLock, Lock, Acquire
  <2>2. CASE GetCountRead(v) BY <2>2 DEF GetCountRead
  <2>3. CASE GetCountUnlock(v) BY <2>3 DEF GetCountUnlock, Unlock, Release
  <2>. QED BY <1>3, <2>1, <2>2, <2>3 DEF GetCount
<1>4. ASSUME NEW v \in Waiters, Spurious(v) PROVE Goal
  BY <1>4 DEF Spurious, WakeSpuriously
<1>5. CASE UNCHANGED latch BY <1>5 DEF latch
<1>. QED BY <1>1, <1>2, <1>3, <1>4, <1>5 DEF Next

\* The effect of each step on who counted down and who passed.
LEMMA GateSteps ==
    ASSUME IInv, [Next]_latch
    PROVE  \/ /\ Arrived' = Arrived /\ count' = count
              /\ \/ Through' = Through
                 \/ /\ count <= 0
                    /\ \E v \in Waiters \ Through : Through' = Through \cup {v}
           \/ /\ \E w \in Workers \ Arrived : Arrived' = Arrived \cup {w}
              /\ count' = count - 1
              /\ Through' = Through
<1>. USE LatchAssumption
     DEF LatchAssumption, IInv, TypeOK, WorkerPCs, WaiterPCs, Arrived, Through, Goto
<1>1. ASSUME NEW w \in Workers, CountDownDecrement(w)
      PROVE  /\ w \notin Arrived /\ Arrived' = Arrived \cup {w}
             /\ count' = count - 1 /\ Through' = Through
  BY <1>1 DEF CountDownDecrement
<1>2. ASSUME NEW w \in Workers,
             CountDownLock(w) \/ CountDownNotifyAll(w) \/ CountDownUnlock(w)
      PROVE  Arrived' = Arrived /\ Through' = Through /\ count' = count
  BY <1>2 DEF CountDownLock, CountDownNotifyAll, CountDownUnlock, Lock, Unlock
<1>3. ASSUME NEW v \in Waiters, WaitTest(v)
      PROVE  /\ Arrived' = Arrived /\ count' = count
             /\ \/ Through' = Through
                \/ count <= 0 /\ v \notin Through /\ Through' = Through \cup {v}
  BY <1>3 DEF WaitTest
<1>4. ASSUME NEW v \in Waiters,
             WaitLock(v) \/ WaitSleep(v) \/ WaitResume(v) \/ WaitUnlock(v)
      PROVE  Arrived' = Arrived /\ Through' = Through /\ count' = count
  BY <1>4 DEF WaitLock, WaitSleep, WaitResume, WaitUnlock, Lock, Unlock
<1>5. ASSUME NEW v \in Waiters, GetCount(v)
      PROVE  Arrived' = Arrived /\ Through' = Through /\ count' = count
  BY <1>5 DEF GetCount, GetCountLock, GetCountRead, GetCountUnlock, Lock, Unlock
<1>6. ASSUME NEW v \in Waiters, Spurious(v)
      PROVE  Arrived' = Arrived /\ Through' = Through /\ count' = count
  BY <1>6 DEF Spurious
<1>7. CASE UNCHANGED latch BY <1>7 DEF latch
<1>. HIDE DEF IInv, Arrived, Through
<1>. QED
  BY <1>1, <1>2, <1>3, <1>4, <1>5, <1>6, <1>7 DEF Next, CountDown, Wait

\* The count stays exact, an open latch stays open.
LEMMA CountPreserved ==
    ASSUME IInv, [Next]_latch
    PROVE  OpenMeansCounted'
<1>0. count \in Int /\ Cardinality(Arrived) \in Nat /\ Count \in Nat
  BY ArrivedIsFinite, LatchAssumption DEF IInv, TypeOK, LatchAssumption
<1>1. /\ count' = Count - Cardinality(Arrived')
      /\ Through' # {} => Cardinality(Arrived') >= Count
      /\ count' <= count
  <2>1. CASE \E w \in Workers \ Arrived : /\ Arrived' = Arrived \cup {w}
                                          /\ count' = count - 1
                                          /\ Through' = Through
    <3>1. Cardinality(Arrived') = Cardinality(Arrived) + 1
      BY <2>1, ArrivedIsFinite, FS_AddElement
    <3>. QED BY <1>0, <2>1, <3>1 DEF IInv, OpenMeansCounted
  <2>2. CASE /\ Arrived' = Arrived /\ count' = count
             /\ Through' = Through \/ count <= 0
    BY <1>0, <2>2 DEF IInv, OpenMeansCounted
  <2>. QED BY <2>1, <2>2, GateSteps
<1>2. ASSUME NEW v \in Waiters, pc'[v] \in {"return", "done"}
      PROVE  seen'[v] <= 0
  <2>1. CASE pc[v] \in {"return", "done"}
    <3>1. seen[v] <= 0 BY <2>1 DEF IInv, OpenMeansCounted
    <3>2. seen'[v] = seen[v]
      BY <2>1, <1>2 DEF Next, CountDown, CountDownLock, CountDownDecrement,
         CountDownNotifyAll, CountDownUnlock, Wait, WaitLock, WaitTest, WaitSleep,
         WaitResume, WaitUnlock, GetCount, GetCountLock, GetCountRead,
         GetCountUnlock, Spurious, Lock, Unlock, Goto, latch, IInv, TypeOK
    <3>. QED BY <3>1, <3>2
  <2>2. CASE pc[v] \notin {"return", "done"}
    <3>1. GetCountRead(v)
      BY <2>2, <1>2, LatchAssumption DEF LatchAssumption, Next, CountDown,
         CountDownLock, CountDownDecrement,
         CountDownNotifyAll, CountDownUnlock, Wait, WaitLock, WaitTest, WaitSleep,
         WaitResume, WaitUnlock, GetCount, GetCountLock, GetCountRead,
         GetCountUnlock, Spurious, Lock, Unlock, Goto, latch, IInv, TypeOK
    <3>2. v \in Through BY <3>1 DEF GetCountRead, Goto, Through
    <3>3. count <= 0 BY <1>0, <3>2 DEF IInv, OpenMeansCounted
    <3>. QED BY <3>1, <3>3 DEF GetCountRead, IInv, TypeOK
  <2>. QED BY <2>1, <2>2
<1>. QED BY <1>1, <1>2 DEF OpenMeansCounted

\* A thread falls asleep only in a closed latch, and the thread that opens the
\* latch owes it the broadcast.
LEMMA BroadcastPreserved ==
    ASSUME IInv, [Next]_latch
    PROVE  NobodyLeftAsleep'
<1>. USE LatchAssumption
     DEF LatchAssumption, IInv, TypeOK, NobodyLeftAsleep, Goto
<1>1. ASSUME NEW w \in Workers, CountDownDecrement(w) PROVE NobodyLeftAsleep'
  <2>1. ~ \E u \in Workers : pc[u] = "notifyAll"
    BY <1>1 DEF CountDownDecrement, Exclusive, Inside
  <2>2. CASE count - 1 = 0 BY <1>1, <2>2 DEF CountDownDecrement
  <2>3. CASE count - 1 < 0
    <3>1. count <= 0 BY <2>3
    <3>. QED BY <1>1, <2>1, <3>1 DEF CountDownDecrement
  <2>4. CASE count - 1 > 0
    <3>1. ~(count - 1 <= 0) BY <2>4
    <3>. QED BY <1>1, <3>1 DEF CountDownDecrement
  <2>. QED BY <2>2, <2>3, <2>4
<1>2. ASSUME NEW w \in Workers, CountDownNotifyAll(w) PROVE NobodyLeftAsleep'
  BY <1>2 DEF CountDownNotifyAll, Broadcast
<1>3. ASSUME NEW w \in Workers, CountDownLock(w) \/ CountDownUnlock(w)
      PROVE  NobodyLeftAsleep'
  BY <1>3 DEF CountDownLock, CountDownUnlock, Lock, Unlock
<1>4. ASSUME NEW v \in Waiters, WaitSleep(v) PROVE NobodyLeftAsleep'
  BY <1>4 DEF WaitSleep, SleepsWhenClosed
<1>5. ASSUME NEW v \in Waiters,
             WaitLock(v) \/ WaitTest(v) \/ WaitResume(v) \/ WaitUnlock(v)
      PROVE  NobodyLeftAsleep'
  BY <1>5 DEF WaitLock, WaitTest, WaitResume, WaitUnlock, Lock, Unlock
<1>6. ASSUME NEW v \in Waiters, GetCount(v) PROVE NobodyLeftAsleep'
  BY <1>6 DEF GetCount, GetCountLock, GetCountRead, GetCountUnlock, Lock, Unlock
<1>7. ASSUME NEW v \in Waiters, Spurious(v) PROVE NobodyLeftAsleep'
  BY <1>7 DEF Spurious, WakeSpuriously
<1>8. CASE UNCHANGED latch BY <1>8 DEF latch
<1>. QED
  BY <1>1, <1>2, <1>3, <1>4, <1>5, <1>6, <1>7, <1>8 DEF Next, CountDown, Wait

\* Every reachable state satisfies the inductive invariant.
THEOREM Invariance == Safety => []IInv
<1>1. IInv /\ [Next]_latch => IInv'
  BY ControlPreserved, CountPreserved, BroadcastPreserved DEF IInv
<1>. QED BY <1>1, InitEstablishes, PTL DEF Safety

----------------------------------------------------------------------------
(* The properties the runs check                                           *)

\* Every variable keeps its type, whatever the initial count.
THEOREM TypeCorrect == Safety => []TypeOK
BY Invariance, PTL DEF IInv

\* The count is exact and nobody passes wait() before Count countdowns.
THEOREM NobodyPassesEarly == Safety => []OpenMeansCounted
BY Invariance, PTL DEF IInv

\* The single broadcast of the opening countDOwn finds every sleeper.
THEOREM NobodySleepsThroughTheOpening == Safety => []NobodyLeftAsleep
BY Invariance, PTL DEF IInv

\* Every step of the latch is an arrival, a passage or a stutter of Gate.
THEOREM RefinesGate == Safety => Abstract!Safety
<1>1. Init => Abstract!Init
  <2>1. Init => Arrived = {} /\ Through = {} BY DEF Init, Arrived, Through
  <2>. QED BY <2>1, FS_EmptySet DEF Abstract!Init
<1>2. ASSUME IInv, [Next]_latch
      PROVE  [Abstract!Next]_(Abstract!gate)
  <2>. USE DEF Abstract!Next, Abstract!gate
  <2>1. Count \in Nat /\ count \in Int /\ Cardinality(Arrived) \in Nat
    BY <1>2, LatchAssumption, ArrivedIsFinite DEF LatchAssumption, IInv, TypeOK
  <2>2. count <= 0 => Cardinality(Arrived) >= Count
    BY <1>2, <2>1 DEF IInv, OpenMeansCounted
  <2>3. CASE Arrived' = Arrived /\ Through' = Through
    BY <2>3
  <2>4. ASSUME NEW v \in Waiters \ Through, count <= 0,
               Arrived' = Arrived, Through' = Through \cup {v}
        PROVE  Abstract!Next
    BY <2>2, <2>4 DEF Abstract!Pass
  <2>5. ASSUME NEW w \in Workers \ Arrived,
               Arrived' = Arrived \cup {w}, Through' = Through
        PROVE  Abstract!Next
    <3>1. IsFiniteSet(Workers) /\ Arrived \subseteq Workers \ {w}
      BY LatchAssumption DEF LatchAssumption, Arrived
    <3>2. /\ IsFiniteSet(Workers \ {w})
          /\ Cardinality(Workers \ {w}) = Cardinality(Workers) - 1
          /\ Cardinality(Workers) \in Nat
      BY <3>1, FS_RemoveElement, FS_CardinalityType
    <3>3. Cardinality(Arrived) <= Cardinality(Workers \ {w})
      BY <3>1, <3>2, FS_Subset
    <3>4. Cardinality(Arrived') = Cardinality(Arrived) + 1
      BY <2>5, ArrivedIsFinite, FS_AddElement
    <3>. QED BY <2>1, <2>5, <3>2, <3>3, <3>4 DEF Abstract!Arrive
  <2>. HIDE DEF Abstract!Next
  <2>. QED BY <1>2, <2>3, <2>4, <2>5, GateSteps
<1>. QED BY <1>1, <1>2, Invariance, PTL DEF Safety, Abstract!Safety
=============================================================================
