------------------------ MODULE SafeObservableProofs ------------------------
(***************************************************************************)
(* Safety of SafeObservable for any number of threads: type correctness,   *)
(* exact reference counts, no registered live Foo lost, and passes that    *)
(* update every entry of their vector once and in order.                   *)
(***************************************************************************)
EXTENDS SafeObservable, SequenceTheorems, FiniteSetTheorems, TLAPS

----------------------------------------------------------------------------
(* The inductive invariant                                                 *)

\* A thread is between a lock and its unlock when and only when it has the mutex.
MutexIsHeld == \A t \in Threads : pc[t] \in LockedPCs <=> owner = t

\* What a thread inside a pass has at its iterator.
IteratorIsValid ==
    \A t \in Threads :
        /\ obj[t] # NoFoo <=> pc[t] \in {"update", "advance"}
        /\ pc[t] \in PassPCs => it[t] \in 1 .. Len(observers) + 1
        /\ pc[t] \in {"update", "advance", "erase"} => it[t] <= Len(observers)
        /\ pc[t] \in {"update", "advance"} => obj[t] = observers[it[t]]
        /\ pc[t] = "erase" => strong[observers[it[t]]] = 0

\* An entry is there once, from push_back on and never before.
EntriesAreDistinct ==
    /\ \A j, k \in 1 .. Len(observers) : observers[j] = observers[k] => j = k
    /\ \A k \in 1 .. Len(observers) : pc[observers[k]] \notin {"make", "register", "push"}

LiveIsListed ==
    \A f \in Threads :
        strong[f] > 0 /\ pc[f] \notin {"register", "push"} =>
            \E k \in 1 .. Len(observers) : observers[k] = f

UpdatedOnce == \A f \in Threads : updated[f] <= 1

\* The entries that the pass of t has updated.
Visited(t) == {observers[k] : k \in 1 .. (IF pc[t] = "advance" THEN it[t] ELSE it[t] - 1)}

\* How many entries the pass has erased.
Dropped == Len(atStart) - Len(observers)

PassIsOnTrack ==
    \A t \in Threads : pc[t] \in PassPCs =>
        /\ Dropped >= 0
        /\ \A k \in it[t] .. Len(observers) : observers[k] = atStart[k + Dropped]
        /\ \A f \in Threads : updated[f] = 1 <=> f \in Visited(t)
        /\ InOrderOf(atStart)

IInv == /\ TypeOK
        /\ MutexIsHeld
        /\ IteratorIsValid
        /\ EntriesAreDistinct
        /\ CountsAreExact
        /\ LiveIsListed
        /\ UpdatedOnce
        /\ PassIsOnTrack

----------------------------------------------------------------------------
(* Sequences and owners                                                    *)

\* erase() leaves the entries before the erased one where they are and moves the
\* ones after it up.
LEMMA RemoveAtProperties ==
    ASSUME NEW S, NEW s \in Seq(S), NEW n \in 1 .. Len(s)
    PROVE  /\ RemoveAt(s, n) \in Seq(S)
           /\ Len(RemoveAt(s, n)) = Len(s) - 1
           /\ \A k \in 1 .. Len(s) - 1 :
                 RemoveAt(s, n)[k] = IF k < n THEN s[k] ELSE s[k + 1]
<1>. DEFINE front == SubSeq(s, 1, n - 1)
            back == SubSeq(s, n + 1, Len(s))
<1>1. /\ front \in Seq(S) /\ Len(front) = n - 1
      /\ \A k \in 1 .. n - 1 : front[k] = s[k]
  BY SubSeqProperties
<1>2. /\ back \in Seq(S) /\ Len(back) = Len(s) - n
      /\ \A k \in 1 .. Len(s) - n : back[k] = s[k + n]
  BY SubSeqProperties
<1>3. /\ front \o back \in Seq(S)
      /\ Len(front \o back) = Len(s) - 1
      /\ \A k \in 1 .. Len(s) - 1 :
            (front \o back)[k] = IF k < n THEN s[k] ELSE s[k + 1]
  <2>. HIDE DEF front, back
  <2>1. /\ front \o back \in Seq(S)
        /\ Len(front \o back) = Len(front) + Len(back)
        /\ \A k \in 1 .. Len(front) + Len(back) :
              (front \o back)[k] = IF k <= Len(front) THEN front[k] ELSE back[k - Len(front)]
    BY <1>1, <1>2, ConcatProperties
  <2>2. Len(s) \in Nat BY LenProperties
  <2>3. Len(front \o back) = Len(s) - 1 BY <1>1, <1>2, <2>1, <2>2
  <2>4. ASSUME NEW k \in 1 .. Len(s) - 1
        PROVE  (front \o back)[k] = IF k < n THEN s[k] ELSE s[k + 1]
    <3>1. CASE k < n BY <1>1, <1>2, <2>1, <2>2, <3>1
    <3>2. CASE ~(k < n)
      <4>1. k - (n - 1) \in 1 .. Len(s) - n BY <2>2, <3>2
      <4>2. back[k - (n - 1)] = s[k - (n - 1) + n] BY <1>2, <4>1
      <4>3. k - (n - 1) + n = k + 1 BY <2>2
      <4>. QED BY <1>1, <1>2, <2>1, <2>2, <3>2, <4>2, <4>3
    <3>. QED BY <3>1, <3>2
  <2>. QED BY <2>1, <2>3, <2>4
<1>. QED BY <1>3 DEF RemoveAt

\* The owners of a Foo can be counted.
LEMMA OwnersAreFinite ==
    ASSUME NEW f \in Threads
    PROVE  IsFiniteSet(Owners(f)) /\ Cardinality(Owners(f)) \in Nat
<1>1. IsFiniteSet(Owners(f)) BY ObservableAssumption, FS_Subset DEF ObservableAssumption, Owners
<1>. QED BY <1>1, FS_CardinalityType

\* A Foo that a thread can reach is alive: its own until it returns, and the one
\* that its notifyObservers has locked.
LEMMA OwnedIsAlive ==
    ASSUME TypeOK, CountsAreExact, NEW t \in Threads, NEW f \in Threads,
           obj[t] = f \/ (t = f /\ pc[t] \notin {"make", "done"})
    PROVE  strong[f] > 0
<1>1. CASE t \in Owners(f)
  <2>1. Cardinality(Owners(f)) # 0 BY <1>1, OwnersAreFinite, FS_EmptySet
  <2>. QED BY <2>1, OwnersAreFinite DEF CountsAreExact
<1>2. CASE t \notin Owners(f)
  <2>1. obj[f] = f BY <1>2 DEF Owners
  <2>. QED BY <2>1, OwnersAreFinite DEF CountsAreExact
<1>. QED BY <1>1, <1>2

----------------------------------------------------------------------------
(* The invariant is inductive                                              *)

\* The initial states satisfy the invariant.
LEMMA InitEstablishes == Init => IInv
<1>. SUFFICES ASSUME Init PROVE IInv OBVIOUS
<1>. USE ObservableAssumption DEF Init, ObservableAssumption
<1>1. TypeOK BY EmptySeq DEF TypeOK, LockedPCs, PassPCs, FreePCs
<1>2. CountsAreExact
  <2>1. ASSUME NEW f \in Threads PROVE Owners(f) = {} BY DEF Owners
  <2>. QED BY <2>1, FS_EmptySet DEF CountsAreExact
<1>3. MutexIsHeld /\ IteratorIsValid /\ EntriesAreDistinct /\ LiveIsListed
      /\ UpdatedOnce /\ PassIsOnTrack
  BY DEF MutexIsHeld, IteratorIsValid, EntriesAreDistinct, LiveIsListed, UpdatedOnce,
         PassIsOnTrack, LockedPCs, PassPCs
<1>. QED BY <1>1, <1>2, <1>3 DEF IInv

\* Every step keeps the variables' types.
LEMMA TypesPreserved == IInv /\ [Next]_vars => TypeOK'
<1>. SUFFICES ASSUME IInv, [Next]_vars PROVE TypeOK' OBVIOUS
<1>. USE DEF TypeOK, Goto, LockedPCs, PassPCs, FreePCs, pass
<1>0. TypeOK /\ IteratorIsValid /\ CountsAreExact BY DEF IInv
<1>1. ASSUME NEW t \in Threads, Make(t) PROVE TypeOK' BY <1>0, <1>1 DEF Make
<1>2. ASSUME NEW t \in Threads, RegisterLock(t) \/ RegisterUnlock(t) \/ NotifyUnlock(t)
      PROVE  TypeOK'
  BY <1>0, <1>2 DEF RegisterLock, RegisterUnlock, NotifyUnlock, Acquire, Release
<1>3. ASSUME NEW t \in Threads, RegisterPush(t)
      PROVE  TypeOK'
  BY <1>0, <1>3, AppendProperties DEF RegisterPush
<1>4. ASSUME NEW t \in Threads, NotifyLock(t)
      PROVE  TypeOK'
  BY <1>0, <1>4 DEF NotifyLock, Acquire
<1>5. ASSUME NEW t \in Threads, LockWeak(t)
      PROVE  TypeOK'
  <2>1. it[t] \in 1 .. Len(observers)
    <3>1. ~(it[t] > Len(observers)) BY <1>5 DEF LockWeak, AtEnd
    <3>2. it[t] \in Nat \ {0} /\ Len(observers) \in Nat BY <1>0, LenProperties
    <3>. QED BY <3>1, <3>2
  <2>2. observers[it[t]] \in Threads BY <1>0, <2>1, ElementOfSeq
  <2>3. pc' \in [Threads -> LockedPCs \cup FreePCs] BY <1>0, <1>5 DEF LockWeak
  <2>4. obj' \in [Threads -> Threads \cup {NoFoo}] BY <1>0, <1>5, <2>2 DEF LockWeak
  <2>5. strong' \in [Threads -> Nat]
    <3>. DEFINE f == observers[it[t]]
    <3>1. strong' = [strong EXCEPT ![f] = @ + 1] \/ UNCHANGED strong BY <1>0, <1>5 DEF LockWeak
    <3>2. strong \in [Threads -> Nat] /\ f \in Threads BY <1>0, <2>2
    <3>. HIDE DEF f, TypeOK
    <3>. QED BY <3>1, <3>2
  <2>. QED BY <1>0, <1>5, <2>3, <2>4, <2>5 DEF LockWeak
<1>6. ASSUME NEW t \in Threads, Update(t)
      PROVE  TypeOK'
  <2>1. obj[t] \in Threads /\ updated[obj[t]] \in Nat BY <1>0, <1>6 DEF Update, IteratorIsValid
  <2>2. updated' \in [Threads -> Nat] BY <1>0, <1>6, <2>1 DEF Update
  <2>. QED BY <1>0, <1>6, <2>2 DEF Update
<1>7. ASSUME NEW t \in Threads, Advance(t)
      PROVE  TypeOK'
  <2>1. obj[t] \in Threads BY <1>0, <1>7 DEF Advance, IteratorIsValid
  <2>2. strong[obj[t]] > 0 BY <1>0, <2>1, OwnedIsAlive
  <2>3. strong' \in [Threads -> Nat]
    <3>. DEFINE f == obj[t]
    <3>1. strong' = [strong EXCEPT ![f] = @ - 1] BY <1>7 DEF Advance, StrongWithout
    <3>2. strong \in [Threads -> Nat] /\ f \in Threads /\ strong[f] > 0 BY <1>0, <2>1, <2>2
    <3>. HIDE DEF f, TypeOK
    <3>. QED BY <3>1, <3>2
  <2>4. pc' \in [Threads -> LockedPCs \cup FreePCs] BY <1>0, <1>7 DEF Advance
  <2>5. it' \in [Threads -> Nat \ {0}] /\ obj' \in [Threads -> Threads \cup {NoFoo}]
    BY <1>0, <1>7 DEF Advance
  <2>6. UNCHANGED <<owner, observers, atStart, updated>> BY <1>7 DEF Advance
  <2>. QED BY <1>0, <2>3, <2>4, <2>5, <2>6
<1>8. ASSUME NEW t \in Threads, Erase(t)
      PROVE  TypeOK'
  <2>1. it[t] \in 1 .. Len(observers) BY <1>0, <1>8 DEF Erase, IteratorIsValid
  <2>. QED BY <1>0, <1>8, <2>1, RemoveAtProperties DEF Erase, Erased, ErasedAt
<1>9. ASSUME NEW t \in Threads, Return(t)
      PROVE  TypeOK'
  <2>1. strong[t] > 0 BY <1>0, <1>9, OwnedIsAlive DEF Return
  <2>. QED BY <1>0, <1>9, <2>1 DEF Return, StrongWithout
<1>10. CASE UNCHANGED vars BY <1>0, <1>10 DEF vars
<1>. QED BY <1>1, <1>2, <1>3, <1>4, <1>5, <1>6, <1>7, <1>8, <1>9, <1>10
         DEF Next, Thread, Joined

\* Every step keeps a thread in its critical section the owner of the mutex.
LEMMA MutexPreserved ==
    ASSUME TypeOK, MutexIsHeld, [Next]_vars
    PROVE  MutexIsHeld'
<1>. USE ObservableAssumption
     DEF ObservableAssumption, TypeOK, MutexIsHeld, Goto, LockedPCs, PassPCs, FreePCs
<1>1. ASSUME NEW t \in Threads, Make(t) \/ RegisterPush(t) \/ Return(t)
      PROVE  MutexIsHeld'
  BY <1>1 DEF Make, RegisterPush, Return
<1>2. ASSUME NEW t \in Threads, RegisterLock(t) \/ NotifyLock(t)
      PROVE  MutexIsHeld'
  BY <1>2 DEF RegisterLock, NotifyLock, Acquire
<1>3. ASSUME NEW t \in Threads, RegisterUnlock(t) \/ NotifyUnlock(t)
      PROVE  MutexIsHeld'
  BY <1>3 DEF RegisterUnlock, NotifyUnlock, Release
<1>4. ASSUME NEW t \in Threads, LockWeak(t)
      PROVE  MutexIsHeld'
  BY <1>4 DEF LockWeak
<1>5. ASSUME NEW t \in Threads, Update(t) \/ Advance(t) \/ Erase(t)
      PROVE  MutexIsHeld'
  BY <1>5 DEF Update, Advance, Erase
<1>6. CASE UNCHANGED vars BY <1>6 DEF vars
<1>. QED BY <1>1, <1>2, <1>3, <1>4, <1>5, <1>6 DEF Next, Thread, Joined

\* The entries of the vector are Foos.
LEMMA EntriesAreThreads ==
    ASSUME TypeOK
    PROVE  Len(observers) \in Nat /\ \A k \in 1 .. Len(observers) : observers[k] \in Threads
<1>. USE DEF TypeOK
<1>1. Len(observers) \in Nat BY LenProperties
<1>2. \A k \in 1 .. Len(observers) : observers[k] \in Threads BY ElementOfSeq
<1>. QED BY <1>1, <1>2

\* What a step of erase() does to the vector: the entry at its iterator goes.
LEMMA EraseRemoves ==
    ASSUME TypeOK, IteratorIsValid, NEW t \in Threads, Erase(t)
    PROVE  /\ it[t] \in 1 .. Len(observers)
           /\ Len(observers) \in Nat
           /\ observers' \in Seq(Threads)
           /\ Len(observers') = Len(observers) - 1
           /\ \A k \in 1 .. Len(observers) - 1 :
                 observers'[k] = IF k < it[t] THEN observers[k] ELSE observers[k + 1]
<1>1. pc[t] = "erase" /\ observers' = RemoveAt(observers, it[t])
  BY DEF Erase, Erased, Goto
<1>2. it[t] \in 1 .. Len(observers)
  <2>1. it[t] \in 1 .. Len(observers) + 1 /\ it[t] <= Len(observers)
    BY <1>1 DEF IteratorIsValid, PassPCs
  <2>2. Len(observers) \in Nat BY LenProperties DEF TypeOK
  <2>. QED BY <2>1, <2>2
<1>3. observers \in Seq(Threads) BY DEF TypeOK
<1>4. Len(observers) \in Nat BY <1>3, LenProperties
<1>. QED BY <1>1, <1>2, <1>3, <1>4, RemoveAtProperties

\* What a step of push_back does to it: one entry more.
LEMMA PushAppends ==
    ASSUME TypeOK, NEW t \in Threads, RegisterPush(t)
    PROVE  /\ Len(observers) \in Nat
           /\ observers' \in Seq(Threads)
           /\ Len(observers') = Len(observers) + 1
           /\ \A k \in 1 .. Len(observers) : observers'[k] = observers[k]
           /\ observers'[Len(observers) + 1] = t
BY AppendProperties, LenProperties DEF RegisterPush, TypeOK

\* The entry that the iterator points to when it is locked.
LEMMA LockWeakReads ==
    ASSUME TypeOK, NEW t \in Threads, LockWeak(t)
    PROVE  it[t] \in 1 .. Len(observers) /\ observers[it[t]] \in Threads
<1>1. it[t] \in 1 .. Len(observers)
  <2>1. ~(it[t] > Len(observers)) BY DEF LockWeak, AtEnd
  <2>2. it[t] \in Nat \ {0} /\ Len(observers) \in Nat BY LenProperties DEF TypeOK
  <2>. QED BY <2>1, <2>2
<1>. QED BY <1>1, ElementOfSeq DEF TypeOK

\* Every step keeps the entries distinct, and none of a Foo not yet registered.
LEMMA EntriesPreserved ==
    ASSUME TypeOK, IteratorIsValid, EntriesAreDistinct, [Next]_vars
    PROVE  EntriesAreDistinct'
<1>. USE DEF EntriesAreDistinct, Goto
<1>0. /\ \A k \in 1 .. Len(observers) : observers[k] \in Threads
      /\ Len(observers) \in Nat
      /\ pc \in [Threads -> LockedPCs \cup FreePCs]
  BY EntriesAreThreads DEF TypeOK
<1>1. ASSUME NEW t \in Threads, RegisterPush(t)
      PROVE  EntriesAreDistinct'
  <2>1. /\ Len(observers') = Len(observers) + 1
        /\ \A k \in 1 .. Len(observers) : observers'[k] = observers[k]
        /\ observers'[Len(observers) + 1] = t
    BY <1>1, PushAppends
  <2>2. pc[t] = "push" /\ pc' = [pc EXCEPT ![t] = "registered"] BY <1>1 DEF RegisterPush
  <2>3. \A k \in 1 .. Len(observers) : observers[k] # t BY <2>2
  <2>4. ASSUME NEW j \in 1 .. Len(observers'), NEW k \in 1 .. Len(observers'),
               observers'[j] = observers'[k]
        PROVE  j = k
    BY <1>0, <2>1, <2>3, <2>4
  <2>5. ASSUME NEW k \in 1 .. Len(observers')
        PROVE  pc'[observers'[k]] \notin {"make", "register", "push"}
    BY <1>0, <2>1, <2>2, <2>3
  <2>. QED BY <2>4, <2>5
<1>2. ASSUME NEW t \in Threads, Erase(t)
      PROVE  EntriesAreDistinct'
  <2>. USE <1>2, EraseRemoves
  <2>1. ASSUME NEW j \in 1 .. Len(observers'), NEW k \in 1 .. Len(observers'),
               observers'[j] = observers'[k]
        PROVE  j = k
    BY <2>1
  <2>2. ASSUME NEW k \in 1 .. Len(observers')
        PROVE  pc'[observers'[k]] \notin {"make", "register", "push"}
    <3>1. \E j \in 1 .. Len(observers) : observers'[k] = observers[j] OBVIOUS
    <3>. QED BY <1>0, <3>1 DEF Erase
  <2>. QED BY <2>1, <2>2
<1>3. ASSUME NEW t \in Threads, Make(t) \/ RegisterLock(t) \/ RegisterUnlock(t)
      PROVE  EntriesAreDistinct'
  BY <1>0, <1>3 DEF Make, RegisterLock, RegisterUnlock
<1>4. ASSUME NEW t \in Threads, NotifyLock(t) \/ NotifyUnlock(t) \/ Return(t)
      PROVE  EntriesAreDistinct'
  BY <1>0, <1>4 DEF NotifyLock, NotifyUnlock, Return
<1>5. ASSUME NEW t \in Threads, LockWeak(t)
      PROVE  EntriesAreDistinct'
  BY <1>0, <1>5 DEF LockWeak
<1>6. ASSUME NEW t \in Threads, Update(t) \/ Advance(t)
      PROVE  EntriesAreDistinct'
  BY <1>0, <1>6 DEF Update, Advance
<1>7. CASE UNCHANGED vars BY <1>7 DEF vars
<1>. QED BY <1>1, <1>2, <1>3, <1>4, <1>5, <1>6, <1>7 DEF Next, Thread, Joined

\* Only the owner of the mutex is between a lock and its unlock.
LEMMA OneHolder ==
    ASSUME MutexIsHeld, NEW t \in Threads, NEW u \in Threads,
           pc[t] \in LockedPCs, pc[u] \in LockedPCs
    PROVE  t = u
BY DEF MutexIsHeld

\* Every step keeps a registered Foo that is alive in the vector.
LEMMA LivePreserved ==
    ASSUME TypeOK, IteratorIsValid, LiveIsListed, [Next]_vars
    PROVE  LiveIsListed'
<1>. USE DEF LiveIsListed, Goto
<1>0. /\ \A k \in 1 .. Len(observers) : observers[k] \in Threads
      /\ Len(observers) \in Nat
      /\ pc \in [Threads -> LockedPCs \cup FreePCs]
      /\ strong \in [Threads -> Nat]
  BY EntriesAreThreads DEF TypeOK
<1>1. ASSUME NEW t \in Threads, RegisterPush(t)
      PROVE  LiveIsListed'
  BY <1>0, <1>1, PushAppends DEF RegisterPush
<1>2. ASSUME NEW t \in Threads, Erase(t)
      PROVE  LiveIsListed'
  <2>. USE <1>2, EraseRemoves
  <2>. SUFFICES ASSUME NEW f \in Threads, strong[f] > 0, pc'[f] \notin {"register", "push"}
                PROVE  \E k \in 1 .. Len(observers') : observers'[k] = f
    BY DEF Erase
  <2>1. PICK k \in 1 .. Len(observers) : observers[k] = f BY <1>0 DEF Erase
  <2>2. k # it[t] BY <2>1 DEF Erase, IteratorIsValid
  <2>3. CASE k < it[t]
    <3>1. k \in 1 .. Len(observers') /\ observers'[k] = f BY <2>1, <2>3
    <3>. QED BY <3>1
  <2>4. CASE k > it[t]
    <3>1. k - 1 \in 1 .. Len(observers') /\ observers'[k - 1] = f BY <2>1, <2>4
    <3>. QED BY <3>1
  <2>. QED BY <2>2, <2>3, <2>4
<1>3. ASSUME NEW t \in Threads, Make(t) \/ RegisterLock(t) \/ RegisterUnlock(t)
      PROVE  LiveIsListed'
  BY <1>0, <1>3 DEF Make, RegisterLock, RegisterUnlock
<1>4. ASSUME NEW t \in Threads, NotifyLock(t) \/ NotifyUnlock(t)
      PROVE  LiveIsListed'
  BY <1>0, <1>4 DEF NotifyLock, NotifyUnlock
<1>5. ASSUME NEW t \in Threads, LockWeak(t)
      PROVE  LiveIsListed'
  BY <1>0, <1>5 DEF LockWeak
<1>6. ASSUME NEW t \in Threads, Update(t)
      PROVE  LiveIsListed'
  BY <1>0, <1>6 DEF Update
<1>7. ASSUME NEW t \in Threads, NEW f \in Threads, strong' = StrongWithout(f),
             Advance(t) \/ Return(t)
      PROVE  LiveIsListed'
  <2>1. \A g \in Threads : strong'[g] > 0 => strong[g] > 0 BY <1>0, <1>7 DEF StrongWithout
  <2>2. observers' = observers /\ \A g \in Threads : pc'[g] \notin {"register", "push"}
                                                    => pc[g] \notin {"register", "push"}
    BY <1>0, <1>7 DEF Advance, Return
  <2>. QED BY <2>1, <2>2
<1>8. ASSUME NEW t \in Threads, Advance(t) \/ Return(t)
      PROVE  LiveIsListed'
  <2>1. CASE Return(t) BY <1>7, <2>1 DEF Return
  <2>2. CASE Advance(t)
    <3>1. obj[t] \in Threads BY <2>2 DEF Advance, IteratorIsValid, TypeOK
    <3>. QED BY <1>7, <2>2, <3>1 DEF Advance
  <2>. QED BY <1>8, <2>1, <2>2
<1>9. CASE UNCHANGED vars BY <1>9 DEF vars
<1>. QED BY <1>1, <1>2, <1>3, <1>4, <1>5, <1>6, <1>8, <1>9 DEF Next, Thread, Joined

\* Every step keeps the iterator of a pass on an entry or behind the last one,
\* and what the thread knows of that entry.
LEMMA IteratorsPreserved ==
    ASSUME TypeOK, MutexIsHeld, IteratorIsValid, EntriesAreDistinct, CountsAreExact,
           [Next]_vars
    PROVE  IteratorIsValid'
<1>. USE DEF IteratorIsValid, Goto, PassPCs, LockedPCs, FreePCs
<1>0. /\ \A k \in 1 .. Len(observers) : observers[k] \in Threads
      /\ Len(observers) \in Nat
      /\ pc \in [Threads -> LockedPCs \cup FreePCs]
      /\ strong \in [Threads -> Nat]
      /\ it \in [Threads -> Nat \ {0}]
      /\ obj \in [Threads -> Threads \cup {NoFoo}]
  BY EntriesAreThreads DEF TypeOK
<1>1. ASSUME NEW t \in Threads, Make(t)
      PROVE  IteratorIsValid'
  BY <1>0, <1>1 DEF Make, EntriesAreDistinct
<1>2. ASSUME NEW t \in Threads, RegisterLock(t) \/ RegisterUnlock(t) \/ NotifyUnlock(t)
      PROVE  IteratorIsValid'
  BY <1>0, <1>2 DEF RegisterLock, RegisterUnlock, NotifyUnlock
<1>3. ASSUME NEW t \in Threads, RegisterPush(t) \/ NotifyLock(t)
      PROVE  IteratorIsValid'
  BY <1>0, <1>3 DEF RegisterPush, NotifyLock, MutexIsHeld, Acquire
<1>4. ASSUME NEW t \in Threads, LockWeak(t)
      PROVE  IteratorIsValid'
  <2>. DEFINE f == observers[it[t]]
  <2>1. it[t] \in 1 .. Len(observers) /\ f \in Threads /\ f # NoFoo
    BY <1>4, LockWeakReads, ObservableAssumption DEF ObservableAssumption
  <2>2. CASE /\ strong[f] > 0 /\ pc[t] = "loop" /\ pc' = [pc EXCEPT ![t] = "update"]
             /\ obj' = [obj EXCEPT ![t] = f] /\ strong' = [strong EXCEPT ![f] = @ + 1]
    BY <1>0, <1>4, <2>1, <2>2, OneHolder DEF LockWeak
  <2>3. CASE /\ strong[f] = 0 /\ pc[t] = "loop" /\ pc' = [pc EXCEPT ![t] = "erase"]
             /\ UNCHANGED <<obj, strong>>
    BY <1>0, <1>4, <2>1, <2>3, OneHolder DEF LockWeak
  <2>. QED BY <1>4, <2>2, <2>3 DEF LockWeak
<1>5. ASSUME NEW t \in Threads, Update(t)
      PROVE  IteratorIsValid'
  BY <1>0, <1>5 DEF Update
<1>6. ASSUME NEW t \in Threads, Advance(t)
      PROVE  IteratorIsValid'
  BY <1>0, <1>6, OneHolder DEF Advance, StrongWithout
<1>7. ASSUME NEW t \in Threads, Erase(t)
      PROVE  IteratorIsValid'
  <2>1. \A u \in Threads \ {t} : pc[u] \notin PassPCs BY <1>0, <1>7, OneHolder DEF Erase
  <2>2. it[t] \in 1 .. Len(observers) /\ Len(observers') = Len(observers) - 1
    BY <1>7, EraseRemoves
  <2>. QED BY <1>0, <1>7, <2>1, <2>2 DEF Erase, ErasedAt
<1>8. ASSUME NEW t \in Threads, Return(t)
      PROVE  IteratorIsValid'
  <2>1. strong[t] > 0 BY <1>8, OwnedIsAlive DEF Return
  <2>2. ASSUME NEW u \in Threads, pc[u] = "erase"
        PROVE  /\ observers[it[u]] \in Threads /\ observers[it[u]] # t
               /\ strong'[observers[it[u]]] = 0
    BY <1>0, <1>8, <2>1, <2>2 DEF Return, StrongWithout
  <2>. QED BY <1>0, <1>8, <2>2 DEF Return
<1>9. CASE UNCHANGED vars BY <1>9 DEF vars
<1>. QED BY <1>1, <1>2, <1>3, <1>4, <1>5, <1>6, <1>7, <1>8, <1>9 DEF Next, Thread, Joined

\* A step that makes no owner and ends none.
LEMMA SameOwners ==
    ASSUME CountsAreExact, UNCHANGED <<strong, obj>>,
           \A t \in Threads : pc'[t] \in {"make", "done"} <=> pc[t] \in {"make", "done"}
    PROVE  CountsAreExact'
<1>1. ASSUME NEW f \in Threads PROVE Owners(f)' = Owners(f) BY DEF Owners
<1>. QED BY <1>1 DEF CountsAreExact

\* notifyObservers of t locks g: one owner more.
LEMMA OneMoreOwner ==
    ASSUME TypeOK, CountsAreExact, NEW t \in Threads, NEW g \in Threads,
           obj[t] = NoFoo, obj' = [obj EXCEPT ![t] = g],
           strong' = [strong EXCEPT ![g] = @ + 1],
           \A u \in Threads : pc'[u] \in {"make", "done"} <=> pc[u] \in {"make", "done"}
    PROVE  CountsAreExact'
<1>0. /\ NoFoo \notin Threads /\ obj \in [Threads -> Threads \cup {NoFoo}]
      /\ strong \in [Threads -> Nat]
  BY ObservableAssumption DEF ObservableAssumption, TypeOK
<1>1. ASSUME NEW f \in Threads \ {g}
      PROVE  Owners(f)' = Owners(f) /\ (obj'[f] = f <=> obj[f] = f)
  BY <1>0 DEF Owners
<1>2. CASE g = t
  <2>1. Owners(g)' = Owners(g) BY <1>0, <1>2 DEF Owners
  <2>2. obj'[g] = g /\ obj[g] # g BY <1>0, <1>2
  <2>. QED BY <1>0, <1>1, <2>1, <2>2, OwnersAreFinite DEF CountsAreExact
<1>3. CASE g # t
  <2>1. Owners(g)' = Owners(g) \cup {t} /\ t \notin Owners(g) BY <1>0, <1>3 DEF Owners
  <2>2. Cardinality(Owners(g)') = Cardinality(Owners(g)) + 1
    BY <2>1, OwnersAreFinite, FS_AddElement
  <2>3. obj'[g] = obj[g] BY <1>0, <1>3
  <2>. QED BY <1>0, <1>1, <2>2, <2>3, OwnersAreFinite DEF CountsAreExact
<1>. QED BY <1>2, <1>3

\* notifyObservers of t gives its obj up: one owner less.
LEMMA OneOwnerLess ==
    ASSUME TypeOK, CountsAreExact, NEW t \in Threads, NEW g \in Threads,
           obj[t] = g, obj' = [obj EXCEPT ![t] = NoFoo],
           strong' = [strong EXCEPT ![g] = @ - 1],
           \A u \in Threads : pc'[u] \in {"make", "done"} <=> pc[u] \in {"make", "done"}
    PROVE  CountsAreExact'
<1>0. /\ NoFoo \notin Threads /\ obj \in [Threads -> Threads \cup {NoFoo}]
      /\ strong \in [Threads -> Nat]
  BY ObservableAssumption DEF ObservableAssumption, TypeOK
<1>1. ASSUME NEW f \in Threads \ {g}
      PROVE  Owners(f)' = Owners(f) /\ (obj'[f] = f <=> obj[f] = f)
  BY <1>0 DEF Owners
<1>2. CASE g = t
  <2>1. Owners(g)' = Owners(g) BY <1>0, <1>2 DEF Owners
  <2>2. obj'[g] # g /\ obj[g] = g BY <1>0, <1>2
  <2>. QED BY <1>0, <1>1, <2>1, <2>2, OwnersAreFinite DEF CountsAreExact
<1>3. CASE g # t
  <2>1. Owners(g)' = Owners(g) \ {t} /\ t \in Owners(g) BY <1>0, <1>3 DEF Owners
  <2>2. Cardinality(Owners(g)') = Cardinality(Owners(g)) - 1
    BY <2>1, OwnersAreFinite, FS_RemoveElement
  <2>3. obj'[g] = obj[g] BY <1>0, <1>3
  <2>. QED BY <1>0, <1>1, <2>2, <2>3, OwnersAreFinite DEF CountsAreExact
<1>. QED BY <1>2, <1>3

\* Every step keeps the reference counts exact.
LEMMA CountsPreserved ==
    ASSUME TypeOK, IteratorIsValid, EntriesAreDistinct, CountsAreExact, [Next]_vars
    PROVE  CountsAreExact'
<1>0. /\ pc \in [Threads -> LockedPCs \cup FreePCs]
      /\ strong \in [Threads -> Nat]
      /\ obj \in [Threads -> Threads \cup {NoFoo}]
      /\ NoFoo \notin Threads
  BY ObservableAssumption DEF TypeOK, ObservableAssumption
<1>1. ASSUME NEW t \in Threads, Make(t)
      PROVE  CountsAreExact'
  <2>. USE <1>0, <1>1 DEF Make, Goto
  <2>1. ASSUME NEW u \in Threads PROVE obj[u] # t
    <3>1. SUFFICES ASSUME obj[u] = t PROVE FALSE OBVIOUS
    <3>2. it[u] \in 1 .. Len(observers) /\ observers[it[u]] = t
      BY <3>1, EntriesAreThreads DEF IteratorIsValid, PassPCs
    <3>. QED BY <3>2 DEF EntriesAreDistinct
  <2>2. Owners(t)' = {t} BY <2>1 DEF Owners
  <2>3. Cardinality(Owners(t)') = 1 BY <2>2, FS_Singleton
  <2>4. ASSUME NEW f \in Threads \ {t} PROVE Owners(f)' = Owners(f) BY DEF Owners
  <2>. QED BY <2>1, <2>3, <2>4 DEF CountsAreExact
<1>2. ASSUME NEW t \in Threads, LockWeak(t)
      PROVE  CountsAreExact'
  <2>. DEFINE g == observers[it[t]]
  <2>1. g \in Threads /\ obj[t] = NoFoo
    BY <1>0, <1>2, LockWeakReads DEF LockWeak, IteratorIsValid, Goto
  <2>2. CASE /\ pc[t] = "loop" /\ pc' = [pc EXCEPT ![t] = "update"]
             /\ obj' = [obj EXCEPT ![t] = g] /\ strong' = [strong EXCEPT ![g] = @ + 1]
    <3>1. \A u \in Threads : pc'[u] \in {"make", "done"} <=> pc[u] \in {"make", "done"}
      BY <1>0, <2>2
    <3>. QED BY <2>1, <2>2, <3>1, OneMoreOwner
  <2>3. CASE UNCHANGED <<obj, strong>> /\ pc[t] = "loop" /\ pc' = [pc EXCEPT ![t] = "erase"]
    BY <1>0, <2>3, SameOwners
  <2>. QED BY <1>2, <2>2, <2>3 DEF LockWeak, Goto
<1>3. ASSUME NEW t \in Threads, Advance(t)
      PROVE  CountsAreExact'
  <2>1. obj[t] \in Threads BY <1>0, <1>3 DEF Advance, IteratorIsValid, Goto
  <2>2. \A u \in Threads : pc'[u] \in {"make", "done"} <=> pc[u] \in {"make", "done"}
    BY <1>0, <1>3 DEF Advance, Goto
  <2>. QED BY <1>3, <2>1, <2>2, OneOwnerLess DEF Advance, StrongWithout
<1>4. ASSUME NEW t \in Threads, Return(t)
      PROVE  CountsAreExact'
  <2>. USE <1>0, <1>4 DEF Return, Goto
  <2>1. obj[t] = NoFoo BY DEF IteratorIsValid
  <2>2. Owners(t)' = Owners(t) \ {t} /\ t \in Owners(t) BY <2>1 DEF Owners
  <2>3. Cardinality(Owners(t)') = Cardinality(Owners(t)) - 1
    BY <2>2, OwnersAreFinite, FS_RemoveElement
  <2>4. ASSUME NEW f \in Threads \ {t} PROVE Owners(f)' = Owners(f) BY DEF Owners
  <2>. QED BY <2>1, <2>3, <2>4, OwnersAreFinite DEF CountsAreExact, StrongWithout
<1>5. ASSUME NEW t \in Threads, RegisterLock(t) \/ RegisterPush(t) \/ RegisterUnlock(t)
      PROVE  CountsAreExact'
  BY <1>0, <1>5, SameOwners DEF RegisterLock, RegisterPush, RegisterUnlock, Goto
<1>6. ASSUME NEW t \in Threads, NotifyLock(t) \/ NotifyUnlock(t)
      PROVE  CountsAreExact'
  BY <1>0, <1>6, SameOwners DEF NotifyLock, NotifyUnlock, Goto
<1>7. ASSUME NEW t \in Threads, Update(t) \/ Erase(t)
      PROVE  CountsAreExact'
  BY <1>0, <1>7, SameOwners DEF Update, Erase, Goto
<1>8. CASE UNCHANGED vars BY <1>8, SameOwners DEF vars
<1>. QED BY <1>1, <1>2, <1>3, <1>4, <1>5, <1>6, <1>7, <1>8 DEF Next, Thread, Joined

\* Every step of a pass keeps it on track, and no other step touches it.
LEMMA PassPreserved ==
    ASSUME TypeOK, MutexIsHeld, IteratorIsValid, EntriesAreDistinct,
           UpdatedOnce, PassIsOnTrack, [Next]_vars
    PROVE  UpdatedOnce' /\ PassIsOnTrack'
<1>. DEFINE OnTrack(t) == /\ Dropped >= 0
                          /\ \A k \in it[t] .. Len(observers) : observers[k] = atStart[k + Dropped]
                          /\ \A f \in Threads : updated[f] = 1 <=> f \in Visited(t)
                          /\ InOrderOf(atStart)
<1>0. /\ \A k \in 1 .. Len(observers) : observers[k] \in Threads
      /\ Len(observers) \in Nat
      /\ pc \in [Threads -> LockedPCs \cup FreePCs]
      /\ it \in [Threads -> Nat \ {0}]
      /\ updated \in [Threads -> Nat]
  BY EntriesAreThreads DEF TypeOK
<1>1. ASSUME NEW t \in Threads, Make(t) \/ RegisterLock(t) \/ RegisterUnlock(t) \/ Return(t)
      PROVE  UpdatedOnce' /\ PassIsOnTrack'
  <2>1. UNCHANGED <<observers, it, atStart, updated>>
    BY <1>1 DEF Make, RegisterLock, RegisterUnlock, Return, pass
  <2>2. \A u \in Threads : pc'[u] \in PassPCs => pc[u] = pc'[u]
    BY <1>0, <1>1 DEF Make, RegisterLock, RegisterUnlock, Return, Goto, PassPCs
  <2>3. ASSUME NEW u \in Threads, pc'[u] \in PassPCs PROVE OnTrack(u)'
    BY <2>1, <2>2, <2>3 DEF PassIsOnTrack, Dropped, Visited, InOrderOf
  <2>. QED BY <2>1, <2>3 DEF UpdatedOnce, PassIsOnTrack
<1>2. ASSUME NEW t \in Threads, RegisterPush(t) \/ NotifyUnlock(t)
      PROVE  UpdatedOnce' /\ PassIsOnTrack'
  <2>1. \A u \in Threads : pc'[u] \notin PassPCs
    BY <1>0, <1>2, OneHolder DEF RegisterPush, NotifyUnlock, Goto, PassPCs, LockedPCs
  <2>2. UNCHANGED updated BY <1>2 DEF RegisterPush, NotifyUnlock, pass
  <2>. QED BY <2>1, <2>2 DEF UpdatedOnce, PassIsOnTrack
<1>3. ASSUME NEW t \in Threads, NotifyLock(t)
      PROVE  UpdatedOnce' /\ PassIsOnTrack'
  <2>1. \A u \in Threads \ {t} : pc'[u] \notin PassPCs
    BY <1>0, <1>3, ObservableAssumption
       DEF ObservableAssumption, NotifyLock, Acquire, MutexIsHeld, Goto, PassPCs, LockedPCs
  <2>2. /\ it'[t] = 1 /\ pc'[t] = "loop" /\ atStart' = observers
        /\ observers' = observers /\ updated' = [f \in Threads |-> 0]
    BY <1>0, <1>3 DEF NotifyLock, Goto
  <2>3. OnTrack(t)' BY <1>0, <2>2 DEF Dropped, Visited, InOrderOf
  <2>. QED BY <2>1, <2>2, <2>3 DEF UpdatedOnce, PassIsOnTrack
<1>4. ASSUME NEW t \in Threads, pc[t] \in PassPCs, pc' = [pc EXCEPT ![t] = pc'[t]],
             UpdatedOnce', OnTrack(t)'
      PROVE  UpdatedOnce' /\ PassIsOnTrack'
  <2>1. \A u \in Threads \ {t} : pc'[u] \notin PassPCs
    BY <1>0, <1>4, OneHolder DEF LockedPCs
  <2>. QED BY <1>4, <2>1 DEF PassIsOnTrack
<1>5. ASSUME NEW t \in Threads, LockWeak(t)
      PROVE  UpdatedOnce' /\ PassIsOnTrack'
  <2>1. /\ UNCHANGED <<observers, it, atStart, updated>> /\ pc[t] = "loop"
        /\ pc'[t] \in {"update", "erase"} /\ pc' = [pc EXCEPT ![t] = pc'[t]]
    BY <1>0, <1>5 DEF LockWeak, Goto, pass
  <2>2. OnTrack(t)' BY <2>1 DEF PassIsOnTrack, PassPCs, Dropped, Visited, InOrderOf
  <2>. QED BY <1>4, <2>1, <2>2 DEF UpdatedOnce, PassPCs
<1>6. ASSUME NEW t \in Threads, Update(t)
      PROVE  UpdatedOnce' /\ PassIsOnTrack'
  <2>0. it[t] \in 1 .. Len(observers) /\ obj[t] = observers[it[t]]
    BY <1>0, <1>6 DEF Update, Goto, IteratorIsValid, PassPCs
  <2>1. /\ UNCHANGED <<observers, it, atStart>> /\ pc[t] = "update"
        /\ pc'[t] = "advance" /\ pc' = [pc EXCEPT ![t] = pc'[t]]
        /\ updated' = [updated EXCEPT ![observers[it[t]]] = @ + 1]
    BY <1>0, <1>6, <2>0 DEF Update, Goto
  <2>2. observers[it[t]] \notin Visited(t)
    BY <1>0, <2>0, <2>1 DEF Visited, EntriesAreDistinct
  <2>3. updated[observers[it[t]]] = 0
    BY <1>0, <2>0, <2>1, <2>2 DEF PassIsOnTrack, PassPCs, UpdatedOnce
  <2>4. UpdatedOnce' BY <1>0, <2>1, <2>3 DEF UpdatedOnce
  <2>5. Visited(t)' = Visited(t) \cup {observers[it[t]]} BY <1>0, <2>0, <2>1 DEF Visited
  <2>6. \A f \in Threads : updated'[f] = 1 <=> f \in Visited(t)'
    BY <1>0, <2>1, <2>3, <2>5 DEF PassIsOnTrack, PassPCs
  <2>7. OnTrack(t)' BY <2>1, <2>6 DEF PassIsOnTrack, PassPCs, Dropped, InOrderOf
  <2>. QED BY <1>4, <2>1, <2>4, <2>7 DEF PassPCs
<1>7. ASSUME NEW t \in Threads, Advance(t)
      PROVE  UpdatedOnce' /\ PassIsOnTrack'
  <2>1. /\ UNCHANGED <<observers, atStart, updated>> /\ pc[t] = "advance"
        /\ pc'[t] = "loop" /\ pc' = [pc EXCEPT ![t] = pc'[t]] /\ it'[t] = it[t] + 1
    BY <1>0, <1>7 DEF Advance, Goto, pass
  <2>2. Visited(t)' = Visited(t) BY <1>0, <2>1 DEF Visited
  <2>3. OnTrack(t) BY <2>1 DEF PassIsOnTrack, PassPCs
  <2>4. ASSUME NEW k \in it'[t] .. Len(observers') PROVE k \in it[t] .. Len(observers)
    BY <1>0, <2>1
  <2>5. \A k \in it'[t] .. Len(observers') : observers'[k] = atStart'[k + Dropped']
    BY <2>1, <2>3, <2>4 DEF Dropped
  <2>6. OnTrack(t)' BY <2>1, <2>2, <2>3, <2>5 DEF Dropped, InOrderOf
  <2>. QED BY <1>4, <2>1, <2>6 DEF UpdatedOnce, PassPCs
<1>8. ASSUME NEW t \in Threads, Erase(t)
      PROVE  UpdatedOnce' /\ PassIsOnTrack'
  <2>1. /\ UNCHANGED <<atStart, updated>> /\ pc[t] = "erase"
        /\ pc'[t] = "loop" /\ pc' = [pc EXCEPT ![t] = pc'[t]] /\ it'[t] = it[t]
    BY <1>0, <1>8 DEF Erase, ErasedAt, Goto, pass
  <2>2. /\ it[t] \in 1 .. Len(observers)
        /\ Len(observers') = Len(observers) - 1
        /\ \A k \in 1 .. Len(observers) - 1 :
              observers'[k] = IF k < it[t] THEN observers[k] ELSE observers[k + 1]
    BY <1>8, EraseRemoves
  <2>3. OnTrack(t) BY <2>1 DEF PassIsOnTrack, PassPCs
  <2>4. Len(atStart) \in Nat BY LenProperties DEF TypeOK
  <2>5. Dropped' = Dropped + 1 BY <1>0, <2>1, <2>2, <2>4 DEF Dropped
  <2>6. Visited(t)' = Visited(t)
    <3>1. \A k \in 1 .. it[t] - 1 : observers'[k] = observers[k] BY <1>0, <2>2
    <3>2. Visited(t) = {observers[k] : k \in 1 .. it[t] - 1} BY <2>1 DEF Visited
    <3>3. Visited(t)' = {observers'[k] : k \in 1 .. it[t] - 1} BY <2>1 DEF Visited
    <3>. QED BY <3>1, <3>2, <3>3
  <2>7. ASSUME NEW k \in it'[t] .. Len(observers')
        PROVE  observers'[k] = atStart'[k + Dropped']
    <3>1. observers'[k] = observers[k + 1] BY <1>0, <2>1, <2>2
    <3>2. observers[k + 1] = atStart[(k + 1) + Dropped]
      <4>1. k + 1 \in it[t] .. Len(observers) BY <1>0, <2>1, <2>2
      <4>. QED BY <2>3, <4>1
    <3>3. (k + 1) + Dropped = k + (Dropped + 1) BY <1>0, <2>2, <2>4 DEF Dropped
    <3>. QED BY <2>1, <2>5, <3>1, <3>2, <3>3
  <2>8. InOrderOf(atStart)'
    <3>. DEFINE At(k) == IF k < it[t] THEN k ELSE k + 1
    <3>1. ASSUME NEW j \in 1 .. Len(observers'), NEW k \in 1 .. Len(observers'), j <= k
          PROVE  \E a, b \in DOMAIN atStart :
                    a <= b /\ atStart[a] = observers'[j] /\ atStart[b] = observers'[k]
      <4>1. DOMAIN observers = 1 .. Len(observers) BY LenProperties DEF TypeOK
      <4>2. At(j) \in DOMAIN observers /\ At(k) \in DOMAIN observers /\ At(j) <= At(k)
        <5>1. /\ Len(observers) \in Nat /\ it[t] \in Int
              /\ j \in 1 .. Len(observers) - 1 /\ k \in 1 .. Len(observers) - 1
          BY <1>0, <2>2
        <5>2. At(j) \in 1 .. Len(observers) BY <5>1
        <5>3. At(k) \in 1 .. Len(observers) BY <5>1
        <5>4. At(j) <= At(k) BY <3>1, <5>1
        <5>. QED BY <4>1, <5>2, <5>3, <5>4
      <4>3. observers'[j] = observers[At(j)] /\ observers'[k] = observers[At(k)]
        BY <1>0, <2>2, <3>1
      <4>. HIDE DEF At
      <4>. QED BY <2>3, <4>2, <4>3 DEF InOrderOf
    <3>2. DOMAIN observers' = 1 .. Len(observers') BY <1>8, EraseRemoves, LenProperties
    <3>. QED BY <2>1, <3>1, <3>2 DEF InOrderOf
  <2>9. OnTrack(t)' BY <2>1, <2>3, <2>4, <2>5, <2>6, <2>7, <2>8 DEF Dropped
  <2>. QED BY <1>4, <2>1, <2>9 DEF UpdatedOnce, PassPCs
<1>9. CASE UNCHANGED vars
  <2>1. \A u \in Threads : OnTrack(u)' <=> OnTrack(u)
    BY <1>9 DEF vars, Dropped, Visited, InOrderOf
  <2>. QED BY <1>9, <2>1 DEF vars, UpdatedOnce, PassIsOnTrack
<1>. QED BY <1>1, <1>2, <1>3, <1>5, <1>6, <1>7, <1>8, <1>9 DEF Next, Thread, Joined

\* The invariant holds in every behaviour.
THEOREM Invariance == Spec => []IInv
<1>1. ASSUME IInv, [Next]_vars PROVE IInv'
  BY <1>1, TypesPreserved, MutexPreserved, IteratorsPreserved, EntriesPreserved,
     CountsPreserved, LivePreserved, PassPreserved DEF IInv
<1>2. IInv /\ [Next]_vars => IInv' BY <1>1
<1>. QED BY <1>2, InitEstablishes, PTL DEF Spec

----------------------------------------------------------------------------
(* Theorems                                                                *)

\* Every variable has its type in every reachable state.
THEOREM TypeCorrect == Spec => []TypeOK
<1>1. IInv => TypeOK BY DEF IInv
<1>. QED BY <1>1, Invariance, PTL

\* A Foo has as many shared_ptrs as threads can reach it: what the control blocks
\* of demoTwo count through make_shared, lock() and the ends of scopes.
THEOREM CountsExact == Spec => []CountsAreExact
<1>1. IInv => CountsAreExact BY DEF IInv
<1>. QED BY <1>1, Invariance, PTL

\* obj->update() (line 103) never runs on a Foo that died, although the thread
\* that made it may return between lock() and update().
THEOREM UpdatesTheLiving ==
    Spec => [](\A t \in Threads : pc[t] = "update" => strong[obj[t]] > 0)
<1>1. ASSUME IInv, NEW t \in Threads, pc[t] = "update" PROVE strong[obj[t]] > 0
  <2>1. obj[t] \in Threads BY <1>1 DEF IInv, IteratorIsValid, TypeOK
  <2>. QED BY <1>1, <2>1, OwnedIsAlive DEF IInv
<1>2. IInv => \A t \in Threads : pc[t] = "update" => strong[obj[t]] > 0 BY <1>1
<1>. QED BY <1>2, Invariance, PTL

\* erase() drops dead entries only and push_back loses none: a Foo that is
\* registered and alive is in the vector once.
THEOREM LiveListed == Spec => []LiveObserversAreListed
<1>1. ASSUME IInv PROVE LiveObserversAreListed
  <2>1. DOMAIN observers = 1 .. Len(observers) BY <1>1, LenProperties DEF IInv, TypeOK
  <2>2. ASSUME NEW f \in Threads
        PROVE  Cardinality({k \in DOMAIN observers : observers[k] = f}) <= 1
    <3>. DEFINE entries == {k \in DOMAIN observers : observers[k] = f}
    <3>1. \A j, k \in entries : j = k BY <1>1, <2>1 DEF IInv, EntriesAreDistinct
    <3>. HIDE DEF entries
    <3>2. ASSUME entries = {} PROVE Cardinality(entries) <= 1 BY <3>2, FS_EmptySet
    <3>3. ASSUME entries # {} PROVE Cardinality(entries) <= 1
      <4>1. PICK k : k \in entries BY <3>3
      <4>2. entries = {k} BY <3>1, <4>1
      <4>3. Cardinality(entries) = 1 BY <4>2, FS_Singleton
      <4>. QED BY <4>3
    <3>4. Cardinality(entries) <= 1 BY <3>2, <3>3
    <3>. QED BY <3>4 DEF entries
  <2>3. ASSUME NEW f \in Threads, strong[f] > 0, pc[f] \notin {"register", "push"}
        PROVE  {k \in DOMAIN observers : observers[k] = f} # {}
    BY <1>1, <2>1, <2>3 DEF IInv, LiveIsListed
  <2>. QED BY <2>2, <2>3 DEF LiveObserversAreListed
<1>2. IInv => LiveObserversAreListed BY <1>1
<1>. QED BY <1>2, Invariance, PTL

\* A pass updates each entry of the vector it began with at most once and in
\* order, and has the untouched rest before it, whoever
\* registers or returns meanwhile.
THEOREM PassExact == Spec => []PassIsExact
<1>1. ASSUME IInv, NEW t \in Threads, pc[t] = "loop"
      PROVE  /\ {observers[k] : k \in 1 .. it[t] - 1} = {f \in Threads : updated[f] = 1}
             /\ InOrderOf(atStart)
             /\ \E n \in 0 .. Len(atStart) :
                   SubSeq(observers, it[t], Len(observers))
                   = SubSeq(atStart, n + 1, Len(atStart))
  <2>. USE <1>1 DEF IInv
  <2>1. /\ Len(observers) \in Nat /\ Len(atStart) \in Nat
        /\ it[t] \in 1 .. Len(observers) + 1
        /\ Dropped = Len(atStart) - Len(observers)
    BY LenProperties DEF TypeOK, IteratorIsValid, PassPCs, Dropped
  <2>2. /\ Dropped >= 0
        /\ \A k \in it[t] .. Len(observers) : observers[k] = atStart[k + Dropped]
        /\ \A f \in Threads : updated[f] = 1 <=> f \in Visited(t)
        /\ InOrderOf(atStart)
    BY DEF PassIsOnTrack, PassPCs
  <2>3. {observers[k] : k \in 1 .. it[t] - 1} = {f \in Threads : updated[f] = 1}
    <3>1. Visited(t) = {observers[k] : k \in 1 .. it[t] - 1} BY DEF Visited
    <3>2. \A k \in 1 .. it[t] - 1 : observers[k] \in Threads BY <2>1, EntriesAreThreads
    <3>. QED BY <2>2, <3>1, <3>2
  <2>. DEFINE n == it[t] - 1 + Dropped
              rest == SubSeq(observers, it[t], Len(observers))
              suffix == SubSeq(atStart, n + 1, Len(atStart))
  <2>4. n \in 0 .. Len(atStart) BY <2>1, <2>2
  <2>5. /\ rest \in Seq(Threads)
        /\ Len(rest) = Len(observers) - it[t] + 1
        /\ \A k \in 1 .. Len(observers) - it[t] + 1 : rest[k] = observers[it[t] + k - 1]
    <3>1. \A k \in it[t] .. Len(observers) : observers[k] \in Threads
      BY <2>1, EntriesAreThreads
    <3>. QED BY <2>1, <3>1, SubSeqProperties
  <2>6. /\ suffix \in Seq(Threads)
        /\ Len(suffix) = Len(atStart) - (n + 1) + 1
        /\ \A k \in 1 .. Len(atStart) - (n + 1) + 1 : suffix[k] = atStart[(n + 1) + k - 1]
    <3>1. \A k \in n + 1 .. Len(atStart) : atStart[k] \in Threads
      BY <2>1, <2>4, ElementOfSeq DEF TypeOK
    <3>2. n + 1 \in Int /\ Len(atStart) \in Int BY <2>1, <2>4
    <3>3. IF n + 1 <= Len(atStart)
          THEN Len(atStart) - (n + 1) + 1 = Len(atStart) - (n + 1) + 1
          ELSE Len(atStart) - (n + 1) + 1 = 0
      BY <2>1, <2>4
    <3>. HIDE DEF n
    <3>. QED BY <3>1, <3>2, <3>3, SubSeqProperties
  <2>7. Len(rest) = Len(suffix) BY <2>1, <2>5, <2>6
  <2>8. ASSUME NEW k \in 1 .. Len(rest) PROVE rest[k] = suffix[k]
    <3>1. rest[k] = observers[it[t] + k - 1] BY <2>5
    <3>2. suffix[k] = atStart[(n + 1) + k - 1] BY <2>6, <2>7
    <3>3. it[t] + k - 1 \in it[t] .. Len(observers) BY <2>1, <2>5
    <3>4. (n + 1) + k - 1 = it[t] + k - 1 + Dropped BY <2>1, <2>5
    <3>. QED BY <2>2, <3>1, <3>2, <3>3, <3>4
  <2>9. rest = suffix
    <3>. HIDE DEF rest, suffix
    <3>. QED BY <2>5, <2>6, <2>7, <2>8, SeqEqual
  <2>. QED BY <2>2, <2>3, <2>4, <2>9
<1>2. IInv => PassIsExact BY <1>1 DEF PassIsExact, IInv, UpdatedOnce
<1>. QED BY <1>2, Invariance, PTL
=============================================================================
