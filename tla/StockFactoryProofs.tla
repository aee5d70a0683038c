------------------------- MODULE StockFactoryProofs -------------------------
(***************************************************************************)
(* Safety of StockFactory for any number of threads, keys and Stocks: type *)
(* correctness, a factory that outlives every call of it, and one that is  *)
(* destroyed once, with an empty map.                                      *)
(***************************************************************************)
EXTENDS StockFactory, FiniteSetTheorems, TLAPS

----------------------------------------------------------------------------
(* The inductive invariant                                                 *)

\* A thread is inside get or deleteStock when and only when it has the mutex.
MutexIsHeld == \A t \in Threads : pc[t] \in InFactory <=> owner = t

\* The threads that hold a Stock, or are about to, and its deleter with it.
Holders == {t \in Threads : pc[t] \in {"leave", "hold", "erase", "erased", "deleter"}}

\* The count is exact: the global, and in demoFour one reference per Stock.
RefsAreExact == refs = (IF global THEN 1 ELSE 0) + (IF shared THEN Cardinality(Holders) ELSE 0)

\* Nobody is in get() without the global; in demoThree nobody even holds a Stock.
GlobalIsNeeded ==
    ~global => \A t \in Threads : pc[t] \in IF shared THEN {"idle", "hold", "erase", "erased", "deleter"}
                                            ELSE {"idle"}

\* A thread in get or with a Stock knows its key.
KeyIsKnown == \A t \in Threads : pc[t] # "idle" => key[t] \in Keys

DestroyedAtZero == factory = "destroyed" <=> refs = 0

\* An entry of the map belongs to a Stock that was looked up and not erased.
EntriesHaveStocks ==
    \A k \in stocks : \E t \in Threads :
        key[t] = k /\ pc[t] \in {"reset", "leave", "hold", "erase"}

IInv == /\ TypeOK
        /\ MutexIsHeld
        /\ RefsAreExact
        /\ GlobalIsNeeded
        /\ KeyIsKnown
        /\ DestroyedAtZero
        /\ EntriesHaveStocks

----------------------------------------------------------------------------
(* Who holds the factory                                                   *)

\* The number of Stocks that keep the factory is a number.
LEMMA HoldersAreFinite == IsFiniteSet(Holders) /\ Cardinality(Holders) \in Nat
<1>1. IsFiniteSet(Holders) BY FactoryAssumption, FS_Subset DEF FactoryAssumption, Holders
<1>. QED BY <1>1, FS_CardinalityType

\* While a Stock is held, one at least is counted.
LEMMA HeldIsCounted ==
    ASSUME NEW t \in Holders
    PROVE  Cardinality(Holders) # 0
BY HoldersAreFinite, FS_EmptySet

\* A step that makes no Stock and ends none leaves the count as it was.
LEMMA SameHolders ==
    ASSUME TypeOK, NEW t \in Threads, NEW from \in PCs, NEW to \in PCs, Goto(t, from, to),
           (from \in {"leave", "hold", "erase", "erased", "deleter"})
              <=> (to \in {"leave", "hold", "erase", "erased", "deleter"})
    PROVE  Holders' = Holders
BY DEF TypeOK, Goto, Holders

----------------------------------------------------------------------------
(* The invariant is inductive                                              *)

\* The initial states satisfy the invariant.
LEMMA InitEstablishes == Init => IInv
<1>. SUFFICES ASSUME Init PROVE IInv OBVIOUS
<1>. USE FactoryAssumption DEF Init, FactoryAssumption
<1>1. TypeOK BY DEF TypeOK, PCs
<1>2. MutexIsHeld BY DEF MutexIsHeld, InFactory
<1>3. Holders = {} BY DEF Holders
<1>4. RefsAreExact BY <1>3, FS_EmptySet DEF RefsAreExact
<1>5. GlobalIsNeeded /\ KeyIsKnown /\ DestroyedAtZero /\ EntriesHaveStocks
  BY DEF GlobalIsNeeded, KeyIsKnown, DestroyedAtZero, EntriesHaveStocks
<1>. QED BY <1>1, <1>2, <1>4, <1>5 DEF IInv

\* Types, the mutex and the threads' places; the count matters only in that the
\* last reference is not dropped twice.
LEMMA ControlPreserved ==
    ASSUME IInv, [Next]_vars
    PROVE  TypeOK' /\ MutexIsHeld' /\ GlobalIsNeeded' /\ KeyIsKnown'
<1>. USE FactoryAssumption
     DEF FactoryAssumption, IInv, TypeOK, MutexIsHeld, GlobalIsNeeded, KeyIsKnown, Goto, InFactory, PCs
<1>1. ASSUME NEW t \in Threads, NEW k \in Keys, GetLock(t, k)
      PROVE  TypeOK' /\ MutexIsHeld' /\ GlobalIsNeeded' /\ KeyIsKnown'
  BY <1>1 DEF GetLock, Acquire
<1>2. ASSUME NEW t \in Threads, GetLookup(t)
      PROVE  TypeOK' /\ MutexIsHeld' /\ GlobalIsNeeded' /\ KeyIsKnown'
  <2>1. TypeOK' BY <1>2 DEF GetLookup
  <2>2. MutexIsHeld' BY <1>2 DEF GetLookup
  <2>3. GlobalIsNeeded' BY <1>2 DEF GetLookup
  <2>4. KeyIsKnown' BY <1>2 DEF GetLookup
  <2>. QED BY <2>1, <2>2, <2>3, <2>4
<1>3. ASSUME NEW t \in Threads, GetReset(t)
      PROVE  TypeOK' /\ MutexIsHeld' /\ GlobalIsNeeded' /\ KeyIsKnown'
  BY <1>3 DEF GetReset
<1>4. ASSUME NEW t \in Threads, GetUnlock(t)
      PROVE  TypeOK' /\ MutexIsHeld' /\ GlobalIsNeeded' /\ KeyIsKnown'
  BY <1>4 DEF GetUnlock, Release
<1>5. ASSUME NEW t \in Threads, DeleteLock(t)
      PROVE  TypeOK' /\ MutexIsHeld' /\ GlobalIsNeeded' /\ KeyIsKnown'
  BY <1>5 DEF DeleteLock, Acquire
<1>6. ASSUME NEW t \in Threads, DeleteErase(t)
      PROVE  TypeOK' /\ MutexIsHeld' /\ GlobalIsNeeded' /\ KeyIsKnown'
  BY <1>6 DEF DeleteErase
<1>7. ASSUME NEW t \in Threads, DeleteUnlock(t)
      PROVE  TypeOK' /\ MutexIsHeld' /\ GlobalIsNeeded' /\ KeyIsKnown'
  BY <1>7 DEF DeleteUnlock, Release
<1>8. ASSUME NEW t \in Threads, DropDeleter(t)
      PROVE  TypeOK' /\ MutexIsHeld' /\ GlobalIsNeeded' /\ KeyIsKnown'
  <2>1. t \in Holders BY <1>8 DEF DropDeleter, Holders
  <2>2. shared => refs # 0
    BY <2>1, HoldersAreFinite, HeldIsCounted DEF RefsAreExact
  <2>3. refs' \in Nat /\ factory' \in {"alive", "destroyed"}
    BY <1>8, <2>2 DEF DropDeleter, DropReference
  <2>4. TypeOK' BY <1>8, <2>3 DEF DropDeleter
  <2>5. MutexIsHeld' BY <1>8 DEF DropDeleter
  <2>6. GlobalIsNeeded' BY <1>8 DEF DropDeleter
  <2>7. KeyIsKnown' BY <1>8 DEF DropDeleter
  <2>. QED BY <2>4, <2>5, <2>6, <2>7
<1>9. CASE DropGlobal
  <2>1. refs # 0 BY <1>9, HoldersAreFinite DEF DropGlobal, RefsAreExact
  <2>2. refs' \in Nat /\ factory' \in {"alive", "destroyed"}
    BY <1>9, <2>1 DEF DropGlobal, DropReference
  <2>3. TypeOK' BY <1>9, <2>2 DEF DropGlobal
  <2>4. MutexIsHeld' /\ KeyIsKnown' BY <1>9 DEF DropGlobal
  <2>5. GlobalIsNeeded' BY <1>9 DEF DropGlobal
  <2>. QED BY <2>3, <2>4, <2>5
<1>10. CASE UNCHANGED vars BY <1>10 DEF vars
<1>. QED
  BY <1>1, <1>2, <1>3, <1>4, <1>5, <1>6, <1>7, <1>8, <1>9, <1>10
  DEF Next, Get, Drop, Ended

\* One reference per Stock: every step that changes the count changes the
\* holders, and the factory is destroyed by the step that makes it zero.
LEMMA ReferencesPreserved ==
    ASSUME IInv, [Next]_vars
    PROVE  RefsAreExact' /\ DestroyedAtZero'
<1>. USE DEF RefsAreExact, DestroyedAtZero
<1>0. TypeOK /\ RefsAreExact /\ DestroyedAtZero BY DEF IInv
<1>1. ASSUME Holders' = Holders, UNCHANGED <<shared, global, refs, factory>>
      PROVE  RefsAreExact' /\ DestroyedAtZero'
  BY <1>0, <1>1
<1>2. ASSUME NEW t \in Threads, GetReset(t)
      PROVE  RefsAreExact' /\ DestroyedAtZero'
  <2>1. t \notin Holders /\ Holders' = Holders \cup {t}
    BY <1>0, <1>2 DEF GetReset, Goto, Holders, TypeOK, PCs
  <2>2. Cardinality(Holders') = Cardinality(Holders) + 1
    BY <2>1, HoldersAreFinite, FS_AddElement
  <2>3. global BY <1>0, <1>2 DEF IInv, GlobalIsNeeded, GetReset, Goto
  <2>. QED BY <1>0, <1>2, <2>2, <2>3, HoldersAreFinite DEF GetReset, TypeOK
<1>3. ASSUME NEW t \in Threads, DropDeleter(t)
      PROVE  RefsAreExact' /\ DestroyedAtZero'
  <2>1. t \in Holders /\ Holders' = Holders \ {t}
    BY <1>0, <1>3 DEF DropDeleter, Goto, Holders, TypeOK, PCs
  <2>2. Cardinality(Holders') = Cardinality(Holders) - 1 /\ Cardinality(Holders) # 0
    BY <2>1, HoldersAreFinite, HeldIsCounted, FS_RemoveElement
  <2>. QED BY <1>0, <1>3, <2>2, HoldersAreFinite DEF DropDeleter, DropReference, TypeOK
<1>4. CASE DropGlobal
  <2>1. Holders' = Holders BY <1>4 DEF DropGlobal, Holders
  <2>. QED BY <1>0, <1>4, <2>1, HoldersAreFinite DEF DropGlobal, DropReference, TypeOK
<1>5. CASE UNCHANGED vars
  <2>1. Holders' = Holders BY <1>5 DEF vars, Holders
  <2>. QED BY <1>1, <1>5, <2>1 DEF vars
<1>6. ASSUME NEW t \in Threads, NEW k \in Keys, GetLock(t, k)
      PROVE  RefsAreExact' /\ DestroyedAtZero'
  <2>1. Holders' = Holders BY <1>0, <1>6, SameHolders DEF GetLock, PCs, InFactory
  <2>. QED BY <1>1, <1>6, <2>1 DEF GetLock
<1>7. ASSUME NEW t \in Threads,
             GetLookup(t) \/ GetUnlock(t) \/ DeleteLock(t) \/ DeleteErase(t) \/ DeleteUnlock(t)
      PROVE  RefsAreExact' /\ DestroyedAtZero'
  <2>1. Holders' = Holders
    BY <1>0, <1>7, SameHolders
    DEF GetLookup, GetUnlock, DeleteLock, DeleteErase, DeleteUnlock, PCs, InFactory
  <2>. QED
    BY <1>1, <1>7, <2>1 DEF GetLookup, GetUnlock, DeleteLock, DeleteErase, DeleteUnlock
<1>. QED BY <1>2, <1>3, <1>4, <1>5, <1>6, <1>7 DEF Next, Get, Drop, Ended

\* An entry goes with the first Stock of its key that dies, and cannot be left
\* by the last.
LEMMA EntriesPreserved ==
    ASSUME IInv, [Next]_vars
    PROVE  EntriesHaveStocks'
<1>. USE DEF EntriesHaveStocks, Goto
<1>0. /\ pc \in [Threads -> PCs] /\ key \in [Threads -> Keys \cup {NoKey}]
      /\ EntriesHaveStocks
  BY DEF IInv, TypeOK
<1>1. ASSUME NEW t \in Threads, NEW k \in Keys, GetLock(t, k)
      PROVE  EntriesHaveStocks'
  BY <1>0, <1>1 DEF GetLock
<1>2. ASSUME NEW t \in Threads, GetLookup(t)
      PROVE  EntriesHaveStocks'
  BY <1>0, <1>2 DEF GetLookup
<1>3. ASSUME NEW t \in Threads, DeleteErase(t)
      PROVE  EntriesHaveStocks'
  BY <1>0, <1>3 DEF DeleteErase
<1>4. ASSUME NEW t \in Threads, GetReset(t) \/ GetUnlock(t) \/ DeleteLock(t)
      PROVE  EntriesHaveStocks'
  BY <1>0, <1>4 DEF GetReset, GetUnlock, DeleteLock
<1>5. ASSUME NEW t \in Threads, DeleteUnlock(t) \/ DropDeleter(t)
      PROVE  EntriesHaveStocks'
  BY <1>0, <1>5 DEF DeleteUnlock, DropDeleter
<1>6. CASE DropGlobal \/ UNCHANGED vars BY <1>0, <1>6 DEF DropGlobal, vars
<1>. QED BY <1>1, <1>2, <1>3, <1>4, <1>5, <1>6 DEF Next, Get, Drop, Ended

\* Every reachable state satisfies the inductive invariant.
THEOREM Invariance == Safety => []IInv
<1>1. IInv /\ [Next]_vars => IInv'
  BY ControlPreserved, ReferencesPreserved, EntriesPreserved DEF IInv
<1>. QED BY <1>1, InitEstablishes, PTL DEF Safety

----------------------------------------------------------------------------
(* The properties                                                          *)

\* Every variable keeps its type, for any threads and keys and any number of Stocks.
THEOREM TypeCorrect == Safety => []TypeOK
BY Invariance, PTL DEF IInv

\* No count is left when the factory is gone: nobody is inside it, nobody will
\* call it, and its mutex is free.
LEMMA DestroyedMeansUnused ==
    ASSUME IInv, factory = "destroyed"
    PROVE  /\ FactoryOutlivesCalls
           /\ ~global
           /\ \A t \in Threads : pc[t] = "idle"
<1>1. refs = 0 BY DEF IInv, DestroyedAtZero
<1>2. ~global /\ (shared => Cardinality(Holders) = 0)
  BY <1>1, HoldersAreFinite DEF IInv, RefsAreExact
<1>3. shared => Holders = {} BY <1>2, HoldersAreFinite, FS_EmptySet
<1>4. \A t \in Threads : pc[t] = "idle"
  BY <1>2, <1>3 DEF IInv, GlobalIsNeeded, Holders
<1>5. owner = NoThread
  BY <1>4, FactoryAssumption DEF IInv, TypeOK, MutexIsHeld, InFactory
<1>. QED BY <1>2, <1>4, <1>5 DEF FactoryOutlivesCalls

\* No thread is ever inside a destroyed factory or about to call it, whatever the
\* order in which the global and the Stocks go (demoThree as its main uses it,
\* demoFour however it is used).
THEOREM CallsFindTheFactory == Safety => []FactoryOutlivesCalls
<1>1. IInv => FactoryOutlivesCalls BY DestroyedMeansUnused DEF FactoryOutlivesCalls
<1>. QED BY <1>1, Invariance, PTL

\* The safety part of FactoryIsReclaimed: the destroyed factory had an empty map...
THEOREM MapIsEmptyAtTheEnd == Safety => [](factory = "destroyed" => stocks = {})
<1>1. IInv => (factory = "destroyed" => stocks = {})
  BY DestroyedMeansUnused DEF IInv, EntriesHaveStocks
<1>. QED BY <1>1, Invariance, PTL

\* ... and nothing touches it, its map or its count again.
THEOREM DestroyedOnce ==
    Safety => [][factory = "destroyed" => UNCHANGED <<stocks, refs, factory>>]_vars
<1>1. ASSUME IInv, [Next]_vars, factory = "destroyed"
      PROVE  UNCHANGED <<stocks, refs, factory>>
  <2>1. ~global /\ \A t \in Threads : pc[t] = "idle" BY <1>1, DestroyedMeansUnused
  <2>. QED
    BY <1>1, <2>1
    DEF Next, Get, Drop, DropGlobal, Ended, vars, Goto, GetLock, GetLookup, GetReset,
        GetUnlock, DeleteLock, DeleteErase, DeleteUnlock, DropDeleter
<1>2. IInv /\ [Next]_vars => [factory = "destroyed" => UNCHANGED <<stocks, refs, factory>>]_vars
  BY <1>1
<1>. QED BY <1>2, Invariance, PTL DEF Safety
=============================================================================
