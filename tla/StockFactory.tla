---------------------------- MODULE StockFactory ----------------------------
(***************************************************************************)
(* The object factories of mutli-thread-study/demoThree and demoFour: get  *)
(* hands out a Stock whose deleter calls back into the factory.  In        *)
(* demoThree the deleter is bound to the raw `this`, in demoFour to        *)
(* shared_from_this().  A Stock is named after the thread that got it and  *)
(* holds it; a thread holds one at a time.                                 *)
(*                                                                         *)
(* get() stores the new Stock in its local wkStock only, never in the map, *)
(* so that an entry of the map is always a null pointer: the map is        *)
(* modelled by the set of its keys, and get() always makes a new Stock.    *)
(***************************************************************************)
EXTENDS Mutex, Naturals, FiniteSets

CONSTANTS Threads,         \* threads that get and drop Stocks
          Keys,
          NoKey,
          MaxGets          \* bound: how many Stocks the threads get

ASSUME FactoryAssumption == /\ IsFiniteSet(Threads)
                            /\ NoThread \notin Threads
                            /\ NoKey \notin Keys
                            /\ MaxGets \in Nat

VARIABLES shared,      \* TRUE: demoFour; FALSE: demoThree; it never changes
          stocks,      \* the keys of the map
          pc,          \* next statement of each thread
          key,         \* the key of the Stock of each thread
          global,      \* does the global variable `factory` still exist?
          refs,        \* shared_ptrs to the factory (demoFour)
          factory,     \* "alive" or "destroyed"
          gets         \* Stocks got so far

vars == <<shared, owner, stocks, pc, key, global, refs, factory, gets>>

Init == /\ shared \in BOOLEAN
        /\ owner = NoThread
        /\ stocks = {}
        /\ pc = [t \in Threads |-> "idle"]
        /\ key = [t \in Threads |-> NoKey]
        /\ global = TRUE
        /\ refs = 1
        /\ factory = "alive"
        /\ gets = 0

Goto(t, from, to) == pc[t] = from /\ pc' = [pc EXCEPT ![t] = to]

\* The last shared_ptr to the factory destroys it; a raw pointer keeps nothing.
DropReference == /\ refs' = refs - 1
                 /\ factory' = IF refs = 1 THEN "destroyed" ELSE factory

----------------------------------------------------------------------------
(* get(k)                                                                  *)

GetLock(t, k) ==
    /\ global /\ gets < MaxGets
    /\ Goto(t, "idle", "lookup")
    /\ Acquire(t)
    /\ key' = [key EXCEPT ![t] = k]
    /\ gets' = gets + 1
    /\ UNCHANGED <<shared, stocks, global, refs, factory>>

\* stocks[key] inserts a null entry where there is none, and yields null.
GetLookup(t) ==
    /\ Goto(t, "lookup", "reset")
    /\ stocks' = stocks \cup {key[t]}
    /\ UNCHANGED <<shared, owner, key, global, refs, factory, gets>>

\* Fault: bind(&deleteStock, this) where the deleter drops a shared_ptr.
GetResetUncounted(t) ==
    /\ Goto(t, "reset", "leave")
    /\ UNCHANGED <<shared, owner, stocks, key, global, refs, factory, gets>>

\* pStock.reset(new Stock(key), bind(&deleteStock, this or shared_from_this()))
GetReset(t) ==
    /\ Goto(t, "reset", "leave")
    /\ refs' = IF shared THEN refs + 1 ELSE refs
    /\ UNCHANGED <<shared, owner, stocks, key, global, factory, gets>>

GetUnlock(t) ==
    /\ Goto(t, "leave", "hold")
    /\ Release
    /\ UNCHANGED <<shared, stocks, key, global, refs, factory, gets>>

----------------------------------------------------------------------------
(* The last owner of a Stock lets it go: deleteStock(stock)                *)

DeleteLock(t) ==
    /\ Goto(t, "hold", "erase")
    /\ Acquire(t)
    /\ UNCHANGED <<shared, stocks, key, global, refs, factory, gets>>

DeleteErase(t) ==
    /\ Goto(t, "erase", "erased")
    /\ stocks' = stocks \ {key[t]}
    /\ UNCHANGED <<shared, owner, key, global, refs, factory, gets>>

\* ~MutexLockGuard, then delete stock
DeleteUnlock(t) ==
    /\ Goto(t, "erased", "deleter")
    /\ Release
    /\ UNCHANGED <<shared, stocks, key, global, refs, factory, gets>>

\* Fault: something keeps the deleter, and the factory in it, alive.
DropDeleterKept(t) ==
    /\ Goto(t, "deleter", "idle")
    /\ key' = [key EXCEPT ![t] = NoKey]
    /\ UNCHANGED <<shared, owner, stocks, global, refs, factory, gets>>

\* The deleter goes with the Stock, and the shared_ptr bound in it.
DropDeleter(t) ==
    /\ Goto(t, "deleter", "idle")
    /\ key' = [key EXCEPT ![t] = NoKey]
    /\ IF shared THEN DropReference ELSE UNCHANGED <<refs, factory>>
    /\ UNCHANGED <<shared, owner, stocks, global, gets>>

----------------------------------------------------------------------------

\* Fault: the factory goes although a Stock of it is still held.
DropGlobalEarly ==
    /\ global
    /\ \A t \in Threads : pc[t] \in {"idle", "hold", "erase", "erased", "deleter"}
    /\ global' = FALSE
    /\ DropReference
    /\ UNCHANGED <<shared, owner, stocks, pc, key, gets>>

\* The global variable goes at the end of the program, or when somebody resets
\* it.  In demoThree nobody has a Stock then; in demoFour a thread may hold one
\* or be inside its deleter, but none is inside get(), which goes through it.
DropGlobal ==
    /\ global
    /\ \A t \in Threads : pc[t] \in IF shared THEN {"idle", "hold", "erase", "erased", "deleter"}
                                                ELSE {"idle"}
    /\ global' = FALSE
    /\ DropReference
    /\ UNCHANGED <<shared, owner, stocks, pc, key, gets>>

Drop(t) == DeleteLock(t) \/ DeleteErase(t) \/ DeleteUnlock(t) \/ DropDeleter(t)

Get(t) == \/ \E k \in Keys : GetLock(t, k)
          \/ GetLookup(t) \/ GetReset(t) \/ GetUnlock(t)

Ended == ~global /\ (\A t \in Threads : pc[t] = "idle") /\ UNCHANGED vars

Next == \/ \E t \in Threads : Get(t) \/ Drop(t)
        \/ DropGlobal
        \/ Ended

Safety == Init /\ [][Next]_vars

\* Threads do not stop inside a call nor keep a Stock for ever, and the
\* program ends.
Spec == /\ Safety
        /\ \A t \in Threads : WF_vars(Get(t)) /\ WF_vars(Drop(t))
        /\ WF_vars(DropGlobal)

----------------------------------------------------------------------------
(* Properties                                                              *)

InFactory == {"lookup", "reset", "leave", "erase", "erased"}
PCs == InFactory \cup {"idle", "hold", "deleter"}

\* Every variable has its type.
TypeOK == /\ shared \in BOOLEAN
          /\ owner \in Threads \cup {NoThread}
          /\ stocks \subseteq Keys
          /\ pc \in [Threads -> PCs]
          /\ key \in [Threads -> Keys \cup {NoKey}]
          /\ global \in BOOLEAN
          /\ refs \in Nat
          /\ factory \in {"alive", "destroyed"}
          /\ gets \in 0 .. MaxGets

\* "The factory is still alive when deleteStock is called"
\* (demoFour/readme.md): no thread is ever inside a destroyed factory or about to
\* call its deleteStock, and the factory's mutex is free when it goes.
FactoryOutlivesCalls ==
    factory = "destroyed" =>
        /\ owner = NoThread
        /\ \A t \in Threads : pc[t] \in {"idle", "deleter"}

\* The factory is destroyed exactly once, with an empty map, after the global
\* and the last Stock are gone: the references its Stocks hold form no cycle, and
\* no entry is left, although of two Stocks of one key the first to die takes the
\* entry of both.
FactoryIsReclaimed ==
    /\ <>[](factory = "destroyed" /\ stocks = {})
    /\ [][factory = "destroyed" => UNCHANGED <<stocks, refs, factory>>]_vars
=============================================================================
