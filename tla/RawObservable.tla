--------------------------- MODULE RawObservable ---------------------------
(***************************************************************************)
(* mutli-thread-study/demoOne: Observer and Observrable with raw pointers  *)
(* and no lock.  An operation is a sequence of steps of one thread; the    *)
(* steps of two threads interleave freely, each step touching the vector   *)
(* once.  Growth of the vector's storage is left out: a push_back that     *)
(* moves it adds faults to those found here and removes none.              *)
(***************************************************************************)
EXTENDS Naturals, FiniteSets, FiniteSetsExt

CONSTANTS Threads,
          Foos,        \* the addresses `new Foo` may return
          NoFoo        \* no address

VARIABLES cell,        \* the vector's storage
          size,        \* the vector's size
          life,        \* "free", "alive" or, in the base destructor, "dying"
          pc,          \* next step of each thread; "idle" between operations
          arg,         \* the Foo of a thread's operation
          index,       \* its position in the vector: i, it, or the old end
          fault        \* the undefined behaviour met so far

vars == <<cell, size, life, pc, arg, index, fault>>

Cells == 0 .. Cardinality(Foos) - 1

Init == /\ cell = [k \in Cells |-> NoFoo]
        /\ size = 0
        /\ life = [f \in Foos |-> "free"]
        /\ pc = [t \in Threads |-> "idle"]
        /\ arg = [t \in Threads |-> NoFoo]
        /\ index = [t \in Threads |-> 0]
        /\ fault = {}

Goto(t, from, to) == pc[t] = from /\ pc' = [pc EXCEPT ![t] = to]
Call(t, to, f) == Goto(t, "idle", to) /\ arg' = [arg EXCEPT ![t] = f]
OccursIf(condition, kind) == fault' = fault \cup (IF condition THEN {kind} ELSE {})

\* new Foo: any free address, one freed before included.
New(t, f) == /\ life[f] = "free"
             /\ pc[t] = "idle"
             /\ life' = [life EXCEPT ![f] = "alive"]
             /\ UNCHANGED <<cell, size, pc, arg, index, fault>>

----------------------------------------------------------------------------
(* observe(s): register_(this), which is push_back: read the end, store    *)
(* there and advance the end.                                              *)

Observe(t, f) == /\ Call(t, "store", f)
                 /\ index' = [index EXCEPT ![t] = size]
                 /\ UNCHANGED <<cell, size, life, fault>>

PushStore(t) == /\ Goto(t, "store", "idle")
                /\ cell' = [cell EXCEPT ![index[t]] = arg[t]]
                /\ size' = index[t] + 1
                /\ UNCHANGED <<life, arg, index, fault>>

----------------------------------------------------------------------------
(* delete f: ~Foo leaves an Observer, ~Observer unregisters it, and its    *)
(* memory is freed.                                                        *)

Delete(t, f) == /\ Call(t, "find", f)
                /\ life' = [life EXCEPT ![f] = "dying"]
                /\ UNCHANGED <<cell, size, index, fault>>

\* it = std::find(begin, end, x): the first match, or the end
Find(t) ==
    LET matches == {k \in Cells : k < size /\ cell[k] = arg[t]}
    IN  /\ index' = [index EXCEPT ![t] = IF matches = {} THEN size ELSE Min(matches)]
        /\ Goto(t, "find", IF matches = {} THEN "free" ELSE "swap")
        /\ UNCHANGED <<cell, size, life, arg, fault>>

\* std::swap(*it, observers_.back())
Swap(t) ==
    /\ Goto(t, "swap", "pop")
    /\ cell' = IF size = 0 THEN cell
               ELSE [cell EXCEPT ![index[t]] = cell[size - 1],
                                 ![size - 1] = cell[index[t]]]
    /\ OccursIf(size = 0, "access out of bounds")
    /\ UNCHANGED <<size, life, arg, index>>

\* observers_.pop_back()
PopBack(t) ==
    /\ Goto(t, "pop", "free")
    /\ size' = IF size = 0 THEN size ELSE size - 1
    /\ OccursIf(size = 0, "access out of bounds")
    /\ UNCHANGED <<cell, life, arg, index>>

Free(t) == /\ Goto(t, "free", "idle")
           /\ life' = [life EXCEPT ![arg[t]] = "free"]
           /\ UNCHANGED <<cell, size, arg, index, fault>>

----------------------------------------------------------------------------
(* notifyObservers()                                                       *)

Notify(t) == /\ Goto(t, "idle", "loop")
             /\ index' = [index EXCEPT ![t] = 0]
             /\ UNCHANGED <<cell, size, life, arg, fault>>

\* i < observers_.size(), then x = observers_[i], and update unless null
LoadObserver(t) ==
    LET x == cell[index[t]]
    IN  /\ index[t] < size
        /\ Goto(t, "loop", IF x = NoFoo THEN "advance" ELSE "update")
        /\ arg' = [arg EXCEPT ![t] = x]
        /\ UNCHANGED <<cell, size, life, index, fault>>

\* What x->update() meets: a dying Foo is an Observer, whose update is pure.
UpdateFault(x) == CASE life[x] = "alive" -> {}
                    [] life[x] = "dying" -> {"pure virtual call"}
                    [] life[x] = "free"  -> {"use after free"}

Update(t) ==
    /\ Goto(t, "update", "advance")
    /\ fault' = fault \cup UpdateFault(arg[t])
    /\ UNCHANGED <<cell, size, life, arg, index>>

Advance(t) == /\ Goto(t, "advance", "loop")
              /\ index' = [index EXCEPT ![t] = @ + 1]
              /\ UNCHANGED <<cell, size, life, arg, fault>>

NotifyReturn(t) == /\ index[t] >= size
                   /\ Goto(t, "loop", "idle")
                   /\ UNCHANGED <<cell, size, life, arg, index, fault>>

Operation(t) == \/ PushStore(t)
                \/ Find(t) \/ Swap(t) \/ PopBack(t) \/ Free(t)
                \/ LoadObserver(t) \/ Update(t) \/ Advance(t) \/ NotifyReturn(t)
=============================================================================
