--------------------------- MODULE SafeObservable ---------------------------
(***************************************************************************)
(* mutli-thread-study/demoTwo/test_safe_thread.cc: an Observable that      *)
(* keeps weak pointers under a mutex.  Every thread makes one Foo, holds   *)
(* it by a shared_ptr, registers it, notifies all observers and returns.   *)
(* A Foo is named after the thread that made it.                           *)
(***************************************************************************)
EXTENDS Mutex, SequencesExt, Naturals

CONSTANTS Threads,     \* the threads of main (the program has three)
          NoFoo        \* an empty shared_ptr

ASSUME ObservableAssumption == /\ IsFiniteSet(Threads)
                               /\ NoThread \notin Threads
                               /\ NoFoo \notin Threads

VARIABLES observers,   \* the vector of weak pointers
          strong,      \* how many shared_ptrs own each Foo; 0: dead or unborn
          pc,          \* next statement of each thread
          it,          \* the iterator of notifyObservers, as an index
          obj,         \* its local shared_ptr
          atStart,     \* history: the vector when the current pass began
          updated      \* history: update() calls of the pass, per Foo

vars == <<owner, observers, strong, pc, it, obj, atStart, updated>>
pass == <<atStart, updated>>

Init == /\ owner = NoThread
        /\ observers = <<>>
        /\ strong = [f \in Threads |-> 0]
        /\ pc = [t \in Threads |-> "make"]
        /\ it = [t \in Threads |-> 1]
        /\ obj = [t \in Threads |-> NoFoo]
        /\ atStart = <<>>
        /\ updated = [f \in Threads |-> 0]

Goto(t, from, to) == pc[t] = from /\ pc' = [pc EXCEPT ![t] = to]

\* shared_ptr<Foo> foo = make_shared<Foo>()
Make(t) == /\ Goto(t, "make", "register")
           /\ strong' = [strong EXCEPT ![t] = 1]
           /\ UNCHANGED <<owner, observers, it, obj, pass>>

----------------------------------------------------------------------------
(* register_(x)                                                            *)

RegisterLock(t) == /\ Goto(t, "register", "push")
                   /\ Acquire(t)
                   /\ UNCHANGED <<observers, strong, it, obj, pass>>

RegisterPush(t) == /\ Goto(t, "push", "registered")
                   /\ observers' = Append(observers, t)
                   /\ UNCHANGED <<owner, strong, it, obj, pass>>

RegisterUnlock(t) == /\ Goto(t, "registered", "notify")
                     /\ Release
                     /\ UNCHANGED <<observers, strong, it, obj, pass>>

----------------------------------------------------------------------------
(* notifyObservers()                                                       *)

NotifyLock(t) ==
    /\ Goto(t, "notify", "loop")
    /\ Acquire(t)
    /\ it' = [it EXCEPT ![t] = 1]
    /\ atStart' = observers
    /\ updated' = [f \in Threads |-> 0]
    /\ UNCHANGED <<observers, strong, obj>>

AtEnd(t) == it[t] > Len(observers)

\* while (it != observers.end()) ... ~MutexLockGuard
NotifyUnlock(t) ==
    /\ AtEnd(t)
    /\ Goto(t, "loop", "return")
    /\ Release
    /\ UNCHANGED <<observers, strong, it, obj, pass>>

\* shared_ptr<Observer> obj(it->lock()): one more owner, unless the Foo died.
LockWeak(t) ==
    LET f == observers[it[t]]
    IN  /\ ~AtEnd(t)
        /\ \/ /\ strong[f] > 0
              /\ Goto(t, "loop", "update")
              /\ obj' = [obj EXCEPT ![t] = f]
              /\ strong' = [strong EXCEPT ![f] = @ + 1]
           \/ /\ strong[f] = 0
              /\ Goto(t, "loop", "erase")
              /\ UNCHANGED <<obj, strong>>
        /\ UNCHANGED <<owner, observers, it, pass>>

\* obj->update()
Update(t) ==
    /\ Goto(t, "update", "advance")
    /\ updated' = [updated EXCEPT ![obj[t]] = @ + 1]
    /\ UNCHANGED <<owner, observers, strong, it, obj, atStart>>

\* Fault: an owner that is never released.
StrongKept(f) == strong

StrongWithout(f) == [strong EXCEPT ![f] = @ - 1]

\* it++, and obj goes out of scope: its Foo dies here, under the mutex, when
\* the thread that made it has returned in the meantime.
Advance(t) ==
    /\ Goto(t, "advance", "loop")
    /\ it' = [it EXCEPT ![t] = @ + 1]
    /\ strong' = StrongWithout(obj[t])
    /\ obj' = [obj EXCEPT ![t] = NoFoo]
    /\ UNCHANGED <<owner, observers, pass>>

\* Fault: erase(begin()).
ErasedFirst(i) == Tail(observers)

\* Fault: it++ after it = erase(it).
ErasedSkipping(i) == i + 1

\* Fault: it-- after it = erase(it), as if the loop advanced it.
ErasedSteppingBack(i) == i - 1

\* it = observers.erase(it): what is left, and where it then points.
Erased(i) == RemoveAt(observers, i)
ErasedAt(i) == i

Erase(t) ==
    /\ Goto(t, "erase", "loop")
    /\ observers' = Erased(it[t])
    /\ it' = [it EXCEPT ![t] = ErasedAt(@)]
    /\ UNCHANGED <<owner, strong, obj, pass>>

\* The thread function ends and its local foo with it.
Return(t) ==
    /\ Goto(t, "return", "done")
    /\ strong' = StrongWithout(t)
    /\ UNCHANGED <<owner, observers, it, obj, pass>>

----------------------------------------------------------------------------

Thread(t) == \/ Make(t)
             \/ RegisterLock(t) \/ RegisterPush(t) \/ RegisterUnlock(t)
             \/ NotifyLock(t) \/ NotifyUnlock(t)
             \/ LockWeak(t) \/ Update(t) \/ Advance(t) \/ Erase(t)
             \/ Return(t)

\* main() joins the three threads.
Joined == (\A t \in Threads : pc[t] = "done") /\ UNCHANGED vars

Next == (\E t \in Threads : Thread(t)) \/ Joined

Spec == Init /\ [][Next]_vars

----------------------------------------------------------------------------
(* Properties                                                              *)

PassPCs == {"loop", "update", "advance", "erase"}
LockedPCs == PassPCs \cup {"push", "registered"}
FreePCs == {"make", "register", "notify", "return", "done"}

\* Every variable has its type.
TypeOK == /\ owner \in Threads \cup {NoThread}
          /\ observers \in Seq(Threads) /\ atStart \in Seq(Threads)
          /\ strong \in [Threads -> Nat]
          /\ pc \in [Threads -> LockedPCs \cup FreePCs]
          /\ it \in [Threads -> Nat \ {0}]
          /\ obj \in [Threads -> Threads \cup {NoFoo}]
          /\ updated \in [Threads -> Nat]

\* The owners of f: the local foo of its thread and the obj of a notifier.
Owners(f) == {t \in Threads : t = f /\ pc[t] \notin {"make", "done"}}
             \cup {t \in Threads \ {f} : obj[t] = f}

\* The reference counts are exact: a Foo lives as long as somebody can reach
\* it, so update() never runs on a dead one (line 103), and no longer.
CountsAreExact ==
    \A f \in Threads :
        strong[f] = Cardinality(Owners(f)) + (IF obj[f] = f THEN 1 ELSE 0)

\* The entries of observers are entries of seq, in the order they have there.
InOrderOf(seq) ==
    \A j, k \in DOMAIN observers : j <= k =>
        \E a, b \in DOMAIN seq :
            a <= b /\ seq[a] = observers[j] /\ seq[b] = observers[k]

\* A pass (lines 94-108) visits the vector it began with, once per entry, in
\* order: the entries behind the iterator are those it updated, the ones before
\* it are untouched, although threads register and return meanwhile and
\* the pass erases entries under its own feet.
PassIsExact ==
    \A t \in Threads :
        /\ pc[t] = "loop" =>
              /\ {observers[k] : k \in 1 .. it[t] - 1} = {f \in Threads : updated[f] = 1}
              /\ InOrderOf(atStart)
              /\ \E n \in 0 .. Len(atStart) :
                    SubSeq(observers, it[t], Len(observers))
                    = SubSeq(atStart, n + 1, Len(atStart))
        /\ updated[t] <= 1

\* A Foo that is registered and alive is in the vector exactly once: erase()
\* removes dead entries only, and push_back loses none.
LiveObserversAreListed ==
    \A f \in Threads :
        LET entries == {i \in DOMAIN observers : observers[i] = f}
        IN  /\ Cardinality(entries) <= 1
            /\ strong[f] > 0 /\ pc[f] \notin {"register", "push"} => entries # {}
=============================================================================
