------------------------------- MODULE Mutex -------------------------------
(***************************************************************************)
(* A pthread mutex as the C++ demos wrap it in MutexLock and               *)
(* MutexLockGuard.  The primitive itself belongs to the C library; this    *)
(* module says what the wrappers rely on: a lock call returns only when    *)
(* nobody owns the mutex, and an unlock frees it.                          *)
(***************************************************************************)

CONSTANT NoThread      \* the owner of a free mutex

VARIABLE owner         \* the thread that owns the mutex, or NoThread

\* pthread_mutex_lock, returning to thread t.
Acquire(t) == owner = NoThread /\ owner' = t

\* pthread_mutex_unlock.
Release == owner' = NoThread
=============================================================================
