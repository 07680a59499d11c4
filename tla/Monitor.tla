------------------------------ MODULE Monitor ------------------------------
(***************************************************************************)
(* The lock and condition variable wrappers of threadlab/thread.h.         *)
(*                                                                         *)
(* A condition variable is the set of threads that are blocked in          *)
(* cond_wait on it.  A thread that leaves the set is runnable, but it goes *)
(* on only after it has the lock again, so between the signal and its next *)
(* step any other thread may run a critical section of its own.            *)
(*                                                                         *)
(* The lock itself is implicit: what a thread does from lock_acquire (or   *)
(* from its return out of cond_wait) to the next cond_wait or lock_release *)
(* is one action of the modules that use this one.  Where code that does   *)
(* not take the lock sees a critical section half done, the section is cut *)
(* in two at that place and LockFree says when another one may begin.      *)
(***************************************************************************)

\* pthread_cond_signal on the waiters W: the sets that may be left.  POSIX
\* does not say which waiter is taken; with no waiter the signal is lost.
AfterSignal(W) == IF W = {} THEN {W} ELSE {W \ {t} : t \in W}

\* pthread_cond_broadcast: everyone is released.
AfterBroadcast(W) == {}

\* A wakeup nobody asked for, which pthread_cond_wait is allowed to deliver.
AfterSpurious(W) == {W \ {t} : t \in W}
=============================================================================
