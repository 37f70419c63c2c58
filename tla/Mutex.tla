------------------------------- MODULE Mutex -------------------------------
(***************************************************************************)
(* What the table lock of apps/lockrecord-java promises to the threads     *)
(* that call lock() and unlock(): one taker at a time, and a lock whose    *)
(* taker is gone stays taken, since the row carries no lease.              *)
(***************************************************************************)
CONSTANTS Thread,   \* the threads of all processes that share one lock id
          NoOne     \* the owner of a free lock

VARIABLES holder,   \* the thread the lock is recorded for, or NoOne
          inside    \* the threads between a successful lock() and unlock()

vars == <<holder, inside>>

Init == holder = NoOne /\ inside = {}

\* lock() returns: the caller is the only thread inside.
Acquire(t) ==
  /\ holder = NoOne
  /\ holder' = t
  /\ inside' = inside \cup {t}

\* unlock() takes effect: only the thread that holds the lock gives it back.
Release(t) ==
  /\ holder = t
  /\ t \in inside
  /\ holder' = NoOne
  /\ inside' = inside \ {t}

\* The holder is gone (its process died, its unlock() threw): nobody is
\* inside, and the lock is not given to anybody else.
Abandon(t) ==
  /\ t \in inside
  /\ inside' = inside \ {t}
  /\ UNCHANGED holder

\* The lock was taken and the taker was never told.
Orphan(t) ==
  /\ holder = NoOne
  /\ holder' = t
  /\ UNCHANGED inside

Next == \E t \in Thread : Acquire(t) \/ Release(t) \/ Abandon(t) \/ Orphan(t)

Spec == Init /\ [][Next]_vars
=============================================================================
