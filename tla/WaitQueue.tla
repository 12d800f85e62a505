------------------------------ MODULE WaitQueue ------------------------------
(***************************************************************************)
(* The wait queue of macos_compat/linux/wait.h: wait_event_interruptible   *)
(* and wake_up_interruptible on one wait_queue_head_t.  Sleeping and waking*)
(* are the kernel's: a thread sleeps on an event, an address, and wakeup   *)
(* resumes the threads that sleep on the event it is given.                *)
(***************************************************************************)
EXTENDS Naturals, FiniteSets

CONSTANTS Waiters, Wakers   \* disjoint sets of threads

VARIABLES
  lock,        \* the field: "uninitialized", "NULL" or "lock"
  condition,   \* the expression the waiters wait for
  at,          \* per thread: where it is
  event,       \* per waiter: the event it sleeps on
  owner        \* the threads that hold the IOLock: at most one

vars == <<lock, condition, at, event, owner>>

\* The two addresses in play: the value of q->lock, which is that of the
\* IOLock, and the address of the field lock in the wait queue head.
Events == {"q->lock", "&q->lock"}

TypeOK ==
  /\ lock \in {"uninitialized", "NULL", "lock"}
  /\ condition \in BOOLEAN
  /\ at \in [Waiters \cup Wakers ->
               {"idle", "test", "sleep", "asleep", "relock", "wake", "panicked"}]
  /\ event \in [Waiters -> Events \cup {"none"}]
  /\ owner \in SUBSET Waiters /\ Cardinality(owner) <= 1

Init ==
  /\ lock = "uninitialized"
  /\ condition = FALSE
  /\ at = [t \in Waiters \cup Wakers |-> "idle"]
  /\ event = [t \in Waiters |-> "none"]
  /\ owner = {}

Goto(t, from, to) == at[t] = from /\ at' = [at EXCEPT ![t] = to]

Sleeping == {t \in Waiters : at[t] = "asleep"}

\* Nobody is in a call on the queue.
Quiet == \A t \in Waiters \cup Wakers : at[t] = "idle"

\* The allocation may fail, which nobody is told.
init_waitqueue_head ==
  /\ Quiet /\ lock # "lock"
  /\ lock' \in {"lock", "NULL"}
  /\ UNCHANGED <<condition, at, event, owner>>

\* A thread that was woken out of a wait still holds the lock that is freed.
wait_queue_destroy ==
  /\ Quiet /\ lock = "lock"
  /\ lock' = "NULL"
  /\ owner' = {}
  /\ UNCHANGED <<condition, at, event>>

WaitCall(t) ==
  /\ lock # "uninitialized"
  /\ Goto(t, "idle", "test")
  /\ UNCHANGED <<lock, condition, event, owner>>

\* The loop is left as soon as the condition holds, whoever owns the lock then.
WaitTest(t) ==
  /\ Goto(t, "test", IF condition THEN "idle" ELSE "sleep")
  /\ UNCHANGED <<lock, condition, event, owner>>

\* IOLockSleep releases the lock and sleeps.  The macro has not taken the lock:
\* releasing it then is undefined, and either panics or has no effect; without
\* a lock it panics.
WaitSleep(t) ==
  /\ \/ /\ lock = "lock"
        /\ Goto(t, "sleep", "asleep")
        /\ event' = [event EXCEPT ![t] = "&q->lock"]
        /\ owner' = owner \ {t}
     \/ /\ t \notin owner
        /\ Goto(t, "sleep", "panicked")
        /\ UNCHANGED <<event, owner>>
  /\ UNCHANGED <<lock, condition>>

\* A resumed thread takes the lock before IOLockSleep returns.
WaitRelock(t) ==
  /\ owner = {}
  /\ Goto(t, "relock", "test")
  /\ owner' = {t}
  /\ UNCHANGED <<lock, condition, event>>

\* The caller of wake_up_interruptible makes the condition true first.
MakeTrue(w) ==
  /\ lock # "uninitialized"
  /\ Goto(w, "idle", "wake")
  /\ condition' = TRUE
  /\ UNCHANGED <<lock, event, owner>>

Reset(w) ==
  /\ at[w] = "idle" /\ condition
  /\ condition' = FALSE
  /\ UNCHANGED <<lock, at, event, owner>>

wake_up_interruptible(w) ==
  LET resumed == {t \in Sleeping : event[t] = "q->lock"} IN
  /\ at[w] = "wake"
  /\ at' = [t \in DOMAIN at |->
              IF t = w THEN "idle" ELSE IF t \in resumed THEN "relock" ELSE at[t]]
  /\ event' = [t \in Waiters |-> IF t \in resumed THEN "none" ELSE event[t]]
  /\ UNCHANGED <<lock, condition, owner>>

Next ==
  \/ init_waitqueue_head \/ wait_queue_destroy
  \/ \E t \in Waiters : WaitCall(t) \/ WaitTest(t) \/ WaitSleep(t) \/ WaitRelock(t)
  \/ \E w \in Wakers : MakeTrue(w) \/ Reset(w) \/ wake_up_interruptible(w)

Spec == Init /\ [][Next]_vars

-----------------------------------------------------------------------------
\* "Wakes up one or more threads sleeping on the queue": if threads sleep when
\* wake_up_interruptible is called, some of them sleep no more when it is done.
WakesUp ==
  [][\A w \in Wakers :
       at[w] = "wake" /\ at'[w] = "idle" /\ Sleeping # {} => ~(Sleeping \subseteq Sleeping')]_vars
=============================================================================
