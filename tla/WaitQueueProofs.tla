--------------------------- MODULE WaitQueueProofs ---------------------------
(***************************************************************************)
(* What follows for every set of threads from the two addresses that       *)
(* wait.h uses as an event, and from the lock that its macro never takes:  *)
(* the lost wakeup of the run waitqueue_wakeup is no accident of timing.   *)
(***************************************************************************)
EXTENDS WaitQueue, TLAPS

\* Sleepers sleep where no wakeup goes, so nobody gets as far as owning the lock.
LostInv ==
  /\ at \in [Waiters \cup Wakers ->
              {"idle", "test", "sleep", "asleep", "relock", "wake", "panicked"}]
  /\ event \in [Waiters -> Events \cup {"none"}]
  /\ \A t \in Waiters : at[t] = "asleep" => event[t] = "&q->lock"
  /\ \A t \in Waiters : at[t] # "relock"
  /\ owner = {}

LEMMA InitLost == Init => LostInv
BY DEF Init, LostInv, Events

LEMMA WaitStep ==
  ASSUME LostInv, NEW t \in Waiters, WaitCall(t) \/ WaitTest(t) \/ WaitSleep(t) \/ WaitRelock(t)
  PROVE  LostInv' /\ Sleeping \subseteq Sleeping'
<1> USE DEF LostInv, Goto, Events, Sleeping
<1>1. CASE WaitCall(t)
  BY <1>1 DEF WaitCall
<1>2. CASE WaitTest(t)
  BY <1>2 DEF WaitTest
<1>3. CASE WaitSleep(t)
  BY <1>3 DEF WaitSleep
<1>4. CASE WaitRelock(t)
  BY <1>4 DEF WaitRelock
<1> QED
  BY <1>1, <1>2, <1>3, <1>4

LEMMA WakeStep ==
  ASSUME LostInv, NEW w \in Wakers, MakeTrue(w) \/ Reset(w) \/ wake_up_interruptible(w)
  PROVE  LostInv' /\ Sleeping \subseteq Sleeping'
<1> USE DEF LostInv, Events, Sleeping
<1>1. CASE MakeTrue(w)
  BY <1>1 DEF MakeTrue, Goto
<1>2. CASE Reset(w)
  BY <1>2 DEF Reset
<1>3. CASE wake_up_interruptible(w)
  <2>1. {t \in Sleeping : event[t] = "q->lock"} = {}
    OBVIOUS
  <2>2. at' = [t \in Waiters \cup Wakers |-> IF t = w THEN "idle" ELSE at[t]] /\ at[w] = "wake"
    BY <1>3, <2>1 DEF wake_up_interruptible
  <2>3. event' = event /\ owner' = owner
    BY <1>3, <2>1 DEF wake_up_interruptible
  <2> QED
    BY <2>2, <2>3
<1> QED
  BY <1>1, <1>2, <1>3

LEMMA LostStep == LostInv /\ [Next]_vars => LostInv' /\ Sleeping \subseteq Sleeping'
<1> SUFFICES ASSUME LostInv, [Next]_vars PROVE LostInv' /\ Sleeping \subseteq Sleeping'
  OBVIOUS
<1>1. CASE init_waitqueue_head \/ wait_queue_destroy
  BY <1>1 DEF LostInv, Sleeping, init_waitqueue_head, wait_queue_destroy
<1>2. CASE UNCHANGED vars
  BY <1>2 DEF LostInv, Sleeping, vars
<1> QED
  BY <1>1, <1>2, WaitStep, WakeStep DEF Next

LEMMA LostInvariance == Spec => []LostInv
BY InitLost, LostStep, PTL DEF Spec

\* Whoever sleeps in wait_event_interruptible sleeps for ever: no step of any
\* thread, wake_up_interruptible included, resumes one.
THEOREM SleepersStay == Spec => [][Sleeping \subseteq Sleeping']_vars
<1>1. LostInv /\ [Next]_vars => [Sleeping \subseteq Sleeping']_vars
  BY LostStep
<1> QED
  BY <1>1, LostInvariance, PTL DEF Spec

\* IOLockSleep is never called with the lock that it is to release: no thread
\* ever owns it, so that every call is the undefined one.
THEOREM LockNeverHeld == Spec => [](owner = {})
<1>1. LostInv => owner = {}
  BY DEF LostInv
<1> QED
  BY <1>1, LostInvariance, PTL
=============================================================================
