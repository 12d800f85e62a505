----------------------------- MODULE LocksProofs -----------------------------
(***************************************************************************)
(* The interface that reports a missing lock protects its sections for any *)
(* number of threads; the two others do so while their pointer is valid.   *)
(***************************************************************************)
EXTENDS Locks, TLAPS

\* Whoever is in the section holds the lock.
SectionOwned == \A t \in Threads : at[t] = "section" => owner = {t}

\* The lock is held by nobody but a thread in the section, and it exists then;
\* without a lock, a section is entered through what does not report it.
LocksInv ==
  /\ TypeOK
  /\ pointer = "lock" => SectionOwned
  /\ \A t \in owner : at[t] = "section" /\ pointer = "lock"
  /\ pointer # "lock" => \A t \in Threads :
       \/ at[t] = "idle"
       \/ at[t] = "section" /\ pointer = "NULL" /\ api \in MayBeNull \ {"rm"}

LEMMA StepPreserves ==
  ASSUME LocksInv, [Next]_vars
  PROVE  LocksInv'
<1> USE DEF LocksInv, TypeOK, SectionOwned
<1>1. CASE LockInit
  BY <1>1 DEF LockInit, Allocate, mutex_init, spin_lock_init, rmGpuLockInit, Quiet
<1>2. CASE LockDestroy
  BY <1>2 DEF LockDestroy, Free, mutex_destroy, spin_lock_destroy, rmGpuLockDestroy, Quiet
<1>3. ASSUME NEW t \in Threads, Acquire(t) PROVE LocksInv'
  <2>1. CASE pointer = "lock"
    BY <1>3, <2>1 DEF Acquire, mutex_lock, spin_lock, rmGpuLockAcquire, LockIfAny, Goto
  <2>2. CASE pointer # "lock"
    BY <1>3, <2>2 DEF Acquire, Callable, mutex_lock, spin_lock, rmGpuLockAcquire, LockIfAny, Goto
  <2> QED
    BY <2>1, <2>2
<1>4. ASSUME NEW t \in Threads, Granted(t) PROVE LocksInv'
  BY <1>4 DEF Granted, Goto
<1>5. ASSUME NEW t \in Threads, Release(t) PROVE LocksInv'
  BY <1>5 DEF Release, mutex_unlock, spin_unlock, rmGpuLockRelease, UnlockIfAny, Goto
<1>6. CASE UNCHANGED vars
  BY <1>6 DEF vars
<1> QED
  BY <1>1, <1>2, <1>3, <1>4, <1>5, <1>6 DEF Next

LEMMA Invariance == Spec => []LocksInv
<1>1. Init => LocksInv
  BY LocksAssumption DEF Init, LocksInv, TypeOK, SectionOwned
<1>2. LocksInv /\ [Next]_vars => LocksInv'
  BY StepPreserves
<1> QED
  BY <1>1, <1>2, PTL DEF Spec

\* An rm_lock always protects its section, a mutex and a spinlock whenever they
\* exist, whichever of the three callers may find missing.
THEOREM OwnedWhileLocked == Spec => []OwnedIfLocked
<1>1. LocksInv => OwnedIfLocked
  BY DEF LocksInv, SectionOwned, OwnedIfLocked
<1> QED
  BY <1>1, Invariance, PTL
=============================================================================
