-------------------------------- MODULE Locks --------------------------------
(***************************************************************************)
(* One lock behind any of the three interfaces of the porting kit: the     *)
(* mutex of linux/mutex.h, the spinlock of linux/spinlock.h and the rm_lock*)
(* of core/locks.h.  Each wraps a pointer to a DriverKit lock that         *)
(* initialisation allocates and destruction sets to NULL, and each call    *)
(* tests that pointer first.  The DriverKit lock itself is external.       *)
(*                                                                         *)
(* Callers destroy the lock, or initialise it again, when nobody is in a   *)
(* call or in the section it protects; they may call it afterwards.        *)
(***************************************************************************)
EXTENDS Naturals, FiniteSets

CONSTANTS
  Threads,
  MayBeNull   \* the interfaces whose callers may meet a NULL pointer, after an
              \* allocation that failed or a destruction

Apis == {"mutex", "spin", "rm"}

ASSUME LocksAssumption == MayBeNull \subseteq Apis

VARIABLES
  api,      \* the interface that this lock is used through
  pointer,  \* the wrapped pointer: "uninitialized", "NULL" or "lock"
  at,       \* per thread: "idle", "locking" in the DriverKit call, or "section"
  owner     \* the threads that hold the DriverKit lock

vars == <<api, pointer, at, owner>>

TypeOK ==
  /\ api \in Apis
  /\ pointer \in {"uninitialized", "NULL", "lock"}
  /\ at \in [Threads -> {"idle", "locking", "section"}]
  /\ owner \subseteq Threads

Init ==
  /\ api \in Apis
  /\ pointer = "uninitialized"
  /\ at = [t \in Threads |-> "idle"]
  /\ owner = {}

Quiet == \A t \in Threads : at[t] = "idle"

Goto(t, from, to) == at[t] = from /\ at' = [at EXCEPT ![t] = to]

-----------------------------------------------------------------------------
(* Initialisation and destruction *)

\* The allocation may fail; mutex_init and spin_lock_init do not report it.
Allocate == pointer' = "lock" \/ (pointer' = "NULL" /\ api \in MayBeNull)

mutex_init == api = "mutex" /\ Allocate
spin_lock_init == api = "spin" /\ Allocate
rmGpuLockInit == api = "rm" /\ Allocate

LockInit ==
  /\ Quiet
  /\ pointer # "lock"
  /\ mutex_init \/ spin_lock_init \/ rmGpuLockInit
  /\ UNCHANGED <<api, at, owner>>

Free == pointer = "lock" /\ pointer' = "NULL"

mutex_destroy == api = "mutex" /\ Free
spin_lock_destroy == api = "spin" /\ Free
rmGpuLockDestroy == api = "rm" /\ Free

LockDestroy ==
  /\ Quiet
  /\ mutex_destroy \/ spin_lock_destroy \/ rmGpuLockDestroy
  /\ UNCHANGED <<api, at, owner>>

-----------------------------------------------------------------------------
(* Locking *)

\* Calls are made on a lock that has been initialised.
Callable == pointer = "lock" \/ (pointer = "NULL" /\ api \in MayBeNull)

\* A function that returns nothing lets its caller go on without a lock.
LockIfAny(t) == Goto(t, "idle", IF pointer = "NULL" THEN "section" ELSE "locking")

mutex_lock(t) == api = "mutex" /\ LockIfAny(t)
spin_lock(t) == api = "spin" /\ LockIfAny(t)

\* Mutation of rmGpuLockAcquire: NV_OK for a lock that is not there.
rmGpuLockAcquire_NullOk(t) == api = "rm" /\ LockIfAny(t)

\* NV_ERR_INVALID_STATE keeps the caller out of the section.
rmGpuLockAcquire(t) ==
  /\ api = "rm"
  /\ Goto(t, "idle", IF pointer = "NULL" THEN "idle" ELSE "locking")

Acquire(t) ==
  /\ Callable
  /\ mutex_lock(t) \/ spin_lock(t) \/ rmGpuLockAcquire(t)
  /\ UNCHANGED <<api, pointer, owner>>

\* IOLockLock, or IOSimpleLockLock, gets the lock when it is free.
Granted(t) ==
  /\ owner = {}
  /\ Goto(t, "locking", "section")
  /\ owner' = {t}
  /\ UNCHANGED <<api, pointer>>

UnlockIfAny(t) == owner' = IF pointer = "lock" THEN owner \ {t} ELSE owner

mutex_unlock(t) == api = "mutex" /\ UnlockIfAny(t)
spin_unlock(t) == api = "spin" /\ UnlockIfAny(t)

\* Mutation of rmGpuLockRelease: the test of the pointer is inverted.
rmGpuLockRelease_Inverted(t) ==
  api = "rm" /\ owner' = IF pointer = "lock" THEN owner ELSE owner \ {t}

rmGpuLockRelease(t) == api = "rm" /\ UnlockIfAny(t)

Release(t) ==
  /\ Goto(t, "section", "idle")
  /\ mutex_unlock(t) \/ spin_unlock(t) \/ rmGpuLockRelease(t)
  /\ UNCHANGED <<api, pointer>>

Next ==
  \/ LockInit \/ LockDestroy
  \/ \E t \in Threads : Acquire(t) \/ Granted(t) \/ Release(t)

Spec == Init /\ [][Next]_vars

\* A section is left, and a thread that waits is not passed over for ever.
FairSpec ==
  Spec /\ \A t \in Threads : SF_vars(Granted(t)) /\ WF_vars(Release(t))

-----------------------------------------------------------------------------
\* The one way into a section without the lock: mutex_lock or spin_lock on a
\* lock that could not be allocated, or was destroyed.  NV_ERR_INVALID_STATE
\* keeps callers of rmGpuLockAcquire out, and once there is a lock again nobody
\* is left in a section that was entered without one.
OwnedIfLocked ==
  \A t \in Threads : at[t] = "section" =>
    owner = {t} \/ (pointer = "NULL" /\ api # "rm")

\* A call that waits for the lock gets it.
CallsReturn == \A t \in Threads : at[t] = "locking" ~> at[t] = "section"
=============================================================================
