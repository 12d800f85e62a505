------------------------------- MODULE Atomic -------------------------------
(***************************************************************************)
(* The atomic_t of macos_compat/linux/atomic.h: a signed int, and the      *)
(* operations on it, each of which is one step.  The __sync built-ins wrap *)
(* around on overflow, and but for atomic_read and atomic_set they are     *)
(* full memory barriers: the stores that the calling thread made before    *)
(* are visible to every thread after.  pending tells which threads have    *)
(* made stores, to what the counter protects, that may not be visible yet. *)
(* The barriers are those of macos_compat/asm/barrier.h.                   *)
(***************************************************************************)
EXTENDS Integers

CONSTANT IntMax   \* the largest value of the counter: 2^31 - 1 in the code

ASSUME IntMaxAssumption == IntMax \in Nat \ {0}

VARIABLES
  counter,
  pending    \* threads with stores that other threads need not see yet

IntMin == -IntMax - 1
IntRange == IntMin..IntMax

\* The value kept of the sum or the difference of two ints.
Wrapped(i) ==
  IF i > IntMax THEN i - 2 * (IntMax + 1)
  ELSE IF i < IntMin THEN i + 2 * (IntMax + 1)
  ELSE i

\* The full barrier of asm/barrier.h, __sync_synchronize, which the other
\* __sync built-ins include.
mb(t) == pending' = pending \ {t}
wmb(t) == mb(t)

atomic_read == counter

\* __sync_lock_test_and_set is an acquire barrier only: earlier stores may linger.
atomic_set(i) == counter' = i /\ UNCHANGED pending

atomic_add(t, i) == counter' = Wrapped(counter + i) /\ mb(t)
atomic_sub(t, i) == counter' = Wrapped(counter - i) /\ mb(t)

\* Mutation of atomic_inc: the counter saturates one too early.
atomic_inc_Saturating(t) ==
  counter' = (IF counter = 2 THEN 2 ELSE Wrapped(counter + 1)) /\ mb(t)

atomic_inc(t) == counter' = Wrapped(counter + 1) /\ mb(t)
atomic_dec(t) == counter' = Wrapped(counter - 1) /\ mb(t)

\* The value returned is whether the new value is zero.
atomic_inc_and_test(t, isZero) == atomic_inc(t) /\ (isZero <=> counter' = 0)

\* Mutation of atomic_dec_and_test: relaxed, without the barrier.
atomic_dec_and_test_Relaxed(t, isZero) ==
  counter' = Wrapped(counter - 1) /\ UNCHANGED pending /\ (isZero <=> counter' = 0)

atomic_dec_and_test(t, isZero) == atomic_dec(t) /\ (isZero <=> counter' = 0)

atomic_sub_and_test(t, i, isZero) == atomic_sub(t, i) /\ (isZero <=> counter' = 0)
=============================================================================
