----------------------------- MODULE KRefProofs -----------------------------
(***************************************************************************)
(* Proofs about KRef, for any number of threads, references and any width  *)
(* of the counter that has room for the references.                        *)
(***************************************************************************)
EXTENDS KRef, FiniteSetTheorems, TLAPS

\* The release has been called or is about to be, once, exactly if nobody
\* holds a reference.
ReleaseInv == releases + Cardinality(Releasing) = IF Held = {} THEN 1 ELSE 0

\* Whoever has stores that may linger still holds a reference, so that a
\* barrier lies ahead of it.
PendingInv == \A t \in pending : Holds(t)

KRefInv == TypeOK /\ CounterCounts /\ ReleaseInv /\ PendingInv

\* The references out are at most IntMax; the threads in kref_put are finitely many.
LEMMA Bounds ==
  /\ IsFiniteSet(Held) /\ Cardinality(Held) \in 0..IntMax
  /\ IsFiniteSet(Releasing) /\ Cardinality(Releasing) \in Nat
<1>1. Held \subseteq Refs /\ Releasing \subseteq Threads
  BY DEF Held, Releasing
<1>2. Cardinality(Refs) \in Nat
  BY IntMaxAssumption, RefsAssumption, FS_CardinalityType
<1>3. IsFiniteSet(Held) /\ Cardinality(Held) \in Nat /\ Cardinality(Held) <= Cardinality(Refs)
  BY <1>1, IntMaxAssumption, RefsAssumption, FS_Subset, FS_CardinalityType
<1>4. IsFiniteSet(Releasing) /\ Cardinality(Releasing) \in Nat
  BY <1>1, IntMaxAssumption, RefsAssumption, FS_Subset, FS_CardinalityType
<1> QED
  BY <1>2, <1>3, <1>4, IntMaxAssumption, RefsAssumption

LEMMA InitInv == Init => KRefInv
<1> SUFFICES ASSUME Init PROVE KRefInv
  OBVIOUS
<1>1. PICK t \in Threads, r \in Refs :
             /\ holder = [s \in Refs |-> IF s = r THEN t ELSE NoThread]
             /\ pending \in SUBSET {t}
  BY DEF Init
<1>2. Held = {r} /\ Releasing = {}
  BY <1>1, IntMaxAssumption, RefsAssumption DEF Init, Held, Releasing
<1>3. Cardinality(Held) = 1 /\ Cardinality(Releasing) = 0
  <2>1. Held = {} \cup {r}
    BY <1>2
  <2> QED
    BY <1>2, <2>1, FS_EmptySet, FS_AddElement
<1>4. CounterCounts /\ ReleaseInv
  BY <1>2, <1>3 DEF Init, CounterCounts, ReleaseInv
<1>5. TypeOK
  BY <1>1, <1>3, <1>4, Bounds, IntMaxAssumption, RefsAssumption
     DEF Init, TypeOK, CounterCounts, IntRange, IntMin
<1>6. PendingInv
  BY <1>1 DEF PendingInv, Holds
<1> QED
  BY <1>4, <1>5, <1>6 DEF KRefInv

\* A get adds a reference while there is one already.
LEMMA GetInv ==
  ASSUME KRefInv, NEW t \in Threads, NEW u \in Threads, NEW r \in Refs, kref_get(t, u, r)
  PROVE  KRefInv'
<1> USE DEF KRefInv
<1>1. Held' = Held \cup {r} /\ r \notin Held /\ Held # {} /\ Releasing' = Releasing
  BY IntMaxAssumption, RefsAssumption DEF kref_get, Holds, Held, Releasing, TypeOK
<1>2. Held' \subseteq Refs
  BY <1>1 DEF Held
<1>3. Cardinality(Held') = Cardinality(Held) + 1
  BY <1>1, Bounds, FS_AddElement
<1>4. Cardinality(Held') <= IntMax
  BY <1>2, <1>3, Bounds, IntMaxAssumption, RefsAssumption, FS_Subset, FS_CardinalityType
<1>5. counter' = counter + 1
  BY <1>3, <1>4, Bounds, IntMaxAssumption, RefsAssumption
     DEF kref_get, atomic_inc, CounterCounts, Wrapped, IntMin
<1>6. TypeOK'
  BY <1>3, <1>4, <1>5, Bounds, IntMaxAssumption, RefsAssumption
     DEF kref_get, atomic_inc, mb, TypeOK, CounterCounts, IntRange, IntMin
<1>7. CounterCounts'
  BY <1>3, <1>5 DEF CounterCounts
<1>8. ReleaseInv'
  BY <1>1 DEF kref_get, ReleaseInv
<1>9. PendingInv'
  BY IntMaxAssumption, RefsAssumption
     DEF kref_get, atomic_inc, mb, PendingInv, Holds, TypeOK
<1> QED
  BY <1>6, <1>7, <1>8, <1>9

\* A put takes a reference away; the one that leaves none goes on to release.
LEMMA PutInv ==
  ASSUME KRefInv, NEW t \in Threads, NEW r \in Refs, kref_put(t, r)
  PROVE  KRefInv'
<1> USE DEF KRefInv
<1>1. Held' = Held \ {r} /\ r \in Held
  BY IntMaxAssumption, RefsAssumption DEF kref_put, Held, TypeOK
<1>2. Cardinality(Held') = Cardinality(Held) - 1 /\ IsFiniteSet(Held') /\ Cardinality(Held') \in Nat
  BY <1>1, Bounds, FS_RemoveElement, FS_CardinalityType
<1>3. counter' = counter - 1
  BY <1>2, Bounds, IntMaxAssumption, RefsAssumption
     DEF kref_put, atomic_dec_and_test, atomic_dec, CounterCounts, Wrapped, IntMin
<1>4. CounterCounts'
  BY <1>2, <1>3 DEF CounterCounts
<1>5. at' = [at EXCEPT ![t] = IF counter' = 0 THEN "release" ELSE "idle"]
  BY DEF kref_put, atomic_dec_and_test
<1>6. TypeOK'
  BY <1>2, <1>3, <1>5, Bounds, IntMaxAssumption, RefsAssumption
     DEF kref_put, atomic_dec_and_test, atomic_dec, mb, TypeOK, CounterCounts, IntRange, IntMin
<1>7. releases = 0 /\ Releasing = {}
  BY <1>1, Bounds, FS_EmptySet DEF ReleaseInv, TypeOK
<1>8. ReleaseInv'
  <2>1. CASE Held' = {}
    <3>1. counter' = 0
      BY <1>4, <2>1, FS_EmptySet DEF CounterCounts
    <3>2. Releasing' = {t}
      BY <1>5, <1>7, <3>1 DEF Releasing, TypeOK
    <3>3. Cardinality(Releasing') = 1
      BY <3>2, FS_Singleton
    <3> QED
      BY <1>7, <2>1, <3>3 DEF kref_put, ReleaseInv
  <2>2. CASE Held' # {}
    <3>1. counter' # 0
      BY <1>2, <1>4, <2>2, FS_EmptySet DEF CounterCounts
    <3>2. Releasing' = {}
      BY <1>5, <1>7, <3>1 DEF Releasing, TypeOK
    <3> QED
      BY <1>7, <2>2, <3>2, FS_EmptySet DEF kref_put, ReleaseInv
  <2> QED
    BY <2>1, <2>2
<1>9. PendingInv'
  BY DEF kref_put, atomic_dec_and_test, atomic_dec, mb, PendingInv, Holds, TypeOK
<1> QED
  BY <1>4, <1>6, <1>8, <1>9

\* The call of the release function turns a thread that is about to into one that has.
LEMMA ReleaseStepInv ==
  ASSUME KRefInv, NEW t \in Threads, kref_put_release(t)
  PROVE  KRefInv'
<1> USE DEF KRefInv
<1>1. Releasing' = Releasing \ {t} /\ t \in Releasing /\ Held' = Held
  BY DEF kref_put_release, Releasing, Held, TypeOK
<1>2. Cardinality(Releasing') = Cardinality(Releasing) - 1
  BY <1>1, Bounds, FS_RemoveElement
<1>3. ReleaseInv'
  BY <1>1, <1>2, Bounds DEF kref_put_release, ReleaseInv, TypeOK
<1>4. TypeOK' /\ CounterCounts'
  BY <1>1 DEF kref_put_release, TypeOK, CounterCounts
<1>5. PendingInv'
  BY DEF kref_put_release, PendingInv, Holds
<1> QED
  BY <1>3, <1>4, <1>5

\* A store is made under a reference, and settles at some time.
LEMMA StoreInv ==
  ASSUME KRefInv, NEW t \in Threads, Store(t) \/ Settle(t)
  PROVE  KRefInv'
<1>1. Held' = Held /\ Releasing' = Releasing
  BY DEF Store, Settle, Held, Releasing
<1> QED
  BY <1>1 DEF KRefInv, Store, Settle, wmb, mb, TypeOK, CounterCounts, ReleaseInv, PendingInv, Holds

\* The counter is the number of references out, and the release goes with the last.
THEOREM Invariance == Spec => []KRefInv
<1>1. KRefInv /\ [Next]_vars => KRefInv'
  <2> SUFFICES ASSUME KRefInv, [Next]_vars PROVE KRefInv'
    OBVIOUS
  <2>1. CASE UNCHANGED vars
    BY <2>1 DEF vars, KRefInv, TypeOK, CounterCounts, ReleaseInv, PendingInv, Holds, Held, Releasing
  <2> QED
    BY <2>1, GetInv, PutInv, ReleaseStepInv, StoreInv DEF Next
<1> QED
  BY InitInv, <1>1, PTL DEF Spec

\* Values stay within their types: the counter within its width.
THEOREM TypeCorrect == Spec => []TypeOK
BY Invariance, PTL DEF KRefInv

\* The counter is exact, so it cannot reach zero early or wrap.
THEOREM CounterExact == Spec => []CounterCounts
BY Invariance, PTL DEF KRefInv

\* The release function is called at most once and only when no thread holds
\* a reference, for every interleaving of kref_get and kref_put.
THEOREM ReleaseOnce == Spec => []ReleasedOnce
<1>1. KRefInv => ReleasedOnce
  BY Bounds DEF KRefInv, ReleaseInv, ReleasedOnce, TypeOK
<1> QED
  BY <1>1, Invariance, PTL

\* Every store made to the object is visible before its release function runs,
\* whichever thread stored and whichever puts the last reference.
THEOREM NoLateStore == Spec => []StoresPrecedeRelease
<1>1. ASSUME KRefInv PROVE StoresPrecedeRelease
  <2>1. SUFFICES ASSUME releases + Cardinality(Releasing) > 0, pending # {} PROVE FALSE
    BY DEF StoresPrecedeRelease
  <2>2. Held = {}
    BY <1>1, <2>1, Bounds DEF KRefInv, ReleaseInv
  <2>3. PICK t \in pending : Holds(t)
    BY <1>1, <2>1 DEF KRefInv, PendingInv
  <2>4. t \in Threads /\ Held # {}
    BY <1>1, <2>3, RefsAssumption DEF KRefInv, TypeOK, Holds, Held
  <2> QED
    BY <2>2, <2>4
<1> QED
  BY <1>1, Invariance, PTL

-----------------------------------------------------------------------------
(* atomic.h, for a counter of any width and with overflow *)

\* An atomic_sub undoes the atomic_add of the same value, whatever overflowed.
THEOREM SubUndoesAdd ==
  ASSUME NEW c \in IntRange, NEW i \in IntRange
  PROVE  Wrapped(Wrapped(c + i) - i) = c
BY IntMaxAssumption DEF Wrapped, IntRange, IntMin

\* The order in which two threads' additions reach the counter does not matter.
THEOREM AdditionsCommute ==
  ASSUME NEW c \in IntRange, NEW i \in IntRange, NEW j \in IntRange
  PROVE  /\ Wrapped(c + i) \in IntRange
         /\ Wrapped(Wrapped(c + i) + j) = Wrapped(Wrapped(c + j) + i)
BY IntMaxAssumption DEF Wrapped, IntRange, IntMin

\* The three tests report zero exactly if the counter held what was taken
\* away: no other value wraps onto zero.
THEOREM TestsExact ==
  ASSUME counter \in IntRange, NEW t, NEW i \in IntRange, NEW isZero \in BOOLEAN
  PROVE  /\ atomic_sub_and_test(t, i, isZero) => (isZero <=> atomic_read = i)
         /\ atomic_dec_and_test(t, isZero) => (isZero <=> atomic_read = 1)
         /\ atomic_inc_and_test(t, isZero) => (isZero <=> atomic_read = -1)
<1>1. /\ Wrapped(counter - i) = 0 <=> counter = i
      /\ Wrapped(counter - 1) = 0 <=> counter = 1
      /\ Wrapped(counter + 1) = 0 <=> counter = -1
  BY IntMaxAssumption DEF Wrapped, IntRange, IntMin
<1>2. atomic_sub_and_test(t, i, isZero) => (isZero <=> atomic_read = i)
  BY <1>1 DEF atomic_sub_and_test, atomic_sub, atomic_read
<1>3. atomic_dec_and_test(t, isZero) => (isZero <=> atomic_read = 1)
  BY <1>1 DEF atomic_dec_and_test, atomic_dec, atomic_read
<1>4. atomic_inc_and_test(t, isZero) => (isZero <=> atomic_read = -1)
  BY <1>1 DEF atomic_inc_and_test, atomic_inc, atomic_read
<1> QED
  BY <1>2, <1>3, <1>4
=============================================================================
