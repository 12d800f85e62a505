-------------------------------- MODULE KRef --------------------------------
(***************************************************************************)
(* Reference counts: macos_compat/linux/kref.h over the atomic_t of        *)
(* Atomic.  kref_put calls the release function in a step after the one    *)
(* that decrements the counter.  No file of the repository takes a kref    *)
(* yet, so the callers are the API's: a thread stores to the object only   *)
(* while it holds a reference, passes a reference on to itself or another  *)
(* with kref_get only while it holds one, and puts each reference it holds *)
(* once.  A store may become visible to the other threads long after it    *)
(* was made, at the latest with a barrier.                                 *)
(***************************************************************************)
EXTENDS Atomic, FiniteSets

CONSTANTS
  Threads,
  Refs,      \* names for the references that can be out at a time
  NoThread

\* The positive range of the counter has a value for every set of references.
ASSUME RefsAssumption ==
  /\ NoThread \notin Threads
  /\ IsFiniteSet(Threads) /\ IsFiniteSet(Refs)
  /\ Cardinality(Refs) <= IntMax

VARIABLES
  holder,     \* per reference: the thread that holds it, or NoThread
  at,         \* per thread: "idle", or "release" inside kref_put
  releases    \* how often the release function was called

vars == <<counter, pending, holder, at, releases>>

Held == {r \in Refs : holder[r] # NoThread}

TypeOK ==
  /\ counter \in IntRange
  /\ pending \subseteq Threads
  /\ holder \in [Refs -> Threads \cup {NoThread}]
  /\ at \in [Threads -> {"idle", "release"}]
  /\ releases \in Nat

-----------------------------------------------------------------------------
(* kref.h *)

\* kref_init: the thread that initialises the object holds the one reference;
\* what it has stored to the object may linger, for atomic_set is no full barrier.
Init ==
  /\ counter = 1
  /\ \E t \in Threads, r \in Refs :
       /\ holder = [s \in Refs |-> IF s = r THEN t ELSE NoThread]
       /\ pending \in SUBSET {t}
  /\ at = [t \in Threads |-> "idle"]
  /\ releases = 0

Holds(t) == \E r \in Refs : holder[r] = t

\* Mutation of kref_get: for a thread that holds nothing.
kref_get_Unheld(t, u, r) ==
  /\ at[t] = "idle"
  /\ holder[r] = NoThread
  /\ atomic_inc(t)
  /\ holder' = [holder EXCEPT ![r] = u]
  /\ UNCHANGED <<at, releases>>

kref_get(t, u, r) ==
  /\ at[t] = "idle"
  /\ Holds(t)
  /\ holder[r] = NoThread
  /\ atomic_inc(t)
  /\ holder' = [holder EXCEPT ![r] = u]
  /\ UNCHANGED <<at, releases>>

kref_put(t, r) ==
  /\ at[t] = "idle"
  /\ holder[r] = t
  /\ holder' = [holder EXCEPT ![r] = NoThread]
  /\ \E isZero \in BOOLEAN :
       /\ atomic_dec_and_test(t, isZero)
       /\ at' = [at EXCEPT ![t] = IF isZero THEN "release" ELSE "idle"]
  /\ UNCHANGED releases

\* Mutation of kref_put_release: the function is never called.
kref_put_release_Missing(t) ==
  /\ at[t] = "release"
  /\ at' = [at EXCEPT ![t] = "idle"]
  /\ UNCHANGED <<counter, pending, holder, releases>>

\* The call of the release function, after which kref_put returns 1.
kref_put_release(t) ==
  /\ at[t] = "release"
  /\ at' = [at EXCEPT ![t] = "idle"]
  /\ releases' = releases + 1
  /\ UNCHANGED <<counter, pending, holder>>

-----------------------------------------------------------------------------
(* The object and the memory *)

Store(t) ==
  /\ at[t] = "idle"
  /\ Holds(t)
  /\ pending' = pending \cup {t}
  /\ UNCHANGED <<counter, holder, at, releases>>

\* A store reaches the memory of its own accord, or the thread calls wmb().
Settle(t) ==
  /\ t \in pending
  /\ wmb(t)
  /\ UNCHANGED <<counter, holder, at, releases>>

-----------------------------------------------------------------------------
Next ==
  \/ \E t, u \in Threads, r \in Refs : kref_get(t, u, r)
  \/ \E t \in Threads, r \in Refs : kref_put(t, r)
  \/ \E t \in Threads : kref_put_release(t) \/ Store(t) \/ Settle(t)

Spec == Init /\ [][Next]_vars

\* A kref_put that has brought the count to zero goes on to release.
FairSpec == Spec /\ \A t \in Threads : WF_vars(kref_put_release(t))

-----------------------------------------------------------------------------
Releasing == {t \in Threads : at[t] = "release"}

\* The object is released at most once, by one thread, and never while a
\* thread holds a reference, whatever the order of gets and puts.
ReleasedOnce ==
  /\ releases + Cardinality(Releasing) <= 1
  /\ releases + Cardinality(Releasing) = 1 => Held = {}

\* All that was ever stored to the object is visible when the release function
\* frees it: no thread's store reaches the memory afterwards.
StoresPrecedeRelease == releases + Cardinality(Releasing) > 0 => pending = {}

\* The counter never falls behind the references out: it wraps nowhere.
CounterCounts == counter = Cardinality(Held)

\* No reference is lost: once all are put the release function gets called.
FinallyReleased == [](Held = {} => <>(releases = 1))
=============================================================================
