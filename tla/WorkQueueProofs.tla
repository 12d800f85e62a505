--------------------------- MODULE WorkQueueProofs ---------------------------
(***************************************************************************)
(* Proofs about WorkQueue.  The first part holds in general: for any       *)
(* number of threads, translation units and queues, with the races on      *)
(* gSystemWorkQueue and failing creations.  The second part assumes that   *)
(* each unit's queue exists at the start, for any number of units.         *)
(* The third is about a single translation unit whose queue exists, as in  *)
(* the run workqueue_warm.                                                 *)
(***************************************************************************)
EXTENDS WorkQueue, FiniteSetTheorems, SequenceTheorems, TLAPS

\* The block at position i of a queue.
Waiting(q, i, b) == i \in 1..Len(blocks[q]) /\ blocks[q][i] = b

-----------------------------------------------------------------------------
(* Blocks and sequences *)

LEMMA Kinds ==
  /\ \A m, n : Work(m) = Work(n) => m = n
  /\ \A c, d : Barrier(c) = Barrier(d) => c = d
  /\ \A n, c : Work(n) # Barrier(c)
  /\ \A n : Work(n).kind = "work" /\ Work(n).item = n /\ Work(n) # Idle
  /\ \A c : Barrier(c).kind = "barrier" /\ Barrier(c).caller = c /\ Barrier(c) # Idle
  /\ Idle.kind = "none"
<1>1. \A n : Work(n).kind = "work" /\ Work(n).item = n
  BY DEF Work
<1>2. \A c : Barrier(c).kind = "barrier" /\ Barrier(c).caller = c
  BY DEF Barrier
<1>3. Idle.kind = "none"
  BY DEF Idle
<1> QED
  BY <1>1, <1>2, <1>3

LEMMA AppendFacts ==
  ASSUME NEW S, NEW s \in Seq(S), NEW e \in S
  PROVE  /\ Append(s, e) \in Seq(S)
         /\ Len(s) \in Nat /\ Len(Append(s, e)) = Len(s) + 1
         /\ \A i \in 1..Len(s) : Append(s, e)[i] = s[i]
         /\ Append(s, e)[Len(s) + 1] = e
OBVIOUS

LEMMA TailFacts ==
  ASSUME NEW S, NEW s \in Seq(S), s # <<>>
  PROVE  /\ Len(s) \in Nat \ {0} /\ Head(s) = s[1] /\ Head(s) \in S
         /\ Tail(s) \in Seq(S) /\ Len(Tail(s)) = Len(s) - 1
         /\ \A i \in 1..(Len(s) - 1) : Tail(s)[i] = s[i + 1]
BY HeadTailProperties, EmptySeq, ElementOfSeq

\* What a dispatched block adds to what waits.
LEMMA AppendWaiting ==
  ASSUME TypeOK, NEW q \in Queues, NEW b \in Blocks,
         blocks' = [blocks EXCEPT ![q] = Append(@, b)]
  PROVE  /\ blocks' \in [Queues -> Seq(Blocks)]
         /\ Len(blocks[q]) \in Nat
         /\ \A r \in Queues, i \in Nat : \A a :
              Waiting(r, i, a)' <=>
                Waiting(r, i, a) \/ (r = q /\ i = Len(blocks[q]) + 1 /\ a = b)
<1>1. blocks[q] \in Seq(Blocks)
  BY DEF TypeOK
<1>2. /\ blocks'[q] = Append(blocks[q], b)
      /\ \A r \in Queues : r # q => blocks'[r] = blocks[r]
      /\ blocks' \in [Queues -> Seq(Blocks)]
  BY <1>1, AppendFacts DEF TypeOK
<1>3. ASSUME NEW i \in Nat, NEW a
      PROVE  Waiting(q, i, a)' <=> Waiting(q, i, a) \/ (i = Len(blocks[q]) + 1 /\ a = b)
  BY <1>1, <1>2, AppendFacts DEF Waiting
<1>4. ASSUME NEW r \in Queues, r # q, NEW i \in Nat, NEW a
      PROVE  Waiting(r, i, a)' <=> Waiting(r, i, a)
  BY <1>2, <1>4 DEF Waiting
<1> QED
  BY <1>1, <1>2, <1>3, <1>4, AppendFacts

\* What a queue that begins a block takes away.
LEMMA BeginWaiting ==
  ASSUME TypeOK, NEW q \in Queues, Begin(q)
  PROVE  /\ blocks' \in [Queues -> Seq(Blocks)]
         /\ running' = [running EXCEPT ![q] = blocks[q][1]]
         /\ running[q] = Idle /\ blocks[q][1] \in Blocks
         /\ Waiting(q, 1, blocks[q][1])
         /\ \A i \in Nat : \A a : Waiting(q, i, a)' <=> i >= 1 /\ Waiting(q, i + 1, a)
         /\ \A r \in Queues, i \in Nat : \A a : r # q => (Waiting(r, i, a)' <=> Waiting(r, i, a))
<1>1. blocks[q] \in Seq(Blocks) /\ blocks[q] # <<>>
  BY DEF TypeOK, Begin
<1>2. /\ blocks'[q] = Tail(blocks[q])
      /\ \A r \in Queues : r # q => blocks'[r] = blocks[r]
      /\ blocks' \in [Queues -> Seq(Blocks)]
  BY <1>1, TailFacts DEF TypeOK, Begin
<1>3. /\ running' = [running EXCEPT ![q] = blocks[q][1]]
      /\ running[q] = Idle /\ blocks[q][1] \in Blocks
      /\ Waiting(q, 1, blocks[q][1])
  BY <1>1, TailFacts DEF Begin, Waiting
<1>4. ASSUME NEW i \in Nat, NEW a
      PROVE  Waiting(q, i, a)' <=> i >= 1 /\ Waiting(q, i + 1, a)
  BY <1>1, <1>2, TailFacts DEF Waiting
<1>5. ASSUME NEW r \in Queues, NEW i \in Nat, NEW a, r # q
      PROVE  Waiting(r, i, a)' <=> Waiting(r, i, a)
  BY <1>2, <1>5 DEF Waiting
<1> QED
  BY <1>2, <1>3, <1>4, <1>5

-----------------------------------------------------------------------------
(* The general part: every item is in one place. *)

Somewhere(n) ==
  \/ n \in done
  \/ \E q \in Queues : running[q] = Work(n)
  \/ \E q \in Queues, i \in Nat : Waiting(q, i, Work(n))

EveryItem == \A n \in 1..accepted : Somewhere(n)

OneWait ==
  \A q, r \in Queues, i, j \in Nat, n \in Nat :
    Waiting(q, i, Work(n)) /\ Waiting(r, j, Work(n)) => q = r /\ i = j

OneRun ==
  \A q, r \in Queues, n \in Nat : running[q] = Work(n) /\ running[r] = Work(n) => q = r

RunsAlone ==
  \A q \in Queues, n \in Nat : running[q] = Work(n) =>
    n \notin done /\ \A r \in Queues, i \in Nat : ~Waiting(r, i, Work(n))

WaitsUndone ==
  \A q \in Queues, i \in Nat, n \in Nat : Waiting(q, i, Work(n)) => n \notin done

\* Only accepted items are about, and items are numbered from 1.
KnownItems ==
  \A q \in Queues, n \in Int :
    /\ running[q] = Work(n) => n \in 1..accepted
    /\ \A i \in Nat : Waiting(q, i, Work(n)) => n \in 1..accepted

ItemsInv == EveryItem /\ OneWait /\ OneRun /\ RunsAlone /\ WaitsUndone /\ KnownItems

\* A call of schedule_work that has begun has room for its item.
RoomInv == accepted + Cardinality(Scheduling) <= MaxItems

QueueInv == TypeOK /\ RoomInv /\ ItemsInv

LEMMA SchedulingFinite ==
  IsFiniteSet(Callers) /\ IsFiniteSet(Scheduling) /\ Cardinality(Scheduling) \in Nat
<1>1. IsFiniteSet(Callers)
  BY QueuesAssumption, FS_Union DEF Callers
<1>2. Scheduling \subseteq Callers
  BY DEF Scheduling
<1> QED
  BY <1>1, <1>2, FS_Subset, FS_CardinalityType

\* The item that a dispatch numbers is new; it waits in one queue afterwards.
LEMMA DispatchItems ==
  ASSUME QueueInv, NEW q \in Queues, accepted' = accepted + 1, accepted + 1 <= MaxItems,
         blocks' = [blocks EXCEPT ![q] = Append(@, Work(accepted'))],
         UNCHANGED <<running, done>>
  PROVE  ItemsInv'
<1> DEFINE new == accepted + 1
           last == Len(blocks[q]) + 1
<1>1. /\ accepted \in Nat /\ new \in Nat /\ Work(new) \in Blocks
      /\ blocks' = [blocks EXCEPT ![q] = Append(@, Work(new))]
      /\ new \notin done /\ done' = done /\ running' = running
      /\ done \subseteq 1..accepted
  BY QueuesAssumption DEF QueueInv, TypeOK, Blocks
<1>2. last \in Nat
  BY <1>1, AppendWaiting DEF QueueInv
<1>3. \A r \in Queues, i \in Nat, n \in Int :
        Waiting(r, i, Work(n))' <=>
          Waiting(r, i, Work(n)) \/ (r = q /\ i = last /\ n = new)
  <2>1. \A r \in Queues, i \in Nat : \A a :
          Waiting(r, i, a)' <=> Waiting(r, i, a) \/ (r = q /\ i = last /\ a = Work(new))
    <3>1. TypeOK /\ last = Len(blocks[q]) + 1
      BY DEF QueueInv
    <3>2. PICK b \in Blocks : b = Work(new)
      BY <1>1
    <3>3. blocks' = [blocks EXCEPT ![q] = Append(@, b)]
      BY <1>1, <3>2
    <3> HIDE DEF new, last
    <3> QED
      <4>1. \A r \in Queues, i \in Nat : \A a :
              Waiting(r, i, a)' <=>
                Waiting(r, i, a) \/ (r = q /\ i = Len(blocks[q]) + 1 /\ a = b)
        BY <3>1, <3>3, AppendWaiting
      <4> QED
        BY <3>1, <3>2, <4>1
  <2> HIDE DEF new, last
  <2>2. \A n \in Int : Work(n) = Work(new) <=> n = new
    <3>1. \A n : Work(n) = Work(new) => n = new
      BY Kinds, Zenon
    <3> QED
      BY <3>1, Zenon
  <2> QED
    BY <2>1, <2>2
<1>4. \A r \in Queues, i \in Nat : ~Waiting(r, i, Work(new)) /\ running[r] # Work(new)
  BY <1>1 DEF QueueInv, ItemsInv, KnownItems
<1>5. accepted' = new /\ \A r \in Queues : \A n : running'[r] = Work(n) <=> running[r] = Work(n)
  BY <1>1
<1> HIDE DEF new, last
<1>6. EveryItem'
  <2>1. SUFFICES ASSUME NEW n \in 1..new PROVE Somewhere(n)'
    BY <1>5 DEF EveryItem
  <2>2. CASE n = new
    BY <1>2, <1>3, <2>2 DEF Somewhere
  <2>3. CASE n # new
    <3>1. Somewhere(n)
      BY <1>1, <2>3 DEF QueueInv, ItemsInv, EveryItem, new
    <3>2. n \in Int
      BY <1>1
    <3> QED
      BY <1>1, <1>3, <3>1, <3>2 DEF Somewhere
  <2> QED
    BY <2>2, <2>3
<1>7. OneWait'
  BY <1>1, <1>3, <1>4 DEF QueueInv, ItemsInv, OneWait
<1>8. OneRun'
  BY <1>1 DEF QueueInv, ItemsInv, OneRun
<1>9. RunsAlone'
  BY <1>1, <1>3, <1>4 DEF QueueInv, ItemsInv, RunsAlone
<1>10. WaitsUndone'
  BY <1>1, <1>3 DEF QueueInv, ItemsInv, WaitsUndone
<1>11. KnownItems'
  BY <1>1, <1>3, <1>5 DEF QueueInv, ItemsInv, KnownItems, new
<1> QED
  BY <1>6, <1>7, <1>8, <1>9, <1>10, <1>11 DEF ItemsInv

\* A barrier is no item.
LEMMA BarrierItems ==
  ASSUME QueueInv, NEW q \in Queues, NEW c \in Callers,
         blocks' = [blocks EXCEPT ![q] = Append(@, Barrier(c))],
         UNCHANGED <<accepted, running, done>>
  PROVE  ItemsInv'
<1>1. Barrier(c) \in Blocks
  BY DEF Blocks
<1>2. \A r \in Queues, i \in Nat : \A n :
        Waiting(r, i, Work(n))' <=> Waiting(r, i, Work(n))
  <2>1. \A r \in Queues, i \in Nat : \A a :
          Waiting(r, i, a)' <=>
            Waiting(r, i, a) \/ (r = q /\ i = Len(blocks[q]) + 1 /\ a = Barrier(c))
    BY <1>1, AppendWaiting DEF QueueInv
  <2> QED
    BY <2>1, Kinds
<1> QED
  BY <1>2 DEF QueueInv, ItemsInv, EveryItem, Somewhere, OneWait, OneRun, RunsAlone,
              WaitsUndone, KnownItems

\* An item that begins moves from the head of its queue to the queue's hands.
LEMMA BeginItems ==
  ASSUME QueueInv, NEW q \in Queues, Begin(q)
  PROVE  ItemsInv'
<1> DEFINE head == blocks[q][1]
<1>1. /\ running' = [running EXCEPT ![q] = head]
      /\ running[q] = Idle /\ Waiting(q, 1, head)
      /\ \A i \in Nat : \A a : Waiting(q, i, a)' <=> i >= 1 /\ Waiting(q, i + 1, a)
      /\ \A r \in Queues, i \in Nat : \A a : r # q => (Waiting(r, i, a)' <=> Waiting(r, i, a))
  BY BeginWaiting DEF QueueInv
<1>2. /\ running'[q] = head
      /\ \A r \in Queues : r # q => running'[r] = running[r]
      /\ \A n : running[q] # Work(n)
  BY <1>1, Kinds DEF QueueInv, TypeOK
<1>3. done' = done /\ accepted' = accepted
  BY DEF Begin
<1>4. \A i \in Nat : \A a : Waiting(q, i, a) => i = 1 \/ (i - 1 \in Nat /\ i - 1 >= 1)
  BY DEF Waiting
<1>5. \A a : Waiting(q, 1, a) => a = head
  BY DEF Waiting
<1> HIDE DEF head
<1>6. EveryItem'
  <2>1. SUFFICES ASSUME NEW n \in 1..accepted PROVE Somewhere(n)'
    BY <1>3 DEF EveryItem
  <2>2. Somewhere(n)
    BY DEF QueueInv, ItemsInv, EveryItem
  <2>3. CASE n \in done
    BY <1>3, <2>3 DEF Somewhere
  <2>4. ASSUME NEW r \in Queues, running[r] = Work(n) PROVE Somewhere(n)'
    BY <1>2, <2>4 DEF Somewhere
  <2>5. ASSUME NEW r \in Queues, NEW i \in Nat, Waiting(r, i, Work(n)) PROVE Somewhere(n)'
    <3>1. CASE r # q
      BY <1>1, <2>5, <3>1 DEF Somewhere
    <3>2. CASE r = q /\ i = 1
      BY <1>2, <1>5, <2>5, <3>2 DEF Somewhere
    <3>3. CASE r = q /\ i # 1
      <4>1. i - 1 \in Nat /\ i - 1 >= 1 /\ (i - 1) + 1 = i
        BY <1>4, <2>5, <3>3
      <4>2. Waiting(q, i - 1, Work(n))'
        BY <1>1, <2>5, <3>3, <4>1
      <4> QED
        BY <4>1, <4>2 DEF Somewhere
    <3> QED
      BY <3>1, <3>2, <3>3
  <2> QED
    BY <2>2, <2>3, <2>4, <2>5 DEF Somewhere
<1>7. OneWait'
  BY <1>1 DEF QueueInv, ItemsInv, OneWait
<1>8. OneRun'
  BY <1>1, <1>2 DEF QueueInv, ItemsInv, OneRun, RunsAlone
<1>9. RunsAlone'
  <2>1. SUFFICES ASSUME NEW p \in Queues, NEW n \in Nat, running'[p] = Work(n)
                 PROVE  n \notin done /\ \A r \in Queues, i \in Nat : ~Waiting(r, i, Work(n))'
    BY <1>3 DEF RunsAlone
  <2>2. CASE p # q
    BY <1>1, <1>2, <2>1, <2>2 DEF QueueInv, ItemsInv, RunsAlone
  <2>3. CASE p = q
    <3>1. Waiting(q, 1, Work(n))
      BY <1>1, <1>2, <2>1, <2>3
    <3> QED
      BY <1>1, <3>1 DEF QueueInv, ItemsInv, OneWait, WaitsUndone
  <2> QED
    BY <2>2, <2>3
<1>10. WaitsUndone'
  BY <1>1, <1>3 DEF QueueInv, ItemsInv, WaitsUndone
<1>11. KnownItems'
  BY <1>1, <1>2, <1>3 DEF QueueInv, ItemsInv, KnownItems
<1> QED
  BY <1>6, <1>7, <1>8, <1>9, <1>10, <1>11 DEF ItemsInv

\* An item that finishes moves from the queue's hands to done.
LEMMA FinishItems ==
  ASSUME QueueInv, NEW q \in Queues, NEW b \in Blocks, running[q] = b,
         running' = [running EXCEPT ![q] = Idle],
         \/ b.kind = "work" /\ done' = done \cup {b.item}
         \/ b.kind = "barrier" /\ done' = done,
         UNCHANGED <<blocks, accepted>>
  PROVE  ItemsInv' /\ done' \subseteq 1..accepted
<1>1. \A r \in Queues : \A i, a : Waiting(r, i, a)' <=> Waiting(r, i, a)
  BY DEF Waiting
<1>2. /\ \A n : running'[q] # Work(n)
      /\ \A r \in Queues : r # q => running'[r] = running[r]
  BY Kinds DEF QueueInv, TypeOK
<1>3. CASE b.kind = "barrier"
  <2>1. done' = done /\ \A n : b # Work(n)
    BY <1>3, Kinds
  <2>2. ItemsInv'
    BY <1>1, <1>2, <2>1
       DEF QueueInv, ItemsInv, EveryItem, Somewhere, OneWait, OneRun, RunsAlone,
           WaitsUndone, KnownItems
  <2> QED
    BY <2>1, <2>2 DEF QueueInv, TypeOK
<1>4. CASE b.kind = "work"
  <2>1. PICK n \in 1..MaxItems : b = Work(n)
    BY <1>4, Kinds DEF Blocks
  <2>2. done' = done \cup {n}
    BY <1>4, <2>1, Kinds
  <2>3. n \in 1..accepted /\ n \in Nat
    BY <2>1, QueuesAssumption DEF QueueInv, ItemsInv, KnownItems
  <2>4. EveryItem'
    BY <1>1, <1>2, <2>1, <2>2, Kinds DEF QueueInv, ItemsInv, EveryItem, Somewhere
  <2>5. OneWait' /\ OneRun' /\ KnownItems'
    BY <1>1, <1>2 DEF QueueInv, ItemsInv, OneWait, OneRun, KnownItems
  <2>6. RunsAlone'
    BY <1>1, <1>2, <2>1, <2>2, <2>3 DEF QueueInv, ItemsInv, RunsAlone, OneRun
  <2>7. WaitsUndone'
    BY <1>1, <2>1, <2>2, <2>3 DEF QueueInv, ItemsInv, RunsAlone, WaitsUndone
  <2> QED
    BY <2>2, <2>3, <2>4, <2>5, <2>6, <2>7 DEF QueueInv, TypeOK, ItemsInv
<1> QED
  BY <1>3, <1>4

\* Steps that leave the blocks alone leave the items where they are.
LEMMA ItemsKept ==
  ASSUME ItemsInv, UNCHANGED <<blocks, running, accepted, done>>
  PROVE  ItemsInv'
BY DEF ItemsInv, EveryItem, Somewhere, Waiting, OneWait, OneRun, RunsAlone, WaitsUndone,
       KnownItems

\* Calls that end make room; nothing else but a new call takes it.
LEMMA RoomKept ==
  ASSUME RoomInv, Scheduling' \subseteq Scheduling, accepted' = accepted,
         TypeOK, TypeOK'
  PROVE  RoomInv'
<1>1. Cardinality(Scheduling') <= Cardinality(Scheduling) /\ Cardinality(Scheduling') \in Nat
  BY SchedulingFinite, FS_Subset, FS_CardinalityType
<1> QED
  BY <1>1, SchedulingFinite, QueuesAssumption DEF RoomInv, TypeOK

LEMMA InitGeneral == Init => QueueInv
<1> SUFFICES ASSUME Init PROVE QueueInv
  OBVIOUS
<1>1. TypeOK
  <2>1. gSystemWorkQueue \in [Units -> Queues \cup {NULL}]
    BY QueuesAssumption DEF Init
  <2>2. created \subseteq Queues
    BY <2>1 DEF Init
  <2>3. blocks \in [Queues -> Seq(Blocks)]
    BY EmptySeq DEF Init
  <2>4. (CHOOSE u \in Units : TRUE) \in Units
    BY QueuesAssumption
  <2>5. failed \in BOOLEAN
    BY DEF Init
  <2>6. /\ running \in [Queues -> Blocks \cup {Idle}]
        /\ at \in [Callers -> {"idle", "crashed"} \cup ScheduleSteps \cup FlushSteps]
        /\ unit \in [Callers -> Units] /\ seen \in [Callers -> Queues \cup {NULL}]
        /\ accepted \in 0..MaxItems /\ done \subseteq 1..accepted
        /\ before \in [Callers -> 0..accepted]
    BY <2>4, QueuesAssumption DEF Init
  <2> QED
    BY <2>1, <2>2, <2>3, <2>5, <2>6 DEF TypeOK
<1>2. Scheduling = {}
  BY DEF Init, Scheduling, ScheduleSteps
<1>3. RoomInv
  BY <1>2, FS_EmptySet, QueuesAssumption DEF Init, RoomInv
<1>4. \A q \in Queues : running[q] = Idle /\ \A i, a : ~Waiting(q, i, a)
  BY DEF Init, Waiting
<1>5. ItemsInv
  BY <1>4, Kinds
     DEF Init, ItemsInv, EveryItem, OneWait, OneRun, RunsAlone, WaitsUndone, KnownItems
<1> QED
  BY <1>1, <1>3, <1>5 DEF QueueInv

\* The steps of schedule_work and flush_scheduled_work before they dispatch.
LEMMA CallStep ==
  ASSUME QueueInv, NEW c \in Callers,
         \/ ScheduleCall(c) \/ EnsureCheck(c) \/ EnsureCreate(c) \/ Validate(c)
         \/ FlushCheck(c) \/ (c \in Threads /\ FlushCall(c))
  PROVE  QueueInv'
<1> USE DEF Goto, See, Forget, ScheduleSteps, FlushSteps
<1>1. ItemsInv'
  BY ItemsKept
     DEF QueueInv, ScheduleCall, EnsureCheck, EnsureCreate, Validate, FlushCheck, FlushCall
<1>2. Views(c) \subseteq Queues \cup {NULL} /\ SystemQueue(c) \in Queues \cup {NULL}
  BY DEF QueueInv, TypeOK, Views, SystemQueue
<1>3. CASE ScheduleCall(c)
  <2>1. TypeOK'
    BY <1>3 DEF QueueInv, TypeOK, ScheduleCall
  <2>2. Scheduling' = Scheduling \cup {c} /\ c \notin Scheduling
    BY <1>3 DEF QueueInv, TypeOK, ScheduleCall, Scheduling
  <2>3. Cardinality(Scheduling') = Cardinality(Scheduling) + 1
    BY <2>2, SchedulingFinite, FS_AddElement
  <2>4. RoomInv'
    BY <1>3, <2>3, SchedulingFinite, QueuesAssumption
       DEF QueueInv, TypeOK, ScheduleCall, RoomInv
  <2> QED
    BY <1>1, <2>1, <2>4 DEF QueueInv
<1>4. CASE ~ScheduleCall(c)
  <2>1. TypeOK'
    <3>1. CASE EnsureCheck(c)
      BY <1>2, <3>1 DEF QueueInv, TypeOK, EnsureCheck
    <3>2. CASE EnsureCreate(c)
      BY <3>2 DEF QueueInv, TypeOK, EnsureCreate
    <3>3. CASE Validate(c)
      BY <1>2, <3>3 DEF QueueInv, TypeOK, Validate
    <3>4. CASE FlushCheck(c)
      BY <1>2, <3>4 DEF QueueInv, TypeOK, FlushCheck
    <3>5. CASE FlushCall(c)
      BY <3>5, QueuesAssumption DEF QueueInv, TypeOK, FlushCall
    <3> QED
      BY <1>4, <3>1, <3>2, <3>3, <3>4, <3>5
  <2>2. Scheduling' \subseteq Scheduling
    <3>1. at'[c] \in ScheduleSteps => at[c] \in ScheduleSteps
      BY <1>4 DEF QueueInv, TypeOK, EnsureCheck, EnsureCreate, Validate, FlushCheck, FlushCall
    <3>2. \A d \in Callers : d # c => at'[d] = at[d]
      BY <1>4 DEF QueueInv, TypeOK, EnsureCheck, EnsureCreate, Validate, FlushCheck, FlushCall
    <3> QED
      BY <3>1, <3>2 DEF Scheduling
  <2>3. accepted' = accepted
    BY <1>4 DEF EnsureCheck, EnsureCreate, Validate, FlushCheck, FlushCall
  <2> QED
    BY <1>1, <2>1, <2>2, <2>3, RoomKept DEF QueueInv
<1> QED
  BY <1>3, <1>4

LEMMA DispatchStep ==
  ASSUME QueueInv, NEW c \in Callers, Dispatch(c)
  PROVE  QueueInv'
<1> USE DEF Goto, See, Forget, ScheduleSteps, FlushSteps
<1>1. PICK q \in Views(c) :
        IF q = NULL
        THEN /\ Goto(c, "dispatch", "crashed")
             /\ UNCHANGED <<accepted, blocks>>
        ELSE /\ Goto(c, "dispatch", "idle")
             /\ accepted' = accepted + 1
             /\ blocks' = [blocks EXCEPT ![q] = Append(@, Work(accepted'))]
  BY DEF Dispatch
<1>2. q \in Queues \cup {NULL}
  BY DEF QueueInv, TypeOK, Views, SystemQueue
<1>3. c \in Scheduling /\ Scheduling' = Scheduling \ {c}
  BY <1>1 DEF QueueInv, TypeOK, Scheduling
<1>4. /\ Cardinality(Scheduling') = Cardinality(Scheduling) - 1
      /\ Cardinality(Scheduling') \in Nat
  BY <1>3, SchedulingFinite, FS_RemoveElement, FS_CardinalityType
<1>5. CASE q = NULL
  <2>1. TypeOK'
    BY <1>1, <1>5 DEF QueueInv, TypeOK, Dispatch
  <2>2. ItemsInv'
    BY <1>1, <1>5, ItemsKept DEF QueueInv, Dispatch
  <2> QED
    BY <1>1, <1>3, <1>5, <2>1, <2>2, RoomKept DEF QueueInv
<1>6. CASE q # NULL
  <2>1. accepted + 1 <= MaxItems /\ accepted' = accepted + 1 /\ accepted' \in 0..MaxItems
    BY <1>1, <1>4, <1>6, SchedulingFinite, QueuesAssumption DEF QueueInv, TypeOK, RoomInv
  <2>2. ItemsInv'
    BY <1>1, <1>2, <1>6, <2>1, DispatchItems DEF Dispatch
  <2>3. Work(accepted') \in Blocks
    BY <2>1, QueuesAssumption DEF QueueInv, TypeOK, Blocks
  <2>4. blocks' \in [Queues -> Seq(Blocks)]
    BY <1>1, <1>2, <1>6, <2>3, AppendWaiting DEF QueueInv
  <2>5. TypeOK'
    <3>1. 1..accepted \subseteq 1..accepted' /\ 0..accepted \subseteq 0..accepted'
      BY <2>1 DEF QueueInv, TypeOK
    <3>2. done' \subseteq 1..accepted' /\ before' \in [Callers -> 0..accepted']
      BY <3>1 DEF QueueInv, TypeOK, Dispatch
    <3>3. /\ at' \in [Callers -> {"idle", "crashed"} \cup ScheduleSteps \cup FlushSteps]
          /\ seen' \in [Callers -> Queues \cup {NULL}]
      BY <1>1, <1>6 DEF QueueInv, TypeOK, Dispatch
    <3> QED
      BY <2>1, <2>4, <3>2, <3>3 DEF QueueInv, TypeOK, Dispatch
  <2>6. RoomInv'
    BY <1>4, <2>1, SchedulingFinite, QueuesAssumption DEF QueueInv, TypeOK, RoomInv
  <2> QED
    BY <2>2, <2>5, <2>6 DEF QueueInv
<1> QED
  BY <1>5, <1>6

LEMMA FlushDispatchStep ==
  ASSUME QueueInv, NEW c \in Callers, FlushDispatch(c)
  PROVE  QueueInv'
<1> USE DEF Goto, See, Forget, ScheduleSteps, FlushSteps
<1>1. PICK q \in Views(c) :
        IF q = NULL
        THEN /\ Goto(c, "flush_dispatch", "crashed")
             /\ UNCHANGED blocks
        ELSE /\ Goto(c, "flush_dispatch", "flush_wait")
             /\ blocks' = [blocks EXCEPT ![q] = Append(@, Barrier(c))]
  BY DEF FlushDispatch
<1>2. q \in Queues \cup {NULL}
  BY DEF QueueInv, TypeOK, Views, SystemQueue
<1>3. Scheduling' \subseteq Scheduling /\ accepted' = accepted
  BY <1>1 DEF QueueInv, TypeOK, Scheduling, FlushDispatch
<1>4. CASE q = NULL
  <2>1. TypeOK'
    BY <1>1, <1>4 DEF QueueInv, TypeOK, FlushDispatch
  <2>2. ItemsInv'
    BY <1>1, <1>4, ItemsKept DEF QueueInv, FlushDispatch
  <2> QED
    BY <1>3, <2>1, <2>2, RoomKept DEF QueueInv
<1>5. CASE q # NULL
  <2>1. Barrier(c) \in Blocks
    BY DEF Blocks
  <2>2. blocks' \in [Queues -> Seq(Blocks)]
    BY <1>1, <1>2, <1>5, <2>1, AppendWaiting DEF QueueInv
  <2>3. TypeOK'
    BY <1>1, <1>5, <2>2 DEF QueueInv, TypeOK, FlushDispatch
  <2>4. ItemsInv'
    BY <1>1, <1>2, <1>5, BarrierItems DEF FlushDispatch
  <2> QED
    BY <1>3, <2>3, <2>4, RoomKept DEF QueueInv
<1> QED
  BY <1>4, <1>5

LEMMA QueueStepInv ==
  ASSUME QueueInv, NEW q \in Queues, QueueStep(q)
  PROVE  QueueInv'
<1>1. CASE Begin(q)
  <2>1. TypeOK'
    BY <1>1, BeginWaiting DEF QueueInv, TypeOK, Begin
  <2>2. Scheduling' = Scheduling /\ accepted' = accepted
    BY <1>1 DEF Begin, Scheduling
  <2> QED
    BY <1>1, <2>1, <2>2, BeginItems, RoomKept DEF QueueInv
<1>2. CASE FinishWork(q) \/ FinishBarrier(q)
  <2>1. running[q] \in Blocks
    BY <1>2, Kinds DEF FinishWork, FinishBarrier, QueueInv, TypeOK
  <2>2. ItemsInv' /\ done' \subseteq 1..accepted
    BY <1>2, <2>1, FinishItems DEF FinishWork, FinishBarrier
  <2>3. TypeOK'
    BY <1>2, <2>2 DEF FinishWork, FinishBarrier, QueueInv, TypeOK
  <2>4. Scheduling' \subseteq Scheduling /\ accepted' = accepted
    BY <1>2 DEF FinishWork, FinishBarrier, QueueInv, TypeOK, Scheduling, ScheduleSteps
  <2> QED
    BY <2>2, <2>3, <2>4, RoomKept DEF QueueInv
<1> QED
  BY <1>1, <1>2 DEF QueueStep

LEMMA GeneralStep == QueueInv /\ [Next]_vars => QueueInv'
<1> SUFFICES ASSUME QueueInv, [Next]_vars PROVE QueueInv'
  OBVIOUS
<1>1. CASE UNCHANGED vars
  <2>1. TypeOK' /\ ItemsInv'
    BY <1>1, ItemsKept DEF vars, QueueInv, TypeOK
  <2>2. Scheduling' = Scheduling /\ accepted' = accepted
    BY <1>1 DEF vars, Scheduling
  <2> QED
    BY <2>1, <2>2, RoomKept DEF QueueInv
<1>2. Threads \subseteq Callers
  BY DEF Callers
<1> QED
  BY <1>1, <1>2, CallStep, DispatchStep, FlushDispatchStep, QueueStepInv DEF Next, InCall

THEOREM Invariance == Spec => []QueueInv
BY InitGeneral, GeneralStep, PTL DEF Spec

\* Values stay within their types, and no more items are accepted than the bound.
THEOREM TypeCorrect == Spec => []TypeOK
BY Invariance, PTL DEF QueueInv

\* Each accepted item is in exactly one place, in a queue, in a queue's hands or
\* done: for any number of threads that race to create any number of queues.
THEOREM NoItemLost == Spec => []ItemsConserved
<1>1. ASSUME QueueInv, NEW n \in 1..accepted PROVE \E p : Places(n) = {p}
  <2>1. n \in Nat /\ Somewhere(n)
    BY <1>1 DEF QueueInv, ItemsInv, EveryItem
  <2>2. \A q \in Queues : \A i : i \in InBlocks(q, n) <=> i \in Nat /\ Waiting(q, i, Work(n))
    BY <1>1 DEF QueueInv, TypeOK, InBlocks, Waiting
  <2>3. CASE n \in done
    <3>1. /\ \A q \in Queues : InBlocks(q, n) = {} /\ running[q] # Work(n)
      BY <1>1, <2>1, <2>2, <2>3 DEF QueueInv, ItemsInv, RunsAlone, WaitsUndone
    <3>2. Waits(n) = {}
      BY <3>1 DEF Waits
    <3>3. Runs(n) = {}
      BY <3>1 DEF Runs
    <3>4. Ends(n) = {<<NULL, 0>>}
      BY <2>3 DEF Ends
    <3>5. Places(n) = {<<NULL, 0>>}
      BY <3>2, <3>3, <3>4 DEF Places
    <3> QED
      BY <3>5
  <2>4. ASSUME NEW q \in Queues, running[q] = Work(n) PROVE \E p : Places(n) = {p}
    <3>1. n \notin done /\ \A r \in Queues : InBlocks(r, n) = {}
      BY <1>1, <2>1, <2>2, <2>4 DEF QueueInv, ItemsInv, RunsAlone
    <3>2. {r \in Queues : running[r] = Work(n)} = {q}
      BY <1>1, <2>1, <2>4 DEF QueueInv, ItemsInv, OneRun
    <3>3. Waits(n) = {}
      BY <3>1 DEF Waits
    <3>4. Runs(n) = {<<q, 0>>}
      BY <3>2 DEF Runs
    <3>5. Ends(n) = {}
      BY <3>1 DEF Ends
    <3>6. Places(n) = {<<q, 0>>}
      BY <3>3, <3>4, <3>5 DEF Places
    <3> QED
      BY <3>6
  <2>5. ASSUME NEW q \in Queues, NEW i \in Nat, Waiting(q, i, Work(n))
        PROVE  \E p : Places(n) = {p}
    <3>1. Runs(n) = {} /\ Ends(n) = {}
      BY <1>1, <2>1, <2>5 DEF QueueInv, ItemsInv, RunsAlone, WaitsUndone, Runs, Ends
    <3>2. InBlocks(q, n) = {i} /\ \A r \in Queues : r # q => InBlocks(r, n) = {}
      BY <1>1, <2>1, <2>2, <2>5 DEF QueueInv, ItemsInv, OneWait
    <3>3. Waits(n) = {<<q, i>>}
      BY <3>2 DEF Waits
    <3>4. Places(n) = {<<q, i>>}
      BY <3>1, <3>3 DEF Places
    <3> QED
      BY <3>4
  <2> QED
    BY <2>1, <2>3, <2>4, <2>5 DEF Somewhere
<1>2. QueueInv => ItemsConserved
  BY <1>1, FS_Singleton DEF ItemsConserved
<1> QED
  BY <1>2, Invariance, PTL

-----------------------------------------------------------------------------
(* The general part: each queue keeps the order of its items and barriers. *)

\* Items wait in the order of their numbers, behind the one that runs.
LineInv ==
  /\ \A q \in Queues, i, j \in Nat, m, n \in Nat :
       Waiting(q, i, Work(m)) /\ Waiting(q, j, Work(n)) /\ i < j => m < n
  /\ \A q \in Queues, j \in Nat, m, n \in Nat :
       running[q] = Work(m) /\ Waiting(q, j, Work(n)) => m < n

\* A thread that waits has at most one barrier, in one queue; the items behind
\* it were accepted after the call.
Behind(q, i, c) == \A j \in Nat, n \in Nat : Waiting(q, j, Work(n)) /\ i < j => n > before[c]

BarrierInv ==
  \A q \in Queues, c \in Callers :
    /\ running[q] = Barrier(c) =>
         /\ at[c] = "flush_wait"
         /\ \A r \in Queues : /\ running[r] = Barrier(c) => r = q
                              /\ \A i \in Nat : ~Waiting(r, i, Barrier(c))
         /\ Behind(q, 0, c)
    /\ \A i \in Nat : Waiting(q, i, Barrier(c)) =>
         /\ at[c] = "flush_wait"
         /\ \A r \in Queues, j \in Nat : Waiting(r, j, Barrier(c)) => r = q /\ j = i
         /\ Behind(q, i, c)

OrderedInv == QueueInv /\ LineInv /\ BarrierInv

LEMMA InitOrdered == Init => OrderedInv
<1> SUFFICES ASSUME Init PROVE OrderedInv
  OBVIOUS
<1>1. \A q \in Queues : running[q] = Idle /\ \A i, a : ~Waiting(q, i, a)
  BY DEF Init, Waiting
<1>2. LineInv /\ BarrierInv
  BY <1>1, Kinds DEF LineInv, BarrierInv
<1> QED
  BY <1>2, InitGeneral DEF OrderedInv

\* A caller without a barrier may go anywhere, and note what it likes.
LEMMA OthersOrdered ==
  ASSUME LineInv, BarrierInv, NEW c \in Callers, at[c] # "flush_wait",
         UNCHANGED <<blocks, running>>,
         \A d \in Callers : d # c => at'[d] = at[d] /\ before'[d] = before[d]
  PROVE  LineInv' /\ BarrierInv'
<1>1. \A q, i, b : Waiting(q, i, b)' <=> Waiting(q, i, b)
  BY DEF Waiting
<1>2. LineInv'
  BY <1>1 DEF LineInv
<1>3. ASSUME NEW d \in Callers, d # c, NEW q \in Queues, NEW i \in Nat
      PROVE  Behind(q, i, d)' <=> Behind(q, i, d)
  BY <1>1, <1>3 DEF Behind
<1>4. \A q \in Queues, i \in Nat : running[q] # Barrier(c) /\ ~Waiting(q, i, Barrier(c))
  BY DEF BarrierInv
<1>5. BarrierInv'
  <2>1. SUFFICES ASSUME NEW q \in Queues, NEW d \in Callers, d # c
                 PROVE  /\ running[q] = Barrier(d) =>
                             /\ at'[d] = "flush_wait"
                             /\ \A r \in Queues : /\ running[r] = Barrier(d) => r = q
                                                  /\ \A i \in Nat : ~Waiting(r, i, Barrier(d))
                             /\ Behind(q, 0, d)'
                        /\ \A i \in Nat : Waiting(q, i, Barrier(d)) =>
                             /\ at'[d] = "flush_wait"
                             /\ \A r \in Queues, j \in Nat :
                                  Waiting(r, j, Barrier(d)) => r = q /\ j = i
                             /\ Behind(q, i, d)'
    BY <1>1, <1>4 DEF BarrierInv
  <2> QED
    BY <1>3, <2>1 DEF BarrierInv
<1> QED
  BY <1>2, <1>5

LEMMA CallOrdered ==
  ASSUME OrderedInv, NEW c \in Callers,
         \/ ScheduleCall(c) \/ EnsureCheck(c) \/ EnsureCreate(c) \/ Validate(c)
         \/ FlushCheck(c) \/ (c \in Threads /\ FlushCall(c))
  PROVE  LineInv' /\ BarrierInv'
<1> USE DEF Goto
<1>1. /\ at[c] # "flush_wait" /\ UNCHANGED <<blocks, running>>
      /\ \A d \in Callers : d # c => at'[d] = at[d] /\ before'[d] = before[d]
  BY DEF OrderedInv, QueueInv, TypeOK, ScheduleCall, EnsureCheck, EnsureCreate, Validate,
         FlushCheck, FlushCall
<1> QED
  BY <1>1, OthersOrdered DEF OrderedInv

\* A dispatched block is the last one of its queue.
LEMMA LastWaiting ==
  ASSUME TypeOK, NEW q \in Queues, NEW b \in Blocks,
         blocks' = [blocks EXCEPT ![q] = Append(@, b)]
  PROVE  \E last \in Nat :
           /\ \A i \in Nat : \A a : Waiting(q, i, a) => i < last
           /\ \A r \in Queues, i \in Nat : \A a :
                Waiting(r, i, a)' <=> Waiting(r, i, a) \/ (r = q /\ i = last /\ a = b)
<1> DEFINE last == Len(blocks[q]) + 1
<1>1. Len(blocks[q]) \in Nat
  BY AppendWaiting
<1>2. \A i \in Nat : \A a : Waiting(q, i, a) => i < last
  BY <1>1 DEF Waiting
<1>3. last \in Nat
  BY <1>1
<1>4. \A r \in Queues, i \in Nat : \A a :
        Waiting(r, i, a)' <=> Waiting(r, i, a) \/ (r = q /\ i = last /\ a = b)
  BY AppendWaiting
<1> HIDE DEF last
<1> WITNESS last \in Nat
<1> QED
  BY <1>2, <1>4

\* A new item goes behind all others of its queue, and behind every barrier.
LEMMA DispatchOrdered ==
  ASSUME OrderedInv, NEW c \in Callers, Dispatch(c)
  PROVE  LineInv' /\ BarrierInv'
<1> DEFINE new == accepted + 1
<1>1. PICK q \in Views(c) :
        IF q = NULL
        THEN at' = [at EXCEPT ![c] = "crashed"] /\ UNCHANGED <<accepted, blocks>>
        ELSE /\ at' = [at EXCEPT ![c] = "idle"] /\ accepted' = new
             /\ blocks' = [blocks EXCEPT ![q] = Append(@, Work(new))]
  BY DEF Dispatch, Goto
<1>2. q \in Queues \cup {NULL}
  BY DEF OrderedInv, QueueInv, TypeOK, Views, SystemQueue
<1>3. /\ at[c] = "dispatch" /\ UNCHANGED <<running, before>>
      /\ \A d \in Callers : d # c => at'[d] = at[d]
  BY <1>1 DEF Dispatch, Goto, OrderedInv, QueueInv, TypeOK
<1>4. CASE q = NULL
  BY <1>1, <1>3, <1>4, OthersOrdered DEF OrderedInv
<1>5. CASE q # NULL
  <2>1. /\ accepted \in Nat /\ new \in Nat /\ Work(new) \in Blocks /\ q \in Queues
        /\ \A d \in Callers : before[d] < new
    <3>1. accepted' \in 0..MaxItems
      BY DispatchStep DEF OrderedInv, QueueInv, TypeOK
    <3> QED
      BY <1>1, <1>2, <1>5, <3>1, QueuesAssumption DEF OrderedInv, QueueInv, TypeOK, Blocks
  <2>2. PICK last \in Nat :
          /\ \A i \in Nat : \A a : Waiting(q, i, a) => i < last
          /\ \A r \in Queues, i \in Nat : \A a :
               Waiting(r, i, a)' <=> Waiting(r, i, a) \/ (r = q /\ i = last /\ a = Work(new))
    BY <1>1, <1>5, <2>1, LastWaiting DEF OrderedInv, QueueInv
  <2>3. \A r \in Queues, n \in Nat :
          /\ running[r] = Work(n) => n < new
          /\ \A i \in Nat : Waiting(r, i, Work(n)) => n < new
    BY <2>1 DEF OrderedInv, QueueInv, ItemsInv, KnownItems
  <2> HIDE DEF new
  <2>4. /\ \A r \in Queues, i \in Nat, n \in Nat :
             Waiting(r, i, Work(n))' <=> Waiting(r, i, Work(n)) \/ (r = q /\ i = last /\ n = new)
        /\ \A r \in Queues, i \in Nat : \A d :
             Waiting(r, i, Barrier(d))' <=> Waiting(r, i, Barrier(d))
    BY <2>1, <2>2, Kinds
  <2>5. LineInv'
    <3>1. \A r \in Queues, i, j \in Nat, m, n \in Nat :
            Waiting(r, i, Work(m))' /\ Waiting(r, j, Work(n))' /\ i < j => m < n
      BY <2>2, <2>3, <2>4 DEF OrderedInv, LineInv
    <3>2. \A r \in Queues, j \in Nat, m, n \in Nat :
            running[r] = Work(m) /\ Waiting(r, j, Work(n))' => m < n
      BY <2>3, <2>4 DEF OrderedInv, LineInv
    <3> QED
      BY <1>3, <3>1, <3>2 DEF LineInv
  <2>6. \A d \in Callers, r \in Queues, i \in Nat : Behind(r, i, d) => Behind(r, i, d)'
    BY <1>3, <2>1, <2>4 DEF Behind
  <2>7. \A d \in Callers : at[d] = "flush_wait" => at'[d] = "flush_wait"
    BY <1>3
  <2>8. BarrierInv'
    BY <1>3, <2>4, <2>6, <2>7 DEF OrderedInv, BarrierInv
  <2> QED
    BY <2>5, <2>8
<1> QED
  BY <1>4, <1>5

\* A thread that dispatches its barrier has no other; nothing is behind it yet.
LEMMA FlushDispatchOrdered ==
  ASSUME OrderedInv, NEW c \in Callers, FlushDispatch(c)
  PROVE  LineInv' /\ BarrierInv'
<1>1. PICK q \in Views(c) :
        IF q = NULL
        THEN at' = [at EXCEPT ![c] = "crashed"] /\ UNCHANGED blocks
        ELSE /\ at' = [at EXCEPT ![c] = "flush_wait"]
             /\ blocks' = [blocks EXCEPT ![q] = Append(@, Barrier(c))]
  BY DEF FlushDispatch, Goto
<1>2. q \in Queues \cup {NULL}
  BY DEF OrderedInv, QueueInv, TypeOK, Views, SystemQueue
<1>3. /\ at[c] = "flush_dispatch" /\ UNCHANGED <<running, before>>
      /\ \A d \in Callers : d # c => at'[d] = at[d]
  BY <1>1 DEF FlushDispatch, Goto, OrderedInv, QueueInv, TypeOK
<1>4. CASE q = NULL
  BY <1>1, <1>3, <1>4, OthersOrdered DEF OrderedInv
<1>5. CASE q # NULL
  <2>1. Barrier(c) \in Blocks /\ q \in Queues
    BY <1>2, <1>5 DEF Blocks
  <2>2. PICK last \in Nat :
          /\ \A i \in Nat : \A a : Waiting(q, i, a) => i < last
          /\ \A r \in Queues, i \in Nat : \A a :
               Waiting(r, i, a)' <=> Waiting(r, i, a) \/ (r = q /\ i = last /\ a = Barrier(c))
    BY <1>1, <1>5, <2>1, LastWaiting DEF OrderedInv, QueueInv
  <2>3. at'[c] = "flush_wait"
    BY <1>1, <1>5 DEF OrderedInv, QueueInv, TypeOK
  <2>4. /\ \A r \in Queues, i \in Nat : \A n :
             Waiting(r, i, Work(n))' <=> Waiting(r, i, Work(n))
        /\ \A r \in Queues, i \in Nat : \A d :
             Waiting(r, i, Barrier(d))' <=>
               Waiting(r, i, Barrier(d)) \/ (r = q /\ i = last /\ d = c)
    BY <2>2, Kinds
  <2>5. LineInv'
    <3>1. /\ \A r \in Queues, i, j \in Nat, m, n \in Nat :
               Waiting(r, i, Work(m))' /\ Waiting(r, j, Work(n))' /\ i < j => m < n
          /\ \A r \in Queues, j \in Nat, m, n \in Nat :
               running[r] = Work(m) /\ Waiting(r, j, Work(n))' => m < n
      BY <2>4 DEF OrderedInv, LineInv
    <3> QED
      BY <1>3, <3>1 DEF LineInv
  <2>6. \A r \in Queues : running[r] # Barrier(c) /\ \A i \in Nat : ~Waiting(r, i, Barrier(c))
    BY <1>3 DEF OrderedInv, BarrierInv
  <2>7. \A d \in Callers, r \in Queues, i \in Nat : Behind(r, i, d)' <=> Behind(r, i, d)
    BY <1>3, <2>4 DEF Behind
  <2>8. Behind(q, last, c)
    BY <2>2 DEF Behind
  <2>9. BarrierInv'
    <3>1. ASSUME NEW r \in Queues, NEW d \in Callers, running[r] = Barrier(d)
          PROVE  /\ at'[d] = "flush_wait"
                 /\ \A s \in Queues : /\ running[s] = Barrier(d) => s = r
                                      /\ \A i \in Nat : ~Waiting(s, i, Barrier(d))'
                 /\ Behind(r, 0, d)'
      <4>1. d # c
        BY <2>6, <3>1
      <4> QED
        BY <1>3, <2>4, <2>7, <3>1, <4>1 DEF OrderedInv, BarrierInv
    <3>2. ASSUME NEW r \in Queues, NEW d \in Callers, NEW i \in Nat, Waiting(r, i, Barrier(d))'
          PROVE  /\ at'[d] = "flush_wait"
                 /\ \A s \in Queues, j \in Nat :
                      Waiting(s, j, Barrier(d))' => s = r /\ j = i
                 /\ Behind(r, i, d)'
      <4>1. CASE d = c
        BY <2>3, <2>4, <2>6, <2>7, <2>8, <3>2, <4>1
      <4>2. CASE d # c
        BY <1>3, <2>4, <2>7, <3>2, <4>2 DEF OrderedInv, BarrierInv
      <4> QED
        BY <4>1, <4>2
    <3> QED
      BY <1>3, <3>1, <3>2 DEF BarrierInv
  <2> QED
    BY <2>5, <2>9
<1> QED
  BY <1>4, <1>5

\* The block at the head is the next to run; the others come after it.
LEMMA BeginOrdered ==
  ASSUME OrderedInv, NEW q \in Queues, Begin(q)
  PROVE  LineInv' /\ BarrierInv'
<1> DEFINE head == blocks[q][1]
<1>1. /\ running' = [running EXCEPT ![q] = head]
      /\ running[q] = Idle /\ Waiting(q, 1, head) /\ head \in Blocks
      /\ \A i \in Nat : \A a : Waiting(q, i, a)' <=> i >= 1 /\ Waiting(q, i + 1, a)
      /\ \A r \in Queues, i \in Nat : \A a : r # q => (Waiting(r, i, a)' <=> Waiting(r, i, a))
  BY BeginWaiting DEF OrderedInv, QueueInv
<1>2. /\ running'[q] = head
      /\ \A r \in Queues : r # q => running'[r] = running[r]
  BY <1>1 DEF OrderedInv, QueueInv, TypeOK
<1>3. UNCHANGED <<at, before>>
  BY DEF Begin
<1> HIDE DEF head
\* Where a block that waits after the step has waited before it.
<1> DEFINE old(r, i) == IF r = q THEN i + 1 ELSE i
<1>4. \A r \in Queues, i, j \in Nat :
        /\ old(r, i) \in Nat
        /\ i < j => old(r, i) < old(r, j)
        /\ old(r, i) = old(r, j) => i = j
  OBVIOUS
<1>5. \A r \in Queues, i \in Nat : \A a :
        Waiting(r, i, a)' => Waiting(r, old(r, i), a) /\ (r = q => 1 < old(r, i))
  BY <1>1
<1> HIDE DEF old
<1>6. LineInv'
  <2>1. ASSUME NEW r \in Queues, NEW i \in Nat, NEW j \in Nat, NEW m \in Nat, NEW n \in Nat,
               Waiting(r, i, Work(m))', Waiting(r, j, Work(n))', i < j
        PROVE  m < n
    <3>1. /\ Waiting(r, old(r, i), Work(m)) /\ Waiting(r, old(r, j), Work(n))
          /\ old(r, i) \in Nat /\ old(r, j) \in Nat /\ old(r, i) < old(r, j)
      BY <1>4, <1>5, <2>1
    <3> QED
      BY <3>1 DEF OrderedInv, LineInv
  <2>2. ASSUME NEW r \in Queues, NEW j \in Nat, NEW m \in Nat, NEW n \in Nat,
               running'[r] = Work(m), Waiting(r, j, Work(n))'
        PROVE  m < n
    <3>1. Waiting(r, old(r, j), Work(n)) /\ old(r, j) \in Nat /\ (r = q => 1 < old(r, j))
      BY <1>4, <1>5, <2>2
    <3>2. CASE r = q
      <4>1. Waiting(q, 1, Work(m)) /\ 1 \in Nat
        BY <1>1, <1>2, <2>2, <3>2
      <4> QED
        BY <3>1, <3>2, <4>1 DEF OrderedInv, LineInv
    <3>3. CASE r # q
      BY <1>2, <2>2, <3>1, <3>3 DEF OrderedInv, LineInv
    <3> QED
      BY <3>2, <3>3
  <2> QED
    BY <2>1, <2>2 DEF LineInv
<1>7. ASSUME NEW c \in Callers, NEW r \in Queues, NEW i \in Nat, Behind(r, old(r, i), c)
      PROVE  Behind(r, i, c)'
  BY <1>3, <1>4, <1>5, <1>7 DEF Behind
<1>8. BarrierInv'
  <2>1. ASSUME NEW r \in Queues, NEW c \in Callers, running'[r] = Barrier(c)
        PROVE  /\ at[c] = "flush_wait"
               /\ \A s \in Queues : /\ running'[s] = Barrier(c) => s = r
                                    /\ \A i \in Nat : ~Waiting(s, i, Barrier(c))'
               /\ Behind(r, 0, c)'
    <3>1. CASE r = q
      <4>1. Waiting(q, 1, Barrier(c)) /\ 1 \in Nat
        BY <1>1, <1>2, <2>1, <3>1
      <4>2. /\ at[c] = "flush_wait"
            /\ \A s \in Queues, j \in Nat : Waiting(s, j, Barrier(c)) => s = q /\ j = 1
            /\ Behind(q, 1, c)
            /\ \A s \in Queues : running[s] # Barrier(c)
        BY <4>1 DEF OrderedInv, BarrierInv
      <4>3. \A s \in Queues, i \in Nat : ~Waiting(s, i, Barrier(c))'
        BY <1>4, <1>5, <4>2
      <4>4. Behind(r, 0, c)'
        <5>1. old(q, 0) = 1
          BY DEF old
        <5> QED
          BY <1>7, <3>1, <4>2, <5>1
      <4> QED
        BY <1>2, <3>1, <4>2, <4>3, <4>4
    <3>2. CASE r # q
      <4>1. running[r] = Barrier(c)
        BY <1>2, <2>1, <3>2
      <4>2. /\ at[c] = "flush_wait" /\ Behind(r, 0, c)
            /\ \A s \in Queues : /\ running[s] = Barrier(c) => s = r
                                 /\ \A i \in Nat : ~Waiting(s, i, Barrier(c))
        BY <4>1 DEF OrderedInv, BarrierInv
      <4>3. head # Barrier(c)
        BY <1>1, <4>2
      <4>4. Behind(r, 0, c)'
        <5>1. old(r, 0) = 0
          BY <3>2 DEF old
        <5> QED
          BY <1>7, <4>2, <5>1
      <4> QED
        BY <1>2, <1>4, <1>5, <4>2, <4>3, <4>4
    <3> QED
      BY <3>1, <3>2
  <2>2. ASSUME NEW r \in Queues, NEW c \in Callers, NEW i \in Nat, Waiting(r, i, Barrier(c))'
        PROVE  /\ at[c] = "flush_wait"
               /\ \A s \in Queues, j \in Nat : Waiting(s, j, Barrier(c))' => s = r /\ j = i
               /\ Behind(r, i, c)'
    <3>1. Waiting(r, old(r, i), Barrier(c)) /\ old(r, i) \in Nat
      BY <1>4, <1>5, <2>2
    <3>2. /\ at[c] = "flush_wait" /\ Behind(r, old(r, i), c)
          /\ \A s \in Queues, j \in Nat :
               Waiting(s, j, Barrier(c)) => s = r /\ j = old(r, i)
      BY <3>1 DEF OrderedInv, BarrierInv
    <3>3. ASSUME NEW s \in Queues, NEW j \in Nat, Waiting(s, j, Barrier(c))'
          PROVE  s = r /\ j = i
      <4>1. Waiting(s, old(s, j), Barrier(c)) /\ old(s, j) \in Nat
        BY <1>4, <1>5, <3>3
      <4> QED
        BY <1>4, <3>2, <4>1
    <3> QED
      BY <1>7, <3>2, <3>3
  <2> QED
    BY <1>3, <2>1, <2>2 DEF BarrierInv
<1> QED
  BY <1>6, <1>8

\* The thread whose barrier a queue runs.
LEMMA BarrierCaller ==
  ASSUME QueueInv, NEW q \in Queues, FinishBarrier(q)
  PROVE  \E c \in Callers : /\ running[q] = Barrier(c)
                            /\ at' = [at EXCEPT ![c] = "idle"]
<1>1. running[q] \in Blocks /\ running[q].kind = "barrier"
  BY Kinds DEF FinishBarrier, QueueInv, TypeOK
<1>2. \A n : running[q] # Work(n)
  BY <1>1, Kinds
<1>3. PICK c \in Callers : running[q] = Barrier(c)
  BY <1>1, <1>2 DEF Blocks
<1>4. running[q].caller = c
  BY <1>3, Kinds
<1> QED
  BY <1>3, <1>4 DEF FinishBarrier

\* What has run is out of the way.
LEMMA FinishOrdered ==
  ASSUME OrderedInv, NEW q \in Queues, FinishWork(q) \/ FinishBarrier(q)
  PROVE  LineInv' /\ BarrierInv'
<1>1. UNCHANGED <<blocks, before>> /\ running' = [running EXCEPT ![q] = Idle]
  BY DEF FinishWork, FinishBarrier
<1>2. /\ running'[q] = Idle
      /\ \A r \in Queues : r # q => running'[r] = running[r]
  BY <1>1 DEF OrderedInv, QueueInv, TypeOK
<1>3. \A r, i, a : Waiting(r, i, a)' <=> Waiting(r, i, a)
  BY <1>1 DEF Waiting
<1>4. \A c \in Callers, r \in Queues, i \in Nat : Behind(r, i, c)' <=> Behind(r, i, c)
  BY <1>1, <1>3 DEF Behind
<1>5. \A r \in Queues : \A a : running'[r] = Work(a) \/ running'[r] = Barrier(a) =>
                              r # q /\ running'[r] = running[r]
  BY <1>2, Kinds
<1>6. LineInv'
  BY <1>3, <1>5 DEF OrderedInv, LineInv
<1>7. \A c \in Callers :
        (\E r \in Queues : running'[r] = Barrier(c) \/ \E i \in Nat : Waiting(r, i, Barrier(c)))
          => at'[c] = at[c]
  <2>1. CASE FinishWork(q)
    BY <2>1 DEF FinishWork
  <2>2. CASE FinishBarrier(q)
    <3>1. PICK d \in Callers : running[q] = Barrier(d) /\ at' = [at EXCEPT ![d] = "idle"]
      BY <2>2, BarrierCaller DEF OrderedInv
    <3>2. \A r \in Queues : running'[r] # Barrier(d) /\ \A i \in Nat : ~Waiting(r, i, Barrier(d))
      BY <1>5, <3>1 DEF OrderedInv, BarrierInv
    <3> QED
      BY <3>1, <3>2 DEF OrderedInv, QueueInv, TypeOK
  <2> QED
    BY <2>1, <2>2
<1>8. BarrierInv'
  <2>1. ASSUME NEW r \in Queues, NEW c \in Callers, running'[r] = Barrier(c)
        PROVE  /\ at'[c] = "flush_wait"
               /\ \A s \in Queues : /\ running'[s] = Barrier(c) => s = r
                                    /\ \A i \in Nat : ~Waiting(s, i, Barrier(c))
               /\ Behind(r, 0, c)
    BY <1>5, <1>7, <2>1 DEF OrderedInv, BarrierInv
  <2>2. ASSUME NEW r \in Queues, NEW c \in Callers, NEW i \in Nat, Waiting(r, i, Barrier(c))
        PROVE  /\ at'[c] = "flush_wait"
               /\ \A s \in Queues, j \in Nat : Waiting(s, j, Barrier(c)) => s = r /\ j = i
               /\ Behind(r, i, c)
    BY <1>7, <2>2 DEF OrderedInv, BarrierInv
  <2> QED
    BY <1>3, <1>4, <2>1, <2>2 DEF BarrierInv
<1> QED
  BY <1>6, <1>8

LEMMA OrderedStep == OrderedInv /\ [Next]_vars => OrderedInv'
<1> SUFFICES ASSUME OrderedInv, [Next]_vars PROVE OrderedInv'
  OBVIOUS
<1>1. QueueInv'
  BY GeneralStep DEF OrderedInv
<1>2. CASE UNCHANGED vars
  <2>1. \A q, i, b : Waiting(q, i, b)' <=> Waiting(q, i, b)
    BY <1>2 DEF vars, Waiting
  <2>2. UNCHANGED <<running, at, before>>
    BY <1>2 DEF vars
  <2>3. LineInv'
    BY <2>1, <2>2 DEF OrderedInv, LineInv
  <2>4. \A c \in Callers, q \in Queues, i \in Nat : Behind(q, i, c)' <=> Behind(q, i, c)
    BY <2>1, <2>2 DEF Behind
  <2>5. BarrierInv'
    BY <2>1, <2>2, <2>4 DEF OrderedInv, BarrierInv
  <2> QED
    BY <1>1, <2>3, <2>5 DEF OrderedInv
<1>3. Threads \subseteq Callers
  BY DEF Callers
<1>4. Next => LineInv' /\ BarrierInv'
  BY <1>3, CallOrdered, DispatchOrdered, FlushDispatchOrdered, BeginOrdered, FinishOrdered
     DEF Next, InCall, QueueStep
<1> QED
  BY <1>1, <1>2, <1>4 DEF OrderedInv

LEMMA OrderInvariance == Spec => []OrderedInv
BY InitOrdered, OrderedStep, PTL DEF Spec

\* Whatever races there are, a flush that waits returns by its own barrier, with
\* nothing accepted before its call left in the queue where that was.
THEOREM FlushClears == Spec => FlushClearsQueue
<1> DEFINE Cleared == \A t \in Threads :
             at[t] = "flush_wait" /\ at'[t] # "flush_wait" =>
               \E q \in Queues :
                 running[q] = Barrier(t) /\ \A n \in 1..before[t] : InBlocks(q, n) = {}
<1>1. OrderedInv /\ [Next]_vars => [Cleared]_vars
  <2>1. SUFFICES ASSUME OrderedInv, Next, NEW t \in Threads,
                        at[t] = "flush_wait", at'[t] # "flush_wait"
                 PROVE  \E q \in Queues :
                          running[q] = Barrier(t) /\ \A n \in 1..before[t] : InBlocks(q, n) = {}
    OBVIOUS
  <2>2. t \in Callers /\ at \in [Callers -> {"idle", "crashed"} \cup ScheduleSteps \cup FlushSteps]
    BY <2>1 DEF Callers, OrderedInv, QueueInv, TypeOK
  <2>3. ASSUME NEW c \in Callers, ScheduleCall(c) \/ InCall(c) \/ (c \in Threads /\ FlushCall(c))
        PROVE  FALSE
    <3>1. c # t => at'[t] = at[t]
      BY <2>2, <2>3 DEF InCall, ScheduleCall, EnsureCheck, EnsureCreate, Validate, Dispatch,
                        FlushCheck, FlushDispatch, FlushCall, Goto
    <3>2. at[c] # "flush_wait"
      BY <2>3 DEF InCall, ScheduleCall, EnsureCheck, EnsureCreate, Validate, Dispatch,
                  FlushCheck, FlushDispatch, FlushCall, Goto
    <3> QED
      BY <2>1, <3>1, <3>2
  <2>4. ASSUME NEW q \in Queues, QueueStep(q)
        PROVE  running[q] = Barrier(t) /\ \A n \in 1..before[t] : InBlocks(q, n) = {}
    <3>1. FinishBarrier(q)
      BY <2>1, <2>4 DEF QueueStep, Begin, FinishWork
    <3>2. PICK c \in Callers : running[q] = Barrier(c) /\ at' = [at EXCEPT ![c] = "idle"]
      BY <2>1, <3>1, BarrierCaller DEF OrderedInv
    <3>3. c = t
      BY <2>1, <2>2, <3>2
    <3>4. Behind(q, 0, t) /\ before[t] \in Nat
      BY <2>1, <2>2, <3>2, <3>3 DEF OrderedInv, BarrierInv, QueueInv, TypeOK
    <3>5. ASSUME NEW n \in 1..before[t], NEW i \in InBlocks(q, n) PROVE FALSE
      <4>1. i \in Nat /\ 0 < i /\ Waiting(q, i, Work(n))
        BY <2>1, <3>5 DEF InBlocks, Waiting, OrderedInv, QueueInv, TypeOK
      <4> QED
        BY <3>4, <4>1 DEF Behind
    <3> QED
      BY <3>2, <3>3, <3>5
  <2>5. Threads \subseteq Callers
    BY DEF Callers
  <2> QED
    BY <2>1, <2>3, <2>4, <2>5 DEF Next
<1> QED
  BY <1>1, OrderInvariance, PTL DEF Spec, FlushClearsQueue

-----------------------------------------------------------------------------
(* The races with no creation that failed *)

\* A caller that has been past its test has a queue, and so has its unit.
FoundInv ==
  ~failed => \A c \in Callers :
    /\ at[c] # "crashed"
    /\ at[c] \in {"validate", "dispatch", "flush_dispatch"} =>
         SystemQueue(c) # NULL /\ seen[c] # NULL

\* Where there is work, there is a queue; with several units the work may have
\* come from another one.
WorkInv ==
  ~failed /\ accepted > 0 => \E u \in Units : gSystemWorkQueue[u] # NULL

LEMMA InitFound == Init => FoundInv /\ WorkInv
BY DEF Init, FoundInv, WorkInv

LEMMA FoundStep ==
  ASSUME QueueInv, FoundInv, WorkInv, [Next]_vars
  PROVE  FoundInv' /\ WorkInv'
<1> SUFFICES ASSUME ~failed' PROVE FoundInv' /\ WorkInv'
  BY DEF FoundInv, WorkInv
<1> USE DEF QueueInv, TypeOK, FoundInv, WorkInv, SystemQueue
<1>1. ASSUME NEW c \in Callers, ScheduleCall(c) PROVE FoundInv' /\ WorkInv'
  BY <1>1 DEF ScheduleCall, Goto
<1>2. ASSUME NEW c \in Callers, EnsureCheck(c) PROVE FoundInv' /\ WorkInv'
  BY <1>2 DEF EnsureCheck, Goto, See
<1>3. ASSUME NEW c \in Callers, EnsureCreate(c) PROVE FoundInv' /\ WorkInv'
  <2>1. PICK q \in Queues :
          /\ gSystemWorkQueue' = [gSystemWorkQueue EXCEPT ![unit[c]] = q]
          /\ seen' = [seen EXCEPT ![c] = q]
    BY <1>3 DEF EnsureCreate, See
  <2>2. q # NULL /\ ~failed
    BY <1>3, QueuesAssumption DEF EnsureCreate
  <2> QED
    BY <1>3, <2>1, <2>2 DEF EnsureCreate, Goto
<1>4. ASSUME NEW c \in Callers, Validate(c) PROVE FoundInv' /\ WorkInv'
  BY <1>4 DEF Validate, Views, Goto, See, Forget
<1>5. ASSUME NEW c \in Callers, Dispatch(c) PROVE FoundInv' /\ WorkInv'
  <2>1. at[c] = "dispatch" /\ ~failed
    BY <1>5 DEF Dispatch, Goto
  <2>2. NULL \notin Views(c) /\ gSystemWorkQueue[unit[c]] # NULL
    BY <2>1 DEF Views
  <2>3. at' = [at EXCEPT ![c] = "idle"] /\ accepted' = accepted + 1
    BY <1>5, <2>2 DEF Dispatch, Goto
  <2> QED
    BY <1>5, <2>1, <2>2, <2>3 DEF Dispatch, Forget, See
<1>6. ASSUME NEW t \in Callers, FlushCall(t) PROVE FoundInv' /\ WorkInv'
  BY <1>6 DEF FlushCall, Goto
<1>7. ASSUME NEW c \in Callers, FlushCheck(c) PROVE FoundInv' /\ WorkInv'
  BY <1>7 DEF FlushCheck, Goto, See
<1>8. ASSUME NEW c \in Callers, FlushDispatch(c) PROVE FoundInv' /\ WorkInv'
  <2>1. at[c] = "flush_dispatch" /\ ~failed
    BY <1>8 DEF FlushDispatch, Goto
  <2>2. NULL \notin Views(c)
    BY <2>1 DEF Views
  <2>3. at' = [at EXCEPT ![c] = "flush_wait"]
    BY <1>8, <2>2 DEF FlushDispatch, Goto
  <2> QED
    BY <1>8, <2>1, <2>3 DEF FlushDispatch, Forget, See
<1>9. ASSUME NEW q \in Queues, QueueStep(q) PROVE FoundInv' /\ WorkInv'
  <2>1. UNCHANGED <<gSystemWorkQueue, failed, unit, seen, accepted>>
    BY <1>9 DEF QueueStep, Begin, FinishWork, FinishBarrier
  <2>2. at' = at \/ \E c : at' = [at EXCEPT ![c] = "idle"]
    BY <1>9 DEF QueueStep, Begin, FinishWork, FinishBarrier
  <2>3. \A c \in Callers : at'[c] = at[c] \/ at'[c] = "idle"
    BY <2>2
  <2> QED
    BY <2>1, <2>3
<1>10. CASE UNCHANGED vars
  BY <1>10 DEF vars
<1> QED
  BY <1>1, <1>2, <1>3, <1>4, <1>5, <1>6, <1>7, <1>8, <1>9, <1>10 DEF Next, InCall, Callers

LEMMA FoundInvariance == Spec => [](QueueInv /\ FoundInv /\ WorkInv)
<1>1. QueueInv /\ FoundInv /\ WorkInv /\ [Next]_vars => (FoundInv /\ WorkInv)'
  BY FoundStep
<1> QED
  BY <1>1, InitFound, Invariance, PTL DEF Spec

\* However many threads race to create the queues of however many units, none
\* dereferences NULL unless a creation has failed.
THEOREM NoCrash == Spec => []CrashNeedsFailure
<1>1. QueueInv /\ FoundInv /\ WorkInv => CrashNeedsFailure
  BY DEF FoundInv, CrashNeedsFailure, Crashed
<1> QED
  BY <1>1, FoundInvariance, PTL

\* In a single unit a flush that finds no queue has nothing to wait for, unless
\* a creation has failed.
THEOREM FlushSkips ==
  ASSUME \A u, v \in Units : u = v
  PROVE  Spec => FlushSkipsNothing
<1> DEFINE Skips == \A t \in Threads :
             at[t] = "flush_check" /\ at'[t] = "idle" => before[t] = 0 \/ failed
<1>1. OrderedInv /\ WorkInv /\ [Next]_vars => [Skips]_vars
  <2>1. SUFFICES ASSUME OrderedInv, WorkInv, Next, ~failed, NEW t \in Threads,
                        at[t] = "flush_check", at'[t] = "idle"
                 PROVE  before[t] = 0
    OBVIOUS
  <2>2. t \in Callers /\ Threads \subseteq Callers
    BY <2>1 DEF Callers
  <2>3. SystemQueue(t) = NULL
    <3>1. ASSUME NEW c \in Callers, c # t, ScheduleCall(c) \/ InCall(c) \/ FlushCall(c)
          PROVE  at'[t] = at[t]
      BY <2>1, <2>2, <3>1
         DEF OrderedInv, QueueInv, TypeOK, InCall, ScheduleCall, EnsureCheck, EnsureCreate, Validate,
             Dispatch, FlushCheck, FlushDispatch, FlushCall, Goto
    <3>2. ASSUME ScheduleCall(t) \/ InCall(t) \/ FlushCall(t) PROVE SystemQueue(t) = NULL
      BY <2>1, <2>2, <3>2
         DEF OrderedInv, QueueInv, TypeOK, InCall, ScheduleCall, EnsureCheck, EnsureCreate, Validate,
             Dispatch, FlushCheck, FlushDispatch, FlushCall, Goto
    <3>3. ASSUME NEW q \in Queues, QueueStep(q) PROVE FALSE
      <4>1. FinishBarrier(q)
        BY <2>1, <3>3 DEF QueueStep, Begin, FinishWork
      <4>2. PICK c \in Callers : running[q] = Barrier(c) /\ at' = [at EXCEPT ![c] = "idle"]
        BY <2>1, <4>1, BarrierCaller DEF OrderedInv
      <4>3. at[c] = "flush_wait"
        BY <2>1, <4>2 DEF OrderedInv, BarrierInv
      <4> QED
        BY <2>1, <2>2, <4>2, <4>3 DEF OrderedInv, QueueInv, TypeOK
    <3> QED
      BY <2>1, <2>2, <3>1, <3>2, <3>3 DEF Next
  <2>4. unit[t] \in Units /\ before[t] \in 0..accepted /\ accepted \in Nat
    BY <2>1, <2>2, QueuesAssumption DEF OrderedInv, QueueInv, TypeOK
  <2>5. \A u \in Units : gSystemWorkQueue[u] = NULL
    BY <2>3, <2>4 DEF SystemQueue
  <2>6. accepted = 0
    BY <2>1, <2>4, <2>5 DEF WorkInv
  <2> QED
    BY <2>4, <2>6
<1> QED
  BY <1>1, OrderInvariance, FoundInvariance, PTL DEF Spec, FlushSkipsNothing

-----------------------------------------------------------------------------
(* Units whose queues exist: they keep them, and flushes reach them. *)

\* Every caller works on the queue of the unit whose code it runs, and its
\* barrier is there.
WarmInv ==
  /\ \A u \in Units : gSystemWorkQueue[u] \in Queues
  /\ \A c \in Callers :
       /\ at[c] # "create"
       /\ at[c] \in {"validate", "dispatch", "flush_dispatch"} => seen[c] = SystemQueue(c)
  /\ \A c \in Callers, q \in Queues :
       /\ running[q] = Barrier(c) => q = SystemQueue(c)
       /\ \A i \in Nat : Waiting(q, i, Barrier(c)) => q = SystemQueue(c)

LEMMA InitWarm ==
  ASSUME Initialized, Init
  PROVE  WarmInv
<1>1. \A q \in Queues : running[q] = Idle /\ \A i, a : ~Waiting(q, i, a)
  BY DEF Init, Waiting
<1> QED
  BY <1>1, Kinds DEF Init, WarmInv

LEMMA WarmViews ==
  ASSUME OrderedInv, WarmInv, NEW c \in Callers
  PROVE  /\ SystemQueue(c) \in Queues /\ SystemQueue(c) # NULL
         /\ at[c] \in {"validate", "dispatch", "flush_dispatch"} => Views(c) = {SystemQueue(c)}
BY QueuesAssumption DEF OrderedInv, QueueInv, TypeOK, WarmInv, SystemQueue, Views

\* What the calls and the queues do with gSystemWorkQueue: nothing.
LEMMA WarmStep ==
  ASSUME OrderedInv, WarmInv, [Next]_vars
  PROVE  WarmInv' /\ UNCHANGED gSystemWorkQueue
<1> USE DEF Goto, See, Forget
<1> DEFINE Homes == \A c \in Callers, q \in Queues :
             /\ running[q] = Barrier(c) => q = SystemQueue(c)
             /\ \A i \in Nat : Waiting(q, i, Barrier(c)) => q = SystemQueue(c)
<1> DEFINE Steady(c) == at[c] # "create" /\
             (at[c] \in {"validate", "dispatch", "flush_dispatch"} => seen[c] = SystemQueue(c))
<1>1. ASSUME UNCHANGED gSystemWorkQueue, \A c \in Callers : Steady(c)', Homes'
      PROVE  WarmInv' /\ UNCHANGED gSystemWorkQueue
  BY <1>1 DEF WarmInv
<1>2. ASSUME NEW c \in Callers,
             ScheduleCall(c) \/ InCall(c) \/ (c \in Threads /\ FlushCall(c))
      PROVE  WarmInv' /\ UNCHANGED gSystemWorkQueue
  <2>1. SystemQueue(c) # NULL /\ SystemQueue(c) \in Queues
    BY WarmViews
  <2>2. UNCHANGED <<gSystemWorkQueue, running>> /\ at[c] # "flush_wait"
    BY <1>2 DEF WarmInv, InCall, ScheduleCall, EnsureCheck, EnsureCreate, Validate, Dispatch,
                FlushCheck, FlushDispatch, FlushCall
  <2>3. ASSUME NEW d \in Callers, d # c
        PROVE  at'[d] = at[d] /\ seen'[d] = seen[d] /\ unit'[d] = unit[d]
    BY <1>2, <2>3 DEF InCall, ScheduleCall, EnsureCheck, EnsureCreate, Validate, Dispatch,
                      FlushCheck, FlushDispatch, FlushCall, OrderedInv, QueueInv, TypeOK, WarmInv
  <2>4. Steady(c)'
    <3>1. CASE ScheduleCall(c) \/ FlushCall(c) \/ Dispatch(c) \/ FlushDispatch(c)
      BY <3>1 DEF ScheduleCall, FlushCall, Dispatch, FlushDispatch, OrderedInv, QueueInv, TypeOK
    <3>2. CASE EnsureCheck(c) \/ FlushCheck(c)
      BY <2>1, <3>2 DEF EnsureCheck, FlushCheck, OrderedInv, QueueInv, TypeOK, SystemQueue
    <3>3. CASE Validate(c)
      BY <3>3, WarmViews DEF Validate, OrderedInv, QueueInv, TypeOK, SystemQueue
    <3>4. CASE EnsureCreate(c)
      BY <3>4 DEF EnsureCreate, WarmInv
    <3> QED
      BY <1>2, <3>1, <3>2, <3>3, <3>4 DEF InCall
  <2>5. \A d \in Callers : d # c => SystemQueue(d)' = SystemQueue(d) /\ Steady(d)'
    BY <2>2, <2>3 DEF WarmInv, SystemQueue
  <2>6. \A q \in Queues : running[q] # Barrier(c) /\ \A i \in Nat : ~Waiting(q, i, Barrier(c))
    BY <2>2 DEF OrderedInv, BarrierInv
  <2>7. Homes'
    <3>1. CASE FlushDispatch(c)
      <4>1. /\ blocks' = [blocks EXCEPT ![SystemQueue(c)] = Append(@, Barrier(c))]
            /\ SystemQueue(c)' = SystemQueue(c)
        <5>1. Views(c) = {SystemQueue(c)}
          BY <3>1, WarmViews DEF FlushDispatch
        <5>2. blocks' = [blocks EXCEPT ![SystemQueue(c)] = Append(@, Barrier(c))]
          BY <2>1, <3>1, <5>1, Zenon DEF FlushDispatch
        <5> QED
          BY <3>1, <5>2 DEF FlushDispatch, SystemQueue
      <4>2. Barrier(c) \in Blocks
        BY DEF Blocks
      <4>3. \A q \in Queues, i \in Nat : \A a :
              Waiting(q, i, a)' => Waiting(q, i, a) \/ (q = SystemQueue(c) /\ a = Barrier(c))
        <5>1. TypeOK
          BY DEF OrderedInv, QueueInv
        <5>2. PICK r \in Queues : r = SystemQueue(c)
          BY <2>1
        <5>3. blocks' = [blocks EXCEPT ![r] = Append(@, Barrier(c))]
          BY <4>1, <5>2
        <5> QED
          BY <4>2, <5>1, <5>2, <5>3, AppendWaiting
      <4>4. ASSUME NEW d \in Callers, NEW q \in Queues
            PROVE  /\ running'[q] = Barrier(d) => q = SystemQueue(d)'
                   /\ \A i \in Nat : Waiting(q, i, Barrier(d))' => q = SystemQueue(d)'
        <5>1. CASE d = c
          BY <2>2, <2>6, <4>1, <4>3, <5>1
        <5>2. CASE d # c
          <6>1. Barrier(d) # Barrier(c)
            BY <5>2, Kinds
          <6> QED
            BY <2>2, <2>5, <4>3, <5>2, <6>1 DEF WarmInv
        <5> QED
          BY <5>1, <5>2
      <4> QED
        BY <4>4
    <3>2. CASE Dispatch(c)
      <4>1. /\ blocks' = [blocks EXCEPT ![SystemQueue(c)] = Append(@, Work(accepted'))]
            /\ UNCHANGED unit
        BY <2>1, <3>2, WarmViews DEF Dispatch
      <4>2. Work(accepted') \in Blocks
        <5>1. accepted' \in 0..MaxItems
          BY <3>2, DispatchStep DEF OrderedInv, QueueInv, TypeOK
        <5>2. accepted' = accepted + 1 /\ accepted \in Nat
          BY <2>1, <3>2, WarmViews, QueuesAssumption DEF Dispatch, OrderedInv, QueueInv, TypeOK
        <5> QED
          BY <5>1, <5>2, QueuesAssumption DEF Blocks
      <4>3. \A q \in Queues, i \in Nat : \A a :
              Waiting(q, i, a)' => Waiting(q, i, a) \/ a = Work(accepted')
        BY <2>1, <4>1, <4>2, AppendWaiting DEF OrderedInv, QueueInv
      <4>4. \A q \in Queues, i \in Nat : \A d :
              Waiting(q, i, Barrier(d))' => Waiting(q, i, Barrier(d))
        BY <4>3, Kinds
      <4> QED
        BY <2>2, <2>5, <2>6, <4>4 DEF WarmInv
    <3>3. CASE UNCHANGED blocks
      <4>1. \A q, i, a : Waiting(q, i, a)' <=> Waiting(q, i, a)
        BY <3>3 DEF Waiting
      <4> QED
        BY <2>2, <2>5, <2>6, <4>1 DEF WarmInv
    <3> QED
      BY <1>2, <3>1, <3>2, <3>3
         DEF InCall, ScheduleCall, EnsureCheck, EnsureCreate, Validate, FlushCheck, FlushCall
  <2> QED
    BY <1>1, <2>2, <2>4, <2>5, <2>7
<1>3. ASSUME NEW q \in Queues, QueueStep(q) PROVE WarmInv' /\ UNCHANGED gSystemWorkQueue
  <2>1. UNCHANGED <<gSystemWorkQueue, unit, seen>>
    BY <1>3 DEF QueueStep, Begin, FinishWork, FinishBarrier
  <2>2. \A c \in Callers : SystemQueue(c)' = SystemQueue(c)
    BY <2>1 DEF SystemQueue
  <2>3. \A c \in Callers : at'[c] = at[c] \/ at'[c] = "idle"
    BY <1>3 DEF QueueStep, Begin, FinishWork, FinishBarrier, OrderedInv, QueueInv, TypeOK
  <2>4. Homes'
    <3>1. CASE Begin(q)
      <4>1. \A r \in Queues, i \in Nat : \A a :
              Waiting(r, i, a)' => \E j \in Nat : Waiting(r, j, a)
        <5>1. \A i \in Nat : i + 1 \in Nat
          OBVIOUS
        <5> QED
          BY <3>1, <5>1, BeginWaiting DEF OrderedInv, QueueInv
      <4>2. \A r \in Queues : \A a : running'[r] = a => running[r] = a \/ Waiting(r, 1, a)
        BY <3>1, BeginWaiting DEF OrderedInv, QueueInv, TypeOK
      <4> QED
        BY <2>2, <4>1, <4>2 DEF WarmInv
    <3>2. CASE FinishWork(q) \/ FinishBarrier(q)
      <4>1. \A r, i, a : Waiting(r, i, a)' <=> Waiting(r, i, a)
        BY <3>2 DEF FinishWork, FinishBarrier, Waiting
      <4>2. \A r \in Queues : running'[r] = running[r] \/ running'[r] = Idle
        BY <3>2 DEF FinishWork, FinishBarrier, OrderedInv, QueueInv, TypeOK
      <4> QED
        BY <2>2, <4>1, <4>2, Kinds DEF WarmInv
    <3> QED
      BY <1>3, <3>1, <3>2 DEF QueueStep
  <2> QED
    BY <1>1, <2>1, <2>2, <2>3, <2>4 DEF WarmInv
<1>4. CASE UNCHANGED vars
  <2>1. \A q, i, a : Waiting(q, i, a)' <=> Waiting(q, i, a)
    BY <1>4 DEF vars, Waiting
  <2> QED
    BY <1>4, <2>1 DEF vars, WarmInv, SystemQueue
<1>5. Threads \subseteq Callers
  BY DEF Callers
<1> QED
  BY <1>2, <1>3, <1>4, <1>5 DEF Next

LEMMA WarmInvariance ==
  ASSUME Initialized
  PROVE  Spec => [](OrderedInv /\ WarmInv)
<1>1. Init => OrderedInv /\ WarmInv
  BY InitOrdered, InitWarm
<1>2. OrderedInv /\ WarmInv /\ [Next]_vars => (OrderedInv /\ WarmInv)'
  BY OrderedStep, WarmStep
<1> QED
  BY <1>1, <1>2, PTL DEF Spec

\* The race is one of first calls: where every unit has its queue before the
\* threads start, none is ever replaced.
THEOREM QueuesKept ==
  ASSUME Initialized
  PROVE  Spec => InitializedOnce
<1>1. OrderedInv /\ WarmInv /\ [Next]_vars =>
        [\A u \in Units : gSystemWorkQueue[u] # NULL => UNCHANGED gSystemWorkQueue[u]]_vars
  BY WarmStep
<1> QED
  BY <1>1, WarmInvariance, PTL DEF Spec, InitializedOnce

\* What is left of FlushBarrier among several units that have their queues: when
\* flush_scheduled_work returns, nothing accepted before the call still waits or
\* runs in the queue of the caller's unit.
FlushClearsUnit ==
  [][\A t \in Threads :
       at[t] \in FlushSteps /\ at'[t] = "idle" => \A n \in 1..before[t] :
         running[SystemQueue(t)] # Work(n) /\ InBlocks(SystemQueue(t), n) = {}]_vars

\* Then flush_scheduled_work waits for all that was accepted before into the
\* queue of its unit, for any number of units and threads.
THEOREM FlushClearsOwnUnit ==
  ASSUME Initialized
  PROVE  Spec => FlushClearsUnit
<1> DEFINE Cleared == \A t \in Threads :
             at[t] \in FlushSteps /\ at'[t] = "idle" => \A n \in 1..before[t] :
               running[SystemQueue(t)] # Work(n) /\ InBlocks(SystemQueue(t), n) = {}
<1>1. OrderedInv /\ WarmInv /\ [Next]_vars => [Cleared]_vars
  <2>1. SUFFICES ASSUME OrderedInv, WarmInv, Next, NEW t \in Threads, NEW n \in 1..before[t],
                        at[t] \in FlushSteps, at'[t] = "idle"
                 PROVE  running[SystemQueue(t)] # Work(n) /\ InBlocks(SystemQueue(t), n) = {}
    OBVIOUS
  <2>2. t \in Callers /\ at \in [Callers -> {"idle", "crashed"} \cup ScheduleSteps \cup FlushSteps]
    BY <2>1 DEF Callers, OrderedInv, QueueInv, TypeOK
  <2>3. SystemQueue(t) # NULL
    BY <2>1, <2>2, WarmViews
  <2>4. ASSUME NEW c \in Callers, ScheduleCall(c) \/ InCall(c) \/ (c \in Threads /\ FlushCall(c))
        PROVE  FALSE
    <3>1. c # t => at'[t] = at[t]
      BY <2>2, <2>4 DEF InCall, ScheduleCall, EnsureCheck, EnsureCreate, Validate, Dispatch,
                        FlushCheck, FlushDispatch, FlushCall, Goto
    <3>2. ASSUME c = t PROVE at[t] \notin FlushSteps \/ at'[t] # "idle"
      <4>1. CASE FlushCheck(t)
        BY <2>2, <2>3, <4>1 DEF FlushCheck, Goto
      <4>2. CASE FlushDispatch(t)
        BY <2>2, <4>2 DEF FlushDispatch, Goto
      <4> QED
        BY <2>4, <3>2, <4>1, <4>2
           DEF InCall, ScheduleCall, EnsureCheck, EnsureCreate, Validate, Dispatch, FlushCall,
               Goto, FlushSteps
    <3> QED
      BY <2>1, <3>1, <3>2 DEF FlushSteps
  <2>5. PICK q \in Queues : QueueStep(q)
    BY <2>1, <2>4 DEF Next, Callers
  <2>6. FinishBarrier(q)
    BY <2>1, <2>5 DEF QueueStep, Begin, FinishWork, FlushSteps
  <2>7. PICK c \in Callers : running[q] = Barrier(c) /\ at' = [at EXCEPT ![c] = "idle"]
    BY <2>1, <2>6, BarrierCaller DEF OrderedInv
  <2>8. c = t
    BY <2>1, <2>2, <2>7 DEF FlushSteps
  <2>9. q = SystemQueue(t) /\ Behind(q, 0, t)
    BY <2>1, <2>7, <2>8 DEF WarmInv, OrderedInv, BarrierInv
  <2>10. n \in Nat /\ ~(n > before[t])
    BY <2>1, <2>2 DEF OrderedInv, QueueInv, TypeOK
  <2>11. \A i \in InBlocks(q, n) : i \in Nat /\ 0 < i /\ Waiting(q, i, Work(n))
    BY <2>1 DEF InBlocks, Waiting, OrderedInv, QueueInv, TypeOK
  <2>12. InBlocks(q, n) = {}
    BY <2>9, <2>10, <2>11 DEF Behind
  <2> QED
    BY <2>7, <2>9, <2>12, Kinds
<1> QED
  BY <1>1, WarmInvariance, PTL DEF Spec, FlushClearsUnit

-----------------------------------------------------------------------------
(* A single translation unit, whose queue exists: order and flushing of all. *)

OneUnit == Initialized /\ \A u, v \in Units : u = v

\* The queue of that unit.
Sys == gSystemWorkQueue[CHOOSE u \in Units : TRUE]

\* It is the only one with blocks.
SysInv ==
  /\ Sys \in Queues
  /\ \A c \in Callers : at[c] \in FlushSteps => c \in Threads
  /\ \A q \in Queues : q # Sys => running[q] = Idle /\ \A i \in Nat : \A b : ~Waiting(q, i, b)

\* What is done was accepted before all that runs or waits.
DoneInv ==
  \A q \in Queues, n \in Nat, m \in done :
    /\ running[q] = Work(n) => m < n
    /\ \A j \in Nat : Waiting(q, j, Work(n)) => m < n

SerialInv == OrderedInv /\ WarmInv /\ SysInv /\ DoneInv

LEMMA InitSerial ==
  ASSUME OneUnit, Init
  PROVE  SerialInv
<1>1. (CHOOSE u \in Units : TRUE) \in Units
  BY QueuesAssumption
<1>2. Sys \in Queues
  BY <1>1 DEF OneUnit, Init, Sys
<1>3. \A q \in Queues : running[q] = Idle /\ \A i, a : ~Waiting(q, i, a)
  BY DEF Init, Waiting
<1>4. SysInv
  BY <1>2, <1>3 DEF Init, SysInv, FlushSteps
<1>5. DoneInv
  BY DEF Init, DoneInv
<1> QED
  BY <1>4, <1>5, InitOrdered, InitWarm DEF SerialInv, OneUnit

\* What a caller may use as the queue.
LEMMA OneView ==
  ASSUME OneUnit, SerialInv, NEW c \in Callers
  PROVE  /\ SystemQueue(c) = Sys /\ Sys \in Queues /\ Sys # NULL
         /\ at[c] \in {"validate", "dispatch", "flush_dispatch"} => Views(c) = {Sys}
<1>1. unit[c] = (CHOOSE u \in Units : TRUE)
  BY QueuesAssumption DEF SerialInv, OrderedInv, QueueInv, TypeOK, OneUnit
<1>2. SystemQueue(c) = Sys
  BY <1>1 DEF SystemQueue, Sys
<1> QED
  BY <1>2, WarmViews DEF SerialInv

LEMMA CallSerial ==
  ASSUME OneUnit, SerialInv, NEW c \in Callers,
         \/ ScheduleCall(c) \/ EnsureCheck(c) \/ EnsureCreate(c) \/ Validate(c)
         \/ FlushCheck(c) \/ (c \in Threads /\ FlushCall(c))
  PROVE  SysInv' /\ DoneInv'
<1> USE DEF Goto, See, Forget, ScheduleSteps, FlushSteps
<1> USE DEF SerialInv, OrderedInv
<1>1. ~EnsureCreate(c)
  BY DEF WarmInv, EnsureCreate
<1>2. /\ UNCHANGED <<gSystemWorkQueue, blocks, running, done>>
      /\ \A d \in Callers : d # c => at'[d] = at[d]
      /\ at'[c] \in FlushSteps => c \in Threads
  <2>1. CASE ScheduleCall(c)
    BY <2>1 DEF ScheduleCall, QueueInv, TypeOK
  <2>2. CASE EnsureCheck(c)
    BY <2>2 DEF EnsureCheck, QueueInv, TypeOK
  <2>3. CASE Validate(c)
    BY <2>3 DEF Validate, QueueInv, TypeOK
  <2>4. CASE FlushCheck(c)
    BY <2>4 DEF FlushCheck, SysInv, QueueInv, TypeOK
  <2>5. CASE c \in Threads /\ FlushCall(c)
    BY <2>5 DEF FlushCall, QueueInv, TypeOK
  <2> QED
    BY <1>1, <2>1, <2>2, <2>3, <2>4, <2>5
<1>3. Sys' = Sys /\ \A q, i, b : Waiting(q, i, b)' <=> Waiting(q, i, b)
  BY <1>2 DEF Sys, Waiting
<1>4. SysInv'
  BY <1>2, <1>3 DEF SysInv
<1>5. DoneInv'
  BY <1>2, <1>3 DEF DoneInv
<1> QED
  BY <1>4, <1>5

\* A block dispatched to that queue is the only thing that appears anywhere.
LEMMA SysAppend ==
  ASSUME TypeOK, Sys \in Queues, NEW b \in Blocks,
         blocks' = [blocks EXCEPT ![Sys] = Append(@, b)]
  PROVE  \A r \in Queues, i \in Nat : \A a :
           Waiting(r, i, a)' => Waiting(r, i, a) \/ (r = Sys /\ a = b)
<1>1. PICK q \in Queues : q = Sys
  OBVIOUS
<1>2. blocks' = [blocks EXCEPT ![q] = Append(@, b)]
  BY <1>1
<1> QED
  BY <1>1, <1>2, AppendWaiting

LEMMA DispatchSerial ==
  ASSUME OneUnit, SerialInv, NEW c \in Callers, Dispatch(c)
  PROVE  SysInv' /\ DoneInv'
<1> DEFINE new == accepted + 1
<1>1. /\ at[c] = "dispatch" /\ at' = [at EXCEPT ![c] = "idle"]
      /\ accepted' = new
      /\ blocks' = [blocks EXCEPT ![Sys] = Append(@, Work(new))]
      /\ UNCHANGED <<gSystemWorkQueue, running, done>>
  BY OneView DEF Dispatch, Goto
<1>2. /\ accepted \in Nat /\ new \in Nat /\ new > accepted /\ Work(new) \in Blocks
      /\ Sys \in Queues /\ done \subseteq 1..accepted
  <2>1. accepted' \in 0..MaxItems
    BY DispatchStep DEF SerialInv, OrderedInv, QueueInv, TypeOK
  <2> QED
    BY <1>1, <2>1, QueuesAssumption DEF SerialInv, OrderedInv, QueueInv, TypeOK, SysInv, Blocks
<1>3. \A r \in Queues, i \in Nat : \A a :
        Waiting(r, i, a)' => Waiting(r, i, a) \/ (r = Sys /\ a = Work(new))
  BY <1>1, <1>2, SysAppend DEF SerialInv, OrderedInv, QueueInv
<1>4. Sys' = Sys
  BY <1>1 DEF Sys
<1> HIDE DEF new
<1>5. SysInv'
  <2>1. \A d \in Callers : at'[d] = at[d] \/ at'[d] = "idle"
    BY <1>1 DEF SerialInv, OrderedInv, QueueInv, TypeOK
  <2> QED
    BY <1>1, <1>2, <1>3, <1>4, <2>1 DEF SerialInv, SysInv, FlushSteps
<1>6. DoneInv'
  <2>1. \A m \in done : m < new
    BY <1>2
  <2>2. \A r \in Queues, i \in Nat, n \in Nat :
          Waiting(r, i, Work(n))' => Waiting(r, i, Work(n)) \/ n = new
    BY <1>3, Kinds
  <2> QED
    BY <1>1, <2>1, <2>2 DEF SerialInv, DoneInv
<1> QED
  BY <1>5, <1>6

LEMMA FlushDispatchSerial ==
  ASSUME OneUnit, SerialInv, NEW c \in Callers, FlushDispatch(c)
  PROVE  SysInv' /\ DoneInv'
<1>1. /\ at[c] = "flush_dispatch" /\ at' = [at EXCEPT ![c] = "flush_wait"]
      /\ blocks' = [blocks EXCEPT ![Sys] = Append(@, Barrier(c))]
      /\ UNCHANGED <<gSystemWorkQueue, running, done>>
  BY OneView DEF FlushDispatch, Goto
<1>2. Barrier(c) \in Blocks /\ Sys \in Queues
  BY DEF Blocks, SerialInv, SysInv
<1>3. \A r \in Queues, i \in Nat : \A a :
        Waiting(r, i, a)' => Waiting(r, i, a) \/ (r = Sys /\ a = Barrier(c))
  BY <1>1, <1>2, SysAppend DEF SerialInv, OrderedInv, QueueInv
<1>4. Sys' = Sys
  BY <1>1 DEF Sys
<1>5. /\ at'[c] = "flush_wait" /\ c \in Threads
      /\ \A d \in Callers : d # c => at'[d] = at[d]
  BY <1>1 DEF SerialInv, OrderedInv, QueueInv, TypeOK, SysInv, FlushSteps
<1>6. SysInv'
  BY <1>1, <1>2, <1>3, <1>4, <1>5 DEF SerialInv, SysInv
<1>7. DoneInv'
  BY <1>1, <1>3, Kinds DEF SerialInv, DoneInv
<1> QED
  BY <1>6, <1>7

LEMMA BeginSerial ==
  ASSUME OneUnit, SerialInv, NEW q \in Queues, Begin(q)
  PROVE  SysInv' /\ DoneInv'
<1> DEFINE head == blocks[q][1]
<1>1. /\ running' = [running EXCEPT ![q] = head]
      /\ Waiting(q, 1, head)
      /\ \A i \in Nat : \A a : Waiting(q, i, a)' => Waiting(q, i + 1, a)
      /\ \A r \in Queues, i \in Nat : \A a : r # q => (Waiting(r, i, a)' <=> Waiting(r, i, a))
  BY BeginWaiting DEF SerialInv, OrderedInv, QueueInv
<1>2. /\ running'[q] = head
      /\ \A r \in Queues : r # q => running'[r] = running[r]
  BY <1>1 DEF SerialInv, OrderedInv, QueueInv, TypeOK
<1>3. UNCHANGED <<gSystemWorkQueue, at, done>>
  BY DEF Begin
<1>4. q = Sys /\ Sys' = Sys
  <2>1. q = Sys
    BY <1>1 DEF SerialInv, SysInv
  <2>2. Sys' = Sys
    BY <1>3 DEF Sys
  <2> QED
    BY <2>1, <2>2
<1> HIDE DEF head
<1>5. SysInv'
  <2>1. Sys \in Queues /\ \A c \in Callers : at[c] \in FlushSteps => c \in Threads
    BY DEF SerialInv, SysInv
  <2>2. ASSUME NEW r \in Queues, r # Sys
        PROVE  running'[r] = Idle /\ \A i \in Nat : \A b : ~Waiting(r, i, b)'
    <3>1. running[r] = Idle /\ \A i \in Nat : \A b : ~Waiting(r, i, b)
      BY <2>2 DEF SerialInv, SysInv
    <3> QED
      BY <1>1, <1>2, <1>4, <2>2, <3>1
  <2> QED
    BY <1>3, <1>4, <2>1, <2>2 DEF SysInv
<1>6. DoneInv'
  <2>1. ASSUME NEW r \in Queues, NEW n \in Nat, NEW m \in done, running'[r] = Work(n)
        PROVE  m < n
    BY <1>1, <1>2, <2>1 DEF SerialInv, DoneInv
  <2>2. ASSUME NEW r \in Queues, NEW n \in Nat, NEW m \in done, NEW j \in Nat,
               Waiting(r, j, Work(n))'
        PROVE  m < n
    <3>1. j + 1 \in Nat
      OBVIOUS
    <3> QED
      BY <1>1, <2>2, <3>1 DEF SerialInv, DoneInv
  <2> QED
    BY <1>3, <2>1, <2>2 DEF DoneInv
<1> QED
  BY <1>5, <1>6

\* The item that finishes is the least that is not done.
LEMMA FinishWorkSerial ==
  ASSUME OneUnit, SerialInv, NEW q \in Queues, FinishWork(q)
  PROVE  SysInv' /\ DoneInv'
<1>1. PICK n \in 1..MaxItems : running[q] = Work(n)
  <2>1. running[q] \in Blocks /\ running[q].kind = "work"
    BY Kinds DEF FinishWork, SerialInv, OrderedInv, QueueInv, TypeOK
  <2> QED
    BY <2>1, Kinds DEF Blocks
<1>2. /\ done' = done \cup {n} /\ running' = [running EXCEPT ![q] = Idle]
      /\ UNCHANGED <<gSystemWorkQueue, blocks, at>>
  BY <1>1, Kinds DEF FinishWork
<1>3. /\ running'[q] = Idle
      /\ \A r \in Queues : r # q => running'[r] = running[r]
  BY <1>2 DEF SerialInv, OrderedInv, QueueInv, TypeOK
<1>4. Sys' = Sys /\ \A r, i, a : Waiting(r, i, a)' <=> Waiting(r, i, a)
  BY <1>2 DEF Sys, Waiting
<1>5. q = Sys /\ n \in Nat
  BY <1>1, Kinds, QueuesAssumption DEF SerialInv, SysInv
<1>6. SysInv'
  BY <1>2, <1>3, <1>4 DEF SerialInv, SysInv
<1>7. \A r \in Queues : \A m : running'[r] # Work(m)
  BY <1>3, <1>5, Kinds DEF SerialInv, SysInv
<1>8. \A r \in Queues, j \in Nat, m \in Nat : Waiting(r, j, Work(m)) => n < m
  BY <1>1, <1>5 DEF SerialInv, SysInv, OrderedInv, LineInv
<1>9. DoneInv'
  BY <1>2, <1>4, <1>7, <1>8 DEF SerialInv, DoneInv
<1> QED
  BY <1>6, <1>9

LEMMA FinishBarrierSerial ==
  ASSUME OneUnit, SerialInv, NEW q \in Queues, FinishBarrier(q)
  PROVE  SysInv' /\ DoneInv'
<1>1. PICK c \in Callers : running[q] = Barrier(c) /\ at' = [at EXCEPT ![c] = "idle"]
  BY BarrierCaller DEF SerialInv, OrderedInv
<1>2. /\ running' = [running EXCEPT ![q] = Idle]
      /\ UNCHANGED <<gSystemWorkQueue, blocks, done>>
  BY DEF FinishBarrier
<1>3. /\ running'[q] = Idle
      /\ \A r \in Queues : r # q => running'[r] = running[r]
      /\ at'[c] = "idle" /\ \A d \in Callers : d # c => at'[d] = at[d]
  BY <1>1, <1>2 DEF SerialInv, OrderedInv, QueueInv, TypeOK
<1>4. Sys' = Sys /\ \A r, i, a : Waiting(r, i, a)' <=> Waiting(r, i, a)
  BY <1>2 DEF Sys, Waiting
<1>5. SysInv'
  BY <1>2, <1>3, <1>4 DEF SerialInv, SysInv, FlushSteps
<1>6. DoneInv'
  BY <1>2, <1>3, <1>4, Kinds DEF SerialInv, DoneInv
<1> QED
  BY <1>5, <1>6

LEMMA SerialStep ==
  ASSUME OneUnit
  PROVE  SerialInv /\ [Next]_vars => SerialInv'
<1> SUFFICES ASSUME SerialInv, [Next]_vars PROVE SerialInv'
  OBVIOUS
<1>1. OrderedInv' /\ WarmInv'
  BY OrderedStep, WarmStep DEF SerialInv
<1>2. CASE UNCHANGED vars
  <2>1. Sys' = Sys /\ \A r, i, a : Waiting(r, i, a)' <=> Waiting(r, i, a)
    BY <1>2 DEF vars, Sys, Waiting
  <2>2. SysInv' /\ DoneInv'
    BY <1>2, <2>1 DEF vars, SerialInv, SysInv, DoneInv
  <2> QED
    BY <1>1, <2>2 DEF SerialInv
<1>3. ASSUME NEW c \in Callers, ScheduleCall(c) \/ InCall(c) PROVE SerialInv'
  BY <1>1, <1>3, CallSerial, DispatchSerial, FlushDispatchSerial DEF InCall, SerialInv
<1>4. ASSUME NEW t \in Threads, FlushCall(t) PROVE SerialInv'
  <2>1. t \in Callers
    BY DEF Callers
  <2> QED
    BY <1>1, <1>4, <2>1, CallSerial DEF SerialInv
<1>5. ASSUME NEW q \in Queues, QueueStep(q) PROVE SerialInv'
  BY <1>1, <1>5, BeginSerial, FinishWorkSerial, FinishBarrierSerial DEF QueueStep, SerialInv
<1> QED
  BY <1>2, <1>3, <1>4, <1>5 DEF Next

LEMMA SerialInvariance ==
  ASSUME OneUnit
  PROVE  Spec => []SerialInv
<1>1. Init => SerialInv
  BY InitSerial
<1>2. SerialInv /\ [Next]_vars => SerialInv'
  BY SerialStep
<1> QED
  BY <1>1, <1>2, PTL DEF Spec

\* In a unit whose queue exists, an item runs only when all the items scheduled
\* before it have finished, whichever threads and work functions scheduled them.
THEOREM RunsInOrder ==
  ASSUME OneUnit
  PROVE  Spec => []InOrder
<1>1. ASSUME SerialInv, NEW q \in Queues, NEW n \in 1..accepted, running[q] = Work(n),
             NEW m \in 1..(n - 1)
      PROVE  m \in done
  <2>1. m \in Nat /\ n \in Nat /\ m < n /\ m \in 1..accepted
    BY <1>1 DEF SerialInv, OrderedInv, QueueInv, TypeOK
  <2>2. Somewhere(m)
    BY <1>1, <2>1 DEF SerialInv, OrderedInv, QueueInv, ItemsInv, EveryItem
  <2>3. q = Sys
    BY <1>1, Kinds DEF SerialInv, SysInv
  <2>4. \A r \in Queues : running[r] # Work(m)
    BY <1>1, <2>1, <2>3, Kinds DEF SerialInv, SysInv
  <2>5. \A r \in Queues, i \in Nat : ~Waiting(r, i, Work(m))
    BY <1>1, <2>1, <2>3 DEF SerialInv, SysInv, OrderedInv, LineInv
  <2> QED
    BY <2>2, <2>4, <2>5 DEF Somewhere
<1>2. SerialInv => InOrder
  BY <1>1 DEF InOrder
<1> QED
  BY <1>2, SerialInvariance, PTL

\* The thread whose barrier has run, and the items it waited for.
LEMMA FlushedItems ==
  ASSUME OneUnit, SerialInv, NEW q \in Queues, FinishBarrier(q)
  PROVE  \E c \in Threads :
           /\ at[c] = "flush_wait" /\ at' = [at EXCEPT ![c] = "idle"]
           /\ before[c] \in Nat /\ 1..before[c] \subseteq done
<1>1. PICK c \in Callers : running[q] = Barrier(c) /\ at' = [at EXCEPT ![c] = "idle"]
  BY BarrierCaller DEF SerialInv, OrderedInv
<1>2. at[c] = "flush_wait" /\ c \in Threads /\ before[c] \in 0..accepted
  BY <1>1 DEF SerialInv, OrderedInv, BarrierInv, SysInv, FlushSteps, QueueInv, TypeOK
<1>3. q = Sys
  BY <1>1, Kinds DEF SerialInv, SysInv
<1>4. Behind(q, 0, c)
  BY <1>1 DEF SerialInv, OrderedInv, BarrierInv
<1>5. ASSUME NEW m \in 1..before[c] PROVE m \in done
  <2>1. m \in Nat /\ m \in 1..accepted /\ ~(m > before[c])
    BY <1>2 DEF SerialInv, OrderedInv, QueueInv, TypeOK
  <2>2. Somewhere(m)
    BY <2>1 DEF SerialInv, OrderedInv, QueueInv, ItemsInv, EveryItem
  <2>3. \A r \in Queues : running[r] # Work(m)
    BY <1>1, <1>3, Kinds DEF SerialInv, SysInv
  <2>4. \A i \in Nat : Waiting(q, i, Work(m)) => 0 < i
    BY DEF Waiting
  <2>5. \A r \in Queues, i \in Nat : ~Waiting(r, i, Work(m))
    BY <1>3, <1>4, <2>1, <2>4 DEF SerialInv, SysInv, Behind
  <2> QED
    BY <2>2, <2>3, <2>5 DEF Somewhere
<1>6. before[c] \in Nat /\ 1..before[c] \subseteq done
  BY <1>2, <1>5 DEF SerialInv, OrderedInv, QueueInv, TypeOK
<1> QED
  BY <1>1, <1>2, <1>6

\* What the steps inside a call do to the calls of flush_scheduled_work.
LEMMA InFlush ==
  ASSUME OneUnit, SerialInv, NEW c \in Callers, ScheduleCall(c) \/ InCall(c)
  PROVE  /\ UNCHANGED <<running, done, before>>
         /\ \A t \in Threads : at'[t] \in FlushSteps <=> at[t] \in FlushSteps
         /\ accepted' # accepted => accepted' = accepted + 1
<1> USE DEF Goto, FlushSteps
<1>1. CASE ScheduleCall(c) \/ EnsureCheck(c) \/ EnsureCreate(c) \/ Validate(c)
  BY <1>1 DEF ScheduleCall, EnsureCheck, EnsureCreate, Validate, SerialInv, OrderedInv,
              QueueInv, TypeOK, Callers
<1>2. CASE Dispatch(c)
  BY <1>2, OneView DEF Dispatch, SerialInv, OrderedInv, QueueInv, TypeOK, Callers
<1>3. CASE FlushCheck(c) \/ FlushDispatch(c)
  BY <1>3, OneView DEF FlushCheck, FlushDispatch, SerialInv, OrderedInv, QueueInv, TypeOK, Callers
<1> QED
  BY <1>1, <1>2, <1>3 DEF InCall

\* In a unit whose queue exists, flush_scheduled_work returns only after every
\* item that had been accepted when it was called has finished.
THEOREM FlushWaitsForAll ==
  ASSUME OneUnit
  PROVE  Spec => FlushBarrier
<1> DEFINE Returned == \A t \in Threads :
             at[t] \in FlushSteps /\ at'[t] = "idle" => 1..before[t] \subseteq done
<1>1. SerialInv /\ [Next]_vars => [Returned]_vars
  <2>1. SUFFICES ASSUME SerialInv, Next, NEW t \in Threads, at[t] \in FlushSteps, at'[t] = "idle"
                 PROVE  1..before[t] \subseteq done
    OBVIOUS
  <2>2. t \in Callers
    BY DEF Callers
  <2>3. ASSUME NEW c \in Callers, ScheduleCall(c) \/ InCall(c) PROVE FALSE
    BY <2>1, <2>3, InFlush DEF FlushSteps
  <2>4. ASSUME NEW u \in Threads, FlushCall(u) PROVE FALSE
    BY <2>1, <2>2, <2>4
       DEF FlushCall, Goto, FlushSteps, SerialInv, OrderedInv, QueueInv, TypeOK, Callers
  <2>5. ASSUME NEW q \in Queues, QueueStep(q) PROVE 1..before[t] \subseteq done
    <3>1. FinishBarrier(q)
      BY <2>1, <2>5 DEF QueueStep, Begin, FinishWork, FlushSteps
    <3>2. PICK c \in Threads :
            at' = [at EXCEPT ![c] = "idle"] /\ 1..before[c] \subseteq done
      BY <2>1, <3>1, FlushedItems
    <3> QED
      BY <2>1, <2>2, <3>2 DEF FlushSteps, SerialInv, OrderedInv, QueueInv, TypeOK
  <2> QED
    BY <2>1, <2>3, <2>4, <2>5 DEF Next
<1> QED
  BY <1>1, SerialInvariance, PTL DEF Spec, FlushBarrier

-----------------------------------------------------------------------------
(* The refinement, without its liveness. *)

\* The abstract state, as Abstract's substitution has it.

-----------------------------------------------------------------------------
(* The refinement, without its liveness. *)

\* The abstract state, as Abstract's substitution has it.
Running == \E q \in Queues : running[q].kind = "work"
Flushing == [t \in Threads |-> IF at[t] \in FlushSteps THEN before[t] ELSE -1]

LEMMA DoneCounted ==
  ASSUME SerialInv
  PROVE  /\ IsFiniteSet(done) /\ Cardinality(done) \in Nat
         /\ \A n \in 1..accepted : n \notin done => Cardinality(done) < accepted
         /\ \A n \in Nat : 1..n \subseteq done => Cardinality(done) >= n
<1>1. accepted \in Nat /\ done \subseteq 1..accepted
  BY QueuesAssumption DEF SerialInv, OrderedInv, QueueInv, TypeOK
<1>2. IsFiniteSet(1..accepted) /\ Cardinality(1..accepted) = accepted
  BY <1>1, FS_Interval
<1>3. /\ IsFiniteSet(done) /\ Cardinality(done) \in Nat
      /\ Cardinality(done) <= accepted
      /\ Cardinality(done) = accepted => done = 1..accepted
  BY <1>1, <1>2, FS_Subset, FS_CardinalityType
<1>4. \A n \in 1..accepted : n \notin done => Cardinality(done) < accepted
  BY <1>1, <1>3
<1>5. ASSUME NEW n \in Nat, 1..n \subseteq done PROVE Cardinality(done) >= n
  <2>1. Cardinality(1..n) = n
    BY FS_Interval
  <2>2. Cardinality(1..n) <= Cardinality(done)
    BY <1>3, <1>5, FS_Subset
  <2> QED
    BY <2>1, <2>2
<1> QED
  BY <1>3, <1>4, <1>5

LEMMA RefinesInit ==
  ASSUME OneUnit, Init
  PROVE  Abstract!WorkqueueInit
<1>1. \A q \in Queues : running[q].kind # "work"
  BY Kinds DEF Init
<1>2. Cardinality(done) = 0 /\ accepted = 0
  BY FS_EmptySet DEF Init
<1>3. \A t \in Threads : at[t] \notin FlushSteps
  BY DEF Init, FlushSteps, Callers
<1> QED
  BY <1>1, <1>2, <1>3 DEF Abstract!WorkqueueInit

LEMMA RefinesStep ==
  ASSUME OneUnit, SerialInv, Next
  PROVE  [Abstract!WorkqueueNext]_(Abstract!workqueueVars)
<1>1. ASSUME NEW c \in Callers, ScheduleCall(c) \/ InCall(c)
      PROVE  [Abstract!Submit]_(Abstract!workqueueVars)
  <2>1. /\ UNCHANGED <<running, done, before>>
        /\ accepted' = accepted \/ accepted' = accepted + 1
    BY <1>1, InFlush
  <2>2. Flushing' = Flushing
    BY <1>1, InFlush DEF Flushing
  <2>3. Running' = Running /\ Cardinality(done)' = Cardinality(done)
    BY <2>1 DEF Running
  <2> QED
    BY <2>1, <2>2, <2>3 DEF Abstract!Submit, Abstract!workqueueVars, Flushing, Running
<1>2. ASSUME NEW t \in Threads, FlushCall(t)
      PROVE  Abstract!BeginFlush(t)
  <2>1. /\ UNCHANGED <<running, done, accepted>> /\ at[t] = "idle"
        /\ at' = [at EXCEPT ![t] = "flush_check"] /\ before' = [before EXCEPT ![t] = accepted]
    BY <1>2 DEF FlushCall, Goto
  <2>2. Flushing[t] = -1
    BY <2>1 DEF Flushing, FlushSteps
  <2>3. Flushing' = [Flushing EXCEPT ![t] = accepted]
    BY <2>1 DEF Flushing, FlushSteps, SerialInv, OrderedInv, QueueInv, TypeOK, Callers
  <2>4. Running' = Running /\ Cardinality(done)' = Cardinality(done)
    BY <2>1 DEF Running
  <2> QED
    BY <2>1, <2>2, <2>3, <2>4 DEF Abstract!BeginFlush, Flushing, Running
<1>3. ASSUME NEW q \in Queues, Begin(q)
      PROVE  [Abstract!BeginItem]_(Abstract!workqueueVars)
  <2>1. /\ UNCHANGED <<at, before, done, accepted>>
        /\ running' = [running EXCEPT ![q] = blocks[q][1]]
        /\ running[q] = Idle /\ blocks[q][1] \in Blocks /\ Waiting(q, 1, blocks[q][1])
    BY <1>3, BeginWaiting DEF Begin, SerialInv, OrderedInv, QueueInv
  <2>2. q = Sys /\ ~Running
    BY <2>1, Kinds DEF SerialInv, SysInv, Running
  <2>3. Flushing' = Flushing /\ Cardinality(done)' = Cardinality(done)
    BY <2>1 DEF Flushing
  <2>4. CASE \E n \in 1..MaxItems : blocks[q][1] = Work(n)
    <3>1. PICK n \in 1..MaxItems : blocks[q][1] = Work(n)
      BY <2>4
    <3>2. n \in 1..accepted /\ n \notin done
      BY <2>1, <3>1, QueuesAssumption
         DEF SerialInv, OrderedInv, QueueInv, ItemsInv, KnownItems, WaitsUndone
    <3>3. Cardinality(done) < accepted
      BY <3>2, DoneCounted
    <3>4. Running'
      BY <2>1, <3>1, Kinds DEF Running, SerialInv, OrderedInv, QueueInv, TypeOK
    <3> QED
      BY <2>1, <2>2, <2>3, <3>3, <3>4 DEF Abstract!BeginItem, Flushing, Running
  <2>5. CASE \E c \in Callers : blocks[q][1] = Barrier(c)
    <3>1. Running' = Running
      BY <2>1, <2>2, <2>5, Kinds DEF Running, SerialInv, OrderedInv, QueueInv, TypeOK
    <3> QED
      BY <2>1, <2>3, <3>1 DEF Abstract!workqueueVars, Flushing, Running
  <2> QED
    BY <2>1, <2>4, <2>5 DEF Blocks
<1>4. ASSUME NEW q \in Queues, FinishWork(q)
      PROVE  Abstract!EndItem
  <2>1. PICK n \in 1..MaxItems : running[q] = Work(n)
    <3>1. running[q] \in Blocks /\ running[q].kind = "work"
      BY <1>4, Kinds DEF FinishWork, SerialInv, OrderedInv, QueueInv, TypeOK
    <3> QED
      BY <3>1, Kinds DEF Blocks
  <2>2. /\ done' = done \cup {n} /\ running' = [running EXCEPT ![q] = Idle]
        /\ UNCHANGED <<at, before, accepted>>
    BY <1>4, <2>1, Kinds DEF FinishWork
  <2>3. n \notin done
    BY <2>1, QueuesAssumption DEF SerialInv, OrderedInv, QueueInv, ItemsInv, RunsAlone
  <2>4. Cardinality(done') = Cardinality(done) + 1
    BY <2>2, <2>3, DoneCounted, FS_AddElement
  <2>5. q = Sys /\ Running
    BY <2>1, Kinds DEF SerialInv, SysInv, Running
  <2>6. ~Running'
    BY <2>2, <2>5, Kinds DEF SerialInv, SysInv, Running, OrderedInv, QueueInv, TypeOK
  <2>7. Flushing' = Flushing
    BY <2>2 DEF Flushing
  <2> QED
    BY <2>2, <2>4, <2>5, <2>6, <2>7 DEF Abstract!EndItem, Flushing, Running
<1>5. ASSUME NEW q \in Queues, FinishBarrier(q)
      PROVE  \E t \in Threads : Abstract!EndFlush(t)
  <2>1. PICK t \in Threads :
          /\ at[t] = "flush_wait" /\ at' = [at EXCEPT ![t] = "idle"]
          /\ before[t] \in Nat /\ 1..before[t] \subseteq done
    BY <1>5, FlushedItems
  <2>2. /\ running[q].kind = "barrier" /\ running' = [running EXCEPT ![q] = Idle]
        /\ UNCHANGED <<before, done, accepted>>
    BY <1>5 DEF FinishBarrier
  <2>3. Flushing[t] = before[t] /\ Flushing[t] # -1
    BY <2>1 DEF Flushing, FlushSteps
  <2>4. Flushing' = [Flushing EXCEPT ![t] = -1]
    BY <2>1, <2>2 DEF Flushing, FlushSteps, SerialInv, OrderedInv, QueueInv, TypeOK, Callers
  <2>5. Cardinality(done) >= Flushing[t]
    BY <2>1, <2>3, DoneCounted
  <2>6. Running' = Running /\ Cardinality(done)' = Cardinality(done)
    BY <2>2, Kinds DEF Running, SerialInv, OrderedInv, QueueInv, TypeOK
  <2> QED
    BY <2>2, <2>3, <2>4, <2>5, <2>6 DEF Abstract!EndFlush, Flushing, Running
<1> QED
  BY <1>1, <1>2, <1>3, <1>4, <1>5 DEF Next, QueueStep, Abstract!WorkqueueNext

\* A unit whose queue exists implements the abstract serial work queue: it starts
\* as that queue does, and each of its steps is one of that queue's or none.
THEOREM ImplementsQueue ==
  ASSUME OneUnit
  PROVE  Spec => Abstract!WorkqueueInit /\ [][Abstract!WorkqueueNext]_(Abstract!workqueueVars)
<1>1. Init => Abstract!WorkqueueInit
  BY RefinesInit
<1>2. SerialInv /\ [Next]_vars => [Abstract!WorkqueueNext]_(Abstract!workqueueVars)
  <2>1. SerialInv /\ Next => [Abstract!WorkqueueNext]_(Abstract!workqueueVars)
    BY RefinesStep
  <2>2. UNCHANGED vars => UNCHANGED Abstract!workqueueVars
    BY DEF vars, Abstract!workqueueVars
  <2> QED
    BY <2>1, <2>2
<1> QED
  BY <1>1, <1>2, SerialInvariance, PTL DEF Spec
=============================================================================
