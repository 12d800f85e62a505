------------------------------ MODULE WorkQueue ------------------------------
(***************************************************************************)
(* The work queue of macos_compat/linux/workqueue.h.  A caller is a thread *)
(* of the driver, or a work function running on a dispatch queue, which is *)
(* named by that queue.  schedule_work and flush_scheduled_work take no    *)
(* lock: each test of gSystemWorkQueue and each use of it is a step.  The  *)
(* race is undefined behaviour; the compiler may read the variable again   *)
(* or go on with the value it read or stored last, so a use sees either.   *)
(* gSystemWorkQueue is a static variable of a header, so each translation  *)
(* unit has its own; a caller runs code of any unit.                       *)
(*                                                                         *)
(* The dispatch queues are DriverKit's IODispatchQueue: serial, first in   *)
(* first out; dispatchSync appends a block and waits until it has run.     *)
(***************************************************************************)
EXTENDS Integers, Sequences, FiniteSets

CONSTANTS
  Threads,         \* threads of the driver
  Units,           \* translation units that include the header
  Queues,          \* the dispatch queues that can be created
  NULL,
  Initialized,     \* each unit's queue has been created before the threads start
  CreateMayFail,   \* IODispatchQueue::create may return NULL
  MaxItems         \* bound: schedule_work calls that may be accepted

Callers == Threads \cup Queues

ASSUME QueuesAssumption ==
  /\ IsFiniteSet(Queues) /\ IsFiniteSet(Threads) /\ Units # {}
  /\ Threads \cap Queues = {}
  /\ NULL \notin Queues
  /\ Initialized \in BOOLEAN /\ CreateMayFail \in BOOLEAN
  /\ MaxItems \in Nat

VARIABLES
  gSystemWorkQueue,  \* per unit: a queue or NULL
  created,           \* queues that create has returned
  failed,            \* history: create has returned NULL
  blocks,            \* per queue: the blocks dispatched and not begun
  running,           \* per queue: the block it is executing, or Idle
  at,                \* per caller: where it is in schedule_work or flush_scheduled_work
  unit,              \* per caller: the translation unit of that call
  seen,              \* per caller: the gSystemWorkQueue it read or stored last in the call
  accepted,          \* items dispatched so far; the items are numbered 1..accepted
  done,              \* items whose work function has returned
  before             \* per caller: accepted when its latest flush was called

vars == <<gSystemWorkQueue, created, failed, blocks, running, at, unit, seen, accepted,
          done, before>>

Idle == [kind |-> "none"]
Work(n) == [kind |-> "work", item |-> n]
Barrier(c) == [kind |-> "barrier", caller |-> c]

ScheduleSteps == {"check", "create", "validate", "dispatch"}
FlushSteps == {"flush_check", "flush_dispatch", "flush_wait"}

Blocks == {Work(n) : n \in 1..MaxItems} \cup {Barrier(c) : c \in Callers}

TypeOK ==
  /\ gSystemWorkQueue \in [Units -> Queues \cup {NULL}]
  /\ created \subseteq Queues
  /\ failed \in BOOLEAN
  /\ blocks \in [Queues -> Seq(Blocks)]
  /\ running \in [Queues -> Blocks \cup {Idle}]
  /\ at \in [Callers -> {"idle", "crashed"} \cup ScheduleSteps \cup FlushSteps]
  /\ unit \in [Callers -> Units]
  /\ seen \in [Callers -> Queues \cup {NULL}]
  /\ accepted \in 0..MaxItems
  /\ done \subseteq 1..accepted
  /\ before \in [Callers -> 0..accepted]

Init ==
  /\ IF Initialized
     THEN /\ gSystemWorkQueue \in [Units -> Queues]
          /\ \A u, v \in Units : u # v => gSystemWorkQueue[u] # gSystemWorkQueue[v]
     ELSE gSystemWorkQueue = [u \in Units |-> NULL]
  /\ created = {gSystemWorkQueue[u] : u \in Units} \ {NULL}
  /\ failed = FALSE
  /\ blocks = [q \in Queues |-> <<>>]
  /\ running = [q \in Queues |-> Idle]
  /\ at = [c \in Callers |-> "idle"]
  /\ unit = [c \in Callers |-> CHOOSE u \in Units : TRUE]
  /\ seen = [c \in Callers |-> NULL]
  /\ accepted = 0
  /\ done = {}
  /\ before = [c \in Callers |-> 0]

\* A thread runs at any time, a queue's thread of control only inside a work function.
Active(c) == c \in Threads \cup {q \in Queues : running[q].kind = "work"}

Goto(c, from, to) == at[c] = from /\ at' = [at EXCEPT ![c] = to]

Scheduling == {c \in Callers : at[c] \in ScheduleSteps}

\* The copy of gSystemWorkQueue that the caller's code names, and the values
\* that a use of it after the first may work on.
SystemQueue(c) == gSystemWorkQueue[unit[c]]
Views(c) == {SystemQueue(c), seen[c]}

See(c, q) == seen' = [seen EXCEPT ![c] = q]
Forget(c) == See(c, NULL)

-----------------------------------------------------------------------------
(* schedule_work *)

ScheduleCall(c) ==
  /\ Active(c)
  /\ accepted + Cardinality(Scheduling) < MaxItems
  /\ Goto(c, "idle", "check")
  /\ \E u \in Units : unit' = [unit EXCEPT ![c] = u]
  /\ UNCHANGED <<gSystemWorkQueue, created, failed, blocks, running, seen, accepted,
                 done, before>>

EnsureCheck(c) ==
  /\ Goto(c, "check", IF SystemQueue(c) = NULL THEN "create" ELSE "validate")
  /\ See(c, SystemQueue(c))
  /\ UNCHANGED <<gSystemWorkQueue, created, failed, blocks, running, unit, accepted,
                 done, before>>

\* Mutation of EnsureCreate: the queue goes to a local variable and is not stored.
EnsureCreate_Unstored(c) ==
  /\ Goto(c, "create", "validate")
  /\ \E q \in Queues \ created : created' = created \cup {q} /\ See(c, q)
  /\ UNCHANGED <<gSystemWorkQueue, failed, blocks, running, unit, accepted, done, before>>

\* What is stored replaces whatever another caller has stored since the check.
EnsureCreate(c) ==
  /\ Goto(c, "create", "validate")
  /\ \E q \in (Queues \ created) \cup {NULL} :
       /\ q = NULL => CreateMayFail
       /\ gSystemWorkQueue' = [gSystemWorkQueue EXCEPT ![unit[c]] = q]
       /\ created' = created \cup ({q} \ {NULL})
       /\ failed' = (failed \/ q = NULL)
       /\ See(c, q)
  /\ UNCHANGED <<blocks, running, unit, accepted, done, before>>

\* Returns false for no queue, no work or no function; else the item is captured.
Validate(c) ==
  /\ \E q \in Views(c), validWork \in BOOLEAN :
       IF q # NULL /\ validWork
       THEN Goto(c, "validate", "dispatch") /\ See(c, q)
       ELSE Goto(c, "validate", "idle") /\ Forget(c)
  /\ UNCHANGED <<gSystemWorkQueue, created, failed, blocks, running, unit, accepted,
                 done, before>>

\* Mutation of Dispatch: the item goes ahead of those that wait.
Dispatch_AtHead(c) ==
  /\ Goto(c, "dispatch", "idle")
  /\ accepted' = accepted + 1
  /\ \E q \in Views(c) \ {NULL} : blocks' = [blocks EXCEPT ![q] = <<Work(accepted')>> \o @]
  /\ Forget(c)
  /\ UNCHANGED <<gSystemWorkQueue, created, failed, running, unit, done, before>>

\* Mutation of Dispatch: the item is dispatched again.
Dispatch_Twice(c) ==
  /\ Goto(c, "dispatch", "idle")
  /\ accepted' = accepted + 1
  /\ \E q \in Views(c) \ {NULL} :
       blocks' = [blocks EXCEPT ![q] = @ \o <<Work(accepted'), Work(accepted')>>]
  /\ Forget(c)
  /\ UNCHANGED <<gSystemWorkQueue, created, failed, running, unit, done, before>>

\* A NULL that was stored since the test is dereferenced.
Dispatch(c) ==
  /\ \E q \in Views(c) :
       IF q = NULL
       THEN /\ Goto(c, "dispatch", "crashed")
            /\ UNCHANGED <<accepted, blocks>>
       ELSE /\ Goto(c, "dispatch", "idle")
            /\ accepted' = accepted + 1
            /\ blocks' = [blocks EXCEPT ![q] = Append(@, Work(accepted'))]
  /\ Forget(c)
  /\ UNCHANGED <<gSystemWorkQueue, created, failed, running, unit, done, before>>

-----------------------------------------------------------------------------
(* flush_scheduled_work, which threads call; a work function that called it  *)
(* would wait for itself.                                                    *)

FlushCall(t) ==
  /\ Goto(t, "idle", "flush_check")
  /\ \E u \in Units : unit' = [unit EXCEPT ![t] = u]
  /\ before' = [before EXCEPT ![t] = accepted]
  /\ UNCHANGED <<gSystemWorkQueue, created, failed, blocks, running, seen, accepted, done>>

\* Mutation of FlushCheck: the queue is taken to exist.
FlushCheck_Blind(t) ==
  /\ Goto(t, "flush_check", "flush_dispatch")
  /\ See(t, SystemQueue(t))
  /\ UNCHANGED <<gSystemWorkQueue, created, failed, blocks, running, unit, accepted, done,
                 before>>

FlushCheck(t) ==
  /\ Goto(t, "flush_check", IF SystemQueue(t) = NULL THEN "idle" ELSE "flush_dispatch")
  /\ See(t, SystemQueue(t))
  /\ UNCHANGED <<gSystemWorkQueue, created, failed, blocks, running, unit, accepted,
                 done, before>>

\* Mutation of FlushDispatch: dispatchAsync, which does not wait.
FlushDispatch_Async(t) ==
  /\ Goto(t, "flush_dispatch", "idle")
  /\ Forget(t)
  /\ UNCHANGED <<gSystemWorkQueue, created, failed, blocks, running, unit, accepted,
                 done, before>>

\* Mutation of FlushDispatch: the barrier goes ahead of the items that wait.
FlushDispatch_AtHead(t) ==
  /\ Goto(t, "flush_dispatch", "flush_wait")
  /\ \E q \in Views(t) \ {NULL} : blocks' = [blocks EXCEPT ![q] = <<Barrier(t)>> \o @]
  /\ Forget(t)
  /\ UNCHANGED <<gSystemWorkQueue, created, failed, running, unit, accepted, done, before>>

FlushDispatch(t) ==
  /\ \E q \in Views(t) :
       IF q = NULL
       THEN /\ Goto(t, "flush_dispatch", "crashed")
            /\ UNCHANGED blocks
       ELSE /\ Goto(t, "flush_dispatch", "flush_wait")
            /\ blocks' = [blocks EXCEPT ![q] = Append(@, Barrier(t))]
  /\ Forget(t)
  /\ UNCHANGED <<gSystemWorkQueue, created, failed, running, unit, accepted, done, before>>

-----------------------------------------------------------------------------
(* The dispatch queues *)

\* Mutation of Begin: a queue starts a block while it still runs another.
Begin_Dropping(q) ==
  /\ blocks[q] # <<>>
  /\ running' = [running EXCEPT ![q] = Head(blocks[q])]
  /\ blocks' = [blocks EXCEPT ![q] = Tail(@)]
  /\ UNCHANGED <<gSystemWorkQueue, created, failed, at, unit, seen, accepted, done, before>>

Begin(q) ==
  /\ running[q] = Idle
  /\ blocks[q] # <<>>
  /\ running' = [running EXCEPT ![q] = Head(blocks[q])]
  /\ blocks' = [blocks EXCEPT ![q] = Tail(@)]
  /\ UNCHANGED <<gSystemWorkQueue, created, failed, at, unit, seen, accepted, done, before>>

\* Mutation of FinishWork: the item is read after the slot was given to the next.
FinishWork_Next(q) ==
  /\ running[q].kind = "work"
  /\ at[q] = "idle"
  /\ done' = done \cup {running[q].item + 1}
  /\ running' = [running EXCEPT ![q] = Idle]
  /\ UNCHANGED <<gSystemWorkQueue, created, failed, blocks, at, unit, seen, accepted,
                 before>>

\* The work function returns; it has finished the calls it made.
FinishWork(q) ==
  /\ running[q].kind = "work"
  /\ at[q] = "idle"
  /\ done' = done \cup {running[q].item}
  /\ running' = [running EXCEPT ![q] = Idle]
  /\ UNCHANGED <<gSystemWorkQueue, created, failed, blocks, at, unit, seen, accepted,
                 before>>

\* Mutation of FinishBarrier: the waiting thread is not woken.
FinishBarrier_NoWake(q) ==
  /\ running[q].kind = "barrier"
  /\ running' = [running EXCEPT ![q] = Idle]
  /\ UNCHANGED <<gSystemWorkQueue, created, failed, blocks, at, unit, seen, accepted,
                 done, before>>

\* The barrier block has run: dispatchSync returns in the thread that waits.
FinishBarrier(q) ==
  /\ running[q].kind = "barrier"
  /\ at' = [at EXCEPT ![running[q].caller] = "idle"]
  /\ running' = [running EXCEPT ![q] = Idle]
  /\ UNCHANGED <<gSystemWorkQueue, created, failed, blocks, unit, seen, accepted, done,
                 before>>

-----------------------------------------------------------------------------
InCall(c) ==
  \/ EnsureCheck(c) \/ EnsureCreate(c) \/ Validate(c) \/ Dispatch(c)
  \/ FlushCheck(c) \/ FlushDispatch(c)

QueueStep(q) == Begin(q) \/ FinishWork(q) \/ FinishBarrier(q)

Next ==
  \/ \E c \in Callers : ScheduleCall(c) \/ InCall(c)
  \/ \E t \in Threads : FlushCall(t)
  \/ \E q \in Queues : QueueStep(q)

\* Calls that have begun go on, queues run what they hold, and work functions
\* return: strong fairness, as one may make any finite number of calls first.
Fairness ==
  /\ \A c \in Callers : WF_vars(InCall(c))
  /\ \A q \in Queues :
       WF_vars(Begin(q)) /\ SF_vars(FinishWork(q)) /\ WF_vars(FinishBarrier(q))

Spec == Init /\ [][Next]_vars /\ Fairness

-----------------------------------------------------------------------------
(* Safety *)

InBlocks(q, n) == {i \in DOMAIN blocks[q] : blocks[q][i] = Work(n)}

\* Where an accepted item is: at a position in a queue, being run, or done.
Waits(n) == UNION {{<<q, i>> : i \in InBlocks(q, n)} : q \in Queues}
Runs(n) == {<<q, 0>> : q \in {r \in Queues : running[r] = Work(n)}}
Ends(n) == IF n \in done THEN {<<NULL, 0>>} ELSE {}

Places(n) == Waits(n) \cup Runs(n) \cup Ends(n)

\* schedule_work that returned true has put its item in exactly one place, and
\* it stays in exactly one: no item is lost, duplicated or run again, whichever
\* queue a racing caller has installed.
ItemsConserved == \A n \in 1..accepted : Cardinality(Places(n)) = 1

\* "A serial dispatch queue", system-wide: an item runs only when all the items
\* scheduled before it have finished.
InOrder ==
  \A q \in Queues, n \in 1..accepted :
    running[q] = Work(n) => 1..(n - 1) \subseteq done

\* "Helper to initialize the global work queue once": a unit that has its queue
\* keeps it, so nobody dispatches to a queue that flushes no longer reach, or to NULL.
InitializedOnce ==
  [][\A u \in Units : gSystemWorkQueue[u] # NULL => UNCHANGED gSystemWorkQueue[u]]_vars

\* "When the sync block returns, all previously async blocks are guaranteed to
\* have finished": flush_scheduled_work returns only after every item that had
\* been accepted when it was called.
FlushBarrier ==
  [][\A t \in Threads :
       at[t] \in FlushSteps /\ at'[t] = "idle" => 1..before[t] \subseteq done]_vars

\* What is left of that promise when calls race: a flush that waits returns when
\* its own barrier has run, and then the queue that it was dispatched to holds
\* nothing that had been accepted when flush_scheduled_work was called.
FlushClearsQueue ==
  [][\A t \in Threads :
       at[t] = "flush_wait" /\ at'[t] # "flush_wait" =>
         \E q \in Queues : running[q] = Barrier(t) /\ \A n \in 1..before[t] : InBlocks(q, n) = {}]_vars

Crashed == \E c \in Callers : at[c] = "crashed"

\* The racing first calls alone do no harm to a caller between its test of
\* gSystemWorkQueue and its use: a NULL is dereferenced only after a creation
\* has failed, in this or any other caller.
CrashNeedsFailure == Crashed => failed

\* A flush that finds no queue returns without waiting for anything.  In a single
\* unit it passes over accepted work only after a creation has failed, and has
\* stored its NULL over the queue that holds the work.
FlushSkipsNothing ==
  [][\A t \in Threads :
       at[t] = "flush_check" /\ at'[t] = "idle" => before[t] = 0 \/ failed]_vars

-----------------------------------------------------------------------------
(* Liveness *)

\* Unless the driver crashes, work that schedule_work accepted is eventually done,
\* also when it is on a queue that gSystemWorkQueue no longer names.
WorkGetsDone == \A n \in 1..MaxItems : accepted >= n ~> n \in done \/ Crashed

\* A thread in flush_scheduled_work gets out of it.
FlushReturns == \A t \in Threads : at[t] \in FlushSteps ~> at[t] \in {"idle", "crashed"}

-----------------------------------------------------------------------------
(* With one queue the header implements the abstract work queue. *)

Abstract == INSTANCE SerialWorkqueue WITH
  submitted <- accepted,
  finished <- Cardinality(done),
  active <- \E q \in Queues : running[q].kind = "work",
  flushing <- [t \in Threads |-> IF at[t] \in FlushSteps THEN before[t] ELSE -1]

ImplementsSerialWorkqueue == Abstract!WorkqueueSpec
=============================================================================
