-------------------------------- MODULE Timer --------------------------------
(***************************************************************************)
(* The timers of macos_compat/linux/timer.h, all of one translation unit.  *)
(* Each timer is in the hands of a thread of its own, and its callback may *)
(* call the functions too.  init_timer takes no lock: its test of the      *)
(* static gTimerQueue, its store and its use are steps, and the use sees   *)
(* the variable or the value that the call has read or stored (a data      *)
(* race, as in WorkQueue).                                                 *)
(*                                                                         *)
(* The dispatch queues and timer sources are DriverKit's, of which this is *)
(* assumed:                                                                *)
(*   - a queue runs one callback at a time, and a source fires once for    *)
(*     each arming;                                                        *)
(*   - cancel() without a completion handler keeps callbacks from starting *)
(*     and does not wait for one that has started;                         *)
(*   - cancel() is final: setTimeout on a cancelled source arms nothing;   *)
(*   - release() of a source by its timer gives up its only reference, and *)
(*     a source that is freed does not fire;                               *)
(*   - there is no source without a queue.                                 *)
(***************************************************************************)
EXTENDS Naturals, FiniteSets

CONSTANTS
  Timers,
  Queues,    \* the dispatch queues that can be created
  NULL,
  MaxAdds    \* bound: add_timer calls per timer

ASSUME TimersAssumption ==
  /\ NULL \notin Timers /\ NULL \notin Queues
  /\ MaxAdds \in Nat

VARIABLES
  gTimerQueue,  \* the static queue of init_timer, or NULL
  created,      \* the queues that create has returned
  at,           \* per timer: "raw", a step of init_timer, or "ready" after it
  seen,         \* per timer: the gTimerQueue that its init_timer read or stored last
  source,       \* per timer: the queue of the source in its timer field, or NULL
  armed,        \* per timer: its source is to fire
  cancelled,    \* per timer: its source has been cancelled
  pending,      \* per timer: add_timer has been called, and neither a callback,
                \* nor a deletion nor destroy_timer has followed
  running,      \* per queue: the timer whose callback it is executing, or NULL
  adds, fires,  \* per timer: the add_timer calls and the callbacks so far
  overlapped,   \* whether two calls of init_timer have ever overlapped
  failed        \* whether the creation of a queue or a source has ever failed

timerVars == <<gTimerQueue, created, at, seen, source, overlapped, failed>>
firingVars == <<armed, cancelled, pending, running, adds, fires>>
vars == <<timerVars, firingVars>>

InitSteps == {"check", "create", "source"}

TypeOK ==
  /\ gTimerQueue \in created \cup {NULL}
  /\ created \subseteq Queues
  /\ at \in [Timers -> {"raw", "ready"} \cup InitSteps]
  /\ seen \in [Timers -> created \cup {NULL}]
  /\ source \in [Timers -> created \cup {NULL}]
  /\ armed \in [Timers -> BOOLEAN]
  /\ cancelled \in [Timers -> BOOLEAN]
  /\ pending \in [Timers -> BOOLEAN]
  /\ running \in [Queues -> Timers \cup {NULL}]
  /\ adds \in [Timers -> Nat] /\ fires \in [Timers -> Nat]
  /\ overlapped \in BOOLEAN /\ failed \in BOOLEAN

Init ==
  /\ gTimerQueue = NULL /\ created = {}
  /\ at = [t \in Timers |-> "raw"]
  /\ seen = [t \in Timers |-> NULL]
  /\ source = [t \in Timers |-> NULL]
  /\ armed = [t \in Timers |-> FALSE]
  /\ cancelled = [t \in Timers |-> FALSE]
  /\ pending = [t \in Timers |-> FALSE]
  /\ running = [q \in Queues |-> NULL]
  /\ adds = [t \in Timers |-> 0] /\ fires = [t \in Timers |-> 0]
  /\ overlapped = FALSE /\ failed = FALSE

Running(t) == \E q \in Queues : running[q] = t

Goto(t, from, to) == at[t] = from /\ at' = [at EXCEPT ![t] = to]
See(t, q) == seen' = [seen EXCEPT ![t] = q]

-----------------------------------------------------------------------------
(* init_timer *)

\* A timer is initialised again only after its callback has returned.
InitCall(t) ==
  /\ Goto(t, "raw", "check")
  /\ ~Running(t)
  /\ overlapped' = (overlapped \/ \E u \in Timers : at[u] \in InitSteps)
  /\ UNCHANGED <<gTimerQueue, created, seen, source, failed, firingVars>>

\* Mutation of InitCheck: the variable is not static, and each call makes a queue.
InitCheck_Always(t) ==
  /\ Goto(t, "check", "create")
  /\ See(t, gTimerQueue)
  /\ UNCHANGED <<gTimerQueue, created, source, overlapped, failed, firingVars>>

\* Mutation of InitCheck: who finds another at work goes on as if there were a queue.
InitCheck_NotFirst(t) ==
  /\ Goto(t, "check", IF gTimerQueue = NULL /\ \A u \in Timers : at[u] # "create"
                      THEN "create" ELSE "source")
  /\ See(t, gTimerQueue)
  /\ UNCHANGED <<gTimerQueue, created, source, overlapped, failed, firingVars>>

InitCheck(t) ==
  /\ Goto(t, "check", IF gTimerQueue = NULL THEN "create" ELSE "source")
  /\ See(t, gTimerQueue)
  /\ UNCHANGED <<gTimerQueue, created, source, overlapped, failed, firingVars>>

InitCreate(t) ==
  /\ Goto(t, "create", "source")
  /\ \E q \in (Queues \ created) \cup {NULL} :
       /\ gTimerQueue' = q
       /\ created' = created \cup ({q} \ {NULL})
       /\ See(t, q)
       /\ failed' = (failed \/ q = NULL)
  /\ UNCHANGED <<source, overlapped, firingVars>>

\* The source is a new one.
InitSource(t) ==
  /\ Goto(t, "source", "ready")
  /\ \E q \in {gTimerQueue, seen[t]}, ok \in BOOLEAN :
       /\ source' = [source EXCEPT ![t] = IF ok THEN q ELSE NULL]
       /\ failed' = (failed \/ ~ok)
  /\ See(t, NULL)
  /\ cancelled' = [cancelled EXCEPT ![t] = FALSE]
  /\ UNCHANGED <<gTimerQueue, created, overlapped, armed, pending, running, adds, fires>>

-----------------------------------------------------------------------------
(* The other functions: without a source they do nothing. *)

\* setTimeout on a source that del_timer_sync has cancelled has no effect, and
\* add_timer cannot tell: only init_timer makes the timer fit for use again.
add_timer(t) ==
  /\ at[t] = "ready"
  /\ source[t] # NULL
  /\ adds[t] < MaxAdds
  /\ armed' = [armed EXCEPT ![t] = ~cancelled[t]]
  /\ pending' = [pending EXCEPT ![t] = TRUE]
  /\ adds' = [adds EXCEPT ![t] = @ + 1]
  /\ UNCHANGED <<timerVars, cancelled, running, fires>>

\* Mutation of del_timer_sync: a callback that is running keeps its timer going.
del_timer_sync_WhileIdle(t) ==
  /\ at[t] = "ready"
  /\ source[t] # NULL
  /\ armed' = [armed EXCEPT ![t] = @ /\ Running(t)]
  /\ cancelled' = [cancelled EXCEPT ![t] = TRUE]
  /\ pending' = [pending EXCEPT ![t] = FALSE]
  /\ UNCHANGED <<timerVars, running, adds, fires>>

del_timer_sync(t) ==
  /\ at[t] = "ready"
  /\ source[t] # NULL
  /\ armed' = [armed EXCEPT ![t] = FALSE]
  /\ cancelled' = [cancelled EXCEPT ![t] = TRUE]
  /\ pending' = [pending EXCEPT ![t] = FALSE]
  /\ UNCHANGED <<timerVars, running, adds, fires>>

destroy_timer(t) ==
  /\ Goto(t, "ready", "raw")
  /\ source' = [source EXCEPT ![t] = NULL]
  /\ armed' = [armed EXCEPT ![t] = FALSE]
  /\ pending' = [pending EXCEPT ![t] = FALSE]
  /\ UNCHANGED <<gTimerQueue, created, seen, overlapped, failed, cancelled, running, adds, fires>>

-----------------------------------------------------------------------------
(* The sources and the queues *)

\* Mutation of Fire: periodic, the source stays armed.
Fire_Periodic(t) ==
  /\ armed[t] /\ running[source[t]] = NULL
  /\ running' = [running EXCEPT ![source[t]] = t]
  /\ pending' = [pending EXCEPT ![t] = FALSE]
  /\ fires' = [fires EXCEPT ![t] = @ + 1]
  /\ UNCHANGED <<timerVars, armed, cancelled, adds>>

\* The source fires: the block calls timer->function, which the owner has set.
Fire(t) ==
  /\ armed[t] /\ running[source[t]] = NULL
  /\ armed' = [armed EXCEPT ![t] = FALSE]
  /\ running' = [running EXCEPT ![source[t]] = t]
  /\ pending' = [pending EXCEPT ![t] = FALSE]
  /\ fires' = [fires EXCEPT ![t] = @ + 1]
  /\ UNCHANGED <<timerVars, cancelled, adds>>

\* Mutation of CallbackReturns: to fire once only, the block stops its source after
\* the call of the function, which may have added the timer again.
CallbackReturns_Disarms(q) ==
  /\ running[q] # NULL
  /\ running' = [running EXCEPT ![q] = NULL]
  /\ armed' = [armed EXCEPT ![running[q]] = FALSE]
  /\ UNCHANGED <<timerVars, cancelled, pending, adds, fires>>

\* The function returns, and the block with it.
CallbackReturns(q) ==
  /\ running[q] # NULL
  /\ running' = [running EXCEPT ![q] = NULL]
  /\ UNCHANGED <<timerVars, armed, cancelled, pending, adds, fires>>

-----------------------------------------------------------------------------
init_timer(t) == InitCall(t) \/ InitCheck(t) \/ InitCreate(t) \/ InitSource(t)

Next ==
  \/ \E t \in Timers :
       init_timer(t) \/ add_timer(t) \/ del_timer_sync(t) \/ destroy_timer(t) \/ Fire(t)
  \/ \E q \in Queues : CallbackReturns(q)

Spec == Init /\ [][Next]_vars

\* Callbacks return, and a queue serves each of its sources that keeps being due.
FairSpec ==
  /\ Spec
  /\ \A t \in Timers : SF_vars(Fire(t))
  /\ \A q \in Queues : WF_vars(CallbackReturns(q))

-----------------------------------------------------------------------------
\* "del_timer_sync - Deactivates a timer and waits for it to finish executing":
\* once it has returned, and until the timer is initialised again, the callback
\* does not run, so that its owner may free what the callback uses.
DeletedIsDone == \A t \in Timers : cancelled[t] => ~Running(t)

\* Unless a creation fails, init_timer leaves a timer with a source, whichever
\* queue racing calls have stored: add_timer does not silently do nothing.
InitGivesSource == ~failed => \A t \in Timers : at[t] = "ready" => source[t] # NULL

\* "Use a single global queue for all timers": callbacks exclude one another,
\* unless calls of init_timer have overlapped or a creation has failed.
SerialUnlessRaced ==
  overlapped \/ failed \/
    \A p, q \in Queues : running[p] # NULL /\ running[q] # NULL => p = q

\* "Set the timer to fire once": each callback was asked for by an add_timer of
\* its own, whatever deletions and initialisations came between.
FiresOncePerAdd == \A t \in Timers : fires[t] <= adds[t]

\* No callback begins for a timer that has been destroyed, since its memory may be
\* gone, or that has been deleted, until it is initialised again: not even if it is
\* added again in between, for which the caller of add_timer will wait in vain.
QuietAfterDelete ==
  [][\A q \in Queues, t \in Timers :
       running'[q] = t /\ running[q] # t => ~cancelled[t] /\ at[t] = "ready"]_vars

\* A timer that was added fires once more, also when it is added while its callback
\* is running, and on a queue that gTimerQueue no longer names, unless it is destroyed
\* first or its source is cancelled: by a later deletion, or by an earlier one.  The
\* last is an exception that add_timer, which "starts or modifies a timer", does not
\* make; QuietAfterDelete says that such a timer never fires.
AddedFires ==
  \A t \in Timers, k \in 0..MaxAdds :
    pending[t] /\ fires[t] = k ~> fires[t] > k \/ cancelled[t] \/ at[t] = "raw"
=============================================================================
