---------------------------- MODULE TimerProofs ----------------------------
(***************************************************************************)
(* Proofs about Timer, for any number of timers and queues.                *)
(***************************************************************************)
EXTENDS Timer, TLAPS

\* A source is armed exactly for a timer that is pending and whose source has not been
\* cancelled; such a timer is ready, has a source, and an addition that no callback has
\* answered.
ArmedInv ==
  \A t \in Timers :
    /\ armed[t] <=> pending[t] /\ ~cancelled[t]
    /\ pending[t] => source[t] # NULL /\ at[t] = "ready" /\ fires[t] < adds[t]

\* Callbacks run on queues that exist.
RunningInv == \A q \in Queues : running[q] # NULL => q \in created

\* Until a creation fails, a call that is past the test, or the creation, has a
\* queue whether it reads the variable again or not.
SourceInv ==
  ~failed => \A t \in Timers :
    /\ at[t] = "source" => gTimerQueue # NULL /\ seen[t] # NULL
    /\ at[t] = "ready" => source[t] # NULL

\* Calls that have not overlapped create one queue.
SerialInv ==
  ~overlapped /\ ~failed =>
    /\ created \subseteq {gTimerQueue}
    /\ \A t, u \in Timers : at[t] \in InitSteps /\ at[u] \in InitSteps => t = u
    /\ \A t \in Timers : at[t] = "create" => gTimerQueue = NULL

TimerInv ==
  TypeOK /\ ArmedInv /\ FiresOncePerAdd /\ RunningInv /\ SourceInv /\ SerialInv

LEMMA InitInv == Init => TimerInv
<1> SUFFICES ASSUME Init PROVE TimerInv
  OBVIOUS
<1>1. TypeOK
  BY DEF Init, TypeOK
<1>2. FiresOncePerAdd
  BY DEF Init, FiresOncePerAdd
<1>3. ArmedInv /\ RunningInv /\ SourceInv /\ SerialInv
  BY DEF Init, ArmedInv, RunningInv, SourceInv, SerialInv, InitSteps
<1> QED
  BY <1>1, <1>2, <1>3 DEF TimerInv

\* The steps of init_timer.
LEMMA InitTimerInv ==
  ASSUME TimerInv, NEW t \in Timers, init_timer(t)
  PROVE  TimerInv'
<1> USE TimersAssumption DEF TimerInv, TypeOK, InitSteps, Goto, See, timerVars, firingVars
<1>1. CASE InitCall(t)
  <2>1. TypeOK' /\ ArmedInv' /\ FiresOncePerAdd' /\ RunningInv'
    BY <1>1 DEF InitCall, ArmedInv, FiresOncePerAdd, RunningInv
  <2>2. SourceInv' /\ SerialInv'
    BY <1>1 DEF InitCall, SourceInv, SerialInv
  <2> QED
    BY <2>1, <2>2
<1>2. CASE InitCheck(t)
  <2>1. TypeOK' /\ ArmedInv' /\ FiresOncePerAdd' /\ RunningInv'
    BY <1>2 DEF InitCheck, ArmedInv, FiresOncePerAdd, RunningInv
  <2>2. SourceInv' /\ SerialInv'
    BY <1>2 DEF InitCheck, SourceInv, SerialInv
  <2> QED
    BY <2>1, <2>2
<1>3. CASE InitCreate(t)
  <2>1. TypeOK' /\ ArmedInv' /\ FiresOncePerAdd' /\ RunningInv'
    BY <1>3 DEF InitCreate, ArmedInv, FiresOncePerAdd, RunningInv
  <2>2. SourceInv'
    BY <1>3 DEF InitCreate, SourceInv
  <2>3. SerialInv'
    <3>1. SUFFICES ASSUME ~overlapped, ~failed, ~failed' PROVE SerialInv'
      BY <1>3 DEF InitCreate, SerialInv
    <3>2. created = {}
      BY <1>3, <3>1 DEF InitCreate, SerialInv
    <3>3. created' = {gTimerQueue'}
      BY <1>3, <3>1, <3>2 DEF InitCreate
    <3>4. \A u \in Timers : at'[u] \in InitSteps => u = t
      BY <1>3, <3>1 DEF InitCreate, SerialInv
    <3>5. at'[t] = "source"
      BY <1>3 DEF InitCreate
    <3> QED
      BY <3>3, <3>4, <3>5 DEF SerialInv
  <2> QED
    BY <2>1, <2>2, <2>3
<1>4. CASE InitSource(t)
  <2>1. TypeOK'
    BY <1>4 DEF InitSource
  <2>2. ArmedInv' /\ FiresOncePerAdd' /\ RunningInv'
    BY <1>4 DEF InitSource, ArmedInv, FiresOncePerAdd, RunningInv
  <2>3. SourceInv'
    BY <1>4 DEF InitSource, SourceInv
  <2>4. SerialInv'
    BY <1>4 DEF InitSource, SerialInv
  <2> QED
    BY <2>1, <2>2, <2>3, <2>4
<1> QED
  BY <1>1, <1>2, <1>3, <1>4 DEF init_timer

\* Arming, deletion and destruction.
LEMMA OwnerInv ==
  ASSUME TimerInv, NEW t \in Timers, add_timer(t) \/ del_timer_sync(t) \/ destroy_timer(t)
  PROVE  TimerInv'
<1> USE TimersAssumption DEF TimerInv, TypeOK, InitSteps, timerVars
<1>1. CASE add_timer(t)
  <2>1. TypeOK' /\ RunningInv' /\ SourceInv' /\ SerialInv'
    BY <1>1 DEF add_timer, RunningInv, SourceInv, SerialInv
  <2>2. FiresOncePerAdd' /\ fires'[t] < adds'[t]
    BY <1>1 DEF add_timer, FiresOncePerAdd
  <2>3. (armed'[t] <=> ~cancelled[t]) /\ pending'[t] /\ UNCHANGED <<cancelled, source, at>>
    BY <1>1, Zenon DEF add_timer
  <2>4. \A u \in Timers \ {t} :
          UNCHANGED <<armed[u], pending[u], cancelled[u], source[u], at[u], fires[u], adds[u]>>
    BY <1>1 DEF add_timer
  <2>5. source[t] # NULL /\ at[t] = "ready"
    BY <1>1 DEF add_timer
  <2>6. ArmedInv'
    BY <2>2, <2>3, <2>4, <2>5 DEF ArmedInv
  <2> QED
    BY <2>1, <2>2, <2>6
<1>2. CASE del_timer_sync(t)
  <2>1. TypeOK' /\ FiresOncePerAdd' /\ RunningInv' /\ SourceInv' /\ SerialInv'
    BY <1>2 DEF del_timer_sync, FiresOncePerAdd, RunningInv, SourceInv, SerialInv
  <2>2. ArmedInv'
    BY <1>2 DEF del_timer_sync, ArmedInv
  <2> QED
    BY <2>1, <2>2
<1>3. CASE destroy_timer(t)
  <2>1. TypeOK' /\ FiresOncePerAdd' /\ RunningInv' /\ SourceInv' /\ SerialInv'
    BY <1>3 DEF destroy_timer, Goto, FiresOncePerAdd, RunningInv, SourceInv, SerialInv
  <2>2. ArmedInv'
    BY <1>3 DEF destroy_timer, Goto, ArmedInv
  <2> QED
    BY <2>1, <2>2
<1> QED
  BY <1>1, <1>2, <1>3

\* A source that fires uses up its arming.
LEMMA FireInv ==
  ASSUME TimerInv, NEW t \in Timers, Fire(t)
  PROVE  TimerInv'
<1> USE TimersAssumption DEF TimerInv, TypeOK, timerVars, Fire
<1>1. source[t] \in created /\ created \subseteq Queues
  BY DEF ArmedInv
<1>2. TypeOK' /\ ArmedInv' /\ FiresOncePerAdd'
  BY <1>1 DEF ArmedInv, FiresOncePerAdd
<1>3. RunningInv'
  BY <1>1 DEF RunningInv
<1>4. SourceInv' /\ SerialInv'
  BY DEF SourceInv, SerialInv, InitSteps
<1> QED
  BY <1>2, <1>3, <1>4

LEMMA ReturnInv ==
  ASSUME TimerInv, NEW q \in Queues, CallbackReturns(q)
  PROVE  TimerInv'
BY TimersAssumption
   DEF TimerInv, TypeOK, timerVars, CallbackReturns, ArmedInv, FiresOncePerAdd, RunningInv,
       SourceInv, SerialInv, InitSteps

LEMMA StepInv == TimerInv /\ [Next]_vars => TimerInv'
<1> SUFFICES ASSUME TimerInv, [Next]_vars PROVE TimerInv'
  OBVIOUS
<1>1. CASE UNCHANGED vars
  BY <1>1
     DEF vars, timerVars, firingVars, TimerInv, TypeOK, ArmedInv, FiresOncePerAdd,
         RunningInv, SourceInv, SerialInv
<1> QED
  BY <1>1, InitTimerInv, OwnerInv, FireInv, ReturnInv DEF Next

THEOREM Invariance == Spec => []TimerInv
BY InitInv, StepInv, PTL DEF Spec

\* Values stay within their types; queues in use have been created.
THEOREM TypeCorrect == Spec => []TypeOK
BY Invariance, PTL DEF TimerInv

\* Racing calls of init_timer never leave a timer without a source, however
\* their steps interleave: only a creation that fails does.
THEOREM InitCompletes == Spec => []InitGivesSource
<1>1. TimerInv => InitGivesSource
  BY DEF TimerInv, SourceInv, InitGivesSource
<1> QED
  BY <1>1, Invariance, PTL

\* Callbacks exclude one another as long as no race or failure made a second queue.
THEOREM CallbacksSerial == Spec => []SerialUnlessRaced
<1>1. TimerInv => SerialUnlessRaced
  BY DEF TimerInv, RunningInv, SerialInv, SerialUnlessRaced
<1> QED
  BY <1>1, Invariance, PTL

\* No callback without an arming of its own.
THEOREM OneShot == Spec => []FiresOncePerAdd
BY Invariance, PTL DEF TimerInv

\* What add_timer asks for is lost exactly if the source has been cancelled: a timer
\* added after its deletion waits for nothing, and no other timer that was added does,
\* whatever races there were.
LostIfCancelled == \A t \in Timers : pending[t] => (armed[t] <=> ~cancelled[t])

THEOREM LostAdditions == Spec => []LostIfCancelled
<1>1. TimerInv => LostIfCancelled
  BY DEF TimerInv, ArmedInv, LostIfCancelled
<1> QED
  BY <1>1, Invariance, PTL

\* Deletion, for good, and destruction keep callbacks from starting.
THEOREM NoLateCallback == Spec => QuietAfterDelete
<1> DEFINE Quiet ==
      \A q \in Queues, t \in Timers :
        running'[q] = t /\ running[q] # t => ~cancelled[t] /\ at[t] = "ready"
<1>1. ASSUME TimerInv, [Next]_vars, NEW q \in Queues, NEW t \in Timers,
             running'[q] = t, running[q] # t
      PROVE  ~cancelled[t] /\ at[t] = "ready"
  <2>1. CASE UNCHANGED running
    BY <1>1, <2>1
  <2>2. ASSUME NEW u \in Timers, Fire(u) PROVE ~cancelled[t] /\ at[t] = "ready"
    BY <1>1, <2>2, TimersAssumption DEF Fire, TimerInv, TypeOK, ArmedInv
  <2>3. ASSUME NEW p \in Queues, CallbackReturns(p) PROVE FALSE
    BY <1>1, <2>3, TimersAssumption DEF CallbackReturns, TimerInv, TypeOK
  <2> QED
    BY <1>1, <2>1, <2>2, <2>3
       DEF Next, vars, firingVars, timerVars, init_timer, InitCall, InitCheck, InitCreate,
           InitSource, add_timer, del_timer_sync, destroy_timer
<1>2. TimerInv /\ [Next]_vars => [Quiet]_vars
  BY <1>1
<1> QED
  BY <1>2, Invariance, PTL DEF Spec, QuietAfterDelete
=============================================================================
