--------------------------- MODULE SerialWorkqueue ---------------------------
(***************************************************************************)
(* What a system work queue promises its callers: items are run one at a   *)
(* time, in the order in which they were submitted, and a flush returns    *)
(* only when every item submitted before the call has finished.            *)
(***************************************************************************)
EXTENDS Integers

CONSTANT Threads

VARIABLES
  submitted,   \* the number of items submitted
  finished,    \* the number of items finished: always the oldest ones
  active,      \* the item after those is being run
  flushing     \* per thread: submitted when its flush was called, or -1

workqueueVars == <<submitted, finished, active, flushing>>

WorkqueueInit ==
  /\ submitted = 0
  /\ finished = 0
  /\ active = FALSE
  /\ flushing = [t \in Threads |-> -1]

Submit ==
  /\ submitted' = submitted + 1
  /\ UNCHANGED <<finished, active, flushing>>

BeginItem ==
  /\ ~active
  /\ finished < submitted
  /\ active' = TRUE
  /\ UNCHANGED <<submitted, finished, flushing>>

EndItem ==
  /\ active
  /\ active' = FALSE
  /\ finished' = finished + 1
  /\ UNCHANGED <<submitted, flushing>>

BeginFlush(t) ==
  /\ flushing[t] = -1
  /\ flushing' = [flushing EXCEPT ![t] = submitted]
  /\ UNCHANGED <<submitted, finished, active>>

EndFlush(t) ==
  /\ flushing[t] # -1
  /\ finished >= flushing[t]
  /\ flushing' = [flushing EXCEPT ![t] = -1]
  /\ UNCHANGED <<submitted, finished, active>>

WorkqueueNext ==
  \/ Submit \/ BeginItem \/ EndItem
  \/ \E t \in Threads : BeginFlush(t) \/ EndFlush(t)

WorkqueueSpec ==
  /\ WorkqueueInit /\ [][WorkqueueNext]_workqueueVars
  /\ WF_workqueueVars(BeginItem) /\ WF_workqueueVars(EndItem)
  /\ \A t \in Threads : WF_workqueueVars(EndFlush(t))
=============================================================================
