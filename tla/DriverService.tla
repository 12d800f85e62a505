---------------------------- MODULE DriverService ----------------------------
(***************************************************************************)
(* What the driver stack promises, with no pc, no shim and no reference    *)
(* count: a service that is published at most once, lets clients in only   *)
(* while it is published, and goes away only after every client it let in  *)
(* has left, but then does go away.                                        *)
(***************************************************************************)
EXTENDS FiniteSets

CONSTANT Clients

VARIABLES
  phase,      \* "starting", "serving", "closing" or "gone"
  pending,    \* clients let in whose connection is being set up
  sessions    \* clients with a hold on the driver

serviceVars == <<phase, pending, sessions>>

ServiceInit ==
  /\ phase = "starting"
  /\ pending = {}
  /\ sessions = {}

Publish ==
  /\ phase = "starting" /\ phase' = "serving"
  /\ UNCHANGED <<pending, sessions>>

\* A failed start, or the end of the service.
Withdraw ==
  /\ phase \in {"starting", "serving"} /\ phase' = "closing"
  /\ UNCHANGED <<pending, sessions>>

\* The object of a service that never started can go at once.
Discard ==
  /\ phase = "starting" /\ phase' = "gone"
  /\ UNCHANGED <<pending, sessions>>

Admit(c) ==
  /\ phase = "serving"
  /\ c \notin pending
  /\ pending' = pending \cup {c}
  /\ UNCHANGED <<phase, sessions>>

Join(c) ==
  /\ c \in pending \ sessions
  /\ sessions' = sessions \cup {c}
  /\ UNCHANGED <<phase, pending>>

\* Whoever leaves a closing service last may take it away.
MayRetire ==
  \/ UNCHANGED phase
  \/ /\ phase = "closing"
     /\ pending' = {} /\ sessions' = {}
     /\ phase' = "gone"

Settle(c) ==
  /\ c \in pending
  /\ pending' = pending \ {c}
  /\ UNCHANGED sessions
  /\ MayRetire

Leave(c) ==
  /\ c \in sessions \ pending
  /\ sessions' = sessions \ {c}
  /\ UNCHANGED pending
  /\ MayRetire

Retire ==
  /\ phase = "closing" /\ phase' = "gone"
  /\ pending = {} /\ sessions = {}
  /\ UNCHANGED <<pending, sessions>>

Depart == Retire \/ \E c \in Clients : phase = "closing" /\ (Settle(c) \/ Leave(c))

ServiceNext ==
  \/ Publish \/ Withdraw \/ Discard \/ Retire
  \/ \E c \in Clients : Admit(c) \/ Join(c) \/ Settle(c) \/ Leave(c)

ServiceSpec == ServiceInit /\ [][ServiceNext]_serviceVars /\ WF_serviceVars(Depart)
=============================================================================
