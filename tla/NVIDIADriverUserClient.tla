------------------------ MODULE NVIDIADriverUserClient ------------------------
(***************************************************************************)
(* The user client class of NVIDIADriverUserClient.cpp: the object behind  *)
(* one connection.  Its Start retains the driver and its Stop releases it; *)
(* both run on queues of their own, between any two steps of the driver.   *)
(* As for the driver, the Service... steps are the framework's:            *)
(*   - it holds the provider, which is an argument of Start and of Stop,   *)
(*     from before either is called (for Start, from the creation of the   *)
(*     user client) until it has returned, and at no other time: between   *)
(*     the two only the retain of Start keeps the driver, and only the     *)
(*     framework keeps it for the use that Stop makes of the provider      *)
(*     after it has given the reference of Start back;                     *)
(*   - it calls Stop once on a user client whose Start succeeded, when the *)
(*     connection closes or the provider is terminated;                    *)
(*   - it does not order that Stop against the driver's own Stop.          *)
(***************************************************************************)
EXTENDS NVIDIADriver, FiniteSets

CONSTANT Clients

ASSUME ClientsAssumption == IsFiniteSet(Clients)

VARIABLES
  uc,         \* per client: the state of its user client object
  m_driver    \* per client: the user client's m_driver is not NULL

ucVars == <<uc, m_driver>>

InStart == {"starting", "started", "start_failed"}
InStop  == {"stopping", "super_stop"}

UcStates == {"none", "connected", "stopped", "failed"} \cup InStart \cup InStop

UcTypeOK ==
  /\ uc \in [Clients -> UcStates]
  /\ m_driver \in [Clients -> BOOLEAN]

UcInit ==
  /\ uc = [c \in Clients |-> "none"]
  /\ m_driver = [c \in Clients |-> FALSE]

\* The references to the driver that somebody is accountable for: the framework
\* for each user client in one of its handlers, and the user clients.
InHandler == {c \in Clients : uc[c] \in InStart \cup InStop}
Connected == {c \in Clients : m_driver[c]}
ServiceRef == IF pc \in {"matched", "released"} THEN 0 ELSE 1

-----------------------------------------------------------------------------
\* Mutation of UcCreate: the service need not be published.
UcCreate_Unpublished(c, ok) ==
  /\ uc[c] = "none"
  /\ object = "alive"
  /\ uc' = [uc EXCEPT ![c] = IF ok THEN "starting" ELSE "failed"]
  /\ IF ok THEN retain ELSE UNCHANGED <<retainCount, object, ivars>>
  /\ UNCHANGED <<m_driver, shimVars, pc, pci, registered, terminating>>

\* IOServiceOpen on a published service: the user client is created, init()
\* runs, and Start is about to be called with the driver as its provider.
UcCreate(c, ok) ==
  /\ uc[c] = "none"
  /\ Published
  /\ uc' = [uc EXCEPT ![c] = IF ok THEN "starting" ELSE "failed"]
  /\ IF ok THEN retain ELSE UNCHANGED <<retainCount, object, ivars>>
  /\ UNCHANGED <<m_driver, shimVars, pc, pci, registered, terminating>>

\* Mutations of UcStart: without the retain, and with the retain before the
\* test of the cast.
UcStart_NoRetain(c) ==
  /\ uc[c] = "starting"
  /\ \E isDriver \in BOOLEAN :
       /\ m_driver' = [m_driver EXCEPT ![c] = isDriver]
       /\ uc' = [uc EXCEPT ![c] = IF isDriver THEN "started" ELSE "start_failed"]
  /\ UNCHANGED <<retainCount, object, ivars, shimVars, pc, pci, registered, terminating>>

UcStart_RetainFirst(c) ==
  /\ uc[c] = "starting"
  /\ \E isDriver \in BOOLEAN :
       /\ m_driver' = [m_driver EXCEPT ![c] = isDriver]
       /\ uc' = [uc EXCEPT ![c] = IF isDriver THEN "started" ELSE "start_failed"]
  /\ retain
  /\ UNCHANGED <<shimVars, pc, pci, registered, terminating>>

\* super::Start may fail; OSDynamicCast may yield NULL; else the driver is retained.
UcStart(c) ==
  /\ uc[c] = "starting"
  /\ \E isDriver \in BOOLEAN :
       /\ m_driver' = [m_driver EXCEPT ![c] = isDriver]
       /\ uc' = [uc EXCEPT ![c] = IF isDriver THEN "started" ELSE "start_failed"]
       /\ IF isDriver THEN retain ELSE UNCHANGED <<retainCount, object, ivars>>
  /\ UNCHANGED <<shimVars, pc, pci, registered, terminating>>

\* Mutation of UcStartReturn: a user client whose Start failed is kept.
UcStartReturn_KeepsFailed(c) ==
  /\ uc[c] = "started"
  /\ uc' = [uc EXCEPT ![c] = "connected"]
  /\ release
  /\ UNCHANGED <<m_driver, shimVars, pc, pci, registered, terminating>>

\* Start has returned to the framework, which drops the provider; a user
\* client whose Start failed is freed without a Stop.
UcStartReturn(c) ==
  /\ uc[c] \in {"started", "start_failed"}
  /\ uc' = [uc EXCEPT ![c] = IF @ = "started" THEN "connected" ELSE "failed"]
  /\ release
  /\ UNCHANGED <<m_driver, shimVars, pc, pci, registered, terminating>>

\* The connection goes away, by IOServiceClose or because its process died:
\* Stop is about to be called with the driver as its provider.
UcClose(c) ==
  \/ /\ uc[c] = "connected"
     /\ uc' = [uc EXCEPT ![c] = "stopping"]
     /\ retain
     /\ UNCHANGED <<m_driver, shimVars, pc, pci, registered, terminating>>
  \/ /\ uc[c] # "connected"
     /\ UNCHANGED <<ucVars, driverVars>>

\* Termination of the provider ends the connections that are still open.
UcTerminate(c) ==
  /\ terminating
  /\ uc[c] = "connected"
  /\ UcClose(c)

\* Mutation of UcStop: m_driver is cleared and the driver not released.
UcStop_NoRelease(c) ==
  /\ uc[c] = "stopping"
  /\ uc' = [uc EXCEPT ![c] = "super_stop"]
  /\ m_driver' = [m_driver EXCEPT ![c] = FALSE]
  /\ UNCHANGED <<retainCount, object, ivars, shimVars, pc, pci, registered, terminating>>

\* Stop gives back the reference of Start ...
UcStop(c) ==
  /\ uc[c] = "stopping"
  /\ uc' = [uc EXCEPT ![c] = "super_stop"]
  /\ m_driver' = [m_driver EXCEPT ![c] = FALSE]
  /\ IF m_driver[c] THEN release ELSE UNCHANGED <<retainCount, object, ivars>>
  /\ UNCHANGED <<shimVars, pc, pci, registered, terminating>>

\* ... and then passes the provider to the superclass, a use of the driver that
\* m_driver no longer covers.  Stop returns, and the framework drops the provider.
UcStopSuper(c) ==
  /\ uc[c] = "super_stop"
  /\ uc' = [uc EXCEPT ![c] = "stopped"]
  /\ release
  /\ UNCHANGED <<m_driver, shimVars, pc, pci, registered, terminating>>

UcStep(c) ==
  UcStart(c) \/ UcStartReturn(c) \/ UcTerminate(c) \/ UcStop(c) \/ UcStopSuper(c)
=============================================================================
