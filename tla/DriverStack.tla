----------------------------- MODULE DriverStack -----------------------------
(***************************************************************************)
(* The driver, the user clients and the test clients together.             *)
(***************************************************************************)
EXTENDS TestClient

StackInit == DriverInit /\ UcInit /\ TcInit

StackNext ==
  \/ (DriverStep \/ ServiceTerminate) /\ UNCHANGED <<ucVars, tcVars>>
  \/ \E c \in Clients :
       \/ UcStep(c) /\ UNCHANGED tcVars
       \/ TcStep(c)
       \/ TcKilled(c)
       \/ TcReap(c)

StackSpec == StackInit /\ [][StackNext]_stackVars

\* Handlers and the straight-line main() do not stop half way, and the
\* framework answers; nobody has to terminate the service or kill a client.
StackFairness ==
  /\ WF_stackVars(DriverStep /\ UNCHANGED <<ucVars, tcVars>>)
  /\ \A c \in Clients :
       /\ WF_stackVars(UcStep(c) /\ UNCHANGED tcVars)
       /\ WF_stackVars(TcStep(c))
       /\ WF_stackVars(TcReap(c))

FairStackSpec == StackSpec /\ StackFairness

StackTypeOK == DriverTypeOK /\ UcTypeOK /\ TcTypeOK

-----------------------------------------------------------------------------
(* Safety *)

\* Start acquires shim, PCI session, device and ownership in this order and
\* every way out of Start or through Stop gives them back in the reverse order.
NestedResources ==
  /\ device.ownership_grabbed => device.life = "live"
  /\ device.life = "live" => pci = "open"
  /\ pci = "open" => shimInits = 1

\* No path through Start's labels and Stop frees a device twice, uses a freed
\* one, closes a PCI session that is not open or tears down a shim not set up.
NoMisuse ==
  /\ device.life # "corrupt"
  /\ pci # "misused"
  /\ shimInits \in {0, 1}

\* While user space can find the service, the device behind it is allocated
\* under a plausible GPU id and owned, whatever clients do.
PublishedIsReady ==
  Published => device.ownership_grabbed /\ device.gpuId \in GpuIds /\ pc \in {"started", "running"}

\* Every reference on the driver has one holder: the framework, for the service or
\* for a call of a user client's Start or Stop, or a user client that keeps m_driver;
\* free() runs when none is left.
RefsAccounted ==
  /\ retainCount = ServiceRef + Cardinality(InHandler) + Cardinality(Connected)
  /\ object = "freed" <=> pc # "matched" /\ retainCount = 0

\* "This keeps the driver loaded while a client is connected": no user client has
\* a pointer to a freed driver, neither in m_driver nor as the provider that its Start
\* is to cast or that its Stop passes on after the release.  Between the two calls it
\* is the retain of Start that sees to it, during them the framework's hold.
ClientPinsDriver ==
  \A c \in Clients : c \in InHandler \cup Connected => object = "alive"

\* A driver object that is gone has left no device, no ownership and no PCI
\* session behind, and no shim either if it had come as far as RegisterService:
\* then nothing can fail any more, and it is Stop that ends it.
NothingLeftBehind ==
  object = "freed" =>
    /\ device.life # "live"
    /\ pci = "closed"
    /\ registered => shimInits = 0

\* What the shim's header asks: "This function should be called when the
\* driver is stopping.  It should unload the nvKms library."
ShimUnloaded == object = "freed" => shimInits = 0

\* Once main() has ended, by whatever path, it holds no service handle, and
\* a connection it got was to a driver that had called RegisterService (its Start
\* need not have returned).
HandlesBalanced ==
  \A c \in Clients :
    /\ tc[c] = "exit" => ~service[c]
    /\ kr[c] => registered

-----------------------------------------------------------------------------
(* Liveness *)

\* A terminated or failed driver is eventually freed, however the closing of
\* connections, their starting and the deaths of clients interleave with it.
DriverFreed == (terminating \/ pc = "failed") ~> object = "freed"

\* Every connection ends: a process that is gone leaves no user client.
ConnectionsEnd == \A c \in Clients : uc[c] # "none" ~> uc[c] \in {"stopped", "failed"}

-----------------------------------------------------------------------------
(* The stack implements the abstract service. *)

Phase ==
  IF object = "freed" THEN "gone"
  ELSE IF Published THEN "serving"
  ELSE IF ~terminating /\ pc \in {"matched"} \cup StartSteps THEN "starting"
  ELSE "closing"

Starting == {c \in Clients : uc[c] \in InStart}

\* A session ends with the return of Stop.
Sessions == {c \in Clients : m_driver[c] \/ uc[c] \in InStop}

Service == INSTANCE DriverService WITH
  phase <- Phase, pending <- Starting, sessions <- Sessions

\* Clients join only a published service and the driver outlives them all,
\* yet a service being closed is eventually gone.
ImplementsService == Service!ServiceSpec
-----------------------------------------------------------------------------
(* The inductive invariant behind the safety properties: which resource is  *)
(* held is a function of where Start or Stop is, and the object lives as    *)
(* long as somebody is accountable for a reference.                         *)

OwnedAt == {"register", "started", "running", "release_ownership"}
LiveAt  == OwnedAt \cup {"grab", "fail_after_alloc", "free_device"}
OpenAt  == LiveAt \cup {"allocate", "fail_after_open", "close"}
ShimAt  == OpenAt \cup {"open", "teardown"}
ShimNotAt == {"matched", "super_start", "cast", "shim_init", "super_stop", "stopped"}
RegisteredAt == {"started", "running", "stopped"} \cup StopSteps

ResourceInv ==
  /\ device.life # "corrupt"
  /\ device.ownership_grabbed <=> pc \in OwnedAt
  /\ device.life = "live" <=> pc \in LiveAt
  /\ pc \in LiveAt => device.gpuId \in GpuIds /\ ivars.nvDevice
  /\ pci = IF pc \in OpenAt THEN "open" ELSE "closed"
  /\ pc \in ShimAt \cup {"shim_init"} => ivars.pciDevice
  /\ shimInits \in {0, 1}
  /\ pc \in ShimAt => shimInits = 1
  /\ pc \in ShimNotAt => shimInits = 0

PhaseInv ==
  /\ pc \in RegisteredAt => registered
  /\ registered => pc \in RegisteredAt \cup {"released"}
  /\ pc = "released" /\ registered => shimInits = 0 /\ terminating
  /\ pc \in StopSteps \cup {"stopped"} => terminating
  /\ terminating => pc # "matched"

RefsInv ==
  /\ retainCount = ServiceRef + Cardinality(InHandler) + Cardinality(Connected)
  /\ object = "none" <=> pc = "matched"
  /\ object = "freed" <=> pc # "matched" /\ retainCount = 0
  /\ pc = "matched" => retainCount = 0

UcInv ==
  \A c \in Clients :
    /\ m_driver[c] <=> uc[c] \in {"started", "connected", "stopping"}
    /\ uc[c] # "none" => registered

TcInv ==
  \A c \in Clients :
    /\ tc[c] \in {"match", "find", "close", "exit"} => ~service[c]
    /\ kr[c] => registered

\* Holds in every reachable state and is preserved by every step.
StackInv == StackTypeOK /\ ResourceInv /\ PhaseInv /\ RefsInv /\ UcInv /\ TcInv
=============================================================================
