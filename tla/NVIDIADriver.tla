----------------------------- MODULE NVIDIADriver -----------------------------
(***************************************************************************)
(* The driver class of NVIDIADriver.cpp: init, Start with its three        *)
(* clean-up labels, Stop and free.  Start and Stop run on one dispatch     *)
(* queue, so a single pc locates the driver's own thread of control; every *)
(* call they make to the shim, to the PCI device or to the framework is a  *)
(* step, and user clients run between the steps.                           *)
(*                                                                         *)
(* The steps named Service... stand for DriverKit, which is not in the     *)
(* repository: it creates the object with one reference, calls Start, calls*)
(* Stop only for a driver whose Start succeeded, and then drops its        *)
(* reference.  A dext process serves one match, so an object lives once.   *)
(***************************************************************************)
EXTENDS NvKmsShim

VARIABLES
  pc,            \* where the driver's own thread of control is
  object,        \* the NVIDIADriver object: "none", "alive" or "freed"
  retainCount,   \* references to the object
  ivars,         \* which pointers of NVIDIADriver_IVars are not NULL
  pci,           \* the IOPCIDevice session: "closed", "open", or "misused"
  registered,    \* RegisterService has taken effect
  terminating    \* the framework has begun to terminate the service

driverVars == <<shimVars, pc, object, retainCount, ivars, pci, registered, terminating>>

StartSteps == {"super_start", "cast", "shim_init", "open", "allocate", "grab", "register",
               "started"}
FailSteps  == {"fail_after_alloc", "fail_after_open", "fail"}
StopSteps  == {"release_ownership", "free_device", "close", "teardown", "super_stop"}
DriverSteps == {"matched", "running", "failed", "stopped", "released"}
                 \cup StartSteps \cup FailSteps \cup StopSteps

NullIvars == [pciDevice |-> FALSE, nvDevice |-> FALSE]

DriverTypeOK ==
  /\ ShimTypeOK
  /\ pc \in DriverSteps
  /\ object \in {"none", "alive", "freed"}
  /\ retainCount \in Int
  /\ ivars \in [pciDevice : BOOLEAN, nvDevice : BOOLEAN]
  /\ pci \in {"closed", "open", "misused"}
  /\ registered \in BOOLEAN
  /\ terminating \in BOOLEAN

DriverInit ==
  /\ ShimInit
  /\ pc = "matched"
  /\ object = "none"
  /\ retainCount = 0
  /\ ivars = NullIvars
  /\ pci = "closed"
  /\ registered = FALSE
  /\ terminating = FALSE

\* User space can find the service.
Published == registered /\ ~terminating

-----------------------------------------------------------------------------
(* Reference counting of the object, used by the driver's user clients too. *)

retain ==
  /\ retainCount' = retainCount + 1
  /\ UNCHANGED <<object, ivars>>

\* The release that leaves no reference runs free(), which drops the ivars.
release ==
  /\ retainCount' = retainCount - 1
  /\ object' = IF retainCount' = 0 THEN "freed" ELSE object
  /\ ivars'  = IF retainCount' = 0 THEN NullIvars ELSE ivars

PciOpen == pci' = IF pci = "closed" THEN "open" ELSE "misused"
PciClose == pci' = IF pci = "open" THEN "closed" ELSE "misused"

Goto(from, to) == pc = from /\ pc' = to

-----------------------------------------------------------------------------
(* The framework's part. *)

\* A match: the object is created and init() runs; a failed init frees it.
ServiceCreate ==
  /\ pc = "matched"
  /\ UNCHANGED <<shimVars, ivars, pci, registered, terminating>>
  /\ \/ /\ pc' = "super_start"
        /\ object' = "alive"
        /\ retainCount' = 1
     \/ /\ pc' = "released"
        /\ object' = "freed"
        /\ UNCHANGED retainCount

\* Unplug, unload or replacement: from here on the service is not published.
ServiceTerminate ==
  /\ object = "alive"
  /\ ~terminating
  /\ terminating' = TRUE
  /\ UNCHANGED <<shimVars, pc, object, retainCount, ivars, pci, registered>>

ServiceStop ==
  /\ terminating
  /\ Goto("running", "release_ownership")
  /\ UNCHANGED <<shimVars, object, retainCount, ivars, pci, registered, terminating>>

\* After a failed Start or a completed Stop the framework lets the object go.
ServiceDetach ==
  /\ pc \in {"failed", "stopped"}
  /\ pc' = "released"
  /\ release
  /\ UNCHANGED <<shimVars, pci, registered, terminating>>

-----------------------------------------------------------------------------
(* Start *)

StartSuper ==
  /\ pc = "super_start"
  /\ pc' \in {"cast", "failed"}
  /\ UNCHANGED <<shimVars, object, retainCount, ivars, pci, registered, terminating>>

\* OSDynamicCast yields NULL for a provider of another class: Start returns
\* at once, without the clean-up of the fail label.
StartCast ==
  /\ pc = "cast"
  /\ \E isPci \in BOOLEAN :
       /\ ivars' = [ivars EXCEPT !.pciDevice = isPci]
       /\ pc' = IF isPci THEN "shim_init" ELSE "failed"
  /\ UNCHANGED <<shimVars, object, retainCount, pci, registered, terminating>>

StartShimInit ==
  /\ pc = "shim_init"
  /\ \E ok \in BOOLEAN :
       /\ nvkms_shim_init(ok)
       /\ pc' = IF ok THEN "open" ELSE "fail"
  /\ UNCHANGED <<object, retainCount, ivars, pci, registered, terminating>>

StartOpen ==
  /\ pc = "open"
  /\ \/ PciOpen /\ pc' = "allocate"
     \/ UNCHANGED pci /\ pc' = "fail"
  /\ UNCHANGED <<shimVars, object, retainCount, ivars, registered, terminating>>

\* The vendor and device IDs as configRead32 leaves them.
ConfigReads == {"zero", "all_ones", "id"}

\* Mutation of PlausibleId: the value read is taken as it is.
PlausibleId_Unchecked(vendorAndDeviceID) == vendorAndDeviceID

PlausibleId(vendorAndDeviceID) ==
  IF vendorAndDeviceID \in {"zero", "all_ones"} THEN "placeholder" ELSE vendorAndDeviceID

\* Mutation of StartAllocate: a failed allocation jumps to fail, past Close.
StartAllocate_SkipsClose ==
  /\ pc = "allocate"
  /\ \E vendorAndDeviceID \in ConfigReads, ok \in BOOLEAN :
       /\ nvkms_shim_allocate_device(PlausibleId(vendorAndDeviceID), ok)
       /\ ivars' = [ivars EXCEPT !.nvDevice = ok]
       /\ pc' = IF ok THEN "grab" ELSE "fail"
  /\ UNCHANGED <<object, retainCount, pci, registered, terminating>>

StartAllocate ==
  /\ pc = "allocate"
  /\ \E vendorAndDeviceID \in ConfigReads, ok \in BOOLEAN :
       /\ nvkms_shim_allocate_device(PlausibleId(vendorAndDeviceID), ok)
       /\ ivars' = [ivars EXCEPT !.nvDevice = ok]
       /\ pc' = IF ok THEN "grab" ELSE "fail_after_open"
  /\ UNCHANGED <<object, retainCount, pci, registered, terminating>>

\* Mutation of StartGrab: the result of grab_ownership is not looked at.
StartGrab_Unchecked ==
  /\ Goto("grab", "register")
  /\ \E ok \in BOOLEAN : nvkms_shim_grab_ownership(ivars.nvDevice, ok)
  /\ UNCHANGED <<object, retainCount, ivars, pci, registered, terminating>>

StartGrab ==
  /\ pc = "grab"
  /\ \E ok \in BOOLEAN :
       /\ nvkms_shim_grab_ownership(ivars.nvDevice, ok)
       /\ pc' = IF ok THEN "register" ELSE "fail_after_alloc"
  /\ UNCHANGED <<object, retainCount, ivars, pci, registered, terminating>>

\* Clients may open the service before Start has returned.
StartRegister ==
  /\ Goto("register", "started")
  /\ registered' = TRUE
  /\ UNCHANGED <<shimVars, object, retainCount, ivars, pci, terminating>>

StartReturn ==
  /\ Goto("started", "running")
  /\ UNCHANGED <<shimVars, object, retainCount, ivars, pci, registered, terminating>>

\* Mutation of FailAfterAlloc: the device is not freed.
FailAfterAlloc_NoFree ==
  /\ Goto("fail_after_alloc", "fail_after_open")
  /\ UNCHANGED <<shimVars, object, retainCount, ivars, pci, registered, terminating>>

\* ivars->nvDevice keeps the address of the device freed here.
FailAfterAlloc ==
  /\ Goto("fail_after_alloc", "fail_after_open")
  /\ nvkms_shim_free_device(ivars.nvDevice)
  /\ UNCHANGED <<object, retainCount, ivars, pci, registered, terminating>>

FailAfterOpen ==
  /\ Goto("fail_after_open", "fail")
  /\ PciClose
  /\ UNCHANGED <<shimVars, object, retainCount, ivars, registered, terminating>>

\* Mutation of Fail: the driver's own Stop is called, over the pointers that
\* the clean-up labels have left behind.
Fail_OwnStop ==
  /\ Goto("fail", "release_ownership")
  /\ UNCHANGED <<shimVars, object, retainCount, ivars, pci, registered, terminating>>

\* Stop(provider, SUPERDISPATCH) is the superclass's Stop, not the driver's.
Fail ==
  /\ Goto("fail", "failed")
  /\ UNCHANGED <<shimVars, object, retainCount, ivars, pci, registered, terminating>>

-----------------------------------------------------------------------------
(* Stop *)

StopReleaseOwnership ==
  /\ Goto("release_ownership", "free_device")
  /\ nvkms_shim_release_ownership(ivars.nvDevice)
  /\ UNCHANGED <<object, retainCount, ivars, pci, registered, terminating>>

StopFreeDevice ==
  /\ Goto("free_device", "close")
  /\ nvkms_shim_free_device(ivars.nvDevice)
  /\ ivars' = [ivars EXCEPT !.nvDevice = FALSE]
  /\ UNCHANGED <<object, retainCount, pci, registered, terminating>>

StopClose ==
  /\ Goto("close", "teardown")
  /\ IF ivars.pciDevice THEN PciClose ELSE UNCHANGED pci
  /\ UNCHANGED <<shimVars, object, retainCount, ivars, registered, terminating>>

StopTeardown ==
  /\ Goto("teardown", "super_stop")
  /\ nvkms_shim_teardown
  /\ UNCHANGED <<object, retainCount, ivars, pci, registered, terminating>>

StopSuper ==
  /\ Goto("super_stop", "stopped")
  /\ UNCHANGED <<shimVars, object, retainCount, ivars, pci, registered, terminating>>

Start ==
  \/ StartSuper \/ StartCast \/ StartShimInit \/ StartOpen \/ StartAllocate
  \/ StartGrab \/ StartRegister \/ StartReturn
  \/ FailAfterAlloc \/ FailAfterOpen \/ Fail

Stop ==
  StopReleaseOwnership \/ StopFreeDevice \/ StopClose \/ StopTeardown \/ StopSuper

\* The steps that the framework takes on its own and the driver's handlers.
DriverStep == ServiceCreate \/ Start \/ ServiceStop \/ Stop \/ ServiceDetach
=============================================================================
