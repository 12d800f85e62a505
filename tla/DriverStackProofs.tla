-------------------------- MODULE DriverStackProofs --------------------------
(***************************************************************************)
(* Proofs that the driver stack keeps its invariants, for any finite set   *)
(* of clients and any shim, and that it implements DriverService.          *)
(***************************************************************************)
EXTENDS DriverStack, FiniteSetTheorems, TLAPS

USE DEF StartSteps, FailSteps, StopSteps, DriverSteps, InStart, InStop, UcStates, TcSteps

-----------------------------------------------------------------------------
(* Accounting of the references. *)

\* The two sets of holders are finite.
LEMMA HoldersFinite ==
  /\ IsFiniteSet(InHandler) /\ Cardinality(InHandler) \in Nat
  /\ IsFiniteSet(Connected) /\ Cardinality(Connected) \in Nat
<1>1. InHandler \subseteq Clients /\ Connected \subseteq Clients
  BY DEF InHandler, Connected
<1> QED
  BY <1>1, ClientsAssumption, FS_Subset, FS_CardinalityType

\* So they are in the next state.
LEMMA HoldersFiniteNext ==
  /\ IsFiniteSet(InHandler') /\ Cardinality(InHandler') \in Nat
  /\ IsFiniteSet(Connected') /\ Cardinality(Connected') \in Nat
<1>1. InHandler' \subseteq Clients /\ Connected' \subseteq Clients
  BY DEF InHandler, Connected
<1> QED
  BY <1>1, ClientsAssumption, FS_Subset, FS_CardinalityType

\* A client that no step touches keeps its place among the holders.
LEMMA HoldersUnchanged ==
  ASSUME UNCHANGED ucVars
  PROVE  UNCHANGED <<InHandler, Connected>>
BY DEF InHandler, Connected, ucVars

\* A step of the driver that neither creates nor detaches the object, and
\* leaves it and its clients alone, keeps the references accounted for.
LEMMA RefsKept ==
  ASSUME RefsInv, UNCHANGED <<retainCount, object, ucVars>>,
         pc \notin {"matched", "released"}, pc' \notin {"matched", "released"}
  PROVE  RefsInv'
BY HoldersUnchanged DEF RefsInv, ServiceRef

\* Nor does such a step disturb what is known of user and test clients.
LEMMA ClientsKept ==
  ASSUME UcInv, TcInv, UNCHANGED <<ucVars, tcVars>>, registered => registered'
  PROVE  UcInv' /\ TcInv'
BY DEF UcInv, TcInv, ucVars, tcVars

-----------------------------------------------------------------------------
(* The initial states. *)

LEMMA InitInv == StackInit => StackInv
<1> SUFFICES ASSUME StackInit PROVE StackInv
  OBVIOUS
<1> USE DEF StackInit, DriverInit, ShimInit, UcInit, TcInit
<1>1. StackTypeOK
  <2>1. ShimTypeOK
    BY DEF ShimTypeOK, NoDevice, Device, GpuIds
  <2>2. DriverTypeOK
    <3>1. ivars \in [pciDevice : BOOLEAN, nvDevice : BOOLEAN]
      BY DEF NullIvars
    <3>2. registered \in BOOLEAN /\ terminating \in BOOLEAN
      BY Zenon
    <3> QED
      BY <2>1, <3>1, <3>2 DEF DriverTypeOK
  <2>3. UcTypeOK /\ TcTypeOK
    BY DEF UcTypeOK, TcTypeOK
  <2> QED
    BY <2>2, <2>3 DEF StackTypeOK
<1>2. ResourceInv /\ PhaseInv
  BY DEF ResourceInv, PhaseInv, OwnedAt, LiveAt, OpenAt, ShimAt, ShimNotAt, RegisteredAt,
         NoDevice
<1>3. UcInv /\ TcInv
  BY DEF UcInv, TcInv
<1>4. RefsInv
  <2>1. InHandler = {} /\ Connected = {}
    BY DEF InHandler, Connected
  <2> QED
    BY <2>1, FS_EmptySet DEF RefsInv, ServiceRef
<1> QED
  BY <1>1, <1>2, <1>3, <1>4 DEF StackInv

-----------------------------------------------------------------------------
(* Steps of the driver. *)

\* What the steps of Start and of the fail labels do to the driver's own state.
LEMMA StartInv ==
  ASSUME StackInv, Start, UNCHANGED <<ucVars, tcVars>>
  PROVE  StackInv'
<1> USE DEF StackInv
<1> USE DEF ResourceInv, PhaseInv, OwnedAt, LiveAt, OpenAt, ShimAt, ShimNotAt, RegisteredAt,
            StackTypeOK, DriverTypeOK, ShimTypeOK, UcTypeOK, TcTypeOK, Device, GpuIds, Goto,
            ucVars, tcVars, shimVars
<1>1. CASE StartSuper
  BY <1>1, RefsKept, ClientsKept DEF StartSuper
<1>2. CASE StartCast
  BY <1>2, RefsKept, ClientsKept DEF StartCast
<1>3. CASE StartShimInit
  BY <1>3, RefsKept, ClientsKept DEF StartShimInit, nvkms_shim_init
<1>4. CASE StartOpen
  BY <1>4, RefsKept, ClientsKept DEF StartOpen, PciOpen
<1>5. CASE StartAllocate
  BY <1>5, RefsKept, ClientsKept
     DEF StartAllocate, nvkms_shim_allocate_device, ConfigReads, PlausibleId
<1>6. CASE StartGrab
  <2>1. PICK ok \in BOOLEAN :
          /\ nvkms_shim_grab_ownership(ivars.nvDevice, ok)
          /\ pc' = IF ok THEN "register" ELSE "fail_after_alloc"
    BY <1>6 DEF StartGrab
  <2>2. CASE ok
    BY <1>6, <2>1, <2>2, RefsKept, ClientsKept DEF StartGrab, nvkms_shim_grab_ownership, Used
  <2>3. CASE ~ok
    BY <1>6, <2>1, <2>3, RefsKept, ClientsKept DEF StartGrab, nvkms_shim_grab_ownership
  <2> QED
    BY <2>2, <2>3
<1>7. CASE StartRegister
  BY <1>7, RefsKept, ClientsKept DEF StartRegister
<1>8. CASE StartReturn
  BY <1>8, RefsKept, ClientsKept DEF StartReturn
<1>9. CASE FailAfterAlloc
  BY <1>9, RefsKept, ClientsKept DEF FailAfterAlloc, nvkms_shim_free_device, Used
<1>10. CASE FailAfterOpen
  BY <1>10, RefsKept, ClientsKept DEF FailAfterOpen, PciClose
<1>11. CASE Fail
  BY <1>11, RefsKept, ClientsKept DEF Fail
<1> QED
  BY <1>1, <1>2, <1>3, <1>4, <1>5, <1>6, <1>7, <1>8, <1>9, <1>10, <1>11 DEF Start

\* The same for the steps of Stop.
LEMMA StopInv ==
  ASSUME StackInv, Stop, UNCHANGED <<ucVars, tcVars>>
  PROVE  StackInv'
<1> USE DEF StackInv
<1> USE DEF ResourceInv, PhaseInv, OwnedAt, LiveAt, OpenAt, ShimAt, ShimNotAt, RegisteredAt,
            StackTypeOK, DriverTypeOK, ShimTypeOK, UcTypeOK, TcTypeOK, Device, GpuIds, Goto,
            ucVars, tcVars, shimVars
<1>1. CASE StopReleaseOwnership
  BY <1>1, RefsKept, ClientsKept DEF StopReleaseOwnership, nvkms_shim_release_ownership, Used
<1>2. CASE StopFreeDevice
  BY <1>2, RefsKept, ClientsKept DEF StopFreeDevice, nvkms_shim_free_device, Used
<1>3. CASE StopClose
  BY <1>3, RefsKept, ClientsKept DEF StopClose, PciClose
<1>4. CASE StopTeardown
  BY <1>4, RefsKept, ClientsKept DEF StopTeardown, nvkms_shim_teardown
<1>5. CASE StopSuper
  BY <1>5, RefsKept, ClientsKept DEF StopSuper
<1> QED
  BY <1>1, <1>2, <1>3, <1>4, <1>5 DEF Stop

\* The framework's reference comes with the object and goes with ServiceDetach.
LEMMA CreateRefs ==
  ASSUME RefsInv, ServiceCreate, UNCHANGED ucVars
  PROVE  RefsInv'
<1>1. UNCHANGED <<InHandler, Connected>>
  BY HoldersUnchanged
<1>2. /\ retainCount = 0
      /\ Cardinality(InHandler) + Cardinality(Connected) = 0
  BY HoldersFinite DEF ServiceCreate, RefsInv, ServiceRef
<1>3. CASE pc' = "super_start" /\ object' = "alive" /\ retainCount' = 1
  BY <1>1, <1>2, <1>3, HoldersFinite DEF RefsInv, ServiceRef
<1>4. CASE pc' = "released" /\ object' = "freed" /\ UNCHANGED retainCount
  BY <1>1, <1>2, <1>4, HoldersFinite DEF RefsInv, ServiceRef
<1> QED
  BY <1>3, <1>4 DEF ServiceCreate

LEMMA DetachRefs ==
  ASSUME RefsInv, ServiceDetach, UNCHANGED ucVars
  PROVE  RefsInv'
<1>1. UNCHANGED <<InHandler, Connected>>
  BY HoldersUnchanged
<1>2. ServiceRef = 1 /\ ServiceRef' = 0
  BY DEF ServiceDetach, ServiceRef
<1>3. retainCount' = Cardinality(InHandler) + Cardinality(Connected)
  BY <1>2, HoldersFinite DEF ServiceDetach, release, RefsInv
<1>4. object \notin {"none", "freed"}
  BY <1>2, HoldersFinite DEF ServiceDetach, RefsInv
<1> QED
  BY <1>1, <1>2, <1>3, <1>4, HoldersFinite DEF ServiceDetach, release, RefsInv

\* The framework creates the object, begins its termination, calls Stop, and
\* gives up its own reference, the one step here that may free the object.
LEMMA ServiceInv ==
  ASSUME StackInv, ServiceCreate \/ ServiceTerminate \/ ServiceStop \/ ServiceDetach,
         UNCHANGED <<ucVars, tcVars>>
  PROVE  StackInv'
<1> USE DEF StackInv
<1> USE DEF ResourceInv, PhaseInv, OwnedAt, LiveAt, OpenAt, ShimAt, ShimNotAt, RegisteredAt,
            StackTypeOK, DriverTypeOK, ShimTypeOK, UcTypeOK, TcTypeOK, Device, GpuIds, Goto,
            ucVars, tcVars, shimVars
<1>1. CASE ServiceCreate
  <2>1. RefsInv'
    BY <1>1, CreateRefs
  <2>2. StackTypeOK'
    BY <1>1 DEF ServiceCreate
  <2>3. ResourceInv' /\ PhaseInv'
    BY <1>1 DEF ServiceCreate
  <2> QED
    BY <1>1, <2>1, <2>2, <2>3, ClientsKept DEF ServiceCreate
<1>2. CASE ServiceTerminate
  <2>1. RefsInv'
    BY <1>2, HoldersUnchanged DEF ServiceTerminate, RefsInv, ServiceRef
  <2> QED
    BY <1>2, <2>1, ClientsKept DEF ServiceTerminate, RefsInv
<1>3. CASE ServiceStop
  BY <1>3, RefsKept, ClientsKept DEF ServiceStop
<1>4. CASE ServiceDetach
  <2>1. RefsInv'
    BY <1>4, DetachRefs
  <2>2. StackTypeOK'
    BY <1>4 DEF ServiceDetach, release, NullIvars
  <2>3. ResourceInv' /\ PhaseInv'
    BY <1>4 DEF ServiceDetach
  <2> QED
    BY <1>4, <2>1, <2>2, <2>3, ClientsKept DEF ServiceDetach
<1> QED
  BY <1>1, <1>2, <1>3, <1>4

-----------------------------------------------------------------------------
(* Steps of the user clients. *)

\* A step of a user client that keeps m_driver, the user client's phase and the
\* references in agreement does not disturb the driver: while Start or Stop
\* runs, the framework's reference alone keeps the object and its ivars.
LEMMA UcFrame ==
  ASSUME StackInv, release \/ retain \/ UNCHANGED <<retainCount, object, ivars>>,
         UNCHANGED <<shimVars, pc, pci, registered, terminating>>,
         pc # "matched",
         retainCount' = ServiceRef' + Cardinality(InHandler') + Cardinality(Connected'),
         retain => retainCount # 0,
         IsFiniteSet(InHandler'), IsFiniteSet(Connected')
  PROVE  DriverTypeOK' /\ ResourceInv' /\ PhaseInv' /\ RefsInv'
<1> USE DEF StackInv
<1>1. retainCount \in Int /\ object \in {"none", "alive", "freed"}
  BY DEF StackTypeOK, DriverTypeOK
<1>2. Cardinality(InHandler') \in Nat /\ Cardinality(Connected') \in Nat
  BY FS_CardinalityType
<1>3. ServiceRef' = ServiceRef /\ ServiceRef \in {0, 1}
  BY DEF ServiceRef
<1>4. RefsInv'
  <2>1. retainCount \in Nat /\ retainCount' \in Nat
    BY <1>2, <1>3, HoldersFinite DEF RefsInv
  <2>2. CASE release
    <3>1. retainCount = retainCount' + 1 /\ object = "alive"
      BY <1>1, <2>1, <2>2 DEF release, RefsInv
    <3> QED
      BY <2>1, <2>2, <3>1 DEF release, RefsInv
  <2>3. CASE retain
    <3>1. retainCount' # 0 /\ object' = "alive"
      BY <1>1, <2>1, <2>3 DEF retain, RefsInv
    <3> QED
      BY <2>1, <3>1 DEF RefsInv
  <2>4. CASE UNCHANGED <<retainCount, object, ivars>>
    BY <2>1, <2>4 DEF RefsInv
  <2> QED
    BY <2>2, <2>3, <2>4
<1>5. pc # "released" => UNCHANGED ivars
  BY <1>1, <1>2, <1>3 DEF ServiceRef, retain, release
<1>6. DriverTypeOK'
  <2>1. ivars' \in [pciDevice : BOOLEAN, nvDevice : BOOLEAN]
    <3>1. NullIvars \in [pciDevice : BOOLEAN, nvDevice : BOOLEAN]
      BY DEF NullIvars
    <3>2. ivars' \in {ivars, NullIvars}
      BY DEF retain, release
    <3> QED
      BY <3>1, <3>2 DEF StackTypeOK, DriverTypeOK
  <2>2. retainCount' \in Int /\ object' \in {"none", "alive", "freed"}
    BY <1>1 DEF retain, release
  <2> QED
    BY <2>1, <2>2 DEF StackTypeOK, DriverTypeOK, ShimTypeOK, shimVars
<1>7. ResourceInv' /\ PhaseInv'
  BY <1>5 DEF ResourceInv, PhaseInv, shimVars, OwnedAt, LiveAt, OpenAt, ShimAt, ShimNotAt,
              RegisteredAt
<1> QED
  BY <1>4, <1>6, <1>7

\* StackInv without what it says of the test clients.
CoreInv == DriverTypeOK /\ UcTypeOK /\ ResourceInv /\ PhaseInv /\ RefsInv /\ UcInv

\* A step that leaves the driver and the user clients alone keeps CoreInv.
LEMMA CoreKept ==
  ASSUME StackInv, UNCHANGED <<driverVars, ucVars>>
  PROVE  CoreInv'
<1> USE DEF StackInv, driverVars, ucVars
<1>1. DriverTypeOK' /\ UcTypeOK' /\ ResourceInv' /\ PhaseInv' /\ UcInv'
  BY DEF StackTypeOK, DriverTypeOK, ShimTypeOK, UcTypeOK, ResourceInv, PhaseInv, UcInv, shimVars,
         OwnedAt, LiveAt, OpenAt, ShimAt, ShimNotAt, RegisteredAt
<1>2. RefsInv'
  BY HoldersUnchanged DEF RefsInv, ServiceRef
<1> QED
  BY <1>1, <1>2 DEF CoreInv

\* Only a published driver, so one with a live object, is handed to a new
\* user client, and the framework holds it while that starts.
LEMMA UcCreateInv ==
  ASSUME StackInv, NEW c \in Clients, NEW ok \in BOOLEAN, UcCreate(c, ok)
  PROVE  CoreInv'
<1> USE DEF StackInv, InStart
<1>1. uc \in [Clients -> UcStates] /\ uc[c] = "none" /\ ~m_driver[c]
  BY DEF UcCreate, StackTypeOK, UcTypeOK, UcInv
<1>2. registered /\ pc \in {"started", "running"}
  BY DEF UcCreate, Published, PhaseInv, RegisteredAt
<1>3. ServiceRef' = ServiceRef /\ ServiceRef = 1
  BY <1>2 DEF UcCreate, ServiceRef
<1>4. UcTypeOK' /\ UcInv'
  BY <1>1, <1>2 DEF UcCreate, StackTypeOK, UcTypeOK, UcInv
<1>5. Connected' = Connected
  BY DEF UcCreate, Connected
<1>6. CASE ok
  <2>1. InHandler' = InHandler \cup {c} /\ c \notin InHandler
    BY <1>1, <1>6 DEF UcCreate, InHandler
  <2>2. IsFiniteSet(InHandler') /\ Cardinality(InHandler') = Cardinality(InHandler) + 1
    BY <2>1, HoldersFinite, FS_AddElement
  <2>3. retain /\ retainCount # 0
    BY <1>3, <1>6, HoldersFinite DEF UcCreate, RefsInv
  <2>4. retainCount' = ServiceRef' + Cardinality(InHandler') + Cardinality(Connected')
    BY <1>3, <1>5, <2>2, <2>3, HoldersFinite DEF retain, RefsInv
  <2> QED
    BY <1>2, <1>4, <1>5, <2>2, <2>3, <2>4, UcFrame, HoldersFinite DEF UcCreate, CoreInv
<1>7. CASE ~ok
  <2>1. InHandler' = InHandler
    BY <1>1, <1>7 DEF UcCreate, InHandler
  <2>2. UNCHANGED <<retainCount, object, ivars>>
    BY <1>7 DEF UcCreate
  <2>3. retainCount # 0
    BY <1>3, HoldersFinite DEF RefsInv
  <2> QED
    BY <1>2, <1>3, <1>4, <1>5, <2>1, <2>2, <2>3, UcFrame, HoldersFinite
       DEF UcCreate, CoreInv, RefsInv
<1> QED
  BY <1>6, <1>7

\* The retain of Start is taken on a driver that the framework still holds.
LEMMA UcStartInv ==
  ASSUME StackInv, NEW c \in Clients, UcStart(c)
  PROVE  CoreInv'
<1> USE DEF StackInv, InStart
<1>1. uc \in [Clients -> UcStates] /\ uc[c] = "starting" /\ ~m_driver[c] /\ registered
  BY DEF UcStart, StackTypeOK, UcTypeOK, UcInv
<1>2. pc # "matched"
  BY <1>1 DEF PhaseInv, RegisteredAt
<1>3. ServiceRef' = ServiceRef /\ ServiceRef \in {0, 1}
  BY DEF UcStart, ServiceRef
<1>4. UcTypeOK' /\ UcInv'
  BY <1>1 DEF UcStart, StackTypeOK, UcTypeOK, UcInv
<1>5. InHandler' = InHandler /\ c \in InHandler
  BY <1>1 DEF UcStart, InHandler, StackTypeOK, UcTypeOK
<1>6. Cardinality(InHandler) # 0
  BY <1>5, HoldersFinite, FS_EmptySet
<1>7. retainCount # 0
  BY <1>3, <1>6, HoldersFinite DEF RefsInv
<1>8. PICK isDriver \in BOOLEAN :
        /\ m_driver' = [m_driver EXCEPT ![c] = isDriver]
        /\ IF isDriver THEN retain ELSE UNCHANGED <<retainCount, object, ivars>>
  BY DEF UcStart
<1>9. CASE isDriver
  <2>1. Connected' = Connected \cup {c} /\ c \notin Connected
    BY <1>1, <1>8, <1>9 DEF Connected, StackTypeOK, UcTypeOK
  <2>2. IsFiniteSet(Connected') /\ Cardinality(Connected') = Cardinality(Connected) + 1
    BY <2>1, HoldersFinite, FS_AddElement
  <2>3. retainCount' = ServiceRef' + Cardinality(InHandler') + Cardinality(Connected')
    BY <1>3, <1>5, <1>8, <1>9, <2>2, HoldersFinite DEF retain, RefsInv
  <2> QED
    BY <1>2, <1>4, <1>5, <1>7, <1>8, <1>9, <2>2, <2>3, UcFrame, HoldersFinite
       DEF UcStart, CoreInv
<1>10. CASE ~isDriver
  <2>1. Connected' = Connected
    BY <1>1, <1>8, <1>10 DEF Connected, StackTypeOK, UcTypeOK
  <2> QED
    BY <1>2, <1>3, <1>4, <1>5, <1>7, <1>8, <1>10, <2>1, UcFrame, HoldersFinite
       DEF UcStart, CoreInv, RefsInv
<1> QED
  BY <1>9, <1>10

\* The framework drops the provider only after Start has retained it, or failed.
LEMMA UcStartReturnInv ==
  ASSUME StackInv, NEW c \in Clients, UcStartReturn(c)
  PROVE  CoreInv'
<1> USE DEF StackInv, InStart
<1>1. uc \in [Clients -> UcStates] /\ uc[c] \in {"started", "start_failed"} /\ registered
  BY DEF UcStartReturn, StackTypeOK, UcTypeOK, UcInv
<1>2. pc # "matched"
  BY <1>1 DEF PhaseInv, RegisteredAt
<1>3. ServiceRef' = ServiceRef /\ ServiceRef \in {0, 1}
  BY DEF UcStartReturn, ServiceRef
<1>4. UcTypeOK' /\ UcInv'
  BY <1>1 DEF UcStartReturn, StackTypeOK, UcTypeOK, UcInv
<1>5. Connected' = Connected
  BY DEF UcStartReturn, Connected
<1>6. InHandler' = InHandler \ {c} /\ c \in InHandler
  BY <1>1 DEF UcStartReturn, InHandler
<1>7. IsFiniteSet(InHandler') /\ Cardinality(InHandler') = Cardinality(InHandler) - 1
  BY <1>6, HoldersFinite, FS_RemoveElement
<1>8. retainCount' = ServiceRef' + Cardinality(InHandler') + Cardinality(Connected')
  BY <1>3, <1>5, <1>7, HoldersFinite DEF UcStartReturn, release, RefsInv
<1>9. release /\ retainCount # 0
  <2>1. Cardinality(InHandler) # 0
    BY <1>6, HoldersFinite, FS_EmptySet
  <2> QED
    BY <1>3, <2>1, HoldersFinite DEF UcStartReturn, RefsInv
<1> QED
  BY <1>2, <1>4, <1>5, <1>7, <1>8, <1>9, UcFrame, HoldersFinite DEF UcStartReturn, CoreInv

\* A connection that is closed has m_driver, so the framework takes its hold on a
\* driver that is alive; closing one that has gone is nothing.
LEMMA UcCloseInv ==
  ASSUME StackInv, NEW c \in Clients, UcClose(c)
  PROVE  CoreInv'
<1> USE DEF StackInv
<1>1. uc \in [Clients -> UcStates]
  BY DEF StackTypeOK, UcTypeOK
<1>2. CASE uc[c] = "connected"
  <2>1. m_driver[c] /\ registered
    BY <1>2 DEF UcInv
  <2>2. pc # "matched"
    BY <2>1 DEF PhaseInv, RegisteredAt
  <2>3. ServiceRef' = ServiceRef /\ ServiceRef \in {0, 1}
    BY <1>2 DEF UcClose, ServiceRef
  <2>4. UcTypeOK' /\ UcInv'
    BY <1>1, <1>2 DEF UcClose, StackTypeOK, UcTypeOK, UcInv
  <2>5. Connected' = Connected /\ c \in Connected
    BY <1>2, <2>1 DEF UcClose, Connected
  <2>6. InHandler' = InHandler \cup {c} /\ c \notin InHandler
    BY <1>1, <1>2 DEF UcClose, InHandler
  <2>7. IsFiniteSet(InHandler') /\ Cardinality(InHandler') = Cardinality(InHandler) + 1
    BY <2>6, HoldersFinite, FS_AddElement
  <2>8. retain /\ retainCount # 0
    <3>1. Cardinality(Connected) # 0
      BY <2>5, HoldersFinite, FS_EmptySet
    <3> QED
      BY <1>2, <2>3, <3>1, HoldersFinite DEF UcClose, RefsInv
  <2>9. retainCount' = ServiceRef' + Cardinality(InHandler') + Cardinality(Connected')
    BY <2>3, <2>5, <2>7, <2>8, HoldersFinite DEF retain, RefsInv
  <2> QED
    BY <1>2, <2>2, <2>4, <2>5, <2>7, <2>8, <2>9, UcFrame, HoldersFinite DEF UcClose, CoreInv
<1>3. CASE uc[c] # "connected"
  BY <1>3, CoreKept DEF UcClose
<1> QED
  BY <1>2, <1>3

\* Stop gives back the reference of Start, once.
LEMMA UcStopInv ==
  ASSUME StackInv, NEW c \in Clients, UcStop(c)
  PROVE  CoreInv'
<1> USE DEF StackInv, InStart
<1>1. uc \in [Clients -> UcStates] /\ uc[c] = "stopping" /\ m_driver[c] /\ registered
  BY DEF UcStop, StackTypeOK, UcTypeOK, UcInv
<1>2. pc # "matched"
  BY <1>1 DEF PhaseInv, RegisteredAt
<1>3. ServiceRef' = ServiceRef /\ ServiceRef \in {0, 1}
  BY DEF UcStop, ServiceRef
<1>4. UcTypeOK' /\ UcInv'
  BY <1>1 DEF UcStop, StackTypeOK, UcTypeOK, UcInv
<1>5. InHandler' = InHandler
  BY <1>1 DEF UcStop, InHandler
<1>6. Connected' = Connected \ {c} /\ c \in Connected
  BY <1>1 DEF UcStop, Connected, StackTypeOK, UcTypeOK
<1>7. IsFiniteSet(Connected') /\ Cardinality(Connected') = Cardinality(Connected) - 1
  BY <1>6, HoldersFinite, FS_RemoveElement
<1>8. release
  BY <1>1 DEF UcStop
<1>9. retainCount' = ServiceRef' + Cardinality(InHandler') + Cardinality(Connected')
  BY <1>3, <1>5, <1>7, <1>8, HoldersFinite DEF release, RefsInv
<1>10. retainCount # 0
  <2>1. Cardinality(Connected) # 0
    BY <1>6, HoldersFinite, FS_EmptySet
  <2> QED
    BY <1>3, <2>1, HoldersFinite DEF RefsInv
<1> QED
  BY <1>2, <1>4, <1>5, <1>7, <1>8, <1>9, <1>10, UcFrame, HoldersFinite DEF UcStop, CoreInv

\* With the return of Stop the framework gives its hold up, which may free the driver.
LEMMA UcStopSuperInv ==
  ASSUME StackInv, NEW c \in Clients, UcStopSuper(c)
  PROVE  CoreInv'
<1> USE DEF StackInv
<1>1. uc \in [Clients -> UcStates] /\ uc[c] = "super_stop" /\ registered
  BY DEF UcStopSuper, StackTypeOK, UcTypeOK, UcInv
<1>2. pc # "matched"
  BY <1>1 DEF PhaseInv, RegisteredAt
<1>3. ServiceRef' = ServiceRef /\ ServiceRef \in {0, 1}
  BY DEF UcStopSuper, ServiceRef
<1>4. UcTypeOK' /\ UcInv'
  BY <1>1 DEF UcStopSuper, StackTypeOK, UcTypeOK, UcInv
<1>5. Connected' = Connected
  BY DEF UcStopSuper, Connected
<1>6. InHandler' = InHandler \ {c} /\ c \in InHandler
  BY <1>1 DEF UcStopSuper, InHandler
<1>7. IsFiniteSet(InHandler') /\ Cardinality(InHandler') = Cardinality(InHandler) - 1
  BY <1>6, HoldersFinite, FS_RemoveElement
<1>8. retainCount' = ServiceRef' + Cardinality(InHandler') + Cardinality(Connected')
  BY <1>3, <1>5, <1>7, HoldersFinite DEF UcStopSuper, release, RefsInv
<1>9. release /\ retainCount # 0
  <2>1. Cardinality(InHandler) # 0
    BY <1>6, HoldersFinite, FS_EmptySet
  <2> QED
    BY <1>3, <2>1, HoldersFinite DEF UcStopSuper, RefsInv
<1> QED
  BY <1>2, <1>4, <1>5, <1>7, <1>8, <1>9, UcFrame, HoldersFinite DEF UcStopSuper, CoreInv

-----------------------------------------------------------------------------
(* Steps of the test clients, and all steps together. *)

\* Every way through main(), and every way out of it, lets go of the handle,
\* and IOServiceOpen succeeds only on a driver that was registered.
LEMMA TcInvStep ==
  ASSUME StackInv, NEW c \in Clients, TcStep(c) \/ TcKilled(c) \/ TcReap(c)
  PROVE  StackInv'
<1> USE DEF StackInv
<1>1. CASE TcMatch(c)
  BY <1>1, CoreKept
     DEF TcMatch, TcGoto, StackTypeOK, CoreInv, TcTypeOK, TcInv, driverVars
<1>2. CASE TcFind(c)
  BY <1>2, CoreKept DEF TcFind, TcGoto, StackTypeOK, CoreInv, TcTypeOK, TcInv, Published, driverVars,
     DriverTypeOK
<1>3. CASE TcOpen(c)
  <2>1. CoreInv'
    BY <1>3, CoreKept, UcCreateInv DEF TcOpen
  <2>2. registered' = registered
    BY <1>3 DEF TcOpen, UcCreate, driverVars
  <2>3. TcTypeOK' /\ TcInv'
    BY <1>3, <2>2 DEF TcOpen, TcGoto, StackTypeOK, TcTypeOK, TcInv
  <2> QED
    BY <2>1, <2>3 DEF CoreInv, StackTypeOK
<1>4. CASE TcOpenReturn(c)
  <2>1. uc[c] # "none" /\ registered
    BY <1>4 DEF TcOpenReturn, UcInv
  <2> QED
    BY <1>4, <2>1, CoreKept
       DEF TcOpenReturn, TcGoto, StackTypeOK, CoreInv, TcTypeOK, TcInv, driverVars
<1>5. CASE TcRelease(c)
  BY <1>5, CoreKept DEF TcRelease, TcGoto, StackTypeOK, CoreInv, TcTypeOK, TcInv, driverVars
<1>6. CASE TcClose(c)
  BY <1>6, UcCloseInv
     DEF TcClose, UcClose, TcGoto, StackTypeOK, CoreInv, TcTypeOK, TcInv, driverVars
<1>7. CASE TcKilled(c)
  BY <1>7, CoreKept DEF TcKilled, StackTypeOK, CoreInv, TcTypeOK, TcInv, driverVars
<1>8. CASE TcReap(c)
  BY <1>8, UcCloseInv
     DEF TcReap, UcClose, StackTypeOK, CoreInv, TcTypeOK, TcInv, driverVars, tcVars
<1> QED
  BY <1>1, <1>2, <1>3, <1>4, <1>5, <1>6, <1>7, <1>8 DEF TcStep

\* A user client's own step, with the test clients as they were.
LEMMA UcStepInv ==
  ASSUME StackInv, NEW c \in Clients, UcStep(c), UNCHANGED tcVars
  PROVE  StackInv'
<1>1. CoreInv'
  BY UcStartInv, UcStartReturnInv, UcCloseInv, UcStopInv, UcStopSuperInv DEF UcStep, UcTerminate
<1>2. registered' = registered
  BY DEF UcStep, UcStart, UcStartReturn, UcTerminate, UcClose, UcStop, UcStopSuper, driverVars
<1>3. TcTypeOK' /\ TcInv'
  BY <1>2 DEF StackInv, StackTypeOK, TcTypeOK, TcInv, tcVars
<1> QED
  BY <1>1, <1>3 DEF CoreInv, StackInv, StackTypeOK

\* Every step of the stack preserves the invariant.
LEMMA StepInv == StackInv /\ [StackNext]_stackVars => StackInv'
<1> SUFFICES ASSUME StackInv, [StackNext]_stackVars PROVE StackInv'
  OBVIOUS
<1>1. CASE (DriverStep \/ ServiceTerminate) /\ UNCHANGED <<ucVars, tcVars>>
  BY <1>1, StartInv, StopInv, ServiceInv DEF DriverStep
<1>2. ASSUME NEW c \in Clients, UcStep(c) /\ UNCHANGED tcVars
      PROVE  StackInv'
  BY <1>2, UcStepInv
<1>3. ASSUME NEW c \in Clients, TcStep(c) \/ TcKilled(c) \/ TcReap(c)
      PROVE  StackInv'
  BY <1>3, TcInvStep
<1>4. CASE UNCHANGED stackVars
  <2>1. CoreInv' /\ UNCHANGED tcVars /\ UNCHANGED registered
    BY <1>4, CoreKept DEF stackVars, driverVars
  <2> QED
    BY <2>1 DEF CoreInv, StackInv, StackTypeOK, TcTypeOK, TcInv, tcVars
<1> QED
  BY <1>1, <1>2, <1>3, <1>4 DEF StackNext

\* The invariant holds throughout every run of the stack.
THEOREM Invariance == StackSpec => []StackInv
  BY InitInv, StepInv, PTL DEF StackSpec

-----------------------------------------------------------------------------
(* The safety properties of the stack. *)

\* The values of the stack's variables stay within their types.
THEOREM TypeCorrect == StackSpec => []StackTypeOK
  BY Invariance, PTL DEF StackInv

\* Ownership lies within the device's life, that within the PCI session, and
\* that within the shim's, in every state of Start, of its clean-up and of Stop.
THEOREM ResourcesNested == StackSpec => []NestedResources
<1>1. StackInv => NestedResources
  BY DEF StackInv, ResourceInv, NestedResources, OwnedAt, LiveAt, OpenAt, ShimAt
<1> QED
  BY <1>1, Invariance, PTL

\* No device is used after it was freed or freed twice, no PCI session closed
\* twice, no shim torn down that was not set up.
THEOREM NothingMisused == StackSpec => []NoMisuse
<1>1. StackInv => NoMisuse
  BY DEF StackInv, ResourceInv, NoMisuse
<1> QED
  BY <1>1, Invariance, PTL

\* A service that can be found has its device allocated and owned.
THEOREM PublishedReady == StackSpec => []PublishedIsReady
<1>1. ASSUME StackInv PROVE PublishedIsReady
  BY <1>1 DEF StackInv, ResourceInv, PhaseInv, PublishedIsReady, Published, OwnedAt, LiveAt,
              RegisteredAt
<1> QED
  BY <1>1, Invariance, PTL

\* The reference count is the number of holders; the object is freed with the last.
THEOREM ReferencesAccounted == StackSpec => []RefsAccounted
<1>1. StackInv => RefsAccounted
  BY DEF StackInv, RefsInv, RefsAccounted
<1> QED
  BY <1>1, Invariance, PTL

\* A holder makes the reference count positive, so the object is there.
LEMMA HolderMeansAlive == StackInv /\ InHandler \cup Connected # {} => object = "alive"
<1> SUFFICES ASSUME StackInv, InHandler \cup Connected # {} PROVE object = "alive"
  OBVIOUS
<1>1. Cardinality(InHandler) # 0 \/ Cardinality(Connected) # 0
  BY HoldersFinite, FS_EmptySet
<1>2. ServiceRef \in {0, 1}
  BY DEF ServiceRef
<1>3. retainCount # 0
  BY <1>1, <1>2, HoldersFinite DEF StackInv, RefsInv
<1> QED
  BY <1>3 DEF StackInv, RefsInv, StackTypeOK, DriverTypeOK

\* The same in the next state.
LEMMA HolderMeansAliveNext == StackInv' /\ InHandler' \cup Connected' # {} => object' = "alive"
<1>1. (StackInv /\ InHandler \cup Connected # {} => object = "alive")'
  BY HolderMeansAlive, PTL
<1> QED
  BY <1>1

\* No user client ever has a pointer to a freed driver, in its Start, between Start and
\* Stop, or in its Stop, whatever the order of connections, terminations and deaths.
THEOREM DriverPinned == StackSpec => []ClientPinsDriver
<1>1. StackInv => ClientPinsDriver
  BY HolderMeansAlive DEF ClientPinsDriver
<1> QED
  BY <1>1, Invariance, PTL

\* A freed driver has left no device and no PCI session, and if it had been
\* registered no shim.
THEOREM CleanEnd == StackSpec => []NothingLeftBehind
<1>1. ASSUME StackInv, object = "freed"
      PROVE  pc = "released"
  BY <1>1, HoldersFinite DEF StackInv, RefsInv, ServiceRef
<1>2. StackInv => NothingLeftBehind
  BY <1>1 DEF StackInv, ResourceInv, PhaseInv, NothingLeftBehind, OwnedAt, LiveAt, OpenAt
<1> QED
  BY <1>2, Invariance, PTL

\* main() never ends with a service handle in its hands, and opens registered drivers only.
THEOREM HandlesGivenBack == StackSpec => []HandlesBalanced
<1>1. StackInv => HandlesBalanced
  BY DEF StackInv, TcInv, HandlesBalanced
<1> QED
  BY <1>1, Invariance, PTL

-----------------------------------------------------------------------------
(* The refinement: every step of the driver stack is a step of the abstract *)
(* DriverService, or leaves it where it was.                               *)

ServiceVars == <<Phase, Starting, Sessions>>

\* What the names of the abstract service stand for here.
LEMMA Mapping ==
  /\ Service!serviceVars = ServiceVars
  /\ Service!ServiceInit <=> Phase = "starting" /\ Starting = {} /\ Sessions = {}
BY DEF Service!serviceVars, Service!ServiceInit, ServiceVars

\* Clients that no step touches stay where they are in the abstract service.
LEMMA MembersUnchanged ==
  ASSUME UNCHANGED ucVars
  PROVE  UNCHANGED <<Starting, Sessions>>
BY DEF Starting, Sessions, ucVars

\* Each of its members is accounted for by a reference, so a service that has none
\* has no members.
LEMMA MembersHold ==
  Starting \cup Sessions \subseteq InHandler \cup Connected
BY DEF Starting, Sessions, InHandler, Connected

LEMMA MembersHoldNext ==
  Starting' \cup Sessions' \subseteq InHandler' \cup Connected'
BY DEF Starting, Sessions, InHandler, Connected

\* The abstract phase at each place of the driver's pc.
PhaseFact ==
  StackInv /\ object # "freed" =>
    /\ terminating => Phase = "closing"
    /\ ~terminating /\ pc \in {"started", "running"} => Phase = "serving"
    /\ ~terminating /\ pc \in ({"matched"} \cup StartSteps) \ {"started"} => Phase = "starting"
    /\ pc \in FailSteps \cup StopSteps \cup {"failed", "stopped", "released"}
         => Phase = "closing"

LEMMA PhaseAt == PhaseFact
BY DEF PhaseFact, Phase, Published, StackInv, PhaseInv, RegisteredAt, StartSteps, FailSteps,
       StopSteps

\* The same in the next state.
LEMMA PhaseAtNext == PhaseFact'
BY PhaseAt, PTL

\* Until the framework gives its reference up the object is there.
FreedFact == StackInv /\ object = "freed" => pc = "released"

LEMMA FreedAt == FreedFact
BY HoldersFinite DEF FreedFact, StackInv, RefsInv, ServiceRef

LEMMA FreedAtNext == FreedFact'
BY FreedAt, PTL

\* A step of Start or Stop publishes or withdraws the service, or does neither.
LEMMA DriverSimulates ==
  ASSUME StackInv, StackInv', Start \/ Stop \/ ServiceTerminate \/ ServiceStop,
         UNCHANGED <<ucVars, tcVars>>
  PROVE  Service!ServiceNext \/ UNCHANGED ServiceVars
<1>1. UNCHANGED <<Starting, Sessions>>
  BY MembersUnchanged
<1>2. UNCHANGED object /\ (object = "freed" => UNCHANGED Phase)
  <2>1. UNCHANGED object
    BY DEF Start, Stop, ServiceTerminate, ServiceStop, StartSuper, StartCast, StartShimInit,
           StartOpen, StartAllocate, StartGrab, StartRegister, StartReturn, FailAfterAlloc,
           FailAfterOpen, Fail, StopReleaseOwnership, StopFreeDevice, StopClose, StopTeardown,
           StopSuper
  <2> QED
    BY <2>1 DEF Phase
<1>3. ASSUME object # "freed"
      PROVE  \/ UNCHANGED Phase
             \/ Phase = "starting" /\ Phase' \in {"serving", "closing"}
             \/ Phase = "serving" /\ Phase' = "closing"
  <2>1. CASE Start
    <3>1. /\ UNCHANGED terminating
          /\ pc \in StartSteps \cup FailSteps
          /\ pc \in FailSteps => pc' \in FailSteps \cup {"failed"}
          /\ pc = "started" => pc' = "running"
          /\ pc' \in StartSteps \cup FailSteps \cup {"running", "failed"}
          /\ pc' = "running" => pc = "started"
      BY <2>1 DEF Start, StartSuper, StartCast, StartShimInit, StartOpen, StartAllocate, StartGrab,
             StartRegister, StartReturn, FailAfterAlloc, FailAfterOpen, Fail, Goto, StartSteps,
             FailSteps
    <3> QED
      BY <1>2, <1>3, <3>1, PhaseAt, PhaseAtNext DEF PhaseFact, StartSteps, FailSteps, StopSteps
  <2>2. CASE Stop \/ ServiceStop \/ ServiceTerminate
    <3>1. terminating'
      BY <2>2 DEF Stop, ServiceStop, ServiceTerminate, StopReleaseOwnership, StopFreeDevice, StopClose,
             StopTeardown, StopSuper, Goto, StackInv, PhaseInv, StopSteps
    <3>2. Phase' = "closing"
      BY <1>2, <1>3, <3>1, PhaseAtNext DEF PhaseFact
    <3>3. Phase \in {"starting", "serving", "closing"}
      BY <1>3 DEF Phase
    <3> QED
      BY <3>2, <3>3
  <2> QED
    BY <2>1, <2>2
<1>4. Service!Publish \/ Service!Withdraw \/ UNCHANGED ServiceVars
  BY <1>1, <1>2, <1>3 DEF Service!Publish, Service!Withdraw, ServiceVars
<1> QED
  BY <1>4 DEF Service!ServiceNext

\* Creation may fail, and the last reference may be the framework's.
LEMMA ServiceSimulates ==
  ASSUME StackInv, StackInv', ServiceCreate \/ ServiceDetach, UNCHANGED <<ucVars, tcVars>>
  PROVE  Service!ServiceNext \/ UNCHANGED ServiceVars
<1>1. UNCHANGED <<Starting, Sessions>>
  BY MembersUnchanged
<1>2. CASE ServiceCreate
  <2>1. object # "freed" /\ Phase = "starting"
    BY <1>2, FreedAt, PhaseAt
       DEF FreedFact, PhaseFact, ServiceCreate, StackInv, PhaseInv, RefsInv
  <2>2. Phase' \in {"starting", "gone"}
    BY <1>2, <2>1, PhaseAtNext DEF PhaseFact, ServiceCreate, Phase, StackInv, PhaseInv, StartSteps
  <2> QED
    BY <1>1, <2>1, <2>2 DEF Service!ServiceNext, Service!Discard, ServiceVars
<1>3. CASE ServiceDetach
  <2>1. object # "freed" /\ Phase = "closing"
    BY <1>3, FreedAt, PhaseAt DEF FreedFact, PhaseFact, ServiceDetach
  <2>2. CASE object' = "freed"
    <3>1. Cardinality(InHandler) + Cardinality(Connected) = 0
      BY <1>3, <2>2, HoldersUnchanged, HoldersFinite
         DEF StackInv, RefsInv, ServiceRef, ServiceDetach
    <3>2. Starting = {} /\ Sessions = {}
      BY <3>1, HoldersFinite, FS_EmptySet, MembersHold
    <3>3. Phase' = "gone"
      BY <2>2 DEF Phase
    <3> QED
      BY <1>1, <2>1, <3>2, <3>3 DEF Service!ServiceNext, Service!Retire
  <2>3. CASE object' # "freed"
    <3>1. Phase' = "closing"
      BY <1>3, <2>3, PhaseAtNext DEF PhaseFact, ServiceDetach
    <3> QED
      BY <1>1, <2>1, <3>1 DEF ServiceVars
  <2> QED
    BY <2>2, <2>3
<1> QED
  BY <1>2, <1>3

\* A release may retire a closing service, and then nobody is left in it.
LEMMA ReleaseRetires ==
  ASSUME StackInv, StackInv', release, UNCHANGED <<pc, registered, terminating>>, object # "freed"
  PROVE  Service!MayRetire
<1>1. CASE object' = "freed"
  <2>1. Cardinality(InHandler') + Cardinality(Connected') = 0
    BY <1>1, HoldersFiniteNext DEF StackInv, RefsInv, ServiceRef
  <2>2. Starting' = {} /\ Sessions' = {}
    BY <2>1, HoldersFiniteNext, FS_EmptySet, MembersHoldNext
  <2>3. Phase = "closing"
    BY <1>1, FreedAtNext, PhaseAt DEF FreedFact, PhaseFact
  <2>4. Phase' = "gone"
    BY <1>1 DEF Phase
  <2> QED
    BY <2>2, <2>3, <2>4 DEF Service!MayRetire
<1>2. CASE object' # "freed"
  <2>1. UNCHANGED Phase
    BY <1>2 DEF Phase, Published
  <2> QED
    BY <2>1 DEF Service!MayRetire
<1> QED
  BY <1>1, <1>2

\* A connection that is asked to close, or a step of main() alone, is invisible: the
\* session lasts until Stop has returned.
LEMMA Invisible ==
  ASSUME StackInv, NEW c \in Clients, UcClose(c) \/ UNCHANGED <<driverVars, ucVars>>
  PROVE  UNCHANGED ServiceVars
<1>1. uc \in [Clients -> UcStates]
  BY DEF StackInv, StackTypeOK, UcTypeOK
<1>2. CASE uc[c] = "connected" /\ UcClose(c)
  <2>1. m_driver[c]
    BY <1>2 DEF StackInv, UcInv
  <2>2. Starting' = Starting /\ Sessions' = Sessions
    BY <1>1, <1>2, <2>1 DEF UcClose, Starting, Sessions
  <2>3. UNCHANGED Phase
    BY <1>2 DEF UcClose, retain, Phase, Published
  <2> QED
    BY <2>2, <2>3 DEF ServiceVars
<1>3. CASE UNCHANGED <<driverVars, ucVars>>
  BY <1>3, MembersUnchanged DEF Phase, Published, driverVars, ServiceVars
<1> QED
  BY <1>2, <1>3 DEF UcClose

\* A user client whose handler still runs keeps the phase, whatever it retains or releases.
LEMMA PhaseKept ==
  ASSUME StackInv, StackInv', NEW c \in InHandler, c \in InHandler',
         UNCHANGED <<pc, registered, terminating>>
  PROVE  UNCHANGED Phase
BY HolderMeansAlive, HolderMeansAliveNext DEF Phase, Published

\* A user client joins while it is pending and leaves when its Stop has returned.
LEMMA UcSimulates ==
  ASSUME StackInv, StackInv', NEW c \in Clients, UcStep(c)
  PROVE  Service!ServiceNext \/ UNCHANGED ServiceVars
<1> USE DEF InStart, InStop
<1>1. uc \in [Clients -> UcStates] /\ m_driver \in [Clients -> BOOLEAN]
  BY DEF StackInv, StackTypeOK, UcTypeOK
<1>2. CASE UcStart(c)
  <2>1. c \in Starting /\ c \notin Sessions /\ Starting' = Starting
    BY <1>1, <1>2 DEF UcStart, Starting, Sessions, StackInv, UcInv
  <2>2. UNCHANGED Phase
    <3>1. c \in InHandler /\ c \in InHandler'
      BY <1>1, <1>2 DEF UcStart, InHandler
    <3> QED
      BY <1>2, <3>1, PhaseKept DEF UcStart
  <2>3. Sessions' = Sessions \/ Sessions' = Sessions \cup {c}
    <3>1. PICK isDriver \in BOOLEAN : m_driver' = [m_driver EXCEPT ![c] = isDriver]
      BY <1>2 DEF UcStart
    <3>2. \A d \in Clients : uc'[d] \in InStop <=> uc[d] \in InStop
      BY <1>1, <1>2 DEF UcStart
    <3>3. CASE isDriver
      BY <1>1, <3>1, <3>2, <3>3 DEF Sessions
    <3>4. CASE ~isDriver
      BY <1>1, <2>1, <3>1, <3>2, <3>4 DEF Sessions
    <3> QED
      BY <3>3, <3>4
  <2> QED
    BY <2>1, <2>2, <2>3 DEF Service!ServiceNext, Service!Join, ServiceVars
<1>3. CASE UcStartReturn(c)
  <2>1. c \in Starting /\ Starting' = Starting \ {c} /\ Sessions' = Sessions
    BY <1>1, <1>3 DEF UcStartReturn, Starting, Sessions
  <2>2. c \in InHandler
    BY <2>1 DEF Starting, InHandler
  <2>3. Service!MayRetire
    BY <1>3, <2>2, HolderMeansAlive, ReleaseRetires DEF UcStartReturn
  <2> QED
    BY <2>1, <2>3 DEF Service!ServiceNext, Service!Settle
<1>4. CASE UcTerminate(c)
  BY <1>4, Invisible DEF UcTerminate
<1>5. CASE UcStop(c)
  <2>1. c \in InHandler /\ c \in InHandler'
    BY <1>1, <1>5 DEF UcStop, InHandler
  <2>2. UNCHANGED Phase
    BY <1>5, <2>1, PhaseKept DEF UcStop
  <2>3. Starting' = Starting /\ Sessions' = Sessions
    BY <1>1, <1>5 DEF UcStop, Sessions, Starting
  <2> QED
    BY <2>2, <2>3 DEF ServiceVars
<1>6. CASE UcStopSuper(c)
  <2>1. c \in Sessions /\ c \notin Starting /\ c \in InHandler
    BY <1>1, <1>6 DEF UcStopSuper, Sessions, Starting, InHandler
  <2>2. Sessions' = Sessions \ {c} /\ Starting' = Starting
    BY <1>1, <1>6 DEF UcStopSuper, Sessions, Starting, StackInv, UcInv
  <2>3. Service!MayRetire
    BY <1>6, <2>1, HolderMeansAlive, ReleaseRetires DEF UcStopSuper
  <2> QED
    BY <2>1, <2>2, <2>3 DEF Service!ServiceNext, Service!Leave
<1> QED
  BY <1>2, <1>3, <1>4, <1>5, <1>6 DEF UcStep

\* A test client is let in by IOServiceOpen, and only by it.
LEMMA TcSimulates ==
  ASSUME StackInv, NEW c \in Clients, TcStep(c) \/ TcKilled(c) \/ TcReap(c)
  PROVE  Service!ServiceNext \/ UNCHANGED ServiceVars
<1>1. CASE TcOpen(c) /\ UcCreate(c, TRUE)
  <2>1. Published /\ UNCHANGED <<object, registered, terminating>>
    BY <1>1 DEF UcCreate, retain
  <2>2. Phase = "serving" /\ Phase' = "serving"
    BY <2>1, FreedAt DEF FreedFact, Phase, Published, StackInv, PhaseInv
  <2>3. c \notin Starting /\ Starting' = Starting \cup {c} /\ Sessions' = Sessions
    BY <1>1 DEF UcCreate, Starting, Sessions, InStart, StackInv, StackTypeOK, UcTypeOK
  <2> QED
    BY <2>2, <2>3 DEF Service!ServiceNext, Service!Admit
<1>2. CASE TcOpen(c) /\ UcCreate(c, FALSE)
  <2>1. Starting' = Starting /\ Sessions' = Sessions
    BY <1>2 DEF UcCreate, Starting, Sessions, InStart, StackInv, StackTypeOK, UcTypeOK
  <2>2. UNCHANGED Phase
    BY <1>2 DEF UcCreate, Phase, Published
  <2> QED
    BY <2>1, <2>2 DEF ServiceVars
<1>3. CASE ~TcOpen(c) \/ UNCHANGED <<driverVars, ucVars>>
  BY <1>3, Invisible
     DEF TcStep, TcMatch, TcFind, TcOpenReturn, TcRelease, TcClose, TcKilled, TcReap
<1> QED
  BY <1>1, <1>2, <1>3 DEF TcOpen

\* Every step of the stack is a step of the abstract service or invisible to it.
LEMMA StepSimulates ==
  StackInv /\ StackInv' /\ [StackNext]_stackVars => [Service!ServiceNext]_Service!serviceVars
<1> SUFFICES ASSUME StackInv, StackInv', [StackNext]_stackVars
             PROVE  Service!ServiceNext \/ UNCHANGED ServiceVars
  BY Mapping DEF Service!serviceVars, ServiceVars
<1>1. CASE (DriverStep \/ ServiceTerminate) /\ UNCHANGED <<ucVars, tcVars>>
  BY <1>1, DriverSimulates, ServiceSimulates DEF DriverStep
<1>2. ASSUME NEW c \in Clients, UcStep(c) /\ UNCHANGED tcVars
      PROVE  Service!ServiceNext \/ UNCHANGED ServiceVars
  BY <1>2, UcSimulates
<1>3. ASSUME NEW c \in Clients, TcStep(c) \/ TcKilled(c) \/ TcReap(c)
      PROVE  Service!ServiceNext \/ UNCHANGED ServiceVars
  BY <1>3, TcSimulates
<1>4. CASE UNCHANGED stackVars
  BY <1>4, MembersUnchanged DEF stackVars, driverVars, ServiceVars, Phase, Published
<1> QED
  BY <1>1, <1>2, <1>3, <1>4 DEF StackNext

\* The stack implements the safety part of the abstract service: no client gets
\* in unless the service is published, none outlives the driver, and nothing
\* comes back once it is gone.
THEOREM StackImplementsService ==
  StackSpec => Service!ServiceInit /\ [][Service!ServiceNext]_Service!serviceVars
<1>1. StackInit => Service!ServiceInit
  <2> SUFFICES ASSUME StackInit PROVE Phase = "starting" /\ Starting = {} /\ Sessions = {}
    BY Mapping
  <2>1. Starting = {} /\ Sessions = {}
    BY DEF StackInit, UcInit, Starting, Sessions, InStart
  <2>2. Phase = "starting"
    BY DEF StackInit, DriverInit, Phase, Published
  <2> QED
    BY <2>1, <2>2
<1> QED
  BY <1>1, Invariance, StepSimulates, PTL DEF StackSpec
=============================================================================
