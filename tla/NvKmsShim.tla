------------------------------ MODULE NvKmsShim ------------------------------
(***************************************************************************)
(* The nvKms shim (nvkms_macos_shim.cpp): the C functions through which    *)
(* the driver reaches the OS-independent modesetting library.  One device  *)
(* is tracked, since the driver allocates at most one.                     *)
(*                                                                         *)
(* The simulated shim can fail only in malloc.  The driver, however, is    *)
(* written against the prototypes of nvkms_macos_shim.h and branches on    *)
(* every result, so ShimFaults chooses which calls may report failure:     *)
(* {"allocate"} is the simulated shim, the full set is any library that    *)
(* fits those prototypes.                                                  *)
(***************************************************************************)
EXTENDS Integers

CONSTANT ShimFaults

ASSUME ShimFaultsAssumption == ShimFaults \subseteq {"init", "allocate", "grab"}

VARIABLES
  shimInits,   \* successful nvkms_shim_init calls less nvkms_shim_teardown calls
  device       \* the NvKmsKapiDevice object in the heap

shimVars == <<shimInits, device>>

GpuIds == {"id", "placeholder"}

\* "corrupt" records that freed or never allocated memory was used as a device.
Device == [life : {"none", "live", "freed", "corrupt"},
           gpuId : GpuIds \cup {"none"},
           ownership_grabbed : BOOLEAN]

NoDevice == [life |-> "none", gpuId |-> "none", ownership_grabbed |-> FALSE]

ShimTypeOK ==
  /\ shimInits \in Int
  /\ device \in Device

ShimInit ==
  /\ shimInits = 0
  /\ device = NoDevice

\* What the heap object becomes when a call uses it as a live device.
Used(new) == IF device.life = "live" THEN new ELSE [device EXCEPT !.life = "corrupt"]

nvkms_shim_init(ok) ==
  /\ ok \/ "init" \in ShimFaults
  /\ shimInits' = IF ok THEN shimInits + 1 ELSE shimInits
  /\ UNCHANGED device

nvkms_shim_teardown ==
  /\ shimInits' = shimInits - 1
  /\ UNCHANGED device

nvkms_shim_allocate_device(gpuId, ok) ==
  /\ ok \/ "allocate" \in ShimFaults
  /\ device' = IF ok THEN [life |-> "live", gpuId |-> gpuId, ownership_grabbed |-> FALSE]
                     ELSE device
  /\ UNCHANGED shimInits

\* pDevice is TRUE when the pointer passed is not NULL; NULL is tolerated.
nvkms_shim_free_device(pDevice) ==
  /\ device' = IF pDevice
               THEN Used([life |-> "freed", gpuId |-> "none", ownership_grabbed |-> FALSE])
               ELSE device
  /\ UNCHANGED shimInits

nvkms_shim_grab_ownership(pDevice, ok) ==
  /\ ok => pDevice
  /\ ok \/ ~pDevice \/ "grab" \in ShimFaults
  /\ device' = IF ok THEN Used([device EXCEPT !.ownership_grabbed = TRUE]) ELSE device
  /\ UNCHANGED shimInits

nvkms_shim_release_ownership(pDevice) ==
  /\ device' = IF pDevice THEN Used([device EXCEPT !.ownership_grabbed = FALSE]) ELSE device
  /\ UNCHANGED shimInits
=============================================================================
