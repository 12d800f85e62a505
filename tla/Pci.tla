--------------------------------- MODULE Pci ---------------------------------
(***************************************************************************)
(* The wrappers of linux/pci.h around IOPCIDevice.  Each is given the      *)
(* pci_dev it is called with and whether IOPCIDevice's method would        *)
(* succeed, and yields whether it calls the method and what it returns.    *)
(***************************************************************************)
EXTENDS Conversions

\* What a pci_dev pointer may be: NULL, a struct without a device, one with.
PciDevs == {"NULL", "empty", "device"}

\* The common form: arguments are validated, then the method's kern_return_t
\* becomes an errno of Linux.
Wrapper(valid, succeeds) ==
  [called |-> valid,
   returned |-> IF ~valid THEN -EINVAL ELSE IF succeeds THEN 0 ELSE -EIO]

\* A stub: DriverKit matches devices.
pci_get_device == 0

pci_enable_device(dev, succeeds) == Wrapper(dev = "device", succeeds)

\* Returns nothing; the device is closed also when it was never opened.
pci_disable_device(dev) == [called |-> dev = "device"]

pci_read_config_dword(dev, valIsNull, succeeds) ==
  Wrapper(dev = "device" /\ ~valIsNull, succeeds)

pci_write_config_dword(dev, succeeds) == Wrapper(dev = "device", succeeds)
=============================================================================
