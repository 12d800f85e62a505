CONSTANTS
  ShimFaults = {"allocate"}
  Clients = {c1}
SPECIFICATION StackSpec
INVARIANTS ShimUnloaded
CHECK_DEADLOCK FALSE
