CONSTANTS
  ShimFaults = {"init", "allocate", "grab"}
  Clients = {c1, c2}
SPECIFICATION FairStackSpec
INVARIANTS StackTypeOK NestedResources NoMisuse PublishedIsReady RefsAccounted ClientPinsDriver NothingLeftBehind HandlesBalanced StackInv
PROPERTIES DriverFreed ConnectionsEnd ImplementsService
CHECK_DEADLOCK FALSE
