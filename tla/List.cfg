CONSTANTS
  Heads = {h1, h2}
  Nodes = {n1, n2, n3}
  NULL = NULL
SPECIFICATION FairSpec
INVARIANTS TypeOK WellLinked NoNullWalk WalkComplete
PROPERTIES OperationsKeepContents VisitsOnce WalkEnds
CHECK_DEADLOCK FALSE
