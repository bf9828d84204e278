CONSTANTS
  Records <- MCRecords
  Procs <- MCProcs
  Sites <- MCSites
  News <- MCNews
  Tests <- MCTests
  Stores <- MCStores
  Puts <- MCPuts
  Calls <- MCCalls
  SigMax = 33
  MaxObjects = 2
  MaxFrames = 4
SPECIFICATION Spec
INVARIANTS
  Denoted
  TestsRight
  GuardsRight
CHECK_DEADLOCK FALSE
