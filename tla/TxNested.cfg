CONSTANTS
  NoTx = NoTx
  NoBinder = NoBinder
  NoService = "None"
  Fuzzer = "fuzzer"
  MaxUsed = 2
  MaxDepth = 8
  Name <- NestedName
  Tx <- NestedTx
  Struct = {"Info"}
  Target = {"open", "call", "list"}
  Iface = {"IManager", "ISession", "IRegistry"}
  Service = {"manager", "registry"}
  ifaceOf <- NestedIface
  serviceOf <- NestedService
  ifaceDeps <- NestedIfaceDeps
  items <- NestedItems
  structDeps <- NestedStructDeps
  Stub = {"ISession", "IRegistry"}
  CoinFlip = {"ISession"}
  HarnessOnly = {"IRegistry"}
SPECIFICATION FairSpec
INVARIANTS MarksArePending SentToItsService
PROPERTIES LoopSpec IterationsEnd
