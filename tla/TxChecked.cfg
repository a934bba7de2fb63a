CONSTANTS
  NoTx = NoTx
  NoBinder = NoBinder
  NoService = "None"
  Fuzzer = "fuzzer"
  MaxUsed = 2
  MaxDepth = 6
  Name <- CheckedTx
  Tx <- CheckedTx
  Struct = {}
  Target = {"a", "b", "c", "d"}
  Iface = {"IManager"}
  Service = {"manager"}
  ifaceOf <- CheckedIface
  serviceOf <- CheckedService
  ifaceDeps <- CheckedIfaceDeps
  items <- CheckedItems
  structDeps <- NoStruct
  Stub = {}
  CoinFlip = {}
  HarnessOnly = {}
SPECIFICATION Spec
INVARIANTS NoReentrance ValuesAreShallow
