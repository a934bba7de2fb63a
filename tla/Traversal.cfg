CONSTANTS
  Parcel <- MCParcel
  Message = {"flat", "list", "nest", "deep", "row", "pair", "info"}
  Loop = {"l1", "l2", "l3"}
  items <- MCItems
  NoParcel = NoParcel
  MaxLoop = 1
  MaxArray = 2
SPECIFICATION Spec
INVARIANTS InSourceOrder DependencyExact StructureCopied
CHECK_DEADLOCK FALSE
