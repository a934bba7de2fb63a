SPECIFICATION MCSpec
CONSTANTS
  Parcel <- MCParcel
  table <- MCTable
  items <- MCItems
  kind <- MCKind
  params <- MCParams
  Message = {"loop", "strings", "vectors", "flat", "raw", "mixed", "call", "exits"}
  KeymasterBlob = "blob"
  Base = 3
  Ints = {0, 1, 3, 8}
  Sizes = {0, 1, 7}
  MaxArray = 2
  BlobLimit = 2
INVARIANTS InStep ItemCopied MemberCopied KnownIsSaid RawBytes
PROPERTIES ArraysSized
CHECK_DEADLOCK FALSE
