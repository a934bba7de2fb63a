CONSTANTS
  Parcel <- MCParcel
  table <- MCTable
  items <- MCItems
  kind <- MCKind
  params <- MCParams
  Message = {"flat"}
  KeymasterBlob = "blob"
  Base = 3
  Ints = {0, 1, 3, 8}
  Sizes = {0, 1, 7}
  MaxArray = 2
  BlobLimit = 2
SPECIFICATION Spec
PROPERTY LengthFixed
CHECK_DEADLOCK FALSE
