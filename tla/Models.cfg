CONSTANTS
  Bases <- MCBases
  Files <- MCFiles
  Items <- MCItems
  Vars <- MCVars
  Variables <- MCVariables
  Data <- MCData
  Reply <- MCReply
  ElementOf <- MCElementOf
  Useless <- MCUseless
  Implicit = {}
  Element <- MCElement
  Stem <- MCStem
  Similar = {}
  Basic <- MCBasic
  Vector = {}
  Blob = "Blob"
  Binder <- MCBinder
  Interface <- MCInterface
  Special <- MCSpecial
  MaxCrashes = 2
SPECIFICATION MCSpec
INVARIANTS Inferred SoundOnDisk InterfaceShared PathFound NoOtherPath LoopsNested NamesUnique GuardsKnown FoundAll
