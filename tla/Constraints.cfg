CONSTANTS
  len = len  x = x  y = y  z = z  ctr = ctr
  NoVar = NoVar
  Var <- MCVar
  Counter = {ctr}
  Value = {0, 1, 2}
  Part = {"0", "1", "2", "3", "4", "lhs", "rhs"}
  constraint <- MCConstraint
  node <- MCNode
  parcel <- MCParcel
  first = 2
  loop <- MCLoop
  under <- MCUnder
  TryBound = 2
SPECIFICATION FairSpec
INVARIANTS StatusFresh JunctionFresh AnswersAgree GuardsHold
PROPERTY Finishes
CHECK_DEADLOCK FALSE
