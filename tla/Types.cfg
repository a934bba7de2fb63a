SPECIFICATION Spec
CONSTANTS
  Unit <- MCUnit
  Under <- MCUnder
  Promotion <- MCPromotion
  Fields <- MCFields
  Suffix <- MCSuffix
  Prefix <- MCPrefix
  LeftOut <- MCLeftOut
  System <- MCSystem
  Special = {}
  MaxExits = 1
INVARIANTS KindAsDeclared ValuesAsDeclared
CHECK_DEADLOCK FALSE
