SPECIFICATION Spec
CONSTANTS
  Accts = {inbound, outbound}
  Objects = {1, 2}
  Medium <- MediumDef
  Length <- LengthDef
  ZcoIds = {1, 2}
  LienIds = {1, 2}
  MaxExtents = 3
  MaxCapsules = 1
  Declares = {TRUE, FALSE}
  Delimits <- DelimitsDef
  ZcoSize = 1000
  CapsuleSize = 70
  ExtentSize = 60
  LienSize = 50
  RefSize <- RefSizeDef
  Limit <- LimitDef
SYMMETRY Symmetric
INVARIANTS
  AccountsExact
  StorageOwned
  ReadsInOrder
PROPERTIES
  
  CallsAsAsked
CHECK_DEADLOCK FALSE
