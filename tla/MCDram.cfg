CONSTANTS
  B = 2
  BitAnd <- AndOf
  BitOr <- OrOf
  BitXor <- XorOf
  GRANULES = 4
  BANKS = 2
  ROWS = 2
  COLS = 2
  ROWSTRIDE = 1
  Addresses <- MCAddresses
  Values = {0, 180}
  MaxInits = 2
  Stray = {0, 3}
SPECIFICATION Spec
INVARIANTS
  TypeOK
PROPERTIES
  ImplementsGranuleMemory
