CONSTANTS
  B = 2
  BitAnd <- AndOf
  BitOr <- OrOf
  BitXor <- XorOf
  GRANULES = 4
  MEM_REGIONS <- MCRegions
  MEM_TEXT_START = 16
  Unmatched = Unmatched
  Missing = Missing
  Garbage = {0, 27}
  CommandLines <- MCCommandLines
  Dumps <- MCDumps
  SWs <- MCSWs
  Strays <- MCStrays
SPECIFICATION FairSpec
INVARIANTS
  TypeOK
  LoaderAndDumpInside
  TextIsLoaded
PROPERTIES
  ImplementsWordStore
  CommandsEnd
