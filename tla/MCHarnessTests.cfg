CONSTANTS
  B = 2
  BitAnd <- AndOf
  BitOr <- OrOf
  BitXor <- XorOf
  NREGS = 11
  R_V0 = 2
  R_T7 = 3
  R_RA = 4
  GRANULES = 4
  InitialHiLo = {0}
  TextStart = 64
  Straddling <- Straddles
  MaxCycles = 80
  Programs <- TestPrograms
  Suites <- TestSuites
  InitialRegs <- MCInitialRegs
SPECIFICATION FairHarness
INVARIANTS
  TestsPass
PROPERTIES
  SuiteEnds
