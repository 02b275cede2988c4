CONSTANTS
  B = 2
  BitAnd <- AndOf
  BitOr <- OrOf
  BitXor <- XorOf
  NREGS = 5
  R_V0 = 2
  R_T7 = 3
  R_RA = 4
  GRANULES = 4
  InitialHiLo = {7}
  TextStart = 64
  Straddling <- Straddles
  MaxCycles = 20
  Programs <- MCPrograms
  InitialRegs <- MCInitialRegs
SPECIFICATION RetireSpec
INVARIANTS
  ScoreboardSound
PROPERTIES
  ImplementsSeqMachine
  ExitStops
  JalrTargets
  OnlyStoreBehindHalt
