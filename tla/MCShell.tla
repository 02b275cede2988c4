------------------------------ MODULE MCShell ------------------------------
EXTENDS Shell, Assembler, MCWords

MCInitialRegs ==
  { [r \in Reg |-> CASE r = 1 -> 200 [] r = 2 -> 3 [] r = 3 -> 8 [] r = 4 -> 72 [] OTHER -> 0] }

MCPrograms ==
  AllPrograms(2,
    { R3("ADD", 1, 1, 2), Imm("ADDIU", 2, 1, 15), Mem("LW", 1, 8, 0), Mem("SW", 1, 8, 0),
      Cmp("BNE", 1, 2, 1), MulDivOf("MULT", 1, 2), FromHiLo("MFHI", 1), ToHiLo("MTLO", 2) }, Exit)
  \cup AllPrograms(3,
    { R3("ADD", 1, 1, 2), Imm("ADDIU", 2, 1, 15), Mem("LW", 1, 8, 0), ToHiLo("MTHI", 1) }, Exit)
MCInputs == {<<0, 6>>, <<1, 9>>, <<2, 5>>}
=============================================================================
