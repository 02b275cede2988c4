------------------------------ MODULE MCRetire ------------------------------
EXTENDS Retire, Assembler, MCWords

MCInitialRegs ==
  { [r \in Reg |-> CASE r = 1 -> 200 [] r = 2 -> 3 [] r = 3 -> 8 [] r = 4 -> 72 [] OTHER -> 0] }

\* Distances 1 to 3 between a producer and a consumer, two writers of one
\* register, instructions that name a register without writing it.
AluAlphabet ==
  { R3("ADD", 1, 1, 2), R3("SUBU", 2, 1, 1), Imm("ADDIU", 2, 1, 15), Imm("ORI", 1, 0, 5),
    Imm("SLTI", 0, 1, 3), Lui(2, 9), Cmp("BNE", 2, 2, 1) }

\* HI and LO: producers, consumers, division by zero and by minus one.
HiLoAlphabet ==
  { MulDivOf("MULT", 1, 2), MulDivOf("DIVU", 2, 1), MulDivOf("DIV", 1, 0), ToHiLo("MTHI", 2),
    ToHiLo("MTLO", 0), FromHiLo("MFHI", 2), FromHiLo("MFLO", 1) }

\* Branches taken and not, behind one another and behind a producer; links.
ControlAlphabet ==
  { Cmp("BGTZ", 2, 0, 15), BrZero("BGEZAL", 2, 2), BrZero("BLTZ", 1, 3),
    JumpTo("JAL", 72, 1), JumpReg(4), JumpLinkReg(4, 4), Imm("ADDIU", 2, 2, 13) }

\* Loads and stores of every size around producers and consumers, a SYSCALL
\* that stops the machine, an instruction nothing decodes.
MemoryAlphabet ==
  { Mem("LW", 1, 4, 0), Mem("LB", 2, 5, 0), Mem("SW", 1, 4, 0), Mem("SB", 2, 4, 3),
    Imm("ADDIU", 2, 1, 1), Syscall, Undefined(1, 2) }

\* JR to an address inside a word, 1, 2 or 3 bytes behind its beginning, where
\* fetch puts instructions together from two neighbouring words.
UnalignedAlphabet ==
  { Imm("ADDIU", 4, 4, 1), Imm("ADDIU", 4, 4, 14), JumpReg(4), Mem("SB", 4, 9, 0) }

MCPrograms ==
  { body \o Exit :
      body \in UNION {[1 .. 4 -> alphabet] :
                       alphabet \in {AluAlphabet, HiLoAlphabet, ControlAlphabet, MemoryAlphabet,
                                     UnalignedAlphabet}} }
=============================================================================
