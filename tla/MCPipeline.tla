----------------------------- MODULE MCPipeline -----------------------------
(* Pipeline over programs that use every instruction class.                *)
EXTENDS Pipeline, Assembler, MCWords

\* Registers 1 and 2 hold INT_MIN and -1, so that DIV traps.
MCInitialRegs ==
  { [r \in Reg |-> CASE r = 1 -> 128 [] r = 2 -> 255 [] r = 3 -> 8 [] r = 4 -> 72 [] OTHER -> 0] }

MCAlphabet ==
  { R3("ADD", 1, 1, 2), Imm("ADDIU", 2, 1, 15), Mem("LW", 1, 8, 0), Mem("SW", 2, 8, 0),
    Cmp("BNE", 1, 2, 2), BrZero("BGEZAL", 2, 2), JumpTo("JAL", 72, 1), JumpReg(4),
    MulDivOf("DIV", 1, 2), ToHiLo("MTHI", 2), FromHiLo("MFLO", 2), Syscall, Undefined(1, 2) }

\* Shorter programs for the liveness run, a loop among them.
MCShortPrograms ==
  AllPrograms(2, { Imm("ADDIU", 2, 1, 15), Mem("LW", 1, 8, 0), Cmp("BGTZ", 3, 0, 15),
                   JumpTo("J", 64, 1), Syscall, MulDivOf("DIV", 1, 2) }, Exit)
\* src/tests/test_pipe_lui_lw_sw.s: $v0 is loaded with 10 (5 here) from memory
\* and the program ends with SYSCALL.
MCTestPrograms ==
  { << Lui(1, 1), Imm("ADDI", 4, 0, 5), Mem("SW", 4, 0, 1), Mem("LW", 2, 0, 1), Syscall >> }
\* Programs that write $v0 only in their last but one instruction, with the
\* loads, stalls and taken branches that can precede the exit sequence.
MCStopPrograms ==
  AllPrograms(4, { R3("ADD", 1, 1, 2), Imm("ADDIU", 4, 1, 15), Mem("LW", 1, 8, 0), Mem("LB", 4, 9, 0),
                   Mem("SW", 2, 8, 0), Cmp("BNE", 1, 3, 1), MulDivOf("MULT", 1, 3),
                   FromHiLo("MFLO", 4) }, Exit)
MCThreePrograms == AllPrograms(3, MCAlphabet, Exit)
MCPrograms == MCThreePrograms \cup MCStopPrograms

\* The programs of MCStopPrograms run to completion: ADDIU $v0; SYSCALL back to
\* back stops the machine (CheckDependencies) whatever stalls, branches and
\* multiplications precede it, if $v0 is written nowhere else.
StopsAtExit == text \in MCStopPrograms => RunsToCompletion
=============================================================================
