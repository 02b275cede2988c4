----------------------------- MODULE MCHarness -----------------------------
EXTENDS Harness, Assembler, MCWords

MCInitialRegs == { [r \in Reg |-> 0] }
R15Zero == [r \in {R_T7} |-> 0]
Tests(programs) == { [program |-> p, expected |-> R15Zero] : p \in programs }

\* What may stand behind the exit sequence and is in the pipeline when the
\* machine stops: loads one and two places behind it leave a timer running.
Tails == { << >>, <<Mem("LW", 1, 8, 0)>>, <<Nop, Mem("LW", 1, 8, 0)>>,
           <<Mem("LW", 1, 8, 0), Mem("LW", 2, 8, 0)>>, <<MulDivOf("MULT", 2, 2)>>, <<JumpReg(1)>>,
           <<Undefined(1, 2), Undefined(1, 2)>> }

Probes == AllPrograms(2,
  { Imm("ADDIU", 1, 2, 5), R3("ADDU", 2, 1, 1), Mem("LW", 1, 8, 0), Mem("SW", 1, 8, 0),
    Cmp("BNE", 1, 0, 1), MulDivOf("MULT", 1, 1), FromHiLo("MFLO", 1), ToHiLo("MTLO", 4), Undefined(1, 2) }, Exit)
Befores == { << Imm("ADDIU", 1, 0, 9), i >> \o Exit \o t :
               i \in { Mem("SW", 1, 8, 0), ToHiLo("MTHI", 1), Mem("LW", 1, 8, 0) }, t \in Tails }
             \cup { << Imm("ADDIU", 1, 0, 9), JumpTo("J", 68, 1) >>,
                    << Imm("ADDIU", 1, 0, 9), Mem("SW", 1, 8, 0), Cmp("BNE", 1, 0, 14) >> }
MCPrograms == Probes \cup Befores
\* A program, another one, and the first again.
MCSuites == { <<p, q, p>> : p \in Tests(Probes), q \in Tests(Befores) }

\* Programs that run on behind their end, loop, are cut off with a SYSCALL in
\* flight or trap, in each order in which one follows another; the last one
\* traps.  Their verdict is not asked for.
Endings ==
  << << Imm("ADDIU", 1, 0, 9), Mem("SW", 1, 8, 0) >> \o Exit \o <<Mem("LW", 1, 8, 0)>>,
     << JumpTo("J", 64, 1) >>,
     << Imm("ADDIU", 2, 0, 2), Nop, Nop, Syscall >> >>
TrapEnding == << Lui(1, 8), Imm("ADDIU", 2, 0, 15), Nop, MulDivOf("DIV", 1, 2) >>
EndingSuites ==
  { [n \in 1 .. 3 |-> [program |-> IF n = 3 THEN TrapEnding ELSE Endings[pair[n]], expected |-> << >>]] :
      pair \in (1 .. 3) \X (1 .. 3) }

\* A program, one that is cut off or leaves a timer, and the first again.
UncleanProbe   == << Imm("ADDIU", 1, 0, 5), Nop >> \o Exit
UncleanBefores == { << Imm("ADDIU", 1, 0, 9), JumpTo("J", 68, 1) >> }
UncleanPrograms == {UncleanProbe} \cup UncleanBefores
UncleanSuites == { <<p, q, p>> : p \in Tests({UncleanProbe}), q \in Tests(UncleanBefores) }

----------------------------------------------------------------------------
(* Programs of src/tests, immediates cut to four bits.                     *)
T0 == 1
T1 == 5
T2 == 6
T3 == 7
T4 == 8
T6 == 9
S0 == 10   \* the rt field of a jump to 0x0040....

Stop(op) == << Imm(op, R_V0, 0, 2), Syscall >>
Judged(p, regs, values) ==
  [program |-> p, expected |-> [r \in {regs[k] : k \in DOMAIN regs} |->
                                  values[CHOOSE k \in DOMAIN regs : regs[k] = r]]]

Over2(jump) == << JumpTo(jump, 76, S0), Imm("ADDI", T0, 0, 5), Imm("ADDI", T1, 0, 10) >> \o Stop("ADDI")
Branches(op, t1, last) ==
  << Imm("ADDIU", T0, 0, 5), Imm("ADDIU", T1, 0, t1), Cmp(op, T0, T1, 3), Imm("ADDIU", T0, 0, 0),
     Imm("ADDIU", T1, 0, 0), last >> \o Stop("ADDIU")
  \o << Imm("ADDIU", T0, 0, 5), Imm("ADDIU", T1, 0, 5) >> \o Stop("ADDIU")
\* The Nop puts the second JAL where the sign of its address's low half is
\* not set, as it is not in the first 32 KiB of the text (see Additions).
AddTest ==
  << JumpTo("J", 104, S0),
     Imm("ADDI", T0, 0, 0), Imm("ADDI", T1, 0, 0), Imm("ADDI", T2, 0, 0), Imm("ADDI", T3, 0, 0),
     Imm("ADDI", T4, 0, 0), Imm("ADDI", T6, T6, 1), ToHiLo("MTHI", 0), ToHiLo("MTLO", 0), JumpReg(R_RA),
     Imm("ORI", T1, T1, 10), R3("ADD", T0, T0, T1), Cmp("BNE", T0, T1, 10), JumpTo("JAL", 68, S0),
     Imm("ADDI", T2, T2, 15), R3("ADD", T0, T0, T2), Lui(T1, 15), Imm("ORI", T1, T1, 15),
     Cmp("BNE", T0, T1, 4), Nop, JumpTo("JAL", 68, S0), JumpTo("J", 160, S0),
     Imm("ADDI", R_T7, R_T7, 15), JumpTo("J", 160, S0) >> \o Stop("ADDIU")

RepositoryTests ==
  << Judged(Over2("J"), <<T0, T1>>, <<0, 0>>),
     Judged(Over2("JAL"), <<T0, T1, R_RA>>, <<0, 0, TextStart + 4>>),
     Judged(<< Lui(T3, 4), Imm("ORI", T3, T3, 8), Imm("ADDI", T0, 0, 15), JumpTo("J", 88, S0),
               Imm("ADDI", T0, 0, 5), Imm("ADDI", T1, 0, 10) >> \o Stop("ADDI"),
            <<T0, T1>>, <<WORDS - 1, 0>>),
     Judged(<< Imm("ADDI", T1, 0, 9), Imm("ADDI", T0, T1, 15) >> \o Stop("ADDI"), <<R_V0>>, <<2>>),
     Judged(<< Imm("ADDI", T0, 0, 7), ToHiLo("MTHI", T0) >> \o Stop("ADDIU"), <<HI>>, <<7>>),
     Judged(<< Imm("ADDI", T0, 0, 7), ToHiLo("MTLO", T0) >> \o Stop("ADDIU"), <<LO>>, <<7>>),
     Judged(Branches("BEQ", 5, Cmp("BEQ", T0, 0, 3)), <<T0, T1>>, <<5, 5>>),
     Judged(Branches("BNE", 6, Cmp("BNE", 0, 0, 3)), <<T0, T1>>, <<5, 6>>),
     Judged(<< Imm("ORI", T0, 0, 13), Imm("ORI", T1, 0, 11) >> \o Stop("ADDIU"), <<T0, T1>>, <<13, 11>>),
     Judged(<< Lui(T0, 15) >> \o Stop("ADDI"), <<T0>>, <<240>>),
     Judged(<< Imm("ADDI", T0, T0, 5), Mem("LW", T0, 0, 0) >> \o Stop("ADDIU"), <<R_T7>>, <<0>>),
     Judged(AddTest, <<R_T7>>, <<0>>) >>

TestPrograms == {Endings[k] : k \in DOMAIN Endings} \cup {TrapEnding} \cup { RepositoryTests[n].program : n \in DOMAIN RepositoryTests }
\* Rotations of the list, and of the reversed list.
RepositorySuites ==
  LET N == Len(RepositoryTests)
  IN { [n \in 1 .. N |-> RepositoryTests[((n + k) % N) + 1]] : k \in {5, N - 1} }
     \cup { [n \in 1 .. N |-> RepositoryTests[((k + N - n) % N) + 1]] : k \in {5, N - 1} }

TestSuites == EndingSuites \cup RepositorySuites
=============================================================================
