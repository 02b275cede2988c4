-------------------------------- MODULE Isa --------------------------------
(***************************************************************************)
(* The instructions of the simulator as the decode stage sees them.        *)
(*                                                                         *)
(* An instruction word is a record of its fields, so GET(OP, w), GET(RS,   *)
(* w), ... are field accesses.  "opcode" and "funct" hold the names of     *)
(* uninspiring_macros.h; "funct" is the 5-bit selector in a REGIMM         *)
(* instruction.  "PADDING" is any opcode, "UNUSED" any function code or    *)
(* selector that no case of sim.cpp handles.                               *)
(***************************************************************************)
EXTENDS Words

CONSTANTS NREGS,        \* MIPS_REGS, 32 in the program
          R_V0, R_RA,   \* 2 and 31 in the program
          R_T7          \* 15, the register in which cycle() reports a time-out

ASSUME RegisterAssumption ==
  /\ NREGS \in Nat \ {0}
  /\ R_V0 \in 0 .. NREGS - 1 /\ R_RA \in 0 .. NREGS - 1 /\ R_T7 \in 0 .. NREGS - 1

Reg == 0 .. NREGS - 1
HI  == NREGS            \* registerStatus[32]
LO  == NREGS + 1        \* registerStatus[33]
StatusIndex == 0 .. NREGS + 1

ShiftFuncts == {"SLL", "SRL", "SRA", "SLLV", "SRLV", "SRAV"}
AluFuncts   == {"ADD", "ADDU", "SUB", "SUBU", "OR", "AND", "XOR", "NOR", "SLT", "SLTU"}
                 \cup ShiftFuncts
MulDiv      == {"MULT", "MULTU", "DIV", "DIVU"}
MoveFrom    == {"MFHI", "MFLO"}
MoveTo      == {"MTHI", "MTLO"}
RegJumps    == {"JR", "JALR"}
LinkBranch  == {"BLTZAL", "BGEZAL"}
PlainRegimm == {"BLTZ", "BGEZ"}

ImmOps    == {"ADDI", "ADDIU", "SLTI", "SLTIU", "ANDI", "ORI", "XORI"}
CmpBranch == {"BEQ", "BNE", "BLEZ", "BGTZ"}
Loads     == {"LW", "LB", "LH", "LBU", "LHU"}
Stores    == {"SB", "SH", "SW"}

Opcode == {"SPECIAL", "REGIMM", "J", "JAL", "LUI", "PADDING"}
            \cup ImmOps \cup CmpBranch \cup Loads \cup Stores
Funct  == {"SYSCALL", "UNUSED"} \cup AluFuncts \cup MulDiv \cup MoveFrom \cup MoveTo
            \cup RegJumps \cup LinkBranch \cup PlainRegimm

\* The fields overlap in the 32-bit word; an instruction set chosen for a
\* run keeps the overlapping ones consistent (rt of a REGIMM instruction is
\* its selector, rs and rt of a jump are bits of its label, and one without a
\* case in the decoder has fields that match none in the ALU either).
Instr == [opcode : Opcode, funct : Funct, rs : Reg, rt : Reg, rd : Reg,
          sa : 0 .. BITS - 1, imm : 0 .. HALF - 1, label : Word]

\* The word 0: SLL r0, r0, 0.
Nop == [opcode |-> "SPECIAL", funct |-> "SLL", rs |-> 0, rt |-> 0, rd |-> 0,
        sa |-> 0, imm |-> 0, label |-> 0]

Special(i, S) == i.opcode = "SPECIAL" /\ i.funct \in S
Regimm(i, S)  == i.opcode = "REGIMM" /\ i.funct \in S

----------------------------------------------------------------------------
(* Control signals (SetControlSignals, SetupControlSignals).               *)

Bit == {0, 1}
\* alu_op: the opcode, or what the decoder passes instead of it.  JAL and
\* JALR pass ADD = 0x20, which is the value of the opcode LB; send_nop
\* passes -1, which no case of alu() handles.
AluOp == Opcode \cup {"NONE"}

Control == [jump : Bit, branch : Bit, mwrite : Bit, mread : Bit, reg_write : Bit,
            reg_dst : Bit, mem_to_rg : Bit, alu_src : Bit, alu_op : AluOp]

NoControl(op) ==
  [jump |-> 0, branch |-> 0, mwrite |-> 0, mread |-> 0, reg_write |-> 0,
   reg_dst |-> 0, mem_to_rg |-> 0, alu_src |-> 0, alu_op |-> op]

RdWrite(op)  == [NoControl(op) EXCEPT !.reg_write = 1, !.reg_dst = 1]
RtWrite(op)  == [NoControl(op) EXCEPT !.reg_write = 1, !.alu_src = 1]
Load(op)     == [RtWrite(op) EXCEPT !.mread = 1, !.mem_to_rg = 1]
Store(op)    == [NoControl(op) EXCEPT !.mwrite = 1]
Branch(op)   == [NoControl(op) EXCEPT !.branch = 1]
Jump(op)     == [NoControl(op) EXCEPT !.jump = 1]
Link         == [RdWrite("LB") EXCEPT !.jump = 1]

\* The cases of SetupControlSignals; old is what the latch held, which an
\* instruction without a case leaves in place.
Known(i) ==
  \/ i.opcode \notin {"SPECIAL", "REGIMM", "PADDING"}
  \/ Special(i, {"SYSCALL"} \cup AluFuncts \cup MulDiv \cup MoveFrom \cup MoveTo \cup RegJumps)
  \/ Regimm(i, LinkBranch \cup PlainRegimm)

ControlOf(i, old) ==
  CASE ~ Known(i)                         -> old
    [] Special(i, {"SYSCALL"})            -> NoControl("SPECIAL")
    [] Special(i, {"JR"})                 -> Jump("SPECIAL")
    [] Special(i, {"JALR"})               -> Link
    [] i.opcode = "SPECIAL" /\ Known(i) /\ ~ Special(i, {"SYSCALL", "JR", "JALR"})
                                          -> RdWrite("SPECIAL")
    [] Regimm(i, LinkBranch)              -> [RtWrite("REGIMM") EXCEPT !.branch = 1]
    [] Regimm(i, PlainRegimm)             -> [Branch("REGIMM") EXCEPT !.alu_src = 1]
    [] i.opcode = "J"                     -> Jump("J")
    [] i.opcode = "JAL"                   -> Link
    [] i.opcode \in ImmOps \cup {"LUI"}   -> RtWrite(i.opcode)
    [] i.opcode \in CmpBranch             -> Branch(i.opcode)
    [] i.opcode \in Loads                 -> Load(i.opcode)
    [] i.opcode \in Stores                -> Store(i.opcode)

----------------------------------------------------------------------------
(* The scoreboard reads of CheckDependencies.                              *)

\* The entries of registerStatus that the case of i looks at.
Watched(i) ==
  CASE Special(i, {"SYSCALL"})                          -> {R_V0}
    [] Special(i, AluFuncts \cup MulDiv)                -> {i.rs, i.rt}
    [] Special(i, {"MFHI"})                             -> {HI}
    [] Special(i, {"MFLO"})                             -> {LO}
    [] Special(i, RegJumps \cup MoveTo)                 -> {i.rs}
    [] Regimm(i, PlainRegimm)                           -> {i.rs}
    [] i.opcode = "JAL"                                 -> {R_RA}
    [] i.opcode \in ImmOps \cup Loads                   -> {i.rs}
    [] i.opcode = "LUI"                                 -> {i.rt}
    [] i.opcode \in CmpBranch \cup Stores               -> {i.rs, i.rt}
    [] OTHER                                            -> {}

\* J, BLTZAL, BGEZAL and unknown instructions set "dependency" neither way.
SetsDependency(i) == Watched(i) # {}
=============================================================================
