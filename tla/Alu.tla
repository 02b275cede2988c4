-------------------------------- MODULE Alu --------------------------------
(***************************************************************************)
(* alu() and the helpers around it (src/src/sim.cpp): what the execute     *)
(* stage computes from the ID/EX latch d.  "old" is what the EX/MEM latch  *)
(* held: an operation that does not set a field leaves the previous        *)
(* instruction's value in it, and that value travels on.                   *)
(***************************************************************************)
EXTENDS Isa

\* The latch id_ex.  imm is always the field of the instruction register,
\* so it is read from there; rd.value and opcode are never read.
IdEx == [rs : [index : Reg, value : Word], rt : [index : Reg, value : Word],
         rd : StatusIndex, hi : Word, lo : Word, ir : Instr, pc : Word,
         jumpAddress : Word, ctl : Control, run_bit : Bit]

OperandA(d) == d.rs.value
\* get_alu_src
OperandB(d) == IF d.ctl.alu_src = 0 THEN d.rt.value ELSE d.ir.imm

\* Address arithmetic shared by loads and stores: rs + sign_extend_16(imm).
Effective(d) == U32(d.rs.value + sign_extend_16(d.ir.imm))

----------------------------------------------------------------------------
(* alu_result                                                              *)

SpecialResult(d, a, b, old) ==
  LET f  == d.ir.funct
      sa == d.ir.sa
      sh == a % BITS                     \* operand_a & MASK(5)
  IN CASE f = "ADD"             -> U32(a + b)
       [] f = "ADDU"            -> U32(a + sign_extend_16(b))
       [] f \in {"SUB", "SUBU"} -> U32(a - b)
       [] f = "AND"             -> BitAnd[a, b]
       [] f = "OR"              -> BitOr[a, b]
       [] f = "XOR"             -> BitXor[a, b]
       [] f = "NOR"             -> WORDS - 1 - BitOr[a, b]
       [] f = "SLT"             -> Bool(S32(a) < S32(b))
       [] f = "SLTU"            -> Bool(a < b)
       [] f = "SLL"             -> ShiftLeft(b, sa)
       [] f = "SRL"             -> ShiftRight(b, sa)
       [] f = "SRA"             -> ArithmeticShiftRight(b, sa)
       [] f = "SLLV"            -> ShiftLeft(b, sh)
       [] f = "SRLV"            -> ShiftRight(b, sh)
       [] f = "SRAV"            -> ArithmeticShiftRight(b, sh)
       [] f = "MFHI"            -> d.hi
       [] f = "MFLO"            -> d.lo
       [] OTHER                 -> old

ImmResult(d, a, b, old) ==
  LET op == d.ctl.alu_op
  IN CASE op \in {"ADDI", "ADDIU"} -> U32(a + sign_extend_16(b))
       [] op = "ANDI"              -> BitAnd[a, b]
       [] op = "ORI"               -> BitOr[a, b]
       [] op = "XORI"              -> BitXor[a, b]
       [] op = "LUI"               -> ShiftLeft(b, 2 * B)
       [] op = "SLTI"              -> Bool(S32(a) < S32(sign_extend_16(b)))
       [] op = "SLTIU"             -> Bool(a < U32(a - sign_extend_16(b)))
       \* loads, and the link address of JAL and JALR, whose alu_op is LB
       [] op \in Loads             -> U32(a + sign_extend_16(b))
       [] op \in Stores            -> Effective(d)
       [] OTHER                    -> old

AluResult(d, old) ==
  LET a == OperandA(d)
      b == OperandB(d)
  IN CASE d.ctl.alu_op = "SPECIAL" -> SpecialResult(d, a, b, old)
       [] d.ctl.alu_op = "REGIMM"  -> IF d.ir.funct \in LinkBranch THEN U32(d.pc + 4) ELSE old
       [] OTHER                    -> ImmResult(d, a, b, old)

----------------------------------------------------------------------------
(* HI and LO                                                               *)

None     == [index |-> 0, value |-> 0]
Set(v)   == [index |-> 1, value |-> U32(v)]
Keep(v)  == [index |-> 0, value |-> v]
RunsSpecial(d, S) == d.ctl.alu_op = "SPECIAL" /\ d.ir.funct \in S
Divides(d, S)     == RunsSpecial(d, S) /\ OperandB(d) # 0

\* Mutant: the product of the unsigned operands, not narrowed.
WideProduct(d) == OperandA(d) * OperandB(d)
\* The s32 product is computed in 32 bits before it is widened.  C leaves
\* its overflow undefined; the build multiplies 32-bit registers and wraps.
Product(d) == U32(S32(OperandA(d)) * S32(OperandB(d)))

HiAfter(d) ==
  LET a == OperandA(d)
      b == OperandB(d)
  IN CASE RunsSpecial(d, {"MTHI"})  -> Set(a)
       [] RunsSpecial(d, {"MULT"})  -> Set(IF S32(Product(d)) < 0 THEN WORDS - 1 ELSE 0)
       [] RunsSpecial(d, {"MULTU"}) -> Set((a * b) \div WORDS)
       [] Divides(d, {"DIV"})       -> Set(Remainder(S32(a), S32(b)))
       [] Divides(d, {"DIVU"})      -> Set(a % b)
       [] OTHER                     -> Keep(d.hi)

LoAfter(d) ==
  LET a == OperandA(d)
      b == OperandB(d)
  IN CASE RunsSpecial(d, {"MTLO"})  -> Set(a)
       [] RunsSpecial(d, {"MULT"})  -> Set(Product(d))
       [] RunsSpecial(d, {"MULTU"}) -> Set(a * b)
       [] Divides(d, {"DIV"})       -> Set(Quotient(S32(a), S32(b)))
       [] Divides(d, {"DIVU"})      -> Set(a \div b)
       [] OTHER                     -> Keep(d.lo)

\* INT_MIN / -1: the quotient does not fit; the division instruction of the
\* x86 build raises SIGFPE and the simulator dies.
Traps(d) ==
  /\ Divides(d, {"DIV"})
  /\ OperandA(d) = WORDS \div 2 /\ OperandB(d) = WORDS - 1

----------------------------------------------------------------------------
(* Branches and memory operands                                            *)

\* Mutant: INT_MIN counts as positive.
NegativeOffByOne(v) == v > WORDS \div 2
Negative(v) == v >= WORDS \div 2

BranchCondition(d, old) ==
  LET a  == OperandA(d)
      op == d.ctl.alu_op
      f  == d.ir.funct
  IN CASE op = "BEQ"                                        -> Bool(a = d.rt.value)
       [] op = "BNE"                                        -> Bool(a # d.rt.value)
       [] op = "BLEZ"                                       -> Bool(a = 0 \/ Negative(a))
       [] op = "BGTZ"                                       -> Bool(a # 0 /\ ~ Negative(a))
       [] op = "REGIMM" /\ f \in {"BLTZ", "BLTZAL"}         -> Bool(Negative(a))
       [] op = "REGIMM" /\ f \in {"BGEZ", "BGEZAL"}         -> Bool(~ Negative(a))
       [] OTHER                                             -> old

\* BEQ and BNE do not sign-extend the offset, the others do.
BranchTarget(d) ==
  LET op == d.ctl.alu_op
  IN CASE op \in {"BEQ", "BNE"}   -> U32(d.pc + 4 * d.ir.imm)
       [] op \in {"BLEZ", "BGTZ"} -> U32(d.pc + 4 * sign_extend_16(d.ir.imm))
       [] op = "REGIMM" /\ d.ir.funct \in PlainRegimm \cup LinkBranch
                                  -> U32(d.pc + 4 * sign_extend_16(OperandB(d)))
       [] OTHER                   -> d.jumpAddress

StoreValue(d, old) ==
  LET op == d.ctl.alu_op
  IN CASE op = "SB" -> d.rt.value % BYTE
       [] op = "SH" -> d.rt.value % HALF
       [] op = "SW" -> d.rt.value
       [] OTHER     -> old

\* loadSize as the number of values of the loaded type.
LoadSize(d, old) ==
  LET op == d.ctl.alu_op
  IN CASE op = "LW"            -> WORDS
       [] op \in {"LH", "LHU"} -> HALF
       [] op \in {"LB", "LBU"} -> BYTE
       [] OTHER                -> old

IsLoadSigned(d, old) ==
  IF d.ctl.alu_op \in Loads THEN Bool(d.ctl.alu_op \in {"LB", "LH"}) ELSE old

\* SignExtend and the GET_BLOCK before it (read_data_from_memory).
LoadedValue(content, size, signed) ==
  LET block == content % size
  IN IF signed = 1
       THEN IF size = HALF THEN sign_extend_16(block) ELSE sign_extend_8(block)
       ELSE block
=============================================================================
