------------------------- MODULE AluReferenceProofs -------------------------
(***************************************************************************)
(* The tricks of alu() and SignExtend against arithmetic on integers, for  *)
(* every width of the byte: what AluReference's runs check for one width.  *)
(***************************************************************************)
EXTENDS AluReference, WordProofs

\* The operands are words.
Operands == a \in Word /\ b \in Word

LEMMA OperandsAreWords == Spec => []Operands
  <1>1. Init => Operands
    BY WordInt DEF Init, Operands
  <1>2. Operands /\ [Next]_vars => Operands'
    <2> SUFFICES ASSUME Operands, [Next]_vars PROVE Operands'
      OBVIOUS
    <2>1. CASE Next
      <3>1. b + 1 \in Int
        BY WordInt DEF Operands
      <3> QED BY <2>1, <3>1, U32Type DEF Next, Operands
    <2>2. CASE UNCHANGED vars
      BY <2>2 DEF vars, Operands
    <2> QED BY <2>1, <2>2
  <1> QED BY <1>1, <1>2, PTL DEF Spec

----------------------------------------------------------------------------
(* The latches                                                             *)

\* The instruction register in a latch.
LEMMA IrFields ==
  ASSUME NEW op, NEW f, NEW sa, NEW imm
  PROVE  /\ LET i == [Nop EXCEPT !.opcode = op, !.funct = f, !.sa = sa, !.imm = imm]
            IN i.opcode = op /\ i.funct = f /\ i.sa = sa /\ i.imm = imm
         /\ LET i == [Nop EXCEPT !.opcode = op, !.funct = f]
            IN i.opcode = op /\ i.funct = f
  BY DEF Nop

\* What SetControlSignals makes of the instructions compared here.
SignalsOf(op, f) == ControlOf([Nop EXCEPT !.opcode = op, !.funct = f], NoControl("NONE"))

LEMMA SpecialControl ==
  ASSUME NEW f \in AluFuncts \cup MulDiv
  PROVE  SignalsOf("SPECIAL", f).alu_op = "SPECIAL" /\ SignalsOf("SPECIAL", f).alu_src = 0
  <1> DEFINE i == [Nop EXCEPT !.opcode = "SPECIAL", !.funct = f]
  <1>1. i.opcode = "SPECIAL" /\ i.funct = f
    BY IrFields
  <1>2. f \notin {"SYSCALL"} /\ f \notin {"JR"} /\ f \notin {"JALR"} /\ f \notin {"SYSCALL", "JR", "JALR"}
    BY DEF AluFuncts, ShiftFuncts, MulDiv
  <1>3. SignalsOf("SPECIAL", f) = ControlOf(i, NoControl("NONE"))
    BY DEF SignalsOf
  <1> HIDE DEF i
  <1>4. Known(i) /\ ~ Special(i, {"SYSCALL"}) /\ ~ Special(i, {"JR"}) /\ ~ Special(i, {"JALR"})
        /\ ~ Special(i, {"SYSCALL", "JR", "JALR"})
    BY <1>1, <1>2 DEF Known, Special
  <1>5. ~ Regimm(i, LinkBranch) /\ ~ Regimm(i, PlainRegimm) /\ i.opcode \notin ImmOps \cup {"LUI"} /\ i.opcode \notin CmpBranch
        /\ i.opcode \notin Loads /\ i.opcode \notin Stores /\ i.opcode # "J" /\ i.opcode # "JAL"
    BY <1>1 DEF Regimm, ImmOps, CmpBranch, Loads, Stores
  <1>6. ControlOf(i, NoControl("NONE")) = RdWrite("SPECIAL")
    BY <1>1, <1>4, <1>5 DEF ControlOf
  <1> QED BY <1>3, <1>6 DEF RdWrite, NoControl

LEMMA ImmControl ==
  ASSUME NEW op \in ImmOps \cup Loads
  PROVE  SignalsOf(op, "UNUSED").alu_op = op /\ SignalsOf(op, "UNUSED").alu_src = 1
  <1> DEFINE i == [Nop EXCEPT !.opcode = op, !.funct = "UNUSED"]
  <1>1. i.opcode = op
    BY IrFields
  <1>2. /\ op \notin {"SPECIAL", "REGIMM", "PADDING"} /\ op # "SPECIAL" /\ op # "REGIMM" /\ op # "J" /\ op # "JAL"
        /\ op \notin CmpBranch /\ op \notin Stores
        /\ \/ op \in ImmOps \cup {"LUI"} /\ op \notin Loads
           \/ op \in Loads /\ op \notin ImmOps \cup {"LUI"}
    BY DEF ImmOps, Loads, CmpBranch, Stores
  <1>3. SignalsOf(op, "UNUSED") = ControlOf(i, NoControl("NONE"))
    BY DEF SignalsOf
  <1> HIDE DEF i
  <1>4. Known(i) /\ \A S : ~ Special(i, S) /\ ~ Regimm(i, S)
    BY <1>1, <1>2 DEF Known, Special, Regimm
  <1>5. ControlOf(i, NoControl("NONE")) \in {RtWrite(op), Load(op)}
    BY <1>1, <1>2, <1>4 DEF ControlOf
  <1>6. /\ RtWrite(op).alu_op = op /\ RtWrite(op).alu_src = 1
        /\ Load(op).alu_op = op /\ Load(op).alu_src = 1
    BY DEF RtWrite, Load, NoControl
  <1> QED BY <1>3, <1>5, <1>6

LEMMA StoreControl ==
  ASSUME NEW op \in Stores
  PROVE  SignalsOf(op, "UNUSED").alu_op = op
  <1> DEFINE i == [Nop EXCEPT !.opcode = op, !.funct = "UNUSED"]
  <1>1. i.opcode = op
    BY IrFields
  <1>2. /\ op \notin {"SPECIAL", "REGIMM", "PADDING"} /\ op # "SPECIAL" /\ op # "REGIMM" /\ op # "J" /\ op # "JAL"
        /\ op \notin CmpBranch /\ op \notin ImmOps \cup {"LUI"} /\ op \notin Loads
    BY DEF ImmOps, Loads, CmpBranch, Stores
  <1>3. SignalsOf(op, "UNUSED") = ControlOf(i, NoControl("NONE"))
    BY DEF SignalsOf
  <1> HIDE DEF i
  <1>4. Known(i) /\ \A S : ~ Special(i, S) /\ ~ Regimm(i, S)
    BY <1>1, <1>2 DEF Known, Special, Regimm
  <1>5. ControlOf(i, NoControl("NONE")) = Store(op)
    BY <1>1, <1>2, <1>4 DEF ControlOf
  <1> QED BY <1>3, <1>5 DEF Store, NoControl

LEMMA BranchControl ==
  ASSUME NEW op \in CmpBranch PROVE SignalsOf(op, "UNUSED").alu_op = op
  <1> DEFINE i == [Nop EXCEPT !.opcode = op, !.funct = "UNUSED"]
  <1>1. i.opcode = op
    BY IrFields
  <1>2. /\ op \notin {"SPECIAL", "REGIMM", "PADDING"} /\ op # "SPECIAL" /\ op # "REGIMM" /\ op # "J" /\ op # "JAL"
        /\ op \in CmpBranch /\ op \notin ImmOps \cup {"LUI"} /\ op \notin Loads /\ op \notin Stores
    BY DEF ImmOps, Loads, CmpBranch, Stores
  <1>3. SignalsOf(op, "UNUSED") = ControlOf(i, NoControl("NONE"))
    BY DEF SignalsOf
  <1> HIDE DEF i
  <1>4. Known(i) /\ \A S : ~ Special(i, S) /\ ~ Regimm(i, S)
    BY <1>1, <1>2 DEF Known, Special, Regimm
  <1>5. ControlOf(i, NoControl("NONE")) = Branch(op)
    BY <1>1, <1>2, <1>4 DEF ControlOf
  <1> QED BY <1>3, <1>5 DEF Branch, NoControl

LEMMA RegimmControl ==
  ASSUME NEW f \in PlainRegimm PROVE SignalsOf("REGIMM", f).alu_op = "REGIMM"
  <1> DEFINE i == [Nop EXCEPT !.opcode = "REGIMM", !.funct = f]
  <1>1. i.opcode = "REGIMM" /\ i.funct = f
    BY IrFields
  <1>2. f \notin LinkBranch
    BY DEF LinkBranch, PlainRegimm
  <1>3. SignalsOf("REGIMM", f) = ControlOf(i, NoControl("NONE"))
    BY DEF SignalsOf
  <1> HIDE DEF i
  <1>4. Known(i) /\ (\A S : ~ Special(i, S)) /\ ~ Regimm(i, LinkBranch) /\ Regimm(i, PlainRegimm)
    BY <1>1, <1>2 DEF Known, Special, Regimm
  <1>5. i.opcode # "SPECIAL" /\ i.opcode \notin ImmOps \cup {"LUI"} /\ i.opcode \notin CmpBranch
        /\ i.opcode \notin Loads /\ i.opcode \notin Stores /\ i.opcode # "J" /\ i.opcode # "JAL"
    BY <1>1 DEF ImmOps, CmpBranch, Loads, Stores
  <1>6. ControlOf(i, NoControl("NONE")) = [Branch("REGIMM") EXCEPT !.alu_src = 1]
    BY <1>4, <1>5 DEF ControlOf
  <1> QED BY <1>3, <1>6 DEF Branch, NoControl

LEMMA LinkControl ==
  ASSUME NEW f \in LinkBranch PROVE SignalsOf("REGIMM", f).alu_op = "REGIMM"
  <1> DEFINE i == [Nop EXCEPT !.opcode = "REGIMM", !.funct = f]
  <1>1. i.opcode = "REGIMM" /\ i.funct = f
    BY IrFields
  <1>2. SignalsOf("REGIMM", f) = ControlOf(i, NoControl("NONE"))
    BY DEF SignalsOf
  <1> HIDE DEF i
  <1>3. /\ Known(i) /\ (\A S : ~ Special(i, S)) /\ Regimm(i, LinkBranch)
        /\ ~ Regimm(i, PlainRegimm)
    BY <1>1 DEF Known, Special, Regimm, LinkBranch, PlainRegimm
  <1>4. i.opcode # "SPECIAL" /\ i.opcode \notin ImmOps \cup {"LUI"} /\ i.opcode \notin CmpBranch
        /\ i.opcode \notin Loads /\ i.opcode \notin Stores /\ i.opcode # "J" /\ i.opcode # "JAL"
    BY <1>1 DEF ImmOps, CmpBranch, Loads, Stores
  <1>5. ControlOf(i, NoControl("NONE")) = [RtWrite("REGIMM") EXCEPT !.branch = 1]
    BY <1>3, <1>4 DEF ControlOf
  <1> QED BY <1>2, <1>5 DEF RtWrite, NoControl

\* The fields of a latch.
LEMMA LatchFields ==
  ASSUME NEW op, NEW f, NEW sa, NEW imm
  PROVE  /\ Latch(op, f, sa, imm).rs.value = a /\ Latch(op, f, sa, imm).rt.value = b
         /\ Latch(op, f, sa, imm).hi = 0 /\ Latch(op, f, sa, imm).lo = 0
         /\ Latch(op, f, sa, imm).ir.opcode = op /\ Latch(op, f, sa, imm).ir.funct = f
         /\ Latch(op, f, sa, imm).ir.sa = sa /\ Latch(op, f, sa, imm).ir.imm = imm
         /\ Latch(op, f, sa, imm).ctl = SignalsOf(op, f)
  <1> DEFINE c == SignalsOf(op, f)
             i == [Nop EXCEPT !.opcode = op, !.funct = f, !.sa = sa, !.imm = imm]
             e == EmptyIdEx(1)
  <1>1. Latch(op, f, sa, imm) = [e EXCEPT !.rs.value = a, !.rt.value = b, !.ir = i, !.ctl = c]
    BY DEF Latch, SignalsOf
  <1>2. i.opcode = op /\ i.funct = f /\ i.sa = sa /\ i.imm = imm
    BY IrFields
  <1>3. e = [rs |-> [index |-> 0, value |-> 0], rt |-> [index |-> 0, value |-> 0], rd |-> 0, hi |-> 0, lo |-> 0,
             ir |-> Nop, pc |-> 0, jumpAddress |-> 0, ctl |-> NoControl("SPECIAL"), run_bit |-> 1]
    BY DEF EmptyIdEx, Zero
  <1> HIDE DEF c, i, e
  <1>4. LET d == [e EXCEPT !.rs.value = a, !.rt.value = b, !.ir = i, !.ctl = c]
        IN d.rs.value = a /\ d.rt.value = b /\ d.hi = 0 /\ d.lo = 0 /\ d.ir = i /\ d.ctl = c
    BY <1>3
  <1> QED BY <1>1, <1>2, <1>4 DEF c

\* The operations on two registers, ...
LEMMA SpecialLatch ==
  ASSUME NEW f \in AluFuncts \cup MulDiv, NEW sa
  PROVE  LET d == Latch("SPECIAL", f, sa, 0)
         IN /\ d.ctl.alu_op = "SPECIAL" /\ OperandA(d) = a /\ OperandB(d) = b
            /\ d.ir.funct = f /\ d.ir.sa = sa /\ d.hi = 0 /\ d.lo = 0
  <1> DEFINE d == Latch("SPECIAL", f, sa, 0)
  <1>1. /\ d.ctl = SignalsOf("SPECIAL", f) /\ d.rs.value = a /\ d.rt.value = b
        /\ d.ir.funct = f /\ d.ir.sa = sa /\ d.hi = 0 /\ d.lo = 0
    BY LatchFields
  <1> HIDE DEF d
  <1>2. d.ctl.alu_op = "SPECIAL" /\ d.ctl.alu_src = 0
    BY <1>1, SpecialControl
  <1>3. OperandA(d) = a /\ OperandB(d) = b
    BY <1>1, <1>2 DEF OperandA, OperandB
  <1> QED BY <1>1, <1>2, <1>3 DEF d

\* ... those on a register and an immediate, loads among them, ...
LEMMA ImmLatch ==
  ASSUME NEW op \in ImmOps \cup Loads, NEW n
  PROVE  ImmOf(op, n).ctl.alu_op = op /\ OperandA(ImmOf(op, n)) = a /\ OperandB(ImmOf(op, n)) = n
  <1> DEFINE d == ImmOf(op, n)
  <1>1. d.ctl = SignalsOf(op, "UNUSED") /\ d.rs.value = a /\ d.ir.imm = n
    BY LatchFields DEF ImmOf
  <1> HIDE DEF d
  <1>2. d.ctl.alu_op = op /\ d.ctl.alu_src = 1
    BY <1>1, ImmControl
  <1>3. OperandA(d) = a /\ OperandB(d) = n
    BY <1>1, <1>2 DEF OperandA, OperandB
  <1> QED BY <1>2, <1>3 DEF d

\* ... and stores.
LEMMA StoreLatch ==
  ASSUME NEW op \in Stores, NEW n
  PROVE  /\ ImmOf(op, n).ctl.alu_op = op /\ ImmOf(op, n).rs.value = a /\ ImmOf(op, n).rt.value = b
         /\ ImmOf(op, n).ir.imm = n
  BY StoreControl, LatchFields DEF ImmOf

\* alu() on two registers.
LEMMA SpecialAlu ==
  ASSUME NEW f \in AluFuncts \cup MulDiv, NEW sa
  PROVE  LET d == Latch("SPECIAL", f, sa, 0)
         IN ResultOf(d) = SpecialResult(d, a, b, 0) /\ d.ir.funct = f /\ d.ir.sa = sa
  BY SpecialLatch DEF ResultOf, AluResult

\* alu() on a register and an immediate.
LEMMA ImmAlu ==
  ASSUME NEW op \in ImmOps \cup Loads, NEW n
  PROVE  ResultOf(ImmOf(op, n)) = ImmResult(ImmOf(op, n), a, n, 0) /\ ImmOf(op, n).ctl.alu_op = op
  <1>1. op # "SPECIAL" /\ op # "REGIMM"
    BY DEF ImmOps, Loads
  <1> QED BY <1>1, ImmLatch DEF ResultOf, AluResult

\* The cases of alu() that are compared, on operands x and y.
LEMMA SpecialCases ==
  ASSUME NEW d, NEW x, NEW y
  PROVE  /\ d.ir.funct = "SLT"  => SpecialResult(d, x, y, 0) = Bool(S32(x) < S32(y))
         /\ d.ir.funct = "SLTU" => SpecialResult(d, x, y, 0) = Bool(x < y)
         /\ d.ir.funct = "ADD"  => SpecialResult(d, x, y, 0) = U32(x + y)
         /\ d.ir.funct = "ADDU" => SpecialResult(d, x, y, 0) = U32(x + sign_extend_16(y))
         /\ d.ir.funct = "SRL"  => SpecialResult(d, x, y, 0) = ShiftRight(y, d.ir.sa)
         /\ d.ir.funct = "SRA"  => SpecialResult(d, x, y, 0) = ArithmeticShiftRight(y, d.ir.sa)
         /\ d.ir.funct = "SRLV" => SpecialResult(d, x, y, 0) = ShiftRight(y, x % BITS)
         /\ d.ir.funct = "SRAV" => SpecialResult(d, x, y, 0) = ArithmeticShiftRight(y, x % BITS)
  BY DEF SpecialResult

LEMMA ImmCases ==
  ASSUME NEW d, NEW x, NEW y
  PROVE  /\ d.ctl.alu_op = "SLTI"  => ImmResult(d, x, y, 0) = Bool(S32(x) < S32(sign_extend_16(y)))
         /\ d.ctl.alu_op = "SLTIU" => ImmResult(d, x, y, 0) = Bool(x < U32(x - sign_extend_16(y)))
         /\ d.ctl.alu_op = "ADDIU" => ImmResult(d, x, y, 0) = U32(x + sign_extend_16(y))
         /\ d.ctl.alu_op \in Loads => ImmResult(d, x, y, 0) = U32(x + sign_extend_16(y))
         /\ d.ctl.alu_op \in Stores => ImmResult(d, x, y, 0) = Effective(d)
  BY DEF ImmResult, Loads, Stores

----------------------------------------------------------------------------
(* Comparisons                                                             *)

\* The low half of a word, and what it is extended to.
LEMMA LowHalf ==
  ASSUME Operands
  PROVE  LET n == b % HALF
             extended == IF n < HALF \div 2 THEN n ELSE n - HALF
         IN /\ n \in 0 .. HALF - 1 /\ extended \in Int
            /\ sign_extend_16(n) = U32(extended) /\ S32(sign_extend_16(n)) = extended
            /\ sign_extend_16(n) \in Word
  <1> DEFINE n == b % HALF
  <1>1. n \in 0 .. HALF - 1
    BY HalfByte, WordInt DEF Operands
  <1> HIDE DEF n
  <1>2. /\ SignExtendTo(n, HALF) = U32(SignedPart(n, HALF)) /\ S32(SignExtendTo(n, HALF)) = SignedPart(n, HALF)
        /\ SignExtendTo(n, HALF) \in Word /\ SignedPart(n, HALF) \in Int
    BY <1>1, PartExtended
  <1>3. LET extended == IF n < HALF \div 2 THEN n ELSE n - HALF
        IN /\ n \in 0 .. HALF - 1 /\ extended \in Int
           /\ sign_extend_16(n) = U32(extended) /\ S32(sign_extend_16(n)) = extended
           /\ sign_extend_16(n) \in Word
    BY <1>1, <1>2 DEF SignedPart, sign_extend_16
  <1> QED BY <1>3 DEF n

\* A word is negative by its highest bit.
LEMMA SignBit ==
  ASSUME NEW v \in Word
  PROVE  /\ Negative(v) <=> S32(v) < 0
         /\ (v = 0 \/ Negative(v)) <=> S32(v) <= 0
         /\ (v # 0 /\ ~ Negative(v)) <=> S32(v) > 0
  <1> DEFINE h == WORDS \div 2
  <1>1. h \in Nat \ {0} /\ WORDS = 2 * h /\ v \in 0 .. WORDS - 1
    BY Halves DEF Word
  <1>2. S32(v) = IF v < h THEN v ELSE v - WORDS
    BY DEF S32
  <1>3. Negative(v) <=> v >= h
    BY DEF Negative
  <1> HIDE DEF h
  <1> QED BY <1>1, <1>2, <1>3

\* SLTIU's borrow, SLTI, SLT, SLTU and every branch decide as the comparison
\* of integers does.
THEOREM ComparisonsHold == Spec => []Comparisons
  <1>1. Operands => Comparisons
    <2> SUFFICES ASSUME Operands PROVE Comparisons
      OBVIOUS
    <2> DEFINE n == b % HALF
               extended == IF n < HALF \div 2 THEN n ELSE n - HALF
               Taken(op, f) == BranchCondition(Latch(op, f, 0, 0), 0)
    <2>1. /\ n \in 0 .. HALF - 1 /\ extended \in Int
          /\ sign_extend_16(n) = U32(extended) /\ S32(sign_extend_16(n)) = extended
          /\ sign_extend_16(n) \in Word
      BY LowHalf
    <2> HIDE DEF n, extended
    <2>2. ResultOf(ImmOf("SLTIU", n)) = Bool(a < U32(extended))
      <3>1. "SLTIU" \in ImmOps \cup Loads
        BY DEF ImmOps
      <3>2. ResultOf(ImmOf("SLTIU", n)) = Bool(a < U32(a - sign_extend_16(n)))
        BY <3>1, ImmAlu, ImmCases
      <3>3. (a < U32(a - sign_extend_16(n))) <=> (a < sign_extend_16(n))
        BY <2>1, BorrowIsUnsignedLess DEF Operands
      <3> QED BY <2>1, <3>2, <3>3 DEF Bool
    <2>3. ResultOf(ImmOf("SLTI", n)) = Bool(S32(a) < extended)
      <3>1. "SLTI" \in ImmOps \cup Loads
        BY DEF ImmOps
      <3> QED BY <2>1, <3>1, ImmAlu, ImmCases
    <2>4. /\ ResultOf(SpecialOf("SLT")) = Bool(S32(a) < S32(b))
          /\ ResultOf(SpecialOf("SLTU")) = Bool(a < b)
      <3>1. "SLT" \in AluFuncts \cup MulDiv /\ "SLTU" \in AluFuncts \cup MulDiv
        BY DEF AluFuncts
      <3> QED BY <3>1, SpecialAlu, SpecialCases DEF SpecialOf
    <2>5. /\ Negative(a) <=> S32(a) < 0
          /\ (a = 0 \/ Negative(a)) <=> S32(a) <= 0
          /\ (a # 0 /\ ~ Negative(a)) <=> S32(a) > 0
      BY SignBit DEF Operands
    <2>6. /\ Taken("BEQ", "UNUSED") = Bool(a = b) /\ Taken("BNE", "UNUSED") = Bool(a # b)
          /\ Taken("BLEZ", "UNUSED") = Bool(S32(a) <= 0) /\ Taken("BGTZ", "UNUSED") = Bool(S32(a) > 0)
      <3>1. \A op \in CmpBranch :
              LET d == Latch(op, "UNUSED", 0, 0)
              IN d.ctl.alu_op = op /\ OperandA(d) = a /\ d.rt.value = b
        BY BranchControl, LatchFields DEF OperandA
      <3>2. /\ Taken("BEQ", "UNUSED") = Bool(a = b) /\ Taken("BNE", "UNUSED") = Bool(a # b)
            /\ Taken("BLEZ", "UNUSED") = Bool(a = 0 \/ Negative(a))
            /\ Taken("BGTZ", "UNUSED") = Bool(a # 0 /\ ~ Negative(a))
        BY <3>1 DEF BranchCondition, CmpBranch
      <3> QED BY <2>5, <3>2 DEF Bool
    <2>7. /\ \A f \in {"BLTZ", "BLTZAL"} : Taken("REGIMM", f) = Bool(S32(a) < 0)
          /\ \A f \in {"BGEZ", "BGEZAL"} : Taken("REGIMM", f) = Bool(S32(a) >= 0)
      <3>1. \A f \in PlainRegimm \cup LinkBranch :
              LET d == Latch("REGIMM", f, 0, 0) IN d.ctl.alu_op = "REGIMM" /\ d.ir.funct = f /\ OperandA(d) = a
        BY RegimmControl, LinkControl, LatchFields DEF OperandA
      <3>2. /\ \A f \in {"BLTZ", "BLTZAL"} : Taken("REGIMM", f) = Bool(Negative(a))
            /\ \A f \in {"BGEZ", "BGEZAL"} : Taken("REGIMM", f) = Bool(~ Negative(a))
        BY <3>1 DEF BranchCondition, PlainRegimm, LinkBranch
      <3>3. S32(a) >= 0 <=> ~ (S32(a) < 0)
        BY S32Type DEF Operands
      <3> QED BY <2>5, <3>2, <3>3 DEF Bool
    <2> QED BY <2>2, <2>3, <2>4, <2>6, <2>7 DEF Comparisons, n, extended
  <1> QED BY <1>1, OperandsAreWords, PTL

----------------------------------------------------------------------------
(* Shifts                                                                  *)

\* A word shifted right by fewer bits than it has is divided, rounding down;
\* with the mask of ones for the sign, its signed reading is.
LEMMA ShiftDivides ==
  ASSUME NEW v \in Word, NEW n \in 0 .. BITS - 1
  PROVE  /\ ShiftRight(v, n) = v \div 2 ^ n
         /\ S32(ArithmeticShiftRight(v, n)) = S32(v) \div 2 ^ n
  <1> DEFINE m == 2 ^ n
             k == 2 ^ (BITS - n)
             h == WORDS \div 2
  <1>1. h \in Nat \ {0} /\ WORDS = 2 * h /\ v \in 0 .. WORDS - 1
    BY Halves DEF Word
  <1>2. m \in Nat \ {0} /\ k \in Nat \ {0} /\ WORDS = m * k
    <2>1. BITS \in Nat \ {0} /\ n \in 0 .. BITS /\ BITS \in 0 .. BITS /\ n <= BITS
      BY WordsPositive
    <2> QED BY <2>1, PowerGrows DEF WORDS
  <1>3. ShiftRight(v, n) = v \div m /\ HighMask(n) = WORDS - k
    BY DEF ShiftRight, HighMask
  <1>4. /\ S32(v) = IF v < h THEN v ELSE v - WORDS
        /\ ArithmeticShiftRight(v, n) = IF v < h THEN v \div m ELSE U32((v \div m) + (WORDS - k))
    BY <1>3 DEF S32, ArithmeticShiftRight
  <1>5. \A w : S32(w) = IF w < h THEN w ELSE w - WORDS
    BY DEF S32
  <1>6. \A x \in - h .. h - 1 : S32(U32(x)) = x
    BY SignedOfWrapped
  <1>7. v \div m \in Int /\ v \div m \in 0 .. v
    BY <1>1, <1>2
  <1> HIDE DEF m, k, h
  <1>8. S32(ArithmeticShiftRight(v, n)) = S32(v) \div m
    <2>1. CASE v < h
      BY <1>1, <1>4, <1>5, <1>7, <2>1
    <2>2. CASE ~ (v < h)
      <3> DEFINE x == v - WORDS
                 q == (v \div m) - k
      <3>1. x \div m = q
        <4>1. (v + m * (- k)) \div m = (v \div m) + (- k)
          <5>1. - k \in Int /\ v \in Int
            BY <1>1, <1>2
          <5> QED BY <1>2, <5>1, MultipleAdded
        <4>2. v + m * (- k) = x
          BY <1>1, <1>2
        <4> QED BY <1>2, <1>7, <4>1, <4>2
      <3>2. x \in - h .. - 1
        BY <1>1, <2>2
      <3>3. q \in - h .. - 1
        <4>1. \A y \in Int : y < 0 => y <= y \div m /\ y \div m < 0
          BY <1>2
        <4> QED BY <1>1, <1>2, <1>7, <3>1, <3>2, <4>1
      <3>4. (v \div m) + (WORDS - k) = q + WORDS
        BY <1>1, <1>2, <1>7
      <3>5. S32(U32(q + WORDS)) = q
        <4>1. q \in Int /\ q \in - h .. h - 1
          BY <1>1, <3>3
        <4> HIDE DEF q
        <4>2. U32(q + WORDS) = U32(q)
          BY <4>1, WholeTurn
        <4> QED BY <1>6, <4>1, <4>2
      <3> QED BY <1>4, <2>2, <3>1, <3>4, <3>5
    <2> QED BY <2>1, <2>2
  <1> QED BY <1>3, <1>8 DEF m

\* SRA, SRAV, SRL and SRLV are divisions by powers of two.
THEOREM ShiftsDivideHolds == Spec => []ShiftsDivide
  <1>1. Operands => ShiftsDivide
    <2> SUFFICES ASSUME Operands PROVE ShiftsDivide
      OBVIOUS
    <2>1. {"SRA", "SRL", "SRAV", "SRLV"} \subseteq AluFuncts \cup MulDiv
      BY DEF AluFuncts, ShiftFuncts
    <2>2. a % BITS \in 0 .. BITS - 1
      BY WordInt, WordsPositive DEF Operands
    <2>3. ASSUME NEW n \in 0 .. BITS - 1
          PROVE  /\ S32(ResultOf(Latch("SPECIAL", "SRA", n, 0))) = S32(b) \div 2 ^ n
                 /\ ResultOf(Latch("SPECIAL", "SRL", n, 0)) = b \div 2 ^ n
      <3>1. /\ ResultOf(Latch("SPECIAL", "SRA", n, 0)) = ArithmeticShiftRight(b, n)
            /\ ResultOf(Latch("SPECIAL", "SRL", n, 0)) = ShiftRight(b, n)
        BY <2>1, SpecialAlu, SpecialCases
      <3> QED BY <3>1, ShiftDivides DEF Operands
    <2>4. /\ S32(ResultOf(SpecialOf("SRAV"))) = S32(b) \div 2 ^ (a % BITS)
          /\ ResultOf(SpecialOf("SRLV")) = b \div 2 ^ (a % BITS)
      <3>1. /\ ResultOf(SpecialOf("SRAV")) = ArithmeticShiftRight(b, a % BITS)
            /\ ResultOf(SpecialOf("SRLV")) = ShiftRight(b, a % BITS)
        BY <2>1, SpecialAlu, SpecialCases DEF SpecialOf
      <3> QED BY <2>2, <3>1, ShiftDivides DEF Operands
    <2> QED BY <2>3, <2>4 DEF ShiftsDivide
  <1> QED BY <1>1, OperandsAreWords, PTL

----------------------------------------------------------------------------
(* Sums                                                                    *)

\* Half of what ADDU, JAL and JALR add is cut off and extended, unless it is positive.
LEMMA ExtendedAddend ==
  ASSUME Operands, NEW p \in Int
  PROVE  LET n == b % HALF
             extended == U32(IF n < HALF \div 2 THEN n ELSE n - HALF)
         IN (U32(p + sign_extend_16(b)) = U32(p + b)) <=> (n < HALF \div 2 \/ b = extended)
  <1> DEFINE n == b % HALF
             extended == U32(IF n < HALF \div 2 THEN n ELSE n - HALF)
  <1>1. sign_extend_16(b) = IF n < HALF \div 2 THEN b ELSE extended
    BY DEF sign_extend_16, SignExtendTo
  <1>2. sign_extend_16(b) \in Word /\ b \in Word
    BY SignExtend16Type DEF Operands
  <1> HIDE DEF n, extended
  <1>3. (U32(p + sign_extend_16(b)) = U32(p + b)) <=> sign_extend_16(b) = b
    BY <1>2, SumsDiffer
  <1>4. (U32(p + sign_extend_16(b)) = U32(p + b)) <=> (n < HALF \div 2 \/ b = extended)
    BY <1>1, <1>3
  <1> QED BY <1>4 DEF n, extended

\* What decode makes of JAL and JALR: 4 and the address of the call, added as
\* the offset of a load is.
LEMMA CallLatch ==
  /\ ResultOf(CallOf("JAL", "UNUSED")) = U32(U32(4) + sign_extend_16(b))
  /\ ResultOf(CallOf("SPECIAL", "JALR")) = U32(U32(4) + sign_extend_16(b))
  <1>1. ASSUME NEW op, NEW f, (op = "JAL" /\ f = "UNUSED") \/ (op = "SPECIAL" /\ f = "JALR")
        PROVE  ResultOf(CallOf(op, f)) = U32(U32(4) + sign_extend_16(b))
    <2> DEFINE i == [Nop EXCEPT !.opcode = op, !.funct = f]
               d == [EmptyIdEx(1) EXCEPT !.pc = b, !.ir = i]
               c == [d EXCEPT !.ctl = ControlOf(i, d.ctl), !.run_bit = IF Known(i) THEN 1 ELSE d.run_bit]
               e == CallOf(op, f)
    <2>1. i.opcode = op /\ i.funct = f
      BY IrFields
    <2>2. /\ d.ir = i /\ d.pc = b /\ d.rs = Zero /\ d.rt = Zero
          /\ DOMAIN d = {"rs", "rt", "rd", "hi", "lo", "ir", "pc", "jumpAddress", "ctl", "run_bit"}
      BY DEF EmptyIdEx
    <2>3. e = SetupControlSignals(d)
      BY DEF CallOf
    <2>4. c.ctl = ControlOf(i, d.ctl) /\ c.rs = Zero /\ c.rt = Zero /\ DOMAIN c = DOMAIN d
      BY <2>2
    <2> HIDE DEF i
    <2>5. /\ i.opcode \notin ImmOps \cup {"LUI"} /\ i.opcode \notin CmpBranch
          /\ i.opcode \notin Loads /\ i.opcode \notin Stores /\ i.opcode # "J"
          /\ ~ Regimm(i, LinkBranch) /\ ~ Regimm(i, PlainRegimm)
          /\ ~ Special(i, {"SYSCALL"}) /\ ~ Special(i, {"JR"}) /\ ~ Special(i, {"MTHI"}) /\ ~ Special(i, {"MTLO"})
          /\ Known(i) /\ (Special(i, {"JALR"}) \/ i.opcode = "JAL")
          /\ ~ (i.opcode = "SPECIAL" /\ Known(i) /\ ~ Special(i, {"SYSCALL", "JR", "JALR"}))
      BY <1>1, <2>1 DEF ImmOps, CmpBranch, Loads, Stores, Regimm, Special, Known, RegJumps
    <2>6. ControlOf(i, d.ctl) = Link
      BY <2>5 DEF ControlOf
    <2> HIDE DEF d, e
    <2>7. \/ e = [c EXCEPT !.jumpAddress = d.rs.value, !.rt.value = d.pc, !.rs.value = U32(4)]
          \/ e = [c EXCEPT !.jumpAddress = U32(4 * i.label), !.rd = R_RA, !.rt.value = d.pc, !.rs.value = U32(4)]
      BY <2>2, <2>3, <2>5 DEF SetupControlSignals
    <2> HIDE DEF c
    <2>8. e.ctl = Link /\ e.rs.value = U32(4) /\ e.rt.value = b
      <3>1. /\ c.ctl = Link /\ c.rs = [index |-> 0, value |-> 0] /\ c.rt = [index |-> 0, value |-> 0]
            /\ "ctl" \in DOMAIN c /\ "rs" \in DOMAIN c /\ "rt" \in DOMAIN c /\ d.pc = b
        BY <2>2, <2>4, <2>6 DEF Zero
      <3>2. ASSUME NEW x, NEW y
            PROVE  LET n == [c EXCEPT !.jumpAddress = x, !.rt.value = b, !.rs.value = y]
                   IN n.ctl = Link /\ n.rs.value = y /\ n.rt.value = b
        BY <3>1
      <3>3. ASSUME NEW x, NEW y, NEW z
            PROVE  LET n == [c EXCEPT !.jumpAddress = x, !.rd = z, !.rt.value = b, !.rs.value = y]
                   IN n.ctl = Link /\ n.rs.value = y /\ n.rt.value = b
        BY <3>1
      <3> QED BY <2>7, <3>1, <3>2, <3>3
    <2>9. Link.alu_op = "LB" /\ Link.alu_src = 0
      BY DEF Link, RdWrite, NoControl
    <2>10. OperandA(e) = U32(4) /\ OperandB(e) = b /\ e.ctl.alu_op = "LB"
      BY <2>8, <2>9 DEF OperandA, OperandB
    <2>11. ImmResult(e, U32(4), b, 0) = U32(U32(4) + sign_extend_16(b))
      BY <2>10, ImmCases DEF Loads
    <2> QED BY <2>10, <2>11 DEF ResultOf, AluResult, e
  <1>2. ResultOf(CallOf("JAL", "UNUSED")) = U32(U32(4) + sign_extend_16(b))
    BY <1>1
  <1>3. ResultOf(CallOf("SPECIAL", "JALR")) = U32(U32(4) + sign_extend_16(b))
    BY <1>1
  <1> QED BY <1>2, <1>3

\* ADD, the addresses of loads and stores, and ADDIU are sums; ADDU, JAL and
\* JALR are sums of what they are given exactly when the low half is positive
\* or all there is.
THEOREM AdditionsHold == Spec => []Additions
  <1>1. Operands => Additions
    <2> SUFFICES ASSUME Operands PROVE Additions
      OBVIOUS
    <2> DEFINE n == b % HALF
               extended == U32(IF n < HALF \div 2 THEN n ELSE n - HALF)
               Adds == n < HALF \div 2 \/ b = extended
    <2>1. n \in 0 .. HALF - 1 /\ sign_extend_16(n) = extended
      BY LowHalf
    <2>2. a \in Int /\ b \in Int
      BY WordInt DEF Operands
    <2>3. (U32(a + sign_extend_16(b)) = U32(a + b)) <=> Adds
      BY <2>2, ExtendedAddend
    <2>4. (U32(U32(4) + sign_extend_16(b)) = U32(U32(4) + b)) <=> Adds
      <3>1. U32(4) \in Int
        <4>1. 4 \in Int
          OBVIOUS
        <4>2. U32(4) \in Word
          BY <4>1, U32Type
        <4> QED BY <4>2, WordIsInt
      <3> QED BY <3>1, ExtendedAddend
    <2>5. U32(U32(4) + b) = U32(b + 4)
      <3>1. 4 \in Word
        <4>1. BYTE >= 2 /\ HALF = BYTE * BYTE /\ WORDS = HALF * HALF /\ BYTE \in Nat /\ HALF \in Nat
          BY Widths, HalfByte
        <4>2. HALF >= 4
          BY <4>1
        <4>3. WORDS >= 16
          BY <4>1, <4>2
        <4> QED BY <4>3, WordsPositive DEF Word
      <3>2. U32(4) + b = b + 4
        BY <2>2, <3>1, U32Word
      <3> QED BY <3>2
    <2> HIDE DEF n, extended, Adds
    <2>6. ResultOf(SpecialOf("ADD")) = U32(a + b) /\ ResultOf(SpecialOf("ADDU")) = U32(a + sign_extend_16(b))
      <3>1. {"ADD", "ADDU"} \subseteq AluFuncts \cup MulDiv
        BY DEF AluFuncts
      <3> QED BY <3>1, SpecialAlu, SpecialCases DEF SpecialOf
    <2>7. ResultOf(ImmOf("ADDIU", n)) = U32(a + extended)
      <3>1. "ADDIU" \in ImmOps \cup Loads
        BY DEF ImmOps
      <3> QED BY <2>1, <3>1, ImmAlu, ImmCases
    <2>8. ASSUME NEW op \in Loads \cup Stores PROVE ResultOf(ImmOf(op, n)) = U32(a + extended)
      <3>1. CASE op \in Loads
        BY <2>1, <3>1, ImmAlu, ImmCases
      <3>2. CASE op \in Stores
        <4> DEFINE d == ImmOf(op, n)
        <4>1. d.ctl.alu_op = op /\ d.rs.value = a /\ d.ir.imm = n
          BY <3>2, StoreLatch
        <4>2. op # "SPECIAL" /\ op # "REGIMM"
          BY <3>2 DEF Stores
        <4> HIDE DEF d
        <4>3. Effective(d) = U32(a + extended)
          BY <2>1, <4>1 DEF Effective
        <4>4. AluResult(d, 0) = ImmResult(d, OperandA(d), OperandB(d), 0)
          BY <4>1, <4>2 DEF AluResult
        <4>5. AluResult(d, 0) = Effective(d)
          BY <3>2, <4>1, <4>4, ImmCases
        <4> QED BY <4>3, <4>5 DEF ResultOf, d
      <3> QED BY <3>1, <3>2
    <2>9. ASSUME NEW call \in {CallOf("JAL", "UNUSED"), CallOf("SPECIAL", "JALR")}
          PROVE  (ResultOf(call) = U32(b + 4)) <=> Adds
      BY <2>4, <2>5, CallLatch
    <2> QED BY <2>3, <2>6, <2>7, <2>8, <2>9 DEF Additions, n, extended, Adds
  <1> QED BY <1>1, OperandsAreWords, PTL

----------------------------------------------------------------------------
(* Stores and loads                                                        *)

\* A word stored in a granule comes back shifted by the low three bits of the
\* address, modulo 4 bytes.
LEMMA GranuleRoundTrip ==
  ASSUME Operands, NEW address \in 8 .. 15, NEW v \in Word
  PROVE  LET back == ReadGranule(WriteGranule([g \in Granule |-> a], address, v), address)
         IN /\ back = v \div 2 ^ (B * (address % 4)) /\ back \in Word
            /\ 2 ^ (B * (address % 4)) \in Nat \ {0}
  <1> DEFINE n == B * (address % 4)
  <1>1. GranuleOf(address) \in Granule
    <2>1. address \div 8 \in Int
      OBVIOUS
    <2> QED BY <2>1, GranuleAssumption DEF GranuleOf, Granule
  <1>2. n \in 0 .. BITS - 1 /\ BITS \in Nat \ {0} /\ B \in Nat \ {0} /\ BITS = 4 * B
    <2>1. address % 4 \in 0 .. 3
      OBVIOUS
    <2>2. B * 0 = 0 /\ B * 1 = B /\ B * 2 = B + B /\ B * 3 = B + B + B /\ BITS = B + B + B + B
      BY ByteAssumption DEF BITS
    <2> QED BY <2>1, <2>2, ByteAssumption DEF BITS
  <1>3. ShiftOf(address) = n
    <2>1. ChipId(address) = address % 4 \/ ChipId(address) = (address % 4) + 4
      BY DEF ChipId
    <2>2. B * ((address % 4) + 4) = n + BITS
      <3>1. address % 4 \in Int
        OBVIOUS
      <3> QED BY <1>2, <3>1
    <2> HIDE DEF n
    <2>3. n % BITS = n /\ (n + BITS) % BITS = n
      BY <1>2
    <2> QED BY <2>1, <2>2, <2>3 DEF ShiftOf, n
  <1>4. WriteGranule([g \in Granule |-> a], address, v)[GranuleOf(address)] = v
    BY <1>1 DEF WriteGranule
  <1> HIDE DEF n
  <1>5. 2 ^ n \in Nat \ {0}
    BY <1>2, PowerAssumption
  <1>6. ReadGranule(WriteGranule([g \in Granule |-> a], address, v), address) = v \div 2 ^ n
    BY <1>3, <1>4 DEF ReadGranule, ShiftRight
  <1>7. v \div 2 ^ n \in Word
    BY <1>5, QuotientType
  <1> QED BY <1>5, <1>6, <1>7 DEF n

\* What a store of each size writes, and what a load of each makes of a word.
LEMMA StoreLoadCases ==
  ASSUME NEW content
  PROVE  /\ StoreValue(ImmOf("SB", 0), 0) = b % BYTE /\ StoreValue(ImmOf("SH", 0), 0) = b % HALF
         /\ StoreValue(ImmOf("SW", 0), 0) = b
         /\ LoadedValue(content, LoadSize(ImmOf("LB", 0), 0), IsLoadSigned(ImmOf("LB", 0), 0))
              = sign_extend_8(content % BYTE)
         /\ LoadedValue(content, LoadSize(ImmOf("LH", 0), 0), IsLoadSigned(ImmOf("LH", 0), 0))
              = sign_extend_16(content % HALF)
         /\ LoadedValue(content, LoadSize(ImmOf("LBU", 0), 0), IsLoadSigned(ImmOf("LBU", 0), 0)) = content % BYTE
         /\ LoadedValue(content, LoadSize(ImmOf("LHU", 0), 0), IsLoadSigned(ImmOf("LHU", 0), 0)) = content % HALF
         /\ LoadedValue(content, LoadSize(ImmOf("LW", 0), 0), IsLoadSigned(ImmOf("LW", 0), 0)) = content % WORDS
  <1>1. \A op \in Stores : ImmOf(op, 0).ctl.alu_op = op /\ ImmOf(op, 0).rt.value = b
    BY StoreLatch
  <1>2. \A op \in Loads : ImmOf(op, 0).ctl.alu_op = op
    BY ImmLatch
  <1>3. /\ StoreValue(ImmOf("SB", 0), 0) = b % BYTE /\ StoreValue(ImmOf("SH", 0), 0) = b % HALF
        /\ StoreValue(ImmOf("SW", 0), 0) = b
    BY <1>1 DEF StoreValue, Stores
  <1>4. /\ LoadSize(ImmOf("LB", 0), 0) = BYTE /\ LoadSize(ImmOf("LBU", 0), 0) = BYTE
        /\ LoadSize(ImmOf("LH", 0), 0) = HALF /\ LoadSize(ImmOf("LHU", 0), 0) = HALF
        /\ LoadSize(ImmOf("LW", 0), 0) = WORDS
    BY <1>2 DEF LoadSize, Loads
  <1>5. /\ IsLoadSigned(ImmOf("LB", 0), 0) = 1 /\ IsLoadSigned(ImmOf("LBU", 0), 0) = 0
        /\ IsLoadSigned(ImmOf("LH", 0), 0) = 1 /\ IsLoadSigned(ImmOf("LHU", 0), 0) = 0
        /\ IsLoadSigned(ImmOf("LW", 0), 0) = 0
    BY <1>2 DEF IsLoadSigned, Loads, Bool
  <1>6. BYTE # HALF
    BY Widths, HalfByte
  <1>7. /\ LoadedValue(content, BYTE, 1) = sign_extend_8(content % BYTE)
        /\ LoadedValue(content, HALF, 1) = sign_extend_16(content % HALF)
        /\ \A size : LoadedValue(content, size, 0) = content % size
    BY <1>6 DEF LoadedValue
  <1> QED BY <1>3, <1>4, <1>5, <1>7

\* Every size of store, read back by every size of load, at every address.
THEOREM SubwordRoundTripHolds == Spec => []SubwordRoundTrip
  <1>1. Operands => SubwordRoundTrip
    <2> SUFFICES ASSUME Operands, NEW store \in Stores, NEW load \in Loads, NEW address \in 8 .. 15
                 PROVE  LET stored == WriteGranule([g \in Granule |-> a], address, StoreValue(ImmOf(store, 0), 0))
                            part   == b % SizeOf(store)
                            size   == SizeOf(load)
                            seen   == (part \div 2 ^ (B * (address % 4))) % size
                            signed == IF seen < size \div 2 THEN seen ELSE seen - size
                        IN LoadedValue(ReadGranule(stored, address), LoadSize(ImmOf(load, 0), 0),
                                       IsLoadSigned(ImmOf(load, 0), 0))
                             = IF load \in {"LB", "LH"} THEN U32(signed) ELSE seen
      BY DEF SubwordRoundTrip
    <2> DEFINE v    == StoreValue(ImmOf(store, 0), 0)
               part == b % SizeOf(store)
               read == ReadGranule(WriteGranule([g \in Granule |-> a], address, v), address)
               size == SizeOf(load)
               seen == (part \div 2 ^ (B * (address % 4))) % size
               back == LoadedValue(read, LoadSize(ImmOf(load, 0), 0), IsLoadSigned(ImmOf(load, 0), 0))
    <2>1. b \in Word /\ b \in Int /\ b % WORDS = b
      BY WordInt, U32Word DEF Operands, U32
    <2>2. v = part
      <3>1. SizeOf("SB") = BYTE /\ SizeOf("SH") = HALF /\ SizeOf("SW") = WORDS
        BY DEF SizeOf
      <3> QED BY <2>1, <3>1, StoreLoadCases DEF Stores
    <2>3. v \in Word
      <3>1. BYTE \in Nat \ {0} /\ HALF \in Nat \ {0}
        BY HalfByte
      <3>2. b % BYTE \in Word /\ b % HALF \in Word
        BY <2>1, <3>1, RemainderType
      <3> QED BY <2>1, <3>2, StoreLoadCases DEF Stores
    <2>4. read = part \div 2 ^ (B * (address % 4)) /\ read \in Word
      <3> HIDE DEF v
      <3>1. read = v \div 2 ^ (B * (address % 4)) /\ read \in Word
        BY <2>3, GranuleRoundTrip
      <3> HIDE DEF read, part
      <3> QED BY <2>2, <3>1
    <2>5. seen = read % size
      BY <2>4
    <2>6. ASSUME NEW m \in {BYTE, HALF}
          PROVE  SignExtendTo(read % m, m) = U32(SignedPart(read % m, m))
      <3>1. m \in Nat \ {0} /\ read \in Int
        BY <2>4, HalfByte, WordIsInt
      <3> HIDE DEF read
      <3>2. read % m \in 0 .. m - 1
        BY <3>1
      <3> QED BY <3>2, PartExtended
    <2> HIDE DEF v, part, read, seen
    <2>7. CASE load = "LB"
      <3>1. size = BYTE /\ back = sign_extend_8(read % BYTE)
        BY <2>7, StoreLoadCases DEF SizeOf
      <3> QED BY <2>5, <2>6, <2>7, <3>1 DEF sign_extend_8, SignedPart, v, part, read, seen
    <2>8. CASE load = "LH"
      <3>1. size = HALF /\ back = sign_extend_16(read % HALF)
        BY <2>8, StoreLoadCases DEF SizeOf
      <3> QED BY <2>5, <2>6, <2>8, <3>1 DEF sign_extend_16, SignedPart, v, part, read, seen
    <2>9. CASE load \in {"LBU", "LHU", "LW"}
      <3>1. back = read % size
        BY <2>9, StoreLoadCases DEF SizeOf
      <3> QED BY <2>5, <2>9, <3>1 DEF v, part, read, seen
    <2> QED BY <2>7, <2>8, <2>9 DEF Loads
  <1> QED BY <1>1, OperandsAreWords, PTL

----------------------------------------------------------------------------
(* Division                                                                *)

\* C division of integers: what quotient and remainder are.
LEMMA TruncatedDivision ==
  ASSUME NEW x \in Int, NEW y \in Int, y # 0
  PROVE  LET q == Quotient(x, y)
             r == Remainder(x, y)
         IN /\ q \in Int /\ r \in Int /\ q * y + r = x
            /\ Abs(r) < Abs(y) /\ (r # 0 => ((r < 0) <=> (x < 0)))
            /\ Abs(q) <= Abs(x) /\ (Abs(q) = Abs(x) /\ x # 0 => y = 1 \/ y = -1)
  <1> DEFINE s == Abs(x)
             t == Abs(y)
             k == s \div t
             m == s % t
  <1>1. s \in Nat /\ t \in Nat \ {0}
    BY DEF Abs
  <1>2. k \in Int /\ m \in 0 .. t - 1 /\ s = t * k + m
    <2> HIDE DEF s, t
    <2>1. s \in Int
      BY <1>1
    <2> QED BY <1>1, <2>1, DivisionFacts
  <1>3. /\ Quotient(x, y) = (IF (x < 0) = (y < 0) THEN k ELSE - k)
        /\ Remainder(x, y) = IF x < 0 THEN - m ELSE m
    BY DEF Quotient, Remainder
  <1>4. (x < 0) = (y < 0) <=> ((x < 0) <=> (y < 0))
    OBVIOUS
  <1>5. s = (IF x < 0 THEN - x ELSE x) /\ t = IF y < 0 THEN - y ELSE y
    BY DEF Abs
  <1>6. \A w \in Int : Abs(w) = IF w < 0 THEN - w ELSE w
    BY DEF Abs
  <1> DEFINE q == Quotient(x, y)
             r == Remainder(x, y)
  <1> HIDE DEF s, t, k, m, q, r
  <1>7. k >= 0
    <2> SUFFICES ASSUME k <= -1 PROVE FALSE
      BY <1>2
    <2>1. t * k <= - t
      BY <1>1, <1>2
    <2> QED BY <1>1, <1>2, <2>1
  <1>8. k <= t * k /\ t * k <= s
    BY <1>1, <1>2, <1>7
  <1>9. q = (IF (x < 0) <=> (y < 0) THEN k ELSE - k) /\ r = (IF x < 0 THEN - m ELSE m)
    BY <1>3, <1>4 DEF q, r
  <1>10. q \in Int /\ r \in Int
    BY <1>1, <1>2, <1>9
  <1>11. q * y + r = x
    <2>1. k * t + m = s /\ (- k) * (- t) = k * t /\ (- k) * t = - (k * t) /\ k * (- t) = - (k * t)
      BY <1>1, <1>2
    <2>2. CASE x < 0 /\ y < 0
      BY <1>1, <1>2, <1>5, <1>9, <2>1, <2>2
    <2>3. CASE x < 0 /\ ~ (y < 0)
      BY <1>1, <1>2, <1>5, <1>9, <2>1, <2>3
    <2>4. CASE ~ (x < 0) /\ y < 0
      BY <1>1, <1>2, <1>5, <1>9, <2>1, <2>4
    <2>5. CASE ~ (x < 0) /\ ~ (y < 0)
      BY <1>1, <1>2, <1>5, <1>9, <2>1, <2>5
    <2> QED BY <2>2, <2>3, <2>4, <2>5
  <1>12. Abs(r) = m /\ Abs(q) = k /\ Abs(x) = s /\ Abs(y) = t
    BY <1>2, <1>5, <1>6, <1>7, <1>9, <1>10
  <1>13. Abs(r) < Abs(y) /\ (r # 0 => ((r < 0) <=> (x < 0))) /\ Abs(q) <= Abs(x)
    BY <1>1, <1>2, <1>8, <1>9, <1>12
  <1>14. Abs(q) = Abs(x) /\ x # 0 => y = 1 \/ y = -1
    <2> SUFFICES ASSUME k = s, x # 0 PROVE y = 1 \/ y = -1
      BY <1>12
    <2>1. s > 0
      BY <1>5
    <2>2. t * k = k /\ k > 0
      BY <1>1, <1>2, <1>8, <2>1
    <2>3. ~ (t >= 2)
      <3> SUFFICES ASSUME t >= 2 PROVE FALSE
        OBVIOUS
      <3>1. t * k >= 2 * k
        BY <1>1, <1>2, <2>2
      <3> QED BY <1>2, <2>2, <3>1
    <2> QED BY <1>1, <1>5, <2>3
  <1> QED BY <1>10, <1>11, <1>13, <1>14 DEF q, r

\* Where the division does not trap, quotient and remainder fit in 32 bits.
LEMMA QuotientFits ==
  ASSUME NEW v \in Word, NEW w \in Word, w # 0, ~ (v = WORDS \div 2 /\ w = WORDS - 1)
  PROVE  /\ S32(U32(Quotient(S32(v), S32(w)))) = Quotient(S32(v), S32(w))
         /\ S32(U32(Remainder(S32(v), S32(w)))) = Remainder(S32(v), S32(w))
  <1> DEFINE h == WORDS \div 2
             x == S32(v)
             y == S32(w)
             q == Quotient(x, y)
             r == Remainder(x, y)
  <1>1. h \in Nat \ {0} /\ WORDS = 2 * h /\ v \in 0 .. WORDS - 1 /\ w \in 0 .. WORDS - 1
    BY Halves DEF Word
  <1>2. x = (IF v < h THEN v ELSE v - WORDS) /\ y = (IF w < h THEN w ELSE w - WORDS)
    BY DEF S32
  <1>3. ~ (v = h /\ w = WORDS - 1)
    OBVIOUS
  <1> HIDE DEF h, x, y
  <1>4. x \in - h .. h - 1 /\ y \in - h .. h - 1 /\ y # 0
    BY <1>1, <1>2
  <1>5. ~ (x = - h /\ y = -1)
    BY <1>1, <1>2, <1>3
  <1>6. /\ q \in Int /\ r \in Int /\ Abs(r) < Abs(y) /\ Abs(q) <= Abs(x)
        /\ (Abs(q) = Abs(x) /\ x # 0 => y = 1 \/ y = -1)
        /\ q * y + r = x /\ (r # 0 => ((r < 0) <=> (x < 0)))
    <2>1. x \in Int /\ y \in Int
      BY <1>1, <1>4
    <2> QED BY <1>4, <2>1, TruncatedDivision
  <1> HIDE DEF q, r
  <1>7. \A u \in Int : Abs(u) = IF u < 0 THEN - u ELSE u
    BY DEF Abs
  <1>8. Abs(x) <= h /\ Abs(y) <= h /\ (Abs(x) = h => x = - h)
    BY <1>1, <1>4, <1>7
  <1>9. r \in - h .. h - 1
    <2>1. Abs(r) < h /\ Abs(y) \in Int /\ Abs(r) \in Int
      BY <1>1, <1>4, <1>6, <1>7, <1>8
    <2> QED BY <1>1, <1>6, <1>7, <2>1
  <1>10. q \in - h .. h - 1
    <2>1. Abs(q) <= h /\ Abs(q) \in Int
      BY <1>1, <1>4, <1>6, <1>7, <1>8
    <2>2. q # h
      <3> SUFFICES ASSUME q = h PROVE FALSE
        OBVIOUS
      <3>1. Abs(q) = h /\ Abs(x) = h /\ x = - h /\ x # 0
        BY <1>1, <1>4, <1>6, <1>7, <1>8
      <3>2. y = 1
        BY <1>5, <1>6, <3>1
      <3>3. q * 1 + r = x /\ Abs(r) < 1
        BY <1>6, <1>7, <3>2
      <3>4. r = 0
        BY <1>6, <1>7, <3>3
      <3> QED BY <1>1, <3>1, <3>3, <3>4
    <2> QED BY <1>1, <1>6, <1>7, <2>1, <2>2
  <1> QED BY <1>9, <1>10, SignedOfWrapped DEF h, q, r, x, y

\* What the division instructions leave in HI and LO.
LEMMA DivisionResults ==
  ASSUME Operands
  PROVE  /\ b # 0 => /\ HiOf(SpecialOf("DIVU")) = U32(a % b) /\ LoOf(SpecialOf("DIVU")) = U32(a \div b)
                     /\ HiOf(SpecialOf("DIV")) = U32(Remainder(S32(a), S32(b)))
                     /\ LoOf(SpecialOf("DIV")) = U32(Quotient(S32(a), S32(b)))
                     /\ Traps(SpecialOf("DIV")) <=> a = WORDS \div 2 /\ b = WORDS - 1
         /\ b = 0 => \A f \in {"DIV", "DIVU"} :
                       HiAfter(SpecialOf(f)) = Keep(0) /\ LoAfter(SpecialOf(f)) = Keep(0)
  <1>1. ASSUME NEW f \in {"DIV", "DIVU"}
        PROVE  LET d == SpecialOf(f)
               IN /\ d.ctl.alu_op = "SPECIAL" /\ OperandA(d) = a /\ OperandB(d) = b
                  /\ d.ir.funct = f /\ d.hi = 0 /\ d.lo = 0
    <2>1. f \in AluFuncts \cup MulDiv
      BY DEF MulDiv
    <2> QED BY <2>1, SpecialLatch DEF SpecialOf
  <1>2. ASSUME NEW f \in {"DIV", "DIVU"}, NEW S
        PROVE  /\ RunsSpecial(SpecialOf(f), S) <=> f \in S
               /\ Divides(SpecialOf(f), S) <=> f \in S /\ b # 0
    BY <1>1 DEF RunsSpecial, Divides
  <1>3. ASSUME b # 0
        PROVE  /\ HiAfter(SpecialOf("DIVU")) = Set(a % b) /\ LoAfter(SpecialOf("DIVU")) = Set(a \div b)
               /\ HiAfter(SpecialOf("DIV")) = Set(Remainder(S32(a), S32(b)))
               /\ LoAfter(SpecialOf("DIV")) = Set(Quotient(S32(a), S32(b)))
    BY <1>1, <1>2, <1>3 DEF HiAfter, LoAfter
  <1>4. ASSUME b = 0, NEW f \in {"DIV", "DIVU"}
        PROVE  HiAfter(SpecialOf(f)) = Keep(0) /\ LoAfter(SpecialOf(f)) = Keep(0)
    BY <1>1, <1>2, <1>4 DEF HiAfter, LoAfter
  <1>5. ASSUME b # 0 PROVE Traps(SpecialOf("DIV")) <=> a = WORDS \div 2 /\ b = WORDS - 1
    BY <1>1, <1>2, <1>5 DEF Traps
  <1> QED BY <1>3, <1>4, <1>5 DEF HiOf, LoOf, Set

\* DIV, except the one that traps, and DIVU divide; by 0 they do nothing.
THEOREM DivisionsHold == Spec => []Divisions
  <1>1. Operands => Divisions
    <2> SUFFICES ASSUME Operands PROVE Divisions
      OBVIOUS
    <2>1. CASE b = 0
      BY <2>1, DivisionResults DEF Divisions
    <2>2. CASE b # 0
      <3>1. a \in Word /\ b \in Word /\ a \in Nat /\ b \in Nat \ {0} /\ a \in Int
        BY <2>2, WordInt DEF Operands
      <3>2. /\ LoOf(SpecialOf("DIVU")) * b + HiOf(SpecialOf("DIVU")) = a
            /\ HiOf(SpecialOf("DIVU")) < b
        <4>1. a % b \in Word /\ a \div b \in Word /\ a % b < b
          BY <3>1, RemainderType, QuotientType
        <4>2. HiOf(SpecialOf("DIVU")) = a % b /\ LoOf(SpecialOf("DIVU")) = a \div b
          BY <2>2, <4>1, DivisionResults, U32Word
        <4>3. a = b * (a \div b) + (a % b)
          BY <3>1, DivisionFacts
        <4>4. (a \div b) * b = b * (a \div b)
          <5>1. a \div b \in Int
            BY <4>1, WordIsInt
          <5> QED BY <3>1, <5>1
        <4> QED BY <4>1, <4>2, <4>3, <4>4
      <3>3. ASSUME ~ Traps(SpecialOf("DIV"))
            PROVE  LET q == S32(LoOf(SpecialOf("DIV")))
                       r == S32(HiOf(SpecialOf("DIV")))
                   IN /\ q * S32(b) + r = S32(a) /\ Abs(r) < Abs(S32(b))
                      /\ r # 0 => (r < 0) = (S32(a) < 0)
        <4> DEFINE x == S32(a)
                   y == S32(b)
                   q == Quotient(x, y)
                   r == Remainder(x, y)
        <4>1. ~ (a = WORDS \div 2 /\ b = WORDS - 1)
          BY <2>2, <3>3, DivisionResults
        <4>2. S32(LoOf(SpecialOf("DIV"))) = q /\ S32(HiOf(SpecialOf("DIV"))) = r
          BY <2>2, <3>1, <4>1, DivisionResults, QuotientFits
        <4>3. x \in Int /\ y \in Int /\ y # 0
          <5>1. y # 0
            <6>1. WORDS \in Nat \ {0} /\ b \in 0 .. WORDS - 1
              BY <3>1, WordsPositive DEF Word
            <6> QED BY <2>2, <6>1 DEF S32
          <5> QED BY <3>1, <5>1, S32Type
        <4> HIDE DEF x, y
        <4>4. q * y + r = x /\ Abs(r) < Abs(y) /\ (r # 0 => ((r < 0) <=> (x < 0)))
          BY <4>3, TruncatedDivision
        <4>5. r # 0 => (r < 0) = (x < 0)
          BY <4>4
        <4> QED BY <4>2, <4>4, <4>5 DEF x, y
      <3> QED BY <2>2, <3>2, <3>3 DEF Divisions
    <2> QED BY <2>1, <2>2
  <1> QED BY <1>1, OperandsAreWords, PTL

----------------------------------------------------------------------------
(* Products                                                                *)

\* Numbers with one remainder that are less than the divisor apart are one.
LEMMA OneRemainder ==
  ASSUME NEW n \in Nat \ {0}, NEW x \in Int, NEW y \in Int, x % n = y % n, x - y < n, y - x < n
  PROVE  x = y
  <1> DEFINE j == x \div n
             k == y \div n
             r == x % n
  <1>1. j \in Int /\ r \in 0 .. n - 1 /\ x = n * j + r
    BY DivisionFacts
  <1>2. k \in Int /\ y = n * k + r
    BY DivisionFacts
  <1> HIDE DEF j, k, r
  <1>3. x - y = n * (j - k) /\ j - k \in Int
    BY <1>1, <1>2
  <1>4. ~ (j - k >= 1)
    <2> SUFFICES ASSUME j - k >= 1 PROVE FALSE
      OBVIOUS
    <2>1. n * (j - k) >= n
      BY <1>3
    <2> QED BY <1>3, <2>1
  <1>5. ~ (j - k <= -1)
    <2> SUFFICES ASSUME j - k <= -1 PROVE FALSE
      OBVIOUS
    <2>1. n * (j - k) <= - n
      BY <1>3
    <2> QED BY <1>3, <2>1
  <1>6. j - k = 0
    BY <1>3, <1>4, <1>5
  <1> QED BY <1>1, <1>2, <1>3, <1>6

\* The square of the number of words.
SquareOfWords == WORDS * WORDS

\* A product of two signed words is far from the square in magnitude.
LEMMA ProductRange ==
  ASSUME NEW v \in Word, NEW w \in Word
  PROVE  /\ S32(v) * S32(w) \in Int /\ SquareOfWords \in Nat \ {0}
         /\ S32(v) * S32(w) + WORDS < SquareOfWords /\ WORDS - S32(v) * S32(w) < SquareOfWords
         /\ v * w \in Nat /\ v * w < SquareOfWords
  <1> DEFINE h == WORDS \div 2
             x == S32(v)
             y == S32(w)
  <1>1. h \in Nat \ {0} /\ WORDS = 2 * h /\ v \in 0 .. WORDS - 1 /\ w \in 0 .. WORDS - 1
    BY Halves DEF Word
  <1>2. x \in - h .. h - 1 /\ y \in - h .. h - 1
    BY SignedRange
  <1>3. h >= 2
    <2>1. BYTE >= 2 /\ HALF = BYTE * BYTE /\ WORDS = HALF * HALF /\ BYTE \in Nat /\ HALF \in Nat
      BY Widths, HalfByte
    <2>2. HALF >= 4
      BY <2>1
    <2>3. WORDS >= 16
      BY <2>1, <2>2
    <2> QED BY <1>1, <2>3
  <1> HIDE DEF h, x, y
  <1>4. h * h \in Nat /\ h * h >= 2 * h
    BY <1>1, <1>3
  <1>5. SquareOfWords = 4 * (h * h)
    BY <1>1 DEF SquareOfWords
  <1>6. x * y \in Int /\ x * y <= h * h /\ x * y >= - (h * h)
    <2>1. \A s, t \in Nat : s <= h /\ t <= h => s * t \in Nat /\ s * t <= h * h
      <3> SUFFICES ASSUME NEW s \in Nat, NEW t \in Nat, s <= h, t <= h PROVE s * t \in Nat /\ s * t <= h * h
        OBVIOUS
      <3>1. s * t <= h * t /\ h * t <= h * h
        BY <1>1
      <3> QED BY <1>1, <3>1
    <2>2. PICK s \in Nat, t \in Nat : (x = s \/ x = - s) /\ (y = t \/ y = - t) /\ s <= h /\ t <= h
      <3>1. PICK s \in Nat : (x = s \/ x = - s) /\ s <= h
        BY <1>1, <1>2
      <3>2. PICK t \in Nat : (y = t \/ y = - t) /\ t <= h
        BY <1>1, <1>2
      <3> QED BY <3>1, <3>2
    <2>3. s * t \in Nat /\ s * t <= h * h
      BY <2>1, <2>2
    <2>4. x * y = s * t \/ x * y = - (s * t)
      BY <2>2
    <2> QED BY <1>4, <2>3, <2>4
  <1>7. v * w \in Nat /\ v * w < SquareOfWords
    <2>1. v * w <= (WORDS - 1) * w /\ (WORDS - 1) * w <= (WORDS - 1) * (WORDS - 1)
      BY <1>1
    <2>2. (WORDS - 1) * (WORDS - 1) < WORDS * WORDS
      BY <1>1
    <2> QED BY <1>1, <2>1, <2>2 DEF SquareOfWords
  <1> QED BY <1>1, <1>4, <1>5, <1>6, <1>7 DEF x, y

\* HI and LO as MULT fills them, for a product p that wraps to the word w,
\* are the product modulo the square exactly when p is what w reads as.
LEMMA SignedPair ==
  ASSUME NEW p \in Int, p + WORDS < SquareOfWords, WORDS - p < SquareOfWords,
         SquareOfWords \in Nat \ {0}
  PROVE  LET w == U32(p)
             hi == IF S32(w) < 0 THEN WORDS - 1 ELSE 0
         IN (hi * WORDS + w = p % SquareOfWords) <=> (p >= - (WORDS \div 2) /\ p < WORDS \div 2)
  <1> DEFINE w == U32(p)
             s == S32(w)
             h == WORDS \div 2
             hi == IF s < 0 THEN WORDS - 1 ELSE 0
             n == SquareOfWords
  <1>1. h \in Nat \ {0} /\ WORDS = 2 * h
    BY Halves
  <1>2. w \in Word /\ w \in 0 .. WORDS - 1
    BY U32Type DEF Word
  <1>3. s \in - h .. h - 1 /\ U32(s) = w /\ s = IF w < h THEN w ELSE w - WORDS
    <2> HIDE DEF w
    <2> QED BY <1>2, SignedRange
  <1>4. p \in - h .. h - 1 <=> p = s
    <2>1. p \in - h .. h - 1 => S32(U32(p)) = p
      BY SignedOfWrapped
    <2> QED BY <1>3, <2>1
  <1>5. n = WORDS * WORDS /\ n \in Nat \ {0}
    BY DEF SquareOfWords
  <1> HIDE DEF w, s, h, n
  <1>6. WORDS <= n
    BY <1>1, <1>5
  <1>7. hi * WORDS + w = s % n
    <2>1. CASE s < 0
      <3>1. (WORDS - 1) * WORDS + w = n + s
        BY <1>1, <1>2, <1>3, <1>5, <2>1
      <3>2. n + s \in 0 .. n - 1
        BY <1>1, <1>3, <1>5, <1>6, <2>1
      <3>3. s % n = n + s
        BY <1>1, <1>3, <1>5, <2>1, <3>2
      <3> QED BY <2>1, <3>1, <3>3
    <2>2. CASE ~ (s < 0)
      <3>1. s = w /\ s \in 0 .. n - 1
        BY <1>1, <1>2, <1>3, <1>6, <2>2, <1>5
      <3>2. s % n = s
        BY <1>5, <3>1
      <3>3. 0 * WORDS + w = w
        BY <1>1, <1>2
      <3> QED BY <2>2, <3>1, <3>2, <3>3
    <2> QED BY <2>1, <2>2
  <1>8. s % n = p % n => s = p
    <2>1. s - p < n /\ p - s < n /\ s \in Int
      BY <1>1, <1>3, <1>5 DEF n
    <2> QED BY <1>5, <2>1, OneRemainder
  <1>9. (hi * WORDS + w = p % n) <=> p = s
    BY <1>7, <1>8
  <1>10. p \in - h .. h - 1 <=> p >= - h /\ p < h
    BY <1>1
  <1> QED BY <1>4, <1>9, <1>10 DEF w, s, h, n

\* MULTU gives the whole product; MULT its low word, and the sign of that.
THEOREM ProductsHold == Spec => []Products
  <1>1. Operands => Products
    <2> SUFFICES ASSUME Operands PROVE Products
      OBVIOUS
    <2> DEFINE signed == S32(a) * S32(b)
    <2>1. ASSUME NEW f \in {"MULT", "MULTU"}
          PROVE  LET d == SpecialOf(f)
                 IN /\ d.ctl.alu_op = "SPECIAL" /\ OperandA(d) = a /\ OperandB(d) = b /\ d.ir.funct = f
      <3>1. f \in AluFuncts \cup MulDiv
        BY DEF MulDiv
      <3> QED BY <3>1, SpecialLatch DEF SpecialOf
    <2>2. ASSUME NEW f \in {"MULT", "MULTU"}, NEW S
          PROVE  /\ RunsSpecial(SpecialOf(f), S) <=> f \in S
                 /\ Divides(SpecialOf(f), S) <=> f \in S /\ b # 0
      BY <2>1 DEF RunsSpecial, Divides
    <2>3. /\ HiAfter(SpecialOf("MULTU")) = Set((a * b) \div WORDS) /\ LoAfter(SpecialOf("MULTU")) = Set(a * b)
          /\ HiAfter(SpecialOf("MULT")) = Set(IF S32(Product(SpecialOf("MULT"))) < 0 THEN WORDS - 1 ELSE 0)
          /\ LoAfter(SpecialOf("MULT")) = Set(Product(SpecialOf("MULT")))
          /\ Product(SpecialOf("MULT")) = U32(signed)
      BY <2>1, <2>2 DEF HiAfter, LoAfter, Product
    <2>4. /\ signed \in Int /\ SquareOfWords \in Nat \ {0}
          /\ signed + WORDS < SquareOfWords /\ WORDS - signed < SquareOfWords
          /\ a * b \in Nat /\ a * b < SquareOfWords
      BY ProductRange DEF Operands
    <2> HIDE DEF signed
    <2>5. HiOf(SpecialOf("MULTU")) * WORDS + LoOf(SpecialOf("MULTU")) = a * b
      <3> DEFINE p == a * b
                 k == p \div WORDS
      <3>1. WORDS \in Nat \ {0} /\ p \in Nat /\ p < WORDS * WORDS
        BY <2>4, WordsPositive DEF SquareOfWords
      <3> HIDE DEF p
      <3>2. k \in Int /\ p % WORDS \in 0 .. WORDS - 1 /\ p = WORDS * k + (p % WORDS)
        BY <3>1, DivisionFacts
      <3> HIDE DEF k
      <3>3. k \in 0 .. WORDS - 1
        <4>1. ~ (k <= -1)
          <5> SUFFICES ASSUME k <= -1 PROVE FALSE
            OBVIOUS
          <5>1. WORDS * k <= - WORDS
            BY <3>1, <3>2
          <5> QED BY <3>1, <3>2, <5>1
        <4>2. ~ (k >= WORDS)
          <5> SUFFICES ASSUME k >= WORDS PROVE FALSE
            OBVIOUS
          <5>1. WORDS * k >= WORDS * WORDS
            BY <3>1, <3>2
          <5> QED BY <3>1, <3>2, <5>1
        <4> QED BY <3>1, <3>2, <4>1, <4>2
      <3>4. HiOf(SpecialOf("MULTU")) = k /\ LoOf(SpecialOf("MULTU")) = p % WORDS
        <4>1. HiOf(SpecialOf("MULTU")) = U32(k) /\ LoOf(SpecialOf("MULTU")) = U32(p)
          BY <2>3 DEF HiOf, LoOf, Set, p, k
        <4>2. k \in Word
          BY <3>3 DEF Word
        <4> QED BY <4>1, <4>2, U32Word DEF U32
      <3>5. k * WORDS = WORDS * k
        BY <3>1, <3>2
      <3> QED BY <3>2, <3>4, <3>5 DEF p
    <2>6. /\ LoOf(SpecialOf("MULT")) = signed % WORDS
          /\ HiOf(SpecialOf("MULT")) = IF LoOf(SpecialOf("MULT")) >= WORDS \div 2 THEN WORDS - 1 ELSE 0
          /\ (HiOf(SpecialOf("MULT")) * WORDS + LoOf(SpecialOf("MULT")) = signed % SquareOfWords)
               <=> (signed >= - (WORDS \div 2) /\ signed < WORDS \div 2)
      <3> DEFINE w == U32(signed)
                 hi == IF S32(w) < 0 THEN WORDS - 1 ELSE 0
      <3>1. w \in Word /\ hi \in Word
        <4>1. WORDS - 1 \in Word /\ 0 \in Word
          BY WordsPositive DEF Word
        <4> QED BY <2>4, <4>1, U32Type
      <3>2. HiOf(SpecialOf("MULT")) = hi /\ LoOf(SpecialOf("MULT")) = w
        <4>1. HiOf(SpecialOf("MULT")) = U32(hi) /\ LoOf(SpecialOf("MULT")) = U32(w)
          BY <2>3 DEF HiOf, LoOf, Set
        <4> HIDE DEF w, hi
        <4> QED BY <3>1, <4>1, U32Word
      <3>3. (hi * WORDS + w = signed % SquareOfWords)
              <=> (signed >= - (WORDS \div 2) /\ signed < WORDS \div 2)
        BY <2>4, SignedPair
      <3>4. w = signed % WORDS
        BY DEF U32
      <3>5. S32(w) < 0 <=> w >= WORDS \div 2
        <4> HIDE DEF w
        <4> QED BY <3>1, SignBit DEF Negative
      <3> HIDE DEF w
      <3> QED BY <3>2, <3>3, <3>4, <3>5
    <2> QED BY <2>5, <2>6 DEF Products, signed, SquareOfWords
  <1> QED BY <1>1, OperandsAreWords, PTL

=============================================================================
