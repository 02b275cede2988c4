--------------------------- MODULE PipelineProofs ---------------------------
(***************************************************************************)
(* The pipeline's types, its stall discipline, its load interlock and its  *)
(* scoreboard, for every word size, register file, memory, program and     *)
(* cycle limit: what the ALU and the decoder return for every latch, the   *)
(* invariant of the pipeline, and the marks of the scoreboard.             *)
(***************************************************************************)
EXTENDS Retire, WordProofs

----------------------------------------------------------------------------
(* The ALU                                                                 *)

\* The operands of alu() are words.
LEMMA OperandTypes ==
  ASSUME NEW d \in IdEx
  PROVE  /\ OperandA(d) \in Word /\ OperandB(d) \in Word /\ d.ir.imm \in Word
         /\ Effective(d) \in Word
  <1>1. d.rs.value \in Word /\ d.rt.value \in Word /\ d.ir.imm \in 0 .. HALF - 1
    BY DEF IdEx, Instr
  <1>2. d.ir.imm \in Word
    BY <1>1, HalfByte, WordsPositive DEF Word
  <1>3. sign_extend_16(d.ir.imm) \in Word
    BY <1>2, SignExtend16Type
  <1>4. d.rs.value + sign_extend_16(d.ir.imm) \in Int
    BY <1>1, <1>3, WordSums
  <1> QED BY <1>1, <1>2, <1>4, U32Type DEF OperandA, OperandB, Effective

\* Sums, differences and comparisons of words are words.
LEMMA ArithmeticTypes ==
  ASSUME NEW a \in Word, NEW b \in Word
  PROVE  /\ U32(a + b) \in Word /\ U32(a - b) \in Word /\ U32(a + 4 * b) \in Word
         /\ U32(a * b) \in Word
         /\ Bool(S32(a) < S32(b)) \in Word /\ Bool(a < b) \in Word
         /\ WORDS - 1 - a \in Word
  <1>1. a + b \in Int /\ a - b \in Int /\ a + 4 * b \in Int /\ a * b \in Int
    BY WordSums
  <1>3. WORDS - 1 - a \in Word
    BY WordsPositive DEF Word
  <1>4. (S32(a) < S32(b)) \in BOOLEAN /\ (a < b) \in BOOLEAN
    BY S32Type, WordInt
  <1> QED BY <1>1, <1>3, <1>4, U32Type, BoolType

\* An R-format operation gives a word.
LEMMA SpecialResultType ==
  ASSUME NEW d \in IdEx, NEW a \in Word, NEW b \in Word, NEW old \in Word
  PROVE  SpecialResult(d, a, b, old) \in Word
  <1>1. d.hi \in Word /\ d.lo \in Word /\ d.ir.sa \in 0 .. BITS
    BY WordsPositive DEF IdEx, Instr
  <1>2. a % BITS \in 0 .. BITS
    BY WordsPositive, WordInt
  <1>3. /\ BitAnd[a, b] \in Word /\ BitOr[a, b] \in Word /\ BitXor[a, b] \in Word
        /\ WORDS - 1 - BitOr[a, b] \in Word
    BY BitwiseAssumption, ArithmeticTypes
  <1>4. U32(a + sign_extend_16(b)) \in Word
    BY SignExtend16Type, ArithmeticTypes
  <1>5. /\ ShiftLeft(b, d.ir.sa) \in Word /\ ShiftRight(b, d.ir.sa) \in Word
        /\ ArithmeticShiftRight(b, d.ir.sa) \in Word
    BY <1>1, ShiftTypes
  <1>6. /\ ShiftLeft(b, a % BITS) \in Word /\ ShiftRight(b, a % BITS) \in Word
        /\ ArithmeticShiftRight(b, a % BITS) \in Word
    BY <1>2, ShiftTypes
  <1>7. /\ U32(a + b) \in Word /\ U32(a - b) \in Word
        /\ Bool(S32(a) < S32(b)) \in Word /\ Bool(a < b) \in Word
    BY ArithmeticTypes
  <1> QED BY <1>1, <1>3, <1>4, <1>5, <1>6, <1>7 DEF SpecialResult

\* An immediate operation, a load or a store gives a word.
LEMMA ImmResultType ==
  ASSUME NEW d \in IdEx, NEW a \in Word, NEW b \in Word, NEW old \in Word
  PROVE  ImmResult(d, a, b, old) \in Word
  <1>1. sign_extend_16(b) \in Word
    BY SignExtend16Type
  <1>2. BitAnd[a, b] \in Word /\ BitOr[a, b] \in Word /\ BitXor[a, b] \in Word
    BY BitwiseAssumption
  <1>3. ShiftLeft(b, 2 * B) \in Word
    BY ByteAssumption, ShiftTypes DEF BITS
  <1>4. /\ U32(a + sign_extend_16(b)) \in Word /\ U32(a - sign_extend_16(b)) \in Word
        /\ Bool(S32(a) < S32(sign_extend_16(b))) \in Word
    BY <1>1, ArithmeticTypes
  <1>5. Bool(a < U32(a - sign_extend_16(b))) \in Word
    BY <1>4, ArithmeticTypes
  <1>6. Effective(d) \in Word
    BY OperandTypes
  <1> QED BY <1>2, <1>3, <1>4, <1>5, <1>6 DEF ImmResult

\* alu() leaves a word in alu_result, or the word that was there.
LEMMA AluResultType ==
  ASSUME NEW d \in IdEx, NEW old \in Word
  PROVE  AluResult(d, old) \in Word
  <1>1. OperandA(d) \in Word /\ OperandB(d) \in Word
    BY OperandTypes
  <1>2. U32(d.pc + 4) \in Word
    <2>1. d.pc \in Word
      BY DEF IdEx
    <2>2. d.pc + 4 \in Int
      BY <2>1, WordSums
    <2> QED BY <2>2, U32Type
  <1>3. /\ SpecialResult(d, OperandA(d), OperandB(d), old) \in Word
        /\ ImmResult(d, OperandA(d), OperandB(d), old) \in Word
    BY <1>1, SpecialResultType, ImmResultType
  <1> QED BY <1>2, <1>3 DEF AluResult

\* The results of DIV: for integers a and b with b not 0, both are integers.
LEMMA DivisionTypes ==
  ASSUME NEW a \in Int, NEW b \in Int, b # 0
  PROVE  Quotient(a, b) \in Int /\ Remainder(a, b) \in Int
  <1>1. Abs(a) \in Nat /\ Abs(b) \in Nat \ {0}
    BY DEF Abs
  <1>2. Abs(a) \div Abs(b) \in Int /\ Abs(a) % Abs(b) \in Int
    BY <1>1
  <1>3. ASSUME NEW p \in Int PROVE -p \in Int
    OBVIOUS
  <1> QED BY <1>2, <1>3 DEF Quotient, Remainder

\* A word read as s32 is 0 only if it is 0.
LEMMA S32Zero == ASSUME NEW v \in Word, v # 0 PROVE S32(v) # 0
  BY WordsPositive DEF S32, Word

HiLoValue == [index : Bit, value : Word]

\* The HI and LO latches hold a bit and a word.
LEMMA SetKeepTypes ==
  ASSUME NEW v \in Int, NEW w \in Word
  PROVE  Set(v) \in HiLoValue /\ Keep(w) \in HiLoValue /\ Set(v).index = 1
  BY U32Type DEF Set, Keep, HiLoValue, Bit

\* What MULT, MULTU, DIV, DIVU, MTHI and MTLO put in HI and LO are words.
LEMMA HiLoTypes ==
  ASSUME NEW d \in IdEx
  PROVE  HiAfter(d) \in HiLoValue /\ LoAfter(d) \in HiLoValue
  <1> DEFINE a == OperandA(d)
             b == OperandB(d)
  <1>1. a \in Word /\ b \in Word /\ d.hi \in Word /\ d.lo \in Word
    BY OperandTypes DEF IdEx
  <1>2. a \in Int /\ b \in Int /\ S32(a) \in Int /\ S32(b) \in Int /\ a * b \in Int
    BY <1>1, WordIsInt, S32Type, WordSums
  <1>3. S32(a) * S32(b) \in Int
    <2>1. ASSUME NEW p \in Int, NEW q \in Int PROVE p * q \in Int
      OBVIOUS
    <2> QED BY <1>2, <2>1
  <1>4. Product(d) \in Int
    <2>1. Product(d) \in Word
      BY <1>3, U32Type DEF Product
    <2> QED BY <2>1, WordIsInt
  <1>5. (IF S32(Product(d)) < 0 THEN WORDS - 1 ELSE 0) \in Int
    <2>1. WORDS - 1 \in Int /\ 0 \in Int
      BY WordsPositive
    <2> QED BY <2>1
  <1>6. (a * b) \div WORDS \in Int
    BY <1>2, WordsPositive
  <1>7. ASSUME Divides(d, {"DIV"})
        PROVE  Remainder(S32(a), S32(b)) \in Int /\ Quotient(S32(a), S32(b)) \in Int
    <2>1. b # 0
      BY <1>7 DEF Divides
    <2>2. S32(b) # 0
      BY <1>1, <2>1, S32Zero
    <2> QED BY <1>2, <2>2, DivisionTypes
  <1>8. ASSUME Divides(d, {"DIVU"}) PROVE a % b \in Int /\ a \div b \in Int
    <2>1. b \in Nat \ {0}
      BY <1>1, <1>8, WordInt DEF Divides
    <2> QED BY <1>2, <2>1
  <1>9. HiAfter(d) \in HiLoValue
    BY <1>1, <1>2, <1>5, <1>6, <1>7, <1>8, SetKeepTypes DEF HiAfter
  <1>10. LoAfter(d) \in HiLoValue
    BY <1>1, <1>2, <1>4, <1>7, <1>8, SetKeepTypes DEF LoAfter
  <1> QED BY <1>9, <1>10

\* MTHI and MTLO mark HI or LO as written: their result is not for REGS.
LEMMA MoveToMarks ==
  ASSUME NEW d \in IdEx, d.ctl.alu_op = "SPECIAL", d.ir.funct \in MoveTo
  PROVE  HiAfter(d).index = 1 \/ LoAfter(d).index = 1
  <1>1. ASSUME NEW v PROVE Set(v).index = 1
    BY DEF Set
  <1>2. RunsSpecial(d, {"MTHI"}) \/ RunsSpecial(d, {"MTLO"})
    BY DEF RunsSpecial, MoveTo
  <1>3. CASE RunsSpecial(d, {"MTHI"})
    BY <1>1, <1>3 DEF HiAfter
  <1>4. CASE RunsSpecial(d, {"MTLO"})
    BY <1>1, <1>4 DEF LoAfter
  <1> QED BY <1>2, <1>3, <1>4

\* The target of a branch is a word.
LEMMA BranchTargetType == ASSUME NEW d \in IdEx PROVE BranchTarget(d) \in Word
  <1>1. /\ d.pc \in Word /\ d.jumpAddress \in Word /\ d.ir.imm \in Word
        /\ OperandB(d) \in Word
    BY OperandTypes DEF IdEx
  <1>2. sign_extend_16(d.ir.imm) \in Word /\ sign_extend_16(OperandB(d)) \in Word
    BY <1>1, SignExtend16Type
  <1>3. /\ U32(d.pc + 4 * d.ir.imm) \in Word
        /\ U32(d.pc + 4 * sign_extend_16(d.ir.imm)) \in Word
        /\ U32(d.pc + 4 * sign_extend_16(OperandB(d))) \in Word
    BY <1>1, <1>2, ArithmeticTypes
  <1> QED BY <1>1, <1>3 DEF BranchTarget

\* branchCondition stays a bit.
LEMMA BranchConditionType ==
  ASSUME NEW d \in IdEx, NEW old \in Bit PROVE BranchCondition(d, old) \in Bit
  <1>1. ASSUME NEW p \in BOOLEAN PROVE Bool(p) \in Bit
    BY DEF Bool, Bit
  <1>2. Negative(OperandA(d)) \in BOOLEAN
    BY OperandTypes, WordIsInt DEF Negative
  <1>3. /\ Bool(OperandA(d) = d.rt.value) \in Bit /\ Bool(OperandA(d) # d.rt.value) \in Bit
        /\ Bool(OperandA(d) = 0 \/ Negative(OperandA(d))) \in Bit
        /\ Bool(OperandA(d) # 0 /\ ~ Negative(OperandA(d))) \in Bit
        /\ Bool(Negative(OperandA(d))) \in Bit /\ Bool(~ Negative(OperandA(d))) \in Bit
    BY <1>1, <1>2
  <1> QED BY <1>3 DEF BranchCondition

\* storeValue stays a word.
LEMMA StoreValueType ==
  ASSUME NEW d \in IdEx, NEW old \in Word PROVE StoreValue(d, old) \in Word
  <1>1. d.rt.value \in Word
    BY DEF IdEx
  <1>2. d.rt.value % BYTE \in Word /\ d.rt.value % HALF \in Word
    BY <1>1, HalfByte, RemainderType
  <1> QED BY <1>1, <1>2 DEF StoreValue

Sizes == {BYTE, HALF, WORDS}

\* A load sets loadSize; what is not a load leaves it as it was.
LEMMA LoadSizeType ==
  ASSUME NEW d \in IdEx, NEW old \in Sizes \cup {0}
  PROVE  /\ LoadSize(d, old) \in Sizes \cup {0}
         /\ d.ctl.alu_op \in Loads => LoadSize(d, old) \in Sizes
  BY DEF LoadSize, Sizes, Loads

\* isLoadSigned stays a bit.
LEMMA IsLoadSignedType ==
  ASSUME NEW d \in IdEx, NEW old \in Bit PROVE IsLoadSigned(d, old) \in Bit
  BY DEF IsLoadSigned, Bool, Bit

\* SignExtend turns the content of memory into a word, for each load size.
LEMMA LoadedValueType ==
  ASSUME NEW c \in Word, NEW size \in Sizes, NEW signed PROVE LoadedValue(c, size, signed) \in Word
  <1>1. size \in Nat \ {0}
    BY HalfByte, WordsPositive DEF Sizes
  <1>2. c % size \in Word
    BY <1>1, RemainderType
  <1> QED BY <1>2, SignExtend16Type, SignExtend8Type DEF LoadedValue

----------------------------------------------------------------------------
(* The decoder                                                             *)

\* A control record and the properties of it the pipeline relies on: only a
\* load reads memory, and write-back takes memory data exactly for a load.
GoodControl(c) ==
  /\ c \in Control
  /\ c.mem_to_rg = c.mread
  /\ c.mread = 1 => c.alu_op \in Loads

\* A record that reads no memory.
Silent(c) == c \in Control /\ c.mread = 0 /\ c.mem_to_rg = 0

\* A record that reads no memory is sound.
LEMMA SilentIsGood == ASSUME NEW c, Silent(c) PROVE GoodControl(c) /\ c.mread = 0
  BY DEF Silent, GoodControl

\* Flags other than mread and mem_to_rg can be set in a silent record.
LEMMA SilentExcept ==
  ASSUME NEW c, Silent(c)
  PROVE  /\ Silent([c EXCEPT !.jump = 1]) /\ Silent([c EXCEPT !.branch = 1])
         /\ Silent([c EXCEPT !.mwrite = 1]) /\ Silent([c EXCEPT !.alu_src = 1])
         /\ Silent([c EXCEPT !.reg_write = 1, !.reg_dst = 1])
         /\ Silent([c EXCEPT !.reg_write = 1, !.alu_src = 1])
  BY DEF Silent, Control, Bit

\* The control records of the instructions that are not loads.
LEMMA BuilderTypes ==
  ASSUME NEW op \in AluOp
  PROVE  /\ Silent(NoControl(op)) /\ Silent(RdWrite(op)) /\ Silent(RtWrite(op))
         /\ Silent(Store(op)) /\ Silent(Branch(op)) /\ Silent(Jump(op))
         /\ Silent([RtWrite(op) EXCEPT !.branch = 1])
         /\ Silent([Branch(op) EXCEPT !.alu_src = 1])
  <1>1. Silent(NoControl(op))
    BY DEF Silent, NoControl, Control, Bit
  <1>2. Silent(RdWrite(op)) /\ Silent(RtWrite(op))
    BY <1>1, SilentExcept DEF RdWrite, RtWrite
  <1>3. Silent(Store(op)) /\ Silent(Branch(op)) /\ Silent(Jump(op))
    BY <1>1, SilentExcept DEF Store, Branch, Jump
  <1> QED BY <1>1, <1>2, <1>3, SilentExcept

\* JAL and JALR pass the opcode of LB to the ALU and read no memory.
LEMMA LinkType == Silent(Link)
  <1>1. "LB" \in AluOp
    BY DEF AluOp, Opcode, Loads
  <1> QED BY <1>1, BuilderTypes, SilentExcept DEF Link

\* The control record of a load.
LEMMA LoadType == ASSUME NEW op \in Loads PROVE GoodControl(Load(op))
  <1>1. op \in AluOp
    BY DEF AluOp, Opcode
  <1>2. Silent(RtWrite(op)) /\ RtWrite(op).alu_op = op
    BY <1>1, BuilderTypes DEF RtWrite, NoControl
  <1>3. ASSUME NEW c, Silent(c), c.alu_op = op
        PROVE  GoodControl([c EXCEPT !.mread = 1, !.mem_to_rg = 1])
    BY <1>3 DEF Silent, GoodControl, Control, Bit
  <1> QED BY <1>2, <1>3 DEF Load

\* The decoder gives every instruction a sound control record, provided the
\* one it may leave in place is sound; only a load reads memory.
LEMMA ControlOfType ==
  ASSUME NEW i \in Instr, NEW old, Silent(old)
  PROVE  /\ GoodControl(ControlOf(i, old))
         /\ i.opcode \notin Loads => Silent(ControlOf(i, old))
         /\ i.opcode \in Loads => ControlOf(i, old) = Load(i.opcode)
  <1>1. i.opcode \in Opcode /\ i.opcode \in AluOp /\ "SPECIAL" \in AluOp /\ "REGIMM" \in AluOp
    BY DEF Instr, AluOp, Opcode
  <1>2. \/ ~ Known(i) \/ Special(i, {"SYSCALL"}) \/ Special(i, {"JR"}) \/ Special(i, {"JALR"})
        \/ i.opcode = "SPECIAL" /\ Known(i) /\ ~ Special(i, {"SYSCALL", "JR", "JALR"})
        \/ Regimm(i, LinkBranch) \/ Regimm(i, PlainRegimm)
        \/ i.opcode = "J" \/ i.opcode = "JAL" \/ i.opcode \in ImmOps \cup {"LUI"}
        \/ i.opcode \in CmpBranch \/ i.opcode \in Loads \/ i.opcode \in Stores
    <2>1. CASE i.opcode = "SPECIAL"
      BY <2>1 DEF Special
    <2>2. CASE i.opcode = "REGIMM"
      BY <2>2 DEF Known, Special, Regimm
    <2>3. CASE i.opcode = "PADDING"
      BY <2>3 DEF Known, Special, Regimm
    <2> QED BY <1>1, <2>1, <2>2, <2>3 DEF Opcode
  <1>3. /\ Silent(NoControl("SPECIAL")) /\ Silent(Jump("SPECIAL")) /\ Silent(RdWrite("SPECIAL"))
        /\ Silent([RtWrite("REGIMM") EXCEPT !.branch = 1])
        /\ Silent([Branch("REGIMM") EXCEPT !.alu_src = 1])
    BY <1>1, BuilderTypes
  <1>4. i.opcode = "J" => Silent(Jump("J"))
    BY <1>1, BuilderTypes
  <1>5. Silent(RtWrite(i.opcode)) /\ Silent(Branch(i.opcode)) /\ Silent(Store(i.opcode))
    BY <1>1, BuilderTypes
  <1>6. i.opcode \notin Loads => Silent(ControlOf(i, old))
    BY <1>2, <1>3, <1>4, <1>5, LinkType DEF ControlOf
  <1>7. i.opcode \in Loads => ControlOf(i, old) = Load(i.opcode)
    <2>1. i.opcode \in Loads => /\ i.opcode \notin {"SPECIAL", "REGIMM", "PADDING", "J", "JAL", "LUI"}
                                /\ i.opcode \notin ImmOps \cup {"LUI"}
                                /\ i.opcode \notin CmpBranch /\ i.opcode \notin Stores
      BY DEF Loads, ImmOps, CmpBranch, Stores
    <2>2. i.opcode \in Loads => /\ Known(i) /\ i.opcode # "SPECIAL" /\ i.opcode # "REGIMM"
                                /\ i.opcode # "J" /\ i.opcode # "JAL"
      BY <2>1 DEF Known
    <2> QED BY <2>1, <2>2 DEF ControlOf, Special, Regimm
  <1> QED BY <1>6, <1>7, LoadType, SilentIsGood
\* MTHI and MTLO pass SPECIAL to the ALU.
LEMMA MoveToControl ==
  ASSUME NEW i \in Instr, NEW old, Special(i, MoveTo)
  PROVE  ControlOf(i, old).alu_op = "SPECIAL"
  <1>1. i.opcode = "SPECIAL" /\ (i.funct = "MTHI" \/ i.funct = "MTLO")
    BY DEF Special, MoveTo
  <1>2. Known(i) /\ ~ Special(i, {"SYSCALL"}) /\ ~ Special(i, {"JR"}) /\ ~ Special(i, {"JALR"})
        /\ ~ Special(i, {"SYSCALL", "JR", "JALR"})
    BY <1>1 DEF Known, Special, MoveTo
  <1>3. ~ Regimm(i, LinkBranch) /\ ~ Regimm(i, PlainRegimm) /\ i.opcode \notin ImmOps \cup {"LUI"}
        /\ i.opcode \notin CmpBranch /\ i.opcode \notin Loads /\ i.opcode \notin Stores
        /\ i.opcode # "J" /\ i.opcode # "JAL"
    BY <1>1 DEF Regimm, ImmOps, CmpBranch, Loads, Stores
  <1>4. ControlOf(i, old) = RdWrite("SPECIAL")
    BY <1>1, <1>2, <1>3 DEF ControlOf
  <1> QED BY <1>4 DEF RdWrite, NoControl

\* Updates of single fields of ID/EX keep its type.
LEMMA IdExExcept ==
  ASSUME NEW d \in IdEx, NEW v \in Word, NEW w \in Word, NEW r \in StatusIndex,
         NEW n \in Reg, NEW b \in Bit, NEW c \in Control
  PROVE  /\ [d EXCEPT !.ctl = c, !.run_bit = b] \in IdEx
         /\ [d EXCEPT !.rd = r] \in IdEx
         /\ [d EXCEPT !.rt.index = n] \in IdEx
         /\ [d EXCEPT !.run_bit = b] \in IdEx
         /\ [d EXCEPT !.jumpAddress = v] \in IdEx
         /\ [d EXCEPT !.rt.value = v, !.rs.value = w] \in IdEx
         /\ [d EXCEPT !.hi = v, !.lo = w] \in IdEx
  <1>1. /\ [d EXCEPT !.ctl = c, !.run_bit = b] \in IdEx
        /\ [d EXCEPT !.rd = r] \in IdEx /\ [d EXCEPT !.run_bit = b] \in IdEx
        /\ [d EXCEPT !.jumpAddress = v] \in IdEx /\ [d EXCEPT !.hi = v, !.lo = w] \in IdEx
    BY DEF IdEx
  <1>2. [d EXCEPT !.rt.index = n] \in IdEx
    BY DEF IdEx
  <1>3. [d EXCEPT !.rt.value = v, !.rs.value = w] \in IdEx
    BY DEF IdEx
  <1> QED BY <1>1, <1>2, <1>3
\* The destination field names a register of the file, except for MTHI and
\* MTLO, which put the scoreboard number of HI or LO there.
RdSound(d) == d.rd \in Reg \/ Special(d.ir, MoveTo)

\* HI, LO and the registers index registerStatus.
LEMMA StatusIndices == HI \in StatusIndex /\ LO \in StatusIndex /\ Reg \subseteq StatusIndex
                       /\ R_RA \in Reg /\ 0 \in Reg
  BY RegisterAssumption DEF HI, LO, StatusIndex, Reg

\* SetupControlSignals keeps the type of the latch, the instruction in it
\* and the soundness of its destination.
LEMMA SetupType ==
  ASSUME NEW d \in IdEx, Silent(d.ctl), RdSound(d)
  PROVE  /\ SetupControlSignals(d) \in IdEx
         /\ SetupControlSignals(d).ctl = ControlOf(d.ir, d.ctl)
         /\ SetupControlSignals(d).ir = d.ir
         /\ RdSound(SetupControlSignals(d))
  <1> DEFINE i == d.ir
             c == [d EXCEPT !.ctl = ControlOf(i, d.ctl), !.run_bit = IF Known(i) THEN 1 ELSE d.run_bit]
             Sound(e) == e \in IdEx /\ e.ctl = ControlOf(i, d.ctl) /\ e.ir = i /\ RdSound(e)
  <1>1. /\ i \in Instr /\ d.rs.value \in Word /\ d.pc \in Word /\ d.run_bit \in Bit
        /\ U32(4) \in Word /\ U32(4 * i.label) \in Word
    <2>1. i \in Instr /\ d.rs.value \in Word /\ d.pc \in Word /\ d.run_bit \in Bit
      BY DEF IdEx
    <2>2. i.label \in Word
      BY <2>1 DEF Instr
    <2>3. 4 * i.label \in Int /\ 4 \in Int
      BY <2>2, WordSums
    <2> QED BY <2>1, <2>3, U32Type
  <1>2. ControlOf(i, d.ctl) \in Control
    BY <1>1, ControlOfType DEF GoodControl
  <1>3. (IF Known(i) THEN 1 ELSE d.run_bit) \in Bit
    BY <1>1 DEF Bit
  <1>4. Sound(c)
    <2>1. c \in IdEx
      BY <1>2, <1>3, IdExExcept, WordInt, StatusIndices
    <2>2. c.ctl = ControlOf(i, d.ctl) /\ c.ir = i /\ c.rd = d.rd
      BY DEF IdEx
    <2> QED BY <2>1, <2>2 DEF RdSound
  <1> HIDE DEF c
  <1>5. Special(i, {"MTHI"}) => Sound([c EXCEPT !.rd = HI])
    <2>1. [c EXCEPT !.rd = HI] \in IdEx
      BY <1>1, <1>2, <1>4, IdExExcept, StatusIndices
    <2>2. [c EXCEPT !.rd = HI].ctl = c.ctl /\ [c EXCEPT !.rd = HI].ir = c.ir
      BY <1>4 DEF IdEx
    <2> QED BY <1>4, <2>1, <2>2 DEF RdSound, Special, MoveTo
  <1>6. Special(i, {"MTLO"}) => Sound([c EXCEPT !.rd = LO])
    <2>1. [c EXCEPT !.rd = LO] \in IdEx
      BY <1>1, <1>2, <1>4, IdExExcept, StatusIndices
    <2>2. [c EXCEPT !.rd = LO].ctl = c.ctl /\ [c EXCEPT !.rd = LO].ir = c.ir
      BY <1>4 DEF IdEx
    <2> QED BY <1>4, <2>1, <2>2 DEF RdSound, Special, MoveTo
  <1>7. ASSUME NEW v \in Word PROVE Sound([c EXCEPT !.jumpAddress = v])
    <2>1. [c EXCEPT !.jumpAddress = v] \in IdEx
      BY <1>1, <1>2, <1>4, IdExExcept, StatusIndices
    <2>2. /\ [c EXCEPT !.jumpAddress = v].ctl = c.ctl /\ [c EXCEPT !.jumpAddress = v].ir = c.ir
          /\ [c EXCEPT !.jumpAddress = v].rd = c.rd
      BY <1>4 DEF IdEx
    <2> QED BY <1>4, <2>1, <2>2 DEF RdSound
  <1>8. Sound([c EXCEPT !.jumpAddress = d.rs.value, !.rt.value = d.pc, !.rs.value = U32(4)])
    <2> DEFINE e == [c EXCEPT !.jumpAddress = d.rs.value, !.rt.value = d.pc, !.rs.value = U32(4)]
    <2>1. e \in IdEx
      BY <1>1, <1>4 DEF IdEx
    <2>2. e.ctl = c.ctl /\ e.ir = c.ir /\ e.rd = c.rd
      BY <1>4 DEF IdEx
    <2> QED BY <1>4, <2>1, <2>2 DEF RdSound
  <1>9. Sound([c EXCEPT !.rt.index = R_RA])
    <2>1. [c EXCEPT !.rt.index = R_RA] \in IdEx
      BY <1>4, StatusIndices DEF IdEx
    <2>2. /\ [c EXCEPT !.rt.index = R_RA].ctl = c.ctl /\ [c EXCEPT !.rt.index = R_RA].ir = c.ir
          /\ [c EXCEPT !.rt.index = R_RA].rd = c.rd
      BY <1>4 DEF IdEx
    <2> QED BY <1>4, <2>1, <2>2 DEF RdSound
  <1>10. Sound([c EXCEPT !.jumpAddress = U32(4 * i.label), !.rd = R_RA,
                         !.rt.value = d.pc, !.rs.value = U32(4)])
    <2> DEFINE e == [c EXCEPT !.jumpAddress = U32(4 * i.label), !.rd = R_RA,
                              !.rt.value = d.pc, !.rs.value = U32(4)]
    <2>1. e \in IdEx
      BY <1>1, <1>4, StatusIndices DEF IdEx
    <2>2. e.ctl = c.ctl /\ e.ir = c.ir /\ e.rd = R_RA
      BY <1>4 DEF IdEx
    <2> QED BY <1>4, <2>1, <2>2, StatusIndices DEF RdSound
  <1>11. Sound(SetupControlSignals(d))
    BY <1>1, <1>4, <1>5, <1>6, <1>7, <1>8, <1>9, <1>10 DEF SetupControlSignals, c
  <1> QED BY <1>11

\* The empty latch.
LEMMA EmptyIdExType ==
  ASSUME NEW b \in Bit
  PROVE  EmptyIdEx(b) \in IdEx /\ Silent(EmptyIdEx(b).ctl) /\ RdSound(EmptyIdEx(b))
  <1>1. Silent(NoControl("SPECIAL"))
    <2>1. "SPECIAL" \in AluOp
      BY DEF AluOp, Opcode
    <2> QED BY <2>1, BuilderTypes
  <1>2. Nop \in Instr
    BY HalfByte, WordsPositive, WordInt, StatusIndices
    DEF Nop, Instr, Opcode, Funct, AluFuncts, ShiftFuncts
  <1>3. EmptyIdEx(b) \in IdEx
    BY <1>1, <1>2, WordInt, StatusIndices DEF EmptyIdEx, IdEx, Zero, Silent
  <1> QED BY <1>1, <1>3, StatusIndices DEF EmptyIdEx, RdSound

\* What mem_read_32 returns from the text region is an instruction, at any
\* address.
LEMMA FetchedType ==
  ASSUME NEW p \in Programs \cup {<< >>}, NEW a \in Word PROVE FetchedFrom(p, a) \in Instr
  <1>1. Nop \in Instr
    BY HalfByte, WordsPositive, WordInt, StatusIndices
    DEF Nop, Instr, Opcode, Funct, AluFuncts, ShiftFuncts
  <1>2. a \in Int /\ TextStart \in Int /\ a - TextStart \in Int
    BY WordInt, ProgramAssumption
  <1> DEFINE n == (a - TextStart) \div 4 + 1
             k == (a - TextStart) % 4
  <1>3. n \in Int /\ k \in 0 .. 3
    BY <1>2
  <1>4. p \in Seq(Instr) /\ \A j \in DOMAIN p : p \in Programs
    <2>1. CASE p \in Programs
      BY <2>1, ProgramAssumption
    <2>2. CASE p = << >>
      BY <2>2
    <2> QED BY <2>1, <2>2
  <1>5. \A j : WordAt(p, j) \in Instr
    <2>1. \A j \in DOMAIN p : p[j] \in Instr
      BY <1>4
    <2> QED BY <1>1, <2>1 DEF WordAt
  <1>6. ASSUME a >= TextStart, k # 0
        PROVE  Straddling(WordAt(p, n), WordAt(p, n + 1), k) \in Instr
    <2>1. k \in 1 .. 3 /\ n >= 1
      BY <1>2, <1>3, <1>6
    <2>2. CASE n \in DOMAIN p
      BY <1>4, <2>1, <2>2, ProgramAssumption DEF WordAt
    <2>3. CASE n \notin DOMAIN p
      <3>1. n + 1 \notin DOMAIN p
        BY <1>3, <1>4, <2>1, <2>3
      <3> QED BY <1>1, <2>1, <2>3, <3>1, ProgramAssumption DEF WordAt
    <2> QED BY <2>2, <2>3
  <1> HIDE DEF n, k
  <1>7. FetchedFrom(p, a) = IF a < TextStart THEN Nop
                            ELSE IF k = 0 THEN WordAt(p, n)
                            ELSE Straddling(WordAt(p, n), WordAt(p, n + 1), k)
    BY DEF FetchedFrom, n, k
  <1> QED BY <1>1, <1>5, <1>6, <1>7, WordInt, ProgramAssumption

----------------------------------------------------------------------------
(* The inductive invariant of the pipeline                                 *)

Live == stage \notin {"halted", "trapped"}

\* A result for REGS names a register of the file: the numbers of HI and LO
\* only come with a HI or LO value.
Destined(latch) ==
  latch.reg_write = 1 /\ (latch.mem_to_rg = 1 \/ (latch.hi.index # 1 /\ latch.lo.index # 1))
    => latch.write_register \in Reg

LatchInv ==
  /\ GoodControl(id_ex.ctl)
  /\ id_ex.rd \in Reg \/ (id_ex.ctl.alu_op = "SPECIAL" /\ id_ex.ir.funct \in MoveTo)
  /\ ex_mem.mem_to_rg = ex_mem.mread
  /\ ex_mem.mread = 1 => ex_mem.loadSize \in Sizes
  /\ Destined(ex_mem) /\ Destined(mem_wb)

\* A load between decode and write-back, and the stall that covers it: the
\* flag "load" until the decoder has stopped, the timer at 2 until the next
\* cycle, at 1 while the load is in memory, at 0 once it is written back.
LoadProgress ==
  Live =>
    /\ id_ex.ctl.mread = 1 => load = 1
    /\ load = 1 => fetch_timer = 0 /\ (stage # "fetch" => decode_status = 1)
    /\ memory_status = 1 /\ ex_mem.mread = 1 =>
         \/ stage = "decode" /\ load = 1
         \/ stage \in {"fetch", "cycle_end", "check_stall"} /\ fetch_timer = 2
         \/ stage \in {"write_back", "memory"} /\ fetch_timer = 1
    /\ writeback_status = 1 /\ mem_wb.mem_to_rg = 1 =>
         \/ stage \in {"execute", "decode", "fetch", "cycle_end", "check_stall"} /\ fetch_timer = 1
         \/ stage = "write_back" /\ fetch_timer = 0

IInv == TypeOK /\ LatchInv /\ StallDiscipline /\ LoadProgress

USE DEF IInv

\* The latches reset_ex_mem and reset_mem_wb leave are well typed.
LEMMA EmptyLatchTypes ==
  /\ EmptyIfId \in [ir : Instr, pc : Word] /\ EmptyExMem \in ExMem /\ EmptyMemWb \in MemWb
  /\ EmptyExMem.mread = 0 /\ EmptyExMem.mem_to_rg = 0
  /\ Destined(EmptyExMem) /\ Destined(EmptyMemWb)
  <1>1. Nop \in Instr
    BY HalfByte, WordsPositive, WordInt, StatusIndices
    DEF Nop, Instr, Opcode, Funct, AluFuncts, ShiftFuncts
  <1>2. EmptyIfId \in [ir : Instr, pc : Word]
    BY <1>1, WordInt DEF EmptyIfId
  <1>3. None \in HiLoLatch
    BY WordInt DEF None, HiLoLatch, Bit
  <1>4. EmptyExMem \in ExMem
    BY <1>3, WordInt, StatusIndices DEF EmptyExMem, ExMem, Bit
  <1>5. EmptyMemWb \in MemWb
    BY <1>3, WordInt, StatusIndices DEF EmptyMemWb, MemWb, Bit
  <1> QED BY <1>2, <1>4, <1>5, StatusIndices DEF EmptyExMem, EmptyMemWb, Destined

\* The empty ID/EX latch satisfies what LatchInv says of ID/EX.
LEMMA EmptyIdExSound ==
  ASSUME NEW b \in Bit
  PROVE  /\ EmptyIdEx(b) \in IdEx /\ GoodControl(EmptyIdEx(b).ctl)
         /\ EmptyIdEx(b).rd \in Reg /\ EmptyIdEx(b).ctl.mread = 0
  BY EmptyIdExType, SilentIsGood, StatusIndices DEF EmptyIdEx

\* reset_state fills registerStatus with bits.
LEMMA AllReadyType == AllReady \in [StatusIndex -> Bit]
  BY DEF AllReady, Bit

\* The state load_program leaves satisfies the invariant.
LEMMA InitInv == Init => IInv
  <1> SUFFICES ASSUME Init PROVE IInv
    OBVIOUS
  <1>1. TypeOK
    <2>1. /\ stage \in Stages /\ PC \in Word /\ REGS \in [Reg -> Word] /\ hi \in Word
          /\ lo \in Word /\ RUN_BIT \in Bit /\ INSTRUCTION_COUNT \in Nat /\ text \in Programs
      BY ProgramAssumption DEF Init, Stages, Bit
    <2>2. /\ if_id \in [ir : Instr, pc : Word] /\ id_ex \in IdEx /\ ex_mem \in ExMem
          /\ mem_wb \in MemWb
      BY EmptyLatchTypes, EmptyIdExSound DEF Init, Bit
    <2>3. dram \in [Granule -> Word] /\ registerStatus \in [StatusIndex -> Bit]
      BY AllReadyType, WordInt DEF Init
    <2> QED BY <2>1, <2>2, <2>3 DEF Init, TypeOK, Bit
  <1>2. LatchInv
    BY EmptyLatchTypes, EmptyIdExSound DEF Init, LatchInv, Bit
  <1>3. StallDiscipline /\ LoadProgress
    BY EmptyLatchTypes, EmptyIdExSound DEF Init, StallDiscipline, LoadProgress, Bit
  <1> QED BY <1>1, <1>2, <1>3

----------------------------------------------------------------------------
(* One lemma per action                                                    *)

\* The timers count down together.
LEMMA CheckStallInv == IInv /\ check_stall => IInv'
  <1> SUFFICES ASSUME IInv, check_stall PROVE IInv'
    OBVIOUS
  <1> USE DEF check_stall, Tick, Resumed, cpu, board
  <1>1. TypeOK'
    BY DEF TypeOK, Stages, Bit
  <1>2. LatchInv'
    BY DEF LatchInv, Destined
  <1>3. StallDiscipline'
    BY DEF TypeOK, StallDiscipline, Stages, Bit
  <1>4. LoadProgress'
    BY DEF TypeOK, StallDiscipline, LoadProgress, Live, Stages, Bit
  <1> QED BY <1>1, <1>2, <1>3, <1>4

\* A stage that is not due, at one of the five places of process_instruction.
LEMMA SkipInv ==
  ASSUME NEW here, NEW status, NEW next, IInv, Skip(here, status, next),
         \/ here = "write_back" /\ status = writeback_status /\ next = "memory"
         \/ here = "memory" /\ status = memory_status /\ next = "execute"
         \/ here = "execute" /\ status = execute_status /\ next = "decode"
         \/ here = "decode" /\ status = decode_status /\ next = "fetch"
         \/ here = "fetch" /\ status = fetch_status /\ next = "cycle_end"
  PROVE  IInv'
  <1> USE DEF Skip, cpu, statuses, timers, board
  <1>1. TypeOK'
    BY DEF TypeOK, Stages
  <1>2. LatchInv'
    BY DEF LatchInv, Destined
  <1>3. StallDiscipline'
    BY DEF StallDiscipline, Stages
  <1>4. LoadProgress'
    BY DEF TypeOK, StallDiscipline, LoadProgress, Live, Stages, Bit
  <1> QED BY <1>1, <1>2, <1>3, <1>4

\* A division that traps changes nothing.
LEMMA TrapInv == IInv /\ trap => IInv'
  <1> SUFFICES ASSUME IInv, trap PROVE IInv'
    OBVIOUS
  <1> USE DEF trap, cpu, statuses, timers, board
  <1>1. TypeOK'
    BY DEF TypeOK, Stages
  <1>2. LatchInv'
    BY DEF LatchInv, Destined
  <1>3. StallDiscipline' /\ LoadProgress'
    BY DEF StallDiscipline, LoadProgress, Live
  <1> QED BY <1>1, <1>2, <1>3

\* Fetch reads an instruction and a word.
LEMMA FetchInv == IInv /\ fetch => IInv'
  <1> SUFFICES ASSUME IInv, fetch PROVE IInv'
    OBVIOUS
  <1> USE DEF fetch, timers, board
  <1>1. TypeOK'
    <2>1. PC' \in Word
      <3>1. PC + 4 \in Int
        BY WordSums DEF TypeOK
      <3> QED BY <3>1, U32Type
    <2>2. if_id' \in [ir : Instr, pc : Word]
      BY FetchedType DEF TypeOK
    <2> QED BY <2>1, <2>2 DEF TypeOK, Stages, Bit
  <1>2. LatchInv'
    BY DEF LatchInv, Destined
  <1>3. StallDiscipline'
    BY DEF TypeOK, StallDiscipline, Stages, Bit
  <1>4. LoadProgress'
    BY DEF TypeOK, StallDiscipline, LoadProgress, Live, Stages, Bit
  <1> QED BY <1>1, <1>2, <1>3, <1>4

\* Write-back stores a word into a register of the file, or into HI and LO.
LEMMA WriteBackInv == IInv /\ write_back => IInv'
  <1> SUFFICES ASSUME IInv, write_back PROVE IInv'
    OBVIOUS
  <1> USE DEF write_back, timers
  <1>1. TypeOK'
    <2>1. /\ mem_wb.alu_result \in Word /\ mem_wb.memory_data \in Word /\ mem_wb.run_bit \in Bit
          /\ mem_wb.hi.value \in Word /\ mem_wb.lo.value \in Word
      BY DEF TypeOK, MemWb, HiLoLatch
    <2>2. REGS' \in [Reg -> Word]
      <3>1. WriteBackValue \in Word
        BY <2>1 DEF WriteBackValue
      <3> QED BY <3>1 DEF TypeOK
    <2>3. registerStatus' \in [StatusIndex -> Bit]
      <3>1. ASSUME NEW r \in StatusIndex
            PROVE  (IF r \in Released THEN 1 ELSE registerStatus[r]) \in Bit
        BY DEF TypeOK, Bit
      <3> QED BY <3>1
    <2>4. hi' \in Word /\ lo' \in Word /\ RUN_BIT' \in Bit /\ dependency' \in Bit
      BY <2>1 DEF TypeOK, Bit
    <2> QED BY <2>2, <2>3, <2>4 DEF TypeOK, Stages, Bit
  <1>2. LatchInv'
    BY DEF LatchInv, Destined
  <1>3. StallDiscipline'
    BY DEF StallDiscipline, Stages
  <1>4. LoadProgress'
    BY DEF TypeOK, StallDiscipline, LoadProgress, Live, Stages, Bit
  <1> QED BY <1>1, <1>2, <1>3, <1>4

\* Memory copies EX/MEM, reads a word and stores one.
LEMMA MemoryInv == IInv /\ memory => IInv'
  <1> SUFFICES ASSUME IInv, memory PROVE IInv'
    OBVIOUS
  <1> USE DEF memory, cpu, timers, board
  <1>1. /\ ex_mem.alu_result \in Word /\ ex_mem.storeValue \in Word
        /\ GranuleOf(ex_mem.alu_result) \in Granule
    <2>1. ex_mem.alu_result \in Word /\ ex_mem.storeValue \in Word
      BY DEF TypeOK, ExMem
    <2>2. ex_mem.alu_result \div 8 \in Nat
      BY <2>1, WordIsInt
    <2> QED BY <2>1, <2>2, GranuleAssumption DEF GranuleOf, Granule
  <1>2. ReadGranule(dram, ex_mem.alu_result) \in Word
    <2>1. dram[GranuleOf(ex_mem.alu_result)] \in Word
      BY <1>1 DEF TypeOK
    <2>2. ShiftOf(ex_mem.alu_result) \in 0 .. BITS
      <3>1. ChipId(ex_mem.alu_result) \in Nat
        BY <1>1, WordIsInt DEF ChipId
      <3>2. ASSUME NEW p \in Nat, NEW q \in Nat PROVE p * q \in Nat
        OBVIOUS
      <3>3. B * ChipId(ex_mem.alu_result) \in Nat
        BY <3>1, <3>2, ByteAssumption
      <3> QED BY <3>3, WordsPositive DEF ShiftOf
    <2> QED BY <2>1, <2>2, ShiftTypes DEF ReadGranule
  <1>3. dram' \in [Granule -> Word]
    BY <1>1 DEF TypeOK, WriteGranule
  <1>4. mem_wb' \in MemWb
    <2>1. ex_mem.mread = 1 => LoadedValue(ReadGranule(dram, ex_mem.alu_result),
                                          ex_mem.loadSize, ex_mem.isLoadSigned) \in Word
      BY <1>2, LoadedValueType DEF LatchInv
    <2>2. mem_wb.memory_data \in Word
      BY DEF TypeOK, MemWb
    <2> QED BY <2>1, <2>2 DEF TypeOK, ExMem, MemWb
  <1>5. TypeOK'
    BY <1>3, <1>4 DEF TypeOK, Stages, Bit
  <1>6. LatchInv'
    BY DEF LatchInv, Destined
  <1>7. StallDiscipline'
    BY DEF StallDiscipline, Stages
  <1>8. LoadProgress'
    BY DEF TypeOK, LatchInv, StallDiscipline, LoadProgress, Live, Stages, Bit
  <1> QED BY <1>5, <1>6, <1>7, <1>8

\* Execute fills EX/MEM, and empties the front latches on a taken branch.
LEMMA ExecuteInv == IInv /\ execute => IInv'
  <1> SUFFICES ASSUME IInv, execute PROVE IInv'
    OBVIOUS
  <1> USE DEF execute, Flush, timers, board
  <1>1. id_ex \in IdEx /\ ex_mem \in ExMem /\ id_ex.ctl \in Control
    BY DEF TypeOK, IdEx
  <1>2. ex_mem' = Executed(id_ex, ex_mem)
    OBVIOUS
  <1>3. ex_mem' \in ExMem
    <2>1. HiAfter(id_ex) \in HiLoLatch /\ LoAfter(id_ex) \in HiLoLatch
      BY <1>1, HiLoTypes DEF HiLoValue, HiLoLatch
    <2>2. /\ AluResult(id_ex, ex_mem.alu_result) \in Word
          /\ StoreValue(id_ex, ex_mem.storeValue) \in Word
      BY <1>1, AluResultType, StoreValueType DEF ExMem
    <2>3. /\ LoadSize(id_ex, ex_mem.loadSize) \in {0, BYTE, HALF, WORDS}
          /\ IsLoadSigned(id_ex, ex_mem.isLoadSigned) \in Bit
          /\ BranchCondition(id_ex, ex_mem.branchCondition) \in Bit
      <3>1. ex_mem.loadSize \in Sizes \cup {0} /\ ex_mem.isLoadSigned \in Bit
            /\ ex_mem.branchCondition \in Bit
        BY <1>1 DEF ExMem, Sizes
      <3> QED BY <1>1, <3>1, LoadSizeType, IsLoadSignedType, BranchConditionType DEF Sizes
    <2>4. DestinationOf(id_ex) \in StatusIndex
      BY <1>1, StatusIndices DEF IdEx, DestinationOf
    <2>5. id_ex.run_bit \in Bit
      BY <1>1 DEF IdEx
    <2> QED BY <1>1, <1>2, <2>1, <2>2, <2>3, <2>4, <2>5 DEF Executed, ExMem, Control
  <1>4. PC' \in Word /\ id_ex' \in IdEx /\ if_id' \in [ir : Instr, pc : Word]
    <2>1. BranchTarget(id_ex) \in Word /\ EmptyIdEx(id_ex.run_bit) \in IdEx
      <3>1. id_ex.run_bit \in Bit
        BY <1>1 DEF IdEx
      <3> QED BY <1>1, <3>1, BranchTargetType, EmptyIdExSound
    <2>2. \/ PC' = BranchTarget(id_ex) /\ id_ex' = EmptyIdEx(id_ex.run_bit) /\ if_id' = EmptyIfId
          \/ PC' = PC /\ id_ex' = id_ex /\ if_id' = if_id
      OBVIOUS
    <2> QED BY <2>1, <2>2, EmptyLatchTypes DEF TypeOK
  <1>5. TypeOK'
    BY <1>3, <1>4 DEF TypeOK, Stages, Bit
  <1>6. /\ ex_mem'.mread = id_ex.ctl.mread /\ ex_mem'.mem_to_rg = id_ex.ctl.mem_to_rg
        /\ ex_mem'.reg_write = id_ex.ctl.reg_write /\ ex_mem'.write_register = DestinationOf(id_ex)
        /\ ex_mem'.hi = HiAfter(id_ex) /\ ex_mem'.lo = LoAfter(id_ex)
        /\ ex_mem'.loadSize = LoadSize(id_ex, ex_mem.loadSize)
    BY <1>2 DEF Executed
  <1>7. LatchInv'
    <2>1. /\ GoodControl(id_ex'.ctl)
          /\ id_ex'.rd \in Reg \/ (id_ex'.ctl.alu_op = "SPECIAL" /\ id_ex'.ir.funct \in MoveTo)
      <3>1. id_ex' = id_ex \/ id_ex' = EmptyIdEx(id_ex.run_bit)
        OBVIOUS
      <3>2. id_ex.run_bit \in Bit
        BY <1>1 DEF IdEx
      <3> QED BY <3>1, <3>2, EmptyIdExSound DEF LatchInv
    <2>2. /\ ex_mem'.mem_to_rg = ex_mem'.mread
          /\ ex_mem'.mread = 1 => ex_mem'.loadSize \in Sizes
      <3>1. ex_mem.loadSize \in Sizes \cup {0}
        BY <1>1 DEF ExMem, Sizes
      <3> QED BY <1>1, <1>6, <3>1, LoadSizeType DEF LatchInv, GoodControl
    <2>3. Destined(ex_mem)'
      <3>1. CASE DestinationOf(id_ex) \in Reg
        BY <1>6, <3>1 DEF Destined
      <3>2. CASE DestinationOf(id_ex) \notin Reg
        <4>1. id_ex.ctl.alu_op = "SPECIAL" /\ id_ex.ir.funct \in MoveTo
          BY <1>1, <3>2 DEF LatchInv, DestinationOf, IdEx
        <4>2. id_ex.ctl.mem_to_rg # 1
          <5>1. "SPECIAL" \notin Loads
            BY DEF Loads
          <5> QED BY <4>1, <5>1 DEF LatchInv, GoodControl
        <4> QED BY <1>1, <1>6, <4>1, <4>2, MoveToMarks DEF Destined
      <3> QED BY <3>1, <3>2
    <2> QED BY <2>1, <2>2, <2>3 DEF LatchInv, Destined
  <1>8. StallDiscipline'
    BY DEF StallDiscipline, Stages
  <1>9. LoadProgress'
    <2>1. id_ex'.ctl.mread = 1 => id_ex.ctl.mread = 1
      BY <1>1, EmptyIdExSound DEF IdEx
    <2> QED BY <1>6, <2>1 DEF TypeOK, LoadProgress, Live, Bit
  <1> QED BY <1>5, <1>7, <1>8, <1>9

\* The cycle behind a load stops the front end and sends a bubble.
LEMMA DecodeStallInv == IInv /\ decode_stall => IInv'
  <1> SUFFICES ASSUME IInv, decode_stall PROVE IInv'
    OBVIOUS
  <1> USE DEF decode_stall, StopFrontEnd, StallCycles, cpu
  <1>1. Silent(NoControl("NONE"))
    <2>1. "NONE" \in AluOp
      BY DEF AluOp
    <2> QED BY <2>1, BuilderTypes
  <1>2. /\ id_ex' \in IdEx /\ id_ex'.ctl = NoControl("NONE") /\ id_ex'.rd \in Reg
    <2>1. id_ex.jumpAddress \in Word /\ 1 \in Bit
      BY DEF TypeOK, IdEx, Bit
    <2>2. EmptyIdEx(1) \in IdEx /\ EmptyIdEx(1).rd \in Reg
      BY <2>1, EmptyIdExSound
    <2> QED BY <1>1, <2>1, <2>2 DEF IdEx, Silent
  <1>3. TypeOK'
    BY <1>2 DEF TypeOK, Stages, Bit
  <1>4. LatchInv'
    BY <1>1, <1>2, SilentIsGood DEF LatchInv, Destined
  <1>5. StallDiscipline'
    BY DEF StallDiscipline, Stages, Bit
  <1>6. LoadProgress'
    BY <1>1, <1>2 DEF TypeOK, StallDiscipline, LoadProgress, Live, Stages, Bit, Silent
  <1> QED BY <1>3, <1>4, <1>5, <1>6
\* The latch setup_registers fills.
LEMMA SetupRegistersSound ==
  ASSUME TypeOK, Silent(id_ex.ctl)
  PROVE  /\ setup_registers \in IdEx /\ RdSound(setup_registers)
         /\ setup_registers.ctl = id_ex.ctl /\ setup_registers.ir = if_id.ir
  <1>1. if_id.ir \in Instr /\ if_id.pc \in Word /\ id_ex \in IdEx
    BY DEF TypeOK
  <1>2. /\ if_id.ir.rs \in Reg /\ if_id.ir.rt \in Reg /\ if_id.ir.rd \in Reg
        /\ if_id.ir.rd \in StatusIndex
    BY <1>1, StatusIndices DEF Instr
  <1>3. REGS[if_id.ir.rs] \in Word /\ REGS[if_id.ir.rt] \in Word /\ hi \in Word /\ lo \in Word
    BY <1>2 DEF TypeOK
  <1>4. setup_registers \in IdEx
    BY <1>1, <1>2, <1>3 DEF setup_registers, IdEx
  <1>5. /\ setup_registers.rd = if_id.ir.rd /\ setup_registers.ctl = id_ex.ctl
        /\ setup_registers.ir = if_id.ir
    BY <1>1 DEF setup_registers, IdEx
  <1> QED BY <1>2, <1>4, <1>5 DEF RdSound

\* The bypass changes operand values only.
LEMMA ForwardedSound ==
  ASSUME TypeOK, NEW d \in IdEx
  PROVE  /\ Forwarded(d) \in IdEx /\ Forwarded(d).ctl = d.ctl /\ Forwarded(d).ir = d.ir
         /\ Forwarded(d).rd = d.rd
  <1>1. /\ ex_mem.alu_result \in Word /\ mem_wb.alu_result \in Word
        /\ ex_mem.hi.value \in Word /\ ex_mem.lo.value \in Word
        /\ mem_wb.hi.value \in Word /\ mem_wb.lo.value \in Word
    BY DEF TypeOK, ExMem, MemWb, HiLoLatch
  <1>2. d.rs.value \in Word /\ d.rt.value \in Word /\ d.hi \in Word /\ d.lo \in Word
    BY DEF IdEx
  <1>3. ASSUME NEW n, NEW v \in Word PROVE Bypass(n, v) \in Word
    BY <1>1 DEF Bypass
  <1>4. /\ Bypass(d.rs.index, d.rs.value) \in Word /\ Bypass(d.rt.index, d.rt.value) \in Word
        /\ BypassHiLo(ex_mem.hi, mem_wb.hi, d.hi) \in Word
        /\ BypassHiLo(ex_mem.lo, mem_wb.lo, d.lo) \in Word
    BY <1>1, <1>2, <1>3 DEF BypassHiLo
  <1> QED BY <1>4 DEF Forwarded, IdEx

\* The latch decode leaves: sound, and reading memory only for a load.
LEMMA DecodedSound ==
  ASSUME TypeOK, Silent(id_ex.ctl)
  PROVE  /\ Decoded \in IdEx /\ GoodControl(Decoded.ctl)
         /\ Decoded.rd \in Reg \/ (Decoded.ctl.alu_op = "SPECIAL" /\ Decoded.ir.funct \in MoveTo)
         /\ Decoded.ctl.mread = 1 => if_id.ir.opcode \in Loads
  <1> DEFINE i == if_id.ir
             d == SetupControlSignals(setup_registers)
             f == IF DependencyAfter(i) = 1 THEN Forwarded(d) ELSE d
             s == IF HaltingSyscall(i) THEN [f EXCEPT !.run_bit = 0] ELSE f
             Sound(e, old) == /\ e \in IdEx /\ RdSound(e) /\ e.ir = i
                              /\ e.ctl = ControlOf(i, old)
  <1>1. i \in Instr
    BY DEF TypeOK
  <1>2. Sound(d, id_ex.ctl)
    BY SetupRegistersSound, SetupType
  <1> HIDE DEF d
  <1>3. Sound(f, id_ex.ctl)
    BY <1>2, ForwardedSound DEF RdSound
  <1> HIDE DEF f
  <1>4. Sound(s, id_ex.ctl)
    BY <1>3 DEF RdSound, IdEx, Bit
  <1> HIDE DEF s
  <1>5. s.ctl.jump = 1 => Silent(s.ctl)
    <2>1. i.opcode \in Loads => s.ctl = Load(i.opcode)
      BY <1>1, <1>4, ControlOfType
    <2>2. i.opcode \in Loads => s.ctl.jump = 0
      BY <2>1 DEF Load, RtWrite, NoControl
    <2> QED BY <1>1, <1>4, <2>2, ControlOfType
  <1>6. s.ctl.jump = 1 => Sound(SetupControlSignals(s), s.ctl)
    BY <1>4, <1>5, SetupType
  <1>7. Decoded = IF s.ctl.jump = 1 THEN SetupControlSignals(s) ELSE s
    BY DEF Decoded, d, f, s
  <1>8. \E old : Silent(old) /\ Sound(Decoded, old)
    BY <1>4, <1>5, <1>6, <1>7
  <1>9. PICK old : Silent(old) /\ Sound(Decoded, old)
    BY <1>8
  <1>10. GoodControl(Decoded.ctl) /\ (Decoded.ctl.mread = 1 => i.opcode \in Loads)
    BY <1>1, <1>9, ControlOfType DEF Silent
  <1>11. Special(i, MoveTo) => Decoded.ctl.alu_op = "SPECIAL" /\ Decoded.ir.funct \in MoveTo
    BY <1>1, <1>9, MoveToControl DEF Special
  <1> QED BY <1>9, <1>10, <1>11 DEF RdSound

\* Decode fills ID/EX while no load is in flight.
LEMMA DecodeInv == IInv /\ decode => IInv'
  <1> SUFFICES ASSUME IInv, decode PROVE IInv'
    OBVIOUS
  <1> USE DEF decode, timers
  <1>1. Silent(id_ex.ctl)
    <2>1. id_ex.ctl \in Control
      BY DEF TypeOK, IdEx
    <2>2. id_ex.ctl.mread # 1
      BY DEF LoadProgress, Live
    <2> QED BY <2>1, <2>2 DEF LatchInv, GoodControl, Silent, Control, Bit
  <1>2. TypeOK'
    <2>1. id_ex' \in IdEx
      BY <1>1, DecodedSound
    <2>2. PC' \in Word /\ if_id' \in [ir : Instr, pc : Word]
      <3>1. Decoded.jumpAddress \in Word
        BY <1>1, DecodedSound DEF IdEx
      <3> QED BY <3>1, EmptyLatchTypes DEF TypeOK
    <2>3. dependency' \in Bit /\ load' \in Bit
      BY DEF TypeOK, DependencyAfter, Bool, Bit
    <2>4. registerStatus' \in [StatusIndex -> Bit]
      <3>1. ASSUME NEW r \in StatusIndex
            PROVE  (IF r \in Reserved(Decoded) THEN 0 ELSE registerStatus[r]) \in Bit
        BY DEF TypeOK, Bit
      <3> QED BY <3>1
    <2>5. fetch_status' \in Bit
      BY DEF TypeOK, Bit
    <2> QED BY <2>1, <2>2, <2>3, <2>4, <2>5 DEF TypeOK, Stages, Bit
  <1>3. LatchInv'
    BY <1>1, DecodedSound DEF LatchInv, Destined
  <1>4. fetch_timer = 0 /\ decode_timer = 0 /\ fetch_status = 1
    BY DEF TypeOK, StallDiscipline, Stages, Bit
  <1>5. StallDiscipline'
    BY <1>4 DEF StallDiscipline
  <1>6. LoadProgress'
    <2>1. Decoded.ctl.mread = 1 => load' = 1
      BY <1>1, DecodedSound DEF Bool
    <2> QED BY <1>4, <2>1 DEF TypeOK, LoadProgress, Live, Stages, Bit
  <1> QED BY <1>2, <1>3, <1>5, <1>6

\* The end of a cycle, with the reset of a halting machine and the cycle limit.
LEMMA CycleEndInv == IInv /\ cycle_end => IInv'
  <1> SUFFICES ASSUME IInv, cycle_end PROVE IInv'
    OBVIOUS
  <1> USE DEF cycle_end, Counted, timers
  <1>1. REGS' \in [Reg -> Word]
    <2>1. WORDS - 1 \in Word
      BY WordsPositive DEF Word
    <2> QED BY <2>1 DEF TypeOK
  <1>2. id_ex.run_bit \in Bit
    BY DEF TypeOK, IdEx
  <1>3. CASE RUN_BIT = 0
    <2>1. reset_state
      BY <1>3
    <2>2. TypeOK'
      BY <1>1, <1>2, <1>3, <2>1, EmptyLatchTypes, EmptyIdExSound, AllReadyType
      DEF TypeOK, reset_state, Stages, Bit
    <2>3. LatchInv'
      BY <1>2, <2>1, EmptyLatchTypes, EmptyIdExSound DEF LatchInv, reset_state, Destined
    <2>4. StallDiscipline' /\ LoadProgress'
      BY <1>3 DEF StallDiscipline, LoadProgress, Live
    <2> QED BY <2>2, <2>3, <2>4
  <1>4. CASE RUN_BIT # 0
    <2>1. UNCHANGED <<board, statuses, if_id, id_ex, ex_mem, mem_wb>>
      BY <1>4
    <2>2. TypeOK'
      BY <1>1, <2>1 DEF TypeOK, board, statuses, Stages, Bit
    <2>3. LatchInv'
      BY <2>1 DEF LatchInv, Destined
    <2>4. StallDiscipline'
      BY <2>1 DEF StallDiscipline, statuses, Stages
    <2>5. LoadProgress'
      BY <2>1 DEF LoadProgress, Live, statuses, board, Stages
    <2> QED BY <2>2, <2>3, <2>4, <2>5
  <1> QED BY <1>3, <1>4

----------------------------------------------------------------------------
(* Theorems                                                                *)

\* Nothing changes in a step of Stopped or in a stuttering step.
LEMMA StutterInv == IInv /\ UNCHANGED vars => IInv'
  BY DEF vars, cpu, statuses, timers, board, TypeOK, LatchInv, Destined, StallDiscipline,
         LoadProgress, Live

\* Every step keeps the invariant.
LEMMA NextInv == IInv /\ [Next]_vars => IInv'
  <1> SUFFICES ASSUME IInv, [Next]_vars PROVE IInv'
    OBVIOUS
  <1>1. CASE check_stall
    BY <1>1, CheckStallInv
  <1>2. CASE write_back \/ Skip("write_back", writeback_status, "memory")
    BY <1>2, WriteBackInv, SkipInv
  <1>3. CASE memory \/ Skip("memory", memory_status, "execute")
    BY <1>3, MemoryInv, SkipInv
  <1>4. CASE execute \/ Skip("execute", execute_status, "decode") \/ trap
    BY <1>4, ExecuteInv, SkipInv, TrapInv
  <1>5. CASE decode \/ Skip("decode", decode_status, "fetch") \/ decode_stall
    BY <1>5, DecodeInv, SkipInv, DecodeStallInv
  <1>6. CASE fetch \/ Skip("fetch", fetch_status, "cycle_end")
    BY <1>6, FetchInv, SkipInv
  <1>7. CASE cycle_end
    BY <1>7, CycleEndInv
  <1>8. CASE Stopped \/ UNCHANGED vars
    BY <1>8, StutterInv DEF Stopped
  <1> QED BY <1>1, <1>2, <1>3, <1>4, <1>5, <1>6, <1>7, <1>8 DEF Next, Step

\* The invariant is inductive and holds in every reachable state.
THEOREM Invariant == Spec => []IInv
  BY InitInv, NextInv, PTL DEF Spec

\* u32 values stay words, flags bits, and register numbers inside their
\* arrays, whatever the program does.
THEOREM TypeCorrect == Spec => []TypeOK
  <1>1. IInv => TypeOK
    OBVIOUS
  <1> QED BY <1>1, Invariant, PTL

\* check_stall, decode_stall, fetch and decode keep the two halves of the
\* front end stopped together, and never stopped without a running timer.
THEOREM StallsAreTimed == Spec => []StallDiscipline
  <1>1. IInv => StallDiscipline
    OBVIOUS
  <1> QED BY <1>1, Invariant, PTL

\* The two-cycle stall behind a load is long enough: nothing is decoded
\* between the decode of a load and its write-back.
THEOREM LoadsAreWaitedFor == Spec => []LoadInterlock
  <1>1. IInv => LoadInterlock
    BY DEF TypeOK, LoadProgress, StallDiscipline, LoadInterlock, Live, Stages, Bit
  <1> QED BY <1>1, Invariant, PTL

\* write_back indexes REGS inside its bounds although MTHI and MTLO carry
\* 32 and 33 in write_register.
THEOREM WritesStayInside == Spec => []NoStrayWrite
  <1>1. IInv => NoStrayWrite
    BY DEF LatchInv, Destined, NoStrayWrite, WritesReg, WritesHi, WritesLo
  <1> QED BY <1>1, Invariant, PTL

HIDE DEF IInv

----------------------------------------------------------------------------
(* The inductive invariant of the scoreboard                               *)

\* i, decoded right behind older, writes neither HI nor LO if older does.
ClearOf(i, older) == \A r \in Writes(i) \cap {HI, LO} : r \notin Writes(older)

\* The write-back of older, two instructions ahead of i, does not release
\* what i is computing: only i's own producer between them may name it.
ClearBehind(i, between, older) ==
  \A r \in Writes(i) \ {0} :
    IF r \in {HI, LO} THEN r \notin Writes(older)
    ELSE i.opcode \notin Loads /\ r \in Writes(older) => Names(between) = r

\* The latch behind execute names what i names, and its write-back releases
\* no register but those i writes.
Releases(latch, i) ==
  /\ latch.write_register = Names(i)
  /\ latch.reg_write = 1 =>
       IF latch.mem_to_rg = 1 \/ (latch.hi.index # 1 /\ latch.lo.index # 1)
         THEN latch.write_register \in Writes(i)
         ELSE /\ latch.hi.index = 1 => HI \in Writes(i)
              /\ latch.lo.index = 1 => LO \in Writes(i)

\* ID/EX holds i, or a bubble.
Holds(d, i) ==
  /\ DestinationOf(d) = Names(i)
  /\ \/ d.ctl.reg_write = 0
     \/ /\ d.ir = i /\ Known(i) /\ d.ctl = ControlOf(i, d.ctl)
        /\ Special(i, {"DIV", "DIVU"}) => d.rt.value # 0

\* Every register i writes is busy.
Busy(i) == i.opcode \notin Loads => \A r \in Writes(i) \ {0} : registerStatus[r] = 0

Behind == {"fetch", "cycle_end", "check_stall", "write_back"}

SlotTypes ==
  LET Held == [ir : Instr, pc : Word, real : BOOLEAN, fwd : Bit]
  IN slot \in [id : BOOLEAN, ex : Held, mem : Held, wb : Held]

\* A stage that has run is not due again before the stage ahead of it has.
Due ==
  /\ stage = "memory" => writeback_status = 0
  /\ stage = "execute" => memory_status = 0
  /\ stage = "decode" => execute_status = 0

Slots ==
  /\ Releases(mem_wb, slot.wb.ir) /\ Releases(ex_mem, slot.mem.ir)
  /\ execute_status = 1 => Holds(id_ex, slot.ex.ir)

Marked ==
  /\ writeback_status = 1 => Busy(slot.wb.ir)
  /\ memory_status = 1 => Busy(slot.mem.ir)
  /\ execute_status = 1 => Busy(slot.ex.ir)

Apart ==
  /\ memory_status = 1 /\ writeback_status = 1 => ClearOf(slot.mem.ir, slot.wb.ir)
  /\ execute_status = 1 /\ memory_status = 1 => ClearOf(slot.ex.ir, slot.mem.ir)
  /\ execute_status = 1 /\ writeback_status = 1 /\ stage = "execute" =>
       ClearOf(slot.ex.ir, slot.wb.ir)
  /\ execute_status = 1 /\ writeback_status = 1 /\ stage \in Behind =>
       ClearBehind(slot.ex.ir, slot.mem.ir, slot.wb.ir)

\* What follows a load through the pipeline is a bubble.
Shadow ==
  /\ memory_status = 1 /\ ex_mem.mread = 1 /\ execute_status = 1 => slot.ex = Bubble
  /\ writeback_status = 1 /\ mem_wb.mem_to_rg = 1 =>
       /\ memory_status = 1 => slot.mem = Bubble
       /\ execute_status = 1 => stage = "execute" /\ slot.ex = Bubble

\* The invariant of the scoreboard.
BoardInv == SlotTypes /\ (Live /\ hazard = {} => Due /\ Slots /\ Marked /\ Apart /\ Shadow)

----------------------------------------------------------------------------
(* What the decoder makes of an instruction                                *)

Computing == AluFuncts \cup MulDiv \cup MoveFrom \cup MoveTo

\* The control record of each class of instructions with a case.
LEMMA ControlCases ==
  ASSUME NEW i \in Instr, Known(i), NEW old
  PROVE  \/ Special(i, {"SYSCALL"}) /\ ControlOf(i, old) = NoControl("SPECIAL")
         \/ Special(i, {"JR"}) /\ ControlOf(i, old) = Jump("SPECIAL")
         \/ Special(i, {"JALR"}) /\ ControlOf(i, old) = Link
         \/ Special(i, Computing) /\ ControlOf(i, old) = RdWrite("SPECIAL")
         \/ Regimm(i, LinkBranch) /\ ControlOf(i, old) = [RtWrite("REGIMM") EXCEPT !.branch = 1]
         \/ Regimm(i, PlainRegimm) /\ ControlOf(i, old) = [Branch("REGIMM") EXCEPT !.alu_src = 1]
         \/ i.opcode = "J" /\ ControlOf(i, old) = Jump("J")
         \/ i.opcode = "JAL" /\ ControlOf(i, old) = Link
         \/ i.opcode \in ImmOps \cup {"LUI"} /\ ControlOf(i, old) = RtWrite(i.opcode)
         \/ i.opcode \in CmpBranch /\ ControlOf(i, old) = Branch(i.opcode)
         \/ i.opcode \in Loads /\ ControlOf(i, old) = Load(i.opcode)
         \/ i.opcode \in Stores /\ ControlOf(i, old) = Store(i.opcode)
  <1> DEFINE c == ControlOf(i, old)
             Plain == i.opcode \notin ImmOps \cup {"LUI"} /\ i.opcode \notin CmpBranch
                      /\ i.opcode \notin Loads /\ i.opcode \notin Stores
                      /\ i.opcode # "J" /\ i.opcode # "JAL"
  <1>1. i.opcode \in Opcode
    BY DEF Instr
  <1>2. CASE i.opcode = "SPECIAL"
    <2>1. Plain /\ ~ Regimm(i, LinkBranch) /\ ~ Regimm(i, PlainRegimm)
      BY <1>2 DEF Regimm, ImmOps, CmpBranch, Loads, Stores
    <2>2. i.funct \in {"SYSCALL"} \cup Computing \cup RegJumps
      BY <1>2 DEF Known, Special, Regimm, Computing
    <2>3. CASE i.funct = "SYSCALL"
      <3>1. ~ Special(i, {"JR"}) /\ ~ Special(i, {"JALR"}) /\ Special(i, {"SYSCALL"})
            /\ Special(i, {"SYSCALL", "JR", "JALR"})
        BY <1>2, <2>3 DEF Special
      <3>2. c = NoControl("SPECIAL")
        BY <2>1, <3>1 DEF ControlOf
      <3> QED BY <3>1, <3>2
    <2>4. CASE i.funct = "JR"
      <3>1. ~ Special(i, {"SYSCALL"}) /\ ~ Special(i, {"JALR"}) /\ Special(i, {"JR"})
            /\ Special(i, {"SYSCALL", "JR", "JALR"})
        BY <1>2, <2>4 DEF Special
      <3>2. c = Jump("SPECIAL")
        BY <2>1, <3>1 DEF ControlOf
      <3> QED BY <3>1, <3>2
    <2>5. CASE i.funct = "JALR"
      <3>1. ~ Special(i, {"SYSCALL"}) /\ ~ Special(i, {"JR"}) /\ Special(i, {"JALR"})
            /\ Special(i, {"SYSCALL", "JR", "JALR"})
        BY <1>2, <2>5 DEF Special
      <3>2. c = Link
        BY <2>1, <3>1 DEF ControlOf
      <3> QED BY <3>1, <3>2
    <2>6. CASE i.funct \in Computing
      <3>1. i.funct \notin {"SYSCALL"} /\ i.funct \notin {"JR"} /\ i.funct \notin {"JALR"}
            /\ i.funct \notin {"SYSCALL", "JR", "JALR"}
        BY <2>6 DEF Computing, AluFuncts, ShiftFuncts, MulDiv, MoveFrom, MoveTo
      <3>2. ~ Special(i, {"SYSCALL"}) /\ ~ Special(i, {"JR"}) /\ ~ Special(i, {"JALR"})
            /\ ~ Special(i, {"SYSCALL", "JR", "JALR"}) /\ Special(i, Computing)
        BY <1>2, <2>6, <3>1 DEF Special
      <3>3. c = RdWrite("SPECIAL")
        BY <1>2, <2>1, <3>2 DEF ControlOf
      <3> QED BY <3>2, <3>3
    <2> QED BY <2>2, <2>3, <2>4, <2>5, <2>6 DEF RegJumps
  <1>3. CASE i.opcode = "REGIMM"
    <2>1. Plain /\ i.opcode # "SPECIAL"
      BY <1>3 DEF ImmOps, CmpBranch, Loads, Stores
    <2>2. ~ Special(i, {"SYSCALL"}) /\ ~ Special(i, {"JR"}) /\ ~ Special(i, {"JALR"})
      BY <2>1 DEF Special
    <2>3. i.funct \in LinkBranch \/ i.funct \in PlainRegimm
      BY <1>3 DEF Known, Special, Regimm
    <2>4. CASE i.funct \in LinkBranch
      <3>1. Regimm(i, LinkBranch) /\ ~ Regimm(i, PlainRegimm)
        BY <1>3, <2>4 DEF Regimm, LinkBranch, PlainRegimm
      <3>2. c = [RtWrite("REGIMM") EXCEPT !.branch = 1]
        BY <2>1, <2>2, <3>1 DEF ControlOf
      <3> QED BY <3>1, <3>2
    <2>5. CASE i.funct \in PlainRegimm
      <3>1. Regimm(i, PlainRegimm) /\ ~ Regimm(i, LinkBranch)
        BY <1>3, <2>5 DEF Regimm, LinkBranch, PlainRegimm
      <3>2. c = [Branch("REGIMM") EXCEPT !.alu_src = 1]
        BY <2>1, <2>2, <3>1 DEF ControlOf
      <3> QED BY <3>1, <3>2
    <2> QED BY <2>3, <2>4, <2>5
  <1>4. CASE i.opcode \notin {"SPECIAL", "REGIMM"}
    <2>1. /\ ~ Special(i, {"SYSCALL"}) /\ ~ Special(i, {"JR"}) /\ ~ Special(i, {"JALR"})
          /\ ~ Regimm(i, LinkBranch) /\ ~ Regimm(i, PlainRegimm) /\ i.opcode # "SPECIAL"
      BY <1>4 DEF Special, Regimm
    <2>2. i.opcode # "PADDING"
      BY <1>4 DEF Known, Special, Regimm
    <2>3. \/ i.opcode = "J" \/ i.opcode = "JAL" \/ i.opcode \in ImmOps \cup {"LUI"}
          \/ i.opcode \in CmpBranch \/ i.opcode \in Loads \/ i.opcode \in Stores
      BY <1>1, <1>4, <2>2 DEF Opcode
    <2>4. CASE i.opcode = "J"
      <3>1. i.opcode \notin ImmOps \cup {"LUI"} \cup CmpBranch \cup Loads \cup Stores
        BY <2>4 DEF ImmOps, CmpBranch, Loads, Stores
      <3>2. c = Jump("J")
        BY <2>1, <2>4, <3>1 DEF ControlOf
      <3> QED BY <2>4, <3>2
    <2>5. CASE i.opcode = "JAL"
      <3>1. i.opcode \notin ImmOps \cup {"LUI"} \cup CmpBranch \cup Loads \cup Stores
        BY <2>5 DEF ImmOps, CmpBranch, Loads, Stores
      <3>2. c = Link
        BY <2>1, <2>5, <3>1 DEF ControlOf
      <3> QED BY <2>5, <3>2
    <2>6. CASE i.opcode \in ImmOps \cup {"LUI"}
      <3>1. i.opcode \notin {"J", "JAL"} \cup CmpBranch \cup Loads \cup Stores
        BY <2>6 DEF ImmOps, CmpBranch, Loads, Stores
      <3>2. c = RtWrite(i.opcode)
        BY <2>1, <2>6, <3>1 DEF ControlOf
      <3> QED BY <2>6, <3>2
    <2>7. CASE i.opcode \in CmpBranch
      <3>1. i.opcode \notin {"J", "JAL", "LUI"} \cup ImmOps \cup Loads \cup Stores
        BY <2>7 DEF ImmOps, CmpBranch, Loads, Stores
      <3>2. c = Branch(i.opcode)
        BY <2>1, <2>7, <3>1 DEF ControlOf
      <3> QED BY <2>7, <3>2
    <2>8. CASE i.opcode \in Loads
      <3>1. i.opcode \notin {"J", "JAL", "LUI"} \cup ImmOps \cup CmpBranch \cup Stores
        BY <2>8 DEF ImmOps, CmpBranch, Loads, Stores
      <3>2. c = Load(i.opcode)
        BY <2>1, <2>8, <3>1 DEF ControlOf
      <3> QED BY <2>8, <3>2
    <2>9. CASE i.opcode \in Stores
      <3>1. i.opcode \notin {"J", "JAL", "LUI"} \cup ImmOps \cup CmpBranch \cup Loads
        BY <2>9 DEF ImmOps, CmpBranch, Loads, Stores
      <3>2. c = Store(i.opcode)
        BY <2>1, <2>9, <3>1 DEF ControlOf
      <3> QED BY <2>9, <3>2
    <2> QED BY <2>3, <2>4, <2>5, <2>6, <2>7, <2>8, <2>9
  <1> QED BY <1>2, <1>3, <1>4

\* What an instruction writes and names, beside its control record.
LEMMA WritesCases ==
  ASSUME NEW i \in Instr, Known(i), NEW old
  PROVE  LET c == ControlOf(i, old) IN
         /\ c.reg_write \in Bit /\ c.reg_dst \in Bit /\ c.mem_to_rg \in Bit
         /\ c.reg_write = 0 => Writes(i) = {}
         /\ c.reg_write = 1 => Writes(i) = IF Special(i, MulDiv) THEN {HI, LO} ELSE {Names(i)}
         /\ c.mem_to_rg = 1 <=> i.opcode \in Loads
         /\ c.alu_op = "SPECIAL" /\ c.reg_write = 1 <=> Special(i, Computing)
         /\ Special(i, Computing) => c.alu_src = 0
         /\ Names(i) = IF Special(i, {"MTHI"}) THEN HI ELSE IF Special(i, {"MTLO"}) THEN LO
                       ELSE IF i.opcode = "JAL" \/ Regimm(i, LinkBranch) THEN R_RA
                       ELSE IF c.reg_dst = 1 THEN i.rd ELSE i.rt
  <1> DEFINE c == ControlOf(i, old)
             Fields(w, d, m, op) == c.reg_write = w /\ c.reg_dst = d /\ c.mem_to_rg = m /\ c.alu_op = op
             Goal == /\ c.reg_write \in Bit /\ c.reg_dst \in Bit /\ c.mem_to_rg \in Bit
                     /\ c.reg_write = 0 => Writes(i) = {}
                     /\ c.reg_write = 1 => Writes(i) = IF Special(i, MulDiv) THEN {HI, LO} ELSE {Names(i)}
                     /\ c.mem_to_rg = 1 <=> i.opcode \in Loads
                     /\ c.alu_op = "SPECIAL" /\ c.reg_write = 1 <=> Special(i, Computing)
                     /\ Special(i, Computing) => c.alu_src = 0
                     /\ Names(i) = IF Special(i, {"MTHI"}) THEN HI ELSE IF Special(i, {"MTLO"}) THEN LO
                                   ELSE IF i.opcode = "JAL" \/ Regimm(i, LinkBranch) THEN R_RA
                                   ELSE IF c.reg_dst = 1 THEN i.rd ELSE i.rt
  <1> SUFFICES Goal
    OBVIOUS
  <1>1. CASE Special(i, {"SYSCALL", "JR", "JALR"} \cup Computing)
    <2>1. /\ i.opcode = "SPECIAL" /\ i.opcode \notin Loads /\ i.opcode \notin Stores /\ i.opcode # "J"
          /\ i.opcode \notin CmpBranch /\ i.opcode # "JAL" /\ i.opcode \notin ImmOps \cup {"LUI"}
          /\ ~ Regimm(i, LinkBranch) /\ ~ Regimm(i, PlainRegimm)
          /\ i.opcode \notin {"J"} \cup CmpBranch \cup Stores
      BY <1>1 DEF Special, Regimm, Loads, Stores, CmpBranch, ImmOps
    <2>2. CASE Special(i, {"SYSCALL", "JR"})
      <3>1. /\ ~ Special(i, {"JALR"}) /\ ~ Special(i, Computing) /\ ~ Special(i, MulDiv)
            /\ ~ Special(i, {"MTHI"}) /\ ~ Special(i, {"MTLO"}) 
            /\ (Special(i, {"SYSCALL"}) \/ Special(i, {"JR"}))
            /\ i.funct \in {"SYSCALL", "JR", "MTHI", "MTLO", "UNUSED"}
        BY <2>2 DEF Special, Computing, AluFuncts, ShiftFuncts, MulDiv, MoveFrom, MoveTo
      <3>2. Fields(0, 0, 0, "SPECIAL")
        BY <2>1, <3>1, ControlCases DEF NoControl, Jump
      <3>3. Writes(i) = {}
        BY <2>2, <3>1 DEF Writes
      <3>4. Names(i) = i.rt
        BY <2>1, <3>1 DEF Names
      <3> QED BY <2>1, <3>1, <3>2, <3>3, <3>4 DEF Bit
    <2>3. CASE Special(i, {"JALR"})
      <3>1. /\ ~ Special(i, {"SYSCALL", "JR"}) /\ ~ Special(i, {"SYSCALL"}) /\ ~ Special(i, {"JR"})
            /\ ~ Special(i, Computing) /\ ~ Special(i, MulDiv)
            /\ ~ Special(i, {"MTHI"}) /\ ~ Special(i, {"MTLO"})
            /\ i.funct \notin {"SYSCALL", "JR", "MTHI", "MTLO", "UNUSED"}
        BY <2>3 DEF Special, Computing, AluFuncts, ShiftFuncts, MulDiv, MoveFrom, MoveTo
      <3>2. Fields(1, 1, 0, "LB")
        BY <2>1, <3>1, ControlCases DEF NoControl, Link, RdWrite
      <3>3. Writes(i) = {Names(i)}
        BY <2>1, <3>1 DEF Writes
      <3>4. Names(i) = i.rd
        BY <2>1, <3>1 DEF Names
      <3> QED BY <2>1, <3>1, <3>2, <3>3, <3>4 DEF Bit
    <2>4. CASE Special(i, Computing)
      <3>1. /\ ~ Special(i, {"SYSCALL", "JR"}) /\ ~ Special(i, {"SYSCALL"}) /\ ~ Special(i, {"JR"})
            /\ ~ Special(i, {"JALR"}) /\ i.funct \notin {"SYSCALL", "JR", "UNUSED"}
        BY <2>4 DEF Special, Computing, AluFuncts, ShiftFuncts, MulDiv, MoveFrom, MoveTo
      <3>2. Fields(1, 1, 0, "SPECIAL") /\ c.alu_src = 0
        BY <2>1, <3>1, ControlCases DEF NoControl, RdWrite
      <3>3. Writes(i) = IF Special(i, MulDiv) THEN {HI, LO} ELSE {Names(i)}
        BY <2>1, <3>1 DEF Writes
      <3>4. CASE Special(i, {"MTHI"})
        <4>1. Names(i) = HI
          BY <2>1, <3>4 DEF Names, Special
        <4> QED BY <2>1, <2>4, <3>2, <3>3, <3>4, <4>1 DEF Bit
      <3>5. CASE Special(i, {"MTLO"})
        <4>1. ~ Special(i, {"MTHI"})
          BY <3>5 DEF Special
        <4>2. Names(i) = LO
          BY <2>1, <3>5, <4>1 DEF Names, Special
        <4> QED BY <2>1, <2>4, <3>2, <3>3, <3>5, <4>1, <4>2 DEF Bit
      <3>6. CASE ~ Special(i, {"MTHI"}) /\ ~ Special(i, {"MTLO"})
        <4>1. i.funct \notin {"SYSCALL", "JR", "MTHI", "MTLO", "UNUSED"}
          BY <2>1, <3>1, <3>6 DEF Special
        <4>2. Names(i) = i.rd
          BY <2>1, <3>6, <4>1 DEF Names
        <4> QED BY <2>1, <2>4, <3>2, <3>3, <3>6, <4>2 DEF Bit
      <3> QED BY <3>4, <3>5, <3>6
    <2> QED BY <1>1, <2>2, <2>3, <2>4 DEF Special
  <1>2. CASE ~ Special(i, {"SYSCALL", "JR", "JALR"} \cup Computing)
    <2>1. /\ ~ Special(i, {"SYSCALL", "JR"}) /\ ~ Special(i, {"SYSCALL"}) /\ ~ Special(i, {"JR"})
          /\ ~ Special(i, {"JALR"}) /\ ~ Special(i, Computing) /\ ~ Special(i, MulDiv)
          /\ ~ Special(i, {"MTHI"}) /\ ~ Special(i, {"MTLO"}) /\ i.opcode # "SPECIAL"
      <3>1. i.opcode # "SPECIAL"
        BY <1>2 DEF Known, Special, Regimm, Computing, RegJumps
      <3> QED BY <3>1 DEF Special
    <2>2. CASE Regimm(i, LinkBranch)
      <3>1. /\ i.opcode \notin Loads /\ i.opcode \notin Stores /\ i.opcode # "J" /\ ~ Regimm(i, PlainRegimm)
            /\ i.opcode \notin CmpBranch /\ i.opcode # "JAL" /\ i.opcode \notin ImmOps \cup {"LUI"}
            /\ i.opcode \notin {"J"} \cup CmpBranch \cup Stores
        BY <2>2 DEF Regimm, Loads, Stores, CmpBranch, ImmOps, LinkBranch, PlainRegimm
      <3>2. Fields(1, 0, 0, "REGIMM")
        BY <2>1, <3>1, ControlCases DEF NoControl, RtWrite
      <3>3. Writes(i) = {Names(i)} /\ Names(i) = R_RA
        BY <2>1, <2>2, <3>1 DEF Writes, Names
      <3> QED BY <2>1, <2>2, <3>1, <3>2, <3>3 DEF Bit
    <2>3. CASE Regimm(i, PlainRegimm)
      <3>1. /\ i.opcode \notin Loads /\ i.opcode \notin Stores /\ i.opcode # "J" /\ ~ Regimm(i, LinkBranch)
            /\ i.opcode \notin CmpBranch /\ i.opcode # "JAL" /\ i.opcode \notin ImmOps \cup {"LUI"}
            /\ i.opcode \notin {"J"} \cup CmpBranch \cup Stores
        BY <2>3 DEF Regimm, Loads, Stores, CmpBranch, ImmOps, LinkBranch, PlainRegimm
      <3>2. Fields(0, 0, 0, "REGIMM")
        BY <2>1, <3>1, ControlCases DEF NoControl, Branch
      <3>3. Writes(i) = {} /\ Names(i) = i.rt
        BY <2>1, <2>3, <3>1 DEF Writes, Names
      <3> QED BY <2>1, <2>3, <3>1, <3>2, <3>3 DEF Bit
    <2>4. CASE i.opcode \notin {"SPECIAL", "REGIMM"}
      <3>1. ~ Regimm(i, LinkBranch) /\ ~ Regimm(i, PlainRegimm)
        BY <2>4 DEF Regimm
      <3>2. CASE i.opcode = "JAL"
        <4>1. i.opcode \notin Loads /\ i.opcode \notin Stores /\ i.opcode \notin CmpBranch
              /\ i.opcode \notin ImmOps \cup {"LUI"} /\ i.opcode \notin {"J"} \cup CmpBranch \cup Stores
          BY <3>2 DEF Loads, Stores, CmpBranch, ImmOps
        <4>2. Fields(1, 1, 0, "LB")
          BY <2>1, <3>1, <3>2, <4>1, ControlCases DEF NoControl, Link, RdWrite
        <4>3. Writes(i) = {Names(i)} /\ Names(i) = R_RA
          BY <2>1, <3>1, <3>2, <4>1 DEF Writes, Names
        <4> QED BY <2>1, <3>1, <3>2, <4>1, <4>2, <4>3 DEF Bit
      <3>3. CASE i.opcode \in {"J"} \cup CmpBranch \cup Stores
        <4>1. i.opcode # "JAL" /\ i.opcode \notin Loads /\ i.opcode \notin ImmOps \cup {"LUI"}
          BY <3>3 DEF Loads, Stores, CmpBranch, ImmOps
        <4>2. Fields(0, 0, 0, i.opcode)
          <5>1. c = Jump(i.opcode) \/ c = Branch(i.opcode) \/ c = Store(i.opcode)
            BY <2>1, <3>1, <4>1, ControlCases
          <5> QED BY <5>1 DEF NoControl, Jump, Branch, Store
        <4>3. Writes(i) = {} /\ Names(i) = i.rt
          BY <2>1, <2>4, <3>1, <3>3, <4>1 DEF Writes, Names
        <4> QED BY <2>1, <3>1, <4>1, <4>2, <4>3 DEF Bit
      <3>4. CASE i.opcode \in ImmOps \cup {"LUI"} \cup Loads
        <4>1. i.opcode # "JAL" /\ i.opcode \notin {"J"} \cup CmpBranch \cup Stores
          BY <3>4 DEF Loads, Stores, CmpBranch, ImmOps
        <4>2. c.reg_write = 1 /\ c.reg_dst = 0 /\ c.alu_op = i.opcode /\ c.mem_to_rg \in Bit
              /\ (c.mem_to_rg = 1 <=> i.opcode \in Loads)
          <5>1. CASE i.opcode \in Loads
            <6>1. i.opcode \notin ImmOps \cup {"LUI"}
              BY <5>1 DEF Loads, ImmOps
            <6>2. c = Load(i.opcode)
              BY <2>1, <3>1, <4>1, <6>1, ControlCases
            <6> QED BY <5>1, <6>2 DEF NoControl, RtWrite, Load, Bit
          <5>2. CASE i.opcode \notin Loads
            <6>1. c = RtWrite(i.opcode)
              BY <2>1, <3>1, <4>1, <5>2, ControlCases
            <6> QED BY <5>2, <6>1 DEF NoControl, RtWrite, Bit
          <5> QED BY <5>1, <5>2
        <4>3. Writes(i) = {Names(i)} /\ Names(i) = i.rt
          BY <2>1, <2>4, <3>1, <4>1 DEF Writes, Names
        <4> QED BY <2>1, <3>1, <4>1, <4>2, <4>3 DEF Bit
      <3>5. i.opcode # "PADDING" /\ i.opcode \in Opcode
        BY <2>4 DEF Known, Special, Regimm, Instr
      <3> QED BY <2>4, <3>2, <3>3, <3>4, <3>5 DEF Opcode
    <2>5. i.opcode = "REGIMM" => i.funct \in LinkBranch \/ i.funct \in PlainRegimm
      BY <2>1 DEF Known, Special, Regimm
    <2> QED BY <2>1, <2>2, <2>3, <2>4, <2>5 DEF Regimm
  <1> QED BY <1>1, <1>2

----------------------------------------------------------------------------
(* Execute                                                                 *)

\* MULT, MULTU, DIV, DIVU, MTHI and MTLO mark HI and LO, nothing else does;
\* a division needs a divisor.
LEMMA Marks ==
  ASSUME NEW d, d.ctl.alu_op = "SPECIAL"
  PROVE  /\ d.ir.funct \in MulDiv /\ (d.ir.funct \in {"DIV", "DIVU"} => OperandB(d) # 0) =>
              HiAfter(d).index = 1 /\ LoAfter(d).index = 1
         /\ HiAfter(d).index = 1 => d.ir.funct \in MulDiv \cup {"MTHI"}
         /\ LoAfter(d).index = 1 => d.ir.funct \in MulDiv \cup {"MTLO"}
         /\ d.ir.funct = "MTHI" => HiAfter(d).index = 1
         /\ d.ir.funct = "MTLO" => LoAfter(d).index = 1
  <1>1. ASSUME NEW v PROVE Set(v).index = 1 /\ Keep(v).index = 0
    BY DEF Set, Keep
  <1>2. d.ir.funct \notin MulDiv \cup {"MTHI"} => HiAfter(d) = Keep(d.hi)
    BY DEF HiAfter, RunsSpecial, Divides, MulDiv
  <1>3. d.ir.funct \notin MulDiv \cup {"MTLO"} => LoAfter(d) = Keep(d.lo)
    BY DEF LoAfter, RunsSpecial, Divides, MulDiv
  <1>4. ASSUME d.ir.funct \in MulDiv, d.ir.funct \in {"DIV", "DIVU"} => OperandB(d) # 0
        PROVE  HiAfter(d).index = 1 /\ LoAfter(d).index = 1
    <2>1. CASE d.ir.funct = "MULT"
      BY <1>1, <2>1 DEF HiAfter, LoAfter, RunsSpecial, Divides
    <2>2. CASE d.ir.funct = "MULTU"
      BY <1>1, <2>2 DEF HiAfter, LoAfter, RunsSpecial, Divides
    <2>3. CASE d.ir.funct = "DIV"
      BY <1>1, <1>4, <2>3 DEF HiAfter, LoAfter, RunsSpecial, Divides
    <2>4. CASE d.ir.funct = "DIVU"
      BY <1>1, <1>4, <2>4 DEF HiAfter, LoAfter, RunsSpecial, Divides
    <2> QED BY <1>4, <2>1, <2>2, <2>3, <2>4 DEF MulDiv
  <1>5. /\ d.ir.funct = "MTHI" => HiAfter(d).index = 1
        /\ d.ir.funct = "MTLO" => LoAfter(d).index = 1
    BY <1>1 DEF HiAfter, LoAfter, RunsSpecial
  <1> QED BY <1>1, <1>2, <1>3, <1>4, <1>5

\* An operation that is not of the R format keeps HI and LO.
LEMMA Unmarked ==
  ASSUME NEW d, d.ctl.alu_op # "SPECIAL"
  PROVE  HiAfter(d).index = 0 /\ LoAfter(d).index = 0
  BY DEF HiAfter, LoAfter, RunsSpecial, Divides, Keep

\* Execute hands on the claim of the latch on what its instruction writes.
LEMMA HeldReleases ==
  ASSUME NEW d, NEW old, NEW i \in Instr, Holds(d, i)
  PROVE  Releases(Executed(d, old), i)
  <1> DEFINE e == Executed(d, old)
  <1>1. /\ e.write_register = DestinationOf(d) /\ e.reg_write = d.ctl.reg_write
        /\ e.mem_to_rg = d.ctl.mem_to_rg /\ e.hi = HiAfter(d) /\ e.lo = LoAfter(d)
    BY DEF Executed
  <1> SUFFICES Releases(e, i)
    OBVIOUS
  <1> HIDE DEF e
  <1>2. CASE d.ctl.reg_write # 1
    BY <1>1, <1>2 DEF Releases, Holds
  <1>3. CASE d.ctl.reg_write = 1
    <2>1. /\ d.ir = i /\ Known(i) /\ d.ctl = ControlOf(i, d.ctl)
          /\ Special(i, {"DIV", "DIVU"}) => d.rt.value # 0
      BY <1>3 DEF Holds
    <2>2. Writes(i) = IF Special(i, MulDiv) THEN {HI, LO} ELSE {Names(i)}
      BY <1>3, <2>1, WritesCases
    <2>3. /\ d.ctl.mem_to_rg = 1 <=> i.opcode \in Loads
          /\ d.ctl.alu_op = "SPECIAL" <=> Special(i, Computing)
          /\ Special(i, Computing) => d.ctl.alu_src = 0
      BY <1>3, <2>1, WritesCases
    <2>4. /\ Special(i, {"MTHI"}) => Names(i) = HI
          /\ Special(i, {"MTLO"}) => Names(i) = LO
      <3>1. /\ Special(i, {"MTHI"}) => Names(i) = HI
            /\ Special(i, {"MTLO"}) /\ ~ Special(i, {"MTHI"}) => Names(i) = LO
        BY <2>1, WritesCases
      <3> QED BY <3>1 DEF Special
    <2>5. CASE ~ Special(i, Computing)
      <3>1. HiAfter(d).index = 0 /\ LoAfter(d).index = 0
        BY <2>3, <2>5, Unmarked
      <3>2. ~ Special(i, MulDiv)
        BY <2>5 DEF Special, Computing
      <3> QED BY <1>1, <2>2, <3>1, <3>2 DEF Releases, Holds
    <2>6. CASE Special(i, MulDiv)
      <3>1. i.opcode = "SPECIAL" /\ i.funct \in MulDiv /\ Special(i, Computing) /\ i.opcode \notin Loads
        BY <2>6 DEF Special, Computing, Loads
      <3>2. i.funct \in {"DIV", "DIVU"} => OperandB(d) # 0
        BY <2>1, <2>3, <3>1 DEF OperandB, Special
      <3>3. HiAfter(d).index = 1 /\ LoAfter(d).index = 1
        BY <2>1, <2>3, <3>1, <3>2, Marks
      <3> QED BY <1>1, <2>2, <2>3, <2>6, <3>1, <3>3 DEF Releases, Holds
    <2>7. CASE Special(i, Computing) /\ ~ Special(i, MulDiv)
      <3>1. i.opcode = "SPECIAL" /\ i.funct \notin MulDiv
        BY <2>7 DEF Special
      <3>2. /\ HiAfter(d).index = 1 => Special(i, {"MTHI"})
            /\ LoAfter(d).index = 1 => Special(i, {"MTLO"})
        BY <2>1, <2>3, <2>7, <3>1, Marks DEF Special
      <3> QED BY <1>1, <2>2, <2>4, <2>7, <3>2 DEF Releases, Holds
    <2> QED BY <2>5, <2>6, <2>7
  <1> QED BY <1>2, <1>3

----------------------------------------------------------------------------
(* Decode                                                                  *)

\* rd and rt stand where setup_registers has put them, or where the first
\* pass of SetupControlSignals over a JAL has.
InPlace(d) == d.rt.index = d.ir.rt /\ (d.rd = d.ir.rd \/ d.ir.opcode = "JAL")

\* The destination SetupControlSignals fixes up.
LEMMA SetupDestination ==
  ASSUME NEW d \in IdEx
  PROVE  LET s == SetupControlSignals(d) IN
         /\ s.ir = d.ir /\ s.ctl = ControlOf(d.ir, d.ctl)
         /\ s.rd = IF Special(d.ir, {"MTHI"}) THEN HI ELSE IF Special(d.ir, {"MTLO"}) THEN LO
                   ELSE IF d.ir.opcode = "JAL" THEN R_RA ELSE d.rd
         /\ s.rt.index = IF Regimm(d.ir, LinkBranch) THEN R_RA ELSE d.rt.index
  <1> DEFINE i == d.ir
             s == SetupControlSignals(d)
             c == [d EXCEPT !.ctl = ControlOf(i, d.ctl), !.run_bit = IF Known(i) THEN 1 ELSE d.run_bit]
  <1>1. c.ir = i /\ c.ctl = ControlOf(i, d.ctl) /\ c.rd = d.rd /\ c.rt = d.rt /\ c.rs = d.rs
    BY DEF IdEx
  <1>2. DOMAIN c = DOMAIN d /\ {"rs", "rt", "rd", "ir", "ctl", "jumpAddress"} \subseteq DOMAIN d
        /\ DOMAIN d.rt = {"index", "value"}
    BY DEF IdEx
  <1>3. s = CASE Special(i, {"MTHI"})   -> [c EXCEPT !.rd = HI]
              [] Special(i, {"MTLO"})   -> [c EXCEPT !.rd = LO]
              [] Special(i, {"JR"})     -> [c EXCEPT !.jumpAddress = d.rs.value]
              [] Special(i, {"JALR"})   -> [c EXCEPT !.jumpAddress = d.rs.value,
                                                     !.rt.value = d.pc, !.rs.value = U32(4)]
              [] Regimm(i, LinkBranch)  -> [c EXCEPT !.rt.index = R_RA]
              [] i.opcode = "J"         -> [c EXCEPT !.jumpAddress = U32(4 * i.label)]
              [] i.opcode = "JAL"       -> [c EXCEPT !.jumpAddress = U32(4 * i.label), !.rd = R_RA,
                                                     !.rt.value = d.pc, !.rs.value = U32(4)]
              [] OTHER                  -> c
    BY DEF SetupControlSignals
  <1> HIDE DEF c, s
  <1>4. CASE Special(i, {"MTHI", "MTLO", "JR", "JALR"})
    <2>1. ~ Regimm(i, LinkBranch) /\ i.opcode # "J" /\ i.opcode # "JAL"
      BY <1>4 DEF Special, Regimm
    <2>2. CASE Special(i, {"MTHI"})
      <3>1. s = [c EXCEPT !.rd = HI]
        BY <1>3, <2>1, <2>2 DEF Special
      <3> QED BY <1>1, <1>2, <2>1, <2>2, <3>1 DEF s
    <2>3. CASE Special(i, {"MTLO"})
      <3>1. s = [c EXCEPT !.rd = LO]
        BY <1>3, <2>1, <2>3 DEF Special
      <3>2. ~ Special(i, {"MTHI"})
        BY <2>3 DEF Special
      <3> QED BY <1>1, <1>2, <2>1, <2>3, <3>1, <3>2 DEF s
    <2>4. CASE Special(i, {"JR"})
      <3>1. s = [c EXCEPT !.jumpAddress = d.rs.value]
        BY <1>3, <2>1, <2>4 DEF Special
      <3>2. ~ Special(i, {"MTHI"}) /\ ~ Special(i, {"MTLO"})
        BY <2>4 DEF Special
      <3> QED BY <1>1, <1>2, <2>1, <3>1, <3>2 DEF s
    <2>5. CASE Special(i, {"JALR"})
      <3>1. s = [c EXCEPT !.jumpAddress = d.rs.value, !.rt.value = d.pc, !.rs.value = U32(4)]
        BY <1>3, <2>1, <2>5 DEF Special
      <3>2. ~ Special(i, {"MTHI"}) /\ ~ Special(i, {"MTLO"})
        BY <2>5 DEF Special
      <3> QED BY <1>1, <1>2, <2>1, <3>1, <3>2 DEF s
    <2> QED BY <1>4, <2>2, <2>3, <2>4, <2>5 DEF Special
  <1>5. CASE ~ Special(i, {"MTHI", "MTLO", "JR", "JALR"})
    <2>1. ~ Special(i, {"MTHI"}) /\ ~ Special(i, {"MTLO"}) /\ ~ Special(i, {"JR"}) /\ ~ Special(i, {"JALR"})
      BY <1>5 DEF Special
    <2>2. CASE Regimm(i, LinkBranch)
      <3>1. i.opcode # "J" /\ i.opcode # "JAL"
        BY <2>2 DEF Regimm
      <3>2. s = [c EXCEPT !.rt.index = R_RA]
        BY <1>3, <2>1, <2>2, <3>1
      <3> QED BY <1>1, <1>2, <2>1, <2>2, <3>1, <3>2 DEF s
    <2>3. CASE i.opcode = "J"
      <3>1. ~ Regimm(i, LinkBranch) /\ i.opcode # "JAL"
        BY <2>3 DEF Regimm
      <3>2. s = [c EXCEPT !.jumpAddress = U32(4 * i.label)]
        BY <1>3, <2>1, <2>3, <3>1
      <3> QED BY <1>1, <1>2, <2>1, <2>3, <3>1, <3>2 DEF s
    <2>4. CASE i.opcode = "JAL"
      <3>1. ~ Regimm(i, LinkBranch) /\ i.opcode # "J"
        BY <2>4 DEF Regimm
      <3>2. s = [c EXCEPT !.jumpAddress = U32(4 * i.label), !.rd = R_RA,
                          !.rt.value = d.pc, !.rs.value = U32(4)]
        BY <1>3, <2>1, <2>4, <3>1
      <3> QED BY <1>1, <1>2, <2>1, <2>4, <3>1, <3>2 DEF s
    <2>5. CASE ~ Regimm(i, LinkBranch) /\ i.opcode # "J" /\ i.opcode # "JAL"
      <3>1. s = c
        BY <1>3, <2>1, <2>5
      <3> QED BY <1>1, <2>1, <2>5, <3>1 DEF s
    <2> QED BY <2>2, <2>3, <2>4, <2>5
  <1> QED BY <1>4, <1>5 DEF s

\* It is what the instruction names, also after a second pass over a jump.
LEMMA SetupNames ==
  ASSUME NEW d \in IdEx, Known(d.ir), InPlace(d)
  PROVE  /\ DestinationOf(SetupControlSignals(d)) = Names(d.ir)
         /\ SetupControlSignals(d).ctl.jump = 1 => InPlace(SetupControlSignals(d))
  <1> DEFINE i == d.ir
             s == SetupControlSignals(d)
  <1>1. i \in Instr
    BY DEF IdEx
  <1>2. /\ s.ir = i /\ s.ctl = ControlOf(i, d.ctl)
        /\ s.rd = IF Special(i, {"MTHI"}) THEN HI ELSE IF Special(i, {"MTLO"}) THEN LO
                  ELSE IF i.opcode = "JAL" THEN R_RA ELSE d.rd
        /\ s.rt.index = IF Regimm(i, LinkBranch) THEN R_RA ELSE d.rt.index
    BY SetupDestination
  <1> HIDE DEF s
  <1>3. /\ s.ctl.reg_dst \in Bit
        /\ Names(i) = IF Special(i, {"MTHI"}) THEN HI ELSE IF Special(i, {"MTLO"}) THEN LO
                      ELSE IF i.opcode = "JAL" \/ Regimm(i, LinkBranch) THEN R_RA
                      ELSE IF s.ctl.reg_dst = 1 THEN i.rd ELSE i.rt
    BY <1>1, <1>2, WritesCases
  <1>4. /\ Special(i, Computing) => s.ctl.reg_dst = 1 /\ s.ctl.jump = 0
        /\ i.opcode = "JAL" => s.ctl.reg_dst = 1
        /\ Regimm(i, LinkBranch) => s.ctl.reg_dst = 0 /\ s.ctl.jump = 0
    <2>1. CASE Special(i, Computing)
      <3>1. /\ ~ Special(i, {"SYSCALL"}) /\ ~ Special(i, {"JR"}) /\ ~ Special(i, {"JALR"})
            /\ ~ Regimm(i, LinkBranch) /\ ~ Regimm(i, PlainRegimm)
            /\ i.opcode \notin {"J", "JAL", "LUI"} \cup ImmOps \cup CmpBranch \cup Loads \cup Stores
        BY <2>1 DEF Special, Regimm, Computing, AluFuncts, ShiftFuncts, MulDiv, MoveFrom, MoveTo,
                    ImmOps, CmpBranch, Loads, Stores
      <3>2. s.ctl = RdWrite("SPECIAL")
        BY <1>1, <1>2, <3>1, ControlCases
      <3> QED BY <3>1, <3>2 DEF RdWrite, NoControl
    <2>2. CASE i.opcode = "JAL"
      <3>1. /\ ~ Special(i, {"SYSCALL"}) /\ ~ Special(i, {"JR"}) /\ ~ Special(i, {"JALR"})
            /\ ~ Regimm(i, LinkBranch) /\ ~ Regimm(i, PlainRegimm) /\ ~ Special(i, Computing)
            /\ i.opcode \notin {"J", "LUI"} \cup ImmOps \cup CmpBranch \cup Loads \cup Stores
        BY <2>2 DEF Special, Regimm, ImmOps, CmpBranch, Loads, Stores
      <3>2. s.ctl = Link
        BY <1>1, <1>2, <3>1, ControlCases
      <3> QED BY <3>1, <3>2 DEF Link, RdWrite, NoControl
    <2>3. CASE Regimm(i, LinkBranch)
      <3>1. /\ ~ Special(i, {"SYSCALL"}) /\ ~ Special(i, {"JR"}) /\ ~ Special(i, {"JALR"})
            /\ ~ Regimm(i, PlainRegimm) /\ ~ Special(i, Computing)
            /\ i.opcode \notin {"J", "JAL", "LUI"} \cup ImmOps \cup CmpBranch \cup Loads \cup Stores
        BY <2>3 DEF Special, Regimm, LinkBranch, PlainRegimm, ImmOps, CmpBranch, Loads, Stores
      <3>2. s.ctl = [RtWrite("REGIMM") EXCEPT !.branch = 1]
        BY <1>1, <1>2, <3>1, ControlCases
      <3> QED BY <3>1, <3>2 DEF RtWrite, NoControl
    <2> QED BY <2>1, <2>2, <2>3
  <1>5. Special(i, {"MTHI"}) \/ Special(i, {"MTLO"}) => Special(i, Computing) /\ i.opcode # "JAL"
    BY DEF Special, Computing, MoveTo
  <1>6. i.opcode = "JAL" => ~ Regimm(i, LinkBranch)
    BY DEF Regimm
  <1>7. DestinationOf(s) = Names(i)
    BY <1>2, <1>3, <1>4, <1>5, <1>6 DEF DestinationOf, InPlace, Bit
  <1>8. s.ctl.jump = 1 => InPlace(s)
    BY <1>2, <1>4, <1>5 DEF InPlace
  <1> QED BY <1>7, <1>8 DEF s

\* Decode leaves the instruction in ID/EX and reserves what it writes.
LEMMA DecodedNames ==
  ASSUME TypeOK, Silent(id_ex.ctl), Known(if_id.ir)
  PROVE  /\ Decoded.ir = if_id.ir /\ DestinationOf(Decoded) = Names(if_id.ir)
         /\ \E old : Decoded.ctl = ControlOf(if_id.ir, old)
  <1> DEFINE i == if_id.ir
             d == SetupControlSignals(setup_registers)
             f == IF DependencyAfter(i) = 1 THEN Forwarded(d) ELSE d
             s == IF HaltingSyscall(i) THEN [f EXCEPT !.run_bit = 0] ELSE f
             Named(e) == /\ e \in IdEx /\ RdSound(e) /\ e.ir = i /\ DestinationOf(e) = Names(i)
                         /\ \E old : e.ctl = ControlOf(i, old)
                         /\ e.ctl.jump = 1 => InPlace(e) /\ Silent(e.ctl)
  <1>1. i \in Instr
    BY DEF TypeOK
  <1>2. /\ setup_registers \in IdEx /\ RdSound(setup_registers) /\ InPlace(setup_registers)
        /\ setup_registers.ctl = id_ex.ctl /\ setup_registers.ir = i
    <2>1. setup_registers.rt.index = i.rt /\ setup_registers.rd = i.rd
      BY DEF TypeOK, setup_registers, IdEx
    <2> QED BY <2>1, SetupRegistersSound DEF InPlace
  <1>3. Named(d)
    <2>1. d \in IdEx /\ d.ctl = ControlOf(i, id_ex.ctl) /\ d.ir = i /\ RdSound(d)
      BY <1>2, SetupType
    <2>2. DestinationOf(d) = Names(i) /\ (d.ctl.jump = 1 => InPlace(d))
      BY <1>2, SetupNames
    <2>3. d.ctl.jump = 1 => Silent(d.ctl)
      <3>1. i.opcode \in Loads => d.ctl = Load(i.opcode)
        BY <1>1, <2>1, ControlOfType
      <3>2. i.opcode \in Loads => d.ctl.jump = 0
        BY <3>1 DEF Load, RtWrite, NoControl
      <3> QED BY <1>1, <2>1, <3>2, ControlOfType
    <2> QED BY <2>1, <2>2, <2>3
  <1> HIDE DEF d
  <1>4. Named(f)
    <2>1. DependencyAfter(i) = 1 => /\ Forwarded(d) \in IdEx /\ Forwarded(d).ctl = d.ctl
                                    /\ Forwarded(d).ir = d.ir /\ Forwarded(d).rd = d.rd
      BY <1>3, ForwardedSound
    <2>2. Forwarded(d).rt.index = d.rt.index
      BY <1>3 DEF Forwarded, IdEx
    <2> QED BY <1>3, <2>1, <2>2 DEF RdSound, InPlace, DestinationOf
  <1> HIDE DEF f
  <1>5. Named(s)
    BY <1>4 DEF RdSound, IdEx, Bit, InPlace, DestinationOf
  <1> HIDE DEF s
  <1>6. s.ctl.jump = 1 => /\ SetupControlSignals(s).ir = i
                          /\ DestinationOf(SetupControlSignals(s)) = Names(i)
                          /\ SetupControlSignals(s).ctl = ControlOf(i, s.ctl)
    BY <1>5, SetupNames, SetupDestination
  <1>7. Decoded = IF s.ctl.jump = 1 THEN SetupControlSignals(s) ELSE s
    BY DEF Decoded, d, f, s
  <1>8. CASE s.ctl.jump = 1
    BY <1>6, <1>7, <1>8
  <1>9. CASE s.ctl.jump # 1
    BY <1>5, <1>7, <1>9
  <1> QED BY <1>8, <1>9

\* An instruction with a case gets the same control record whatever the
\* latch held before.
LEMMA ControlFixed ==
  ASSUME NEW i \in Instr, Known(i), NEW old, NEW other
  PROVE  ControlOf(i, old) = ControlOf(i, other)
  <1>1. \/ Special(i, {"SYSCALL"}) \/ Special(i, {"JR"}) \/ Special(i, {"JALR"})
        \/ i.opcode = "SPECIAL" /\ Known(i) /\ ~ Special(i, {"SYSCALL", "JR", "JALR"})
        \/ Regimm(i, LinkBranch) \/ Regimm(i, PlainRegimm)
        \/ i.opcode = "J" \/ i.opcode = "JAL" \/ i.opcode \in ImmOps \cup {"LUI"}
        \/ i.opcode \in CmpBranch \/ i.opcode \in Loads \/ i.opcode \in Stores
    <2>1. i.opcode = "SPECIAL" \/ ~ Special(i, Computing)
      BY DEF Special
    <2> QED BY <2>1, ControlCases DEF Special
  <1> QED BY <1>1 DEF ControlOf

LEMMA DecodedHolds ==
  ASSUME TypeOK, Silent(id_ex.ctl), Known(if_id.ir), ~ DividesByZero(if_id.ir)
  PROVE  /\ Holds(Decoded, if_id.ir)
         /\ Writes(if_id.ir) \ {0} \subseteq Reserved(Decoded)
  <1> DEFINE i == if_id.ir
  <1>1. i \in Instr
    BY DEF TypeOK
  <1>2. Decoded.ir = i /\ DestinationOf(Decoded) = Names(i)
    BY DecodedNames
  <1>3. Decoded.ctl = ControlOf(i, Decoded.ctl)
    BY <1>1, DecodedNames, ControlFixed
  <1>4. Special(i, {"DIV", "DIVU"}) => Decoded.rt.value # 0
    BY DEF DividesByZero
  <1>5. Holds(Decoded, i)
    BY <1>2, <1>3, <1>4 DEF Holds
  <1>6. Writes(i) \subseteq Reserved(Decoded)
    <2> DEFINE c == ControlOf(i, Decoded.ctl)
    <2>1. /\ c.reg_write \in Bit
          /\ c.reg_write = 0 => Writes(i) = {}
          /\ c.reg_write = 1 => Writes(i) = IF Special(i, MulDiv) THEN {HI, LO} ELSE {Names(i)}
      BY <1>1, WritesCases
    <2> HIDE DEF c
    <2>2. Decoded.ctl = c
      BY <1>3 DEF c
    <2> QED BY <1>2, <2>1, <2>2 DEF Reserved, Bit
  <1> QED BY <1>5, <1>6

\* What a decoded instruction that is none of the idioms keeps clear of.
LEMMA NoIdiom ==
  ASSUME NEW i, Idioms(i) = {}
  PROVE  /\ Known(i) /\ ~ DividesByZero(i)
         /\ ClearOf(i, ahead1.ir) /\ ClearBehind(i, ahead1.ir, ahead2.ir)
  <1>1. ~ UnknownInstruction(i) /\ ~ DividesByZero(i) /\ ~ ReleasedTooEarly(i)
    BY DEF Idioms
  <1>2. ASSUME NEW r \in Writes(i) \ {0}
        PROVE  IF r \in {HI, LO} THEN ~ InFlight(r)
               ELSE ~ (i.opcode \notin Loads /\ r \in Writes(ahead2.ir) /\ Names(ahead1.ir) # r)
    BY <1>1 DEF ReleasedTooEarly
  <1>3. HI # 0 /\ LO # 0
    BY RegisterAssumption DEF HI, LO
  <1>4. ClearOf(i, ahead1.ir)
    BY <1>2, <1>3 DEF InFlight, ClearOf
  <1>5. ClearBehind(i, ahead1.ir, ahead2.ir)
    BY <1>2 DEF InFlight, ClearBehind
  <1> QED BY <1>1, <1>4, <1>5 DEF UnknownInstruction

----------------------------------------------------------------------------
(* One lemma per action                                                    *)

\* The history variables keep their types.
LEMMA SlotTypesKept == IInv /\ SlotTypes /\ RetireNext => SlotTypes'
  <1> SUFFICES ASSUME IInv, SlotTypes, RetireNext PROVE SlotTypes'
    OBVIOUS
  <1> DEFINE Held == [ir : Instr, pc : Word, real : BOOLEAN, fwd : Bit]
  <1>1. /\ slot \in [id : BOOLEAN, ex : Held, mem : Held, wb : Held]
        /\ slot.ex \in Held /\ slot.mem \in Held /\ slot.wb \in Held
    BY DEF SlotTypes
  <1>2. Bubble \in Held
    <2>1. Nop \in Instr
      BY EmptyLatchTypes DEF EmptyIfId
    <2> QED BY <2>1, WordInt DEF Bubble, Bit
  <1>3. slot.id \in BOOLEAN /\ if_id.ir \in Instr /\ if_id.pc \in Word /\ dependency \in Bit
    <2>1. slot.id \in BOOLEAN
      BY <1>1
    <2>2. if_id.ir \in Instr /\ if_id.pc \in Word /\ dependency \in Bit
      BY DEF IInv, TypeOK
    <2> QED BY <2>1, <2>2
  <1>4. [ir |-> if_id.ir, pc |-> if_id.pc, real |-> slot.id, fwd |-> DependencyAfter(if_id.ir)] \in Held
    BY <1>3 DEF DependencyAfter, Bool, Bit
  <1> HIDE DEF Held
  <1>5. \/ UNCHANGED slot
        \/ slot' = [slot EXCEPT !.ex = [ir |-> if_id.ir, pc |-> if_id.pc, real |-> slot.id,
                                        fwd |-> DependencyAfter(if_id.ir)],
                                !.id = FALSE]
        \/ slot' = [slot EXCEPT !.ex = Bubble]
        \/ \E b \in BOOLEAN : slot' = [slot EXCEPT !.mem = slot.ex, !.id = b]
        \/ slot' = [slot EXCEPT !.wb = slot.mem]
        \/ slot' = [slot EXCEPT !.id = TRUE]
    <2>1. ASSUME NEW b PROVE (slot.id /\ b) \in BOOLEAN
      OBVIOUS
    <2> QED BY <1>1, <2>1 DEF RetireNext, RetireStep, history
  <1>6. slot' \in [id : BOOLEAN, ex : Held, mem : Held, wb : Held]
    BY <1>1, <1>2, <1>4, <1>5
  <1> QED BY <1>6 DEF SlotTypes, Held

\* Register 0 is all an empty latch writes; every register is HI, LO or named.
LEMMA WritesIndices ==
  /\ Bubble.ir = Nop /\ Writes(Nop) = {0} /\ Names(Nop) = 0
  /\ HI # 0 /\ LO # 0 /\ HI # LO
  /\ \A i \in Instr : /\ Names(i) \in StatusIndex /\ Writes(i) \subseteq StatusIndex
                      /\ Writes(i) \subseteq {HI, LO, Names(i)}
  <1>1. HI # 0 /\ LO # 0 /\ HI # LO
    BY RegisterAssumption DEF HI, LO
  <1>2. Nop.opcode = "SPECIAL" /\ Nop.funct = "SLL" /\ Nop.rd = 0
    BY DEF Nop
  <1>3. Names(Nop) = 0
    BY <1>2 DEF Names, Known, Special, Regimm, AluFuncts, ShiftFuncts
  <1>4. Writes(Nop) = {Names(Nop)}
    BY <1>2 DEF Writes, Known, Special, Regimm, AluFuncts, ShiftFuncts, MulDiv, CmpBranch, Stores,
                PlainRegimm
  <1>5. ASSUME NEW i \in Instr
        PROVE  Names(i) \in StatusIndex /\ Writes(i) \subseteq {HI, LO, Names(i)}
    <2>1. i.rs \in StatusIndex /\ i.rt \in StatusIndex /\ i.rd \in StatusIndex
      BY StatusIndices DEF Instr
    <2>2. Names(i) \in StatusIndex
      BY <2>1, StatusIndices DEF Names
    <2>3. Writes(i) \subseteq {HI, LO, Names(i)}
      BY DEF Writes
    <2> QED BY <2>2, <2>3
  <1> QED BY <1>1, <1>3, <1>4, <1>5, StatusIndices DEF Bubble

\* A stage that is not due; what "stage" passes on is what it had.
LEMMA SkipBoard ==
  ASSUME NEW here, NEW status, NEW next, IInv, BoardInv, Live, hazard = {},
         Skip(here, status, next), UNCHANGED history,
         \/ here = "write_back" /\ status = writeback_status /\ next = "memory"
         \/ here = "memory" /\ status = memory_status /\ next = "execute"
         \/ here = "execute" /\ status = execute_status /\ next = "decode"
         \/ here = "decode" /\ status = decode_status /\ next = "fetch"
         \/ here = "fetch" /\ status = fetch_status /\ next = "cycle_end"
  PROVE  (Due /\ Slots /\ Marked /\ Apart /\ Shadow)'
  <1> USE DEF Skip, cpu, statuses, timers, board, history
  <1>1. Due /\ Slots /\ Marked /\ Apart /\ Shadow
    BY DEF BoardInv
  <1>2. Due'
    BY <1>1 DEF Due
  <1>3. Slots'
    BY <1>1 DEF Slots, Releases, Holds
  <1>4. Marked'
    BY <1>1 DEF Marked, Busy
  <1>5. Apart'
    BY <1>1 DEF Due, Apart, Behind
  <1>6. Shadow'
    BY <1>1 DEF Due, Shadow
  <1> QED BY <1>2, <1>3, <1>4, <1>5, <1>6

\* check_stall touches neither the latches nor the statuses behind decode.
LEMMA CheckStallBoard ==
  ASSUME IInv, BoardInv, Live, hazard = {}, check_stall, UNCHANGED history
  PROVE  (Due /\ Slots /\ Marked /\ Apart /\ Shadow)'
  <1> USE DEF check_stall, cpu, board, history
  <1>1. Due /\ Slots /\ Marked /\ Apart /\ Shadow
    BY DEF BoardInv
  <1>2. Due' /\ Slots' /\ Marked'
    BY <1>1 DEF Due, Slots, Marked, Releases, Holds, Busy
  <1>3. Apart' /\ Shadow'
    BY <1>1 DEF Apart, Shadow, Behind
  <1> QED BY <1>2, <1>3

\* Fetch fills IF/ID.
LEMMA FetchBoard ==
  ASSUME IInv, BoardInv, Live, hazard = {}, fetch, slot' = [slot EXCEPT !.id = TRUE]
  PROVE  (Due /\ Slots /\ Marked /\ Apart /\ Shadow)'
  <1> USE DEF fetch, timers, board
  <1>1. Due /\ Slots /\ Marked /\ Apart /\ Shadow
    BY DEF BoardInv
  <1>2. slot'.ex = slot.ex /\ slot'.mem = slot.mem /\ slot'.wb = slot.wb
    BY DEF BoardInv, SlotTypes
  <1>3. Due' /\ Slots' /\ Marked'
    BY <1>1, <1>2 DEF Due, Slots, Marked, Releases, Holds, Busy
  <1>4. Apart' /\ Shadow'
    BY <1>1, <1>2 DEF Apart, Shadow, Behind
  <1> QED BY <1>3, <1>4

\* Write-back releases no register that an instruction behind it computes.
LEMMA WriteBackBoard ==
  ASSUME IInv, BoardInv, Live, hazard = {}, write_back, UNCHANGED history
  PROVE  (Due /\ Slots /\ Marked /\ Apart /\ Shadow)'
  <1> USE DEF write_back, timers, history
  <1>1. Due /\ Slots /\ Marked /\ Apart /\ Shadow
    BY DEF BoardInv
  <1>2. Due' /\ Slots' /\ Apart' /\ Shadow'
    BY <1>1 DEF Due, Slots, Releases, Holds, Apart, Behind, Shadow
  <1>3. /\ slot.mem.ir \in Instr /\ slot.ex.ir \in Instr
    BY DEF BoardInv, SlotTypes
  <1>4. ASSUME NEW i \in Instr, Busy(i),
               i.opcode \notin Loads => \A r \in Writes(i) \ {0} : r \notin Released
        PROVE  Busy(i)'
    <2> SUFFICES ASSUME i.opcode \notin Loads, NEW r \in Writes(i) \ {0}
                 PROVE  registerStatus'[r] = 0
      BY DEF Busy
    <2>1. r \in StatusIndex /\ r \notin Released /\ registerStatus[r] = 0
      BY <1>4, WritesIndices DEF Busy
    <2> QED BY <2>1
  <1>5. Releases(mem_wb, slot.wb.ir) /\ Releases(ex_mem, slot.mem.ir)
    BY <1>1 DEF Slots
  <1>6. ASSUME NEW r \in Released, r # 0 PROVE r \in Writes(slot.wb.ir)
    BY <1>5, <1>6 DEF Released, Releases, WritesHi, WritesLo, WritesReg, WritesHiLo
  <1>7. ASSUME NEW r \in Released, r \notin {HI, LO}, r = Names(slot.mem.ir)
        PROVE  mem_wb.mem_to_rg = 1
    BY <1>5, <1>7 DEF Released, Releases
  <1>8. memory_status = 1 => Busy(slot.mem.ir)'
    <2> SUFFICES ASSUME memory_status = 1, NEW r \in Writes(slot.mem.ir) \ {0}, r \in Released
                 PROVE  FALSE
      BY <1>1, <1>3, <1>4 DEF Marked
    <2>1. r \in Writes(slot.wb.ir)
      BY <1>6
    <2>2. ClearOf(slot.mem.ir, slot.wb.ir)
      BY <1>1 DEF Apart
    <2>3. r \notin {HI, LO}
      BY <2>1, <2>2 DEF ClearOf
    <2>4. mem_wb.mem_to_rg = 1
      BY <1>3, <1>7, <2>3, WritesIndices
    <2>5. slot.mem = Bubble
      BY <1>1, <2>4 DEF Shadow
    <2> QED BY <2>5, WritesIndices
  <1>9. execute_status = 1 => Busy(slot.ex.ir)'
    <2> SUFFICES ASSUME execute_status = 1, NEW r \in Writes(slot.ex.ir) \ {0}, r \in Released,
                        slot.ex.ir.opcode \notin Loads
                 PROVE  FALSE
      BY <1>1, <1>3, <1>4 DEF Marked
    <2>1. r \in Writes(slot.wb.ir)
      BY <1>6
    <2>2. ClearBehind(slot.ex.ir, slot.mem.ir, slot.wb.ir)
      BY <1>1 DEF Apart, Behind
    <2>3. r \notin {HI, LO} /\ r = Names(slot.mem.ir)
      BY <2>1, <2>2 DEF ClearBehind
    <2>4. mem_wb.mem_to_rg = 1
      BY <1>7, <2>3
    <2> QED BY <1>1, <2>4 DEF Shadow
  <1> QED BY <1>2, <1>8, <1>9 DEF Marked

\* Memory passes the claims of EX/MEM on to MEM/WB.
LEMMA MemoryBoard ==
  ASSUME IInv, BoardInv, Live, hazard = {}, memory, slot' = [slot EXCEPT !.wb = slot.mem]
  PROVE  (Due /\ Slots /\ Marked /\ Apart /\ Shadow)'
  <1> USE DEF memory, cpu, timers, board
  <1>1. Due /\ Slots /\ Marked /\ Apart /\ Shadow
    BY DEF BoardInv
  <1>2. slot'.ex = slot.ex /\ slot'.mem = slot.mem /\ slot'.wb = slot.mem
    BY DEF BoardInv, SlotTypes
  <1>3. Due'
    BY <1>1 DEF Due
  <1>4. Slots'
    <2>1. /\ mem_wb'.write_register = ex_mem.write_register /\ mem_wb'.hi = ex_mem.hi
          /\ mem_wb'.lo = ex_mem.lo /\ mem_wb'.reg_write = ex_mem.reg_write
          /\ mem_wb'.mem_to_rg = ex_mem.mem_to_rg
      OBVIOUS
    <2> QED BY <1>1, <1>2, <2>1 DEF Slots, Releases, Holds
  <1>5. Marked'
    BY <1>1, <1>2 DEF Marked, Busy
  <1>6. Apart'
    BY <1>1, <1>2 DEF Apart, Behind
  <1>7. Shadow'
    <2>1. ex_mem.mem_to_rg = ex_mem.mread
      BY DEF IInv, LatchInv
    <2> QED BY <1>1, <1>2, <2>1 DEF Shadow
  <1> QED BY <1>3, <1>4, <1>5, <1>6, <1>7

\* Execute passes the claims of ID/EX on to EX/MEM.
LEMMA ExecuteBoard ==
  ASSUME IInv, BoardInv, Live, hazard = {}, execute, NEW b,
         slot' = [slot EXCEPT !.mem = slot.ex, !.id = b]
  PROVE  (Due /\ Slots /\ Marked /\ Apart /\ Shadow)'
  <1> USE DEF execute, timers, board
  <1>1. Due /\ Slots /\ Marked /\ Apart /\ Shadow
    BY DEF BoardInv
  <1>2. slot'.ex = slot.ex /\ slot'.mem = slot.ex /\ slot'.wb = slot.wb /\ slot.ex.ir \in Instr
    BY DEF BoardInv, SlotTypes
  <1>3. Due'
    BY <1>1 DEF Due
  <1>4. Slots'
    <2>1. Releases(ex_mem', slot.ex.ir)
      BY <1>1, <1>2, HeldReleases DEF Slots
    <2> QED BY <1>1, <1>2, <2>1 DEF Slots, Releases
  <1>5. Marked'
    BY <1>1, <1>2 DEF Marked, Busy
  <1>6. Apart'
    BY <1>1, <1>2 DEF Apart, Behind
  <1>7. Shadow'
    BY <1>1, <1>2 DEF Shadow
  <1> QED BY <1>3, <1>4, <1>5, <1>6, <1>7

\* The bubble behind a load claims nothing.
LEMMA DecodeStallBoard ==
  ASSUME IInv, BoardInv, Live, hazard = {}, decode_stall, slot' = [slot EXCEPT !.ex = Bubble]
  PROVE  (Due /\ Slots /\ Marked /\ Apart /\ Shadow)'
  <1> USE DEF decode_stall, StopFrontEnd, cpu
  <1>1. Due /\ Slots /\ Marked /\ Apart /\ Shadow
    BY DEF BoardInv
  <1>2. slot'.ex = Bubble /\ slot'.mem = slot.mem /\ slot'.wb = slot.wb
    BY DEF BoardInv, SlotTypes
  <1>3. Due'
    BY <1>1 DEF Due
  <1>4. Holds(id_ex', Nop)
    <2>1. id_ex'.ctl = NoControl("NONE") /\ id_ex'.rt = Zero
      BY DEF EmptyIdEx
    <2>2. DestinationOf(id_ex') = 0
      BY <2>1 DEF NoControl, DestinationOf, Zero
    <2> QED BY <2>1, <2>2, WritesIndices DEF Holds, NoControl
  <1>5. Slots'
    BY <1>1, <1>2, <1>4, WritesIndices DEF Slots, Releases, Holds
  <1>6. Marked' /\ Apart'
    <2>1. Busy(Nop)'
      BY WritesIndices DEF Busy
    <2>2. /\ \A i : ClearOf(Nop, i)
          /\ \A i, j : ClearBehind(Nop, i, j)
      BY WritesIndices DEF ClearOf, ClearBehind
    <2>3. Marked'
      BY <1>1, <1>2, <2>1, WritesIndices DEF Marked, Busy
    <2>4. Apart'
      BY <1>1, <1>2, <2>2, WritesIndices DEF Apart, Behind
    <2> QED BY <2>3, <2>4
  <1>7. Shadow'
    <2>1. ~ (writeback_status = 1 /\ mem_wb.mem_to_rg = 1)
      BY DEF IInv, LoadProgress, Live, Bit
    <2> QED BY <1>1, <1>2, <2>1 DEF Shadow
  <1> QED BY <1>3, <1>5, <1>6, <1>7

\* Decode reserves what the instruction writes; clear of the idioms, its
\* registers are not those a write-back ahead of it will release.
LEMMA DecodeBoard ==
  ASSUME IInv, BoardInv, Live, hazard = {}, decode, Idioms(if_id.ir) = {},
         slot' = [slot EXCEPT !.ex = [ir |-> if_id.ir, pc |-> if_id.pc, real |-> slot.id,
                                      fwd |-> DependencyAfter(if_id.ir)],
                              !.id = FALSE]
  PROVE  (Due /\ Slots /\ Marked /\ Apart /\ Shadow)'
  <1> USE DEF decode, timers
  <1> DEFINE i == if_id.ir
  <1>1. Due /\ Slots /\ Marked /\ Apart /\ Shadow
    BY DEF BoardInv
  <1>2. /\ slot'.ex.ir = i /\ slot'.mem = slot.mem /\ slot'.wb = slot.wb
        /\ slot.mem.ir \in Instr /\ slot.wb.ir \in Instr /\ i \in Instr
    BY DEF BoardInv, SlotTypes, IInv, TypeOK
  <1>3. Due'
    BY <1>1 DEF Due
  <1>4. Silent(id_ex.ctl)
    <2>1. id_ex.ctl \in Control
      BY DEF IInv, TypeOK, IdEx
    <2>2. id_ex.ctl.mread # 1
      BY DEF IInv, LoadProgress, Live
    <2> QED BY <2>1, <2>2 DEF IInv, LatchInv, GoodControl, Silent, Control, Bit
  <1>5. /\ Known(i) /\ ~ DividesByZero(i)
        /\ ClearOf(i, slot.mem.ir) /\ ClearBehind(i, slot.mem.ir, slot.wb.ir)
    BY NoIdiom DEF ahead1, ahead2
  <1>6. Holds(Decoded, i) /\ Writes(i) \ {0} \subseteq Reserved(Decoded)
    BY <1>4, <1>5, DecodedHolds DEF IInv
  <1>7. Slots'
    BY <1>1, <1>2, <1>6 DEF Slots, Releases, Holds
  <1>8. Marked'
    <2>1. ASSUME NEW j \in Instr, Busy(j) PROVE Busy(j)'
      <3> SUFFICES ASSUME j.opcode \notin Loads, NEW r \in Writes(j) \ {0} PROVE registerStatus'[r] = 0
        BY DEF Busy
      <3> QED BY <2>1, WritesIndices DEF Busy
    <2>2. ASSUME NEW j \in Instr, j = i PROVE Busy(j)'
      <3> SUFFICES ASSUME j.opcode \notin Loads, NEW r \in Writes(j) \ {0} PROVE registerStatus'[r] = 0
        BY DEF Busy
      <3> QED BY <1>6, <2>2, WritesIndices
    <2> QED BY <1>1, <1>2, <2>1, <2>2 DEF Marked
  <1>9. Apart'
    BY <1>1, <1>2, <1>5 DEF Apart, Behind
  <1>10. Shadow'
    <2>1. LoadInterlock
      BY DEF IInv, TypeOK, LoadProgress, StallDiscipline, LoadInterlock, Live, Stages, Bit
    <2> QED BY <1>1, <2>1 DEF Shadow, LoadInterlock
  <1> QED BY <1>3, <1>7, <1>8, <1>9, <1>10

\* The machine goes on, or nothing is left to show.
LEMMA CycleEndBoard ==
  ASSUME IInv, BoardInv, Live, hazard = {}, cycle_end, UNCHANGED history
  PROVE  Live' => (Due /\ Slots /\ Marked /\ Apart /\ Shadow)'
  <1> SUFFICES ASSUME Live' PROVE (Due /\ Slots /\ Marked /\ Apart /\ Shadow)'
    OBVIOUS
  <1> USE DEF cycle_end, timers, history
  <1>1. Due /\ Slots /\ Marked /\ Apart /\ Shadow
    BY DEF BoardInv
  <1>2. stage = "cycle_end" /\ stage' = "check_stall" /\ UNCHANGED <<board, statuses, if_id, id_ex, ex_mem, mem_wb>>
    BY DEF Live
  <1> USE DEF board, statuses
  <1>3. Due' /\ Slots' /\ Marked'
    BY <1>1, <1>2 DEF Due, Slots, Marked, Releases, Holds, Busy
  <1>4. Apart' /\ Shadow'
    BY <1>1, <1>2 DEF Apart, Shadow, Behind
  <1> QED BY <1>3, <1>4

----------------------------------------------------------------------------
(* Theorems                                                                *)

\* The history variables watch the pipeline: they neither stop a step of it
\* nor add one.
LEMMA HistoryWatches ==
  /\ RetireInit => Init
  /\ [RetireNext]_allvars => [Next]_vars
  BY DEF RetireInit, RetireNext, RetireStep, allvars, Next, Step

\* Empty latches claim nothing.
LEMMA BoardInit == RetireInit => BoardInv
  <1> SUFFICES ASSUME RetireInit PROVE BoardInv
    OBVIOUS
  <1>1. Bubble \in [ir : Instr, pc : Word, real : BOOLEAN, fwd : Bit]
    <2>1. Nop \in Instr
      BY EmptyLatchTypes DEF EmptyIfId
    <2> QED BY <2>1, WordInt DEF Bubble, Bit
  <1>2. SlotTypes
    BY <1>1 DEF RetireInit, SlotTypes
  <1>3. writeback_status = 0 /\ memory_status = 0 /\ execute_status = 0
    BY DEF RetireInit, Init
  <1>4. Slots
    <2>1. mem_wb = EmptyMemWb /\ ex_mem = EmptyExMem /\ slot.wb.ir = Nop /\ slot.mem.ir = Nop
      BY WritesIndices DEF RetireInit, Init
    <2>2. Releases(EmptyMemWb, Nop) /\ Releases(EmptyExMem, Nop)
      BY WritesIndices DEF Releases, EmptyMemWb, EmptyExMem
    <2> QED BY <1>3, <2>1, <2>2 DEF Slots
  <1>5. Due /\ Marked /\ Apart /\ Shadow
    BY <1>3 DEF Due, Marked, Apart, Shadow
  <1> QED BY <1>2, <1>4, <1>5 DEF BoardInv

\* Nothing moves on the board unless something moves.
LEMMA BoardStands ==
  ASSUME BoardInv, UNCHANGED <<vars, history>>
  PROVE  BoardInv'
  BY DEF history, vars, cpu, statuses, timers, board, BoardInv, SlotTypes, Live,
         Due, Slots, Marked, Apart, Shadow, Releases, Holds, Busy, Behind

\* Every step keeps it.
LEMMA BoardStep == IInv /\ BoardInv /\ [RetireNext]_allvars => BoardInv'
  <1> SUFFICES ASSUME IInv, BoardInv, [RetireNext]_allvars PROVE BoardInv'
    OBVIOUS
  <1>1. CASE UNCHANGED allvars \/ (Stopped /\ UNCHANGED history)
    BY <1>1, BoardStands DEF Stopped, allvars
  <1>2. CASE RetireStep
    <2>1. SlotTypes'
      BY <1>2, SlotTypesKept DEF RetireNext, BoardInv
    <2> SUFFICES ASSUME Live', hazard' = {} PROVE (Due /\ Slots /\ Marked /\ Apart /\ Shadow)'
      BY <2>1 DEF BoardInv
    <2>2. Live
      BY <1>2 DEF RetireStep, Live, decode, decode_stall, execute, memory, fetch, check_stall, write_back,
                  trap, cycle_end, Skip
    <2>3. hazard = {}
      BY <1>2 DEF RetireStep, history
    <2>4. CASE decode /\ slot' = [slot EXCEPT !.ex = [ir |-> if_id.ir, pc |-> if_id.pc, real |-> slot.id,
                                                      fwd |-> DependencyAfter(if_id.ir)],
                                              !.id = FALSE]
                      /\ hazard' = hazard \cup Idioms(if_id.ir)
      <3>1. Idioms(if_id.ir) = {}
        BY <2>4
      <3> QED BY <2>2, <2>3, <2>4, <3>1, DecodeBoard
    <2>5. CASE decode_stall /\ slot' = [slot EXCEPT !.ex = Bubble]
      BY <2>2, <2>3, <2>5, DecodeStallBoard
    <2>6. CASE /\ execute
               /\ slot' = [slot EXCEPT !.mem = slot.ex,
                                       !.id = @ /\ ~ (ex_mem'.branch = 1 /\ ex_mem'.branchCondition = 1)]
      BY <2>2, <2>3, <2>6, ExecuteBoard
    <2>7. CASE memory /\ slot' = [slot EXCEPT !.wb = slot.mem]
      BY <2>2, <2>3, <2>7, MemoryBoard
    <2>8. CASE fetch /\ slot' = [slot EXCEPT !.id = TRUE]
      BY <2>2, <2>3, <2>8, FetchBoard
    <2>9. CASE (check_stall \/ write_back \/ cycle_end) /\ UNCHANGED history
      BY <2>2, <2>3, <2>9, CheckStallBoard, WriteBackBoard, CycleEndBoard
    <2>10. CASE /\ \/ Skip("write_back", writeback_status, "memory")
                   \/ Skip("memory", memory_status, "execute")
                   \/ Skip("execute", execute_status, "decode")
                   \/ Skip("decode", decode_status, "fetch")
                   \/ Skip("fetch", fetch_status, "cycle_end")
                /\ UNCHANGED history
      BY <2>2, <2>3, <2>10, SkipBoard
    <2>11. ~ trap
      BY DEF trap, Live
    <2> QED BY <1>2, <2>4, <2>5, <2>6, <2>7, <2>8, <2>9, <2>10, <2>11 DEF RetireStep
  <1> QED BY <1>1, <1>2 DEF RetireNext

\* The strengthened invariant holds in every reachable state.
THEOREM BoardInvariant == RetireSpec => [](IInv /\ BoardInv)
  <1>1. RetireInit => IInv /\ BoardInv
    BY HistoryWatches, InitInv, BoardInit
  <1>2. IInv /\ BoardInv /\ [RetireNext]_allvars => (IInv /\ BoardInv)'
    BY HistoryWatches, NextInv, BoardStep
  <1> QED BY <1>1, <1>2, PTL DEF RetireSpec

\* With the history variables or without, the pipeline is the same.
THEOREM HistoryOnly == RetireSpec => Spec
  BY HistoryWatches, PTL DEF RetireSpec, Spec

\* What is decoded and not finished is in one of the three slots.
LEMMA UnfinishedSlots ==
  ASSUME NEW n \in 1 .. Len(Unfinished)
  PROVE  \/ writeback_status = 1 /\ Unfinished[n] = slot.wb
         \/ memory_status = 1 /\ Unfinished[n] = slot.mem
         \/ execute_status = 1 /\ Unfinished[n] = slot.ex
  BY DEF Unfinished

\* Until a program uses one of the idioms, CheckDependencies finds a register
\* busy as long as an instruction that is not a load will still write it: no
\* write_back, whatever is behind it, releases it too early.
THEOREM RegistersStayBusy == RetireSpec => []ScoreboardSound
  <1>1. BoardInv => ScoreboardSound
    <2> SUFFICES ASSUME BoardInv, hazard = {}, Live, NEW n \in 1 .. Len(Unfinished)
                 PROVE  Busy(Unfinished[n].ir)
      BY DEF ScoreboardSound, Live, Busy
    <2>1. Marked
      BY DEF BoardInv
    <2> QED BY <2>1, UnfinishedSlots DEF Marked
  <1> QED BY <1>1, BoardInvariant, PTL
=============================================================================
