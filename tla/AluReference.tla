---------------------------- MODULE AluReference ----------------------------
(***************************************************************************)
(* alu(), SignExtend and the granule memory against arithmetic on integers:*)
(* the operations whose C code is a trick (a mask or-ed in for the sign, a *)
(* borrow used as a comparison, a product computed in 32 bits, a load cut  *)
(* out of a word and extended), for every pair of operands.                *)
(***************************************************************************)
EXTENDS Decoder, Granules

VARIABLES a, b       \* the values of rs and rt

vars == <<a, b>>

Init == a \in Word /\ b = 0
Next == b' = U32(b + 1) /\ UNCHANGED a
Spec == Init /\ [][Next]_vars

----------------------------------------------------------------------------

\* The ID/EX latch of an instruction whose operands are a and b.
Latch(op, f, sa, imm) ==
  [EmptyIdEx(1) EXCEPT !.rs.value = a, !.rt.value = b,
     !.ir = [Nop EXCEPT !.opcode = op, !.funct = f, !.sa = sa, !.imm = imm],
     !.ctl = ControlOf([Nop EXCEPT !.opcode = op, !.funct = f], NoControl("NONE"))]

SpecialOf(f) == Latch("SPECIAL", f, 0, 0)
ImmOf(op, n) == Latch(op, "UNUSED", 0, n)
ResultOf(d)  == AluResult(d, 0)
HiOf(d)      == HiAfter(d).value
LoOf(d)      == LoAfter(d).value

\* SRA and SRAV, which shift in zeros and or a mask of ones over them for a
\* negative operand, divide the signed value by a power of two, rounding
\* down; SRL and SRLV do the same to the unsigned value.
ShiftsDivide ==
  /\ \A n \in 0 .. BITS - 1 :
       /\ S32(ResultOf(Latch("SPECIAL", "SRA", n, 0))) = S32(b) \div 2 ^ n
       /\ ResultOf(Latch("SPECIAL", "SRL", n, 0)) = b \div 2 ^ n
  /\ S32(ResultOf(SpecialOf("SRAV"))) = S32(b) \div 2 ^ (a % BITS)
  /\ ResultOf(SpecialOf("SRLV")) = b \div 2 ^ (a % BITS)

\* The immediate forms of the comparisons agree with the register forms on
\* the sign-extended immediate, although SLTIU asks for the borrow of a
\* subtraction and is unsigned, SLTI signed; of the branches, the linking ones
\* among them, exactly one of each complementary pair is taken, and equality
\* or the signed comparison with 0 decides them.
Comparisons ==
  LET n == b % HALF
      extended == IF n < HALF \div 2 THEN n ELSE n - HALF
      Taken(op, f) == BranchCondition(Latch(op, f, 0, 0), 0)
  IN /\ ResultOf(ImmOf("SLTIU", n)) = Bool(a < U32(extended))
     /\ ResultOf(ImmOf("SLTI", n)) = Bool(S32(a) < extended)
     /\ ResultOf(SpecialOf("SLT")) = Bool(S32(a) < S32(b)) /\ ResultOf(SpecialOf("SLTU")) = Bool(a < b)
     /\ Taken("BEQ", "UNUSED") = Bool(a = b) /\ Taken("BNE", "UNUSED") = Bool(a # b)
     /\ Taken("BLEZ", "UNUSED") = Bool(S32(a) <= 0) /\ Taken("BGTZ", "UNUSED") = Bool(S32(a) > 0)
     /\ \A f \in {"BLTZ", "BLTZAL"} : Taken("REGIMM", f) = Bool(S32(a) < 0)
     /\ \A f \in {"BGEZ", "BGEZAL"} : Taken("REGIMM", f) = Bool(S32(a) >= 0)

\* MULTU leaves the whole product in HI and LO.  MULT computes it in 32 bits
\* before it widens it: LO is the product modulo the words, HI has the sign
\* bit of LO in every place, and the two together are the product exactly
\* when it fits in LO.
Products ==
  LET signed == S32(a) * S32(b)
      fits   == signed >= - (WORDS \div 2) /\ signed < WORDS \div 2
      MULT   == SpecialOf("MULT")
      Pair(d) == HiOf(d) * WORDS + LoOf(d)
  IN /\ Pair(SpecialOf("MULTU")) = a * b
     /\ LoOf(MULT) = signed % WORDS
     /\ HiOf(MULT) = IF LoOf(MULT) >= WORDS \div 2 THEN WORDS - 1 ELSE 0
     /\ (Pair(MULT) = signed % (WORDS * WORDS)) <=> fits

\* DIV rounds towards zero and its remainder has the sign of the dividend;
\* DIVU is the unsigned division; a division by 0 leaves HI and LO alone.
Divisions ==
  /\ b # 0 =>
       /\ LoOf(SpecialOf("DIVU")) * b + HiOf(SpecialOf("DIVU")) = a /\ HiOf(SpecialOf("DIVU")) < b
       /\ ~ Traps(SpecialOf("DIV")) =>
            LET q == S32(LoOf(SpecialOf("DIV")))
                r == S32(HiOf(SpecialOf("DIV")))
            IN /\ q * S32(b) + r = S32(a) /\ Abs(r) < Abs(S32(b))
               /\ r # 0 => (r < 0) = (S32(a) < 0)
  /\ b = 0 => \A f \in {"DIV", "DIVU"} :
                HiAfter(SpecialOf(f)) = Keep(0) /\ LoAfter(SpecialOf(f)) = Keep(0)

\* The number of values of what a load or a store moves.
SizeOf(op) == CASE op \in {"SB", "LB", "LBU"} -> BYTE
                [] op \in {"SH", "LH", "LHU"} -> HALF
                [] op \in {"SW", "LW"}        -> WORDS

\* What a load of any size finds where a store of any size went, at each of
\* the eight addresses of a granule, whatever it held before.  A store ignores
\* the low three bits of the address and replaces the granule; a load shifts
\* the granule right by a byte for each of them, modulo 4.  So the stored part
\* of rt comes back whole at the two word addresses, and a byte shorter at
\* each address behind those; LB and LH extend what they cut out of it with
\* its sign, the others with zeros.
SubwordRoundTrip ==
  \A store \in Stores, load \in Loads :
    LET storeValue   == StoreValue(ImmOf(store, 0), 0)
        loadSize     == LoadSize(ImmOf(load, 0), 0)
        isLoadSigned == IsLoadSigned(ImmOf(load, 0), 0)
        part == b % SizeOf(store)
        size == SizeOf(load)
    IN \A address \in 8 .. 15 :
         LET stored == WriteGranule([g \in Granule |-> a], address, storeValue)
             seen   == (part \div 2 ^ (B * (address % 4))) % size
             signed == IF seen < size \div 2 THEN seen ELSE seen - size
         IN LoadedValue(ReadGranule(stored, address), loadSize, isLoadSigned)
              = IF load \in {"LB", "LH"} THEN U32(signed) ELSE seen

\* The ID/EX latch of a call that decode finds in the text at address b.
CallOf(op, f) ==
  SetupControlSignals([EmptyIdEx(1) EXCEPT !.pc = b, !.ir = [Nop EXCEPT !.opcode = op, !.funct = f]])

\* ADD, and every address of a load or a store, adds what it is given.  ADDU
\* extends the low half of rt: its sum is that of rs and rt for a short rt,
\* of either sign, and for one whose low half is positive, and for no other.
\* JAL and JALR add the same way, for they hand the function code of ADD to
\* alu() as an opcode, and that is the opcode of LB.
Additions ==
  LET n == b % HALF
      extended == U32(IF n < HALF \div 2 THEN n ELSE n - HALF)
      Adds == n < HALF \div 2 \/ b = extended
  IN /\ ResultOf(SpecialOf("ADD")) = U32(a + b)
     /\ (ResultOf(SpecialOf("ADDU")) = U32(a + b)) <=> Adds
     /\ ResultOf(ImmOf("ADDIU", n)) = U32(a + extended)
     /\ \A op \in Loads \cup Stores : ResultOf(ImmOf(op, n)) = U32(a + extended)
     /\ \A call \in {CallOf("JAL", "UNUSED"), CallOf("SPECIAL", "JALR")} :
          (ResultOf(call) = U32(b + 4)) <=> Adds
=============================================================================
