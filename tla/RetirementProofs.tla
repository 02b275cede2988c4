------------------------- MODULE RetirementProofs -------------------------
(***************************************************************************)
(* The pipeline implements SeqMachine: while a program keeps clear of the  *)
(* idioms, every step of the pipeline finishes one instruction with the    *)
(* effects the sequential machine gives it, stops at the cycle limit, or   *)
(* changes nothing the machine has, for every word size, register file,    *)
(* memory, program and limit.                                              *)
(***************************************************************************)
EXTENDS PipelineProofs

----------------------------------------------------------------------------
(* What instructions in flight will leave behind                           *)

\* The latch SeqMachine computes with: instruction i at address p with the
\* operands in the registers rf, h and l.
LatchOf(i, p, rf, h, l) ==
  SetupControlSignals(
    [rs |-> [index |-> i.rs, value |-> rf[i.rs]], rt |-> [index |-> i.rt, value |-> rf[i.rt]],
     rd |-> i.rd, hi |-> h, lo |-> l, ir |-> i, pc |-> p,
     jumpAddress |-> 0, ctl |-> NoControl("NONE"), run_bit |-> 1])

\* What write_back makes of the registers with the latch m and the value v.
GoesToReg(m)   == m.reg_write = 1 /\ (m.mem_to_rg = 1 \/ (m.hi.index # 1 /\ m.lo.index # 1))
RegsBy(m, v, rf) == IF GoesToReg(m) THEN [rf EXCEPT ![m.write_register] = v] ELSE rf
HiBy(m, h) == IF m.reg_write = 1 /\ m.mem_to_rg = 0 /\ m.hi.index = 1 THEN m.hi.value ELSE h
LoBy(m, l) == IF m.reg_write = 1 /\ m.mem_to_rg = 0 /\ m.lo.index = 1 THEN m.lo.value ELSE l

\* What the memory stage makes of EX/MEM: the value that will be written.
MemoryValue ==
  IF ex_mem.mem_to_rg = 1
    THEN LoadedValue(ReadGranule(dram, ex_mem.alu_result), ex_mem.loadSize, ex_mem.isLoadSigned)
    ELSE ex_mem.alu_result

\* The registers when MEM/WB, and when EX/MEM behind it, have been written.
RegsW == IF writeback_status = 1 THEN RegsBy(mem_wb, WriteBackValue, REGS) ELSE REGS
HiW   == IF writeback_status = 1 THEN HiBy(mem_wb, hi) ELSE hi
LoW   == IF writeback_status = 1 THEN LoBy(mem_wb, lo) ELSE lo
RegsM == IF memory_status = 1 THEN RegsBy(ex_mem, MemoryValue, RegsW) ELSE RegsW
HiM   == IF memory_status = 1 THEN HiBy(ex_mem, HiW) ELSE HiW
LoM   == IF memory_status = 1 THEN LoBy(ex_mem, LoW) ELSE LoW

\* What SeqMachine computes with for the instruction in each slot.
WbLatch  == LatchOf(slot.wb.ir, slot.wb.pc, REGS, hi, lo)
MemLatch == LatchOf(slot.mem.ir, slot.mem.pc, RegsW, HiW, LoW)
ExLatch  == LatchOf(slot.ex.ir, slot.ex.pc, RegsM, HiM, LoM)

----------------------------------------------------------------------------
(* What the latches hold of it                                             *)

\* JAL and JALR, whose operands the decoder replaces by the pc and 4.
Links(i) == i.opcode = "JAL" \/ Special(i, {"JALR"})

\* d and e lead to the same results of the instruction i.
Same(d, e, i) ==
  /\ d.ir = i /\ e.ir = i /\ d.pc = e.pc /\ d.ctl = e.ctl
  /\ DestinationOf(d) = DestinationOf(e)
  /\ i.rs \in Reads(i) \/ Links(i) => d.rs.value = e.rs.value
  /\ (i.opcode # "REGIMM" /\ i.rt \in Reads(i)) \/ Links(i) => d.rt.value = e.rt.value
  /\ HI \in Reads(i) => d.hi = e.hi
  /\ LO \in Reads(i) => d.lo = e.lo
  /\ d.ctl.jump = 1 => d.jumpAddress = e.jumpAddress
  /\ d.run_bit = 0 => Special(i, {"SYSCALL"})

\* The latch m behind execute holds the results of e.
Holding(m, e) ==
  /\ m.reg_write = e.ctl.reg_write /\ m.mem_to_rg = e.ctl.mem_to_rg
  /\ m.write_register = DestinationOf(e)
  /\ m.hi.index = HiAfter(e).index /\ (m.hi.index = 1 => m.hi.value = HiAfter(e).value)
  /\ m.lo.index = LoAfter(e).index /\ (m.lo.index = 1 => m.lo.value = LoAfter(e).value)
  /\ (HI \in Writes(e.ir) => m.hi.index = 1) /\ (LO \in Writes(e.ir) => m.lo.index = 1)
  /\ GoesToReg(m) => m.alu_result = AluResult(e, 0)
  /\ m.run_bit = 0 => Special(e.ir, {"SYSCALL"})

\* EX/MEM also holds what the memory stage needs.
HoldingAccess(m, e) ==
  /\ m.mread = e.ctl.mread /\ m.mwrite = e.ctl.mwrite
  /\ m.mread = 1 => m.loadSize = LoadSize(e, 0) /\ m.isLoadSigned = IsLoadSigned(e, 0)
  /\ m.mwrite = 1 => m.alu_result = AluResult(e, 0) /\ m.storeValue = StoreValue(e, 0)

\* What a load with the latch e reads now.
LoadedBy(e) ==
  LoadedValue(ReadGranule(dram, AluResult(e, 0)), LoadSize(e, 0), IsLoadSigned(e, 0))

\* The latch of a bubble: it writes nothing, or register 0 with its value.
Harmless(m) ==
  /\ m.run_bit = 1
  /\ m.reg_write = 1 =>
       /\ m.mem_to_rg = 0 /\ m.hi.index # 1 /\ m.lo.index # 1
       /\ m.write_register = 0 /\ m.alu_result = REGS[0]

\* The same of ID/EX: a stall bubble, or the word 0.
HarmlessIdEx(d) ==
  /\ d.run_bit = 1
  /\ \/ d.ctl = NoControl("NONE")
     \/ d.ctl = RdWrite("SPECIAL") /\ d.ir = Nop /\ d.rd = 0 /\ d.rt.value = REGS[0]

\* The address of the instruction behind e.
NextOf(e) ==
  IF e.ctl.jump = 1 THEN e.jumpAddress
  ELSE IF e.ctl.branch = 1 /\ BranchCondition(e, 0) = 1 THEN BranchTarget(e) ELSE U32(e.pc + 4)

\* The address of the instruction that enters ID/EX, EX/MEM, MEM/WB next.
FrontEx  == IF slot.id THEN if_id.pc ELSE PC
FrontMem == IF execute_status = 1 /\ slot.ex.real THEN slot.ex.pc ELSE FrontEx
FrontWb  == IF memory_status = 1 /\ slot.mem.real THEN slot.mem.pc ELSE FrontMem

----------------------------------------------------------------------------
(* The invariant                                                           *)

\* An instruction in flight was read from the text at its address, has a
\* case in the decoder, and leaves register 0 alone; a bubble is the word 0.
Origin(s) ==
  /\ Known(s.ir) /\ (0 \in Writes(s.ir) => ~ WritesRegisterZero(s.ir))
  /\ IF s.real THEN s.ir = FetchedFrom(text, s.pc) ELSE s.ir = Nop /\ s.pc = 0

\* What was fetched was read from the text, and the PC is behind it.
FrontEnd ==
  /\ stage = "fetch" => decode_status = 0
  /\ fetch_timer = 2 => stage \in {"fetch", "cycle_end", "check_stall"}
  /\ slot.id => decode_status = 1 \/ fetch_timer > 0
  /\ decode_status = 1 \/ fetch_timer > 0 =>
       IF slot.id THEN if_id.ir = FetchedFrom(text, if_id.pc) /\ PC = U32(if_id.pc + 4)
       ELSE if_id = EmptyIfId

Origins ==
  /\ execute_status = 1 => Origin(slot.ex)
  /\ memory_status = 1 => Origin(slot.mem)
  /\ writeback_status = 1 => Origin(slot.wb)

\* A latch whose stage is not due is empty.
BeforeExecute == {"fetch", "cycle_end", "check_stall", "write_back", "memory", "execute"}
BeforeMemory  == {"decode", "fetch", "cycle_end", "check_stall", "write_back", "memory"}
BeforeWb      == {"execute", "decode", "fetch", "cycle_end", "check_stall", "write_back"}

Empties ==
  /\ stage \in BeforeWb /\ writeback_status = 0 => slot.wb = Bubble
  /\ stage \in BeforeMemory /\ memory_status = 0 => slot.mem = Bubble /\ slot.wb = Bubble
  /\ stage \in BeforeExecute /\ execute_status = 0 =>
       /\ slot.mem = Bubble
       /\ stage = "execute" => slot.wb = Bubble
  /\ fetch_timer = 2 => slot.ex = Bubble
  /\ fetch_timer = 1 =>
       IF stage \in {"write_back", "memory", "execute"} THEN slot.ex = Bubble
       ELSE slot.mem = Bubble
  /\ decode_status = 0 /\ fetch_timer = 0 /\ stage # "fetch" =>
       slot.ex = Bubble /\ slot.mem = Bubble /\ slot.wb = Bubble

\* What is due in a latch is what SeqMachine computes, or a bubble.
Results ==
  /\ writeback_status = 1 =>
       IF slot.wb.real
         THEN Holding(mem_wb, WbLatch) /\ (mem_wb.mem_to_rg = 1 => mem_wb.memory_data = LoadedBy(WbLatch))
         ELSE Harmless(mem_wb)
  /\ memory_status = 1 =>
       IF slot.mem.real THEN Holding(ex_mem, MemLatch) /\ HoldingAccess(ex_mem, MemLatch)
       ELSE Harmless(ex_mem) /\ ex_mem.mwrite = 0
  /\ execute_status = 1 =>
       IF slot.ex.real THEN Same(id_ex, ExLatch, slot.ex.ir) ELSE HarmlessIdEx(id_ex)

\* Each instruction in flight is followed by the one SeqMachine runs next.
Order ==
  /\ writeback_status = 1 /\ slot.wb.real => FrontWb = NextOf(WbLatch)
  /\ memory_status = 1 /\ slot.mem.real => FrontMem = NextOf(MemLatch)
  /\ execute_status = 1 /\ slot.ex.real =>
       FrontEx = IF id_ex.ctl.jump = 1 THEN id_ex.jumpAddress ELSE U32(slot.ex.pc + 4)

\* The copy of HI (r = HI) or LO in younger, decoded with "dependency" set
\* right behind older, is the value older computed.
Carries(younger, copy, older, value, r) ==
  younger.fwd = 1 /\ r \in Writes(older.ir) \ Writes(younger.ir) /\ value # 0 => copy = value

\* A store does not follow a SYSCALL that stops the machine.
StoresOn(younger, older, run_bit) ==
  Special(older.ir, {"SYSCALL"}) /\ run_bit = 0 => ~ (younger.ir.opcode \in Stores)

\* Between an instruction and the one right ahead of it.
Neighbours ==
  /\ execute_status = 1 /\ stage \in BeforeExecute \ {"execute"} =>
       /\ Carries(slot.ex, id_ex.hi, slot.mem, ex_mem.hi.value, HI)
       /\ Carries(slot.ex, id_ex.lo, slot.mem, ex_mem.lo.value, LO)
       /\ StoresOn(slot.ex, slot.mem, ex_mem.run_bit)
  /\ execute_status = 1 /\ stage = "execute" =>
       /\ Carries(slot.ex, id_ex.hi, slot.wb, mem_wb.hi.value, HI)
       /\ Carries(slot.ex, id_ex.lo, slot.wb, mem_wb.lo.value, LO)
       /\ StoresOn(slot.ex, slot.wb, mem_wb.run_bit)
  /\ memory_status = 1 /\ stage \in BeforeMemory \ {"memory"} =>
       /\ Carries(slot.mem, ex_mem.hi.value, slot.wb, mem_wb.hi.value, HI)
       /\ Carries(slot.mem, ex_mem.lo.value, slot.wb, mem_wb.lo.value, LO)
       /\ StoresOn(slot.mem, slot.wb, mem_wb.run_bit)

\* HI and LO are busy only while they are being computed.
HiLoOwned ==
  \A r \in {HI, LO} : registerStatus[r] = 0 =>
    \/ writeback_status = 1 /\ r \in Writes(slot.wb.ir)
    \/ memory_status = 1 /\ r \in Writes(slot.mem.ir)
    \/ execute_status = 1 /\ r \in Writes(slot.ex.ir)

\* Where a machine that was stopped still goes.
Stopping == {"memory", "execute", "decode", "fetch", "cycle_end"}

\* A machine that has been stopped does not store any more in that cycle.
Quiet ==
  /\ stage \in Stopping
  /\ stage = "memory" /\ memory_status = 1 => ex_mem.mwrite = 0

\* While the machine runs, its pipeline holds this.
Ordered == FrontEnd /\ Origins /\ Empties /\ Results /\ Order /\ Neighbours /\ HiLoOwned

\* The invariant, for a program that has kept clear of the idioms.
RetireInv == Live /\ hazard = {} => IF RUN_BIT = 1 THEN Ordered ELSE Quiet

----------------------------------------------------------------------------
(* What the decoder leaves in the latch                                    *)

\* The fields SetupControlSignals fixes up besides the destination.
LEMMA SetupFields ==
  ASSUME NEW d \in IdEx, Known(d.ir)
  PROVE  LET s == SetupControlSignals(d)
             i == d.ir
         IN /\ s.ir = i /\ s.pc = d.pc /\ s.hi = d.hi /\ s.lo = d.lo /\ s.run_bit = 1
            /\ s.rs.index = d.rs.index
            /\ s.rs.value = IF Links(i) THEN U32(4) ELSE d.rs.value
            /\ s.rt.value = IF Links(i) THEN d.pc ELSE d.rt.value
            /\ s.jumpAddress = IF Special(i, RegJumps) THEN d.rs.value
                               ELSE IF i.opcode \in {"J", "JAL"} THEN U32(4 * i.label)
                               ELSE d.jumpAddress
  <1> DEFINE i == d.ir
             s == SetupControlSignals(d)
             c == [d EXCEPT !.ctl = ControlOf(i, d.ctl), !.run_bit = IF Known(i) THEN 1 ELSE d.run_bit]
             Fixed(e, a, b, j) ==
               /\ e.ir = i /\ e.pc = d.pc /\ e.hi = d.hi /\ e.lo = d.lo /\ e.run_bit = 1
               /\ e.rs.index = d.rs.index /\ e.rs.value = a /\ e.rt.value = b /\ e.jumpAddress = j
  <1>1. /\ c.ir = i /\ c.pc = d.pc /\ c.hi = d.hi /\ c.lo = d.lo /\ c.run_bit = 1
        /\ c.rs = d.rs /\ c.rt = d.rt /\ c.jumpAddress = d.jumpAddress
    BY DEF IdEx
  <1>2. /\ DOMAIN c = DOMAIN d
        /\ {"rs", "rt", "rd", "ir", "ctl", "jumpAddress", "pc", "hi", "lo", "run_bit"} \subseteq DOMAIN d
        /\ DOMAIN d.rt = {"index", "value"} /\ DOMAIN d.rs = {"index", "value"}
    BY DEF IdEx
  <1>3. s = CASE Special(i, {"MTHI"})   -> [c EXCEPT !.rd = HI]
              [] Special(i, {"MTLO"})   -> [c EXCEPT !.rd = LO]
              [] Special(i, {"JR"})     -> [c EXCEPT !.jumpAddress = d.rs.value]
              [] Special(i, {"JALR"})   -> [c EXCEPT !.jumpAddress = d.rs.value,
                                                     !.rt.value = d.pc, !.rs.value = U32(4)]
              [] Regimm(i, LinkBranch)  -> [c EXCEPT !.rt.index = R_RA]
              [] i.opcode = "J"         -> [c EXCEPT !.jumpAddress = U32(4 * i.label)]
              [] i.opcode = "JAL"       -> [c EXCEPT !.jumpAddress = U32(4 * i.label), !.rd = R_RA,
                                                     !.rt.value = d.pc, !.rs.value = U32(4)]
              [] OTHER                  -> c
    BY DEF SetupControlSignals
  <1> SUFFICES Fixed(s, IF Links(i) THEN U32(4) ELSE d.rs.value,
                        IF Links(i) THEN d.pc ELSE d.rt.value,
                        IF Special(i, RegJumps) THEN d.rs.value
                        ELSE IF i.opcode \in {"J", "JAL"} THEN U32(4 * i.label)
                        ELSE d.jumpAddress)
    OBVIOUS
  <1> HIDE DEF c, s
  <1>4. CASE Special(i, {"MTHI", "MTLO", "JR", "JALR"})
    <2>1. ~ Regimm(i, LinkBranch) /\ i.opcode # "J" /\ i.opcode # "JAL"
      BY <1>4 DEF Special, Regimm
    <2>2. CASE Special(i, {"MTHI", "MTLO"})
      <3>1. s = [c EXCEPT !.rd = HI] \/ s = [c EXCEPT !.rd = LO]
        BY <1>3, <2>1, <2>2 DEF Special
      <3>2. ~ Links(i) /\ ~ Special(i, RegJumps)
        BY <2>1, <2>2 DEF Links, Special, RegJumps
      <3> QED BY <1>1, <1>2, <2>1, <3>1, <3>2
    <2>3. CASE Special(i, {"JR"})
      <3>1. s = [c EXCEPT !.jumpAddress = d.rs.value]
        BY <1>3, <2>1, <2>3 DEF Special
      <3>2. ~ Links(i) /\ Special(i, RegJumps)
        BY <2>1, <2>3 DEF Links, Special, RegJumps
      <3> QED BY <1>1, <1>2, <2>1, <3>1, <3>2
    <2>4. CASE Special(i, {"JALR"})
      <3>1. s = [c EXCEPT !.jumpAddress = d.rs.value, !.rt.value = d.pc, !.rs.value = U32(4)]
        BY <1>3, <2>1, <2>4 DEF Special
      <3>2. Links(i) /\ Special(i, RegJumps)
        BY <2>1, <2>4 DEF Links, Special, RegJumps
      <3> QED BY <1>1, <1>2, <2>1, <3>1, <3>2
    <2> QED BY <1>4, <2>2, <2>3, <2>4 DEF Special
  <1>5. CASE ~ Special(i, {"MTHI", "MTLO", "JR", "JALR"})
    <2>1. ~ Special(i, {"MTHI"}) /\ ~ Special(i, {"MTLO"}) /\ ~ Special(i, {"JR"}) /\ ~ Special(i, {"JALR"})
          /\ ~ Special(i, RegJumps)
      BY <1>5 DEF Special, RegJumps
    <2>2. CASE Regimm(i, LinkBranch)
      <3>1. i.opcode # "J" /\ i.opcode # "JAL"
        BY <2>2 DEF Regimm
      <3>2. s = [c EXCEPT !.rt.index = R_RA]
        BY <1>3, <2>1, <2>2, <3>1
      <3> QED BY <1>1, <1>2, <2>1, <3>1, <3>2 DEF Links
    <2>3. CASE i.opcode = "J"
      <3>1. ~ Regimm(i, LinkBranch) /\ i.opcode # "JAL"
        BY <2>3 DEF Regimm
      <3>2. s = [c EXCEPT !.jumpAddress = U32(4 * i.label)]
        BY <1>3, <2>1, <2>3, <3>1
      <3> QED BY <1>1, <1>2, <2>1, <2>3, <3>1, <3>2 DEF Links
    <2>4. CASE i.opcode = "JAL"
      <3>1. ~ Regimm(i, LinkBranch) /\ i.opcode # "J"
        BY <2>4 DEF Regimm
      <3>2. s = [c EXCEPT !.jumpAddress = U32(4 * i.label), !.rd = R_RA,
                          !.rt.value = d.pc, !.rs.value = U32(4)]
        BY <1>3, <2>1, <2>4, <3>1
      <3> QED BY <1>1, <1>2, <2>1, <2>4, <3>1, <3>2 DEF Links
    <2>5. CASE ~ Regimm(i, LinkBranch) /\ i.opcode # "J" /\ i.opcode # "JAL"
      <3>1. s = c
        BY <1>3, <2>1, <2>5
      <3> QED BY <1>1, <2>1, <2>5, <3>1 DEF Links
    <2> QED BY <2>2, <2>3, <2>4, <2>5
  <1> QED BY <1>4, <1>5

\* SeqMachine's latch holds the operands and the control record of i.
LEMMA LatchFields ==
  ASSUME NEW i \in Instr, Known(i), NEW p \in Word, NEW rf \in [Reg -> Word], NEW h \in Word, NEW l \in Word
  PROVE  LET e == LatchOf(i, p, rf, h, l)
         IN /\ e \in IdEx
            /\ e.ir = i /\ e.pc = p /\ e.hi = h /\ e.lo = l /\ e.run_bit = 1
            /\ e.ctl = ControlOf(i, NoControl("NONE")) /\ DestinationOf(e) = Names(i)
            /\ e.rs.value = IF Links(i) THEN U32(4) ELSE rf[i.rs]
            /\ e.rt.value = IF Links(i) THEN p ELSE rf[i.rt]
            /\ e.jumpAddress = IF Special(i, RegJumps) THEN rf[i.rs]
                               ELSE IF i.opcode \in {"J", "JAL"} THEN U32(4 * i.label) ELSE 0
  <1> DEFINE d == [rs |-> [index |-> i.rs, value |-> rf[i.rs]],
                   rt |-> [index |-> i.rt, value |-> rf[i.rt]],
                   rd |-> i.rd, hi |-> h, lo |-> l, ir |-> i, pc |-> p,
                   jumpAddress |-> 0, ctl |-> NoControl("NONE"), run_bit |-> 1]
  <1>1. i.rs \in Reg /\ i.rt \in Reg /\ i.rd \in Reg /\ i.rd \in StatusIndex
    BY StatusIndices DEF Instr
  <1>2. Silent(NoControl("NONE"))
    BY BuilderTypes DEF AluOp
  <1>3. d \in IdEx
    <2>1. NoControl("NONE") \in Control
      BY <1>2 DEF Silent
    <2>2. rf[i.rs] \in Word /\ rf[i.rt] \in Word /\ 0 \in Word
      BY <1>1, WordInt
    <2> QED BY <1>1, <2>1, <2>2 DEF IdEx, Bit
  <1>4. d.ir = i /\ d.pc = p /\ d.hi = h /\ d.lo = l /\ d.ctl = NoControl("NONE") /\ d.rd = i.rd
        /\ d.rs.value = rf[i.rs] /\ d.rt.value = rf[i.rt] /\ d.jumpAddress = 0 /\ d.rt.index = i.rt
    OBVIOUS
  <1>5. LatchOf(i, p, rf, h, l) = SetupControlSignals(d)
    BY DEF LatchOf
  <1> HIDE DEF d
  <1>6. RdSound(d) /\ InPlace(d)
    BY <1>1, <1>4 DEF RdSound, InPlace
  <1> DEFINE e == SetupControlSignals(d)
  <1>7. e \in IdEx
    BY <1>2, <1>3, <1>4, <1>6, SetupType
  <1>8. DestinationOf(e) = Names(i)
    BY <1>3, <1>4, <1>6, SetupNames
  <1>9. e.ctl = ControlOf(i, NoControl("NONE"))
    BY <1>3, <1>4, SetupDestination
  <1>10. /\ e.ir = i /\ e.pc = p /\ e.hi = h /\ e.lo = l /\ e.run_bit = 1
         /\ e.rs.value = IF Links(i) THEN U32(4) ELSE rf[i.rs]
         /\ e.rt.value = IF Links(i) THEN p ELSE rf[i.rt]
         /\ e.jumpAddress = IF Special(i, RegJumps) THEN rf[i.rs]
                            ELSE IF i.opcode \in {"J", "JAL"} THEN U32(4 * i.label) ELSE 0
    BY <1>3, <1>4, SetupFields
  <1> HIDE DEF e
  <1> QED BY <1>5, <1>7, <1>8, <1>9, <1>10 DEF e

----------------------------------------------------------------------------
(* Execute computes from ID/EX what SeqMachine computes                    *)

\* What an instruction of each class reads.
LEMMA ReadsCases ==
  ASSUME NEW i \in Instr
  PROVE  /\ Special(i, {"SLL", "SRL", "SRA"}) => i.rt \in Reads(i)
         /\ Special(i, (AluFuncts \ {"SLL", "SRL", "SRA"}) \cup MulDiv) => i.rs \in Reads(i) /\ i.rt \in Reads(i)
         /\ Special(i, RegJumps \cup MoveTo) => i.rs \in Reads(i)
         /\ Special(i, {"MFHI"}) => HI \in Reads(i)
         /\ Special(i, {"MFLO"}) => LO \in Reads(i)
         /\ i.opcode \in {"REGIMM", "BLEZ", "BGTZ"} \cup ImmOps \cup Loads => i.rs \in Reads(i)
         /\ i.opcode \in {"BEQ", "BNE"} \cup Stores => i.rs \in Reads(i) /\ i.rt \in Reads(i)
  <1>1. CASE i.opcode = "SPECIAL"
    <2>1. i.opcode \notin {"REGIMM", "BLEZ", "BGTZ", "BEQ", "BNE"} \cup ImmOps \cup Loads \cup Stores
      BY <1>1 DEF ImmOps, Loads, Stores
    <2>2. CASE i.funct \in {"SLL", "SRL", "SRA"}
      BY <1>1, <2>1, <2>2 DEF Reads, Special, AluFuncts, ShiftFuncts, MulDiv, RegJumps, MoveTo
    <2>3. CASE i.funct \in (AluFuncts \ {"SLL", "SRL", "SRA"}) \cup MulDiv
      BY <1>1, <2>1, <2>3 DEF Reads, Special, AluFuncts, ShiftFuncts, MulDiv, RegJumps, MoveTo
    <2>4. CASE i.funct \notin AluFuncts \cup MulDiv
      <3>1. i.funct \notin {"SLL", "SRL", "SRA"}
        BY <2>4 DEF AluFuncts, ShiftFuncts
      <3> QED BY <1>1, <2>1, <2>4, <3>1 DEF Reads, Special, RegJumps, MoveTo
    <2> QED BY <2>2, <2>3, <2>4
  <1>2. CASE i.opcode # "SPECIAL"
    BY <1>2 DEF Reads, Special, ImmOps, Loads, Stores
  <1> QED BY <1>1, <1>2

\* The fields of the control record that steer execute and memory.
LEMMA SteeringFields ==
  ASSUME NEW i \in Instr, Known(i), NEW old
  PROVE  LET c == ControlOf(i, old)
         IN /\ c.alu_op = IF Links(i) THEN "LB" ELSE i.opcode
            /\ c.alu_src = Bool(i.opcode \in {"REGIMM", "LUI"} \cup ImmOps \cup Loads)
            /\ c.jump = Bool(i.opcode \in {"J", "JAL"} \/ Special(i, RegJumps))
            /\ c.branch = Bool(i.opcode \in {"REGIMM"} \cup CmpBranch)
            /\ c.mread = Bool(i.opcode \in Loads) /\ c.mem_to_rg = Bool(i.opcode \in Loads)
            /\ c.mwrite = Bool(i.opcode \in Stores)
  <1> DEFINE c == ControlOf(i, old)
             Field(op, src, j, b, r, w) ==
               /\ c.alu_op = op /\ c.alu_src = src /\ c.jump = j /\ c.branch = b
               /\ c.mread = r /\ c.mem_to_rg = r /\ c.mwrite = w
  <1> SUFFICES Field(IF Links(i) THEN "LB" ELSE i.opcode,
                     Bool(i.opcode \in {"REGIMM", "LUI"} \cup ImmOps \cup Loads),
                     Bool(i.opcode \in {"J", "JAL"} \/ Special(i, RegJumps)),
                     Bool(i.opcode \in {"REGIMM"} \cup CmpBranch),
                     Bool(i.opcode \in Loads), Bool(i.opcode \in Stores))
    OBVIOUS
  <1>1. \/ Special(i, {"SYSCALL"}) /\ c = NoControl("SPECIAL")
        \/ Special(i, {"JR"}) /\ c = Jump("SPECIAL")
        \/ Special(i, {"JALR"}) /\ c = Link
        \/ Special(i, Computing) /\ c = RdWrite("SPECIAL")
        \/ Regimm(i, LinkBranch) /\ c = [RtWrite("REGIMM") EXCEPT !.branch = 1]
        \/ Regimm(i, PlainRegimm) /\ c = [Branch("REGIMM") EXCEPT !.alu_src = 1]
        \/ i.opcode = "J" /\ c = Jump("J")
        \/ i.opcode = "JAL" /\ c = Link
        \/ i.opcode \in ImmOps \cup {"LUI"} /\ c = RtWrite(i.opcode)
        \/ i.opcode \in CmpBranch /\ c = Branch(i.opcode)
        \/ i.opcode \in Loads /\ c = Load(i.opcode)
        \/ i.opcode \in Stores /\ c = Store(i.opcode)
    BY ControlCases
  <1> HIDE DEF c
  <1>2. CASE i.opcode = "SPECIAL"
    <2>1. i.opcode \notin {"REGIMM", "J", "JAL", "LUI"} \cup ImmOps \cup CmpBranch \cup Loads \cup Stores
      BY <1>2 DEF ImmOps, CmpBranch, Loads, Stores
    <2>2. CASE Special(i, {"SYSCALL"}) /\ c = NoControl("SPECIAL")
      <3>1. ~ Links(i) /\ ~ Special(i, RegJumps)
        BY <2>1, <2>2 DEF Links, Special, RegJumps
      <3> QED BY <1>2, <2>1, <2>2, <3>1 DEF Bool, NoControl
    <2>3. CASE Special(i, {"JR"}) /\ c = Jump("SPECIAL")
      <3>1. ~ Links(i) /\ Special(i, RegJumps)
        BY <2>1, <2>3 DEF Links, Special, RegJumps
      <3> QED BY <1>2, <2>1, <2>3, <3>1 DEF Bool, Jump, NoControl
    <2>4. CASE Special(i, {"JALR"}) /\ c = Link
      <3>1. Links(i) /\ Special(i, RegJumps)
        BY <2>1, <2>4 DEF Links, Special, RegJumps
      <3> QED BY <1>2, <2>1, <2>4, <3>1 DEF Bool, Link, RdWrite, NoControl
    <2>5. CASE Special(i, Computing) /\ c = RdWrite("SPECIAL")
      <3>1. ~ Links(i) /\ ~ Special(i, RegJumps)
        BY <2>1, <2>5 DEF Links, Special, RegJumps, Computing, AluFuncts, ShiftFuncts, MulDiv, MoveFrom, MoveTo
      <3> QED BY <1>2, <2>1, <2>5, <3>1 DEF Bool, RdWrite, NoControl
    <2> QED BY <1>1, <1>2, <2>1, <2>2, <2>3, <2>4, <2>5 DEF Regimm
  <1>3. CASE i.opcode = "REGIMM"
    <2>1. /\ i.opcode \notin {"J", "JAL", "LUI"} \cup ImmOps \cup CmpBranch \cup Loads \cup Stores
          /\ ~ Links(i) /\ ~ Special(i, RegJumps)
      BY <1>3 DEF ImmOps, CmpBranch, Loads, Stores, Links, Special
    <2>2. \/ c = [RtWrite("REGIMM") EXCEPT !.branch = 1] \/ c = [Branch("REGIMM") EXCEPT !.alu_src = 1]
      BY <1>1, <1>3, <2>1 DEF Special
    <2> QED BY <1>3, <2>1, <2>2 DEF Bool, RtWrite, Branch, NoControl
  <1>4. CASE i.opcode \notin {"SPECIAL", "REGIMM"}
    <2>1. ~ Special(i, RegJumps) /\ (Links(i) <=> i.opcode = "JAL")
      BY <1>4 DEF Links, Special
    <2>2. CASE i.opcode \in {"J", "JAL"}
      <3>1. i.opcode \notin {"REGIMM", "LUI"} \cup ImmOps \cup CmpBranch \cup Loads \cup Stores
        BY <2>2 DEF ImmOps, CmpBranch, Loads, Stores
      <3>2. (i.opcode = "J" /\ c = Jump("J")) \/ (i.opcode = "JAL" /\ c = Link)
        BY <1>1, <1>4, <2>2, <3>1 DEF Special, Regimm
      <3> QED BY <2>1, <2>2, <3>1, <3>2 DEF Bool, Jump, Link, RdWrite, NoControl
    <2>3. CASE i.opcode \in ImmOps \cup {"LUI"}
      <3>1. i.opcode \notin {"J", "JAL", "REGIMM"} \cup CmpBranch \cup Loads \cup Stores
        BY <2>3 DEF ImmOps, CmpBranch, Loads, Stores
      <3>2. c = RtWrite(i.opcode)
        BY <1>1, <1>4, <2>3, <3>1 DEF Special, Regimm
      <3> QED BY <2>1, <2>3, <3>1, <3>2 DEF Bool, RtWrite, NoControl
    <2>4. CASE i.opcode \in CmpBranch
      <3>1. i.opcode \notin {"J", "JAL", "REGIMM", "LUI"} \cup ImmOps \cup Loads \cup Stores
        BY <2>4 DEF ImmOps, CmpBranch, Loads, Stores
      <3>2. c = Branch(i.opcode)
        BY <1>1, <1>4, <2>4, <3>1 DEF Special, Regimm
      <3> QED BY <2>1, <2>4, <3>1, <3>2 DEF Bool, Branch, NoControl
    <2>5. CASE i.opcode \in Loads
      <3>1. i.opcode \notin {"J", "JAL", "REGIMM", "LUI"} \cup ImmOps \cup CmpBranch \cup Stores
        BY <2>5 DEF ImmOps, CmpBranch, Loads, Stores
      <3>2. c = Load(i.opcode)
        BY <1>1, <1>4, <2>5, <3>1 DEF Special, Regimm
      <3> QED BY <2>1, <2>5, <3>1, <3>2 DEF Bool, Load, RtWrite, NoControl
    <2>6. CASE i.opcode \in Stores
      <3>1. i.opcode \notin {"J", "JAL", "REGIMM", "LUI"} \cup ImmOps \cup CmpBranch \cup Loads
        BY <2>6 DEF ImmOps, CmpBranch, Loads, Stores
      <3>2. c = Store(i.opcode)
        BY <1>1, <1>4, <2>6, <3>1 DEF Special, Regimm
      <3> QED BY <2>1, <2>6, <3>1, <3>2 DEF Bool, Store, NoControl
    <2> QED BY <1>1, <1>4, <2>2, <2>3, <2>4, <2>5, <2>6 DEF Special, Regimm
  <1> QED BY <1>2, <1>3, <1>4

\* HI and LO of the same operands.
LEMMA SameHiLo ==
  ASSUME NEW d, NEW e, NEW i \in Instr, Known(i), Same(d, e, i), e.ctl = ControlOf(i, e.ctl)
  PROVE  /\ HiAfter(d).index = HiAfter(e).index
         /\ LoAfter(d).index = LoAfter(e).index
         /\ HiAfter(d).index = 1 => HiAfter(d) = HiAfter(e)
         /\ LoAfter(d).index = 1 => LoAfter(d) = LoAfter(e)
  <1>1. d.ir = i /\ e.ir = i /\ d.ctl = e.ctl
    BY DEF Same
  <1>2. CASE e.ctl.alu_op # "SPECIAL"
    BY <1>1, <1>2, Unmarked
  <1>3. CASE e.ctl.alu_op = "SPECIAL" /\ ~ Special(i, MulDiv \cup MoveTo)
    <2>1. i.opcode = "SPECIAL"
      <3>1. e.ctl.alu_op = IF Links(i) THEN "LB" ELSE i.opcode
        BY SteeringFields
      <3> QED BY <1>3, <3>1
    <2>2. i.funct \notin MulDiv \cup {"MTHI"} /\ i.funct \notin MulDiv \cup {"MTLO"}
      BY <1>3, <2>1 DEF Special, MoveTo
    <2>3. HiAfter(d) = Keep(d.hi) /\ LoAfter(d) = Keep(d.lo)
      BY <1>1, <1>3, <2>2 DEF HiAfter, LoAfter, RunsSpecial, Divides, MulDiv
    <2>4. HiAfter(e) = Keep(e.hi) /\ LoAfter(e) = Keep(e.lo)
      BY <1>1, <1>3, <2>2 DEF HiAfter, LoAfter, RunsSpecial, Divides, MulDiv
    <2> QED BY <2>3, <2>4 DEF Keep
  <1>4. CASE e.ctl.alu_op = "SPECIAL" /\ Special(i, MulDiv)
    <2>1. OperandA(d) = OperandA(e) /\ OperandB(d) = OperandB(e)
      <3>1. i.rs \in Reads(i) /\ i.rt \in Reads(i) /\ i.opcode # "REGIMM"
        BY <1>4, ReadsCases DEF Special
      <3> QED BY <1>1, <3>1 DEF Same, OperandA, OperandB
    <2>2. i.funct # "MTHI" /\ i.funct # "MTLO" /\ i.funct \in MulDiv
      BY <1>4 DEF Special, MulDiv
    <2>3. CASE i.funct \in {"MULT", "MULTU"}
      <3>1. Product(d) = Product(e)
        BY <2>1 DEF Product
      <3>2. HiAfter(d) = HiAfter(e)
        BY <1>1, <1>4, <2>1, <2>3, <3>1 DEF HiAfter, RunsSpecial, Divides
      <3>3. LoAfter(d) = LoAfter(e)
        BY <1>1, <1>4, <2>1, <2>3, <3>1 DEF LoAfter, RunsSpecial, Divides
      <3> QED BY <3>2, <3>3
    <2>4. CASE i.funct \in {"DIV", "DIVU"} /\ OperandB(e) # 0
      <3>1. HiAfter(d) = HiAfter(e)
        BY <1>1, <1>4, <2>1, <2>4 DEF HiAfter, RunsSpecial, Divides
      <3>2. LoAfter(d) = LoAfter(e)
        BY <1>1, <1>4, <2>1, <2>4 DEF LoAfter, RunsSpecial, Divides
      <3> QED BY <3>1, <3>2
    <2>5. CASE i.funct \in {"DIV", "DIVU"} /\ OperandB(e) = 0
      <3>1. HiAfter(d) = Keep(d.hi) /\ LoAfter(d) = Keep(d.lo)
        BY <1>1, <1>4, <2>1, <2>5 DEF HiAfter, LoAfter, RunsSpecial, Divides
      <3>2. HiAfter(e) = Keep(e.hi) /\ LoAfter(e) = Keep(e.lo)
        BY <1>1, <1>4, <2>1, <2>5 DEF HiAfter, LoAfter, RunsSpecial, Divides
      <3> QED BY <3>1, <3>2 DEF Keep
    <2> QED BY <2>2, <2>3, <2>4, <2>5 DEF MulDiv
  <1>5. CASE e.ctl.alu_op = "SPECIAL" /\ Special(i, MoveTo)
    <2>1. OperandA(d) = OperandA(e)
      <3>1. i.rs \in Reads(i)
        BY <1>5, ReadsCases DEF Special
      <3> QED BY <1>1, <3>1 DEF Same, OperandA
    <2>2. CASE i.funct = "MTHI"
      <3>1. HiAfter(d) = HiAfter(e)
        BY <1>1, <1>5, <2>1, <2>2 DEF HiAfter, RunsSpecial, Divides
      <3>2. LoAfter(d) = Keep(d.lo) /\ LoAfter(e) = Keep(e.lo)
        BY <1>1, <1>5, <2>2 DEF LoAfter, RunsSpecial, Divides
      <3> QED BY <2>1, <3>1, <3>2 DEF Keep
    <2>3. CASE i.funct = "MTLO"
      <3>1. LoAfter(d) = LoAfter(e)
        BY <1>1, <1>5, <2>1, <2>3 DEF LoAfter, RunsSpecial, Divides
      <3>2. HiAfter(d) = Keep(d.hi) /\ HiAfter(e) = Keep(e.hi)
        BY <1>1, <1>5, <2>3 DEF HiAfter, RunsSpecial, Divides
      <3> QED BY <2>1, <3>1, <3>2 DEF Keep
    <2> QED BY <1>5, <2>2, <2>3 DEF Special, MoveTo
  <1> QED BY <1>2, <1>3, <1>4, <1>5 DEF Special

\* The ALU result of the same operands, whatever EX/MEM held.
LEMMA SameResult ==
  ASSUME NEW d, NEW e, NEW i \in Instr, Known(i), Same(d, e, i), e.ctl = ControlOf(i, e.ctl), NEW old,
         \/ Links(i) \/ Special(i, AluFuncts \cup MoveFrom) \/ Regimm(i, LinkBranch)
         \/ i.opcode \in ImmOps \cup {"LUI"} \cup Loads \cup Stores
  PROVE  AluResult(d, old) = AluResult(e, 0)
  <1>1. d.ir = i /\ e.ir = i /\ d.ctl = e.ctl /\ d.pc = e.pc
    BY DEF Same
  <1>2. /\ e.ctl.alu_op = IF Links(i) THEN "LB" ELSE i.opcode
        /\ e.ctl.alu_src = Bool(i.opcode \in {"REGIMM", "LUI"} \cup ImmOps \cup Loads)
    BY SteeringFields
  <1>3. CASE Links(i)
    <2>1. e.ctl.alu_op = "LB" /\ d.ctl.alu_op = "LB"
      BY <1>1, <1>2, <1>3
    <2>2. OperandA(d) = OperandA(e) /\ OperandB(d) = OperandB(e)
      BY <1>1, <1>3 DEF Same, OperandA, OperandB
    <2>3. "LB" \in Loads /\ "LB" \notin Stores /\ "LB" # "SPECIAL" /\ "LB" # "REGIMM"
          /\ "LB" \notin {"ADDI", "ADDIU", "ANDI", "ORI", "XORI", "LUI", "SLTI", "SLTIU"}
      BY DEF Loads, Stores
    <2>4. ImmResult(d, OperandA(d), OperandB(d), old) = ImmResult(e, OperandA(e), OperandB(e), 0)
      BY <2>1, <2>2, <2>3 DEF ImmResult
    <2> QED BY <2>1, <2>3, <2>4 DEF AluResult
  <1>4. CASE Special(i, AluFuncts \cup MoveFrom)
    <2>1. ~ Links(i) /\ i.opcode = "SPECIAL"
      BY <1>4 DEF Links, Special, AluFuncts, ShiftFuncts, MoveFrom
    <2>2. d.ctl.alu_op = "SPECIAL" /\ e.ctl.alu_op = "SPECIAL"
      BY <1>1, <1>2, <2>1
    <2>3. CASE i.funct \in {"SLL", "SRL", "SRA"}
      <3>1. OperandB(d) = OperandB(e)
        <4>1. i.rt \in Reads(i) /\ i.opcode # "REGIMM"
          BY <2>1, <2>3, ReadsCases DEF Special
        <4> QED BY <1>1, <4>1 DEF Same, OperandB
      <3>2. ASSUME NEW a, NEW b, NEW z, NEW y
            PROVE  SpecialResult(d, a, z, y) = SpecialResult(e, b, z, 0)
        <4>1. CASE i.funct = "SLL"
          BY <1>1, <4>1 DEF SpecialResult
        <4>2. CASE i.funct = "SRL"
          BY <1>1, <4>2 DEF SpecialResult
        <4>3. CASE i.funct = "SRA"
          BY <1>1, <4>3 DEF SpecialResult
        <4> QED BY <2>3, <4>1, <4>2, <4>3
      <3> QED BY <2>2, <3>1, <3>2 DEF AluResult
    <2>4. CASE i.funct \in AluFuncts \ {"SLL", "SRL", "SRA"}
      <3>1. OperandA(d) = OperandA(e) /\ OperandB(d) = OperandB(e)
        <4>1. i.rs \in Reads(i) /\ i.rt \in Reads(i) /\ i.opcode # "REGIMM"
          BY <2>1, <2>4, ReadsCases DEF Special
        <4> QED BY <1>1, <4>1 DEF Same, OperandA, OperandB
      <3>2. ASSUME NEW a, NEW b, NEW y
            PROVE  SpecialResult(d, a, b, y) = SpecialResult(e, a, b, 0)
        BY <1>1, <2>4 DEF SpecialResult, AluFuncts, ShiftFuncts
      <3> QED BY <2>2, <3>1, <3>2 DEF AluResult
    <2>5. CASE i.funct = "MFHI"
      <3>1. d.hi = e.hi
        <4>1. HI \in Reads(i)
          BY <2>1, <2>5, ReadsCases DEF Special
        <4> QED BY <4>1 DEF Same
      <3>2. AluResult(d, old) = d.hi /\ AluResult(e, 0) = e.hi
        BY <1>1, <2>2, <2>5 DEF AluResult, SpecialResult
      <3> QED BY <3>1, <3>2
    <2>6. CASE i.funct = "MFLO"
      <3>1. d.lo = e.lo
        <4>1. LO \in Reads(i)
          BY <2>1, <2>6, ReadsCases DEF Special
        <4> QED BY <4>1 DEF Same
      <3>2. AluResult(d, old) = d.lo /\ AluResult(e, 0) = e.lo
        BY <1>1, <2>2, <2>6 DEF AluResult, SpecialResult
      <3> QED BY <3>1, <3>2
    <2> QED BY <1>4, <2>3, <2>4, <2>5, <2>6 DEF Special, MoveFrom
  <1>5. CASE Regimm(i, LinkBranch)
    <2>1. ~ Links(i) /\ i.opcode = "REGIMM"
      BY <1>5 DEF Links, Special, Regimm
    <2> QED BY <1>1, <1>2, <1>5, <2>1 DEF AluResult, Regimm
  <1>6. CASE i.opcode \in ImmOps \cup {"LUI"} \cup Loads \cup Stores
    <2>1. ~ Links(i) /\ i.opcode # "SPECIAL" /\ i.opcode # "REGIMM"
      BY <1>6 DEF Links, Special, ImmOps, Loads, Stores
    <2>2. d.ctl.alu_op = i.opcode /\ e.ctl.alu_op = i.opcode
      BY <1>1, <1>2, <2>1
    <2>3. CASE i.opcode \in Stores
      <3>1. Effective(d) = Effective(e)
        <4>1. i.rs \in Reads(i)
          BY <2>3, ReadsCases
        <4> QED BY <1>1, <4>1 DEF Same, Effective
      <3>2. i.opcode \notin {"ADDI", "ADDIU", "ANDI", "ORI", "XORI", "LUI", "SLTI", "SLTIU"} \cup Loads
        BY <2>3 DEF Stores, Loads
      <3>3. ASSUME NEW a, NEW b, NEW y PROVE
             ImmResult(d, a, b, y) = Effective(d) /\ ImmResult(e, a, b, y) = Effective(e)
        BY <2>2, <2>3, <3>2 DEF ImmResult
      <3> QED BY <2>1, <2>2, <3>1, <3>3 DEF AluResult
    <2>4. CASE i.opcode = "LUI"
      <3>1. OperandB(d) = i.imm /\ OperandB(e) = i.imm
        BY <1>1, <1>2, <2>4 DEF OperandB, Bool
      <3>2. "LUI" \notin Loads \cup Stores
        BY DEF Loads, Stores
      <3>3. ASSUME NEW a, NEW b, NEW y PROVE
             ImmResult(d, a, b, y) = ShiftLeft(b, 2 * B) /\ ImmResult(e, a, b, y) = ShiftLeft(b, 2 * B)
        BY <2>2, <2>4, <3>2 DEF ImmResult
      <3> QED BY <2>1, <2>2, <3>1, <3>3 DEF AluResult
    <2>5. CASE i.opcode \in ImmOps \cup Loads
      <3>1. OperandA(d) = OperandA(e) /\ OperandB(d) = OperandB(e)
        <4>1. i.rs \in Reads(i)
          BY <2>5, ReadsCases
        <4> QED BY <1>1, <1>2, <2>5, <4>1 DEF Same, OperandA, OperandB, Bool
      <3>2. ASSUME NEW a, NEW b, NEW y PROVE ImmResult(d, a, b, y) = ImmResult(e, a, b, 0)
        <4>1. i.opcode \notin Stores
          BY <2>5 DEF ImmOps, Loads, Stores
        <4>2. CASE i.opcode \in Loads
          <5>1. i.opcode \notin {"ADDI", "ADDIU", "ANDI", "ORI", "XORI", "LUI", "SLTI", "SLTIU"}
            BY <4>2 DEF Loads
          <5> QED BY <2>2, <4>1, <4>2, <5>1 DEF ImmResult
        <4>3. CASE i.opcode \in ImmOps
          <5>1. i.opcode \notin Loads
            BY <4>3 DEF Loads, ImmOps
          <5> QED BY <2>2, <4>1, <4>3, <5>1 DEF ImmResult, ImmOps
        <4> QED BY <2>5, <4>2, <4>3
      <3> QED BY <2>1, <2>2, <3>1, <3>2 DEF AluResult
    <2> QED BY <1>6, <2>3, <2>4, <2>5
  <1> QED BY <1>3, <1>4, <1>5, <1>6

\* The branch decision and its target from the same operands.
LEMMA SameBranch ==
  ASSUME NEW d, NEW e, NEW i \in Instr, Known(i), Same(d, e, i), e.ctl = ControlOf(i, e.ctl), NEW old,
         d.ctl.branch = 1
  PROVE  BranchCondition(d, old) = BranchCondition(e, 0) /\ BranchTarget(d) = BranchTarget(e)
  <1>1. d.ir = i /\ e.ir = i /\ d.ctl = e.ctl /\ d.pc = e.pc
    BY DEF Same
  <1>2. /\ e.ctl.alu_op = IF Links(i) THEN "LB" ELSE i.opcode
        /\ e.ctl.alu_src = Bool(i.opcode \in {"REGIMM", "LUI"} \cup ImmOps \cup Loads)
        /\ e.ctl.branch = Bool(i.opcode \in {"REGIMM"} \cup CmpBranch)
    BY SteeringFields
  <1>3. i.opcode \in {"REGIMM"} \cup CmpBranch
    BY <1>1, <1>2 DEF Bool
  <1>4. ~ Links(i)
    BY <1>3 DEF Links, Special, CmpBranch
  <1>5. d.ctl.alu_op = i.opcode /\ e.ctl.alu_op = i.opcode
    BY <1>1, <1>2, <1>4
  <1>6. OperandA(d) = OperandA(e)
    <2>1. i.rs \in Reads(i)
      BY <1>3, ReadsCases DEF CmpBranch
    <2> QED BY <2>1 DEF Same, OperandA
  <1>7. CASE i.opcode \in {"BEQ", "BNE"}
    <2>1. d.rt.value = e.rt.value
      <3>1. i.rt \in Reads(i) /\ i.opcode # "REGIMM"
        BY <1>7, ReadsCases
      <3> QED BY <3>1 DEF Same
    <2>2. BranchCondition(d, old) = BranchCondition(e, 0)
      BY <1>5, <1>6, <1>7, <2>1 DEF BranchCondition
    <2>3. BranchTarget(d) = BranchTarget(e)
      BY <1>1, <1>5, <1>7 DEF BranchTarget
    <2> QED BY <2>2, <2>3
  <1>8. CASE i.opcode \in {"BLEZ", "BGTZ"}
    <2>1. BranchCondition(d, old) = BranchCondition(e, 0)
      BY <1>5, <1>6, <1>8 DEF BranchCondition
    <2>2. BranchTarget(d) = BranchTarget(e)
      BY <1>1, <1>5, <1>8 DEF BranchTarget
    <2> QED BY <2>1, <2>2
  <1>9. CASE i.opcode = "REGIMM"
    <2>1. i.funct \in {"BLTZ", "BLTZAL", "BGEZ", "BGEZAL"}
      BY <1>9 DEF Known, Special, Regimm, LinkBranch, PlainRegimm
    <2>2. BranchCondition(d, old) = BranchCondition(e, 0)
      BY <1>1, <1>5, <1>6, <1>9, <2>1 DEF BranchCondition
    <2>3. OperandB(d) = OperandB(e)
      BY <1>1, <1>2, <1>9 DEF OperandB, Bool
    <2>4. BranchTarget(d) = BranchTarget(e)
      BY <1>1, <1>5, <1>9, <2>1, <2>3 DEF BranchTarget, PlainRegimm, LinkBranch
    <2> QED BY <2>2, <2>4
  <1> QED BY <1>3, <1>7, <1>8, <1>9 DEF CmpBranch

\* What a load and a store bring to the memory stage.
LEMMA SameAccess ==
  ASSUME NEW d, NEW e, NEW i \in Instr, Known(i), Same(d, e, i), e.ctl = ControlOf(i, e.ctl), NEW old, NEW was
  PROVE  /\ d.ctl.mread = 1 => LoadSize(d, old) = LoadSize(e, 0) /\ IsLoadSigned(d, was) = IsLoadSigned(e, 0)
         /\ d.ctl.mwrite = 1 => StoreValue(d, old) = StoreValue(e, 0)
  <1>1. d.ir = i /\ e.ir = i /\ d.ctl = e.ctl
    BY DEF Same
  <1>2. /\ e.ctl.alu_op = IF Links(i) THEN "LB" ELSE i.opcode
        /\ e.ctl.mread = Bool(i.opcode \in Loads) /\ e.ctl.mwrite = Bool(i.opcode \in Stores)
    BY SteeringFields
  <1>3. i.opcode \in Loads \cup Stores => d.ctl.alu_op = i.opcode /\ e.ctl.alu_op = i.opcode
    BY <1>1, <1>2 DEF Links, Special, Loads, Stores
  <1>4. ASSUME d.ctl.mread = 1
        PROVE  LoadSize(d, old) = LoadSize(e, 0) /\ IsLoadSigned(d, was) = IsLoadSigned(e, 0)
    <2>1. i.opcode \in Loads
      BY <1>1, <1>2, <1>4 DEF Bool
    <2>2. LoadSize(d, old) = LoadSize(e, 0)
      BY <1>3, <2>1 DEF LoadSize, Loads
    <2>3. IsLoadSigned(d, was) = IsLoadSigned(e, 0)
      BY <1>3, <2>1 DEF IsLoadSigned
    <2> QED BY <2>2, <2>3
  <1>5. ASSUME d.ctl.mwrite = 1 PROVE StoreValue(d, old) = StoreValue(e, 0)
    <2>1. i.opcode \in Stores
      BY <1>1, <1>2, <1>5 DEF Bool
    <2>2. d.rt.value = e.rt.value
      <3>1. i.rt \in Reads(i) /\ i.opcode # "REGIMM"
        BY <2>1, ReadsCases DEF Stores
      <3> QED BY <3>1 DEF Same
    <2> QED BY <1>3, <2>1, <2>2 DEF StoreValue, Stores
  <1> QED BY <1>4, <1>5

\* The instructions that write HI and LO.
LEMMA HiLoWriters ==
  ASSUME NEW i \in Instr, Known(i)
  PROVE  /\ HI \in Writes(i) <=> Special(i, MulDiv \cup {"MTHI"})
         /\ LO \in Writes(i) <=> Special(i, MulDiv \cup {"MTLO"})
  <1>1. HI \notin Reg /\ LO \notin Reg /\ HI # LO /\ R_RA \in Reg
    BY RegisterAssumption DEF HI, LO, Reg
  <1>2. i.rs \in Reg /\ i.rt \in Reg /\ i.rd \in Reg
    BY DEF Instr
  <1> DEFINE c == ControlOf(i, NoControl("NONE"))
  <1>3. /\ c.reg_write \in Bit
        /\ c.reg_write = 0 => Writes(i) = {}
        /\ c.reg_write = 1 => Writes(i) = IF Special(i, MulDiv) THEN {HI, LO} ELSE {Names(i)}
        /\ c.alu_op = "SPECIAL" /\ c.reg_write = 1 <=> Special(i, Computing)
        /\ Names(i) = IF Special(i, {"MTHI"}) THEN HI ELSE IF Special(i, {"MTLO"}) THEN LO
                      ELSE IF i.opcode = "JAL" \/ Regimm(i, LinkBranch) THEN R_RA
                      ELSE IF c.reg_dst = 1 THEN i.rd ELSE i.rt
    BY WritesCases
  <1> HIDE DEF c
  <1>4. CASE Special(i, MulDiv \cup {"MTHI", "MTLO"})
    <2>1. Special(i, Computing)
      BY <1>4 DEF Special, Computing, MoveTo
    <2>2. Writes(i) = IF Special(i, MulDiv) THEN {HI, LO} ELSE {Names(i)}
      BY <1>3, <2>1
    <2>3. CASE Special(i, MulDiv)
      BY <2>2, <2>3 DEF Special
    <2>4. CASE Special(i, {"MTHI"})
      <3>1. ~ Special(i, MulDiv) /\ ~ Special(i, MulDiv \cup {"MTLO"}) /\ Special(i, MulDiv \cup {"MTHI"})
        BY <2>4 DEF Special, MulDiv
      <3> QED BY <1>1, <1>3, <2>2, <2>4, <3>1
    <2>5. CASE Special(i, {"MTLO"})
      <3>1. ~ Special(i, MulDiv) /\ ~ Special(i, MulDiv \cup {"MTHI"}) /\ Special(i, MulDiv \cup {"MTLO"})
            /\ ~ Special(i, {"MTHI"})
        BY <2>5 DEF Special, MulDiv
      <3> QED BY <1>1, <1>3, <2>2, <2>5, <3>1
    <2> QED BY <1>4, <2>3, <2>4, <2>5 DEF Special
  <1>5. CASE ~ Special(i, MulDiv \cup {"MTHI", "MTLO"})
    <2>1. ~ Special(i, MulDiv) /\ ~ Special(i, {"MTHI"}) /\ ~ Special(i, {"MTLO"})
      BY <1>5 DEF Special
    <2>2. Names(i) \in Reg
      BY <1>1, <1>2, <1>3, <2>1
    <2>3. Writes(i) \subseteq {Names(i)}
      BY <1>3, <2>1 DEF Bit
    <2> QED BY <1>1, <1>5, <2>2, <2>3 DEF Special
  <1> QED BY <1>4, <1>5

\* Execute on the same operands leaves the results in EX/MEM.
LEMMA ExecutedHolding ==
  ASSUME NEW d, NEW e, NEW i \in Instr, Known(i), Same(d, e, i), e.ctl = ControlOf(i, e.ctl), NEW old,
         Special(i, {"DIV", "DIVU"}) => d.rt.value # 0
  PROVE  Holding(Executed(d, old), e) /\ HoldingAccess(Executed(d, old), e)
  <1> DEFINE m == Executed(d, old)
  <1>1. d.ir = i /\ e.ir = i /\ d.ctl = e.ctl /\ (d.run_bit = 0 => Special(i, {"SYSCALL"}))
        /\ DestinationOf(d) = DestinationOf(e)
    BY DEF Same
  <1>2. /\ m.hi = HiAfter(d) /\ m.lo = LoAfter(d) /\ m.alu_result = AluResult(d, old.alu_result)
        /\ m.storeValue = StoreValue(d, old.storeValue) /\ m.loadSize = LoadSize(d, old.loadSize)
        /\ m.isLoadSigned = IsLoadSigned(d, old.isLoadSigned)
        /\ m.mem_to_rg = d.ctl.mem_to_rg /\ m.run_bit = d.run_bit /\ m.write_register = DestinationOf(d)
        /\ m.mwrite = d.ctl.mwrite /\ m.mread = d.ctl.mread /\ m.reg_write = d.ctl.reg_write
    BY DEF Executed
  <1> HIDE DEF m
  <1>3. /\ e.ctl.reg_write \in Bit /\ (e.ctl.reg_write = 0 => Writes(i) = {})
        /\ e.ctl.alu_op = "SPECIAL" /\ e.ctl.reg_write = 1 <=> Special(i, Computing)
        /\ Special(i, Computing) => e.ctl.alu_src = 0
    BY WritesCases
  <1>4. /\ e.ctl.alu_op = IF Links(i) THEN "LB" ELSE i.opcode
        /\ e.ctl.mread = Bool(i.opcode \in Loads) /\ e.ctl.mwrite = Bool(i.opcode \in Stores)
        /\ e.ctl.mem_to_rg = Bool(i.opcode \in Loads)
    BY SteeringFields
  <1>5. ASSUME GoesToReg(m) PROVE m.alu_result = AluResult(e, 0)
    <2>1. e.ctl.reg_write = 1 /\ (e.ctl.mem_to_rg = 1 \/ (HiAfter(d).index # 1 /\ LoAfter(d).index # 1))
      BY <1>1, <1>2, <1>5 DEF GoesToReg
    <2>2. ~ Special(i, MulDiv \cup MoveTo)
      <3>1. SUFFICES ASSUME Special(i, MulDiv \cup MoveTo) PROVE FALSE
        OBVIOUS
      <3>2. d.ctl.alu_op = "SPECIAL" /\ d.ctl.alu_src = 0 /\ e.ctl.mem_to_rg = 0
        <4>1. Special(i, Computing) /\ i.opcode \notin Loads
          BY <3>1 DEF Special, Computing, Loads
        <4> QED BY <1>1, <1>3, <1>4, <4>1 DEF Bool
      <3>3. OperandB(d) = d.rt.value
        BY <3>2 DEF OperandB
      <3>4. d.ir.funct \in MulDiv \/ d.ir.funct = "MTHI" \/ d.ir.funct = "MTLO"
        BY <1>1, <3>1 DEF Special, MoveTo
      <3>5. d.ir.funct \in {"DIV", "DIVU"} => OperandB(d) # 0
        BY <1>1, <3>1, <3>3 DEF Special
      <3>6. HiAfter(d).index = 1 \/ LoAfter(d).index = 1
        BY <3>2, <3>4, <3>5, Marks
      <3> QED BY <2>1, <3>2, <3>6
    <2>3. \/ Links(i) \/ Special(i, AluFuncts \cup MoveFrom) \/ Regimm(i, LinkBranch)
          \/ i.opcode \in ImmOps \cup {"LUI"} \cup Loads \cup Stores
      <3>1. e.ctl.reg_write = 1
        BY <2>1
      <3>2. Special(i, Computing) => Special(i, AluFuncts \cup MoveFrom)
        BY <2>2 DEF Special, Computing
      <3>3. \/ e.ctl = NoControl("SPECIAL") \/ e.ctl = Jump("SPECIAL") \/ e.ctl = Jump("J")
            \/ e.ctl = [Branch("REGIMM") EXCEPT !.alu_src = 1] \/ e.ctl = Branch(i.opcode)
            \/ Special(i, {"JALR"}) \/ i.opcode = "JAL" \/ Special(i, Computing) \/ Regimm(i, LinkBranch)
            \/ i.opcode \in ImmOps \cup {"LUI"} \cup Loads \cup Stores
        BY ControlCases
      <3>4. ASSUME NEW c, c.reg_write = 1
            PROVE  /\ c # NoControl("SPECIAL") /\ c # Jump("SPECIAL") /\ c # Jump("J")
                   /\ c # [Branch("REGIMM") EXCEPT !.alu_src = 1] /\ c # Branch(i.opcode)
        <4>1. c # NoControl("SPECIAL") /\ c # Jump("SPECIAL") /\ c # Jump("J") /\ c # Branch(i.opcode)
          BY <3>4 DEF NoControl, Jump, Branch
        <4>2. c # [Branch("REGIMM") EXCEPT !.alu_src = 1]
          <5> DEFINE b == [Branch("REGIMM") EXCEPT !.alu_src = 1]
          <5>1. b.reg_write = 0
            BY DEF NoControl, Branch
          <5> HIDE DEF b
          <5>2. c # b
            BY <3>4, <5>1
          <5> QED BY <5>2 DEF b
        <4> QED BY <4>1, <4>2
      <3>5. /\ e.ctl # NoControl("SPECIAL") /\ e.ctl # Jump("SPECIAL") /\ e.ctl # Jump("J")
            /\ e.ctl # [Branch("REGIMM") EXCEPT !.alu_src = 1] /\ e.ctl # Branch(i.opcode)
        BY <3>1, <3>4
      <3> QED BY <3>2, <3>3, <3>5 DEF Links
    <2> QED BY <1>2, <2>3, SameResult
  <1>6. ASSUME m.mwrite = 1
        PROVE  m.alu_result = AluResult(e, 0) /\ m.storeValue = StoreValue(e, 0)
    <2>1. i.opcode \in Stores
      BY <1>1, <1>2, <1>4, <1>6 DEF Bool
    <2>2. m.alu_result = AluResult(e, 0)
      BY <1>2, <2>1, SameResult
    <2>3. d.ctl.mwrite = 1 => StoreValue(d, old.storeValue) = StoreValue(e, 0)
      BY SameAccess
    <2> QED BY <1>2, <1>6, <2>2, <2>3
  <1>9. (HI \in Writes(i) => HiAfter(d).index = 1) /\ (LO \in Writes(i) => LoAfter(d).index = 1)
    <2>1. CASE Special(i, MulDiv \cup {"MTHI", "MTLO"})
      <3>1. d.ctl.alu_op = "SPECIAL" /\ OperandB(d) = d.rt.value
        <4>1. Special(i, Computing)
          BY <2>1 DEF Special, Computing, MoveTo
        <4> QED BY <1>1, <1>3, <4>1 DEF OperandB
      <3>2. d.ir.funct \in {"DIV", "DIVU"} => OperandB(d) # 0
        BY <1>1, <2>1, <3>1 DEF Special
      <3>3. HI \in Writes(i) => d.ir.funct \in MulDiv \/ d.ir.funct = "MTHI"
        BY <1>1, HiLoWriters DEF Special
      <3>4. LO \in Writes(i) => d.ir.funct \in MulDiv \/ d.ir.funct = "MTLO"
        BY <1>1, HiLoWriters DEF Special
      <3> QED BY <3>1, <3>2, <3>3, <3>4, Marks
    <2>2. CASE ~ Special(i, MulDiv \cup {"MTHI", "MTLO"})
      BY <2>2, HiLoWriters DEF Special
    <2> QED BY <2>1, <2>2
  <1>7. Holding(m, e)
    <2>1. /\ HiAfter(d).index = HiAfter(e).index
          /\ LoAfter(d).index = LoAfter(e).index
          /\ HiAfter(d).index = 1 => HiAfter(d) = HiAfter(e)
          /\ LoAfter(d).index = 1 => LoAfter(d) = LoAfter(e)
      BY SameHiLo
    <2> QED BY <1>1, <1>2, <1>5, <1>9, <2>1 DEF Holding
  <1>8. HoldingAccess(m, e)
    <2>1. d.ctl.mread = 1 => /\ LoadSize(d, old.loadSize) = LoadSize(e, 0)
                             /\ IsLoadSigned(d, old.isLoadSigned) = IsLoadSigned(e, 0)
      BY SameAccess
    <2> QED BY <1>1, <1>2, <1>6, <2>1 DEF HoldingAccess
  <1> QED BY <1>7, <1>8 DEF m

----------------------------------------------------------------------------
(* What is pending in MEM/WB and EX/MEM                                    *)

\* Types of the history variables.
LEMMA HeldTypes ==
  ASSUME SlotTypes
  PROVE  /\ slot.id \in BOOLEAN
         /\ slot.ex.ir \in Instr /\ slot.mem.ir \in Instr /\ slot.wb.ir \in Instr
         /\ slot.ex.pc \in Word /\ slot.mem.pc \in Word /\ slot.wb.pc \in Word
         /\ slot.ex.real \in BOOLEAN /\ slot.mem.real \in BOOLEAN /\ slot.wb.real \in BOOLEAN
         /\ slot.ex.fwd \in Bit /\ slot.mem.fwd \in Bit /\ slot.wb.fwd \in Bit
         /\ DOMAIN slot = {"id", "ex", "mem", "wb"}
  <1> DEFINE Held == [ir : Instr, pc : Word, real : BOOLEAN, fwd : Bit]
  <1>1. slot \in [id : BOOLEAN, ex : Held, mem : Held, wb : Held]
    BY DEF SlotTypes
  <1>2. ASSUME NEW s \in Held PROVE s.ir \in Instr /\ s.pc \in Word /\ s.fwd \in Bit
    BY <1>2
  <1>3. ASSUME NEW s \in Held PROVE s.real \in BOOLEAN
    BY <1>3, Zenon
  <1> HIDE DEF Held
  <1>4. slot.ex \in Held /\ slot.mem \in Held /\ slot.wb \in Held /\ DOMAIN slot = {"id", "ex", "mem", "wb"}
    BY <1>1
  <1>5. slot.id \in BOOLEAN
    BY <1>1, Zenon
  <1> QED BY <1>2, <1>3, <1>4, <1>5

\* A read of the data memory is a word.
LEMMA GranuleReadType ==
  ASSUME TypeOK, NEW a \in Word PROVE ReadGranule(dram, a) \in Word
  <1>1. a \div 8 \in Nat /\ ChipId(a) \in Nat
    BY WordIsInt DEF ChipId
  <1>2. GranuleOf(a) \in Granule
    BY <1>1, GranuleAssumption DEF GranuleOf, Granule
  <1>3. dram[GranuleOf(a)] \in Word
    BY <1>2 DEF TypeOK
  <1>4. ShiftOf(a) \in 0 .. BITS
    <2>1. ASSUME NEW p \in Nat, NEW q \in Nat PROVE p * q \in Nat
      OBVIOUS
    <2>2. B * ChipId(a) \in Nat
      BY <1>1, <2>1, ByteAssumption
    <2> QED BY <2>2, WordsPositive DEF ShiftOf
  <1> QED BY <1>3, <1>4, ShiftTypes DEF ReadGranule

\* The pending registers are words.
LEMMA PendingTypes ==
  ASSUME TypeOK, LatchInv
  PROVE  /\ RegsW \in [Reg -> Word] /\ HiW \in Word /\ LoW \in Word
         /\ RegsM \in [Reg -> Word] /\ HiM \in Word /\ LoM \in Word
         /\ MemoryValue \in Word /\ WriteBackValue \in Word
  <1>1. /\ ex_mem.alu_result \in Word /\ mem_wb.alu_result \in Word /\ mem_wb.memory_data \in Word
        /\ ex_mem.hi.value \in Word /\ ex_mem.lo.value \in Word /\ ex_mem.isLoadSigned \in Bit
        /\ mem_wb.hi.value \in Word /\ mem_wb.lo.value \in Word
        /\ REGS \in [Reg -> Word] /\ hi \in Word /\ lo \in Word
    BY DEF TypeOK, ExMem, MemWb, HiLoLatch
  <1>2. WriteBackValue \in Word
    BY <1>1 DEF WriteBackValue
  <1>3. MemoryValue \in Word
    <2>1. CASE ex_mem.mem_to_rg = 1
      <3>1. ex_mem.loadSize \in Sizes
        BY <2>1 DEF LatchInv
      <3>2. ReadGranule(dram, ex_mem.alu_result) \in Word
        BY <1>1, GranuleReadType DEF TypeOK
      <3> QED BY <1>1, <2>1, <3>1, <3>2, LoadedValueType DEF MemoryValue
    <2>2. CASE ex_mem.mem_to_rg # 1
      BY <1>1, <2>2 DEF MemoryValue
    <2> QED BY <2>1, <2>2
  <1>4. ASSUME NEW m, NEW v \in Word, NEW rf \in [Reg -> Word] PROVE RegsBy(m, v, rf) \in [Reg -> Word]
    BY DEF RegsBy
  <1>5. /\ RegsW \in [Reg -> Word] /\ HiW \in Word /\ LoW \in Word
    BY <1>1, <1>2, <1>4 DEF RegsW, HiW, LoW, HiBy, LoBy
  <1>6. /\ RegsM \in [Reg -> Word] /\ HiM \in Word /\ LoM \in Word
    BY <1>1, <1>3, <1>4, <1>5 DEF RegsM, HiM, LoM, HiBy, LoBy
  <1> QED BY <1>2, <1>3, <1>5, <1>6

\* A register that the instructions in MEM/WB and EX/MEM do not write keeps
\* its value.
LEMMA Untouched ==
  ASSUME Slots
  PROVE  /\ \A r \in Reg : r \notin Writes(slot.wb.ir) => RegsW[r] = REGS[r]
         /\ \A r \in Reg : r \notin Writes(slot.mem.ir) => RegsM[r] = RegsW[r]
         /\ HI \notin Writes(slot.wb.ir) => HiW = hi
         /\ LO \notin Writes(slot.wb.ir) => LoW = lo
         /\ HI \notin Writes(slot.mem.ir) => HiM = HiW
         /\ LO \notin Writes(slot.mem.ir) => LoM = LoW
  <1>1. ASSUME NEW m, NEW i, Releases(m, i), NEW v, NEW rf, NEW h, NEW l
        PROVE  /\ \A r \in Reg : r \notin Writes(i) => RegsBy(m, v, rf)[r] = rf[r]
               /\ HI \notin Writes(i) => HiBy(m, h) = h
               /\ LO \notin Writes(i) => LoBy(m, l) = l
    <2>1. GoesToReg(m) => m.write_register \in Writes(i)
      BY <1>1 DEF GoesToReg, Releases
    <2>2. \A r \in Reg : r \notin Writes(i) => RegsBy(m, v, rf)[r] = rf[r]
      BY <2>1 DEF RegsBy
    <2>3. HI \notin Writes(i) => HiBy(m, h) = h
      BY <1>1 DEF HiBy, Releases
    <2>4. LO \notin Writes(i) => LoBy(m, l) = l
      BY <1>1 DEF LoBy, Releases
    <2> QED BY <2>2, <2>3, <2>4
  <1>2. Releases(mem_wb, slot.wb.ir) /\ Releases(ex_mem, slot.mem.ir)
    BY DEF Slots
  <1>3. /\ \A r \in Reg : r \notin Writes(slot.wb.ir) => RegsBy(mem_wb, WriteBackValue, REGS)[r] = REGS[r]
        /\ HI \notin Writes(slot.wb.ir) => HiBy(mem_wb, hi) = hi
        /\ LO \notin Writes(slot.wb.ir) => LoBy(mem_wb, lo) = lo
    <2>1. ASSUME NEW r \in Reg, r \notin Writes(slot.wb.ir)
          PROVE  RegsBy(mem_wb, WriteBackValue, REGS)[r] = REGS[r]
      BY <1>1, <1>2, <2>1
    <2>2. HI \notin Writes(slot.wb.ir) => HiBy(mem_wb, hi) = hi
      BY <1>1, <1>2
    <2>3. LO \notin Writes(slot.wb.ir) => LoBy(mem_wb, lo) = lo
      BY <1>1, <1>2
    <2> QED BY <2>1, <2>2, <2>3
  <1>4. /\ \A r \in Reg : r \notin Writes(slot.mem.ir) => RegsBy(ex_mem, MemoryValue, RegsW)[r] = RegsW[r]
        /\ HI \notin Writes(slot.mem.ir) => HiBy(ex_mem, HiW) = HiW
        /\ LO \notin Writes(slot.mem.ir) => LoBy(ex_mem, LoW) = LoW
    BY <1>1, <1>2
  <1>5. /\ \A r \in Reg : r \notin Writes(slot.wb.ir) => RegsW[r] = REGS[r]
        /\ HI \notin Writes(slot.wb.ir) => HiW = hi
        /\ LO \notin Writes(slot.wb.ir) => LoW = lo
    BY <1>3 DEF RegsW, HiW, LoW
  <1>6. /\ \A r \in Reg : r \notin Writes(slot.mem.ir) => RegsM[r] = RegsW[r]
        /\ HI \notin Writes(slot.mem.ir) => HiM = HiW
        /\ LO \notin Writes(slot.mem.ir) => LoM = LoW
    BY <1>4 DEF RegsM, HiM, LoM
  <1> QED BY <1>5, <1>6

\* The latch behind execute of an instruction that writes a register goes there.
LEMMA Produced ==
  ASSUME NEW i \in Instr, Known(i), NEW e, e.ir = i, e.ctl = ControlOf(i, e.ctl), DestinationOf(e) = Names(i),
         NEW m, Holding(m, e)
  PROVE  /\ \A r \in Reg : r \in Writes(i) => /\ GoesToReg(m) /\ m.write_register = r
                                              /\ m.alu_result = AluResult(e, 0)
         /\ HI \in Writes(i) => \A h : HiBy(m, h) = m.hi.value
         /\ LO \in Writes(i) => \A l : LoBy(m, l) = m.lo.value
  <1>1. /\ m.reg_write = e.ctl.reg_write /\ m.mem_to_rg = e.ctl.mem_to_rg
        /\ m.write_register = Names(i)
        /\ m.hi.index = HiAfter(e).index /\ m.lo.index = LoAfter(e).index
        /\ (HI \in Writes(i) => m.hi.index = 1) /\ (LO \in Writes(i) => m.lo.index = 1)
        /\ GoesToReg(m) => m.alu_result = AluResult(e, 0)
    BY DEF Holding
  <1>2. /\ e.ctl.reg_write \in Bit
        /\ e.ctl.reg_write = 0 => Writes(i) = {}
        /\ e.ctl.reg_write = 1 => Writes(i) = IF Special(i, MulDiv) THEN {HI, LO} ELSE {Names(i)}
        /\ e.ctl.alu_op = "SPECIAL" /\ e.ctl.reg_write = 1 <=> Special(i, Computing)
        /\ Names(i) = IF Special(i, {"MTHI"}) THEN HI ELSE IF Special(i, {"MTLO"}) THEN LO
                      ELSE IF i.opcode = "JAL" \/ Regimm(i, LinkBranch) THEN R_RA
                      ELSE IF e.ctl.reg_dst = 1 THEN i.rd ELSE i.rt
        /\ e.ctl.mem_to_rg = Bool(i.opcode \in Loads)
    BY WritesCases, SteeringFields
  <1>3. HI \notin Reg /\ LO \notin Reg
    BY RegisterAssumption DEF HI, LO, Reg
  <1>4. Writes(i) # {} => e.ctl.reg_write = 1
    BY <1>2 DEF Bit
  <1>5. ASSUME NEW r \in Reg, r \in Writes(i)
        PROVE  GoesToReg(m) /\ m.write_register = r
    <2>1. e.ctl.reg_write = 1 /\ Names(i) = r /\ ~ Special(i, MulDiv)
      BY <1>2, <1>3, <1>4, <1>5
    <2>2. ~ Special(i, {"MTHI"}) /\ ~ Special(i, {"MTLO"})
      BY <1>2, <1>3, <2>1
    <2>3. HiAfter(e).index # 1 /\ LoAfter(e).index # 1
      <3>1. CASE e.ctl.alu_op = "SPECIAL"
        <4>1. i.opcode = "SPECIAL"
          BY <1>2, <2>1, <3>1 DEF Special
        <4>2. i.funct \notin MulDiv \cup {"MTHI"} /\ i.funct \notin MulDiv \cup {"MTLO"}
          BY <2>1, <2>2, <4>1 DEF Special
        <4> QED BY <3>1, <4>2, Marks
      <3>2. CASE e.ctl.alu_op # "SPECIAL"
        BY <3>2, Unmarked
      <3> QED BY <3>1, <3>2
    <2> QED BY <1>1, <2>1, <2>3 DEF GoesToReg
  <1>6. ASSUME HI \in Writes(i) \/ LO \in Writes(i) PROVE m.reg_write = 1 /\ m.mem_to_rg = 0
    <2>1. i.opcode \notin Loads
      BY <1>6, HiLoWriters DEF Special, Loads
    <2> QED BY <1>1, <1>2, <1>4, <1>6, <2>1 DEF Bool
  <1>7. HI \in Writes(i) => \A h : HiBy(m, h) = m.hi.value
    BY <1>1, <1>6 DEF HiBy
  <1>8. LO \in Writes(i) => \A l : LoBy(m, l) = m.lo.value
    BY <1>1, <1>6 DEF LoBy
  <1> QED BY <1>1, <1>5, <1>7, <1>8

----------------------------------------------------------------------------
(* Register 0                                                              *)

\* The only instruction with a claim on register 0 that is not an idiom
\* leaves the value it finds there.
LEMMA ZeroResult ==
  ASSUME NEW i \in Instr, Known(i), 0 \in Writes(i), ~ WritesRegisterZero(i),
         NEW p \in Word, NEW rf \in [Reg -> Word], NEW h \in Word, NEW l \in Word
  PROVE  AluResult(LatchOf(i, p, rf, h, l), 0) = rf[0] /\ i.opcode = "SPECIAL"
  <1> DEFINE e == LatchOf(i, p, rf, h, l)
  <1>1. i.opcode = "SPECIAL" /\ i.funct = "SLL" /\ i.rt = 0 /\ i.sa = 0
    BY DEF WritesRegisterZero, Special
  <1>2. e.ir = i /\ e.ctl = ControlOf(i, NoControl("NONE"))
        /\ e.rt.value = IF Links(i) THEN p ELSE rf[i.rt]
    BY LatchFields
  <1> HIDE DEF e
  <1>3. ~ Links(i)
    BY <1>1 DEF Links, Special
  <1>4. e.ctl.alu_op = "SPECIAL" /\ e.ctl.alu_src = 0
    <2>1. /\ e.ctl.alu_op = IF Links(i) THEN "LB" ELSE i.opcode
          /\ e.ctl.alu_src = Bool(i.opcode \in {"REGIMM", "LUI"} \cup ImmOps \cup Loads)
      BY <1>2, SteeringFields
    <2> QED BY <1>1, <1>3, <2>1 DEF Bool, ImmOps, Loads
  <1>5. OperandB(e) = rf[0]
    BY <1>1, <1>2, <1>3, <1>4 DEF OperandB
  <1>6. SpecialResult(e, OperandA(e), rf[0], 0) = ShiftLeft(rf[0], 0)
    BY <1>1, <1>2 DEF SpecialResult
  <1>7. rf[0] \in Word
    BY RegisterAssumption DEF Reg
  <1>8. ShiftLeft(rf[0], 0) = rf[0]
    <2>1. rf[0] * 2 ^ 0 = rf[0]
      <3>1. 2 ^ 0 = 1
        BY PowerAssumption
      <3>2. rf[0] * 1 = rf[0]
        BY <1>7, WordIsInt
      <3> QED BY <3>1, <3>2
    <2> QED BY <1>7, <2>1, U32Word DEF ShiftLeft
  <1>9. AluResult(e, 0) = rf[0]
    BY <1>4, <1>5, <1>6, <1>8 DEF AluResult
  <1> QED BY <1>1, <1>9 DEF e

\* What is in flight leaves register 0 as it is.
LEMMA ZeroWritten ==
  ASSUME NEW s, s.ir \in Instr, s.pc \in Word, s.real \in BOOLEAN, Origin(s), NEW m, Releases(m, s.ir), NEW v,
         NEW rf \in [Reg -> Word], NEW h \in Word, NEW l \in Word, rf[0] = REGS[0],
         m.mem_to_rg # 1 => v = m.alu_result,
         s.real => Holding(m, LatchOf(s.ir, s.pc, rf, h, l)),
         ~ s.real => Harmless(m)
  PROVE  RegsBy(m, v, rf)[0] = rf[0]
  <1> SUFFICES ASSUME GoesToReg(m), m.write_register = 0 PROVE v = rf[0]
    BY DEF RegsBy
  <1>1. CASE s.real
    <2> DEFINE e == LatchOf(s.ir, s.pc, rf, h, l)
    <2>1. 0 \in Writes(s.ir)
      BY DEF GoesToReg, Releases
    <2>2. Known(s.ir) /\ ~ WritesRegisterZero(s.ir)
      BY <2>1 DEF Origin
    <2>3. AluResult(e, 0) = rf[0] /\ s.ir.opcode = "SPECIAL"
      BY <2>1, <2>2, ZeroResult
    <2>4. e.ctl = ControlOf(s.ir, NoControl("NONE"))
      BY <2>2, LatchFields
    <2> HIDE DEF e
    <2>5. e.ctl.mem_to_rg = 0
      <3>1. e.ctl.mem_to_rg = Bool(s.ir.opcode \in Loads)
        BY <2>2, <2>4, SteeringFields
      <3> QED BY <2>3, <3>1 DEF Bool, Loads
    <2>6. Holding(m, e)
      BY <1>1 DEF e
    <2>7. m.mem_to_rg = 0 /\ m.alu_result = rf[0]
      BY <2>3, <2>5, <2>6 DEF Holding
    <2> QED BY <2>7
  <1>2. CASE ~ s.real
    <2>1. Harmless(m) /\ m.reg_write = 1
      BY <1>2 DEF GoesToReg
    <2>2. m.mem_to_rg = 0 /\ m.alu_result = REGS[0]
      BY <2>1 DEF Harmless
    <2> QED BY <2>2
  <1> QED BY <1>1, <1>2

\* Register 0 keeps its value whatever is pending.
LEMMA ZeroKept ==
  ASSUME TypeOK, LatchInv, SlotTypes, Slots, Origins, Results
  PROVE  RegsW[0] = REGS[0] /\ RegsM[0] = REGS[0]
  <1>1. /\ RegsW \in [Reg -> Word] /\ HiW \in Word /\ LoW \in Word
        /\ REGS \in [Reg -> Word] /\ hi \in Word /\ lo \in Word
    BY PendingTypes DEF TypeOK
  <1>2. /\ slot.mem.ir \in Instr /\ slot.mem.pc \in Word /\ slot.mem.real \in BOOLEAN
        /\ slot.wb.ir \in Instr /\ slot.wb.pc \in Word /\ slot.wb.real \in BOOLEAN
    BY HeldTypes
  <1>3. Releases(mem_wb, slot.wb.ir) /\ Releases(ex_mem, slot.mem.ir)
    BY DEF Slots
  <1>4. writeback_status = 1 => RegsBy(mem_wb, WriteBackValue, REGS)[0] = REGS[0]
    <2> SUFFICES ASSUME writeback_status = 1 PROVE RegsBy(mem_wb, WriteBackValue, REGS)[0] = REGS[0]
      OBVIOUS
    <2>1. Origin(slot.wb)
      BY DEF Origins
    <2>2. slot.wb.real => Holding(mem_wb, LatchOf(slot.wb.ir, slot.wb.pc, REGS, hi, lo))
      BY DEF Results, WbLatch
    <2>3. ~ slot.wb.real => Harmless(mem_wb)
      BY DEF Results
    <2>4. mem_wb.mem_to_rg # 1 => WriteBackValue = mem_wb.alu_result
      BY DEF WriteBackValue
    <2> QED BY <1>1, <1>2, <1>3, <2>1, <2>2, <2>3, <2>4, ZeroWritten
  <1>5. RegsW[0] = REGS[0]
    BY <1>4 DEF RegsW
  <1>6. memory_status = 1 => RegsBy(ex_mem, MemoryValue, RegsW)[0] = RegsW[0]
    <2> SUFFICES ASSUME memory_status = 1 PROVE RegsBy(ex_mem, MemoryValue, RegsW)[0] = RegsW[0]
      OBVIOUS
    <2>1. Origin(slot.mem)
      BY DEF Origins
    <2>2. slot.mem.real => Holding(ex_mem, LatchOf(slot.mem.ir, slot.mem.pc, RegsW, HiW, LoW))
      BY DEF Results, MemLatch
    <2>3. ~ slot.mem.real => Harmless(ex_mem)
      BY DEF Results
    <2>4. ex_mem.mem_to_rg # 1 => MemoryValue = ex_mem.alu_result
      BY DEF MemoryValue
    <2> QED BY <1>1, <1>2, <1>3, <1>5, <2>1, <2>2, <2>3, <2>4, ZeroWritten
  <1> QED BY <1>5, <1>6 DEF RegsM

\* HI and LO results are not loaded and reach write_back.
LEMMA HiLoControl ==
  ASSUME NEW i \in Instr, Known(i), NEW old, HI \in Writes(i) \/ LO \in Writes(i)
  PROVE  /\ ControlOf(i, old).reg_write = 1 /\ ControlOf(i, old).mem_to_rg = 0
         /\ i.opcode = "SPECIAL"
  <1> DEFINE c == ControlOf(i, old)
  <1>1. c.reg_write \in Bit /\ (c.reg_write = 0 => Writes(i) = {})
    BY WritesCases
  <1>2. c.mem_to_rg = Bool(i.opcode \in Loads)
    BY SteeringFields
  <1> HIDE DEF c
  <1>3. i.opcode = "SPECIAL" /\ i.opcode \notin Loads
    BY HiLoWriters DEF Special, Loads
  <1>4. c.reg_write = 1
    BY <1>1 DEF Bit
  <1> QED BY <1>2, <1>3, <1>4 DEF c, Bool

----------------------------------------------------------------------------
(* The operands decode hands on                                            *)

\* The operand in register n, as far as it was bypassed.
Taken(i, n, value) == IF DependencyAfter(i) = 1 THEN Bypass(n, value) ELSE value

\* The fields of what decode hands on, in terms of the registers and the bypass.
LEMMA DecodedFields ==
  ASSUME TypeOK, Silent(id_ex.ctl), Known(if_id.ir)
  PROVE  LET i == if_id.ir
         IN /\ Decoded.ir = i /\ Decoded.pc = if_id.pc /\ Decoded.ctl = ControlOf(i, NoControl("NONE"))
            /\ DestinationOf(Decoded) = Names(i)
            /\ Decoded.hi = IF DependencyAfter(i) = 1 THEN BypassHiLo(ex_mem.hi, mem_wb.hi, hi) ELSE hi
            /\ Decoded.lo = IF DependencyAfter(i) = 1 THEN BypassHiLo(ex_mem.lo, mem_wb.lo, lo) ELSE lo
            /\ Decoded.rs.value = IF Links(i) THEN U32(4) ELSE Taken(i, i.rs, REGS[i.rs])
            /\ ~ Regimm(i, LinkBranch) =>
                 Decoded.rt.value = IF Links(i) THEN if_id.pc ELSE Taken(i, i.rt, REGS[i.rt])
            /\ Decoded.ctl.jump = 1 =>
                 Decoded.jumpAddress =
                   IF Special(i, RegJumps)
                     THEN Taken(i, i.rs, IF Links(i) THEN U32(4) ELSE REGS[i.rs])
                     ELSE U32(4 * i.label)
            /\ Decoded.run_bit = 0 => Special(i, {"SYSCALL"})
  <1> DEFINE i == if_id.ir
             s0 == setup_registers
             d == SetupControlSignals(s0)
             f == IF DependencyAfter(i) = 1 THEN Forwarded(d) ELSE d
             s == IF HaltingSyscall(i) THEN [f EXCEPT !.run_bit = 0] ELSE f
             c == ControlOf(i, NoControl("NONE"))
             A == IF Links(i) THEN U32(4) ELSE REGS[i.rs]
             C == IF Links(i) THEN if_id.pc ELSE REGS[i.rt]
  <1>1. i \in Instr /\ if_id.pc \in Word /\ id_ex \in IdEx
    BY DEF TypeOK
  <1>2. /\ s0 \in IdEx /\ s0.ctl = id_ex.ctl /\ s0.ir = i
        /\ s0.rs.index = i.rs /\ s0.rs.value = REGS[i.rs] /\ s0.rt.index = i.rt /\ s0.rt.value = REGS[i.rt]
        /\ s0.hi = hi /\ s0.lo = lo /\ s0.pc = if_id.pc /\ RdSound(s0)
    <2>1. s0 \in IdEx /\ s0.ctl = id_ex.ctl /\ s0.ir = i /\ RdSound(s0)
      BY SetupRegistersSound
    <2>2. /\ s0.rs.index = i.rs /\ s0.rs.value = REGS[i.rs] /\ s0.rt.index = i.rt /\ s0.rt.value = REGS[i.rt]
          /\ s0.hi = hi /\ s0.lo = lo /\ s0.pc = if_id.pc
      BY <1>1 DEF setup_registers, IdEx
    <2> QED BY <2>1, <2>2
  <1> HIDE DEF s0
  <1>3. /\ d \in IdEx /\ d.ir = i /\ d.ctl = ControlOf(i, id_ex.ctl) /\ d.pc = if_id.pc
        /\ d.hi = hi /\ d.lo = lo /\ d.run_bit = 1 /\ d.rs.index = i.rs
        /\ ~ Regimm(i, LinkBranch) => d.rt.index = i.rt
        /\ d.rs.value = A /\ d.rt.value = C
    <2>1. d \in IdEx /\ d.ctl = ControlOf(s0.ir, s0.ctl) /\ d.ir = s0.ir
      BY <1>2, SetupType
    <2>2. /\ d.pc = s0.pc /\ d.hi = s0.hi /\ d.lo = s0.lo /\ d.run_bit = 1 /\ d.rs.index = s0.rs.index
          /\ d.rs.value = IF Links(s0.ir) THEN U32(4) ELSE s0.rs.value
          /\ d.rt.value = IF Links(s0.ir) THEN s0.pc ELSE s0.rt.value
      BY <1>2, SetupFields
    <2>3. d.rt.index = IF Regimm(s0.ir, LinkBranch) THEN R_RA ELSE s0.rt.index
      BY <1>2, SetupDestination
    <2> QED BY <1>2, <2>1, <2>2, <2>3
  <1> HIDE DEF d
  <1>4. /\ f \in IdEx /\ f.ir = i /\ f.ctl = d.ctl /\ f.pc = if_id.pc /\ f.run_bit = 1
        /\ f.hi = IF DependencyAfter(i) = 1 THEN BypassHiLo(ex_mem.hi, mem_wb.hi, hi) ELSE hi
        /\ f.lo = IF DependencyAfter(i) = 1 THEN BypassHiLo(ex_mem.lo, mem_wb.lo, lo) ELSE lo
        /\ f.rs.value = Taken(i, i.rs, A)
        /\ ~ Regimm(i, LinkBranch) => f.rt.value = Taken(i, i.rt, C)
    <2>1. CASE DependencyAfter(i) = 1
      <3>1. Forwarded(d) \in IdEx /\ Forwarded(d).ctl = d.ctl /\ Forwarded(d).ir = d.ir
        BY <1>3, ForwardedSound
      <3>2. /\ Forwarded(d).pc = d.pc /\ Forwarded(d).run_bit = d.run_bit
            /\ Forwarded(d).hi = BypassHiLo(ex_mem.hi, mem_wb.hi, d.hi)
            /\ Forwarded(d).lo = BypassHiLo(ex_mem.lo, mem_wb.lo, d.lo)
            /\ Forwarded(d).rs.value = Bypass(d.rs.index, d.rs.value)
            /\ Forwarded(d).rt.value = Bypass(d.rt.index, d.rt.value)
        BY <1>3 DEF Forwarded, IdEx
      <3>3. f = Forwarded(d)
        BY <2>1
      <3> HIDE DEF f
      <3> QED BY <1>3, <2>1, <3>1, <3>2, <3>3 DEF Taken
    <2>2. CASE DependencyAfter(i) # 1
      BY <1>3, <2>2 DEF Taken
    <2> QED BY <2>1, <2>2
  <1> HIDE DEF f
  <1>5. /\ s \in IdEx /\ s.ir = i /\ s.ctl = f.ctl /\ s.pc = f.pc /\ s.hi = f.hi /\ s.lo = f.lo
        /\ s.rs.value = f.rs.value /\ s.rt.value = f.rt.value
        /\ s.run_bit = 0 => Special(i, {"SYSCALL"})
    BY <1>4 DEF IdEx, HaltingSyscall, Bit
  <1> HIDE DEF s
  <1>6. /\ Decoded.ir = i /\ DestinationOf(Decoded) = Names(i)
        /\ \E old : Decoded.ctl = ControlOf(i, old)
    BY DecodedNames
  <1>7. Decoded.ctl = c /\ d.ctl = c
    BY <1>1, <1>3, <1>6, ControlFixed
  <1>8. Decoded = IF s.ctl.jump = 1 THEN SetupControlSignals(s) ELSE s
    BY DEF Decoded, s, f, d, s0
  <1>9. CASE s.ctl.jump = 1
    <2> DEFINE t == SetupControlSignals(s)
    <2>1. /\ t.pc = s.pc /\ t.hi = s.hi /\ t.lo = s.lo /\ t.run_bit = 1
          /\ t.rs.value = IF Links(s.ir) THEN U32(4) ELSE s.rs.value
          /\ t.rt.value = IF Links(s.ir) THEN s.pc ELSE s.rt.value
          /\ t.jumpAddress = IF Special(s.ir, RegJumps) THEN s.rs.value
                             ELSE IF s.ir.opcode \in {"J", "JAL"} THEN U32(4 * s.ir.label)
                             ELSE s.jumpAddress
      BY <1>5, SetupFields
    <2>2. Decoded = t
      BY <1>8, <1>9
    <2> HIDE DEF t
    <2>3. Special(i, RegJumps) \/ i.opcode \in {"J", "JAL"}
      <3>1. c.jump = Bool(i.opcode \in {"J", "JAL"} \/ Special(i, RegJumps))
        BY <1>1, SteeringFields
      <3> QED BY <1>4, <1>5, <1>7, <1>9, <3>1 DEF Bool
    <2>4. ~ Links(i) => Taken(i, i.rs, A) = Taken(i, i.rs, REGS[i.rs]) /\ Taken(i, i.rt, C) = Taken(i, i.rt, REGS[i.rt])
      OBVIOUS
    <2>5. /\ Decoded.pc = if_id.pc /\ Decoded.hi = f.hi /\ Decoded.lo = f.lo /\ Decoded.run_bit = 1
          /\ Decoded.rs.value = IF Links(i) THEN U32(4) ELSE f.rs.value
          /\ Decoded.rt.value = IF Links(i) THEN if_id.pc ELSE f.rt.value
          /\ Decoded.jumpAddress = IF Special(i, RegJumps) THEN f.rs.value ELSE U32(4 * i.label)
      BY <1>4, <1>5, <2>1, <2>2, <2>3
    <2> QED BY <1>4, <1>6, <1>7, <2>4, <2>5
  <1>10. CASE s.ctl.jump # 1
    <2>1. Decoded = s
      BY <1>8, <1>10
    <2>2. ~ Links(i)
      <3>1. c.jump = Bool(i.opcode \in {"J", "JAL"} \/ Special(i, RegJumps))
        BY <1>1, SteeringFields
      <3> QED BY <1>4, <1>5, <1>7, <1>10, <3>1 DEF Bool, Links, RegJumps, Special
    <2>3. /\ Decoded.pc = if_id.pc /\ Decoded.hi = f.hi /\ Decoded.lo = f.lo
          /\ Decoded.rs.value = f.rs.value /\ Decoded.rt.value = f.rt.value /\ Decoded.ctl.jump # 1
          /\ Decoded.run_bit = 0 => Special(i, {"SYSCALL"})
      BY <1>4, <1>5, <1>10, <2>1
    <2> QED BY <1>4, <1>6, <1>7, <2>2, <2>3
  <1> QED BY <1>9, <1>10

\* The machine runs a program that has kept clear of the idioms.
Running == IInv /\ BoardInv /\ RetireInv /\ Live /\ hazard = {} /\ RUN_BIT = 1

\* The parts of the invariants, by name.
LEMMA RunningParts ==
  ASSUME Running
  PROVE  /\ TypeOK /\ LatchInv /\ StallDiscipline /\ LoadProgress
         /\ SlotTypes /\ Due /\ Slots /\ Marked /\ Apart /\ Shadow
         /\ FrontEnd /\ Origins /\ Empties /\ Results /\ Order /\ Neighbours /\ HiLoOwned
  BY DEF Running, IInv, BoardInv, RetireInv, Ordered

\* What the latch of an instruction computes with names what it names.
LEMMA LatchesFit ==
  ASSUME Running
  PROVE  /\ Known(slot.wb.ir) => /\ WbLatch.ir = slot.wb.ir /\ DestinationOf(WbLatch) = Names(slot.wb.ir)
                                 /\ WbLatch.ctl = ControlOf(slot.wb.ir, WbLatch.ctl)
         /\ Known(slot.mem.ir) => /\ MemLatch.ir = slot.mem.ir /\ DestinationOf(MemLatch) = Names(slot.mem.ir)
                                  /\ MemLatch.ctl = ControlOf(slot.mem.ir, MemLatch.ctl)
         /\ Known(slot.ex.ir) => /\ ExLatch.ir = slot.ex.ir /\ DestinationOf(ExLatch) = Names(slot.ex.ir)
                                 /\ ExLatch.ctl = ControlOf(slot.ex.ir, ExLatch.ctl)
  <1>1. /\ RegsW \in [Reg -> Word] /\ HiW \in Word /\ LoW \in Word
        /\ RegsM \in [Reg -> Word] /\ HiM \in Word /\ LoM \in Word
        /\ REGS \in [Reg -> Word] /\ hi \in Word /\ lo \in Word
    BY RunningParts, PendingTypes DEF TypeOK
  <1>2. /\ slot.ex.ir \in Instr /\ slot.mem.ir \in Instr /\ slot.wb.ir \in Instr
        /\ slot.ex.pc \in Word /\ slot.mem.pc \in Word /\ slot.wb.pc \in Word
    BY RunningParts, HeldTypes
  <1>4. ASSUME Known(slot.wb.ir)
        PROVE  /\ WbLatch.ir = slot.wb.ir /\ DestinationOf(WbLatch) = Names(slot.wb.ir)
               /\ WbLatch.ctl = ControlOf(slot.wb.ir, WbLatch.ctl)
    <2> DEFINE e == LatchOf(slot.wb.ir, slot.wb.pc, REGS, hi, lo)
    <2>1. slot.wb.ir \in Instr /\ slot.wb.pc \in Word /\ REGS \in [Reg -> Word] /\ hi \in Word /\ lo \in Word
      BY <1>1, <1>2
    <2>2. e.ir = slot.wb.ir /\ DestinationOf(e) = Names(slot.wb.ir)
          /\ e.ctl = ControlOf(slot.wb.ir, NoControl("NONE"))
      BY <1>4, <2>1, LatchFields
    <2>3. e.ctl = ControlOf(slot.wb.ir, e.ctl)
      BY <1>4, <2>1, <2>2, ControlFixed
    <2> QED BY <2>2, <2>3 DEF WbLatch
  <1>5. ASSUME Known(slot.mem.ir)
        PROVE  /\ MemLatch.ir = slot.mem.ir /\ DestinationOf(MemLatch) = Names(slot.mem.ir)
               /\ MemLatch.ctl = ControlOf(slot.mem.ir, MemLatch.ctl)
    <2> DEFINE e == LatchOf(slot.mem.ir, slot.mem.pc, RegsW, HiW, LoW)
    <2>1. slot.mem.ir \in Instr /\ slot.mem.pc \in Word /\ RegsW \in [Reg -> Word] /\ HiW \in Word /\ LoW \in Word
      BY <1>1, <1>2
    <2>2. e.ir = slot.mem.ir /\ DestinationOf(e) = Names(slot.mem.ir)
          /\ e.ctl = ControlOf(slot.mem.ir, NoControl("NONE"))
      BY <1>5, <2>1, LatchFields
    <2>3. e.ctl = ControlOf(slot.mem.ir, e.ctl)
      BY <1>5, <2>1, <2>2, ControlFixed
    <2> QED BY <2>2, <2>3 DEF MemLatch
  <1>6. ASSUME Known(slot.ex.ir)
        PROVE  /\ ExLatch.ir = slot.ex.ir /\ DestinationOf(ExLatch) = Names(slot.ex.ir)
               /\ ExLatch.ctl = ControlOf(slot.ex.ir, ExLatch.ctl)
    <2> DEFINE e == LatchOf(slot.ex.ir, slot.ex.pc, RegsM, HiM, LoM)
    <2>1. slot.ex.ir \in Instr /\ slot.ex.pc \in Word /\ RegsM \in [Reg -> Word] /\ HiM \in Word /\ LoM \in Word
      BY <1>1, <1>2
    <2>2. e.ir = slot.ex.ir /\ DestinationOf(e) = Names(slot.ex.ir)
          /\ e.ctl = ControlOf(slot.ex.ir, NoControl("NONE"))
      BY <1>6, <2>1, LatchFields
    <2>3. e.ctl = ControlOf(slot.ex.ir, e.ctl)
      BY <1>6, <2>1, <2>2, ControlFixed
    <2> QED BY <2>2, <2>3 DEF ExLatch
  <1> QED BY <1>4, <1>5, <1>6

\* When decode runs, nothing in EX/MEM or MEM/WB is a load.
LEMMA NoLoadAhead ==
  ASSUME Running, stage = "decode", decode_status = 1, load = 0
  PROVE  /\ memory_status = 1 => ex_mem.mem_to_rg # 1
         /\ writeback_status = 1 => mem_wb.mem_to_rg # 1
  <1>1. LoadInterlock
    BY RunningParts DEF TypeOK, LoadProgress, StallDiscipline, LoadInterlock, Live, Stages, Bit
  <1>2. ex_mem.mem_to_rg = ex_mem.mread
    BY RunningParts DEF LatchInv
  <1> QED BY <1>1, <1>2 DEF LoadInterlock

\* A register the instruction in EX/MEM writes is busy, and its value is there.
LEMMA ComputedInExMem ==
  ASSUME Running, stage = "decode", decode_status = 1, load = 0, NEW r \in Writes(slot.mem.ir), r # 0
  PROVE  /\ memory_status = 1 /\ registerStatus[r] = 0
         /\ r \in Reg => ex_mem.write_register = r /\ RegsM[r] = ex_mem.alu_result
         /\ r = HI => HiM = ex_mem.hi.value
         /\ r = LO => LoM = ex_mem.lo.value
  <1>1. slot.mem.ir # Nop
    BY WritesIndices
  <1>2. memory_status = 1
    BY <1>1, RunningParts, WritesIndices DEF Empties, BeforeMemory, TypeOK, Bit
  <1>3. Known(slot.mem.ir) /\ slot.mem.real /\ slot.mem.ir \in Instr
    BY <1>1, <1>2, RunningParts, HeldTypes DEF Origins, Origin
  <1>4. Holding(ex_mem, MemLatch)
    BY <1>2, <1>3, RunningParts DEF Results
  <1>5. /\ MemLatch.ir = slot.mem.ir /\ DestinationOf(MemLatch) = Names(slot.mem.ir)
        /\ MemLatch.ctl = ControlOf(slot.mem.ir, MemLatch.ctl)
    BY <1>3, LatchesFit
  <1>6. /\ r \in Reg => GoesToReg(ex_mem) /\ ex_mem.write_register = r
        /\ r = HI => \A h : HiBy(ex_mem, h) = ex_mem.hi.value
        /\ r = LO => \A l : LoBy(ex_mem, l) = ex_mem.lo.value
    BY <1>3, <1>4, <1>5, Produced
  <1>7. ex_mem.mem_to_rg # 1
    BY <1>2, NoLoadAhead
  <1>8. registerStatus[r] = 0
    <2>1. slot.mem.ir.opcode \notin Loads
      <3>1. MemLatch.ctl.mem_to_rg = Bool(slot.mem.ir.opcode \in Loads)
        BY <1>3, <1>5, SteeringFields
      <3> QED BY <1>4, <1>7, <3>1 DEF Holding, Bool
    <2> QED BY <1>2, <2>1, RunningParts DEF Marked, Busy
  <1>9. r \in Reg => RegsM[r] = ex_mem.alu_result
    <2>1. RegsW \in [Reg -> Word]
      BY RunningParts, PendingTypes
    <2> QED BY <1>2, <1>6, <1>7, <2>1 DEF RegsM, RegsBy, MemoryValue
  <1> QED BY <1>2, <1>6, <1>8, <1>9 DEF HiM, LoM

\* The same of the instruction in MEM/WB.
LEMMA ComputedInMemWb ==
  ASSUME Running, stage = "decode", decode_status = 1, load = 0, NEW r \in Writes(slot.wb.ir), r # 0
  PROVE  /\ writeback_status = 1 /\ memory_status = 1 /\ registerStatus[r] = 0
         /\ r \in Reg => mem_wb.write_register = r /\ RegsW[r] = mem_wb.alu_result
         /\ r = HI => HiW = mem_wb.hi.value
         /\ r = LO => LoW = mem_wb.lo.value
  <1>1. slot.wb.ir # Nop
    BY WritesIndices
  <1>2. writeback_status = 1 /\ memory_status = 1
    BY <1>1, RunningParts, WritesIndices DEF Empties, BeforeWb, BeforeMemory, TypeOK, Bit
  <1>3. Known(slot.wb.ir) /\ slot.wb.real /\ slot.wb.ir \in Instr
    BY <1>1, <1>2, RunningParts, HeldTypes DEF Origins, Origin
  <1>4. Holding(mem_wb, WbLatch)
    BY <1>2, <1>3, RunningParts DEF Results
  <1>5. /\ WbLatch.ir = slot.wb.ir /\ DestinationOf(WbLatch) = Names(slot.wb.ir)
        /\ WbLatch.ctl = ControlOf(slot.wb.ir, WbLatch.ctl)
    BY <1>3, LatchesFit
  <1>6. /\ r \in Reg => GoesToReg(mem_wb) /\ mem_wb.write_register = r
        /\ r = HI => \A h : HiBy(mem_wb, h) = mem_wb.hi.value
        /\ r = LO => \A l : LoBy(mem_wb, l) = mem_wb.lo.value
    BY <1>3, <1>4, <1>5, Produced
  <1>7. mem_wb.mem_to_rg # 1
    BY <1>2, NoLoadAhead
  <1>8. registerStatus[r] = 0
    <2>1. slot.wb.ir.opcode \notin Loads
      <3>1. WbLatch.ctl.mem_to_rg = Bool(slot.wb.ir.opcode \in Loads)
        BY <1>3, <1>5, SteeringFields
      <3> QED BY <1>4, <1>7, <3>1 DEF Holding, Bool
    <2> QED BY <1>2, <2>1, RunningParts DEF Marked, Busy
  <1>9. r \in Reg => RegsW[r] = mem_wb.alu_result
    <2>1. REGS \in [Reg -> Word]
      BY RunningParts DEF TypeOK
    <2> QED BY <1>2, <1>6, <1>7, <2>1 DEF RegsW, RegsBy, WriteBackValue
  <1> QED BY <1>2, <1>6, <1>8, <1>9 DEF HiW, LoW

\* The decoder asks for every register that is read, but for BLTZAL and BGEZAL.
LEMMA ReadsWatched ==
  ASSUME NEW i \in Instr, Known(i), NEW r \in Reads(i)
  PROVE  (Regimm(i, LinkBranch) /\ r = i.rs) \/ r \in Watched(i)
  <1>1. CASE i.opcode = "SPECIAL"
    <2>1. /\ i.opcode \notin {"REGIMM", "JAL", "LUI", "BLEZ", "BGTZ", "BEQ", "BNE"}
          /\ i.opcode \notin ImmOps \cup Loads /\ i.opcode \notin CmpBranch \cup Stores
          /\ i.opcode \notin ImmOps \cup Loads \cup {"BLEZ", "BGTZ"} /\ i.opcode \notin {"BEQ", "BNE"} \cup Stores
          /\ \A S : ~ Regimm(i, S)
      BY <1>1 DEF ImmOps, Loads, CmpBranch, Stores, Regimm
    <2>2. i.funct \in {"SYSCALL"} \cup AluFuncts \cup MulDiv \cup MoveFrom \cup MoveTo \cup RegJumps
      BY <1>1 DEF Known, Special, Regimm
    <2>3. \A S : Special(i, S) <=> i.funct \in S
      BY <1>1 DEF Special
    <2>4. CASE i.funct \in AluFuncts \cup MulDiv
      <3>1. i.funct \notin {"SYSCALL"} /\ i.funct \notin {"MFHI"} /\ i.funct \notin {"MFLO"}
            /\ i.funct \notin RegJumps \cup MoveTo
        BY <2>4 DEF AluFuncts, ShiftFuncts, MulDiv, RegJumps, MoveTo
      <3>2. Watched(i) = {i.rs, i.rt}
        BY <2>1, <2>3, <2>4, <3>1 DEF Watched
      <3>3. Reads(i) = {i.rt} \/ Reads(i) = {i.rs, i.rt}
        BY <2>1, <2>3, <2>4, <3>1 DEF Reads
      <3> QED BY <3>2, <3>3
    <2>5. CASE i.funct \in RegJumps \cup MoveTo
      <3>1. i.funct \notin {"SYSCALL"} /\ i.funct \notin AluFuncts \cup MulDiv /\ i.funct \notin {"MFHI"}
            /\ i.funct \notin {"MFLO"} /\ i.funct \notin {"SLL", "SRL", "SRA"}
        BY <2>5 DEF AluFuncts, ShiftFuncts, MulDiv, RegJumps, MoveTo
      <3>2. Watched(i) = {i.rs}
        BY <2>1, <2>3, <2>5, <3>1 DEF Watched
      <3>3. Reads(i) = {i.rs}
        BY <2>1, <2>3, <2>5, <3>1 DEF Reads
      <3> QED BY <3>2, <3>3
    <2>6. CASE i.funct \in MoveFrom
      <3>1. i.funct \notin {"SYSCALL"} /\ i.funct \notin AluFuncts \cup MulDiv /\ i.funct \notin RegJumps \cup MoveTo
            /\ i.funct \notin {"SLL", "SRL", "SRA"}
        BY <2>6 DEF AluFuncts, ShiftFuncts, MulDiv, RegJumps, MoveTo, MoveFrom
      <3>2. i.funct = "MFHI" => Reads(i) = {HI} /\ Watched(i) = {HI}
        BY <2>1, <2>3, <3>1 DEF Reads, Watched
      <3>3. i.funct = "MFLO" => Reads(i) = {LO} /\ Watched(i) = {LO}
        BY <2>1, <2>3, <3>1 DEF Reads, Watched
      <3> QED BY <2>6, <3>2, <3>3 DEF MoveFrom
    <2>7. CASE i.funct = "SYSCALL"
      <3>1. i.funct \notin AluFuncts \cup MulDiv /\ i.funct \notin RegJumps \cup MoveTo
            /\ i.funct \notin {"SLL", "SRL", "SRA"} /\ i.funct \notin {"MFHI"} /\ i.funct \notin {"MFLO"}
        BY <2>7 DEF AluFuncts, ShiftFuncts, MulDiv, RegJumps, MoveTo
      <3>2. Reads(i) = {}
        BY <2>1, <2>3, <3>1 DEF Reads
      <3> QED BY <3>2
    <2> QED BY <2>2, <2>4, <2>5, <2>6, <2>7
  <1>2. CASE i.opcode = "REGIMM"
    <2>1. /\ i.opcode \notin {"JAL", "LUI", "BLEZ", "BGTZ", "BEQ", "BNE"}
          /\ i.opcode \notin ImmOps \cup Loads /\ i.opcode \notin CmpBranch \cup Stores
          /\ i.opcode \notin ImmOps \cup Loads \cup {"BLEZ", "BGTZ"} /\ i.opcode \notin {"BEQ", "BNE"} \cup Stores
          /\ \A S : ~ Special(i, S)
      BY <1>2 DEF ImmOps, Loads, CmpBranch, Stores, Special
    <2>2. Reads(i) = {i.rs}
      BY <1>2, <2>1 DEF Reads
    <2>3. Regimm(i, LinkBranch) \/ Regimm(i, PlainRegimm)
      BY <1>2, <2>1 DEF Known, Regimm
    <2>4. Regimm(i, PlainRegimm) => Watched(i) = {i.rs}
      BY <2>1 DEF Watched
    <2> QED BY <2>2, <2>3, <2>4
  <1>3. CASE i.opcode \notin {"SPECIAL", "REGIMM"}
    <2>1. (\A S : ~ Special(i, S)) /\ (\A S : ~ Regimm(i, S)) /\ i.opcode # "REGIMM"
      BY <1>3 DEF Special, Regimm
    <2>2. CASE i.opcode \in ImmOps \cup Loads
      <3>1. i.opcode # "JAL" /\ i.opcode # "LUI" /\ i.opcode \notin CmpBranch \cup Stores
            /\ i.opcode \notin {"BEQ", "BNE"} \cup Stores
        BY <2>2 DEF ImmOps, Loads, CmpBranch, Stores
      <3>2. Reads(i) = {i.rs} /\ Watched(i) = {i.rs}
        BY <2>1, <2>2, <3>1 DEF Reads, Watched
      <3> QED BY <3>2
    <2>3. CASE i.opcode \in CmpBranch \cup Stores
      <3>1. i.opcode # "JAL" /\ i.opcode # "LUI" /\ i.opcode \notin ImmOps \cup Loads
        BY <2>3 DEF ImmOps, Loads, CmpBranch, Stores
      <3>2. Watched(i) = {i.rs, i.rt}
        BY <2>1, <2>3, <3>1 DEF Watched
      <3>3. Reads(i) = {i.rs} \/ Reads(i) = {i.rs, i.rt}
        BY <2>1, <2>3, <3>1 DEF Reads, CmpBranch
      <3> QED BY <3>2, <3>3
    <2>4. CASE i.opcode \notin ImmOps \cup Loads \cup CmpBranch \cup Stores
      <3>1. Reads(i) = {}
        BY <2>1, <2>4 DEF Reads, CmpBranch
      <3> QED BY <3>1
    <2> QED BY <2>2, <2>3, <2>4
  <1> QED BY <1>1, <1>2, <1>3

\* HI and LO are read by MFHI and MFLO alone.
LEMMA HiLoReaders ==
  ASSUME NEW i \in Instr
  PROVE  /\ HI \in Reads(i) => Special(i, {"MFHI"}) /\ Watched(i) = {HI}
         /\ LO \in Reads(i) => Special(i, {"MFLO"}) /\ Watched(i) = {LO}
  <1>1. HI \notin Reg /\ LO \notin Reg /\ HI # LO
    BY RegisterAssumption DEF HI, LO, Reg
  <1>2. i.rs \in Reg /\ i.rt \in Reg
    BY DEF Instr
  <1>3. /\ HI \in Reads(i) => Special(i, {"MFHI"})
        /\ LO \in Reads(i) => Special(i, {"MFLO"})
    BY <1>1, <1>2 DEF Reads
  <1>4. ASSUME Special(i, {"MFHI", "MFLO"})
        PROVE  Watched(i) = IF i.funct = "MFHI" THEN {HI} ELSE {LO}
    <2>1. i.opcode = "SPECIAL" /\ (i.funct = "MFHI" \/ i.funct = "MFLO")
      BY <1>4 DEF Special
    <2>2. i.opcode \notin ImmOps \cup Loads /\ i.opcode \notin CmpBranch \cup Stores
          /\ i.opcode # "JAL" /\ i.opcode # "LUI" /\ \A S : ~ Regimm(i, S)
      BY <2>1 DEF ImmOps, Loads, CmpBranch, Stores, Regimm
    <2>3. i.funct \notin AluFuncts \cup MulDiv /\ i.funct \notin RegJumps \cup MoveTo /\ i.funct # "SYSCALL"
      BY <2>1 DEF AluFuncts, ShiftFuncts, MulDiv, RegJumps, MoveTo
    <2> QED BY <2>1, <2>2, <2>3 DEF Watched, Special
  <1> QED BY <1>3, <1>4 DEF Special

\* An instruction is decoded right now that is not one of the idioms.
Decoding ==
  Running /\ stage = "decode" /\ decode_status = 1 /\ load = 0 /\ Idioms(if_id.ir) = {}

\* What the idioms exclude for the instruction in decode.
LEMMA ClearOfIdioms ==
  ASSUME NEW i, Idioms(i) = {}
  PROVE  /\ Known(i) /\ ~ WritesRegisterZero(i) /\ ~ UnwatchedOperand(i) /\ ~ ReleasedTooEarly(i)
         /\ ~ PhantomProducer(i) /\ ~ StaleHiLo(i) /\ ~ JalrTarget(i) /\ ~ DividesByZero(i)
         /\ ~ StoreBehindHalt(i)
  <1> DEFINE Names_ == {"unknown", "zero", "unwatched", "released", "phantom", "hilo", "jalr", "div0", "halt"}
  <1>1. ASSUME NEW n \in Names_
        PROVE  ~ (\/ n = "unknown"   /\ UnknownInstruction(i)
                  \/ n = "zero"      /\ WritesRegisterZero(i)
                  \/ n = "unwatched" /\ UnwatchedOperand(i)
                  \/ n = "released"  /\ ReleasedTooEarly(i)
                  \/ n = "phantom"   /\ PhantomProducer(i)
                  \/ n = "hilo"      /\ StaleHiLo(i)
                  \/ n = "jalr"      /\ JalrTarget(i)
                  \/ n = "div0"      /\ DividesByZero(i)
                  \/ n = "halt"      /\ StoreBehindHalt(i))
    BY DEF Idioms
  <1> QED BY <1>1 DEF UnknownInstruction

\* The operand decode takes is what a machine that has finished everything
\* ahead would read from the register.
LEMMA OperandTaken ==
  ASSUME Decoding, NEW r \in Reads(if_id.ir) \cap Reg
  PROVE  Taken(if_id.ir, r, REGS[r]) = RegsM[r]
  <1> DEFINE i == if_id.ir
  <1>1. /\ Running /\ stage = "decode" /\ decode_status = 1 /\ load = 0 /\ i \in Instr
        /\ Known(i) /\ ~ UnwatchedOperand(i) /\ ~ PhantomProducer(i)
        /\ slot.mem.ir \in Instr /\ slot.wb.ir \in Instr /\ Slots
    BY ClearOfIdioms, RunningParts, HeldTypes DEF Decoding, TypeOK
  <1>2. CASE r = 0
    <2>1. RegsM[0] = REGS[0]
      BY <1>1, RunningParts, ZeroKept
    <2>2. Taken(i, 0, REGS[0]) = REGS[0]
      BY DEF Taken, Bypass
    <2> QED BY <1>2, <2>1, <2>2
  <1>3. /\ r \notin {HI, LO}
        /\ r \in Writes(slot.mem.ir) => Names(slot.mem.ir) = r
        /\ r \in Writes(slot.wb.ir) => Names(slot.wb.ir) = r
    <2>1. r \notin {HI, LO}
      BY RegisterAssumption DEF Reg, HI, LO
    <2> QED BY <1>1, <2>1, WritesIndices
  <1>4. /\ r \notin Writes(slot.mem.ir) => RegsM[r] = RegsW[r]
        /\ r \notin Writes(slot.wb.ir) => RegsW[r] = REGS[r]
    BY <1>1, Untouched
  <1>5. /\ r # 0 /\ r \in Writes(slot.mem.ir) =>
             ex_mem.write_register = r /\ RegsM[r] = ex_mem.alu_result /\ registerStatus[r] = 0
        /\ r # 0 /\ r \in Writes(slot.wb.ir) =>
             mem_wb.write_register = r /\ RegsW[r] = mem_wb.alu_result /\ registerStatus[r] = 0
    BY <1>1, ComputedInExMem, ComputedInMemWb
  <1>6. ex_mem.write_register = Names(slot.mem.ir) /\ mem_wb.write_register = Names(slot.wb.ir)
    BY <1>1 DEF Slots, Releases
  <1>7. CASE r # 0 /\ DependencyAfter(i) = 1
    <2>1. /\ Names(slot.mem.ir) = r => r \in Writes(slot.mem.ir)
          /\ Names(slot.wb.ir) = r /\ Names(slot.mem.ir) # r => r \in Writes(slot.wb.ir)
      BY <1>1, <1>7 DEF PhantomProducer, Bypassing, ahead1, ahead2
    <2>2. Taken(i, r, REGS[r]) = IF Names(slot.mem.ir) = r THEN ex_mem.alu_result
                                 ELSE IF Names(slot.wb.ir) = r THEN mem_wb.alu_result ELSE REGS[r]
      BY <1>6, <1>7 DEF Taken, Bypass
    <2> QED BY <1>3, <1>4, <1>5, <1>7, <2>1, <2>2
  <1>8. CASE r # 0 /\ DependencyAfter(i) # 1
    <2>1. Taken(i, r, REGS[r]) = REGS[r]
      BY <1>8 DEF Taken
    <2>2. r \notin Writes(slot.mem.ir) /\ r \notin Writes(slot.wb.ir)
      <3>1. CASE Regimm(i, LinkBranch) /\ r = i.rs
        BY <1>1, <1>8, <3>1 DEF UnwatchedOperand, Bypassing, InFlight, ahead1, ahead2
      <3>2. CASE r \in Watched(i)
        <4>1. ~ Pending(i)
          BY <1>8, <3>2 DEF DependencyAfter, SetsDependency, Bool
        <4>2. registerStatus[r] # 0
          BY <3>2, <4>1 DEF Pending
        <4> QED BY <1>5, <1>8, <4>2
      <3> QED BY <1>1, <3>1, <3>2, ReadsWatched
    <2> QED BY <1>4, <2>1, <2>2
  <1> QED BY <1>2, <1>7, <1>8

\* The same of HI and LO.
LEMMA HiLoTaken ==
  ASSUME Decoding
  PROVE  LET i == if_id.ir
         IN /\ HI \in Reads(i) =>
                 HiM = IF DependencyAfter(i) = 1 THEN BypassHiLo(ex_mem.hi, mem_wb.hi, hi) ELSE hi
            /\ LO \in Reads(i) =>
                 LoM = IF DependencyAfter(i) = 1 THEN BypassHiLo(ex_mem.lo, mem_wb.lo, lo) ELSE lo
  <1> DEFINE i == if_id.ir
  <1>1. /\ Running /\ stage = "decode" /\ decode_status = 1 /\ load = 0 /\ i \in Instr
        /\ Known(i) /\ ~ StaleHiLo(i) /\ Slots /\ Neighbours /\ HiLoOwned /\ Due
        /\ execute_status = 0 /\ HI # 0 /\ LO # 0 /\ HI # LO
    BY ClearOfIdioms, RunningParts, WritesIndices DEF Decoding, TypeOK, Due, Bit
  <1>2. ASSUME NEW r \in {HI, LO}, r \in Reads(i)
        PROVE  DependencyAfter(i) = 1 <=> registerStatus[r] = 0
    <2>1. Watched(i) = {r}
      BY <1>1, <1>2, HiLoReaders
    <2> QED BY <2>1 DEF DependencyAfter, SetsDependency, Pending, Bool
  <1>3. ASSUME HI \in Reads(i)
        PROVE  HiM = IF DependencyAfter(i) = 1 THEN BypassHiLo(ex_mem.hi, mem_wb.hi, hi) ELSE hi
    <2>1. /\ HI \in Writes(slot.mem.ir) =>
               memory_status = 1 /\ registerStatus[HI] = 0 /\ HiM = ex_mem.hi.value
          /\ HI \in Writes(slot.wb.ir) =>
               memory_status = 1 /\ registerStatus[HI] = 0 /\ HiW = mem_wb.hi.value
      BY <1>1, ComputedInExMem, ComputedInMemWb
    <2>2. /\ HI \notin Writes(slot.mem.ir) => HiM = HiW
          /\ HI \notin Writes(slot.wb.ir) => HiW = hi
      BY <1>1, Untouched
    <2>3. /\ HI \in Writes(slot.mem.ir) => ex_mem.hi.value # 0
          /\ HI \in Writes(slot.wb.ir) \ Writes(slot.mem.ir) => mem_wb.hi.value # 0 /\ slot.mem.fwd # 0
      BY <1>1, <1>3 DEF StaleHiLo, ahead1, ahead2
    <2>4. CASE DependencyAfter(i) = 1
      <3>1. HI \in Writes(slot.wb.ir) \/ HI \in Writes(slot.mem.ir)
        BY <1>1, <1>2, <1>3, <2>4 DEF HiLoOwned
      <3>2. CASE HI \in Writes(slot.mem.ir)
        BY <2>1, <2>3, <2>4, <3>2 DEF BypassHiLo
      <3>3. CASE HI \in Writes(slot.wb.ir) \ Writes(slot.mem.ir)
        <4>1. slot.mem.fwd = 1
          BY <1>1, <2>3, <3>3, RunningParts, HeldTypes DEF Bit
        <4>2. Carries(slot.mem, ex_mem.hi.value, slot.wb, mem_wb.hi.value, HI)
          BY <1>1, <2>1, <3>3 DEF Neighbours, BeforeMemory
        <4>3. ex_mem.hi.value = mem_wb.hi.value
          BY <2>3, <3>3, <4>1, <4>2 DEF Carries
        <4> QED BY <2>1, <2>2, <2>3, <2>4, <3>3, <4>3 DEF BypassHiLo
      <3> QED BY <3>1, <3>2, <3>3
    <2>5. CASE DependencyAfter(i) # 1
      BY <1>2, <1>3, <2>1, <2>2, <2>5
    <2> QED BY <2>4, <2>5
  <1>4. ASSUME LO \in Reads(i)
        PROVE  LoM = IF DependencyAfter(i) = 1 THEN BypassHiLo(ex_mem.lo, mem_wb.lo, lo) ELSE lo
    <2>1. /\ LO \in Writes(slot.mem.ir) =>
               memory_status = 1 /\ registerStatus[LO] = 0 /\ LoM = ex_mem.lo.value
          /\ LO \in Writes(slot.wb.ir) =>
               memory_status = 1 /\ registerStatus[LO] = 0 /\ LoW = mem_wb.lo.value
      BY <1>1, ComputedInExMem, ComputedInMemWb
    <2>2. /\ LO \notin Writes(slot.mem.ir) => LoM = LoW
          /\ LO \notin Writes(slot.wb.ir) => LoW = lo
      BY <1>1, Untouched
    <2>3. /\ LO \in Writes(slot.mem.ir) => ex_mem.lo.value # 0
          /\ LO \in Writes(slot.wb.ir) \ Writes(slot.mem.ir) => mem_wb.lo.value # 0 /\ slot.mem.fwd # 0
      BY <1>1, <1>4 DEF StaleHiLo, ahead1, ahead2
    <2>4. CASE DependencyAfter(i) = 1
      <3>1. LO \in Writes(slot.wb.ir) \/ LO \in Writes(slot.mem.ir)
        BY <1>1, <1>2, <1>4, <2>4 DEF HiLoOwned
      <3>2. CASE LO \in Writes(slot.mem.ir)
        BY <2>1, <2>3, <2>4, <3>2 DEF BypassHiLo
      <3>3. CASE LO \in Writes(slot.wb.ir) \ Writes(slot.mem.ir)
        <4>1. slot.mem.fwd = 1
          BY <1>1, <2>3, <3>3, RunningParts, HeldTypes DEF Bit
        <4>2. Carries(slot.mem, ex_mem.lo.value, slot.wb, mem_wb.lo.value, LO)
          BY <1>1, <2>1, <3>3 DEF Neighbours, BeforeMemory
        <4>3. ex_mem.lo.value = mem_wb.lo.value
          BY <2>3, <3>3, <4>1, <4>2 DEF Carries
        <4> QED BY <2>1, <2>2, <2>3, <2>4, <3>3, <4>3 DEF BypassHiLo
      <3> QED BY <3>1, <3>2, <3>3
    <2>5. CASE DependencyAfter(i) # 1
      BY <1>2, <1>4, <2>1, <2>2, <2>5
    <2> QED BY <2>4, <2>5
  <1> QED BY <1>3, <1>4

\* What decode hands on leads to the results of the sequential machine.
LEMMA DecodedSame ==
  ASSUME Decoding
  PROVE  Same(Decoded, LatchOf(if_id.ir, if_id.pc, RegsM, HiM, LoM), if_id.ir)
  <1> DEFINE i == if_id.ir
             e == LatchOf(i, if_id.pc, RegsM, HiM, LoM)
  <1>1. /\ Running /\ stage = "decode" /\ load = 0 /\ i \in Instr /\ if_id.pc \in Word
        /\ Known(i) /\ ~ JalrTarget(i) /\ Slots /\ TypeOK /\ LatchInv /\ LoadProgress /\ Live
        /\ slot.mem.ir \in Instr /\ slot.wb.ir \in Instr
        /\ RegsM \in [Reg -> Word] /\ HiM \in Word /\ LoM \in Word
    BY ClearOfIdioms, RunningParts, PendingTypes, HeldTypes DEF Decoding, TypeOK, Running
  <1>2. i.rs \in Reg /\ i.rt \in Reg
    BY <1>1 DEF Instr
  <1>3. Silent(id_ex.ctl)
    <2>1. id_ex.ctl \in Control
      BY <1>1 DEF TypeOK, IdEx
    <2>2. id_ex.ctl.mread # 1
      BY <1>1 DEF LoadProgress
    <2> QED BY <1>1, <2>1, <2>2 DEF LatchInv, GoodControl, Silent, Control, Bit
  <1>4. /\ Decoded.ir = i /\ Decoded.pc = if_id.pc /\ Decoded.ctl = ControlOf(i, NoControl("NONE"))
        /\ DestinationOf(Decoded) = Names(i)
        /\ Decoded.hi = IF DependencyAfter(i) = 1 THEN BypassHiLo(ex_mem.hi, mem_wb.hi, hi) ELSE hi
        /\ Decoded.lo = IF DependencyAfter(i) = 1 THEN BypassHiLo(ex_mem.lo, mem_wb.lo, lo) ELSE lo
        /\ Decoded.rs.value = IF Links(i) THEN U32(4) ELSE Taken(i, i.rs, REGS[i.rs])
        /\ ~ Regimm(i, LinkBranch) =>
             Decoded.rt.value = IF Links(i) THEN if_id.pc ELSE Taken(i, i.rt, REGS[i.rt])
        /\ Decoded.ctl.jump = 1 =>
             Decoded.jumpAddress =
               IF Special(i, RegJumps)
                 THEN Taken(i, i.rs, IF Links(i) THEN U32(4) ELSE REGS[i.rs])
                 ELSE U32(4 * i.label)
        /\ Decoded.run_bit = 0 => Special(i, {"SYSCALL"})
    BY <1>1, <1>3, DecodedFields
  <1>5. /\ e.ir = i /\ e.pc = if_id.pc /\ e.hi = HiM /\ e.lo = LoM
        /\ e.ctl = ControlOf(i, NoControl("NONE")) /\ DestinationOf(e) = Names(i)
        /\ e.rs.value = IF Links(i) THEN U32(4) ELSE RegsM[i.rs]
        /\ e.rt.value = IF Links(i) THEN if_id.pc ELSE RegsM[i.rt]
        /\ e.jumpAddress = IF Special(i, RegJumps) THEN RegsM[i.rs]
                           ELSE IF i.opcode \in {"J", "JAL"} THEN U32(4 * i.label) ELSE 0
    <2>1. i \in Instr /\ Known(i) /\ if_id.pc \in Word /\ RegsM \in [Reg -> Word] /\ HiM \in Word /\ LoM \in Word
      BY <1>1
    <2> HIDE DEF i
    <2> QED BY <2>1, LatchFields, SMTT(30)
  <1> HIDE DEF e
  <1>6. ASSUME NEW r \in Reg, r \in Reads(i) PROVE Taken(i, r, REGS[r]) = RegsM[r]
    BY <1>6, OperandTaken
  <1>7. i.rs \in Reads(i) \/ Links(i) => Decoded.rs.value = e.rs.value
    BY <1>2, <1>4, <1>5, <1>6
  <1>8. (i.opcode # "REGIMM" /\ i.rt \in Reads(i)) \/ Links(i) => Decoded.rt.value = e.rt.value
    <2>1. Links(i) => ~ Regimm(i, LinkBranch)
      BY DEF Links, Special, Regimm
    <2>2. i.opcode # "REGIMM" => ~ Regimm(i, LinkBranch)
      BY DEF Regimm
    <2> QED BY <1>2, <1>4, <1>5, <1>6, <2>1, <2>2
  <1>9. (HI \in Reads(i) => Decoded.hi = e.hi) /\ (LO \in Reads(i) => Decoded.lo = e.lo)
    BY <1>4, <1>5, HiLoTaken
  <1>10. Decoded.ctl.jump = 1 => Decoded.jumpAddress = e.jumpAddress
    <2> SUFFICES ASSUME Decoded.ctl.jump = 1 PROVE Decoded.jumpAddress = e.jumpAddress
      OBVIOUS
    <2>1. i.opcode \in {"J", "JAL"} \/ Special(i, RegJumps)
      <3>1. Decoded.ctl.jump = Bool(i.opcode \in {"J", "JAL"} \/ Special(i, RegJumps))
        BY <1>1, <1>4, SteeringFields
      <3> QED BY <3>1 DEF Bool
    <2>2. CASE Special(i, {"JR"})
      <3>1. Special(i, RegJumps) /\ ~ Links(i)
        BY <2>2 DEF Special, RegJumps, Links
      <3>2. i.rs \in Reads(i)
        BY <1>1, <3>1, ReadsCases DEF Special
      <3> QED BY <1>2, <1>4, <1>5, <1>6, <3>1, <3>2
    <2>3. CASE Special(i, {"JALR"})
      <3>1. Special(i, RegJumps) /\ Links(i)
        BY <2>3 DEF Special, RegJumps, Links
      <3>2. i.rs \in Reads(i)
        BY <1>1, <3>1, ReadsCases DEF Special
      <3>3. DependencyAfter(i) = 1 /\ i.rs # 0 /\ InFlight(i.rs)
        BY <1>1, <2>3 DEF JalrTarget, Bypassing
      <3>4. Names(slot.mem.ir) = i.rs \/ Names(slot.wb.ir) = i.rs
        <4>1. i.rs \notin {HI, LO}
          BY <1>2, RegisterAssumption DEF Reg, HI, LO
        <4> QED BY <1>1, <3>3, <4>1, WritesIndices DEF InFlight, ahead1, ahead2
      <3>5. ex_mem.write_register = Names(slot.mem.ir) /\ mem_wb.write_register = Names(slot.wb.ir)
        BY <1>1 DEF Slots, Releases
      <3>6. Taken(i, i.rs, U32(4)) = Taken(i, i.rs, REGS[i.rs])
        BY <3>3, <3>4, <3>5 DEF Taken, Bypass
      <3> QED BY <1>2, <1>4, <1>5, <1>6, <3>1, <3>2, <3>6
    <2>4. CASE i.opcode \in {"J", "JAL"}
      <3>1. ~ Special(i, RegJumps)
        BY <2>4 DEF Special
      <3> QED BY <1>4, <1>5, <2>4, <3>1
    <2> QED BY <2>1, <2>2, <2>3, <2>4 DEF Special, RegJumps
  <1>11. Decoded.ctl = e.ctl /\ Decoded.pc = e.pc /\ DestinationOf(Decoded) = DestinationOf(e)
    BY <1>4, <1>5
  <1>12. Same(Decoded, e, i)
    BY <1>4, <1>5, <1>7, <1>8, <1>9, <1>10, <1>11 DEF Same
  <1> QED BY <1>12 DEF e

----------------------------------------------------------------------------
(* One lemma per action                                                    *)

\* Nothing is finished, and nothing behind decode moves.
LEMMA PendingKept ==
  ASSUME UNCHANGED <<REGS, hi, lo, ex_mem, mem_wb, memory_status, writeback_status, dram>>
  PROVE  /\ RegsW' = RegsW /\ HiW' = HiW /\ LoW' = LoW
         /\ RegsM' = RegsM /\ HiM' = HiM /\ LoM' = LoM
  <1>1. RegsW' = RegsW /\ HiW' = HiW /\ LoW' = LoW
    BY DEF RegsW, HiW, LoW, RegsBy, HiBy, LoBy, WriteBackValue, GoesToReg
  <1>2. MemoryValue' = MemoryValue
    BY DEF MemoryValue
  <1>3. RegsM' = RegsM /\ HiM' = HiM /\ LoM' = LoM
    BY <1>1, <1>2 DEF RegsM, HiM, LoM, RegsBy, HiBy, LoBy, GoesToReg
  <1> QED BY <1>1, <1>3

\* What the steps of the front end, and a stage that is not due, leave alone.
LEMMA BackEndKept ==
  ASSUME UNCHANGED <<REGS, hi, lo, ex_mem, mem_wb, execute_status, memory_status, writeback_status, dram,
                     id_ex, registerStatus, text, slot.ex, slot.mem, slot.wb>>,
         FrontEx' = FrontEx, Origins, Results, Order, HiLoOwned
  PROVE  Origins' /\ Results' /\ Order' /\ HiLoOwned' /\ FrontWb' = FrontWb
  <1>1. /\ RegsW' = RegsW /\ HiW' = HiW /\ LoW' = LoW
        /\ RegsM' = RegsM /\ HiM' = HiM /\ LoM' = LoM
    BY PendingKept
  <1>2. WbLatch' = WbLatch /\ MemLatch' = MemLatch /\ ExLatch' = ExLatch
    BY <1>1 DEF WbLatch, MemLatch, ExLatch
  <1>3. FrontMem' = FrontMem /\ FrontWb' = FrontWb
    BY DEF FrontMem, FrontWb
  <1>4. Origins' /\ HiLoOwned'
    BY DEF Origins, Origin, HiLoOwned
  <1>5. Order'
    BY <1>2, <1>3 DEF Order
  <1>6. Results'
    BY <1>2 DEF Results, Holding, HoldingAccess, Harmless, HarmlessIdEx, Same, GoesToReg, LoadedBy
  <1> QED BY <1>3, <1>4, <1>5, <1>6

\* A bubble has nothing to hand on.
LEMMA BubbleAhead ==
  /\ \A y, c, v : Carries(y, c, Bubble, v, HI) /\ Carries(y, c, Bubble, v, LO)
  /\ \A y, b : StoresOn(y, Bubble, b)
  <1>1. Bubble.ir = Nop /\ HI \notin Writes(Nop) /\ LO \notin Writes(Nop) /\ ~ Special(Nop, {"SYSCALL"})
    BY WritesIndices DEF Special, Nop
  <1> QED BY <1>1 DEF Carries, StoresOn

\* What follows what, when only "stage" moves.
LEMMA NeighboursKept ==
  ASSUME Neighbours,
         UNCHANGED <<execute_status, memory_status, id_ex, ex_mem, mem_wb, slot.ex, slot.mem, slot.wb>>,
         execute_status = 1 /\ stage' \in BeforeExecute \ {"execute"} => stage \in BeforeExecute \ {"execute"},
         execute_status = 1 /\ stage' = "execute" => slot.wb = Bubble,
         memory_status = 1 /\ stage' \in BeforeMemory \ {"memory"} => stage \in BeforeMemory \ {"memory"}
  PROVE  Neighbours'
  <1>1. execute_status' = 1 /\ stage' \in BeforeExecute \ {"execute"} =>
          /\ Carries(slot.ex, id_ex.hi, slot.mem, ex_mem.hi.value, HI)
          /\ Carries(slot.ex, id_ex.lo, slot.mem, ex_mem.lo.value, LO)
          /\ StoresOn(slot.ex, slot.mem, ex_mem.run_bit)
    BY DEF Neighbours
  <1>2. execute_status' = 1 /\ stage' = "execute" =>
          /\ Carries(slot.ex, id_ex.hi, slot.wb, mem_wb.hi.value, HI)
          /\ Carries(slot.ex, id_ex.lo, slot.wb, mem_wb.lo.value, LO)
          /\ StoresOn(slot.ex, slot.wb, mem_wb.run_bit)
    BY BubbleAhead
  <1>3. memory_status' = 1 /\ stage' \in BeforeMemory \ {"memory"} =>
          /\ Carries(slot.mem, ex_mem.hi.value, slot.wb, mem_wb.hi.value, HI)
          /\ Carries(slot.mem, ex_mem.lo.value, slot.wb, mem_wb.lo.value, LO)
          /\ StoresOn(slot.mem, slot.wb, mem_wb.run_bit)
    BY DEF Neighbours
  <1> QED BY <1>1, <1>2, <1>3 DEF Neighbours

\* check_stall moves timers only.
LEMMA CheckStallOrdered ==
  ASSUME Running, check_stall, UNCHANGED history
  PROVE  Ordered' /\ FrontWb' = FrontWb
  <1> USE DEF check_stall, history, cpu, board
  <1>1. /\ FrontEnd /\ Origins /\ Results /\ Order /\ HiLoOwned /\ Empties /\ Neighbours /\ TypeOK
        /\ StallDiscipline /\ Live
    BY RunningParts DEF Running
  <1>2. FrontEx' = FrontEx
    BY DEF FrontEx
  <1>3. Origins' /\ Results' /\ Order' /\ HiLoOwned' /\ FrontWb' = FrontWb
    BY <1>1, <1>2, BackEndKept
  <1>4. fetch_timer \in 0 .. 2 /\ decode_timer = fetch_timer /\ decode_status \in Bit
    BY <1>1 DEF TypeOK, StallDiscipline, Live, Stages
  <1>5. FrontEnd'
    BY <1>1, <1>4 DEF FrontEnd, Tick, Resumed, Bit
  <1>6. Empties'
    BY <1>1, <1>4 DEF Empties, Tick, Resumed, Bit, BeforeWb, BeforeMemory, BeforeExecute
  <1>7. Neighbours'
    BY <1>1 DEF Neighbours, BeforeMemory, BeforeExecute, Carries, StoresOn
  <1> QED BY <1>3, <1>5, <1>6, <1>7 DEF Ordered

\* A stage that is not due changes nothing.
LEMMA SkipOrdered ==
  ASSUME Running, UNCHANGED history,
         \/ Skip("write_back", writeback_status, "memory")
         \/ Skip("memory", memory_status, "execute")
         \/ Skip("execute", execute_status, "decode")
         \/ Skip("decode", decode_status, "fetch")
         \/ Skip("fetch", fetch_status, "cycle_end")
  PROVE  Ordered' /\ FrontWb' = FrontWb
  <1> USE DEF Skip, history, cpu, board, statuses, timers
  <1>1. /\ FrontEnd /\ Origins /\ Results /\ Order /\ HiLoOwned /\ Empties /\ Neighbours /\ TypeOK
        /\ StallDiscipline /\ Live /\ Due
    BY RunningParts DEF Running
  <1>2. FrontEx' = FrontEx
    BY DEF FrontEx
  <1>3. Origins' /\ Results' /\ Order' /\ HiLoOwned' /\ FrontWb' = FrontWb
    BY <1>1, <1>2, BackEndKept
  <1>4. fetch_timer \in 0 .. 2 /\ decode_status \in Bit /\ execute_status \in Bit /\ memory_status \in Bit
        /\ writeback_status \in Bit
    BY <1>1 DEF TypeOK
  <1>5. FrontEnd'
    BY <1>1, <1>4 DEF FrontEnd, Bit, StallDiscipline, Live, Stages
  <1>6. Empties'
    <2> USE <1>1, <1>4 DEF Empties, Bit, BeforeWb, BeforeMemory, BeforeExecute, Due
    <2>1. CASE Skip("write_back", writeback_status, "memory")
      BY <2>1
    <2>2. CASE Skip("memory", memory_status, "execute")
      BY <2>2
    <2>3. CASE Skip("execute", execute_status, "decode")
      BY <2>3 DEF FrontEnd
    <2>4. CASE Skip("decode", decode_status, "fetch")
      BY <2>4 DEF FrontEnd
    <2>5. CASE Skip("fetch", fetch_status, "cycle_end")
      BY <2>5 DEF StallDiscipline, Live, Stages
    <2> QED BY <2>1, <2>2, <2>3, <2>4, <2>5
  <1>7. Neighbours'
    <2>1. execute_status = 1 /\ stage' \in BeforeExecute \ {"execute"} => stage \in BeforeExecute \ {"execute"}
      BY <1>1 DEF BeforeExecute, Due
    <2>2. execute_status = 1 /\ stage' = "execute" => slot.wb = Bubble
      BY <1>1 DEF Empties, BeforeMemory
    <2>3. memory_status = 1 /\ stage' \in BeforeMemory \ {"memory"} => stage \in BeforeMemory \ {"memory"}
      BY <1>1 DEF BeforeMemory, Due
    <2> QED BY <1>1, <2>1, <2>2, <2>3, NeighboursKept
  <1> QED BY <1>3, <1>5, <1>6, <1>7 DEF Ordered

\* fetch reads the instruction behind everything in flight.
LEMMA FetchOrdered ==
  ASSUME Running, fetch, slot' = [slot EXCEPT !.id = TRUE]
  PROVE  Ordered' /\ FrontWb' = FrontWb
  <1> USE DEF fetch, board, timers
  <1>1. /\ FrontEnd /\ Origins /\ Results /\ Order /\ HiLoOwned /\ Empties /\ Neighbours /\ TypeOK
        /\ StallDiscipline /\ Live
    BY RunningParts DEF Running
  <1>2. slot'.id = TRUE /\ slot'.ex = slot.ex /\ slot'.mem = slot.mem /\ slot'.wb = slot.wb
    BY RunningParts, HeldTypes
  <1>3. decode_status = 0 /\ fetch_timer = 0
    BY <1>1 DEF FrontEnd, StallDiscipline, TypeOK, Live, Stages
  <1>4. slot.id = FALSE
    <2>1. slot.id \in BOOLEAN
      BY RunningParts, HeldTypes
    <2>2. ~ slot.id
      BY <1>1, <1>3 DEF FrontEnd
    <2> QED BY <2>1, <2>2
  <1>5. FrontEx' = FrontEx
    BY <1>2, <1>4 DEF FrontEx
  <1>6. Origins' /\ Results' /\ Order' /\ HiLoOwned' /\ FrontWb' = FrontWb
    BY <1>1, <1>2, <1>5, BackEndKept
  <1>7. FrontEnd'
    BY <1>1, <1>2, <1>3 DEF FrontEnd
  <1>8. Empties'
    BY <1>1, <1>2, <1>3 DEF Empties, BeforeWb, BeforeMemory, BeforeExecute
  <1>9. Neighbours'
    BY <1>1, <1>2, NeighboursKept DEF BeforeMemory, BeforeExecute
  <1> QED BY <1>6, <1>7, <1>8, <1>9 DEF Ordered

\* A load writes a register; what it reads is not written.
LEMMA LoadControl ==
  ASSUME NEW i \in Instr, Known(i), NEW old, ControlOf(i, old).mem_to_rg = 1
  PROVE  ControlOf(i, old).reg_write = 1 /\ ControlOf(i, old).mwrite = 0
  <1> DEFINE c == ControlOf(i, old)
  <1>1. c.mem_to_rg = Bool(i.opcode \in Loads) /\ c.mwrite = Bool(i.opcode \in Stores)
    BY SteeringFields
  <1>2. i.opcode \in Loads
    BY <1>1 DEF Bool
  <1>3. i.opcode \notin {"SPECIAL", "REGIMM", "J", "JAL"} \cup ImmOps \cup {"LUI"} \cup CmpBranch \cup Stores
    BY <1>2 DEF Loads, ImmOps, CmpBranch, Stores
  <1>4. c = Load(i.opcode)
    BY <1>3, ControlCases DEF Special, Regimm
  <1> HIDE DEF c
  <1> QED BY <1>1, <1>3, <1>4 DEF c, Load, RtWrite, NoControl, Bool

\* memory moves the oldest instruction that has not reached it to MEM/WB.
LEMMA MemoryOrdered ==
  ASSUME Running, memory, slot' = [slot EXCEPT !.wb = slot.mem]
  PROVE  Ordered' /\ FrontWb' = FrontMem /\ WbLatch' = MemLatch
  <1> USE DEF memory, board, timers, cpu
  <1>1. /\ FrontEnd /\ Origins /\ Results /\ Order /\ HiLoOwned /\ Empties /\ Neighbours /\ TypeOK /\ LatchInv
        /\ StallDiscipline /\ Live /\ Due
    BY RunningParts DEF Running
  <1>2. slot'.id = slot.id /\ slot'.ex = slot.ex /\ slot'.mem = slot.mem /\ slot'.wb = slot.mem
    BY RunningParts, HeldTypes
  <1>3. writeback_status = 0 /\ memory_status' = 0 /\ writeback_status' = 1
    BY <1>1 DEF Due
  <1>4. /\ mem_wb'.hi = ex_mem.hi /\ mem_wb'.lo = ex_mem.lo /\ mem_wb'.alu_result = ex_mem.alu_result
        /\ mem_wb'.reg_write = ex_mem.reg_write /\ mem_wb'.mem_to_rg = ex_mem.mem_to_rg
        /\ mem_wb'.write_register = ex_mem.write_register /\ mem_wb'.run_bit = ex_mem.run_bit
        /\ ex_mem.mem_to_rg = 1 => mem_wb'.memory_data = LoadedValue(ReadGranule(dram, ex_mem.alu_result),
                                                                 ex_mem.loadSize, ex_mem.isLoadSigned)
    BY <1>1 DEF LatchInv
  <1>5. RegsW = REGS /\ HiW = hi /\ LoW = lo
    BY <1>3 DEF RegsW, HiW, LoW
  <1>6. WriteBackValue' = MemoryValue
    BY <1>4 DEF WriteBackValue, MemoryValue
  <1>7. RegsW' = RegsM /\ HiW' = HiM /\ LoW' = LoM
    BY <1>3, <1>4, <1>5, <1>6 DEF RegsW, HiW, LoW, RegsM, HiM, LoM, RegsBy, HiBy, LoBy, GoesToReg
  <1>8. RegsM' = RegsM /\ HiM' = HiM /\ LoM' = LoM
    BY <1>3, <1>7 DEF RegsM, HiM, LoM
  <1>9. WbLatch' = MemLatch /\ ExLatch' = ExLatch
    BY <1>2, <1>5, <1>8 DEF WbLatch, MemLatch, ExLatch
  <1>10. FrontEx' = FrontEx /\ FrontMem' = FrontMem /\ FrontWb' = FrontMem
    BY <1>2, <1>3 DEF FrontEx, FrontMem, FrontWb
  <1>11. FrontEnd'
    BY <1>1, <1>2 DEF FrontEnd
  <1>12. Origins' /\ HiLoOwned'
    BY <1>1, <1>2, <1>3 DEF Origins, Origin, HiLoOwned
  <1>13. Empties'
    BY <1>1, <1>2, <1>3 DEF Empties, BeforeWb, BeforeMemory, BeforeExecute, FrontEnd
  <1>14. Order'
    BY <1>1, <1>2, <1>3, <1>9, <1>10 DEF Order
  <1>15. ASSUME slot.mem.real
         PROVE  /\ Holding(mem_wb', MemLatch)
                /\ mem_wb'.mem_to_rg = 1 => mem_wb'.memory_data = LoadedBy(WbLatch)'
    <2>1. Holding(ex_mem, MemLatch) /\ HoldingAccess(ex_mem, MemLatch)
      BY <1>1, <1>15 DEF Results
    <2>2. Holding(mem_wb', MemLatch)
      BY <1>4, <2>1 DEF Holding, GoesToReg
    <2>3. ASSUME ex_mem.mem_to_rg = 1
          PROVE  mem_wb'.memory_data = LoadedBy(WbLatch)'
      <3>1. slot.mem.ir \in Instr /\ Known(slot.mem.ir)
        BY <1>1, RunningParts, HeldTypes DEF Origins, Origin
      <3>2. MemLatch.ctl = ControlOf(slot.mem.ir, MemLatch.ctl)
        BY <3>1, LatchesFit
      <3>3. MemLatch.ctl.mem_to_rg = 1
        BY <2>1, <2>3 DEF Holding
      <3>4. MemLatch.ctl.reg_write = 1 /\ MemLatch.ctl.mwrite = 0
        BY <3>1, <3>2, <3>3, LoadControl
      <3>5. dram' = dram
        BY <2>1, <3>4 DEF HoldingAccess
      <3>6. ex_mem.mread = 1 /\ ex_mem.alu_result = AluResult(MemLatch, 0)
        BY <1>1, <2>1, <2>3, <3>4 DEF LatchInv, Holding, GoesToReg
      <3>7. mem_wb'.memory_data = LoadedBy(MemLatch)
        BY <1>4, <2>1, <2>3, <3>6 DEF LoadedBy, HoldingAccess
      <3> QED BY <1>9, <3>5, <3>7 DEF LoadedBy
    <2> QED BY <1>4, <2>2, <2>3
  <1>16. ~ slot.mem.real => Harmless(mem_wb)'
    BY <1>1, <1>4 DEF Results, Harmless
  <1>17. Results'
    BY <1>1, <1>2, <1>3, <1>9, <1>15, <1>16 DEF Results, Same, HarmlessIdEx
  <1>18. Neighbours'
    BY <1>1, <1>2, <1>3, <1>4 DEF Neighbours, BeforeMemory, BeforeExecute
  <1> QED BY <1>9, <1>10, <1>11, <1>12, <1>13, <1>14, <1>17, <1>18 DEF Ordered

\* write_back leaves what was pending in MEM/WB.
LEMMA WriteBackPending ==
  ASSUME write_back
  PROVE  REGS' = RegsW /\ hi' = HiW /\ lo' = LoW
  <1>1. WritesReg <=> GoesToReg(mem_wb)
    BY DEF WritesReg, WritesHi, WritesLo, GoesToReg
  <1>2. REGS' = RegsW
    BY <1>1 DEF write_back, RegsW, RegsBy
  <1>3. hi' = HiW /\ lo' = LoW
    BY DEF write_back, HiW, LoW, HiBy, LoBy, WritesHiLo, WritesHi, WritesLo
  <1> QED BY <1>2, <1>3

\* write_back makes the pending registers the registers.
LEMMA WriteBackOrdered ==
  ASSUME Running, write_back, UNCHANGED history
  PROVE  Ordered' /\ FrontWb' = FrontWb
  <1> USE DEF history, timers
  <1>1. /\ FrontEnd /\ Origins /\ Results /\ Order /\ HiLoOwned /\ Empties /\ Neighbours /\ TypeOK /\ LatchInv
        /\ SlotTypes /\ Slots /\ Live
    BY RunningParts DEF Running
  <1>2. REGS' = RegsW /\ hi' = HiW /\ lo' = LoW
    BY WriteBackPending
  <1>3. /\ stage = "write_back" /\ writeback_status = 1 /\ stage' = "memory" /\ writeback_status' = 0
        /\ UNCHANGED <<PC, if_id, id_ex, ex_mem, mem_wb, decode_status, execute_status, memory_status,
                       fetch_timer, dram, text, slot>>
    BY DEF write_back
  <1>4. RegsW' = RegsW /\ HiW' = HiW /\ LoW' = LoW
    BY <1>2, <1>3 DEF RegsW, HiW, LoW
  <1>5. MemoryValue' = MemoryValue
    BY <1>3 DEF MemoryValue
  <1>6. RegsM' = RegsM /\ HiM' = HiM /\ LoM' = LoM
    BY <1>3, <1>4, <1>5 DEF RegsM, HiM, LoM, RegsBy, HiBy, LoBy, GoesToReg
  <1>7. MemLatch' = MemLatch /\ ExLatch' = ExLatch
    BY <1>3, <1>4, <1>6 DEF MemLatch, ExLatch
  <1>8. FrontEx' = FrontEx /\ FrontMem' = FrontMem /\ FrontWb' = FrontWb
    BY <1>3 DEF FrontEx, FrontMem, FrontWb
  <1>9. FrontEnd' /\ Origins'
    BY <1>1, <1>3 DEF FrontEnd, Origins, Origin
  <1>10. Empties'
    BY <1>1, <1>3 DEF Empties, BeforeWb, BeforeMemory, BeforeExecute
  <1>11. Order'
    BY <1>1, <1>3, <1>7, <1>8 DEF Order
  <1>12. Neighbours'
    BY <1>1, <1>3, NeighboursKept DEF BeforeMemory, BeforeExecute
  <1>13. Results'
    <2>1. REGS'[0] = REGS[0]
      BY <1>1, <1>2, ZeroKept
    <2>2. memory_status = 1 =>
            IF slot.mem.real THEN (Holding(ex_mem, MemLatch) /\ HoldingAccess(ex_mem, MemLatch))'
            ELSE (Harmless(ex_mem) /\ ex_mem.mwrite = 0)'
      BY <1>1, <1>3, <1>7, <2>1 DEF Results, Harmless, Holding, HoldingAccess, GoesToReg
    <2>3. execute_status = 1 =>
            IF slot.ex.real THEN Same(id_ex, ExLatch, slot.ex.ir)' ELSE HarmlessIdEx(id_ex)'
      BY <1>1, <1>3, <1>7, <2>1 DEF Results, HarmlessIdEx, Same
    <2> QED BY <1>3, <2>2, <2>3 DEF Results
  <1>14. HiLoOwned'
    <2>1. ASSUME NEW r \in {HI, LO}, r \in Writes(slot.wb.ir)
          PROVE  r \in Released
      <3>1. slot.wb.ir # Nop
        BY <2>1, WritesIndices
      <3>2. slot.wb.real /\ Known(slot.wb.ir) /\ slot.wb.ir \in Instr
        BY <1>1, <1>3, <3>1, HeldTypes DEF Origins, Origin
      <3>3. WbLatch.ir = slot.wb.ir /\ WbLatch.ctl = ControlOf(slot.wb.ir, WbLatch.ctl)
        BY <3>2, LatchesFit
      <3>4. Holding(mem_wb, WbLatch)
        BY <1>1, <1>3, <3>2 DEF Results
      <3>5. WbLatch.ctl.reg_write = 1 /\ WbLatch.ctl.mem_to_rg = 0
        BY <2>1, <3>2, <3>3, HiLoControl
      <3>6. WritesHiLo /\ (r = HI => WritesHi) /\ (r = LO => WritesLo)
        BY <2>1, <3>3, <3>4, <3>5 DEF Holding, WritesHiLo, WritesHi, WritesLo
      <3> QED BY <2>1, <3>6, StatusIndices DEF Released
    <2>2. ASSUME NEW r \in {HI, LO}, registerStatus'[r] = 0
          PROVE  registerStatus[r] = 0 /\ r \notin Released
      BY <2>2, StatusIndices DEF write_back
    <2> QED BY <1>1, <1>3, <2>1, <2>2 DEF HiLoOwned
  <1> QED BY <1>8, <1>9, <1>10, <1>11, <1>12, <1>13, <1>14 DEF Ordered

\* When write_back stops the machine, memory has no store to make.
LEMMA WriteBackQuiet ==
  ASSUME Running, write_back, UNCHANGED history, RUN_BIT' # 1
  PROVE  Quiet'
  <1>1. /\ Origins /\ Results /\ Neighbours /\ TypeOK
    BY RunningParts DEF Running
  <1>2. /\ stage = "write_back" /\ writeback_status = 1 /\ stage' = "memory" /\ mem_wb.run_bit = 0
        /\ UNCHANGED <<ex_mem, memory_status>>
    <2>1. mem_wb.run_bit \in Bit
      BY <1>1 DEF TypeOK, MemWb
    <2> QED BY <2>1 DEF write_back, Bit
  <1>3. slot.wb.real /\ Holding(mem_wb, WbLatch) /\ Known(slot.wb.ir)
    BY <1>1, <1>2 DEF Results, Harmless, Origins, Origin
  <1>4. Special(slot.wb.ir, {"SYSCALL"})
    BY <1>2, <1>3, LatchesFit DEF Holding
  <1>5. ASSUME memory_status = 1 PROVE ex_mem.mwrite = 0
    <2>1. ~ (slot.mem.ir.opcode \in Stores)
      BY <1>1, <1>2, <1>4, <1>5 DEF Neighbours, BeforeMemory, StoresOn
    <2>2. slot.mem.ir \in Instr /\ Known(slot.mem.ir)
      BY <1>1, <1>5, RunningParts, HeldTypes DEF Origins, Origin
    <2>3. CASE slot.mem.real
      <3>1. MemLatch.ctl = ControlOf(slot.mem.ir, MemLatch.ctl)
        BY <2>2, LatchesFit
      <3>2. MemLatch.ctl.mwrite = Bool(slot.mem.ir.opcode \in Stores)
        BY <2>2, <3>1, SteeringFields
      <3> QED BY <1>1, <1>5, <2>1, <2>3, <3>2 DEF Results, HoldingAccess, Bool
    <2>4. CASE ~ slot.mem.real
      BY <1>1, <1>5, <2>4 DEF Results
    <2> QED BY <2>3, <2>4
  <1> QED BY <1>2, <1>5 DEF Quiet, Stopping

\* An instruction that is not for HI or LO carries the copies on.
LEMMA HiLoKept ==
  ASSUME NEW d
  PROVE  /\ (d.ctl.alu_op = "SPECIAL" => d.ir.funct \notin MulDiv \cup {"MTHI"}) => HiAfter(d).value = d.hi
         /\ (d.ctl.alu_op = "SPECIAL" => d.ir.funct \notin MulDiv \cup {"MTLO"}) => LoAfter(d).value = d.lo
  <1>1. (d.ctl.alu_op = "SPECIAL" => d.ir.funct \notin MulDiv \cup {"MTHI"}) => HiAfter(d) = Keep(d.hi)
    BY DEF HiAfter, RunsSpecial, Divides, MulDiv
  <1>2. (d.ctl.alu_op = "SPECIAL" => d.ir.funct \notin MulDiv \cup {"MTLO"}) => LoAfter(d) = Keep(d.lo)
    BY DEF LoAfter, RunsSpecial, Divides, MulDiv
  <1> QED BY <1>1, <1>2 DEF Keep

\* A bubble that is executed stays one.
LEMMA BubbleExecuted ==
  ASSUME TypeOK, HarmlessIdEx(id_ex), NEW m, m = Executed(id_ex, ex_mem)
  PROVE  /\ Harmless(m) /\ m.mwrite = 0 /\ m.branch = 0
         /\ m.hi.value = id_ex.hi /\ m.lo.value = id_ex.lo
  <1>1. /\ m.hi = HiAfter(id_ex) /\ m.lo = LoAfter(id_ex) /\ m.alu_result = AluResult(id_ex, ex_mem.alu_result)
        /\ m.mem_to_rg = id_ex.ctl.mem_to_rg /\ m.run_bit = id_ex.run_bit /\ m.write_register = DestinationOf(id_ex)
        /\ m.mwrite = id_ex.ctl.mwrite /\ m.reg_write = id_ex.ctl.reg_write /\ m.branch = id_ex.ctl.branch
    BY DEF Executed
  <1>2. CASE id_ex.ctl = NoControl("NONE")
    <2>1. /\ id_ex.ctl.reg_write = 0 /\ id_ex.ctl.mwrite = 0 /\ id_ex.ctl.branch = 0
          /\ id_ex.ctl.alu_op = "NONE"
      BY <1>2 DEF NoControl
    <2> QED BY <1>1, <2>1, HiLoKept DEF Harmless, HarmlessIdEx
  <1>3. CASE /\ id_ex.ctl = RdWrite("SPECIAL") /\ id_ex.ir = Nop /\ id_ex.rd = 0 /\ id_ex.rt.value = REGS[0]
    <2>1. /\ id_ex.ctl.reg_write = 1 /\ id_ex.ctl.mwrite = 0 /\ id_ex.ctl.branch = 0 /\ id_ex.ctl.mem_to_rg = 0
          /\ id_ex.ctl.alu_op = "SPECIAL" /\ id_ex.ctl.reg_dst = 1 /\ id_ex.ctl.alu_src = 0
      BY <1>3 DEF RdWrite, NoControl
    <2>2. id_ex.ir.funct = "SLL" /\ id_ex.ir.sa = 0
      BY <1>3 DEF Nop
    <2>3. id_ex.ir.funct \notin MulDiv \cup {"MTHI"} /\ id_ex.ir.funct \notin MulDiv \cup {"MTLO"}
      BY <2>2 DEF MulDiv
    <2>4. m.hi.index # 1 /\ m.lo.index # 1
      BY <1>1, <2>1, <2>3, Marks
    <2>5. m.write_register = 0
      BY <1>1, <1>3, <2>1 DEF DestinationOf
    <2>6. m.alu_result = REGS[0]
      <3>1. OperandB(id_ex) = REGS[0]
        BY <1>3, <2>1 DEF OperandB
      <3>2. \A old : SpecialResult(id_ex, OperandA(id_ex), REGS[0], old) = ShiftLeft(REGS[0], 0)
        BY <2>2 DEF SpecialResult
      <3>3. REGS[0] \in Word
        BY RegisterAssumption DEF TypeOK, Reg
      <3>4. ShiftLeft(REGS[0], 0) = REGS[0]
        <4>1. 2 ^ 0 = 1
          BY PowerAssumption
        <4>2. REGS[0] * 1 = REGS[0]
          BY <3>3, WordIsInt
        <4> QED BY <3>3, <4>1, <4>2, U32Word DEF ShiftLeft
      <3> QED BY <1>1, <2>1, <3>1, <3>2, <3>4 DEF AluResult
    <2> QED BY <1>1, <2>1, <2>3, <2>4, <2>5, <2>6, HiLoKept DEF Harmless, HarmlessIdEx
  <1> QED BY <1>2, <1>3 DEF HarmlessIdEx

\* The latch of an instruction holds its address.
LEMMA LatchPlaces ==
  ASSUME Running
  PROVE  /\ Known(slot.wb.ir) => WbLatch.pc = slot.wb.pc
         /\ Known(slot.mem.ir) => MemLatch.pc = slot.mem.pc
         /\ Known(slot.ex.ir) => ExLatch.pc = slot.ex.pc
  <1>1. /\ RegsW \in [Reg -> Word] /\ HiW \in Word /\ LoW \in Word
        /\ RegsM \in [Reg -> Word] /\ HiM \in Word /\ LoM \in Word
        /\ REGS \in [Reg -> Word] /\ hi \in Word /\ lo \in Word
    BY RunningParts, PendingTypes DEF TypeOK
  <1>2. /\ slot.ex.ir \in Instr /\ slot.mem.ir \in Instr /\ slot.wb.ir \in Instr
        /\ slot.ex.pc \in Word /\ slot.mem.pc \in Word /\ slot.wb.pc \in Word
    BY RunningParts, HeldTypes
  <1>3. ASSUME Known(slot.wb.ir) PROVE WbLatch.pc = slot.wb.pc
    <2>1. slot.wb.ir \in Instr /\ slot.wb.pc \in Word /\ REGS \in [Reg -> Word] /\ hi \in Word /\ lo \in Word
      BY <1>1, <1>2
    <2> QED BY <1>3, <2>1, LatchFields DEF WbLatch
  <1>4. ASSUME Known(slot.mem.ir) PROVE MemLatch.pc = slot.mem.pc
    <2>1. slot.mem.ir \in Instr /\ slot.mem.pc \in Word /\ RegsW \in [Reg -> Word] /\ HiW \in Word /\ LoW \in Word
      BY <1>1, <1>2
    <2> QED BY <1>4, <2>1, LatchFields DEF MemLatch
  <1>5. ASSUME Known(slot.ex.ir) PROVE ExLatch.pc = slot.ex.pc
    <2>1. slot.ex.ir \in Instr /\ slot.ex.pc \in Word /\ RegsM \in [Reg -> Word] /\ HiM \in Word /\ LoM \in Word
      BY <1>1, <1>2
    <2> QED BY <1>5, <2>1, LatchFields DEF ExLatch
  <1> QED BY <1>3, <1>4, <1>5

\* What execute hands to the memory stage.
LEMMA ExecuteResults ==
  ASSUME Running, execute
  PROVE  /\ slot.ex.real => Holding(ex_mem', ExLatch) /\ HoldingAccess(ex_mem', ExLatch)
         /\ ~ slot.ex.real => Harmless(ex_mem') /\ ex_mem'.mwrite = 0 /\ ex_mem'.branch = 0
         /\ HI \notin Writes(slot.ex.ir) => ex_mem'.hi.value = id_ex.hi
         /\ LO \notin Writes(slot.ex.ir) => ex_mem'.lo.value = id_ex.lo
  <1>1. /\ execute_status = 1 /\ ex_mem' = Executed(id_ex, ex_mem) /\ TypeOK
        /\ slot.ex.ir \in Instr /\ Known(slot.ex.ir) /\ slot.ex.real \in BOOLEAN
    BY RunningParts, HeldTypes DEF execute, Origins, Origin
  <1>2. CASE slot.ex.real
    <2> DEFINE i == slot.ex.ir
    <2>1. Same(id_ex, ExLatch, i)
      BY <1>1, <1>2, RunningParts DEF Results
    <2>2. ExLatch.ctl = ControlOf(i, ExLatch.ctl)
      BY <1>1, LatchesFit
    <2>3. id_ex.ir = i /\ id_ex.ctl = ExLatch.ctl
      BY <2>1 DEF Same
    <2>4. Special(i, {"DIV", "DIVU"}) => id_ex.rt.value # 0
      <3>1. Holds(id_ex, i)
        BY <1>1, RunningParts DEF Slots
      <3>2. /\ ExLatch.ctl.alu_op = "SPECIAL" /\ ExLatch.ctl.reg_write = 1 <=> Special(i, Computing)
        BY <1>1, <2>2, WritesCases
      <3>3. Special(i, {"DIV", "DIVU"}) => Special(i, Computing)
        BY DEF Special, Computing, MulDiv
      <3> QED BY <2>3, <3>1, <3>2, <3>3 DEF Holds
    <2>5. Holding(ex_mem', ExLatch) /\ HoldingAccess(ex_mem', ExLatch)
      BY <1>1, <2>1, <2>2, <2>4, ExecutedHolding
    <2>6. ExLatch.ctl.alu_op = IF Links(i) THEN "LB" ELSE i.opcode
      BY <1>1, <2>2, SteeringFields
    <2>7. ex_mem'.hi = HiAfter(id_ex) /\ ex_mem'.lo = LoAfter(id_ex)
      BY <1>1 DEF Executed
    <2>8. HI \notin Writes(i) => HiAfter(id_ex).value = id_ex.hi
      <3>1. HI \notin Writes(i) => (i.opcode = "SPECIAL" => i.funct \notin MulDiv \cup {"MTHI"})
        BY <1>1, HiLoWriters DEF Special
      <3> QED BY <2>3, <2>6, <3>1, HiLoKept
    <2>9. LO \notin Writes(i) => LoAfter(id_ex).value = id_ex.lo
      <3>1. LO \notin Writes(i) => (i.opcode = "SPECIAL" => i.funct \notin MulDiv \cup {"MTLO"})
        BY <1>1, HiLoWriters DEF Special
      <3> QED BY <2>3, <2>6, <3>1, HiLoKept
    <2> QED BY <1>2, <2>5, <2>7, <2>8, <2>9
  <1>3. CASE ~ slot.ex.real
    <2>1. HarmlessIdEx(id_ex)
      BY <1>1, <1>3, RunningParts DEF Results
    <2> QED BY <1>1, <1>3, <2>1, BubbleExecuted
  <1> QED BY <1>2, <1>3

\* Where execute sends the front end.
LEMMA ExecuteOrder ==
  ASSUME Running, execute,
         slot' = [slot EXCEPT !.mem = slot.ex, !.id = @ /\ ~ (ex_mem'.branch = 1 /\ ex_mem'.branchCondition = 1)]
  PROVE  /\ slot.ex.real => FrontEx' = NextOf(ExLatch)
         /\ ~ slot.ex.real => FrontEx' = FrontEx
         /\ FrontEnd'
  <1>1. /\ execute_status = 1 /\ ex_mem' = Executed(id_ex, ex_mem) /\ TypeOK /\ FrontEnd /\ Order /\ Results
        /\ slot.ex.ir \in Instr /\ Known(slot.ex.ir) /\ slot.ex.real \in BOOLEAN
        /\ slot.id \in BOOLEAN
    BY RunningParts, HeldTypes DEF execute, Origins, Origin
  <1>2. /\ ex_mem'.branch = id_ex.ctl.branch /\ ex_mem'.branchCondition = BranchCondition(id_ex, ex_mem.branchCondition)
        /\ stage = "execute" /\ stage' = "decode"
        /\ UNCHANGED <<decode_status, fetch_timer, text>>
    BY DEF execute, Executed, timers
  <1>3. CASE ex_mem'.branch = 1 /\ ex_mem'.branchCondition = 1
    <2>1. PC' = BranchTarget(id_ex) /\ if_id' = EmptyIfId
      BY <1>3 DEF execute, Flush
    <2>2. slot'.id = FALSE
      BY <1>3, RunningParts, HeldTypes
    <2>3. slot.ex.real
      BY <1>1, <1>3, ExecuteResults
    <2>4. Same(id_ex, ExLatch, slot.ex.ir) /\ ExLatch.ctl = ControlOf(slot.ex.ir, ExLatch.ctl)
      BY <1>1, <2>3, LatchesFit DEF Results
    <2>5. id_ex.ctl = ExLatch.ctl /\ id_ex.ctl.branch = 1
      BY <1>2, <1>3, <2>4 DEF Same
    <2>6. BranchCondition(id_ex, ex_mem.branchCondition) = BranchCondition(ExLatch, 0)
          /\ BranchTarget(id_ex) = BranchTarget(ExLatch)
      BY <1>1, <2>4, <2>5, SameBranch
    <2>7. ExLatch.ctl.jump # 1
      <3>1. /\ ExLatch.ctl.jump = Bool(slot.ex.ir.opcode \in {"J", "JAL"} \/ Special(slot.ex.ir, RegJumps))
            /\ ExLatch.ctl.branch = Bool(slot.ex.ir.opcode \in {"REGIMM"} \cup CmpBranch)
        BY <1>1, <2>4, SteeringFields
      <3> QED BY <2>5, <3>1 DEF Bool, CmpBranch, Special
    <2>8. FrontEx' = NextOf(ExLatch)
      BY <1>2, <1>3, <2>1, <2>2, <2>5, <2>6, <2>7 DEF FrontEx, NextOf
    <2>9. FrontEnd'
      BY <1>1, <1>2, <2>1, <2>2 DEF FrontEnd
    <2> QED BY <2>3, <2>8, <2>9
  <1>4. CASE ~ (ex_mem'.branch = 1 /\ ex_mem'.branchCondition = 1)
    <2>1. UNCHANGED <<PC, if_id>>
      BY <1>4 DEF execute
    <2>2. slot'.id = slot.id
      BY <1>1, <1>4, RunningParts, HeldTypes
    <2>3. FrontEx' = FrontEx /\ FrontEnd'
      BY <1>1, <1>2, <2>1, <2>2 DEF FrontEx, FrontEnd
    <2>4. ASSUME slot.ex.real PROVE FrontEx = NextOf(ExLatch)
      <3>1. Same(id_ex, ExLatch, slot.ex.ir) /\ ExLatch.ctl = ControlOf(slot.ex.ir, ExLatch.ctl)
        BY <1>1, <2>4, LatchesFit DEF Results
      <3>2. id_ex.ctl = ExLatch.ctl /\ (id_ex.ctl.jump = 1 => id_ex.jumpAddress = ExLatch.jumpAddress)
        BY <3>1 DEF Same
      <3>3. FrontEx = IF id_ex.ctl.jump = 1 THEN id_ex.jumpAddress ELSE U32(slot.ex.pc + 4)
        BY <1>1, <2>4 DEF Order
      <3>4. ExLatch.pc = slot.ex.pc
        BY <1>1, LatchPlaces
      <3>5. ~ (ExLatch.ctl.branch = 1 /\ BranchCondition(ExLatch, 0) = 1)
        <4> SUFFICES ASSUME ExLatch.ctl.branch = 1 PROVE BranchCondition(ExLatch, 0) # 1
          OBVIOUS
        <4>1. BranchCondition(id_ex, ex_mem.branchCondition) = BranchCondition(ExLatch, 0)
          BY <1>1, <3>1, <3>2, SameBranch
        <4> QED BY <1>2, <1>4, <3>2, <4>1
      <3> QED BY <3>2, <3>3, <3>4, <3>5 DEF NextOf
    <2> QED BY <2>3, <2>4
  <1> QED BY <1>3, <1>4

\* execute leaves the results of SeqMachine in EX/MEM, and a taken branch
\* drops what was fetched behind it.
LEMMA ExecuteOrdered ==
  ASSUME Running, execute,
         slot' = [slot EXCEPT !.mem = slot.ex, !.id = @ /\ ~ (ex_mem'.branch = 1 /\ ex_mem'.branchCondition = 1)]
  PROVE  Ordered' /\ FrontWb' = FrontWb
  <1>1. /\ FrontEnd /\ Origins /\ Results /\ Order /\ HiLoOwned /\ Empties /\ Neighbours /\ TypeOK
        /\ StallDiscipline /\ Live /\ Due /\ slot.ex.real \in BOOLEAN
    BY RunningParts, HeldTypes DEF Running
  <1>2. slot'.ex = slot.ex /\ slot'.mem = slot.ex /\ slot'.wb = slot.wb
    BY RunningParts, HeldTypes
  <1>3. /\ stage = "execute" /\ stage' = "decode" /\ memory_status = 0 /\ memory_status' = 1
        /\ execute_status = 1 /\ execute_status' = 0
        /\ UNCHANGED <<REGS, hi, lo, mem_wb, decode_status, writeback_status, fetch_timer, dram, text, registerStatus>>
    BY <1>1 DEF execute, timers, board, Due
  <1>4. RegsW' = RegsW /\ HiW' = HiW /\ LoW' = LoW
    BY <1>3 DEF RegsW, HiW, LoW, RegsBy, HiBy, LoBy, WriteBackValue, GoesToReg
  <1>5. RegsM = RegsW /\ HiM = HiW /\ LoM = LoW
    BY <1>3 DEF RegsM, HiM, LoM
  <1>6. MemLatch' = ExLatch /\ WbLatch' = WbLatch
    BY <1>2, <1>3, <1>4, <1>5 DEF MemLatch, ExLatch, WbLatch
  <1>7. /\ slot.ex.real => FrontEx' = NextOf(ExLatch)
        /\ ~ slot.ex.real => FrontEx' = FrontEx
        /\ FrontEnd'
    BY ExecuteOrder
  <1>8. FrontMem' = FrontEx'
    BY <1>3 DEF FrontMem
  <1>9. FrontWb' = FrontWb
    BY <1>2, <1>3, <1>7, <1>8 DEF FrontWb, FrontMem
  <1>10. Order'
    BY <1>1, <1>2, <1>3, <1>6, <1>7, <1>8, <1>9 DEF Order
  <1>11. Origins' /\ HiLoOwned'
    BY <1>1, <1>2, <1>3 DEF Origins, Origin, HiLoOwned
  <1>12. Empties'
    BY <1>1, <1>2, <1>3 DEF Empties, BeforeWb, BeforeMemory, BeforeExecute, FrontEnd
  <1>13. Results'
    <2>1. writeback_status = 1 =>
            IF slot.wb.real
              THEN Holding(mem_wb, WbLatch)' /\ (mem_wb.mem_to_rg = 1 => mem_wb.memory_data = LoadedBy(WbLatch))'
              ELSE Harmless(mem_wb)'
      BY <1>1, <1>2, <1>3, <1>6 DEF Results, Holding, Harmless, LoadedBy, GoesToReg
    <2>2. IF slot'.mem.real THEN (Holding(ex_mem, MemLatch) /\ HoldingAccess(ex_mem, MemLatch))'
          ELSE (Harmless(ex_mem) /\ ex_mem.mwrite = 0)'
      <3>1. CASE slot.ex.real
        BY <1>2, <1>6, <3>1, ExecuteResults DEF Holding, HoldingAccess, GoesToReg
      <3>2. CASE ~ slot.ex.real
        BY <1>2, <1>3, <3>2, ExecuteResults DEF Harmless
      <3> QED BY <3>1, <3>2
    <2> QED BY <1>2, <1>3, <2>1, <2>2 DEF Results
  <1>14. Neighbours'
    <2>1. /\ Carries(slot.ex, id_ex.hi, slot.wb, mem_wb.hi.value, HI)
          /\ Carries(slot.ex, id_ex.lo, slot.wb, mem_wb.lo.value, LO)
          /\ StoresOn(slot.ex, slot.wb, mem_wb.run_bit)
      BY <1>1, <1>3 DEF Neighbours
    <2>2. /\ HI \notin Writes(slot.ex.ir) => ex_mem'.hi.value = id_ex.hi
          /\ LO \notin Writes(slot.ex.ir) => ex_mem'.lo.value = id_ex.lo
      BY ExecuteResults
    <2>3. /\ Carries(slot.ex, ex_mem'.hi.value, slot.wb, mem_wb.hi.value, HI)
          /\ Carries(slot.ex, ex_mem'.lo.value, slot.wb, mem_wb.lo.value, LO)
      BY <2>1, <2>2 DEF Carries
    <2>4. execute_status' # 1
      BY <1>3
    <2>5. (/\ Carries(slot.mem, ex_mem.hi.value, slot.wb, mem_wb.hi.value, HI)
           /\ Carries(slot.mem, ex_mem.lo.value, slot.wb, mem_wb.lo.value, LO)
           /\ StoresOn(slot.mem, slot.wb, mem_wb.run_bit))'
      BY <1>2, <1>3, <2>1, <2>3 DEF Carries, StoresOn
    <2> QED BY <2>4, <2>5 DEF Neighbours
  <1> QED BY <1>7, <1>9, <1>10, <1>11, <1>12, <1>13, <1>14 DEF Ordered

\* What the two ways through decode leave alone.
LEMMA AheadKept ==
  ASSUME Running, stage = "decode", stage' = "fetch",
         UNCHANGED <<REGS, hi, lo, ex_mem, mem_wb, memory_status, writeback_status, dram, text,
                     slot.mem, slot.wb>>,
         FrontMem' = FrontMem,
         execute_status' = 1,
         Origin(slot.ex)',
         IF slot'.ex.real THEN Same(id_ex', ExLatch', slot'.ex.ir) ELSE HarmlessIdEx(id_ex)',
         slot'.ex.real => FrontEx' = IF id_ex'.ctl.jump = 1 THEN id_ex'.jumpAddress ELSE U32(slot'.ex.pc + 4),
         Carries(slot'.ex, id_ex'.hi, slot.mem, ex_mem.hi.value, HI),
         Carries(slot'.ex, id_ex'.lo, slot.mem, ex_mem.lo.value, LO),
         StoresOn(slot'.ex, slot.mem, ex_mem.run_bit)
  PROVE  /\ Origins' /\ Results' /\ Order' /\ Neighbours' /\ FrontWb' = FrontWb
  <1>1. /\ RegsW' = RegsW /\ HiW' = HiW /\ LoW' = LoW
    BY PendingKept
  <1>2. WbLatch' = WbLatch /\ MemLatch' = MemLatch
    BY <1>1 DEF WbLatch, MemLatch
  <1>3. FrontWb' = FrontWb
    BY DEF FrontWb
  <1>4. Origins /\ Results /\ Order /\ Neighbours
    BY RunningParts
  <1>5. Origins'
    BY <1>4 DEF Origins, Origin
  <1>6. Order'
    BY <1>2, <1>3, <1>4 DEF Order
  <1>7. Results'
    <2>1. writeback_status = 1 =>
            IF slot.wb.real
              THEN Holding(mem_wb, WbLatch)' /\ (mem_wb.mem_to_rg = 1 => mem_wb.memory_data = LoadedBy(WbLatch))'
              ELSE Harmless(mem_wb)'
      BY <1>2, <1>4 DEF Results, Holding, Harmless, LoadedBy, GoesToReg
    <2>2. memory_status = 1 =>
            IF slot.mem.real THEN (Holding(ex_mem, MemLatch) /\ HoldingAccess(ex_mem, MemLatch))'
            ELSE (Harmless(ex_mem) /\ ex_mem.mwrite = 0)'
      BY <1>2, <1>4 DEF Results, Holding, Harmless, HoldingAccess, GoesToReg
    <2>3. IF slot'.ex.real THEN Same(id_ex, ExLatch, slot.ex.ir)' ELSE HarmlessIdEx(id_ex)'
      BY DEF Same
    <2> QED BY <2>1, <2>2, <2>3 DEF Results
  <1>8. Neighbours'
    <2>1. memory_status' = 1 /\ stage' \in BeforeMemory \ {"memory"} =>
            /\ Carries(slot.mem, ex_mem.hi.value, slot.wb, mem_wb.hi.value, HI)
            /\ Carries(slot.mem, ex_mem.lo.value, slot.wb, mem_wb.lo.value, LO)
            /\ StoresOn(slot.mem, slot.wb, mem_wb.run_bit)
      BY <1>4 DEF Neighbours, BeforeMemory
    <2> QED BY <2>1 DEF Neighbours, Carries, StoresOn
  <1> QED BY <1>3, <1>5, <1>6, <1>7, <1>8

\* The load interlock puts a bubble behind the load.
LEMMA DecodeStallOrdered ==
  ASSUME Running, decode_stall, slot' = [slot EXCEPT !.ex = Bubble]
  PROVE  Ordered' /\ FrontWb' = FrontWb
  <1>1. /\ FrontEnd /\ Empties /\ HiLoOwned /\ TypeOK /\ StallDiscipline /\ Live /\ Due
    BY RunningParts DEF Running
  <1>2. /\ slot'.id = slot.id /\ slot'.ex = Bubble /\ slot'.mem = slot.mem /\ slot'.wb = slot.wb
    BY RunningParts, HeldTypes
  <1>3. /\ stage = "decode" /\ decode_status = 1 /\ execute_status = 0 /\ stage' = "fetch"
        /\ decode_status' = 0 /\ fetch_timer' = 2 /\ execute_status' = 1
        /\ UNCHANGED <<PC, REGS, hi, lo, if_id, ex_mem, mem_wb, memory_status, writeback_status,
                       registerStatus, dram, text>>
    BY <1>1 DEF decode_stall, StopFrontEnd, StallCycles, cpu, Due, TypeOK, Bit
  <1>4. id_ex'.ctl = NoControl("NONE") /\ id_ex'.run_bit = 1
    BY DEF decode_stall, EmptyIdEx
  <1>5. Bubble.ir = Nop /\ Bubble.pc = 0 /\ Bubble.real = FALSE /\ Bubble.fwd = 0
    BY DEF Bubble
  <1>6. FrontEx' = FrontEx /\ FrontMem' = FrontMem
    BY <1>2, <1>3, <1>5 DEF FrontEx, FrontMem
  <1>7. Origin(slot.ex)'
    <2>1. Known(Nop) /\ ~ WritesRegisterZero(Nop)
      BY DEF Nop, WritesRegisterZero, Known, Special, AluFuncts, ShiftFuncts
    <2> QED BY <1>2, <1>5, <2>1 DEF Origin
  <1>8. HarmlessIdEx(id_ex)'
    BY <1>4 DEF HarmlessIdEx
  <1>9. /\ Carries(slot'.ex, id_ex'.hi, slot.mem, ex_mem.hi.value, HI)
        /\ Carries(slot'.ex, id_ex'.lo, slot.mem, ex_mem.lo.value, LO)
        /\ StoresOn(slot'.ex, slot.mem, ex_mem.run_bit)
    BY <1>2, <1>5 DEF Carries, StoresOn, Nop, Stores
  <1>10. Origins' /\ Results' /\ Order' /\ Neighbours' /\ FrontWb' = FrontWb
    BY <1>2, <1>3, <1>5, <1>6, <1>7, <1>8, <1>9, AheadKept
  <1>11. FrontEnd'
    BY <1>1, <1>2, <1>3 DEF FrontEnd
  <1>12. Empties'
    BY <1>1, <1>2, <1>3 DEF Empties, BeforeWb, BeforeMemory, BeforeExecute
  <1>13. HiLoOwned'
    BY <1>1, <1>2, <1>3 DEF HiLoOwned
  <1> QED BY <1>10, <1>11, <1>12, <1>13 DEF Ordered

\* The fields of the latch decode leaves.
LEMMA DecodedParts ==
  ASSUME Decoding
  PROVE  LET i == if_id.ir
         IN /\ i \in Instr /\ Known(i) /\ Decoded \in IdEx
            /\ Decoded.ir = i /\ Decoded.pc = if_id.pc /\ Decoded.ctl = ControlOf(i, NoControl("NONE"))
            /\ DestinationOf(Decoded) = Names(i)
            /\ Decoded.hi = IF DependencyAfter(i) = 1 THEN BypassHiLo(ex_mem.hi, mem_wb.hi, hi) ELSE hi
            /\ Decoded.lo = IF DependencyAfter(i) = 1 THEN BypassHiLo(ex_mem.lo, mem_wb.lo, lo) ELSE lo
            /\ i = Nop => Decoded.rt.value = REGS[0]
            /\ Decoded.run_bit = 0 => Special(i, {"SYSCALL"})
  <1>1. /\ Running /\ stage = "decode" /\ load = 0 /\ if_id.ir \in Instr /\ Known(if_id.ir)
        /\ TypeOK /\ LatchInv /\ LoadProgress /\ Live
    BY ClearOfIdioms, RunningParts DEF Decoding, TypeOK, Running
  <1>2. Silent(id_ex.ctl)
    <2>1. id_ex.ctl \in Control
      BY <1>1 DEF TypeOK, IdEx
    <2>2. id_ex.ctl.mread # 1
      BY <1>1 DEF LoadProgress
    <2> QED BY <1>1, <2>1, <2>2 DEF LatchInv, GoodControl, Silent, Control, Bit
  <1>3. Decoded \in IdEx
    BY <1>1, <1>2, DecodedSound
  <1>4. ASSUME if_id.ir = Nop PROVE Decoded.rt.value = REGS[0]
    <2>1. ~ Links(Nop) /\ ~ Regimm(Nop, LinkBranch) /\ Nop.rt = 0
      BY DEF Links, Nop, Special, Regimm
    <2>2. Taken(Nop, 0, REGS[0]) = REGS[0]
      BY DEF Taken, Bypass
    <2> QED BY <1>1, <1>2, <1>4, <2>1, <2>2, DecodedFields
  <1> QED BY <1>1, <1>2, <1>3, <1>4, DecodedFields

\* A slot the front end left empty is decoded to a bubble.
LEMMA BubbleDecoded ==
  ASSUME Decoding, if_id.ir = Nop
  PROVE  HarmlessIdEx(Decoded) /\ Decoded.ctl.jump # 1
  <1>1. Nop.opcode = "SPECIAL" /\ Nop.funct = "SLL" /\ Nop.rd = 0 /\ Nop \in Instr /\ Known(Nop)
    BY DecodedParts DEF Nop
  <1>2. Special(Nop, Computing) /\ ~ Special(Nop, {"SYSCALL"}) /\ ~ Special(Nop, {"JR"}) /\ ~ Special(Nop, {"JALR"})
    BY <1>1 DEF Special, Computing, AluFuncts, ShiftFuncts
  <1>3. Decoded.ctl = RdWrite("SPECIAL")
    <2>1. Decoded.ctl = ControlOf(Nop, NoControl("NONE"))
      BY DecodedParts
    <2>2. /\ Nop.opcode \notin ImmOps \cup {"LUI"} /\ Nop.opcode \notin CmpBranch /\ Nop.opcode \notin Loads
          /\ Nop.opcode \notin Stores /\ Nop.opcode # "J" /\ Nop.opcode # "JAL" /\ \A S : ~ Regimm(Nop, S)
      BY <1>1 DEF ImmOps, CmpBranch, Loads, Stores, Regimm
    <2> QED BY <1>1, <1>2, <2>1, <2>2, ControlCases
  <1>4. Decoded.ctl.reg_dst = 1 /\ Decoded.ctl.jump # 1
    BY <1>3 DEF RdWrite, NoControl
  <1>5. Decoded.rd = 0
    BY <1>4, DecodedParts, WritesIndices DEF DestinationOf
  <1>6. Decoded.run_bit = 1
    <2>1. Decoded.run_bit \in Bit
      BY DecodedParts DEF IdEx
    <2> QED BY <1>2, <2>1, DecodedParts DEF Bit
  <1> QED BY <1>3, <1>4, <1>5, <1>6, DecodedParts DEF HarmlessIdEx

\* decode hands on an instruction whose operands are SeqMachine's.
LEMMA DecodeOrdered ==
  ASSUME Decoding, decode,
         slot' = [slot EXCEPT !.ex = [ir |-> if_id.ir, pc |-> if_id.pc, real |-> slot.id,
                                      fwd |-> DependencyAfter(if_id.ir)],
                              !.id = FALSE]
  PROVE  Ordered' /\ FrontWb' = FrontWb
  <1> DEFINE i == if_id.ir
  <1>1. /\ FrontEnd /\ Empties /\ HiLoOwned /\ TypeOK /\ StallDiscipline /\ Live /\ Due /\ Running
        /\ Known(i) /\ ~ WritesRegisterZero(i) /\ ~ StoreBehindHalt(i) /\ slot.id \in BOOLEAN
    BY RunningParts, ClearOfIdioms, HeldTypes DEF Running, Decoding
  <1>2. /\ slot'.id = FALSE /\ slot'.mem = slot.mem /\ slot'.wb = slot.wb
        /\ slot'.ex.ir = i /\ slot'.ex.pc = if_id.pc /\ slot'.ex.real = slot.id /\ slot'.ex.fwd = DependencyAfter(i)
    BY <1>1, RunningParts, HeldTypes
  <1>3. /\ stage = "decode" /\ decode_status = 1 /\ execute_status = 0 /\ stage' = "fetch"
        /\ decode_status' = 0 /\ fetch_timer = 0 /\ fetch_timer' = 0 /\ execute_status' = 1 /\ id_ex' = Decoded
        /\ UNCHANGED <<REGS, hi, lo, ex_mem, mem_wb, memory_status, writeback_status, dram, text>>
        /\ PC' = IF Decoded.ctl.jump = 1 THEN Decoded.jumpAddress ELSE PC
    BY <1>1 DEF decode, timers, Due, TypeOK, Bit, StallDiscipline, Live, Stages
  <1>4. IF slot.id THEN i = FetchedFrom(text, if_id.pc) /\ PC = U32(if_id.pc + 4)
        ELSE i = Nop /\ if_id.pc = 0 /\ Decoded.ctl.jump # 1 /\ HarmlessIdEx(Decoded)
    <2>1. CASE slot.id
      BY <1>1, <1>3, <2>1 DEF FrontEnd
    <2>2. CASE ~ slot.id
      <3>1. i = Nop /\ if_id.pc = 0
        BY <1>1, <1>3, <2>2 DEF FrontEnd, EmptyIfId
      <3> QED BY <2>2, <3>1, BubbleDecoded
    <2> QED BY <2>1, <2>2
  <1>5. FrontMem' = FrontMem
    <2>1. FrontEx' = PC'
      BY <1>2 DEF FrontEx
    <2>2. FrontMem = FrontEx
      BY <1>3 DEF FrontMem
    <2>3. FrontMem' = IF slot.id THEN if_id.pc ELSE PC'
      BY <1>2, <1>3, <2>1 DEF FrontMem
    <2> QED BY <1>3, <1>4, <2>2, <2>3 DEF FrontEx
  <1>6. Origin(slot.ex)'
    BY <1>1, <1>2, <1>3, <1>4 DEF Origin
  <1>7. /\ RegsM' = RegsM /\ HiM' = HiM /\ LoM' = LoM
    BY <1>3, PendingKept
  <1>8. ExLatch' = LatchOf(i, if_id.pc, RegsM, HiM, LoM)
    BY <1>2, <1>7 DEF ExLatch
  <1>9. IF slot'.ex.real THEN Same(id_ex', ExLatch', slot'.ex.ir) ELSE HarmlessIdEx(id_ex)'
    <2>1. CASE slot.id
      BY <1>2, <1>3, <1>8, <2>1, DecodedSame
    <2>2. CASE ~ slot.id
      BY <1>2, <1>3, <1>4, <2>2 DEF HarmlessIdEx
    <2> QED BY <2>1, <2>2
  <1>10. slot'.ex.real => FrontEx' = IF id_ex'.ctl.jump = 1 THEN id_ex'.jumpAddress ELSE U32(slot'.ex.pc + 4)
    BY <1>2, <1>3, <1>4 DEF FrontEx
  <1>11. /\ Carries(slot'.ex, id_ex'.hi, slot.mem, ex_mem.hi.value, HI)
         /\ Carries(slot'.ex, id_ex'.lo, slot.mem, ex_mem.lo.value, LO)
    BY <1>2, <1>3, DecodedParts DEF Carries, BypassHiLo
  <1>12. StoresOn(slot'.ex, slot.mem, ex_mem.run_bit)
    BY <1>1, <1>2 DEF StoresOn, StoreBehindHalt, ahead1
  <1>13. Origins' /\ Results' /\ Order' /\ Neighbours' /\ FrontWb' = FrontWb
    BY <1>1, <1>2, <1>3, <1>5, <1>6, <1>9, <1>10, <1>11, <1>12, AheadKept
  <1>14. FrontEnd'
    BY <1>1, <1>2, <1>3 DEF FrontEnd
  <1>15. Empties'
    BY <1>1, <1>2, <1>3 DEF Empties, BeforeWb, BeforeMemory, BeforeExecute
  <1>16. HiLoOwned'
    <2>1. Reserved(Decoded) \subseteq Writes(i)
      <3>1. /\ Decoded.ctl.reg_write \in Bit
            /\ Decoded.ctl.reg_write = 1 => Writes(i) = IF Special(i, MulDiv) THEN {HI, LO} ELSE {Names(i)}
        BY DecodedParts, WritesCases
      <3> QED BY <3>1, DecodedParts DEF Reserved, Bit
    <2>2. ASSUME NEW r \in {HI, LO}, registerStatus'[r] = 0
          PROVE  r \in Writes(i) \/ registerStatus[r] = 0
      BY <2>1, <2>2, StatusIndices DEF decode
    <2> QED BY <1>1, <1>2, <1>3, <2>2 DEF HiLoOwned
  <1> QED BY <1>13, <1>14, <1>15, <1>16 DEF Ordered

\* A cycle that is not the last leaves the pipeline as it is.
LEMMA CycleEndOrdered ==
  ASSUME Running, cycle_end, UNCHANGED history, Live'
  PROVE  Ordered' /\ FrontWb' = FrontWb /\ RUN_BIT' = 1
  <1> USE DEF history
  <1>1. /\ FrontEnd /\ Origins /\ Results /\ Order /\ HiLoOwned /\ Empties /\ Neighbours /\ TypeOK
        /\ RUN_BIT = 1
    BY RunningParts DEF Running
  <1>2. /\ stage = "cycle_end" /\ stage' = "check_stall" /\ RUN_BIT' = 1
        /\ UNCHANGED <<PC, REGS, hi, lo, if_id, ex_mem, mem_wb, execute_status, memory_status, writeback_status,
                       decode_status, fetch_timer, dram, id_ex, registerStatus, text, slot>>
    BY <1>1 DEF cycle_end, Live, board, statuses, timers
  <1>3. FrontEx' = FrontEx
    BY <1>2 DEF FrontEx
  <1>4. Origins' /\ Results' /\ Order' /\ HiLoOwned' /\ FrontWb' = FrontWb
    BY <1>1, <1>2, <1>3, BackEndKept
  <1>5. FrontEnd'
    BY <1>1, <1>2 DEF FrontEnd
  <1>6. Empties'
    BY <1>1, <1>2 DEF Empties, BeforeWb, BeforeMemory, BeforeExecute
  <1>7. Neighbours'
    BY <1>1, <1>2, NeighboursKept DEF BeforeMemory, BeforeExecute
  <1> QED BY <1>2, <1>4, <1>5, <1>6, <1>7 DEF Ordered

\* A machine that was stopped finishes its cycle.
LEMMA QuietKept ==
  ASSUME TypeOK, Live, RUN_BIT # 1, Quiet, RetireStep, Live'
  PROVE  RUN_BIT' # 1 /\ Quiet'
  <1> USE DEF Quiet, Stopping
  <1>1. RUN_BIT = 0
    BY DEF TypeOK, Bit
  <1>2. CASE memory \/ execute \/ decode \/ decode_stall \/ fetch
    BY <1>2 DEF memory, execute, decode, decode_stall, fetch
  <1>3. CASE \/ Skip("memory", memory_status, "execute") \/ Skip("execute", execute_status, "decode")
             \/ Skip("decode", decode_status, "fetch") \/ Skip("fetch", fetch_status, "cycle_end")
    BY <1>3 DEF Skip
  <1>4. ~ check_stall /\ ~ write_back /\ ~ Skip("write_back", writeback_status, "memory")
    BY DEF check_stall, write_back, Skip
  <1>5. ~ trap /\ ~ cycle_end
    BY <1>1 DEF trap, cycle_end, Live
  <1> QED BY <1>2, <1>3, <1>4, <1>5 DEF RetireStep

----------------------------------------------------------------------------
(* The invariant holds                                                     *)

\* The first state is in order: nothing is in flight.
LEMMA RetireInitInv == RetireInit => RetireInv
  <1> SUFFICES ASSUME RetireInit PROVE Ordered
    BY DEF RetireInit, Init, RetireInv
  <1> USE DEF RetireInit, Init
  <1>1. slot.id = FALSE /\ slot.ex = Bubble /\ slot.mem = Bubble /\ slot.wb = Bubble
    OBVIOUS
  <1>2. FrontEnd /\ Origins /\ Empties /\ Results /\ Order /\ Neighbours
    BY <1>1 DEF FrontEnd, Origins, Empties, Results, Order, Neighbours
  <1>3. HiLoOwned
    BY StatusIndices DEF HiLoOwned, AllReady
  <1> QED BY <1>2, <1>3 DEF Ordered

\* Every step of a machine that runs keeps the pipeline in order.
LEMMA RunningStep ==
  ASSUME Running, RetireStep, Live', hazard' = {}
  PROVE  /\ RUN_BIT' = 1 => Ordered'
         /\ RUN_BIT' # 1 => Quiet'
  <1>1. RUN_BIT = 1 /\ hazard = {}
    BY DEF Running
  <1>2. CASE decode /\ slot' = [slot EXCEPT !.ex = [ir |-> if_id.ir, pc |-> if_id.pc, real |-> slot.id,
                                                    fwd |-> DependencyAfter(if_id.ir)],
                                            !.id = FALSE]
                    /\ hazard' = hazard \cup Idioms(if_id.ir)
    <2>1. Decoding
      BY <1>2 DEF Decoding, decode
    <2> QED BY <1>1, <1>2, <2>1, DecodeOrdered DEF decode
  <1>3. CASE decode_stall /\ slot' = [slot EXCEPT !.ex = Bubble]
    BY <1>1, <1>3, DecodeStallOrdered DEF decode_stall
  <1>4. CASE /\ execute
             /\ slot' = [slot EXCEPT !.mem = slot.ex,
                                     !.id = @ /\ ~ (ex_mem'.branch = 1 /\ ex_mem'.branchCondition = 1)]
    BY <1>1, <1>4, ExecuteOrdered DEF execute
  <1>5. CASE memory /\ slot' = [slot EXCEPT !.wb = slot.mem]
    BY <1>1, <1>5, MemoryOrdered DEF memory
  <1>6. CASE fetch /\ slot' = [slot EXCEPT !.id = TRUE]
    BY <1>1, <1>6, FetchOrdered DEF fetch
  <1>7. CASE check_stall /\ UNCHANGED history
    BY <1>1, <1>7, CheckStallOrdered DEF check_stall
  <1>8. CASE write_back /\ UNCHANGED history
    BY <1>8, WriteBackOrdered, WriteBackQuiet
  <1>9. CASE cycle_end /\ UNCHANGED history
    BY <1>9, CycleEndOrdered
  <1>10. CASE /\ \/ Skip("write_back", writeback_status, "memory")
                 \/ Skip("memory", memory_status, "execute")
                 \/ Skip("execute", execute_status, "decode")
                 \/ Skip("decode", decode_status, "fetch")
                 \/ Skip("fetch", fetch_status, "cycle_end")
              /\ UNCHANGED history
    BY <1>1, <1>10, SkipOrdered DEF Skip
  <1>11. ~ trap
    BY DEF trap, Live
  <1> QED BY <1>2, <1>3, <1>4, <1>5, <1>6, <1>7, <1>8, <1>9, <1>10, <1>11 DEF RetireStep

\* Nor does anything in flight.
LEMMA RetireStands ==
  ASSUME RetireInv, UNCHANGED <<vars, history>>
  PROVE  RetireInv'
  <1>1. UNCHANGED <<stage, PC, REGS, hi, lo, RUN_BIT, if_id, ex_mem, mem_wb, execute_status, memory_status,
                    writeback_status, decode_status, fetch_timer, dram, id_ex, registerStatus, text, slot, hazard>>
    BY DEF history, vars, cpu, statuses, timers, board
  <1>2. CASE Live /\ hazard = {} /\ RUN_BIT = 1
    <2>1. FrontEnd /\ Origins /\ Results /\ Order /\ HiLoOwned /\ Empties /\ Neighbours
      BY <1>2 DEF RetireInv, Ordered
    <2>2. FrontEx' = FrontEx
      BY <1>1 DEF FrontEx
    <2>3. Origins' /\ Results' /\ Order' /\ HiLoOwned'
      BY <1>1, <2>1, <2>2, BackEndKept
    <2>4. FrontEnd' /\ Empties'
      BY <1>1, <2>1 DEF FrontEnd, Empties
    <2>5. Neighbours'
      BY <1>1, <2>1 DEF Neighbours, Carries, StoresOn
    <2> QED BY <1>1, <1>2, <2>3, <2>4, <2>5 DEF RetireInv, Ordered
  <1>3. CASE ~ (Live /\ hazard = {} /\ RUN_BIT = 1)
    BY <1>1, <1>3 DEF RetireInv, Live, Quiet
  <1> QED BY <1>2, <1>3

\* Every step keeps the invariant.
LEMMA RetireStepInv == IInv /\ BoardInv /\ RetireInv /\ [RetireNext]_allvars => RetireInv'
  <1> SUFFICES ASSUME IInv, BoardInv, RetireInv, [RetireNext]_allvars PROVE RetireInv'
    OBVIOUS
  <1>1. CASE UNCHANGED allvars \/ (Stopped /\ UNCHANGED history)
    BY <1>1, RetireStands DEF Stopped, allvars
  <1>2. CASE RetireStep
    <2> SUFFICES ASSUME Live', hazard' = {} PROVE IF RUN_BIT' = 1 THEN Ordered' ELSE Quiet'
      BY DEF RetireInv
    <2>1. Live /\ hazard = {}
      <3>1. Live
        BY <1>2 DEF RetireStep, Live, decode, decode_stall, execute, memory, fetch, check_stall, write_back,
                    trap, cycle_end, Skip
      <3> QED BY <1>2, <3>1 DEF RetireStep, history
    <2>2. CASE RUN_BIT = 1
      BY <1>2, <2>1, <2>2, RunningStep DEF Running
    <2>3. CASE RUN_BIT # 1
      BY <1>2, <2>1, <2>3, QuietKept DEF RetireInv, IInv
    <2> QED BY <2>2, <2>3
  <1> QED BY <1>1, <1>2 DEF RetireNext

\* In every reachable state, whatever is in flight holds what SeqMachine
\* computes, and stands in the order of the program.
THEOREM PipelineInOrder == RetireSpec => [](IInv /\ BoardInv /\ RetireInv)
  <1>1. RetireInit => IInv /\ BoardInv /\ RetireInv
    BY HistoryWatches, InitInv, BoardInit, RetireInitInv
  <1>2. IInv /\ BoardInv /\ RetireInv /\ [RetireNext]_allvars => (IInv /\ BoardInv /\ RetireInv)'
    BY HistoryWatches, NextInv, BoardStep, RetireStepInv
  <1> QED BY <1>1, <1>2, PTL DEF RetireSpec

----------------------------------------------------------------------------
(* SeqMachine and the pipeline share the decoder and the ALU               *)

\* The operators SeqMachine brings along are the ones the pipeline uses.
LEMMA SeqControl == \A i, old : Seq_!ControlOf(i, old) = ControlOf(i, old)
  BY DEF Seq_!ControlOf, Seq_!Known, Seq_!Special, Seq_!AluFuncts, Seq_!ShiftFuncts, Seq_!MulDiv,
         Seq_!MoveFrom, Seq_!MoveTo, Seq_!RegJumps, Seq_!Regimm, Seq_!LinkBranch, Seq_!PlainRegimm,
         Seq_!NoControl, Seq_!Jump, Seq_!Link, Seq_!RdWrite, Seq_!RtWrite, Seq_!Branch, Seq_!ImmOps,
         Seq_!CmpBranch, Seq_!Loads, Seq_!Load, Seq_!Stores, Seq_!Store, ControlOf, Known, Special,
         AluFuncts, ShiftFuncts, MulDiv, MoveFrom, MoveTo, RegJumps, Regimm, LinkBranch, PlainRegimm,
         NoControl, Jump, Link, RdWrite, RtWrite, Branch, ImmOps, CmpBranch, Loads, Load, Stores, Store

\* The decoder.
LEMMA SeqSetup == \A d : Seq_!SetupControlSignals(d) = SetupControlSignals(d)
  <1> SUFFICES ASSUME NEW d PROVE Seq_!SetupControlSignals(d) = SetupControlSignals(d)
    OBVIOUS
  <1>1. Seq_!ControlOf(d.ir, d.ctl) = ControlOf(d.ir, d.ctl)
    BY SeqControl
  <1> QED
    BY <1>1 DEF Seq_!SetupControlSignals, Seq_!Known, Seq_!Special, Seq_!AluFuncts, Seq_!ShiftFuncts,
           Seq_!MulDiv, Seq_!MoveFrom, Seq_!MoveTo, Seq_!RegJumps, Seq_!Regimm, Seq_!LinkBranch,
           Seq_!PlainRegimm, Seq_!HI, Seq_!LO, Seq_!U32, Seq_!WORDS, Seq_!BITS, SetupControlSignals, Known,
           Special, AluFuncts, ShiftFuncts, MulDiv, MoveFrom, MoveTo, RegJumps, Regimm, LinkBranch,
           PlainRegimm, HI, LO, U32, WORDS, BITS

\* What execute computes from the latch.
LEMMA SeqResults ==
  /\ \A d, old : Seq_!AluResult(d, old) = AluResult(d, old)
  /\ \A d : Seq_!HiAfter(d) = HiAfter(d) /\ Seq_!LoAfter(d) = LoAfter(d)
  /\ \A d, old : Seq_!BranchCondition(d, old) = BranchCondition(d, old)
  /\ \A d : Seq_!BranchTarget(d) = BranchTarget(d) /\ Seq_!DestinationOf(d) = DestinationOf(d)
  /\ \A d, old : Seq_!StoreValue(d, old) = StoreValue(d, old)
  /\ \A d, old : Seq_!LoadSize(d, old) = LoadSize(d, old) /\ Seq_!IsLoadSigned(d, old) = IsLoadSigned(d, old)
  <1>1. \A d, old : Seq_!AluResult(d, old) = AluResult(d, old)
    BY DEF Seq_!AluResult, Seq_!OperandA, Seq_!OperandB, Seq_!SpecialResult, Seq_!BITS, Seq_!U32,
           Seq_!WORDS, Seq_!sign_extend_16, Seq_!SignExtendTo, Seq_!HALF, Seq_!Bool, Seq_!S32,
           Seq_!ShiftLeft, Seq_!ShiftRight, Seq_!ArithmeticShiftRight, Seq_!HighMask, Seq_!LinkBranch,
           Seq_!ImmResult, Seq_!Loads, Seq_!Stores, Seq_!Effective, AluResult, OperandA, OperandB,
           SpecialResult, BITS, U32, WORDS, sign_extend_16, SignExtendTo, HALF, Bool, S32, ShiftLeft,
           ShiftRight, ArithmeticShiftRight, HighMask, LinkBranch, ImmResult, Loads, Stores, Effective
  <1>2. \A d : Seq_!HiAfter(d) = HiAfter(d) /\ Seq_!LoAfter(d) = LoAfter(d)
    BY DEF Seq_!HiAfter, Seq_!OperandA, Seq_!OperandB, Seq_!RunsSpecial, Seq_!Set, Seq_!U32, Seq_!WORDS,
           Seq_!BITS, Seq_!S32, Seq_!Product, Seq_!Divides, Seq_!Remainder, Seq_!Abs, Seq_!Keep,
           Seq_!LoAfter, Seq_!Quotient, HiAfter, OperandA, OperandB, RunsSpecial, Set, U32, WORDS, BITS,
           S32, Product, Divides, Remainder, Abs, Keep, LoAfter, Quotient
  <1>3. \A d, old : Seq_!BranchCondition(d, old) = BranchCondition(d, old)
    BY DEF Seq_!BranchCondition, Seq_!OperandA, Seq_!Bool, Seq_!Negative, Seq_!WORDS, Seq_!BITS,
           BranchCondition, OperandA, Bool, Negative, WORDS, BITS
  <1>4. \A d : Seq_!BranchTarget(d) = BranchTarget(d) /\ Seq_!DestinationOf(d) = DestinationOf(d)
    BY DEF Seq_!BranchTarget, Seq_!U32, Seq_!WORDS, Seq_!BITS, Seq_!sign_extend_16, Seq_!SignExtendTo,
           Seq_!HALF, Seq_!PlainRegimm, Seq_!LinkBranch, Seq_!OperandB, Seq_!DestinationOf, BranchTarget,
           U32, WORDS, BITS, sign_extend_16, SignExtendTo, HALF, PlainRegimm, LinkBranch, OperandB,
           DestinationOf
  <1>5. \A d, old : Seq_!StoreValue(d, old) = StoreValue(d, old)
    BY DEF Seq_!StoreValue, Seq_!BYTE, Seq_!HALF, StoreValue, BYTE, HALF
  <1>6. \A d, old : Seq_!LoadSize(d, old) = LoadSize(d, old) /\ Seq_!IsLoadSigned(d, old) = IsLoadSigned(d, old)
    BY DEF Seq_!LoadSize, Seq_!WORDS, Seq_!BITS, Seq_!HALF, Seq_!BYTE, Seq_!IsLoadSigned, Seq_!Loads,
           Seq_!Bool, LoadSize, WORDS, BITS, HALF, BYTE, IsLoadSigned, Loads, Bool
  <1> QED BY <1>1, <1>2, <1>3, <1>4, <1>5, <1>6

\* What the program and the memory hold.
LEMMA SeqAccesses ==
  /\ \A p, a : Seq_!FetchedFrom(p, a) = FetchedFrom(p, a)
  /\ \A m, a : Seq_!ReadGranule(m, a) = ReadGranule(m, a)
  /\ \A m, a, v : Seq_!WriteGranule(m, a, v) = WriteGranule(m, a, v)
  /\ \A c, size, signed : Seq_!LoadedValue(c, size, signed) = LoadedValue(c, size, signed)
  /\ \A i : Seq_!Known(i) <=> Known(i)
  /\ \A i, S : Seq_!Special(i, S) <=> Special(i, S)
  /\ \A v : Seq_!U32(v) = U32(v)
  /\ Seq_!WORDS = WORDS /\ Seq_!Granule = Granule
  <1>1. \A p, a : Seq_!FetchedFrom(p, a) = FetchedFrom(p, a)
    BY DEF Seq_!FetchedFrom, Seq_!WordAt, Seq_!Nop, FetchedFrom, WordAt, Nop
  <1>2. \A m, a : Seq_!ReadGranule(m, a) = ReadGranule(m, a)
    BY DEF Seq_!ReadGranule, Seq_!ShiftRight, Seq_!GranuleOf, Seq_!ShiftOf, Seq_!ChipId, Seq_!BITS,
           ReadGranule, ShiftRight, GranuleOf, ShiftOf, ChipId, BITS
  <1>3. \A m, a, v : Seq_!WriteGranule(m, a, v) = WriteGranule(m, a, v)
    BY DEF Seq_!WriteGranule, Seq_!GranuleOf, WriteGranule, GranuleOf
  <1>4. \A c, size, signed : Seq_!LoadedValue(c, size, signed) = LoadedValue(c, size, signed)
    BY DEF Seq_!LoadedValue, Seq_!HALF, Seq_!sign_extend_16, Seq_!SignExtendTo, Seq_!U32, Seq_!WORDS,
           Seq_!BITS, Seq_!sign_extend_8, Seq_!BYTE, LoadedValue, HALF, sign_extend_16, SignExtendTo, U32,
           WORDS, BITS, sign_extend_8, BYTE
  <1>5. \A i : Seq_!Known(i) <=> Known(i)
    BY DEF Seq_!Known, Seq_!Special, Seq_!AluFuncts, Seq_!ShiftFuncts, Seq_!MulDiv, Seq_!MoveFrom,
           Seq_!MoveTo, Seq_!RegJumps, Seq_!Regimm, Seq_!LinkBranch, Seq_!PlainRegimm, Known, Special,
           AluFuncts, ShiftFuncts, MulDiv, MoveFrom, MoveTo, RegJumps, Regimm, LinkBranch, PlainRegimm
  <1>6. \A i, S : Seq_!Special(i, S) <=> Special(i, S)
    BY DEF Seq_!Special, Special
  <1>7. \A v : Seq_!U32(v) = U32(v)
    BY DEF Seq_!U32, Seq_!WORDS, Seq_!BITS, U32, WORDS, BITS
  <1>8. Seq_!WORDS = WORDS /\ Seq_!Granule = Granule
    BY DEF Seq_!WORDS, Seq_!BITS, Seq_!Granule, WORDS, BITS, Granule
  <1> QED BY <1>1, <1>2, <1>3, <1>4, <1>5, <1>6, <1>7, <1>8

\* SeqMachine's latch for the instruction that is next to finish.
LEMMA SeqLatch ==
  /\ Seq_!Instruction = FetchedFrom(text, RetirePC)
  /\ Seq_!Latch = LatchOf(Seq_!Instruction, RetirePC, REGS, hi, lo)
  <1>1. Seq_!Instruction = FetchedFrom(text, RetirePC)
    BY SeqAccesses DEF Seq_!Instruction
  <1>2. Seq_!NoControl("NONE") = NoControl("NONE")
    BY DEF Seq_!NoControl, NoControl
  <1>3. Seq_!Latch = LatchOf(Seq_!Instruction, RetirePC, REGS, hi, lo)
    BY <1>2, SeqSetup DEF Seq_!Latch, LatchOf
  <1> QED BY <1>1, <1>3

\* One instruction of SeqMachine, said with the operators of the pipeline.
LEMMA SeqExecute ==
  ASSUME NEW i, i = FetchedFrom(text, RetirePC), Known(i),
         NEW e, e = LatchOf(i, RetirePC, REGS, hi, lo), e.pc = RetirePC,
         RUN_BIT = 1, UNCHANGED <<text, hazard>>,
         REGS' = IF e.ctl.reg_write = 1 /\ HiAfter(e).index # 1 /\ LoAfter(e).index # 1
                   THEN [REGS EXCEPT ![DestinationOf(e)] =
                           IF e.ctl.mem_to_rg = 1 THEN LoadedBy(e) ELSE AluResult(e, 0)]
                   ELSE REGS,
         hi' = HiAfter(e).value, lo' = LoAfter(e).value,
         dram' = IF e.ctl.mwrite = 1 THEN WriteGranule(dram, AluResult(e, 0), StoreValue(e, 0)) ELSE dram,
         RUN_BIT' = 1 => RetirePC' = NextOf(e),
         RUN_BIT' # 1 => RetirePC' = 0 /\ Special(i, {"SYSCALL"})
  PROVE  Seq_!Execute
  <1>1. Seq_!Latch = e /\ Seq_!Instruction = i
    BY SeqLatch
  <1>2. Seq_!Result = AluResult(e, 0)
    BY <1>1, SeqResults DEF Seq_!Result
  <1>3. Seq_!IsHiLo <=> HiAfter(e).index = 1 \/ LoAfter(e).index = 1
    BY <1>1, SeqResults DEF Seq_!IsHiLo
  <1>4. Seq_!Loaded = LoadedBy(e)
    BY <1>1, <1>2, SeqResults, SeqAccesses DEF Seq_!Loaded, LoadedBy
  <1>5. Seq_!NextPC = NextOf(e)
    <2>1. Seq_!Taken <=> e.ctl.branch = 1 /\ BranchCondition(e, 0) = 1
      BY <1>1, SeqResults DEF Seq_!Taken
    <2>2. Seq_!BranchTarget(Seq_!Latch) = BranchTarget(e) /\ Seq_!U32(RetirePC + 4) = U32(e.pc + 4)
      BY <1>1, SeqResults, SeqAccesses
    <2> QED BY <1>1, <2>1, <2>2 DEF Seq_!NextPC, NextOf
  <1>6. /\ Seq_!DestinationOf(Seq_!Latch) = DestinationOf(e)
        /\ Seq_!HiAfter(Seq_!Latch) = HiAfter(e) /\ Seq_!LoAfter(Seq_!Latch) = LoAfter(e)
        /\ Seq_!StoreValue(Seq_!Latch, 0) = StoreValue(e, 0)
    BY <1>1, SeqResults
  <1>7. dram' = IF Seq_!Latch.ctl.mwrite = 1
                  THEN Seq_!WriteGranule(dram, Seq_!Result, Seq_!StoreValue(Seq_!Latch, 0)) ELSE dram
    BY <1>1, <1>2, <1>6, SeqAccesses
  <1>8. /\ Seq_!Known(Seq_!Instruction)
        /\ Seq_!Special(Seq_!Instruction, {"SYSCALL"}) <=> Special(i, {"SYSCALL"})
    BY <1>1, SeqAccesses
  <1>9. (RUN_BIT = 1)' \in IF Seq_!Special(Seq_!Instruction, {"SYSCALL"}) THEN BOOLEAN ELSE {TRUE}
    BY <1>8
  <1>10. RetirePC' = IF (RUN_BIT = 1)' THEN Seq_!NextPC ELSE 0
    BY <1>5
  <1>11. REGS' = IF Seq_!Latch.ctl.reg_write = 1 /\ ~ Seq_!IsHiLo
                   THEN [REGS EXCEPT ![Seq_!DestinationOf(Seq_!Latch)] =
                           IF Seq_!Latch.ctl.mem_to_rg = 1 THEN Seq_!Loaded ELSE Seq_!Result]
                   ELSE REGS
    BY <1>1, <1>2, <1>3, <1>4, <1>6
  <1>12. hi' = Seq_!HiAfter(Seq_!Latch).value /\ lo' = Seq_!LoAfter(Seq_!Latch).value
    BY <1>6
  <1>13. (hazard # {})' = (hazard # {}) /\ text' = text
    OBVIOUS
  <1> QED BY <1>7, <1>8, <1>9, <1>10, <1>11, <1>12, <1>13 DEF Seq_!Execute

\* The address of the next instruction to finish.
NextToFinish ==
  IF RUN_BIT = 0 THEN 0
  ELSE IF writeback_status = 1 /\ slot.wb.real /\ slot.wb.ir.opcode \notin Stores
         THEN slot.wb.pc ELSE FrontWb

\* It is the head of Unfinished.
LEMMA Retiring == RetirePC = NextToFinish
  <1> DEFINE wb  == IF writeback_status = 1 /\ slot.wb.real /\ slot.wb.ir.opcode \notin Stores
                      THEN <<slot.wb>> ELSE <<>>
             mem == IF memory_status = 1 /\ slot.mem.real THEN <<slot.mem>> ELSE <<>>
             ex  == IF execute_status = 1 /\ slot.ex.real THEN <<slot.ex>> ELSE <<>>
  <1>1. Unfinished = wb \o mem \o ex
    BY DEF Unfinished
  <1>2. ASSUME NEW s, wb = <<s>> PROVE Unfinished # <<>> /\ Head(Unfinished) = s
    BY <1>1, <1>2
  <1>3. ASSUME NEW s, wb = <<>>, mem = <<s>> PROVE Unfinished # <<>> /\ Head(Unfinished) = s
    BY <1>1, <1>3
  <1>4. ASSUME NEW s, wb = <<>>, mem = <<>>, ex = <<s>> PROVE Unfinished # <<>> /\ Head(Unfinished) = s
    BY <1>1, <1>4
  <1>5. ASSUME wb = <<>>, mem = <<>>, ex = <<>> PROVE Unfinished = <<>>
    BY <1>1, <1>5
  <1> QED BY <1>2, <1>3, <1>4, <1>5 DEF RetirePC, NextToFinish, FrontWb, FrontMem, FrontEx

\* The same of the next state.
LEMMA RetiringNext == RetirePC' = NextToFinish'
  <1>1. (RetirePC = NextToFinish)'
    BY Retiring, PTL
  <1> QED BY <1>1

\* Only an instruction that writes HI or LO changes them.
LEMMA HiLoEffect ==
  ASSUME NEW i \in Instr, Known(i), NEW e, e.ir = i, e.ctl = ControlOf(i, e.ctl)
  PROVE  /\ HiAfter(e).index = 1 \/ LoAfter(e).index = 1 => e.ctl.reg_write = 1 /\ e.ctl.mem_to_rg = 0
         /\ HiAfter(e).index # 1 => HiAfter(e).value = e.hi
         /\ LoAfter(e).index # 1 => LoAfter(e).value = e.lo
  <1>1. /\ HiAfter(e).index = 1 => e.ctl.alu_op = "SPECIAL" /\ i.funct \in MulDiv \cup {"MTHI"}
        /\ HiAfter(e).index # 1 => HiAfter(e).value = e.hi
    BY DEF HiAfter, RunsSpecial, Divides, Set, Keep, MulDiv
  <1>2. /\ LoAfter(e).index = 1 => e.ctl.alu_op = "SPECIAL" /\ i.funct \in MulDiv \cup {"MTLO"}
        /\ LoAfter(e).index # 1 => LoAfter(e).value = e.lo
    BY DEF LoAfter, RunsSpecial, Divides, Set, Keep, MulDiv
  <1>3. e.ctl.alu_op = "SPECIAL" => i.opcode = "SPECIAL"
    <2>1. e.ctl.alu_op = IF Links(i) THEN "LB" ELSE i.opcode
      BY SteeringFields
    <2> QED BY <2>1
  <1>4. HiAfter(e).index = 1 \/ LoAfter(e).index = 1 => HI \in Writes(i) \/ LO \in Writes(i)
    BY <1>1, <1>2, <1>3, HiLoWriters DEF Special
  <1> QED BY <1>1, <1>2, <1>4, HiLoControl

\* A store writes memory and no register; nothing else writes memory.
LEMMA StoreControl ==
  ASSUME NEW i \in Instr, Known(i), NEW old
  PROVE  IF i.opcode \in Stores THEN ControlOf(i, old).mwrite = 1 /\ ControlOf(i, old).reg_write = 0
         ELSE ControlOf(i, old).mwrite = 0
  <1>1. ControlOf(i, old).mwrite = Bool(i.opcode \in Stores)
    BY SteeringFields
  <1>2. CASE i.opcode \in Stores
    <2>1. i.opcode \notin {"SPECIAL", "REGIMM", "J", "JAL"} \cup ImmOps \cup {"LUI"} \cup CmpBranch \cup Loads
      BY <1>2 DEF Stores, ImmOps, CmpBranch, Loads
    <2>2. ControlOf(i, old) = Store(i.opcode)
      BY <1>2, <2>1 DEF ControlOf, Special, Regimm
    <2> QED BY <1>1, <1>2, <2>2 DEF Bool, Store, NoControl
  <1>3. CASE i.opcode \notin Stores
    BY <1>1, <1>3 DEF Bool
  <1> QED BY <1>2, <1>3

----------------------------------------------------------------------------
(* Each step of the pipeline, seen by SeqMachine                           *)

\* The write-back of an instruction that is not a store finishes it.
LEMMA WriteBackExecutes ==
  ASSUME Running, write_back, UNCHANGED history, slot.wb.real, slot.wb.ir.opcode \notin Stores
  PROVE  Seq_!Execute
  <1> DEFINE i == slot.wb.ir
             e == WbLatch
  <1>1. /\ RUN_BIT = 1 /\ hazard = {} /\ writeback_status = 1 /\ writeback_status' = 0
        /\ RUN_BIT' = mem_wb.run_bit /\ mem_wb.run_bit \in Bit /\ UNCHANGED <<text, dram, hazard>>
    BY RunningParts DEF Running, write_back, history, TypeOK, MemWb
  <1>2. RetirePC = slot.wb.pc
    BY <1>1, Retiring DEF NextToFinish
  <1>3. /\ i \in Instr /\ Known(i) /\ i = FetchedFrom(text, slot.wb.pc)
    BY <1>1, RunningParts, HeldTypes DEF Origins, Origin
  <1>4. /\ e.ir = i /\ DestinationOf(e) = Names(i) /\ e.ctl = ControlOf(i, e.ctl) /\ e.pc = slot.wb.pc
    BY <1>3, LatchesFit, LatchPlaces
  <1>5. e.hi = hi /\ e.lo = lo
    <2>1. slot.wb.pc \in Word /\ REGS \in [Reg -> Word] /\ hi \in Word /\ lo \in Word
      BY RunningParts, HeldTypes DEF TypeOK
    <2> QED BY <1>3, <2>1, LatchFields DEF WbLatch
  <1>6. /\ Holding(mem_wb, e) /\ (mem_wb.mem_to_rg = 1 => mem_wb.memory_data = LoadedBy(e))
        /\ FrontWb = NextOf(e)
    BY <1>1, RunningParts DEF Results, Order
  <1>7. e.ctl.mwrite = 0
    BY <1>3, <1>4, StoreControl
  <1>8. REGS' = RegsW /\ hi' = HiW /\ lo' = LoW
    BY WriteBackPending
  <1>9. e = LatchOf(i, RetirePC, REGS, hi, lo)
    BY <1>2 DEF WbLatch
  <1> HIDE DEF e
  <1>10. REGS' = IF e.ctl.reg_write = 1 /\ HiAfter(e).index # 1 /\ LoAfter(e).index # 1
                   THEN [REGS EXCEPT ![DestinationOf(e)] =
                           IF e.ctl.mem_to_rg = 1 THEN LoadedBy(e) ELSE AluResult(e, 0)]
                   ELSE REGS
    <2>1. GoesToReg(mem_wb) <=> e.ctl.reg_write = 1 /\ HiAfter(e).index # 1 /\ LoAfter(e).index # 1
      BY <1>3, <1>4, <1>6, HiLoEffect DEF GoesToReg, Holding
    <2>2. GoesToReg(mem_wb) =>
            /\ mem_wb.write_register = DestinationOf(e)
            /\ WriteBackValue = IF e.ctl.mem_to_rg = 1 THEN LoadedBy(e) ELSE AluResult(e, 0)
      BY <1>6 DEF Holding, WriteBackValue
    <2> QED BY <1>1, <1>8, <2>1, <2>2 DEF RegsW, RegsBy
  <1>11. hi' = HiAfter(e).value /\ lo' = LoAfter(e).value
    <2>1. /\ mem_wb.hi.index = HiAfter(e).index /\ (mem_wb.hi.index = 1 => mem_wb.hi.value = HiAfter(e).value)
          /\ mem_wb.lo.index = LoAfter(e).index /\ (mem_wb.lo.index = 1 => mem_wb.lo.value = LoAfter(e).value)
          /\ mem_wb.reg_write = e.ctl.reg_write /\ mem_wb.mem_to_rg = e.ctl.mem_to_rg
      BY <1>6 DEF Holding
    <2> QED BY <1>1, <1>3, <1>4, <1>5, <1>8, <2>1, HiLoEffect DEF HiW, LoW, HiBy, LoBy
  <1>12. RUN_BIT' = 1 => RetirePC' = NextOf(e)
    <2>1. FrontWb' = FrontWb
      BY WriteBackOrdered
    <2>2. RUN_BIT' = 1 => RetirePC' = FrontWb'
      BY <1>1, RetiringNext DEF NextToFinish
    <2> QED BY <1>6, <2>1, <2>2
  <1>13. RUN_BIT' # 1 => RetirePC' = 0 /\ Special(i, {"SYSCALL"})
    <2>1. RUN_BIT' # 1 => RUN_BIT' = 0
      BY <1>1 DEF Bit
    <2>2. mem_wb.run_bit = 0 => Special(i, {"SYSCALL"})
      BY <1>4, <1>6 DEF Holding
    <2> QED BY <1>1, <2>1, <2>2, RetiringNext DEF NextToFinish
  <1> QED BY <1>1, <1>2, <1>3, <1>4, <1>7, <1>9, <1>10, <1>11, <1>12, <1>13, SeqExecute

\* The memory stage finishes a store.
LEMMA StoreExecutes ==
  ASSUME Running, memory, slot' = [slot EXCEPT !.wb = slot.mem], UNCHANGED hazard,
         slot.mem.real, slot.mem.ir.opcode \in Stores
  PROVE  Seq_!Execute
  <1> DEFINE i == slot.mem.ir
             e == MemLatch
  <1>1. /\ RUN_BIT = 1 /\ hazard = {} /\ memory_status = 1 /\ writeback_status = 0 /\ writeback_status' = 1
        /\ UNCHANGED <<REGS, hi, lo, RUN_BIT, text, hazard>>
        /\ dram' = IF ex_mem.mwrite = 1
                     THEN WriteGranule(dram, ex_mem.alu_result, ex_mem.storeValue) ELSE dram
    BY RunningParts DEF Running, memory, cpu, TypeOK, Due, Bit
  <1>2. RegsW = REGS /\ HiW = hi /\ LoW = lo
    BY <1>1 DEF RegsW, HiW, LoW
  <1>3. RetirePC = slot.mem.pc
    BY <1>1, Retiring DEF NextToFinish, FrontWb
  <1>4. i \in Instr /\ Known(i) /\ i = FetchedFrom(text, slot.mem.pc)
    BY <1>1, RunningParts, HeldTypes DEF Origins, Origin
  <1>5. e.ir = i /\ e.ctl = ControlOf(i, e.ctl) /\ e.pc = slot.mem.pc
    BY <1>4, LatchesFit, LatchPlaces
  <1>6. e.hi = hi /\ e.lo = lo
    <2>1. slot.mem.pc \in Word /\ RegsW \in [Reg -> Word] /\ HiW \in Word /\ LoW \in Word
      BY RunningParts, HeldTypes, PendingTypes
    <2> QED BY <1>2, <1>4, <2>1, LatchFields DEF MemLatch
  <1>7. HoldingAccess(ex_mem, e) /\ FrontMem = NextOf(e)
    BY <1>1, RunningParts DEF Results, Order
  <1>8. e = LatchOf(i, RetirePC, REGS, hi, lo)
    BY <1>2, <1>3 DEF MemLatch
  <1> HIDE DEF e
  <1>9. e.ctl.reg_write = 0 /\ e.ctl.mwrite = 1
    BY <1>4, <1>5, StoreControl
  <1>10. hi = HiAfter(e).value /\ lo = LoAfter(e).value
    BY <1>4, <1>5, <1>6, <1>9, HiLoEffect
  <1>11. dram' = WriteGranule(dram, AluResult(e, 0), StoreValue(e, 0))
    BY <1>1, <1>7, <1>9 DEF HoldingAccess
  <1>12. RetirePC' = NextOf(e)
    <2>1. FrontWb' = FrontMem
      BY MemoryOrdered
    <2>2. slot'.wb = slot.mem
      BY RunningParts, HeldTypes
    <2>3. RetirePC' = FrontWb'
      BY <1>1, <2>2, RetiringNext DEF NextToFinish
    <2> QED BY <1>7, <2>1, <2>3
  <1>13. /\ REGS' = IF e.ctl.reg_write = 1 /\ HiAfter(e).index # 1 /\ LoAfter(e).index # 1
                      THEN [REGS EXCEPT ![DestinationOf(e)] =
                              IF e.ctl.mem_to_rg = 1 THEN LoadedBy(e) ELSE AluResult(e, 0)]
                      ELSE REGS
         /\ hi' = HiAfter(e).value /\ lo' = LoAfter(e).value
    BY <1>1, <1>9, <1>10
  <1>14. dram' = IF e.ctl.mwrite = 1 THEN WriteGranule(dram, AluResult(e, 0), StoreValue(e, 0)) ELSE dram
    BY <1>9, <1>11
  <1>15. /\ e.pc = RetirePC /\ i = FetchedFrom(text, RetirePC) /\ Known(i)
         /\ RUN_BIT = 1 /\ UNCHANGED <<text, hazard>>
    BY <1>1, <1>3, <1>4, <1>5
  <1>16. /\ RUN_BIT' = 1 => RetirePC' = NextOf(e)
         /\ RUN_BIT' # 1 => RetirePC' = 0 /\ Special(i, {"SYSCALL"})
    BY <1>1, <1>12
  <1> HIDE DEF i
  <1> QED BY <1>8, <1>13, <1>14, <1>15, <1>16, SeqExecute

\* Nothing SeqMachine has changes.
LEMMA SeqUnchanged ==
  ASSUME UNCHANGED <<RetirePC, REGS, hi, lo, dram, RUN_BIT, hazard, text>>
  PROVE  UNCHANGED Seq_!vars
  BY DEF Seq_!vars

\* The write-back of a store or of a bubble changes nothing.
LEMMA WriteBackStutters ==
  ASSUME Running, write_back, UNCHANGED history, ~ (slot.wb.real /\ slot.wb.ir.opcode \notin Stores)
  PROVE  UNCHANGED Seq_!vars
  <1>1. /\ RUN_BIT = 1 /\ hazard = {} /\ writeback_status = 1 /\ writeback_status' = 0
        /\ RUN_BIT' = mem_wb.run_bit /\ mem_wb.run_bit \in Bit
        /\ UNCHANGED <<text, dram, hazard, slot>> /\ REGS \in [Reg -> Word]
    BY RunningParts DEF Running, write_back, history, TypeOK, MemWb
  <1>2. REGS' = RegsW /\ hi' = HiW /\ lo' = LoW
    BY WriteBackPending
  <1>3. mem_wb.run_bit = 1 /\ UNCHANGED <<REGS, hi, lo>>
    <2>1. CASE slot.wb.real /\ slot.wb.ir.opcode \in Stores
      <3>1. slot.wb.ir \in Instr /\ Known(slot.wb.ir) /\ Holding(mem_wb, WbLatch)
        BY <1>1, <2>1, RunningParts, HeldTypes DEF Origins, Origin, Results
      <3>2. WbLatch.ir = slot.wb.ir /\ WbLatch.ctl = ControlOf(slot.wb.ir, WbLatch.ctl)
        BY <3>1, LatchesFit
      <3>3. WbLatch.ctl.reg_write = 0
        BY <2>1, <3>1, <3>2, StoreControl
      <3>4. mem_wb.reg_write = 0 /\ (mem_wb.run_bit = 0 => Special(slot.wb.ir, {"SYSCALL"}))
        BY <3>1, <3>2, <3>3 DEF Holding
      <3> QED BY <1>1, <1>2, <2>1, <3>4 DEF Special, Stores, Bit, RegsW, HiW, LoW, RegsBy, HiBy, LoBy, GoesToReg
    <2>2. CASE ~ slot.wb.real
      <3>1. Harmless(mem_wb)
        BY <1>1, <2>2, RunningParts DEF Results
      <3>2. HiW = hi /\ LoW = lo
        BY <3>1 DEF Harmless, HiW, LoW, HiBy, LoBy
      <3>3. GoesToReg(mem_wb) => mem_wb.write_register = 0 /\ WriteBackValue = REGS[0]
        BY <3>1 DEF Harmless, GoesToReg, WriteBackValue
      <3>4. RegsW = REGS
        BY <1>1, <3>3 DEF RegsW, RegsBy
      <3> QED BY <1>2, <3>1, <3>2, <3>4 DEF Harmless
    <2> QED BY <2>1, <2>2
  <1>4. RetirePC = FrontWb /\ RetirePC' = FrontWb'
    BY <1>1, <1>3, Retiring, RetiringNext DEF NextToFinish
  <1>5. FrontWb' = FrontWb
    BY WriteBackOrdered
  <1> QED BY <1>1, <1>3, <1>4, <1>5, SeqUnchanged

\* The memory stage changes nothing for what is not a store.
LEMMA MemoryStutters ==
  ASSUME Running, memory, slot' = [slot EXCEPT !.wb = slot.mem], UNCHANGED hazard,
         ~ (slot.mem.real /\ slot.mem.ir.opcode \in Stores)
  PROVE  UNCHANGED Seq_!vars
  <1>1. /\ RUN_BIT = 1 /\ memory_status = 1 /\ writeback_status = 0 /\ writeback_status' = 1
        /\ UNCHANGED <<REGS, hi, lo, RUN_BIT, text, hazard>> /\ slot'.wb = slot.mem
        /\ dram' = IF ex_mem.mwrite = 1
                     THEN WriteGranule(dram, ex_mem.alu_result, ex_mem.storeValue) ELSE dram
    BY RunningParts, HeldTypes DEF Running, memory, cpu, TypeOK, Due, Bit
  <1>2. FrontWb' = FrontMem
    BY MemoryOrdered
  <1>3. ex_mem.mwrite = 0
    <2>1. CASE slot.mem.real
      <3>1. slot.mem.ir \in Instr /\ Known(slot.mem.ir) /\ HoldingAccess(ex_mem, MemLatch)
        BY <1>1, <2>1, RunningParts, HeldTypes DEF Origins, Origin, Results
      <3>2. MemLatch.ctl = ControlOf(slot.mem.ir, MemLatch.ctl)
        BY <3>1, LatchesFit
      <3>3. MemLatch.ctl.mwrite = 0
        BY <2>1, <3>1, <3>2, StoreControl
      <3> QED BY <3>1, <3>3 DEF HoldingAccess
    <2>2. CASE ~ slot.mem.real
      BY <1>1, <2>2, RunningParts DEF Results
    <2> QED BY <2>1, <2>2
  <1>4. RetirePC' = RetirePC
    BY <1>1, <1>2, Retiring, RetiringNext DEF NextToFinish, FrontWb
  <1> QED BY <1>1, <1>3, <1>4, SeqUnchanged

\* No other step of a machine that runs finishes anything, unless it is the
\* last one.
LEMMA OthersStutter ==
  ASSUME Running, FrontWb' = FrontWb,
         UNCHANGED <<REGS, hi, lo, dram, RUN_BIT, hazard, text, writeback_status, slot.wb>>
  PROVE  UNCHANGED Seq_!vars
  <1>1. RetirePC' = RetirePC
    BY Retiring, RetiringNext DEF NextToFinish
  <1> QED BY <1>1, SeqUnchanged

\* The end of the last cycle stops the machine, at the limit or before.
LEMMA LastCycle ==
  ASSUME RUN_BIT \in Bit, cycle_end, UNCHANGED history, ~ Live', hazard = {}
  PROVE  IF Capped THEN Seq_!TimeOut ELSE UNCHANGED Seq_!vars
  <1>1. RUN_BIT' = 0 /\ UNCHANGED <<hi, lo, dram, text, hazard>>
    BY DEF cycle_end, Live, history
  <1>2. RetirePC' = 0
    BY <1>1, RetiringNext DEF NextToFinish
  <1>3. CASE Capped
    <2>1. REGS' = [REGS EXCEPT ![R_T7] = Seq_!WORDS - 1]
      BY <1>3, SeqAccesses DEF cycle_end
    <2> QED BY <1>1, <1>2, <1>3, <2>1 DEF Seq_!TimeOut
  <1>4. CASE ~ Capped
    <2>1. RUN_BIT = 0 /\ REGS' = REGS
      BY <1>1, <1>4 DEF cycle_end
    <2>2. RetirePC = 0
      BY <2>1, Retiring DEF NextToFinish
    <2> QED BY <1>1, <1>2, <1>4, <2>1, <2>2, SeqUnchanged
  <1> QED BY <1>3, <1>4

\* A step of a machine that runs finishes one instruction or none, unless it
\* is the last one.
LEMMA RunningRefines ==
  ASSUME Running, RetireStep, hazard' = {}, stage = "cycle_end" => Live'
  PROVE  Seq_!Execute \/ UNCHANGED Seq_!vars
  <1>1. RUN_BIT = 1 /\ hazard = {} /\ SlotTypes /\ StallDiscipline /\ TypeOK /\ Live
    BY RunningParts DEF Running
  <1>2. CASE decode /\ slot' = [slot EXCEPT !.ex = [ir |-> if_id.ir, pc |-> if_id.pc, real |-> slot.id,
                                                    fwd |-> DependencyAfter(if_id.ir)],
                                            !.id = FALSE]
                    /\ hazard' = hazard \cup Idioms(if_id.ir)
    <2>1. Decoding
      BY <1>1, <1>2 DEF Decoding, decode
    <2>2. FrontWb' = FrontWb /\ slot'.wb = slot.wb
      BY <1>1, <1>2, <2>1, DecodeOrdered, HeldTypes
    <2> QED BY <1>1, <1>2, <2>2, OthersStutter DEF decode
  <1>3. CASE decode_stall /\ slot' = [slot EXCEPT !.ex = Bubble]
    <2>1. FrontWb' = FrontWb /\ slot'.wb = slot.wb
      BY <1>1, <1>3, DecodeStallOrdered, HeldTypes
    <2> QED BY <1>1, <1>3, <2>1, OthersStutter DEF decode_stall, StopFrontEnd, cpu
  <1>4. CASE /\ execute
             /\ slot' = [slot EXCEPT !.mem = slot.ex,
                                     !.id = @ /\ ~ (ex_mem'.branch = 1 /\ ex_mem'.branchCondition = 1)]
    <2>1. FrontWb' = FrontWb /\ slot'.wb = slot.wb
      BY <1>1, <1>4, ExecuteOrdered, HeldTypes
    <2> QED BY <1>1, <1>4, <2>1, OthersStutter DEF execute
  <1>5. CASE memory /\ slot' = [slot EXCEPT !.wb = slot.mem]
    <2>1. CASE slot.mem.real /\ slot.mem.ir.opcode \in Stores
      BY <1>1, <1>5, <2>1, StoreExecutes
    <2>2. CASE ~ (slot.mem.real /\ slot.mem.ir.opcode \in Stores)
      BY <1>1, <1>5, <2>2, MemoryStutters
    <2> QED BY <2>1, <2>2
  <1>6. CASE fetch /\ slot' = [slot EXCEPT !.id = TRUE]
    <2>1. FrontWb' = FrontWb /\ slot'.wb = slot.wb
      BY <1>1, <1>6, FetchOrdered, HeldTypes
    <2> QED BY <1>1, <1>6, <2>1, OthersStutter DEF fetch
  <1>7. CASE check_stall /\ UNCHANGED history
    BY <1>1, <1>7, CheckStallOrdered, OthersStutter DEF check_stall, cpu, history
  <1>8. CASE write_back /\ UNCHANGED history
    <2>1. CASE slot.wb.real /\ slot.wb.ir.opcode \notin Stores
      BY <1>1, <1>8, <2>1, WriteBackExecutes
    <2>2. CASE ~ (slot.wb.real /\ slot.wb.ir.opcode \notin Stores)
      BY <1>8, <2>2, WriteBackStutters
    <2> QED BY <2>1, <2>2
  <1>9. CASE cycle_end /\ UNCHANGED history
    <2>1. Live'
      BY <1>9 DEF cycle_end
    <2>2. FrontWb' = FrontWb /\ RUN_BIT' = 1
      BY <1>9, <2>1, CycleEndOrdered
    <2> QED BY <1>1, <1>9, <2>1, <2>2, OthersStutter DEF cycle_end, statuses, history, Live
  <1>10. CASE /\ \/ Skip("write_back", writeback_status, "memory")
                 \/ Skip("memory", memory_status, "execute")
                 \/ Skip("execute", execute_status, "decode")
                 \/ Skip("decode", decode_status, "fetch")
                 \/ Skip("fetch", fetch_status, "cycle_end")
              /\ UNCHANGED history
    BY <1>1, <1>10, SkipOrdered, OthersStutter DEF Skip, cpu, statuses, history
  <1>11. CASE trap /\ UNCHANGED history
    <2>1. FrontWb' = FrontWb
      BY <1>11 DEF trap, history, cpu, statuses, FrontWb, FrontMem, FrontEx
    <2> QED BY <1>1, <1>11, <2>1, OthersStutter DEF trap, cpu, statuses, history
  <1> QED BY <1>2, <1>3, <1>4, <1>5, <1>6, <1>7, <1>8, <1>9, <1>10, <1>11 DEF RetireStep

\* A machine that was stopped finishes its cycle and nothing else.
LEMMA StoppedRefines ==
  ASSUME TypeOK, Live, RUN_BIT # 1, Quiet, RetireStep, hazard = {}, hazard' = {}, ~ cycle_end
  PROVE  UNCHANGED Seq_!vars
  <1>1. RUN_BIT = 0 /\ RUN_BIT \in Bit
    BY DEF TypeOK, Bit
  <1>2. ~ check_stall /\ ~ write_back /\ ~ Skip("write_back", writeback_status, "memory")
    BY DEF Quiet, Stopping, check_stall, write_back, Skip
  <1>3. UNCHANGED <<REGS, hi, lo, dram, RUN_BIT, text>>
    <2>1. CASE memory
      BY <2>1 DEF memory, Quiet, cpu
    <2>2. CASE \/ Skip("memory", memory_status, "execute") \/ Skip("execute", execute_status, "decode")
               \/ Skip("decode", decode_status, "fetch") \/ Skip("fetch", fetch_status, "cycle_end")
      BY <2>2 DEF Skip, cpu
    <2>3. CASE execute \/ trap \/ decode \/ decode_stall \/ fetch
      BY <2>3 DEF execute, trap, decode, decode_stall, fetch, cpu
    <2> QED BY <1>2, <2>1, <2>2, <2>3 DEF RetireStep
  <1>4. RetirePC = 0 /\ RetirePC' = 0
    BY <1>1, <1>3, Retiring, RetiringNext DEF NextToFinish
  <1> QED BY <1>3, <1>4, SeqUnchanged

\* A step of the pipeline meets the limit, finishes one instruction, or none.
LEMMA StepFinishes ==
  ASSUME IInv, BoardInv, RetireInv, RetireStep, hazard' = {}
  PROVE  IF stage = "cycle_end" /\ Capped THEN Seq_!TimeOut ELSE Seq_!Execute \/ UNCHANGED Seq_!vars
  <1>1. Live /\ (stage = "cycle_end" => cycle_end /\ UNCHANGED history)
    BY DEF RetireStep, Live, decode, decode_stall, execute, memory, fetch, check_stall, write_back,
           trap, cycle_end, Skip
  <1>2. hazard = {} /\ TypeOK /\ RUN_BIT \in Bit
    BY DEF RetireStep, history, IInv, TypeOK
  <1>3. CASE stage = "cycle_end" /\ ~ Live'
    BY <1>1, <1>2, <1>3, LastCycle
  <1>4. CASE ~ (stage = "cycle_end" /\ ~ Live') /\ RUN_BIT = 1
    <2>1. ~ (stage = "cycle_end" /\ Capped)
      BY <1>1, <1>4 DEF cycle_end, Live
    <2> QED BY <1>1, <1>2, <1>4, <2>1, RunningRefines DEF Running
  <1>5. CASE ~ (stage = "cycle_end" /\ ~ Live') /\ RUN_BIT # 1
    <2>1. stage # "cycle_end" /\ ~ cycle_end
      BY <1>1, <1>2, <1>5 DEF cycle_end, Live, Bit
    <2> QED BY <1>1, <1>2, <1>5, <2>1, StoppedRefines DEF RetireInv
  <1> QED BY <1>3, <1>4, <1>5


\* The machines start alike.
LEMMA RetireInitRefines == RetireInit => Seq_!Init
  <1> SUFFICES ASSUME RetireInit PROVE Seq_!Init
    OBVIOUS
  <1>1. /\ RUN_BIT = 1 /\ writeback_status = 0 /\ memory_status = 0 /\ execute_status = 0 /\ PC = TextStart
        /\ slot.id = FALSE /\ hazard = {}
    BY DEF RetireInit, Init
  <1>2. RetirePC = TextStart
    BY <1>1, Retiring DEF NextToFinish, FrontWb, FrontMem, FrontEx
  <1>3. dram = [g \in Seq_!Granule |-> 0]
    BY SeqAccesses DEF RetireInit, Init
  <1> QED BY <1>1, <1>2, <1>3 DEF RetireInit, Init, Seq_!Init

\* Every step of the pipeline is a step of SeqMachine or changes nothing
\* SeqMachine has.
LEMMA RetireStepRefines ==
  IInv /\ BoardInv /\ RetireInv /\ [RetireNext]_allvars => [Seq_!Next]_Seq_!vars
  <1> SUFFICES ASSUME IInv, BoardInv, RetireInv, [RetireNext]_allvars PROVE [Seq_!Next]_Seq_!vars
    OBVIOUS
  <1>1. CASE UNCHANGED allvars \/ (Stopped /\ UNCHANGED history)
    <2>1. UNCHANGED <<PC, REGS, hi, lo, RUN_BIT, if_id, execute_status, memory_status, writeback_status,
                      dram, text, slot, hazard>>
      BY <1>1 DEF Stopped, allvars, history, vars, cpu, statuses
    <2>2. FrontWb' = FrontWb
      BY <2>1 DEF FrontWb, FrontMem, FrontEx
    <2>3. RetirePC' = RetirePC
      BY <2>1, <2>2, Retiring, RetiringNext DEF NextToFinish
    <2> QED BY <2>1, <2>3, SeqUnchanged
  <1>2. CASE RetireStep
    <2>1. Live /\ text' = text
      BY <1>2 DEF RetireStep, Live, decode, decode_stall, execute, memory, fetch, check_stall, write_back,
                  trap, cycle_end, Skip
    <2>2. hazard \subseteq hazard'
      BY <1>2 DEF RetireStep, history
    <2>3. CASE hazard' # {}
      <3>1. Seq_!Leave
        BY <2>1, <2>3 DEF Seq_!Leave
      <3> QED BY <3>1 DEF Seq_!Next
    <2>4. CASE hazard' = {}
      <3>1. hazard = {}
        BY <2>2, <2>4
      <3> QED BY <1>2, <2>4, <3>1, StepFinishes DEF Seq_!Next
    <2> QED BY <2>3, <2>4
  <1> QED BY <1>1, <1>2 DEF RetireNext

\* For every word size, register file, memory, program and cycle limit: until
\* a program uses one of the idioms, the pipeline has the effects of a machine
\* that runs one instruction at a time, in the order of the program.
THEOREM RetirementRefines == RetireSpec => ImplementsSeqMachine
  <1>1. IInv /\ BoardInv /\ RetireInv /\ [RetireNext]_allvars => [Seq_!Next]_Seq_!vars
    BY RetireStepRefines
  <1>2. RetireInit => Seq_!Init
    BY RetireInitRefines
  <1> QED BY <1>1, <1>2, PipelineInOrder, PTL DEF RetireSpec, ImplementsSeqMachine, Seq_!Spec

----------------------------------------------------------------------------
(* The exit sequence                                                       *)

\* A SYSCALL that finds $v0 busy clears the run_bit of its latch.
LEMMA SyscallSeen ==
  ASSUME TypeOK, Silent(id_ex.ctl), Special(if_id.ir, {"SYSCALL"}), registerStatus[R_V0] = 0
  PROVE  Decoded.run_bit = 0
  <1> DEFINE i == if_id.ir
             d == SetupControlSignals(setup_registers)
             f == IF DependencyAfter(i) = 1 THEN Forwarded(d) ELSE d
             s == IF HaltingSyscall(i) THEN [f EXCEPT !.run_bit = 0] ELSE f
  <1>1. HaltingSyscall(i)
    <2>1. i.opcode = "SPECIAL" /\ i.funct = "SYSCALL"
      BY DEF Special
    <2>2. /\ ~ Special(i, AluFuncts \cup MulDiv) /\ ~ Special(i, {"MFHI"}) /\ ~ Special(i, {"MFLO"})
          /\ ~ Special(i, RegJumps \cup MoveTo) /\ ~ Regimm(i, PlainRegimm) /\ i.opcode # "JAL"
          /\ i.opcode # "LUI" /\ i.opcode \notin ImmOps \cup Loads /\ i.opcode \notin CmpBranch \cup Stores
      BY <2>1 DEF Special, Regimm, AluFuncts, ShiftFuncts, MulDiv, RegJumps, MoveTo, ImmOps, Loads, CmpBranch, Stores
    <2> HIDE DEF i
    <2>3. Special(i, {"SYSCALL"})
      BY DEF i
    <2>4. Watched(i) = {R_V0}
      BY <2>2, <2>3 DEF Watched
    <2> QED BY <2>3, <2>4 DEF HaltingSyscall, Pending
  <1>2. /\ setup_registers \in IdEx /\ setup_registers.ir = i /\ RdSound(setup_registers)
        /\ Silent(setup_registers.ctl) /\ i \in Instr /\ Known(i)
    <2>1. Known(i)
      BY DEF Known, Special
    <2> QED BY <2>1, SetupRegistersSound DEF TypeOK
  <1>3. d \in IdEx /\ d.ctl = ControlOf(i, setup_registers.ctl)
    BY <1>2, SetupType
  <1>4. d.ctl.jump = 0
    <2>1. i.opcode = "SPECIAL" /\ i.funct = "SYSCALL"
      BY DEF Special
    <2>2. ~ Special(i, {"JR"}) /\ ~ Special(i, {"JALR"}) /\ ~ Special(i, Computing)
      BY <2>1 DEF Special, Computing, AluFuncts, ShiftFuncts, MulDiv, MoveFrom, MoveTo
    <2>3. /\ i.opcode \notin ImmOps \cup {"LUI"} /\ i.opcode \notin CmpBranch /\ i.opcode \notin Loads
          /\ i.opcode \notin Stores /\ i.opcode # "J" /\ i.opcode # "JAL" /\ \A S : ~ Regimm(i, S)
      BY <2>1 DEF ImmOps, CmpBranch, Loads, Stores, Regimm
    <2>4. d.ctl = NoControl("SPECIAL")
      BY <1>2, <1>3, <2>2, <2>3, ControlCases
    <2> QED BY <2>4 DEF NoControl
  <1> HIDE DEF d
  <1>5. f \in IdEx /\ f.ctl = d.ctl
    BY <1>3, ForwardedSound
  <1> HIDE DEF f
  <1>6. s.run_bit = 0 /\ s.ctl.jump = 0
    BY <1>1, <1>4, <1>5 DEF IdEx
  <1>7. Decoded = IF s.ctl.jump = 1 THEN SetupControlSignals(s) ELSE s
    BY DEF Decoded, f, d
  <1> HIDE DEF s
  <1> QED BY <1>6, <1>7

\* In a pipeline in order the SYSCALL of the exit sequence always finds it so.
LEMMA ExitStep ==
  ASSUME IInv, BoardInv, RetireInv, decode, RUN_BIT = 1, hazard = {}, Special(if_id.ir, {"SYSCALL"}),
         NEW n \in 1 .. Len(Unfinished), R_V0 \in Writes(Unfinished[n].ir) \ {0}
  PROVE  id_ex'.run_bit = 0
  <1>1. Running /\ stage = "decode" /\ decode_status = 1 /\ load = 0 /\ id_ex' = Decoded
    BY DEF Running, decode, Live
  <1>2. execute_status # 1
    BY <1>1, RunningParts DEF Due
  <1>3. R_V0 \in Writes(slot.mem.ir) \cup Writes(slot.wb.ir) /\ R_V0 # 0
    BY <1>2, UnfinishedSlots
  <1>4. registerStatus[R_V0] = 0
    BY <1>1, <1>3, ComputedInExMem, ComputedInMemWb
  <1>5. Silent(id_ex.ctl) /\ TypeOK
    <2>1. TypeOK /\ LatchInv /\ LoadProgress /\ Live
      BY <1>1, RunningParts DEF Live
    <2>2. id_ex.ctl \in Control /\ id_ex.ctl.mread # 1
      BY <1>1, <2>1 DEF TypeOK, IdEx, LoadProgress
    <2> QED BY <2>1, <2>2 DEF LatchInv, GoodControl, Silent, Control, Bit
  <1> QED BY <1>1, <1>4, <1>5, SyscallSeen

\* Whatever the program, the cycle limit and the words: until it uses one of
\* the idioms, a SYSCALL decoded with $v0 on its way is never passed over.
THEOREM ExitsAreSeen == RetireSpec => ExitStops
  <1>1. IInv /\ BoardInv /\ RetireInv =>
          (decode /\ RUN_BIT = 1 /\ hazard' = {} /\ Special(if_id.ir, {"SYSCALL"})
           /\ (\E n \in 1 .. Len(Unfinished) : R_V0 \in Writes(Unfinished[n].ir) \ {0})
           /\ RetireNext => id_ex'.run_bit = 0)
    <2>1. RetireStep => hazard \subseteq hazard'
      BY DEF RetireStep, history
    <2>2. decode => ~ Stopped
      BY DEF decode, Stopped
    <2> QED BY <2>1, <2>2, ExitStep DEF RetireNext
  <1> QED BY <1>1, PipelineInOrder, PTL DEF RetireSpec, ExitStops
=============================================================================
