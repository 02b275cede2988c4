---------------------------- MODULE ShellProofs ----------------------------
(***************************************************************************)
(* A user at the prompt of run_shell who runs a program in pieces and sets *)
(* registers while instructions are in flight sees SeqShell, for every     *)
(* word size, register file, memory, program, cycle limit and set of       *)
(* commands.                                                               *)
(***************************************************************************)
EXTENDS Shell, RetirementProofs

----------------------------------------------------------------------------
(* Latches with operands that differ only where nobody looks               *)

\* The operands sf, g, k of i differ from rf, h, l at most in r, which i does
\* not read.
Alike(i, p, rf, h, l, sf, g, k, r) ==
  /\ i \in Instr /\ Known(i) /\ p \in Word /\ r \notin Reads(i)
  /\ rf \in [Reg -> Word] /\ h \in Word /\ l \in Word
  /\ sf \in [Reg -> Word] /\ g \in Word /\ k \in Word
  /\ \A q \in Reg \ {r} : sf[q] = rf[q]
  /\ r # HI => g = h
  /\ r # LO => k = l

\* They make no difference to its latch.
LEMMA SameOperands ==
  ASSUME NEW i, NEW p, NEW rf, NEW h, NEW l, NEW sf, NEW g, NEW k, NEW r,
         Alike(i, p, rf, h, l, sf, g, k, r)
  PROVE  /\ Same(LatchOf(i, p, sf, g, k), LatchOf(i, p, rf, h, l), i)
         /\ LatchOf(i, p, sf, g, k).ctl = ControlOf(i, LatchOf(i, p, sf, g, k).ctl)
         /\ LatchOf(i, p, sf, g, k).jumpAddress = LatchOf(i, p, rf, h, l).jumpAddress
  <1> DEFINE e == LatchOf(i, p, rf, h, l)
             f == LatchOf(i, p, sf, g, k)
  <1>0. /\ i \in Instr /\ Known(i) /\ p \in Word
    BY DEF Alike
  <1>1. /\ e.ir = i /\ e.pc = p /\ e.hi = h /\ e.lo = l /\ e.run_bit = 1
        /\ e.ctl = ControlOf(i, NoControl("NONE")) /\ DestinationOf(e) = Names(i)
        /\ e.rs.value = IF Links(i) THEN U32(4) ELSE rf[i.rs]
        /\ e.rt.value = IF Links(i) THEN p ELSE rf[i.rt]
        /\ e.jumpAddress = IF Special(i, RegJumps) THEN rf[i.rs]
                           ELSE IF i.opcode \in {"J", "JAL"} THEN U32(4 * i.label) ELSE 0
    <2>0. rf \in [Reg -> Word] /\ h \in Word /\ l \in Word
      BY DEF Alike
    <2>1. /\ e.ir = i /\ e.pc = p /\ e.hi = h /\ e.lo = l /\ e.run_bit = 1
          /\ e.ctl = ControlOf(i, NoControl("NONE")) /\ DestinationOf(e) = Names(i)
      BY <1>0, <2>0, LatchFields
    <2>2. e.rs.value = IF Links(i) THEN U32(4) ELSE rf[i.rs]
      BY <1>0, <2>0, LatchFields
    <2>3. e.rt.value = IF Links(i) THEN p ELSE rf[i.rt]
      BY <1>0, <2>0, LatchFields
    <2>4. e.jumpAddress = IF Special(i, RegJumps) THEN rf[i.rs]
                         ELSE IF i.opcode \in {"J", "JAL"} THEN U32(4 * i.label) ELSE 0
      BY <1>0, <2>0, LatchFields
    <2> QED BY <2>1, <2>2, <2>3, <2>4
  <1>2. /\ f.ir = i /\ f.pc = p /\ f.hi = g /\ f.lo = k /\ f.run_bit = 1
        /\ f.ctl = ControlOf(i, NoControl("NONE")) /\ DestinationOf(f) = Names(i)
        /\ f.rs.value = IF Links(i) THEN U32(4) ELSE sf[i.rs]
        /\ f.rt.value = IF Links(i) THEN p ELSE sf[i.rt]
        /\ f.jumpAddress = IF Special(i, RegJumps) THEN sf[i.rs]
                           ELSE IF i.opcode \in {"J", "JAL"} THEN U32(4 * i.label) ELSE 0
    <2>0. sf \in [Reg -> Word] /\ g \in Word /\ k \in Word
      BY DEF Alike
    <2>1. /\ f.ir = i /\ f.pc = p /\ f.hi = g /\ f.lo = k /\ f.run_bit = 1
          /\ f.ctl = ControlOf(i, NoControl("NONE")) /\ DestinationOf(f) = Names(i)
      BY <1>0, <2>0, LatchFields
    <2>2. f.rs.value = IF Links(i) THEN U32(4) ELSE sf[i.rs]
      BY <1>0, <2>0, LatchFields
    <2>3. f.rt.value = IF Links(i) THEN p ELSE sf[i.rt]
      BY <1>0, <2>0, LatchFields
    <2>4. f.jumpAddress = IF Special(i, RegJumps) THEN sf[i.rs]
                         ELSE IF i.opcode \in {"J", "JAL"} THEN U32(4 * i.label) ELSE 0
      BY <1>0, <2>0, LatchFields
    <2> QED BY <2>1, <2>2, <2>3, <2>4
  <1>3. f.ctl = ControlOf(i, f.ctl)
    BY <1>0, <1>2, ControlFixed
  <1>4. i.rs \in Reg /\ i.rt \in Reg
    BY <1>0 DEF Instr
  <1>5. Special(i, RegJumps) => i.rs \in Reads(i)
    BY <1>0, ReadsCases DEF Special
  <1> HIDE DEF e, f
  <1>6. f.jumpAddress = e.jumpAddress
    BY <1>1, <1>2, <1>4, <1>5 DEF Alike
  <1>7. Same(f, e, i)
    BY <1>1, <1>2, <1>4, <1>6 DEF Same, Alike
  <1> QED BY <1>3, <1>6, <1>7 DEF e, f

\* An instruction that writes a register of the file has a result there.
LEMMA ResultClass ==
  ASSUME NEW i \in Instr, Known(i), NEW e, e.ir = i, e.ctl = ControlOf(i, e.ctl), NEW m,
         Holding(m, e), GoesToReg(m)
  PROVE  \/ Links(i) \/ Special(i, AluFuncts \cup MoveFrom) \/ Regimm(i, LinkBranch)
         \/ i.opcode \in ImmOps \cup {"LUI"} \cup Loads \cup Stores
  <1>1. e.ctl.reg_write = 1 /\ e.ctl.mem_to_rg = Bool(i.opcode \in Loads)
    BY SteeringFields DEF Holding, GoesToReg
  <1>2. ~ Special(i, MulDiv \cup MoveTo)
    <2>1. SUFFICES ASSUME Special(i, MulDiv \cup MoveTo) PROVE FALSE
      OBVIOUS
    <2>2. i.opcode \notin Loads
      BY <2>1 DEF Special, Loads
    <2>3. HI \in Writes(i) \/ LO \in Writes(i)
      BY <2>1, HiLoWriters DEF Special, MoveTo
    <2> QED BY <1>1, <2>2, <2>3 DEF Holding, GoesToReg, Bool
  <1>3. Special(i, Computing) => Special(i, AluFuncts \cup MoveFrom)
    BY <1>2 DEF Special, Computing
  <1>4. \/ e.ctl = NoControl("SPECIAL") \/ e.ctl = Jump("SPECIAL") \/ e.ctl = Jump("J")
        \/ e.ctl = [Branch("REGIMM") EXCEPT !.alu_src = 1] \/ e.ctl = Branch(i.opcode)
        \/ Special(i, {"JALR"}) \/ i.opcode = "JAL" \/ Special(i, Computing) \/ Regimm(i, LinkBranch)
        \/ i.opcode \in ImmOps \cup {"LUI"} \cup Loads \cup Stores
    BY ControlCases
  <1>5. ASSUME NEW c, c.reg_write = 1
        PROVE  /\ c # NoControl("SPECIAL") /\ c # Jump("SPECIAL") /\ c # Jump("J")
               /\ c # [Branch("REGIMM") EXCEPT !.alu_src = 1] /\ c # Branch(i.opcode)
    <2>1. c # NoControl("SPECIAL") /\ c # Jump("SPECIAL") /\ c # Jump("J") /\ c # Branch(i.opcode)
      BY <1>5 DEF NoControl, Jump, Branch
    <2>2. c # [Branch("REGIMM") EXCEPT !.alu_src = 1]
      <3> DEFINE b == [Branch("REGIMM") EXCEPT !.alu_src = 1]
      <3>1. b.reg_write = 0
        BY DEF NoControl, Branch
      <3> HIDE DEF b
      <3>2. c # b
        BY <1>5, <3>1
      <3> QED BY <3>2 DEF b
    <2> QED BY <2>1, <2>2
  <1>6. /\ e.ctl # NoControl("SPECIAL") /\ e.ctl # Jump("SPECIAL") /\ e.ctl # Jump("J")
        /\ e.ctl # [Branch("REGIMM") EXCEPT !.alu_src = 1] /\ e.ctl # Branch(i.opcode)
    BY <1>1, <1>5
  <1> QED BY <1>3, <1>4, <1>6 DEF Links

\* What a latch holds of e it holds of f, if both lead to the same results.
LEMMA SameHolding ==
  ASSUME NEW i \in Instr, Known(i), NEW e, NEW f, Same(f, e, i),
         e.ctl = ControlOf(i, e.ctl), f.ctl = ControlOf(i, f.ctl), NEW m, Holding(m, e)
  PROVE  /\ Holding(m, f)
         /\ HoldingAccess(m, e) => HoldingAccess(m, f)
         /\ e.ctl.mem_to_rg = 1 => LoadedBy(f) = LoadedBy(e)
         /\ f.jumpAddress = e.jumpAddress => NextOf(f) = NextOf(e)
  <1>1. /\ f.ir = i /\ e.ir = i /\ f.pc = e.pc /\ f.ctl = e.ctl /\ DestinationOf(f) = DestinationOf(e)
    BY DEF Same
  <1>2. /\ HiAfter(f).index = HiAfter(e).index /\ LoAfter(f).index = LoAfter(e).index
        /\ HiAfter(f).index = 1 => HiAfter(f) = HiAfter(e)
        /\ LoAfter(f).index = 1 => LoAfter(f) = LoAfter(e)
    BY SameHiLo
  <1>3. GoesToReg(m) => AluResult(f, 0) = AluResult(e, 0)
    <2> SUFFICES ASSUME GoesToReg(m) PROVE AluResult(f, 0) = AluResult(e, 0)
      OBVIOUS
    <2>1. \/ Links(i) \/ Special(i, AluFuncts \cup MoveFrom) \/ Regimm(i, LinkBranch)
          \/ i.opcode \in ImmOps \cup {"LUI"} \cup Loads \cup Stores
      BY <1>1, ResultClass
    <2> QED BY <2>1, SameResult
  <1>4. Holding(m, f)
    BY <1>1, <1>2, <1>3 DEF Holding
  <1>5. /\ e.ctl.mread = Bool(i.opcode \in Loads) /\ e.ctl.mwrite = Bool(i.opcode \in Stores)
        /\ e.ctl.mem_to_rg = Bool(i.opcode \in Loads)
    <2>1. LET c == ControlOf(i, e.ctl)
          IN /\ c.mread = Bool(i.opcode \in Loads) /\ c.mwrite = Bool(i.opcode \in Stores)
             /\ c.mem_to_rg = Bool(i.opcode \in Loads)
      BY SteeringFields
    <2> QED BY <2>1
  <1>6. e.ctl.mread = 1 \/ e.ctl.mem_to_rg = 1 \/ e.ctl.mwrite = 1 => AluResult(f, 0) = AluResult(e, 0)
    BY <1>5, SameResult DEF Bool
  <1>7. /\ f.ctl.mread = 1 => LoadSize(f, 0) = LoadSize(e, 0) /\ IsLoadSigned(f, 0) = IsLoadSigned(e, 0)
        /\ f.ctl.mwrite = 1 => StoreValue(f, 0) = StoreValue(e, 0)
    BY SameAccess
  <1>8. HoldingAccess(m, e) => HoldingAccess(m, f)
    BY <1>1, <1>6, <1>7 DEF HoldingAccess
  <1>9. e.ctl.mem_to_rg = 1 => LoadedBy(f) = LoadedBy(e)
    BY <1>1, <1>5, <1>6, <1>7 DEF LoadedBy
  <1>10. f.ctl.branch = 1 => BranchCondition(f, 0) = BranchCondition(e, 0) /\ BranchTarget(f) = BranchTarget(e)
    BY SameBranch
  <1>11. f.jumpAddress = e.jumpAddress => NextOf(f) = NextOf(e)
    BY <1>1, <1>10 DEF NextOf
  <1> QED BY <1>4, <1>8, <1>9, <1>11

----------------------------------------------------------------------------
(* A register set while the program is stopped between two cycles          *)

\* Register r, or HI, or LO, is given a word and nothing else changes.
Given(r) ==
  /\ r \in StatusIndex /\ REGS' \in [Reg -> Word] /\ hi' \in Word /\ lo' \in Word
  /\ \A q \in Reg \ {r} : REGS'[q] = REGS[q]
  /\ r # HI => hi' = hi
  /\ r # LO => lo' = lo
  /\ UNCHANGED <<stage, PC, RUN_BIT, INSTRUCTION_COUNT, if_id, id_ex, ex_mem, mem_wb, fetch_status,
                 decode_status, execute_status, memory_status, writeback_status, fetch_timer, decode_timer,
                 registerStatus, dependency, load, dram, text, slot>>

\* What is pending changes nowhere else either.
LEMMA PendingGiven ==
  ASSUME TypeOK, LatchInv, NEW r, Given(r)
  PROVE  /\ \A q \in Reg \ {r} : RegsW'[q] = RegsW[q] /\ RegsM'[q] = RegsM[q]
         /\ r # HI => HiW' = HiW /\ HiM' = HiM
         /\ r # LO => LoW' = LoW /\ LoM' = LoM
         /\ RegsW' \in [Reg -> Word] /\ HiW' \in Word /\ LoW' \in Word
         /\ RegsM' \in [Reg -> Word] /\ HiM' \in Word /\ LoM' \in Word
  <1> USE DEF Given
  <1>1. /\ MemoryValue \in Word /\ WriteBackValue \in Word /\ REGS \in [Reg -> Word]
        /\ MemoryValue' = MemoryValue /\ WriteBackValue' = WriteBackValue
    BY PendingTypes DEF MemoryValue, WriteBackValue, TypeOK
  <1>2. /\ mem_wb.hi.value \in Word /\ mem_wb.lo.value \in Word
        /\ ex_mem.hi.value \in Word /\ ex_mem.lo.value \in Word
    BY DEF TypeOK, ExMem, MemWb, HiLoLatch
  <1>3. ASSUME NEW m, NEW v \in Word, NEW rf \in [Reg -> Word], NEW sf \in [Reg -> Word],
               \A q \in Reg \ {r} : sf[q] = rf[q]
        PROVE  RegsBy(m, v, sf) \in [Reg -> Word] /\ RegsBy(m, v, rf) \in [Reg -> Word]
               /\ \A q \in Reg \ {r} : RegsBy(m, v, sf)[q] = RegsBy(m, v, rf)[q]
    BY <1>3 DEF RegsBy
  <1>4. /\ RegsW' = IF writeback_status = 1 THEN RegsBy(mem_wb, WriteBackValue, REGS') ELSE REGS'
        /\ RegsM' = IF memory_status = 1 THEN RegsBy(ex_mem, MemoryValue, RegsW') ELSE RegsW'
    BY <1>1 DEF RegsW, RegsM, RegsBy, GoesToReg
  <1>5. /\ RegsW \in [Reg -> Word] /\ RegsW' \in [Reg -> Word]
        /\ \A q \in Reg \ {r} : RegsW'[q] = RegsW[q]
    BY <1>1, <1>3, <1>4 DEF RegsW
  <1>6. /\ RegsM' \in [Reg -> Word]
        /\ \A q \in Reg \ {r} : RegsM'[q] = RegsM[q]
    BY <1>1, <1>3, <1>4, <1>5 DEF RegsM
  <1>7. /\ r # HI => HiW' = HiW
        /\ r # LO => LoW' = LoW
        /\ HiW' \in Word /\ LoW' \in Word
    BY <1>2 DEF HiW, LoW, HiBy, LoBy
  <1>8. /\ r # HI => HiM' = HiM
        /\ r # LO => LoM' = LoM
        /\ HiM' \in Word /\ LoM' \in Word
    BY <1>2, <1>7 DEF HiM, LoM, HiBy, LoBy
  <1> QED BY <1>5, <1>6, <1>7, <1>8

\* No instruction in flight has read it: what is in flight still holds what
\* SeqMachine computes, now from the register it has been given.
LEMMA GivenResults ==
  ASSUME Running, NEW r, Given(r), ~ ReadInFlight(r)
  PROVE  Results' /\ Order' /\ FrontWb' = FrontWb
  <1>1. /\ TypeOK /\ LatchInv /\ SlotTypes /\ Origins /\ Results /\ Order
    BY RunningParts
  <1>2. /\ slot.ex.ir \in Instr /\ slot.mem.ir \in Instr /\ slot.wb.ir \in Instr
        /\ slot.ex.pc \in Word /\ slot.mem.pc \in Word /\ slot.wb.pc \in Word
    BY <1>1, HeldTypes
  <1>3. /\ REGS \in [Reg -> Word] /\ hi \in Word /\ lo \in Word
        /\ RegsW \in [Reg -> Word] /\ HiW \in Word /\ LoW \in Word
        /\ RegsM \in [Reg -> Word] /\ HiM \in Word /\ LoM \in Word
    BY <1>1, PendingTypes DEF TypeOK
  <1>4. /\ \A q \in Reg \ {r} : RegsW'[q] = RegsW[q] /\ RegsM'[q] = RegsM[q]
        /\ r # HI => HiW' = HiW /\ HiM' = HiM
        /\ r # LO => LoW' = LoW /\ LoM' = LoM
        /\ RegsW' \in [Reg -> Word] /\ HiW' \in Word /\ LoW' \in Word
        /\ RegsM' \in [Reg -> Word] /\ HiM' \in Word /\ LoM' \in Word
    BY <1>1, PendingGiven
  <1>5. /\ r \in StatusIndex /\ REGS' \in [Reg -> Word] /\ hi' \in Word /\ lo' \in Word
        /\ \A q \in Reg \ {r} : REGS'[q] = REGS[q]
        /\ r # HI => hi' = hi
        /\ r # LO => lo' = lo
        /\ UNCHANGED <<PC, if_id, id_ex, ex_mem, mem_wb, execute_status, memory_status,
                       writeback_status, dram, text, slot>>
    BY DEF Given
  <1>6. /\ execute_status = 1 => r \notin Reads(slot.ex.ir)
        /\ memory_status = 1 => r \notin Reads(slot.mem.ir)
        /\ writeback_status = 1 => r \notin Reads(slot.wb.ir)
    BY DEF ReadInFlight
  <1>7. ASSUME writeback_status = 1
        PROVE  /\ Same(WbLatch', WbLatch, slot.wb.ir) /\ WbLatch'.ctl = ControlOf(slot.wb.ir, WbLatch'.ctl)
               /\ WbLatch'.jumpAddress = WbLatch.jumpAddress
    <2>1. Known(slot.wb.ir) /\ r \notin Reads(slot.wb.ir)
      BY <1>1, <1>6, <1>7 DEF Origins, Origin
    <2>2. WbLatch' = LatchOf(slot.wb.ir, slot.wb.pc, REGS', hi', lo')
      BY <1>5 DEF WbLatch
    <2>3. WbLatch = LatchOf(slot.wb.ir, slot.wb.pc, REGS, hi, lo)
      BY DEF WbLatch
    <2>4. Alike(slot.wb.ir, slot.wb.pc, REGS, hi, lo, REGS', hi', lo', r)
      BY <1>2, <1>3, <1>5, <2>1 DEF Alike
    <2> QED BY <2>2, <2>3, <2>4, SameOperands
  <1>8. ASSUME memory_status = 1
        PROVE  /\ Same(MemLatch', MemLatch, slot.mem.ir) /\ MemLatch'.ctl = ControlOf(slot.mem.ir, MemLatch'.ctl)
               /\ MemLatch'.jumpAddress = MemLatch.jumpAddress
    <2>1. Known(slot.mem.ir) /\ r \notin Reads(slot.mem.ir)
      BY <1>1, <1>6, <1>8 DEF Origins, Origin
    <2>2. MemLatch' = LatchOf(slot.mem.ir, slot.mem.pc, RegsW', HiW', LoW')
      BY <1>5 DEF MemLatch
    <2>3. MemLatch = LatchOf(slot.mem.ir, slot.mem.pc, RegsW, HiW, LoW)
      BY DEF MemLatch
    <2>4. Alike(slot.mem.ir, slot.mem.pc, RegsW, HiW, LoW, RegsW', HiW', LoW', r)
      BY <1>2, <1>3, <1>4, <2>1 DEF Alike
    <2> QED BY <2>2, <2>3, <2>4, SameOperands
  <1>9. ASSUME execute_status = 1
        PROVE  Same(ExLatch', ExLatch, slot.ex.ir)
    <2>1. Known(slot.ex.ir) /\ r \notin Reads(slot.ex.ir)
      BY <1>1, <1>6, <1>9 DEF Origins, Origin
    <2>2. ExLatch' = LatchOf(slot.ex.ir, slot.ex.pc, RegsM', HiM', LoM')
      BY <1>5 DEF ExLatch
    <2>3. ExLatch = LatchOf(slot.ex.ir, slot.ex.pc, RegsM, HiM, LoM)
      BY DEF ExLatch
    <2>4. Alike(slot.ex.ir, slot.ex.pc, RegsM, HiM, LoM, RegsM', HiM', LoM', r)
      BY <1>2, <1>3, <1>4, <2>1 DEF Alike
    <2> QED BY <2>2, <2>3, <2>4, SameOperands
  <1>10. /\ writeback_status = 1 => Known(slot.wb.ir) /\ WbLatch.ctl = ControlOf(slot.wb.ir, WbLatch.ctl)
         /\ memory_status = 1 => Known(slot.mem.ir) /\ MemLatch.ctl = ControlOf(slot.mem.ir, MemLatch.ctl)
    BY <1>1, LatchesFit DEF Origins, Origin
  <1>11. ASSUME writeback_status = 1, slot.wb.real
         PROVE  /\ Holding(mem_wb, WbLatch')
                /\ mem_wb.mem_to_rg = 1 => mem_wb.memory_data = LoadedBy(WbLatch)'
                /\ NextOf(WbLatch') = NextOf(WbLatch)
    <2>1. /\ Holding(mem_wb, WbLatch)
          /\ mem_wb.mem_to_rg = 1 => mem_wb.memory_data = LoadedBy(WbLatch)
      BY <1>1, <1>11 DEF Results
    <2>2. /\ Holding(mem_wb, WbLatch')
          /\ WbLatch.ctl.mem_to_rg = 1 => LoadedBy(WbLatch') = LoadedBy(WbLatch)
          /\ NextOf(WbLatch') = NextOf(WbLatch)
      BY <1>2, <1>7, <1>10, <1>11, <2>1, SameHolding
    <2>3. LoadedBy(WbLatch)' = LoadedBy(WbLatch')
      BY <1>5 DEF LoadedBy
    <2> QED BY <2>1, <2>2, <2>3 DEF Holding
  <1>12. ASSUME memory_status = 1, slot.mem.real
         PROVE  /\ Holding(ex_mem, MemLatch') /\ HoldingAccess(ex_mem, MemLatch')
                /\ NextOf(MemLatch') = NextOf(MemLatch)
    <2>1. Holding(ex_mem, MemLatch) /\ HoldingAccess(ex_mem, MemLatch)
      BY <1>1, <1>12 DEF Results
    <2> QED BY <1>2, <1>8, <1>10, <1>12, <2>1, SameHolding
  <1>13. ASSUME execute_status = 1, slot.ex.real
         PROVE  Same(id_ex, ExLatch', slot.ex.ir)
    <2>1. Same(id_ex, ExLatch, slot.ex.ir)
      BY <1>1, <1>13 DEF Results
    <2> QED BY <1>9, <1>13, <2>1 DEF Same
  <1>14. ASSUME \/ writeback_status = 1 /\ ~ slot.wb.real
                \/ memory_status = 1 /\ ~ slot.mem.real
                \/ execute_status = 1 /\ ~ slot.ex.real
         PROVE  REGS'[0] = REGS[0]
    <2>1. r \notin Reads(Nop)
      BY <1>1, <1>6, <1>14 DEF Origins, Origin
    <2>2. Reads(Nop) = {0}
      BY DEF Reads, Nop, Special
    <2> QED BY <1>5, <2>1, <2>2, StatusIndices
  <1>15. Results'
    <2>1. writeback_status = 1 => IF slot.wb.real
            THEN Holding(mem_wb, WbLatch') /\ (mem_wb.mem_to_rg = 1 => mem_wb.memory_data = LoadedBy(WbLatch)')
            ELSE Harmless(mem_wb)'
      BY <1>1, <1>5, <1>11, <1>14 DEF Results, Harmless
    <2>2. memory_status = 1 => IF slot.mem.real
            THEN Holding(ex_mem, MemLatch') /\ HoldingAccess(ex_mem, MemLatch')
            ELSE Harmless(ex_mem)' /\ ex_mem.mwrite = 0
      BY <1>1, <1>5, <1>12, <1>14 DEF Results, Harmless
    <2>3. execute_status = 1 => IF slot.ex.real THEN Same(id_ex, ExLatch', slot.ex.ir) ELSE HarmlessIdEx(id_ex)'
      BY <1>1, <1>5, <1>13, <1>14 DEF Results, HarmlessIdEx
    <2>4. /\ Holding(mem_wb, WbLatch)' <=> Holding(mem_wb, WbLatch')
          /\ Holding(ex_mem, MemLatch)' <=> Holding(ex_mem, MemLatch')
          /\ HoldingAccess(ex_mem, MemLatch)' <=> HoldingAccess(ex_mem, MemLatch')
          /\ Same(id_ex, ExLatch, slot.ex.ir)' <=> Same(id_ex, ExLatch', slot.ex.ir)
      BY <1>5 DEF Holding, HoldingAccess, Same, GoesToReg
    <2> QED BY <1>5, <2>1, <2>2, <2>3, <2>4 DEF Results
  <1>16. FrontEx' = FrontEx /\ FrontMem' = FrontMem /\ FrontWb' = FrontWb
    BY <1>5 DEF FrontEx, FrontMem, FrontWb
  <1>17. Order'
    <2>1. NextOf(WbLatch)' = NextOf(WbLatch') /\ NextOf(MemLatch)' = NextOf(MemLatch')
      BY DEF NextOf
    <2> QED BY <1>1, <1>5, <1>11, <1>12, <1>16, <2>1 DEF Order
  <1> QED BY <1>15, <1>16, <1>17

\* What Typed does to the history of idioms.
Noted(r) == hazard' = IF ReadInFlight(r) THEN hazard \cup {"input"} ELSE hazard

\* The invariants of the pipeline survive a register that is set.
LEMMA GivenInv ==
  ASSUME IInv, BoardInv, RetireInv, BetweenCycles, NEW r, Given(r), Noted(r)
  PROVE  (IInv /\ BoardInv /\ RetireInv)'
  <1>1. /\ REGS' \in [Reg -> Word] /\ hi' \in Word /\ lo' \in Word
        /\ UNCHANGED <<stage, PC, RUN_BIT, INSTRUCTION_COUNT, if_id, id_ex, ex_mem, mem_wb, fetch_status,
                       decode_status, execute_status, memory_status, writeback_status, fetch_timer,
                       decode_timer, registerStatus, dependency, load, dram, text, slot>>
    BY DEF Given
  <1>2. IInv'
    <2>1. TypeOK'
      BY <1>1 DEF TypeOK, IInv
    <2>2. LatchInv'
      BY <1>1 DEF LatchInv, Destined, IInv
    <2>3. StallDiscipline' /\ LoadProgress'
      BY <1>1 DEF StallDiscipline, LoadProgress, Live, IInv
    <2> QED BY <2>1, <2>2, <2>3 DEF IInv
  <1>3. hazard' = {} => hazard = {} /\ ~ ReadInFlight(r)
    BY DEF Noted
  <1>4. BoardInv'
    <2>1. SlotTypes'
      BY <1>1 DEF BoardInv, SlotTypes
    <2>2. ASSUME Live', hazard' = {} PROVE (Due /\ Slots /\ Marked /\ Apart /\ Shadow)'
      <3>1. Due /\ Slots /\ Marked /\ Apart /\ Shadow
        BY <1>1, <1>3, <2>2 DEF BoardInv, Live
      <3>2. Due' /\ Shadow'
        BY <1>1, <3>1 DEF Due, Shadow
      <3>3. Slots'
        BY <1>1, <3>1 DEF Slots, Releases, Holds
      <3>4. Marked'
        BY <1>1, <3>1 DEF Marked, Busy
      <3>5. Apart'
        BY <1>1, <3>1 DEF Apart, ClearOf, ClearBehind
      <3> QED BY <3>1, <3>2, <3>3, <3>4, <3>5
    <2> QED BY <2>1, <2>2 DEF BoardInv
  <1>5. RetireInv'
    <2> SUFFICES ASSUME Live', hazard' = {} PROVE IF RUN_BIT' = 1 THEN Ordered' ELSE Quiet'
      BY DEF RetireInv
    <2>1. Live /\ hazard = {} /\ ~ ReadInFlight(r)
      BY <1>1, <1>3 DEF Live
    <2>2. CASE RUN_BIT # 1
      BY <1>1, <2>1, <2>2 DEF RetireInv, Quiet
    <2>3. CASE RUN_BIT = 1
      <3>1. Running
        BY <2>1, <2>3 DEF Running
      <3>2. FrontEnd /\ Origins /\ Empties /\ Neighbours /\ HiLoOwned
        BY <3>1, RunningParts
      <3>3. Results' /\ Order'
        BY <2>1, <3>1, GivenResults
      <3>4. FrontEnd' /\ Empties'
        BY <1>1, <3>2 DEF FrontEnd, Empties
      <3>5. Origins' /\ HiLoOwned'
        BY <1>1, <3>2 DEF Origins, Origin, HiLoOwned
      <3>6. Neighbours'
        BY <1>1, <3>2 DEF Neighbours, Carries, StoresOn
      <3> QED BY <1>1, <2>3, <3>3, <3>4, <3>5, <3>6 DEF Ordered
    <2> QED BY <2>2, <2>3
  <1> QED BY <1>2, <1>4, <1>5

\* The commands that set a register give it a word.
LEMMA TypedGives ==
  ASSUME TypeOK
  PROVE  /\ \A i \in Inputs : input(i[1], i[2]) => Given(i[1]) /\ Noted(i[1])
         /\ \A v \in HiLoInputs : high(v) => Given(HI) /\ Noted(HI)
         /\ \A v \in HiLoInputs : low(v) => Given(LO) /\ Noted(LO)
  <1>1. REGS \in [Reg -> Word] /\ hi \in Word /\ lo \in Word
    BY DEF TypeOK
  <1>2. ASSUME NEW i \in Inputs, input(i[1], i[2]) PROVE Given(i[1]) /\ Noted(i[1])
    <2>1. i[1] \in Reg /\ i[2] \in Word
      BY CommandAssumption
    <2>2. ASSUME NEW r \in Reg, NEW v \in Word, input(r, v) PROVE Given(r) /\ Noted(r)
      <3>1. REGS' = [REGS EXCEPT ![r] = v] /\ UNCHANGED <<hi, lo, registerStatus>> /\ Typed(r)
        BY <2>2 DEF input
      <3>2. REGS' \in [Reg -> Word] /\ \A q \in Reg \ {r} : REGS'[q] = REGS[q]
        BY <1>1, <3>1
      <3> QED BY <1>1, <3>1, <3>2, StatusIndices DEF Typed, Given, Noted, statuses, timers
    <2> QED BY <1>2, <2>1, <2>2
  <1>3. ASSUME NEW v \in HiLoInputs, high(v) \/ low(v)
        PROVE  /\ high(v) => Given(HI) /\ Noted(HI)
               /\ low(v) => Given(LO) /\ Noted(LO)
    <2>1. v \in Word /\ HI # LO
      BY CommandAssumption, RegisterAssumption DEF HI, LO
    <2> QED BY <1>1, <2>1, StatusIndices DEF high, low, Typed, Given, Noted, statuses, timers
  <1> QED BY <1>2, <1>3

----------------------------------------------------------------------------
(* The invariant of a session at the prompt                                *)

\* The prompt only appears between two cycles.
ShellInv == IInv /\ BoardInv /\ RetireInv /\ (Prompt => BetweenCycles)

\* Commands that change no variable of the machine.
LEMMA IdleCommands ==
  ASSUME ShellInv, UNCHANGED allvars, Prompt' => BetweenCycles
  PROVE  ShellInv'
  <1>1. IInv' /\ BoardInv' /\ RetireInv'
    BY HistoryWatches, NextInv, BoardStep, RetireStepInv DEF ShellInv
  <1>2. stage' = stage
    BY DEF allvars, vars
  <1> QED BY <1>1, <1>2 DEF ShellInv, BetweenCycles

\* Every step of the session keeps it.
LEMMA ShellStepInv == ShellInv /\ [ShellNext]_shellVars => ShellInv'
  <1> SUFFICES ASSUME ShellInv, [ShellNext]_shellVars PROVE ShellInv'
    OBVIOUS
  <1>1. CASE go \/ (\E n \in Runs : run(n)) \/ return \/ quit \/ Refused \/ Ended \/ UNCHANGED shellVars
    <2>1. UNCHANGED allvars
      BY <1>1 DEF go, run, return, quit, Refused, Ended, shellVars
    <2>2. Prompt' => BetweenCycles
      BY <1>1 DEF go, run, return, quit, Refused, Ended, shellVars, shell, Prompt, ShellInv
    <2> QED BY <2>1, <2>2, IdleCommands
  <1>2. CASE simulate
    <2>1. RetireStep /\ ~ Prompt'
      BY <1>2 DEF simulate, Prompt
    <2>2. IInv' /\ BoardInv' /\ RetireInv'
      BY <2>1, HistoryWatches, NextInv, BoardStep, RetireStepInv DEF ShellInv, RetireNext
    <2> QED BY <2>1, <2>2 DEF ShellInv
  <1>3. ASSUME NEW r, Typed(r), Given(r), Noted(r) PROVE ShellInv'
    <2>1. BetweenCycles /\ BetweenCycles'
      BY <1>3 DEF Typed, ShellInv, BetweenCycles
    <2>2. (IInv /\ BoardInv /\ RetireInv)'
      BY <1>3, <2>1, GivenInv DEF ShellInv
    <2> QED BY <2>1, <2>2 DEF ShellInv
  <1>4. CASE \E i \in Inputs : input(i[1], i[2])
    <2>1. PICK i \in Inputs : input(i[1], i[2])
      BY <1>4
    <2> QED BY <1>3, <2>1, TypedGives DEF input, ShellInv, IInv
  <1>5. CASE \E v \in HiLoInputs : high(v) \/ low(v)
    <2>1. PICK v \in HiLoInputs : high(v) \/ low(v)
      BY <1>5
    <2> QED BY <1>3, <2>1, TypedGives DEF high, low, ShellInv, IInv
  <1> QED BY <1>1, <1>2, <1>4, <1>5 DEF ShellNext

\* The first prompt.
LEMMA ShellInitInv == ShellInit => ShellInv
  BY HistoryWatches, InitInv, BoardInit, RetireInitInv DEF ShellInit, ShellInv, RetireInit, Init, BetweenCycles

\* In every state of every session the pipeline is in order, whatever the user
\* has typed between two cycles.
THEOREM SessionInOrder == ShellSpec => []ShellInv
  <1>1. ShellInit => ShellInv
    BY ShellInitInv
  <1>2. ShellInv /\ [ShellNext]_shellVars => ShellInv'
    BY ShellStepInv
  <1> QED BY <1>1, <1>2, PTL DEF ShellSpec

----------------------------------------------------------------------------
(* SeqShell and the pipeline share the decoder and the ALU                 *)

\* The operators SeqShell brings along are the ones the pipeline uses.
LEMMA ShellControl == \A i, old : SeqShell_!ControlOf(i, old) = ControlOf(i, old)
  BY DEF SeqShell_!ControlOf, SeqShell_!Known, SeqShell_!Special, SeqShell_!AluFuncts, SeqShell_!ShiftFuncts,
         SeqShell_!MulDiv, SeqShell_!MoveFrom, SeqShell_!MoveTo, SeqShell_!RegJumps, SeqShell_!Regimm,
         SeqShell_!LinkBranch, SeqShell_!PlainRegimm, SeqShell_!NoControl, SeqShell_!Jump, SeqShell_!Link,
         SeqShell_!RdWrite, SeqShell_!RtWrite, SeqShell_!Branch, SeqShell_!ImmOps, SeqShell_!CmpBranch,
         SeqShell_!Loads, SeqShell_!Load, SeqShell_!Stores, SeqShell_!Store, ControlOf, Known, Special,
         AluFuncts, ShiftFuncts, MulDiv, MoveFrom, MoveTo, RegJumps, Regimm, LinkBranch, PlainRegimm, NoControl,
         Jump, Link, RdWrite, RtWrite, Branch, ImmOps, CmpBranch, Loads, Load, Stores, Store

\* The decoder.
LEMMA ShellSetup == \A d : SeqShell_!SetupControlSignals(d) = SetupControlSignals(d)
  <1> SUFFICES ASSUME NEW d PROVE SeqShell_!SetupControlSignals(d) = SetupControlSignals(d)
    OBVIOUS
  <1>1. SeqShell_!ControlOf(d.ir, d.ctl) = ControlOf(d.ir, d.ctl)
    BY ShellControl
  <1> QED
    BY <1>1 DEF SeqShell_!SetupControlSignals, SeqShell_!Known, SeqShell_!Special, SeqShell_!AluFuncts,
           SeqShell_!ShiftFuncts, SeqShell_!MulDiv, SeqShell_!MoveFrom, SeqShell_!MoveTo, SeqShell_!RegJumps,
           SeqShell_!Regimm, SeqShell_!LinkBranch, SeqShell_!PlainRegimm, SeqShell_!HI, SeqShell_!LO,
           SeqShell_!U32, SeqShell_!WORDS, SeqShell_!BITS, SetupControlSignals, Known, Special, AluFuncts,
           ShiftFuncts, MulDiv, MoveFrom, MoveTo, RegJumps, Regimm, LinkBranch, PlainRegimm, HI, LO, U32, WORDS,
           BITS

\* What execute computes from the latch.
LEMMA ShellResults ==
  /\ \A d, old : SeqShell_!AluResult(d, old) = AluResult(d, old)
  /\ \A d : SeqShell_!HiAfter(d) = HiAfter(d) /\ SeqShell_!LoAfter(d) = LoAfter(d)
  /\ \A d, old : SeqShell_!BranchCondition(d, old) = BranchCondition(d, old)
  /\ \A d : SeqShell_!BranchTarget(d) = BranchTarget(d) /\ SeqShell_!DestinationOf(d) = DestinationOf(d)
  /\ \A d, old : SeqShell_!StoreValue(d, old) = StoreValue(d, old)
  /\ \A d, old : SeqShell_!LoadSize(d, old) = LoadSize(d, old) /\ SeqShell_!IsLoadSigned(d, old) = IsLoadSigned(d, old)
  <1>1. \A d, old : SeqShell_!AluResult(d, old) = AluResult(d, old)
    BY DEF SeqShell_!AluResult, SeqShell_!OperandA, SeqShell_!OperandB, SeqShell_!SpecialResult, SeqShell_!BITS,
           SeqShell_!U32, SeqShell_!WORDS, SeqShell_!sign_extend_16, SeqShell_!SignExtendTo, SeqShell_!HALF,
           SeqShell_!Bool, SeqShell_!S32, SeqShell_!ShiftLeft, SeqShell_!ShiftRight,
           SeqShell_!ArithmeticShiftRight, SeqShell_!HighMask, SeqShell_!LinkBranch, SeqShell_!ImmResult,
           SeqShell_!Loads, SeqShell_!Stores, SeqShell_!Effective, AluResult, OperandA, OperandB, SpecialResult,
           BITS, U32, WORDS, sign_extend_16, SignExtendTo, HALF, Bool, S32, ShiftLeft, ShiftRight,
           ArithmeticShiftRight, HighMask, LinkBranch, ImmResult, Loads, Stores, Effective
  <1>2. \A d : SeqShell_!HiAfter(d) = HiAfter(d) /\ SeqShell_!LoAfter(d) = LoAfter(d)
    BY DEF SeqShell_!HiAfter, SeqShell_!OperandA, SeqShell_!OperandB, SeqShell_!RunsSpecial, SeqShell_!Set,
           SeqShell_!U32, SeqShell_!WORDS, SeqShell_!BITS, SeqShell_!S32, SeqShell_!Product, SeqShell_!Divides,
           SeqShell_!Remainder, SeqShell_!Abs, SeqShell_!Keep, SeqShell_!LoAfter, SeqShell_!Quotient, HiAfter,
           OperandA, OperandB, RunsSpecial, Set, U32, WORDS, BITS, S32, Product, Divides, Remainder, Abs, Keep,
           LoAfter, Quotient
  <1>3. \A d, old : SeqShell_!BranchCondition(d, old) = BranchCondition(d, old)
    BY DEF SeqShell_!BranchCondition, SeqShell_!OperandA, SeqShell_!Bool, SeqShell_!Negative, SeqShell_!WORDS,
           SeqShell_!BITS, BranchCondition, OperandA, Bool, Negative, WORDS, BITS
  <1>4. \A d : SeqShell_!BranchTarget(d) = BranchTarget(d) /\ SeqShell_!DestinationOf(d) = DestinationOf(d)
    BY DEF SeqShell_!BranchTarget, SeqShell_!U32, SeqShell_!WORDS, SeqShell_!BITS, SeqShell_!sign_extend_16,
           SeqShell_!SignExtendTo, SeqShell_!HALF, SeqShell_!PlainRegimm, SeqShell_!LinkBranch,
           SeqShell_!OperandB, SeqShell_!DestinationOf, BranchTarget, U32, WORDS, BITS, sign_extend_16,
           SignExtendTo, HALF, PlainRegimm, LinkBranch, OperandB, DestinationOf
  <1>5. \A d, old : SeqShell_!StoreValue(d, old) = StoreValue(d, old)
    BY DEF SeqShell_!StoreValue, SeqShell_!BYTE, SeqShell_!HALF, StoreValue, BYTE, HALF
  <1>6. \A d, old : SeqShell_!LoadSize(d, old) = LoadSize(d, old) /\ SeqShell_!IsLoadSigned(d, old) = IsLoadSigned(d, old)
    BY DEF SeqShell_!LoadSize, SeqShell_!WORDS, SeqShell_!BITS, SeqShell_!HALF, SeqShell_!BYTE,
           SeqShell_!IsLoadSigned, SeqShell_!Loads, SeqShell_!Bool, LoadSize, WORDS, BITS, HALF, BYTE,
           IsLoadSigned, Loads, Bool
  <1> QED BY <1>1, <1>2, <1>3, <1>4, <1>5, <1>6

\* What the program and the memory hold.
LEMMA ShellAccesses ==
  /\ \A p, a : SeqShell_!FetchedFrom(p, a) = FetchedFrom(p, a)
  /\ \A m, a : SeqShell_!ReadGranule(m, a) = ReadGranule(m, a)
  /\ \A m, a, v : SeqShell_!WriteGranule(m, a, v) = WriteGranule(m, a, v)
  /\ \A c, size, signed : SeqShell_!LoadedValue(c, size, signed) = LoadedValue(c, size, signed)
  /\ \A i : SeqShell_!Known(i) <=> Known(i)
  /\ \A i, S : SeqShell_!Special(i, S) <=> Special(i, S)
  /\ \A v : SeqShell_!U32(v) = U32(v)
  /\ SeqShell_!WORDS = WORDS /\ SeqShell_!Granule = Granule
  <1>1. \A p, a : SeqShell_!FetchedFrom(p, a) = FetchedFrom(p, a)
    BY DEF SeqShell_!FetchedFrom, SeqShell_!WordAt, SeqShell_!Nop, FetchedFrom, WordAt, Nop
  <1>2. \A m, a : SeqShell_!ReadGranule(m, a) = ReadGranule(m, a)
    BY DEF SeqShell_!ReadGranule, SeqShell_!ShiftRight, SeqShell_!GranuleOf, SeqShell_!ShiftOf,
           SeqShell_!ChipId, SeqShell_!BITS, ReadGranule, ShiftRight, GranuleOf, ShiftOf, ChipId, BITS
  <1>3. \A m, a, v : SeqShell_!WriteGranule(m, a, v) = WriteGranule(m, a, v)
    BY DEF SeqShell_!WriteGranule, SeqShell_!GranuleOf, WriteGranule, GranuleOf
  <1>4. \A c, size, signed : SeqShell_!LoadedValue(c, size, signed) = LoadedValue(c, size, signed)
    BY DEF SeqShell_!LoadedValue, SeqShell_!HALF, SeqShell_!sign_extend_16, SeqShell_!SignExtendTo,
           SeqShell_!U32, SeqShell_!WORDS, SeqShell_!BITS, SeqShell_!sign_extend_8, SeqShell_!BYTE, LoadedValue,
           HALF, sign_extend_16, SignExtendTo, U32, WORDS, BITS, sign_extend_8, BYTE
  <1>5. \A i : SeqShell_!Known(i) <=> Known(i)
    BY DEF SeqShell_!Known, SeqShell_!Special, SeqShell_!AluFuncts, SeqShell_!ShiftFuncts, SeqShell_!MulDiv,
           SeqShell_!MoveFrom, SeqShell_!MoveTo, SeqShell_!RegJumps, SeqShell_!Regimm, SeqShell_!LinkBranch,
           SeqShell_!PlainRegimm, Known, Special, AluFuncts, ShiftFuncts, MulDiv, MoveFrom, MoveTo, RegJumps,
           Regimm, LinkBranch, PlainRegimm
  <1>6. \A i, S : SeqShell_!Special(i, S) <=> Special(i, S)
    BY DEF SeqShell_!Special, Special
  <1>7. \A v : SeqShell_!U32(v) = U32(v)
    BY DEF SeqShell_!U32, SeqShell_!WORDS, SeqShell_!BITS, U32, WORDS, BITS
  <1>8. SeqShell_!WORDS = WORDS /\ SeqShell_!Granule = Granule
    BY DEF SeqShell_!WORDS, SeqShell_!BITS, SeqShell_!Granule, WORDS, BITS, Granule
  <1> QED BY <1>1, <1>2, <1>3, <1>4, <1>5, <1>6, <1>7, <1>8

\* One instruction of SeqMachine is one of SeqShell.
LEMMA ShellExecutes == Seq_!Execute => SeqShell_!Execute
  <1> SUFFICES ASSUME Seq_!Execute PROVE SeqShell_!Execute
    OBVIOUS
  <1>1. Seq_!Instruction = SeqShell_!Instruction
    BY SeqAccesses, ShellAccesses DEF Seq_!Instruction, SeqShell_!Instruction
  <1>2. Seq_!Latch = SeqShell_!Latch
    <2>1. Seq_!NoControl("NONE") = SeqShell_!NoControl("NONE")
      BY DEF Seq_!NoControl, SeqShell_!NoControl
    <2> QED BY <1>1, <2>1, SeqSetup, ShellSetup DEF Seq_!Latch, SeqShell_!Latch
  <1>3. Seq_!Result = SeqShell_!Result
    BY <1>2, SeqResults, ShellResults DEF Seq_!Result, SeqShell_!Result
  <1>4. Seq_!IsHiLo <=> SeqShell_!IsHiLo
    BY <1>2, SeqResults, ShellResults DEF Seq_!IsHiLo, SeqShell_!IsHiLo
  <1>5. Seq_!Loaded = SeqShell_!Loaded
    BY <1>2, <1>3, SeqResults, ShellResults, SeqAccesses, ShellAccesses DEF Seq_!Loaded, SeqShell_!Loaded
  <1>6. Seq_!NextPC = SeqShell_!NextPC
    <2>1. Seq_!Taken <=> SeqShell_!Taken
      BY <1>2, SeqResults, ShellResults DEF Seq_!Taken, SeqShell_!Taken
    <2>2. Seq_!BranchTarget(Seq_!Latch) = SeqShell_!BranchTarget(SeqShell_!Latch)
      BY <1>2, SeqResults, ShellResults
    <2>3. Seq_!U32(RetirePC + 4) = SeqShell_!U32(RetirePC + 4)
      BY SeqAccesses, ShellAccesses
    <2> QED BY <1>2, <2>1, <2>2, <2>3 DEF Seq_!NextPC, SeqShell_!NextPC
  <1>7. /\ Seq_!DestinationOf(Seq_!Latch) = SeqShell_!DestinationOf(SeqShell_!Latch)
        /\ Seq_!HiAfter(Seq_!Latch) = SeqShell_!HiAfter(SeqShell_!Latch)
        /\ Seq_!LoAfter(Seq_!Latch) = SeqShell_!LoAfter(SeqShell_!Latch)
        /\ Seq_!StoreValue(Seq_!Latch, 0) = SeqShell_!StoreValue(SeqShell_!Latch, 0)
    BY <1>2, SeqResults, ShellResults
  <1>8. \A v : Seq_!WriteGranule(dram, Seq_!Result, v) = SeqShell_!WriteGranule(dram, SeqShell_!Result, v)
    BY <1>3, SeqAccesses, ShellAccesses
  <1>9. /\ Seq_!Known(Seq_!Instruction) <=> SeqShell_!Known(SeqShell_!Instruction)
        /\ Seq_!Special(Seq_!Instruction, {"SYSCALL"}) <=> SeqShell_!Special(SeqShell_!Instruction, {"SYSCALL"})
    BY <1>1, SeqAccesses, ShellAccesses
  <1>10. /\ (RUN_BIT = 1) /\ SeqShell_!Known(SeqShell_!Instruction)
         /\ REGS' = IF SeqShell_!Latch.ctl.reg_write = 1 /\ ~ SeqShell_!IsHiLo
                      THEN [REGS EXCEPT ![SeqShell_!DestinationOf(SeqShell_!Latch)] =
                              IF SeqShell_!Latch.ctl.mem_to_rg = 1 THEN SeqShell_!Loaded ELSE SeqShell_!Result]
                      ELSE REGS
    BY <1>2, <1>3, <1>4, <1>5, <1>7, <1>9 DEF Seq_!Execute
  <1>11. /\ hi' = SeqShell_!HiAfter(SeqShell_!Latch).value
         /\ lo' = SeqShell_!LoAfter(SeqShell_!Latch).value
         /\ dram' = IF SeqShell_!Latch.ctl.mwrite = 1
                      THEN SeqShell_!WriteGranule(dram, SeqShell_!Result, SeqShell_!StoreValue(SeqShell_!Latch, 0))
                      ELSE dram
    BY <1>2, <1>7, <1>8 DEF Seq_!Execute
  <1>12. /\ (RUN_BIT = 1)' \in IF SeqShell_!Special(SeqShell_!Instruction, {"SYSCALL"}) THEN BOOLEAN ELSE {TRUE}
         /\ RetirePC' = IF (RUN_BIT = 1)' THEN SeqShell_!NextPC ELSE 0
         /\ UNCHANGED <<hazard # {}, text>>
    BY <1>6, <1>9 DEF Seq_!Execute
  <1> QED BY <1>10, <1>11, <1>12 DEF SeqShell_!Execute

\* A step of SeqMachine is one of SeqShell.
LEMMA ShellRuns == [Seq_!Next]_Seq_!vars => [SeqShell_!ShellNext]_SeqShell_!vars
  <1> SUFFICES ASSUME [Seq_!Next]_Seq_!vars PROVE [SeqShell_!ShellNext]_SeqShell_!vars
    OBVIOUS
  <1>1. CASE UNCHANGED Seq_!vars
    BY <1>1 DEF Seq_!vars, SeqShell_!vars
  <1>2. CASE Seq_!Next
    <2>1. Seq_!Leave => SeqShell_!Leave
      BY DEF Seq_!Leave, SeqShell_!Leave
    <2>2. Seq_!TimeOut => SeqShell_!TimeOut
      BY SeqAccesses, ShellAccesses DEF Seq_!TimeOut, SeqShell_!TimeOut
    <2> QED BY <1>2, <2>1, <2>2, ShellExecutes DEF Seq_!Next, SeqShell_!Next, SeqShell_!ShellNext
  <1> QED BY <1>1, <1>2

\* A register set at the prompt is set between two instructions, unless an
\* instruction in flight has read it already.
LEMMA GivenRefines ==
  ASSUME NEW r, Given(r), Noted(r)
  PROVE  /\ RetirePC' = RetirePC /\ UNCHANGED <<dram, text, RUN_BIT>>
         /\ ReadInFlight(r) => SeqShell_!Next
         /\ ~ ReadInFlight(r) => UNCHANGED hazard
  <1>1. UNCHANGED <<PC, RUN_BIT, if_id, execute_status, memory_status, writeback_status, dram, text, slot>>
    BY DEF Given
  <1>2. RetirePC' = RetirePC
    BY <1>1, Retiring, RetiringNext DEF NextToFinish, FrontWb, FrontMem, FrontEx
  <1>3. ReadInFlight(r) => SeqShell_!Next
    BY <1>1 DEF Noted, SeqShell_!Next, SeqShell_!Leave
  <1> QED BY <1>1, <1>2, <1>3 DEF Noted

\* Every step of the session is one of SeqShell.
LEMMA ShellStepRefines == ShellInv /\ [ShellNext]_shellVars => [SeqShell_!ShellNext]_SeqShell_!vars
  <1> SUFFICES ASSUME ShellInv, [ShellNext]_shellVars PROVE [SeqShell_!ShellNext]_SeqShell_!vars
    OBVIOUS
  <1>1. CASE go \/ (\E n \in Runs : run(n)) \/ return \/ quit \/ Refused \/ Ended \/ UNCHANGED shellVars
    <2>1. UNCHANGED allvars
      BY <1>1 DEF go, run, return, quit, Refused, Ended, shellVars
    <2>2. [Seq_!Next]_Seq_!vars
      BY <2>1, RetireStepRefines DEF ShellInv
    <2> QED BY <2>2, ShellRuns
  <1>2. CASE simulate
    <2>1. [Seq_!Next]_Seq_!vars
      BY <1>2, RetireStepRefines DEF ShellInv, simulate, RetireNext
    <2> QED BY <2>1, ShellRuns
  <1>3. CASE \E i \in Inputs : input(i[1], i[2])
    <2>1. PICK i \in Inputs : input(i[1], i[2])
      BY <1>3
    <2>2. Given(i[1]) /\ Noted(i[1])
      BY <2>1, TypedGives DEF ShellInv, IInv
    <2>3. ~ ReadInFlight(i[1]) => SeqShell_!Input(i[1], i[2])
      BY <2>1, <2>2, GivenRefines DEF SeqShell_!Input, input
    <2> QED BY <2>2, <2>3, GivenRefines DEF SeqShell_!ShellNext
  <1>4. CASE \E v \in HiLoInputs : high(v) \/ low(v)
    <2>1. PICK v \in HiLoInputs : high(v) \/ low(v)
      BY <1>4
    <2>2. CASE high(v)
      <3>1. Given(HI) /\ Noted(HI)
        BY <2>2, TypedGives DEF ShellInv, IInv
      <3>2. ~ ReadInFlight(HI) => SeqShell_!High(v)
        BY <2>2, <3>1, GivenRefines DEF SeqShell_!High, high
      <3> QED BY <3>1, <3>2, GivenRefines DEF SeqShell_!ShellNext
    <2>3. CASE low(v)
      <3>1. Given(LO) /\ Noted(LO)
        BY <2>3, TypedGives DEF ShellInv, IInv
      <3>2. ~ ReadInFlight(LO) => SeqShell_!Low(v)
        BY <2>3, <3>1, GivenRefines DEF SeqShell_!Low, low
      <3> QED BY <3>1, <3>2, GivenRefines DEF SeqShell_!ShellNext
    <2> QED BY <2>1, <2>2, <2>3
  <1> QED BY <1>1, <1>2, <1>3, <1>4 DEF ShellNext

\* The two start alike.
LEMMA ShellInitRefines == ShellInit => SeqShell_!Init
  <1> SUFFICES ASSUME ShellInit PROVE SeqShell_!Init
    OBVIOUS
  <1>1. Seq_!Init
    BY RetireInitRefines DEF ShellInit
  <1> QED BY <1>1, SeqAccesses, ShellAccesses DEF Seq_!Init, SeqShell_!Init

\* For every word size, register file, memory, program and cycle limit: a
\* program that is run in pieces, with registers set in between, has the
\* effects of a machine that runs one instruction at a time and whose
\* registers are set between two of them.
THEOREM SessionRefines == ShellSpec => ImplementsSeqShell
  <1>1. ShellInv /\ [ShellNext]_shellVars => [SeqShell_!ShellNext]_SeqShell_!vars
    BY ShellStepRefines
  <1>2. ShellInit => SeqShell_!Init
    BY ShellInitRefines
  <1> QED BY <1>1, <1>2, SessionInOrder, PTL DEF ShellSpec, ImplementsSeqShell, SeqShell_!ShellSpec
=============================================================================
