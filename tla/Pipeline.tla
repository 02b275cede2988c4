------------------------------ MODULE Pipeline ------------------------------
(***************************************************************************)
(* The five-stage pipeline of src/src/sim.cpp driven by cycle() and go()   *)
(* of src/src/shell.cpp.  One call of process_instruction() runs the       *)
(* stages from the last to the first; each C function is one action here,  *)
(* and "stage" is the position inside the cycle.  Latches keep their C     *)
(* names; fields nothing reads are left out.                               *)
(***************************************************************************)
EXTENDS Decoder, Granules

CONSTANT MaxCycles         \* 5000 in cycle()

ASSUME CapAssumption == MaxCycles \in Nat \ {0}

VARIABLES
  stage,                                          \* where the cycle is
  PC, REGS, hi, lo,                               \* CURRENT_STATE
  RUN_BIT, INSTRUCTION_COUNT,
  if_id, id_ex, ex_mem, mem_wb,                   \* the latches
  fetch_status, decode_status, execute_status, memory_status, writeback_status,
  fetch_timer, decode_timer,
  registerStatus, dependency, load,
  dram, text                                      \* data memory, text region

cpu     == <<PC, REGS, hi, lo>>
statuses == <<fetch_status, decode_status, execute_status, memory_status, writeback_status>>
timers  == <<fetch_timer, decode_timer>>
board   == <<registerStatus, dependency, load>>
vars == <<stage, cpu, RUN_BIT, INSTRUCTION_COUNT, if_id, id_ex, ex_mem, mem_wb,
          statuses, timers, board, dram, text>>

----------------------------------------------------------------------------
(* Latches                                                                 *)

EmptyIfId  == [ir |-> Nop, pc |-> 0]
EmptyExMem ==
  [hi |-> None, lo |-> None, alu_result |-> 0, storeValue |-> 0, loadSize |-> 0,
   isLoadSigned |-> 0, branch |-> 0, jump |-> 0, branchCondition |-> 0, mem_to_rg |-> 0,
   run_bit |-> 0, write_register |-> 0, mwrite |-> 0, mread |-> 0, reg_write |-> 0]
EmptyMemWb ==
  [hi |-> None, lo |-> None, alu_result |-> 0, memory_data |-> 0, branch |-> 0, jump |-> 0,
   reg_write |-> 0, mem_to_rg |-> 0, write_register |-> 0, run_bit |-> 0]

AllReady == [r \in StatusIndex |-> 1]

Init ==
  /\ stage = "check_stall"
  /\ PC = TextStart /\ REGS \in InitialRegs /\ hi \in InitialHiLo /\ lo \in InitialHiLo
  /\ RUN_BIT = 1 /\ INSTRUCTION_COUNT = 0
  /\ if_id = EmptyIfId /\ id_ex = EmptyIdEx(0) /\ ex_mem = EmptyExMem /\ mem_wb = EmptyMemWb
  /\ fetch_status = 1 /\ decode_status = 0 /\ execute_status = 0
  /\ memory_status = 0 /\ writeback_status = 0
  /\ fetch_timer = 0 /\ decode_timer = 0
  /\ registerStatus = AllReady /\ dependency = 0 /\ load = 0
  /\ dram = [g \in Granule |-> 0]
  /\ text \in Programs

----------------------------------------------------------------------------
(* check_stall                                                             *)

\* Mutant: the timer runs below 0.
TickBelowZero(timer) == timer - 1
Tick(timer) == IF timer > 0 THEN timer - 1 ELSE 0

\* Mutant: the stage is not started again when its timer has run out.
NeverResumed(timer, status) == status
Resumed(timer, status) == IF timer = 1 THEN 1 ELSE status

check_stall ==
  /\ stage = "check_stall"
  /\ stage' = "write_back"
  /\ fetch_timer'   = Tick(fetch_timer)
  /\ fetch_status'  = Resumed(fetch_timer, fetch_status)
  /\ decode_timer'  = Tick(decode_timer)
  /\ decode_status' = Resumed(decode_timer, decode_status)
  /\ UNCHANGED <<cpu, RUN_BIT, INSTRUCTION_COUNT, if_id, id_ex, ex_mem, mem_wb,
                 execute_status, memory_status, writeback_status, board, dram, text>>

\* process_instruction calls a stage only when its status is set.
Skip(here, status, next) ==
  /\ stage = here /\ status = 0
  /\ stage' = next
  /\ UNCHANGED <<cpu, RUN_BIT, INSTRUCTION_COUNT, if_id, id_ex, ex_mem, mem_wb,
                 statuses, timers, board, dram, text>>

----------------------------------------------------------------------------
(* write_back                                                              *)

WritesHi == mem_wb.hi.index = 1
WritesLo == mem_wb.lo.index = 1
\* Mutant: HI and LO results are also written to the register file.
WritesAnyResult == mem_wb.reg_write = 1
\* The value goes to the register file: a load, or a result that is not HI/LO.
WritesReg ==
  /\ mem_wb.reg_write = 1
  /\ mem_wb.mem_to_rg = 1 \/ (~ WritesHi /\ ~ WritesLo)
WritesHiLo == mem_wb.reg_write = 1 /\ mem_wb.mem_to_rg = 0

WriteBackValue == IF mem_wb.mem_to_rg = 1 THEN mem_wb.memory_data ELSE mem_wb.alu_result

\* Mutant: a write-back releases its register whatever EX/MEM holds.
ReleasedAlways ==
  {r \in StatusIndex :
     \/ r = HI /\ WritesHiLo /\ WritesHi
     \/ r = LO /\ WritesHiLo /\ WritesLo
     \/ r = mem_wb.write_register /\ WritesReg}
\* Status entries that become ready: a result register stays busy when the
\* instruction now in EX/MEM names the same write register.
Released ==
  {r \in StatusIndex :
     \/ r = HI /\ WritesHiLo /\ WritesHi
     \/ r = LO /\ WritesHiLo /\ WritesLo
     \/ /\ r = mem_wb.write_register /\ WritesReg
        /\ mem_wb.mem_to_rg = 1 \/ ex_mem.write_register # mem_wb.write_register}

write_back ==
  /\ stage = "write_back" /\ writeback_status = 1
  /\ stage' = "memory"
  /\ writeback_status' = 0
  /\ RUN_BIT' = mem_wb.run_bit
  /\ REGS' = IF WritesReg THEN [REGS EXCEPT ![mem_wb.write_register] = WriteBackValue] ELSE REGS
  /\ hi' = IF WritesHiLo /\ WritesHi THEN mem_wb.hi.value ELSE hi
  /\ lo' = IF WritesHiLo /\ WritesLo THEN mem_wb.lo.value ELSE lo
  /\ registerStatus' = [r \in StatusIndex |-> IF r \in Released THEN 1 ELSE registerStatus[r]]
  /\ dependency' = IF mem_wb.jump = 0 /\ mem_wb.branch = 0 THEN 0 ELSE dependency
  /\ UNCHANGED <<PC, INSTRUCTION_COUNT, if_id, id_ex, ex_mem, mem_wb, fetch_status,
                 decode_status, execute_status, memory_status, timers, load, dram, text>>

----------------------------------------------------------------------------
(* memory: read_data_from_memory, store_data_to_memory                     *)

memory ==
  /\ stage = "memory" /\ memory_status = 1
  /\ stage' = "execute"
  /\ writeback_status' = 1 /\ memory_status' = 0
  /\ mem_wb' =
       [hi |-> ex_mem.hi, lo |-> ex_mem.lo, alu_result |-> ex_mem.alu_result,
        memory_data |-> IF ex_mem.mread = 1
                          THEN LoadedValue(ReadGranule(dram, ex_mem.alu_result),
                                           ex_mem.loadSize, ex_mem.isLoadSigned)
                          ELSE mem_wb.memory_data,
        branch |-> ex_mem.branch, jump |-> ex_mem.jump, reg_write |-> ex_mem.reg_write,
        mem_to_rg |-> ex_mem.mem_to_rg, write_register |-> ex_mem.write_register,
        run_bit |-> ex_mem.run_bit]
  /\ dram' = IF ex_mem.mwrite = 1
               THEN WriteGranule(dram, ex_mem.alu_result, ex_mem.storeValue) ELSE dram
  /\ UNCHANGED <<cpu, RUN_BIT, INSTRUCTION_COUNT, if_id, id_ex, ex_mem, fetch_status,
                 decode_status, execute_status, timers, board, text>>

----------------------------------------------------------------------------
(* execute                                                                 *)

Executed(d, old) ==
  [hi |-> HiAfter(d), lo |-> LoAfter(d),
   alu_result |-> AluResult(d, old.alu_result),
   storeValue |-> StoreValue(d, old.storeValue),
   loadSize |-> LoadSize(d, old.loadSize), isLoadSigned |-> IsLoadSigned(d, old.isLoadSigned),
   branch |-> d.ctl.branch, jump |-> d.ctl.jump,
   branchCondition |-> BranchCondition(d, old.branchCondition),
   mem_to_rg |-> d.ctl.mem_to_rg, run_bit |-> d.run_bit,
   write_register |-> DestinationOf(d),
   mwrite |-> d.ctl.mwrite, mread |-> d.ctl.mread, reg_write |-> d.ctl.reg_write]

\* Mutant: the instruction fetched behind a taken branch stays.
FlushDecodedOnly == id_ex' = EmptyIdEx(id_ex.run_bit) /\ UNCHANGED if_id
Flush == id_ex' = EmptyIdEx(id_ex.run_bit) /\ if_id' = EmptyIfId

\* A branch that is taken replaces the PC and empties IF/ID and ID/EX: what
\* was fetched behind it is dropped before decode sees it.
execute ==
  /\ stage = "execute" /\ execute_status = 1 /\ ~ Traps(id_ex)
  /\ stage' = "decode"
  /\ memory_status' = 1 /\ execute_status' = 0
  /\ ex_mem' = Executed(id_ex, ex_mem)
  /\ IF ex_mem'.branch = 1 /\ ex_mem'.branchCondition = 1
       THEN PC' = BranchTarget(id_ex) /\ Flush
       ELSE UNCHANGED <<PC, id_ex, if_id>>
  /\ UNCHANGED <<REGS, hi, lo, RUN_BIT, INSTRUCTION_COUNT, mem_wb, fetch_status,
                 decode_status, writeback_status, timers, board, dram, text>>

\* SIGFPE inside alu(): nothing runs any more.
trap ==
  /\ stage = "execute" /\ execute_status = 1 /\ Traps(id_ex)
  /\ stage' = "trapped"
  /\ UNCHANGED <<cpu, RUN_BIT, INSTRUCTION_COUNT, if_id, id_ex, ex_mem, mem_wb,
                 statuses, timers, board, dram, text>>

----------------------------------------------------------------------------
(* decode                                                                  *)

\* Mutant: one cycle too few.
OneCycle == 1
StallCycles == 2

\* Mutant: fetch goes on while decode waits.
StopDecode ==
  /\ decode_timer' = StallCycles /\ fetch_timer' = StallCycles
  /\ decode_status' = 0 /\ UNCHANGED fetch_status
StopFrontEnd ==
  /\ decode_timer' = StallCycles /\ fetch_timer' = StallCycles
  /\ decode_status' = 0 /\ fetch_status' = 0

\* The load interlock: the cycle after a load was decoded, the decoder sends
\* a bubble and stops itself and fetch until both timers run out.
decode_stall ==
  /\ stage = "decode" /\ decode_status = 1 /\ load = 1
  /\ stage' = "fetch"
  /\ StopFrontEnd /\ execute_status' = 1
  /\ load' = 0
  /\ id_ex' = [EmptyIdEx(1) EXCEPT !.ctl = NoControl("NONE"), !.jumpAddress = id_ex.jumpAddress]
  /\ UNCHANGED <<cpu, RUN_BIT, INSTRUCTION_COUNT, if_id, ex_mem, mem_wb, memory_status,
                 writeback_status, registerStatus, dependency, dram, text>>

\* setup_registers
setup_registers ==
  LET i == if_id.ir
  IN [id_ex EXCEPT !.rs = [index |-> i.rs, value |-> REGS[i.rs]],
                   !.rt = [index |-> i.rt, value |-> REGS[i.rt]],
                   !.rd = i.rd, !.hi = hi, !.lo = lo,
                   !.ir = i, !.pc = if_id.pc]

\* Mutant: the older result wins.
BypassOlderFirst(index, value) ==
  CASE mem_wb.write_register = index /\ index # 0 -> mem_wb.alu_result
    [] ex_mem.write_register = index /\ index # 0 /\ mem_wb.write_register # index
                                                  -> ex_mem.alu_result
    [] OTHER                                      -> value

\* The operand bypass: the instruction one ahead is in EX/MEM, the one two
\* ahead in MEM/WB.  Register 0 is never bypassed, and whether the latch is
\* of an instruction that writes is not asked.
Bypass(index, value) ==
  CASE ex_mem.write_register = index /\ index # 0 -> ex_mem.alu_result
    [] mem_wb.write_register = index /\ index # 0 /\ ex_mem.write_register # index
                                                  -> mem_wb.alu_result
    [] OTHER                                      -> value

\* Mutant: the older result wins.
BypassHiLoOlderFirst(ahead1, ahead2, value) ==
  IF ahead2.value # 0 THEN ahead2.value ELSE IF ahead1.value # 0 THEN ahead1.value ELSE value

\* HI and LO are bypassed when the value in the latch is not zero.
BypassHiLo(ahead1, ahead2, value) ==
  IF ahead1.value # 0 THEN ahead1.value ELSE IF ahead2.value # 0 THEN ahead2.value ELSE value

Forwarded(d) ==
  [d EXCEPT !.rs.value = Bypass(d.rs.index, @), !.rt.value = Bypass(d.rt.index, @),
            !.hi = BypassHiLo(ex_mem.hi, mem_wb.hi, @),
            !.lo = BypassHiLo(ex_mem.lo, mem_wb.lo, @)]

\* CheckDependencies
Pending(i) == \E r \in Watched(i) : registerStatus[r] = 0
DependencyAfter(i) == IF SetsDependency(i) THEN Bool(Pending(i)) ELSE dependency
\* Mutant: the test of registerStatus[2] the other way round.
HaltsWhenReady(i) == Special(i, {"SYSCALL"}) /\ ~ Pending(i)
\* Mutant: whatever waits for a register stops the machine.
HaltsWhenPending(i) == Pending(i)
\* "syscall": the decoder saw a SYSCALL while $v0 was being computed.
HaltingSyscall(i) == Special(i, {"SYSCALL"}) /\ Pending(i)

\* Mutant: the operands of a jump are final when it is set up first.
SetUpOnce ==
  LET i == if_id.ir
      d == SetupControlSignals(setup_registers)
      f == IF DependencyAfter(i) = 1 THEN Forwarded(d) ELSE d
  IN IF HaltingSyscall(i) THEN [f EXCEPT !.run_bit = 0] ELSE f
\* The ID/EX latch as decode leaves it.
Decoded ==
  LET i == if_id.ir
      d == SetupControlSignals(setup_registers)
      f == IF DependencyAfter(i) = 1 THEN Forwarded(d) ELSE d
      s == IF HaltingSyscall(i) THEN [f EXCEPT !.run_bit = 0] ELSE f
  IN IF s.ctl.jump = 1 THEN SetupControlSignals(s) ELSE s

\* Mutant: MULT and DIV do not reserve HI and LO.
ReservedRegisterOnly(d) == IF d.ctl.reg_write = 0 THEN {} ELSE {DestinationOf(d)}
Reserved(d) ==
  IF d.ctl.reg_write = 0 THEN {}
  ELSE IF Special(d.ir, MulDiv) THEN {HI, LO} ELSE {DestinationOf(d)}

decode ==
  /\ stage = "decode" /\ decode_status = 1 /\ load = 0
  /\ stage' = "fetch"
  /\ execute_status' = 1 /\ decode_status' = 0
  /\ id_ex' = Decoded
  /\ dependency' = DependencyAfter(if_id.ir)
  /\ load' = Bool(if_id.ir.opcode \in Loads)
  /\ fetch_status' = IF Special(if_id.ir, {"JR"}) /\ ~ Pending(if_id.ir) THEN 1 ELSE fetch_status
  /\ IF Decoded.ctl.jump = 1
       THEN PC' = Decoded.jumpAddress /\ if_id' = EmptyIfId
       ELSE UNCHANGED <<PC, if_id>>
  /\ registerStatus' = [r \in StatusIndex |-> IF r \in Reserved(Decoded) THEN 0
                                                ELSE registerStatus[r]]
  /\ UNCHANGED <<REGS, hi, lo, RUN_BIT, INSTRUCTION_COUNT, ex_mem, mem_wb, memory_status,
                 writeback_status, timers, dram, text>>

----------------------------------------------------------------------------
(* fetch                                                                   *)

fetch ==
  /\ stage = "fetch" /\ fetch_status = 1
  /\ stage' = "cycle_end"
  /\ decode_status' = 1
  /\ if_id' = [ir |-> FetchedFrom(text, PC), pc |-> PC]
  /\ PC' = U32(PC + 4)
  /\ UNCHANGED <<REGS, hi, lo, RUN_BIT, INSTRUCTION_COUNT, id_ex, ex_mem, mem_wb,
                 fetch_status, execute_status, memory_status, writeback_status, timers,
                 board, dram, text>>

----------------------------------------------------------------------------
(* The end of process_instruction (reset_state) and of cycle(); go() calls  *)
(* cycle() again while RUN_BIT is set.                                     *)

\* Mutant: cycles are not counted.
NotCounted == INSTRUCTION_COUNT
Counted == INSTRUCTION_COUNT + 1

Capped == Counted >= MaxCycles

\* Mutant: the scoreboard stays.
ResetLatches ==
  /\ UNCHANGED board
  /\ fetch_status' = 1 /\ decode_status' = 0 /\ execute_status' = 0
  /\ memory_status' = 0 /\ writeback_status' = 0
  /\ if_id' = EmptyIfId /\ id_ex' = EmptyIdEx(id_ex.run_bit)
  /\ ex_mem' = EmptyExMem /\ mem_wb' = EmptyMemWb
reset_state ==
  /\ registerStatus' = AllReady /\ dependency' = 0 /\ load' = 0
  /\ fetch_status' = 1 /\ decode_status' = 0 /\ execute_status' = 0
  /\ memory_status' = 0 /\ writeback_status' = 0
  /\ if_id' = EmptyIfId /\ id_ex' = EmptyIdEx(id_ex.run_bit)
  /\ ex_mem' = EmptyExMem /\ mem_wb' = EmptyMemWb

cycle_end ==
  /\ stage = "cycle_end"
  /\ INSTRUCTION_COUNT' = Counted
  /\ IF RUN_BIT = 0 THEN reset_state
     ELSE UNCHANGED <<board, statuses, if_id, id_ex, ex_mem, mem_wb>>
  /\ REGS' = IF Capped THEN [REGS EXCEPT ![R_T7] = WORDS - 1] ELSE REGS
  /\ RUN_BIT' = IF Capped THEN 0 ELSE RUN_BIT
  /\ stage' = IF RUN_BIT' = 0 THEN "halted" ELSE "check_stall"
  /\ UNCHANGED <<PC, hi, lo, timers, dram, text>>

\* go() has returned, or the process has died.
Stopped == stage \in {"halted", "trapped"} /\ UNCHANGED vars

Step ==
  \/ check_stall
  \/ write_back   \/ Skip("write_back", writeback_status, "memory")
  \/ memory       \/ Skip("memory", memory_status, "execute")
  \/ execute      \/ Skip("execute", execute_status, "decode")     \/ trap
  \/ decode       \/ Skip("decode", decode_status, "fetch")        \/ decode_stall
  \/ fetch        \/ Skip("fetch", fetch_status, "cycle_end")
  \/ cycle_end

Next == Step \/ Stopped

Spec == Init /\ [][Next]_vars

\* go() keeps calling cycle() and every call returns: the program is one
\* thread and none of its steps waits for anything.
FairSpec == Spec /\ WF_vars(Step)
----------------------------------------------------------------------------
(* Properties                                                              *)

HiLoLatch == [index : Bit, value : Word]
ExMem ==
  [hi : HiLoLatch, lo : HiLoLatch, alu_result : Word, storeValue : Word,
   loadSize : {0, BYTE, HALF, WORDS}, isLoadSigned : Bit, branch : Bit, jump : Bit,
   branchCondition : Bit, mem_to_rg : Bit, run_bit : Bit, write_register : StatusIndex,
   mwrite : Bit, mread : Bit, reg_write : Bit]
MemWb ==
  [hi : HiLoLatch, lo : HiLoLatch, alu_result : Word, memory_data : Word, branch : Bit,
   jump : Bit, reg_write : Bit, mem_to_rg : Bit, write_register : StatusIndex, run_bit : Bit]

Stages == {"check_stall", "write_back", "memory", "execute", "decode", "fetch",
           "cycle_end", "halted", "trapped"}

\* The type of every variable: u32 values stay words, flags stay 0 or 1,
\* register and scoreboard indices stay inside their arrays.
TypeOK ==
  /\ stage \in Stages
  /\ PC \in Word /\ REGS \in [Reg -> Word] /\ hi \in Word /\ lo \in Word
  /\ RUN_BIT \in Bit /\ INSTRUCTION_COUNT \in Nat
  /\ if_id \in [ir : Instr, pc : Word] /\ id_ex \in IdEx
  /\ ex_mem \in ExMem /\ mem_wb \in MemWb
  /\ fetch_status \in Bit /\ decode_status \in Bit /\ execute_status \in Bit
  /\ memory_status \in Bit /\ writeback_status \in Bit
  /\ fetch_timer \in 0 .. 2 /\ decode_timer \in 0 .. 2
  /\ registerStatus \in [StatusIndex -> Bit] /\ dependency \in Bit /\ load \in Bit
  /\ dram \in [Granule -> Word]
  /\ text \in Programs \cup {<< >>}    \* none before a harness's first program

\* Fetch and decode stall together, only while the timers run, and whoever
\* stopped them left a timer running: a stopped front end always restarts.
StallDiscipline ==
  stage \in Stages \ {"halted", "trapped"} =>
    /\ fetch_timer = decode_timer
    /\ fetch_timer > 0 => fetch_status = 0 /\ decode_status = 0
    /\ fetch_status = 0 => fetch_timer > 0

\* No instruction is decoded while a load ahead of it has not written its
\* register: the bypass in decode only knows ALU results, and the address a
\* load computed would be taken for its data.
LoadInterlock ==
  stage = "decode" /\ decode_status = 1 /\ load = 0 =>
    /\ ~ (memory_status = 1 /\ ex_mem.mread = 1)
    /\ ~ (writeback_status = 1 /\ mem_wb.mem_to_rg = 1)

\* What write_back stores into REGS[write_register] stays inside the array:
\* the numbers 32 and 33 that MTHI and MTLO put there for the scoreboard only
\* travel with results that go to HI and LO.
NoStrayWrite ==
  stage = "write_back" /\ writeback_status = 1 /\ WritesReg => mem_wb.write_register \in Reg

\* "go" runs a program to completion: one that ends with the exit SYSCALL and
\* does not use $t7 is stopped by it and not by the cycle limit, which leaves
\* its mark in $t7.
RunsToCompletion == stage = "halted" => REGS[R_T7] # WORDS - 1

\* go() comes back: the program stops the machine or the cycle limit does.
GoReturns == <>(stage \in {"halted", "trapped"})

\* A load stall ends with an instruction decoded, unless the program stops
\* the machine first: the cycle limit, if it is not already near, is not what
\* ends it.
StallEnds ==
  stage = "fetch" /\ fetch_status = 0 /\ INSTRUCTION_COUNT + 3 < MaxCycles ~>
    \/ stage = "decode" /\ decode_status = 1
    \/ stage \in {"halted", "trapped"} /\ INSTRUCTION_COUNT < MaxCycles
=============================================================================
