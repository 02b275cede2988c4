------------------------------- MODULE Retire -------------------------------
(***************************************************************************)
(* The pipeline with history variables that name the instruction behind    *)
(* each latch, and the idioms of a program for which the bypass and the    *)
(* scoreboard of sim.cpp do not deliver the operands a sequential machine  *)
(* would.  Clear of them, the pipeline implements SeqMachine.              *)
(***************************************************************************)
EXTENDS Pipeline

VARIABLES
  slot,       \* what is behind if_id (real or not), id_ex, ex_mem, mem_wb
  hazard      \* names of the idioms decoded so far

history == <<slot, hazard>>
allvars == <<vars, history>>

\* real: fetched, not an emptied latch.  fwd: decode ran with "dependency" set.
Bubble == [ir |-> Nop, pc |-> 0, real |-> FALSE, fwd |-> 0]

----------------------------------------------------------------------------
(* What an instruction reads and writes                                    *)

\* What the execute stage puts in write_register.
Names(i) ==
  CASE ~ Known(i)                                     -> 0
    [] Special(i, {"MTHI"})                           -> HI
    [] Special(i, {"MTLO"})                           -> LO
    [] i.opcode = "JAL" \/ Regimm(i, LinkBranch)      -> R_RA
    [] i.opcode = "SPECIAL" /\ i.funct \notin {"SYSCALL", "JR", "MTHI", "MTLO", "UNUSED"}
                                                      -> i.rd
    [] OTHER                                          -> i.rt

\* The registers it changes, HI and LO included.
Writes(i) ==
  CASE Special(i, MulDiv)                             -> {HI, LO}
    [] Special(i, {"SYSCALL", "JR"}) \/ ~ Known(i)    -> {}
    [] Regimm(i, PlainRegimm)                         -> {}
    [] i.opcode \in {"J"} \cup CmpBranch \cup Stores  -> {}
    [] OTHER                                          -> {Names(i)}

\* The registers whose value it uses.
Reads(i) ==
  CASE Special(i, {"SLL", "SRL", "SRA"})              -> {i.rt}
    [] Special(i, AluFuncts \cup MulDiv)              -> {i.rs, i.rt}
    [] Special(i, RegJumps \cup MoveTo)               -> {i.rs}
    [] Special(i, {"MFHI"})                           -> {HI}
    [] Special(i, {"MFLO"})                           -> {LO}
    [] i.opcode = "REGIMM"                            -> {i.rs}
    [] i.opcode \in ImmOps \cup Loads \cup {"BLEZ", "BGTZ"} -> {i.rs}
    [] i.opcode \in {"BEQ", "BNE"} \cup Stores        -> {i.rs, i.rt}
    [] OTHER                                          -> {}

----------------------------------------------------------------------------
(* The idioms.  i is being decoded; ahead1 and ahead2 are the instructions *)
(* one and two slots ahead of it, in EX/MEM and MEM/WB.                    *)

ahead1 == slot.mem
ahead2 == slot.wb
InFlight(r) == r \in Writes(ahead1.ir) \cup Writes(ahead2.ir)
Bypassing(i) == DependencyAfter(i) = 1

\* An opcode or function code without a case keeps the control signals of
\* the instruction ahead of it.
UnknownInstruction(i) == ~ Known(i)

\* Register 0 is a register like the others here, but it is never bypassed.
\* SLL r0, r0, 0, the word 0, leaves it as it is.
WritesRegisterZero(i) ==
  0 \in Writes(i) /\ ~ (Special(i, {"SLL"}) /\ i.rt = 0 /\ i.sa = 0)

\* BLTZAL and BGEZAL do not ask whether rs is being computed.
UnwatchedOperand(i) == Regimm(i, LinkBranch) /\ ~ Bypassing(i) /\ i.rs # 0 /\ InFlight(i.rs)

\* The write-back of a register releases it although a younger instruction
\* is still computing it, unless the one between names it too.  HI and LO
\* are released whatever follows.
ReleasedTooEarly(i) ==
  \E r \in Writes(i) \ {0} :
    IF r \in {HI, LO} THEN InFlight(r)
    ELSE i.opcode \notin Loads /\ r \in Writes(ahead2.ir) /\ Names(ahead1.ir) # r

\* The bypass takes the result of an instruction that only names the
\* register: a store, a branch, a jump.
PhantomProducer(i) ==
  /\ Bypassing(i)
  /\ \E r \in Reads(i) \ {0} :
       \/ Names(ahead1.ir) = r /\ r \notin Writes(ahead1.ir)
       \/ Names(ahead2.ir) = r /\ r \notin Writes(ahead2.ir) /\ Names(ahead1.ir) # r

\* MFHI and MFLO: a zero is not bypassed, and two slots behind the producer
\* the copy carried by the instruction between may be the old value.
StaleHiLo(i) ==
  \E r \in Reads(i) \cap {HI, LO} :
    \/ r \in Writes(ahead1.ir) /\ (IF r = HI THEN ex_mem.hi.value ELSE ex_mem.lo.value) = 0
    \/ /\ r \in Writes(ahead2.ir) \ Writes(ahead1.ir)
       /\ (IF r = HI THEN mem_wb.hi.value ELSE mem_wb.lo.value) = 0 \/ ahead1.fwd = 0

\* JALR goes to its operand only when the operand was bypassed, else to 4.
JalrTarget(i) == Special(i, {"JALR"}) /\ ~ (Bypassing(i) /\ i.rs # 0 /\ InFlight(i.rs))

\* A division by zero writes the previous ALU result to the register rd.
DividesByZero(i) == Special(i, {"DIV", "DIVU"}) /\ Decoded.rt.value = 0

\* The store behind a SYSCALL that stops the machine is still made.
StoreBehindHalt(i) ==
  i.opcode \in Stores /\ Special(ahead1.ir, {"SYSCALL"}) /\ ex_mem.run_bit = 0

Idioms(i) ==
  { n \in {"unknown", "zero", "unwatched", "released", "phantom", "hilo", "jalr", "div0", "halt"} :
      \/ n = "unknown"   /\ UnknownInstruction(i)
      \/ n = "zero"      /\ WritesRegisterZero(i)
      \/ n = "unwatched" /\ UnwatchedOperand(i)
      \/ n = "released"  /\ ReleasedTooEarly(i)
      \/ n = "phantom"   /\ PhantomProducer(i)
      \/ n = "hilo"      /\ StaleHiLo(i)
      \/ n = "jalr"      /\ JalrTarget(i)
      \/ n = "div0"      /\ DividesByZero(i)
      \/ n = "halt"      /\ StoreBehindHalt(i) }

----------------------------------------------------------------------------

RetireInit ==
  /\ Init
  /\ slot = [id |-> FALSE, ex |-> Bubble, mem |-> Bubble, wb |-> Bubble]
  /\ hazard = {}

RetireStep ==
  \/ /\ decode
     /\ slot' = [slot EXCEPT !.ex = [ir |-> if_id.ir, pc |-> if_id.pc, real |-> slot.id,
                                     fwd |-> DependencyAfter(if_id.ir)],
                             !.id = FALSE]
     /\ hazard' = hazard \cup Idioms(if_id.ir)
  \/ decode_stall /\ slot' = [slot EXCEPT !.ex = Bubble] /\ UNCHANGED hazard
  \/ execute      /\ slot' = [slot EXCEPT !.mem = slot.ex, !.id = @ /\ ~ (ex_mem'.branch = 1 /\ ex_mem'.branchCondition = 1)]
                  /\ UNCHANGED hazard
  \/ memory       /\ slot' = [slot EXCEPT !.wb = slot.mem] /\ UNCHANGED hazard
  \/ fetch        /\ slot' = [slot EXCEPT !.id = TRUE] /\ UNCHANGED hazard
  \/ /\ \/ check_stall \/ write_back \/ trap \/ cycle_end
        \/ Skip("write_back", writeback_status, "memory")
        \/ Skip("memory", memory_status, "execute")
        \/ Skip("execute", execute_status, "decode")
        \/ Skip("decode", decode_status, "fetch")
        \/ Skip("fetch", fetch_status, "cycle_end")
     /\ UNCHANGED history

RetireNext == RetireStep \/ (Stopped /\ UNCHANGED history)

RetireSpec == RetireInit /\ [][RetireNext]_allvars

----------------------------------------------------------------------------
(* Properties                                                              *)

\* Decoded and not finished, oldest first.  A store finishes in memory, any
\* other instruction in write_back.
Unfinished ==
  LET wb  == IF writeback_status = 1 /\ slot.wb.real /\ slot.wb.ir.opcode \notin Stores
               THEN <<slot.wb>> ELSE <<>>
      mem == IF memory_status = 1 /\ slot.mem.real THEN <<slot.mem>> ELSE <<>>
      ex  == IF execute_status = 1 /\ slot.ex.real THEN <<slot.ex>> ELSE <<>>
  IN wb \o mem \o ex

\* The address of the next instruction to finish.
RetirePC ==
  IF RUN_BIT = 0 THEN 0
  ELSE IF Unfinished # <<>> THEN Head(Unfinished).pc
  ELSE IF slot.id THEN if_id.pc ELSE PC

\* Until a program uses one of the idioms, the scoreboard says "busy" for
\* every register that an instruction between decode and write-back will
\* write: who reads it next is sent to the bypass.  Loads are waited for, so
\* their entries may be released early without harm.
ScoreboardSound ==
  hazard = {} /\ stage \notin {"halted", "trapped"} =>
    \A n \in 1 .. Len(Unfinished) :
      LET i == Unfinished[n].ir
      IN i.opcode \notin Loads => \A r \in Writes(i) \ {0} : registerStatus[r] = 0

\* The exit sequence: a SYSCALL that is decoded while the value of $v0 is
\* still on its way stops the machine, wherever its producer is, at whatever
\* distance it was decoded, and whatever stalls and branches came between.
ExitStops ==
  [][ decode /\ RUN_BIT = 1 /\ hazard' = {} /\ Special(if_id.ir, {"SYSCALL"})
      /\ (\E n \in 1 .. Len(Unfinished) : R_V0 \in Writes(Unfinished[n].ir) \ {0})
      => id_ex'.run_bit = 0 ]_allvars

\* decode sets a jump up, lets the bypass replace its operands and sets it up
\* again.  The first time JALR replaces its operand by 4, the link's addend:
\* it goes to the result of the youngest instruction in flight that writes its
\* register, and to 4 when there is none, whatever the register holds.
JalrTargets ==
  [][ decode /\ Special(if_id.ir, {"JALR"}) /\ hazard' \subseteq {"jalr"}
      => PC' = IF "jalr" \in Idioms(if_id.ir) THEN U32(4)
               ELSE IF if_id.ir.rs \in Writes(ahead1.ir) THEN ex_mem.alu_result
               ELSE mem_wb.alu_result ]_allvars

\* The write-back of a SYSCALL that stops the machine clears RUN_BIT before
\* the other stages of its cycle run.  Memory still changes in that cycle, by
\* the store right behind the SYSCALL and by no other instruction, and by
\* nothing in a later one; of the registers only the one in which the cycle
\* limit leaves its mark does.
OnlyStoreBehindHalt ==
  [][ RUN_BIT = 0 /\ "unknown" \notin hazard =>
        /\ dram' # dram => /\ Special(slot.wb.ir, {"SYSCALL"})
                           /\ slot.mem.real /\ slot.mem.ir.opcode \in Stores
                           /\ slot.mem.pc = U32(slot.wb.pc + 4)
        /\ \A r \in Reg : REGS'[r] # REGS[r] => r = R_T7 /\ Capped
        /\ UNCHANGED <<hi, lo>> ]_allvars

Seq_ == INSTANCE SeqMachine
          WITH pc <- RetirePC, regs <- REGS, mem <- dram, running <- (RUN_BIT = 1),
               void <- (hazard # {})

\* The pipeline finishes instructions in program order with the effects a
\* sequential machine gives them, until a program uses one of the idioms:
\* operands are those of the youngest older producer, nothing behind a taken
\* branch or a jump has an effect, a load is waited for, and stores are made
\* after every older instruction has written its register.
ImplementsSeqMachine == Seq_!Spec
=============================================================================
