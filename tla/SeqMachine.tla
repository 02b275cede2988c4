----------------------------- MODULE SeqMachine -----------------------------
(***************************************************************************)
(* What the pipeline promises: a machine that runs one instruction at a    *)
(* time, from fetch to its last effect, with the operands it finds in the  *)
(* registers.  It uses the decoder and the ALU of sim.cpp as they are and  *)
(* has no latches, no bypass and no scoreboard.  "void" is set once the    *)
(* program has left the part of the instruction set for which the pipeline *)
(* keeps this promise; nothing is promised from then on.                   *)
(***************************************************************************)
EXTENDS Decoder, Granules

VARIABLES pc, regs, hi, lo, mem, running, void, text

vars == <<pc, regs, hi, lo, mem, running, void, text>>

Instruction == FetchedFrom(text, pc)

\* The latch of the instruction at pc with operands read from the registers.
Latch ==
  LET i == Instruction
      d == [rs |-> [index |-> i.rs, value |-> regs[i.rs]],
            rt |-> [index |-> i.rt, value |-> regs[i.rt]],
            rd |-> i.rd, hi |-> hi, lo |-> lo, ir |-> i, pc |-> pc,
            jumpAddress |-> 0, ctl |-> NoControl("NONE"), run_bit |-> 1]
  IN SetupControlSignals(d)

Result  == AluResult(Latch, 0)
IsHiLo  == HiAfter(Latch).index = 1 \/ LoAfter(Latch).index = 1
Loaded  == LoadedValue(ReadGranule(mem, Result), LoadSize(Latch, 0), IsLoadSigned(Latch, 0))
Taken   == Latch.ctl.branch = 1 /\ BranchCondition(Latch, 0) = 1
NextPC  == IF Latch.ctl.jump = 1 THEN Latch.jumpAddress
           ELSE IF Taken THEN BranchTarget(Latch) ELSE U32(pc + 4)

Init ==
  /\ pc = TextStart /\ regs \in InitialRegs /\ hi \in InitialHiLo /\ lo \in InitialHiLo
  /\ mem = [g \in Granule |-> 0]
  /\ running = TRUE /\ void = FALSE
  /\ text \in Programs

\* One instruction.  A SYSCALL may stop the machine or not: the pipeline
\* decides that by whether $v0 is still being computed.
Execute ==
  /\ running /\ Known(Instruction)
  /\ regs' = IF Latch.ctl.reg_write = 1 /\ ~ IsHiLo
               THEN [regs EXCEPT ![DestinationOf(Latch)] =
                                   IF Latch.ctl.mem_to_rg = 1 THEN Loaded ELSE Result]
               ELSE regs
  /\ hi' = HiAfter(Latch).value
  /\ lo' = LoAfter(Latch).value
  /\ mem' = IF Latch.ctl.mwrite = 1
              THEN WriteGranule(mem, Result, StoreValue(Latch, 0)) ELSE mem
  /\ running' \in IF Special(Instruction, {"SYSCALL"}) THEN BOOLEAN ELSE {TRUE}
  /\ pc' = IF running' THEN NextPC ELSE 0
  /\ UNCHANGED <<void, text>>

\* The cycle limit stops the machine and says so in $t7, even when it was
\* stopping in the same cycle.
TimeOut ==
  /\ running' = FALSE /\ pc' = 0
  /\ regs' = [regs EXCEPT ![R_T7] = WORDS - 1]
  /\ UNCHANGED <<hi, lo, mem, void, text>>

\* The program uses an idiom outside the contract.
Leave == void' = TRUE /\ text' = text

Next == (~ void /\ (Execute \/ TimeOut \/ Leave)) \/ (void /\ Leave)

Spec == Init /\ [][Next]_vars
=============================================================================
