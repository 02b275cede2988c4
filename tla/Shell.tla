------------------------------- MODULE Shell -------------------------------
(***************************************************************************)
(* run_shell of src/src/shell.cpp: one program, loaded once, and a user at *)
(* the prompt between two calls of cycle(), who runs it to its end or some *)
(* cycles at a time and changes registers while instructions are in        *)
(* flight.  "?", mdump and rdump only print.                               *)
(***************************************************************************)
EXTENDS Retire

CONSTANTS
  Runs,                \* arguments of run
  Inputs, HiLoInputs,  \* arguments of input, and of high and low
  MaxInputs            \* bound of the model: registers set in a session

ASSUME CommandAssumption ==
  /\ Runs \subseteq Int /\ Inputs \subseteq Reg \X Word
  /\ HiLoInputs \subseteq Word /\ MaxInputs \in Nat

VARIABLES
  command,   \* what get_command is in, or "prompt"
  left,      \* num_cycles - i in run
  inputs     \* registers set so far

shell == <<command, left, inputs>>
shellVars == <<allvars, shell>>

Prompt == command = "prompt"

ShellInit == RetireInit /\ command = "prompt" /\ left = 0 /\ inputs = 0

----------------------------------------------------------------------------
(* go and run                                                              *)

\* "Can't simulate, Simulator is halted"
Refused == Prompt /\ RUN_BIT = 0 /\ UNCHANGED shellVars

go ==
  /\ Prompt /\ RUN_BIT = 1
  /\ command' = "go"
  /\ UNCHANGED <<allvars, left, inputs>>

run(n) ==
  /\ Prompt /\ RUN_BIT = 1
  /\ command' = "run" /\ left' = n
  /\ UNCHANGED <<allvars, inputs>>

\* The loops of go and run test RUN_BIT, and run its count, between cycles.
BetweenCycles == stage \in {"check_stall", "halted"}
Continues == RUN_BIT = 1 /\ (command = "run" => left > 0)

simulate ==
  /\ command \in {"go", "run"}
  /\ BetweenCycles => Continues
  /\ RetireStep
  /\ left' = IF command = "run" /\ stage = "check_stall" THEN left - 1 ELSE left
  /\ UNCHANGED <<command, inputs>>

return ==
  /\ command \in {"go", "run"} /\ BetweenCycles /\ ~ Continues
  /\ command' = "prompt" /\ left' = 0
  /\ UNCHANGED <<allvars, inputs>>

----------------------------------------------------------------------------
(* input, high, low, quit                                                  *)

\* Between two cycles: an instruction in flight has read register r.
ReadInFlight(r) ==
  \/ execute_status = 1 /\ r \in Reads(slot.ex.ir)
  \/ memory_status = 1 /\ r \in Reads(slot.mem.ir)
  \/ writeback_status = 1 /\ r \in Reads(slot.wb.ir)

Typed(r) ==
  /\ Prompt /\ inputs < MaxInputs
  /\ inputs' = inputs + 1
  /\ hazard' = IF ReadInFlight(r) THEN hazard \cup {"input"} ELSE hazard
  /\ UNCHANGED <<stage, PC, RUN_BIT, INSTRUCTION_COUNT, if_id, id_ex, ex_mem, mem_wb, statuses,
                 timers, dependency, load, dram, text, slot, command, left>>

\* Mutant: the register counts as ready, whoever is computing it.
InputReady(r, v) == /\ Typed(r) /\ REGS' = [REGS EXCEPT ![r] = v] /\ UNCHANGED <<hi, lo>>
                    /\ registerStatus' = [registerStatus EXCEPT ![r] = 1]
input(r, v) ==
  Typed(r) /\ REGS' = [REGS EXCEPT ![r] = v] /\ UNCHANGED <<hi, lo, registerStatus>>
high(v) == Typed(HI) /\ hi' = v /\ UNCHANGED <<REGS, lo, registerStatus>>
low(v)  == Typed(LO) /\ lo' = v /\ UNCHANGED <<REGS, hi, registerStatus>>

quit == Prompt /\ command' = "quit" /\ UNCHANGED <<allvars, left, inputs>>

\* exit(0), or SIGFPE has ended the process.
Ended == (command = "quit" \/ stage = "trapped") /\ UNCHANGED shellVars

ShellNext ==
  \/ go \/ (\E n \in Runs : run(n)) \/ simulate \/ return
  \/ (\E i \in Inputs : input(i[1], i[2]))
  \/ (\E v \in HiLoInputs : high(v) \/ low(v))
  \/ quit \/ Refused \/ Ended

ShellSpec == ShellInit /\ [][ShellNext]_shellVars

----------------------------------------------------------------------------
(* Properties                                                              *)

SeqShell_ == INSTANCE SeqShell
               WITH pc <- RetirePC, regs <- REGS, mem <- dram, running <- (RUN_BIT = 1),
                    void <- (hazard # {})

\* "input reg_num reg_val - set GPR reg_num to reg_val": a register set while
\* the program is stopped between two cycles behaves as if it had been set
\* between two instructions: older ones in flight may still write it, and
\* younger ones see the new value or, by the bypass, that of the last writer.
\* The exception is a register that an instruction in flight has already
\* read.  Running in pieces changes nothing else.
ImplementsSeqShell == SeqShell_!ShellSpec
=============================================================================
