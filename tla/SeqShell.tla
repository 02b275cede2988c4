------------------------------ MODULE SeqShell ------------------------------
(***************************************************************************)
(* SeqMachine for a user who stops between cycles and sets registers: each *)
(* "input", "high" and "low" takes effect between two instructions.        *)
(***************************************************************************)
EXTENDS SeqMachine

CONSTANTS Inputs, HiLoInputs    \* arguments of input, and of high and low

Input(r, v) == regs' = [regs EXCEPT ![r] = v] /\ UNCHANGED <<pc, hi, lo, mem, running, void, text>>
High(v)     == hi' = v /\ UNCHANGED <<pc, regs, lo, mem, running, void, text>>
Low(v)      == lo' = v /\ UNCHANGED <<pc, regs, hi, mem, running, void, text>>

ShellNext ==
  \/ Next
  \/ \E i \in Inputs : Input(i[1], i[2])
  \/ \E v \in HiLoInputs : High(v) \/ Low(v)

ShellSpec == Init /\ [][ShellNext]_vars
=============================================================================
