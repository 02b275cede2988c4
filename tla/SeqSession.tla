----------------------------- MODULE SeqSession -----------------------------
(***************************************************************************)
(* What the test harness may rely on: SeqMachine, run once per program     *)
(* from cleared registers on the memory the programs before it left.  The  *)
(* promise starts anew with every program, whatever idiom the one before   *)
(* used, unless that one was stopped by the cycle limit.                   *)
(***************************************************************************)
EXTENDS SeqMachine

VARIABLE limit          \* the cycle limit stopped the last program

sessionVars == <<vars, limit>>

Cleared == [r \in Reg |-> 0]

SessionInit ==
  /\ pc = 0 /\ regs = Cleared /\ hi = 0 /\ lo = 0
  /\ mem = [g \in Granule |-> 0]
  /\ running = FALSE /\ void = FALSE /\ limit = FALSE
  /\ text = << >>

Reset ==
  /\ ~ running
  /\ regs' = Cleared /\ hi' = 0 /\ lo' = 0
  /\ UNCHANGED <<pc, mem, running, void, text, limit>>

Start(program) ==
  /\ ~ running /\ ~ limit /\ regs = Cleared /\ hi = 0 /\ lo = 0
  /\ pc' = TextStart /\ text' = program
  /\ running' = TRUE /\ void' = FALSE
  /\ UNCHANGED <<regs, hi, lo, mem, limit>>

\* Behind a program that was cut off, nothing is promised.
StartVoid(program) == ~ running /\ limit /\ text' = program /\ void' = TRUE /\ limit' = FALSE

SessionNext ==
  \/ ~ void /\ running /\ Execute /\ limit' = FALSE
  \/ ~ void /\ TimeOut /\ limit' = TRUE
  \/ Leave
  \/ Reset
  \/ \E program \in Programs : Start(program) \/ StartVoid(program)

SessionSpec == SessionInit /\ [][SessionNext]_sessionVars
=============================================================================
