------------------------------ MODULE Decoder ------------------------------
(***************************************************************************)
(* The parts of fetch() and decode() that depend on the instruction alone: *)
(* reading it from the text region, what SetupControlSignals makes of it,  *)
(* the empty latch, and the register an instruction names as its           *)
(* destination (src/src/sim.cpp, src/src/shell.cpp).                       *)
(***************************************************************************)
EXTENDS Alu, Sequences

CONSTANTS Programs,        \* the programs load_program may have loaded
          InitialRegs,     \* register files the "input" command may have set
          InitialHiLo,     \* values "high" and "low" may have set
          TextStart,       \* MEM_TEXT_START
          Straddling(_, _, _)  \* the instruction whose first bytes are the last
                               \* 4 - k of one word and whose last bytes are the
                               \* first k of the next

\* Word n of the text: zeros lie behind the program.
WordAt(program, n) == IF n \in DOMAIN program THEN program[n] ELSE Nop

ASSUME ProgramAssumption ==
  /\ Programs \subseteq Seq(Instr)
  /\ \A k \in 1 .. 3 :
       /\ Straddling(Nop, Nop, k) = Nop
       /\ \A p \in Programs : \A n \in DOMAIN p : Straddling(p[n], WordAt(p, n + 1), k) \in Instr
  /\ InitialRegs \subseteq [Reg -> Word] /\ InitialHiLo \subseteq Word
  /\ TextStart \in Word

\* mem_read_32 takes the four bytes from any address on, and JR and JALR may
\* set the PC to any: behind one that is not a multiple of 4 the instruction
\* is put together from two neighbouring words.  Outside every region the
\* read returns 0.  Module MainMemory has the bytes, and the regions' ends.
FetchedFrom(program, address) ==
  LET n == (address - TextStart) \div 4 + 1
      k == (address - TextStart) % 4
  IN IF address < TextStart THEN Nop
     ELSE IF k = 0 THEN WordAt(program, n)
     ELSE Straddling(WordAt(program, n), WordAt(program, n + 1), k)

Zero == [index |-> 0, value |-> 0]

\* reset_id_ex, which leaves run_bit alone.
EmptyIdEx(run_bit) ==
  [rs |-> Zero, rt |-> Zero, rd |-> 0, hi |-> 0, lo |-> 0, ir |-> Nop, pc |-> 0,
   jumpAddress |-> 0, ctl |-> NoControl("SPECIAL"), run_bit |-> run_bit]

\* SetupControlSignals on the latch d: the control record, and the operands
\* and jump address some instructions fix up.
SetupControlSignals(d) ==
  LET i == d.ir
      c == [d EXCEPT !.ctl = ControlOf(i, d.ctl),
                     !.run_bit = IF Known(i) THEN 1 ELSE d.run_bit]
  IN CASE Special(i, {"MTHI"})   -> [c EXCEPT !.rd = HI]
       [] Special(i, {"MTLO"})   -> [c EXCEPT !.rd = LO]
       [] Special(i, {"JR"})     -> [c EXCEPT !.jumpAddress = d.rs.value]
       [] Special(i, {"JALR"})   -> [c EXCEPT !.jumpAddress = d.rs.value,
                                              !.rt.value = d.pc, !.rs.value = U32(4)]
       [] Regimm(i, LinkBranch)  -> [c EXCEPT !.rt.index = R_RA]
       [] i.opcode = "J"         -> [c EXCEPT !.jumpAddress = U32(4 * i.label)]
       [] i.opcode = "JAL"       -> [c EXCEPT !.jumpAddress = U32(4 * i.label), !.rd = R_RA,
                                              !.rt.value = d.pc, !.rs.value = U32(4)]
       [] OTHER                  -> c

\* regDst of decode and set_ex_reg_write: reg_dst chooses rd or rt.
DestinationOf(d) == IF d.ctl.reg_dst = 0 THEN d.rt.index ELSE d.rd
=============================================================================
