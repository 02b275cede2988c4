----------------------------- MODULE Assembler -----------------------------
(***************************************************************************)
(* Instructions and short programs for the model-checking modules, written *)
(* the way the assembly files of src/tests write them.                     *)
(***************************************************************************)
EXTENDS Isa, Sequences

R3(f, d, s, t)  == [Nop EXCEPT !.funct = f, !.rd = d, !.rs = s, !.rt = t]
Shift(f, d, t, n) == [Nop EXCEPT !.funct = f, !.rd = d, !.rt = t, !.sa = n]
MulDivOf(f, s, t) == [Nop EXCEPT !.funct = f, !.rs = s, !.rt = t]
FromHiLo(f, d)  == [Nop EXCEPT !.funct = f, !.rd = d]
ToHiLo(f, s)    == [Nop EXCEPT !.funct = f, !.rs = s]
JumpReg(s)      == [Nop EXCEPT !.funct = "JR", !.rs = s]
JumpLinkReg(d, s) == [Nop EXCEPT !.funct = "JALR", !.rd = d, !.rs = s]
Imm(op, t, s, n) == [Nop EXCEPT !.opcode = op, !.rt = t, !.rs = s, !.imm = n]
Lui(t, n)       == [Nop EXCEPT !.opcode = "LUI", !.rt = t, !.imm = n]
Mem(op, t, n, s) == Imm(op, t, s, n)
Cmp(op, s, t, n) == Imm(op, t, s, n)
\* rt is the selector of a REGIMM instruction: 0 for BLTZ, 1 for BGEZ; those
\* of BLTZAL and BGEZAL (16, 17) are only replaced by 31 before they are used.
BrZero(f, s, n) ==
  [Nop EXCEPT !.opcode = "REGIMM", !.funct = f, !.rs = s,
              !.rt = IF f \in {"BGEZ", "BGEZAL"} THEN 1 ELSE 0, !.imm = n]
\* t: the rt field, bits 16..20 of the label (16 for the text at 0x00400000).
JumpTo(op, address, t) == [Nop EXCEPT !.opcode = op, !.label = address \div 4, !.rt = t]
\* An opcode without a case.  The ALU may still run under the SPECIAL or
\* REGIMM of the instruction before it and take the low bits of imm for a
\* function code and t for a selector: 1 is no function code, 0 and 1 are
\* selectors, so t is above 1.
Undefined(s, t) ==
  [Nop EXCEPT !.opcode = "PADDING", !.funct = "UNUSED", !.rs = s, !.rt = t, !.imm = 1]

Syscall == [Nop EXCEPT !.funct = "SYSCALL"]
\* How the repository's tests end: addiu $v0, $zero, 0xa; syscall.
Exit == << Imm("ADDIU", R_V0, 0, 2), Syscall >>

\* Some value of Straddling: a different instruction for each number of bytes,
\* which depends on both words, and one that has no case.
Straddles(i, j, k) ==
  CASE i = Nop /\ j = Nop -> Nop
    [] k = 1 /\ i # Nop    -> Imm("ADDIU", 1, 2, i.imm)
    [] k = 2 /\ j # Nop    -> Mem("SW", i.rt, 8, j.rs)
    [] OTHER               -> Undefined(1, 2)

\* All programs of n instructions of an alphabet, followed by suffix.
AllPrograms(n, alphabet, suffix) == { p \o suffix : p \in [1 .. n -> alphabet] }
=============================================================================
