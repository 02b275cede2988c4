--------------------------- MODULE MCAluReference ---------------------------
(* AluReference for words of 8 bits; the text and the registers of Decoder *)
(* play no part.                                                           *)
EXTENDS AluReference, Assembler, MCWords

NoPrograms == {<< >>}
NoRegs     == { [r \in Reg |-> 0] }
=============================================================================
