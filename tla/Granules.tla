------------------------------ MODULE Granules ------------------------------
(***************************************************************************)
(* What read_dram and write_dram (src/src/dram.cpp) amount to for a caller.*)
(* An address selects one cell in each of the 8 chips by its bits 3..22;   *)
(* the eight 4-bit cells hold one word, called a granule here.  A write    *)
(* replaces the whole granule whatever the low three address bits are; a   *)
(* read returns the granule shifted right by 8 bits for each of them.      *)
(* Module Dram has the cells, and is checked to implement this.            *)
(***************************************************************************)
EXTENDS Words

CONSTANT GRANULES          \* 2^20 in the program: 2^10 columns, rows overlap, 8 banks

ASSUME GranuleAssumption == GRANULES \in Nat \ {0}

Granule    == 0 .. GRANULES - 1
GranuleOf(address) == (address \div 8) % GRANULES
ChipId(address)    == address % 8

\* data >> (chip_id * 8): from chip 4 on the shift is as wide as the word or
\* wider, which C leaves undefined; a run-time shift takes its amount
\* modulo the width (x86-64 and AArch64), so the builds shift by this much.
ShiftOf(address) == (B * ChipId(address)) % BITS

ReadGranule(mem, address)         == ShiftRight(mem[GranuleOf(address)], ShiftOf(address))
WriteGranule(mem, address, value) == [mem EXCEPT ![GranuleOf(address)] = value]
=============================================================================
