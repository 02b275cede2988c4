--------------------------- MODULE GranuleMemory ---------------------------
(***************************************************************************)
(* What read_dram and write_dram promise their callers, and what the other *)
(* modules use in their place: a word per granule, all 0 at first, and     *)
(* "data", the word the last read returned.                                *)
(***************************************************************************)
EXTENDS Granules

CONSTANTS Addresses, Values      \* what callers may pass

VARIABLES mem, data

vars == <<mem, data>>

Init == mem = [g \in Granule |-> 0] /\ data = 0

Read(address)         == data' = ReadGranule(mem, address) /\ UNCHANGED mem
Write(address, value) == mem' = WriteGranule(mem, address, value) /\ UNCHANGED data

Next == \E address \in Addresses : Read(address) \/ \E value \in Values : Write(address, value)

Spec == Init /\ [][Next]_vars
=============================================================================
