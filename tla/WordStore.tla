----------------------------- MODULE WordStore -----------------------------
(***************************************************************************)
(* What MEM_REGIONS promises fetch, the loader and mdump: one word for     *)
(* every word-aligned address inside a region, 0 until it is written, and  *)
(* 0 outside, where writes are lost.                                       *)
(***************************************************************************)
EXTENDS Words

CONSTANTS Mapped,     \* the word-aligned addresses inside a region
          Values      \* what may be written

VARIABLE store

Init == store = [a \in Mapped |-> 0]

Clear           == store' = [a \in Mapped |-> 0]
Write(a, value) == store' = [store EXCEPT ![a] = value]

Next == Clear \/ \E a \in Mapped, value \in Values : Write(a, value)

Spec == Init /\ [][Next]_store
=============================================================================
