------------------------------- MODULE MCDram -------------------------------
(* Dram with two banks of two rows of two columns.                        *)
EXTENDS Dram, MCWords

\* Every granule at four of its eight bytes, and two addresses above the
\* last one.
MCAddresses == { 8 * g + n : g \in Granule, n \in {0, 1, 4, 7} } \cup {40, 200}
=============================================================================
