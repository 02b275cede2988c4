-------------------------------- MODULE Dram --------------------------------
(***************************************************************************)
(* The cells behind read_dram and write_dram (src/src/dram.cpp): a dimm of *)
(* chips of banks of rows of nibbles, built by init_dram with push_back.   *)
(* Chip i holds nibble i of every word.  An address selects the column     *)
(* with 10 bits, the row with 10 bits of which the lowest three are the    *)
(* highest three of the column, and the bank with 3.                       *)
(***************************************************************************)
EXTENDS Granules, Sequences

CONSTANTS BANKS, ROWS, COLS,     \* 8, 1024, 1024: the arguments of init_dram
          ROWSTRIDE,             \* 2^7: columns from one value of row_id to the next
          Addresses, Values,     \* what callers may pass
          MaxInits,              \* calls of init_dram: one per initialize()
          Stray                  \* bytes a read behind the end of a row may find

CHIPS    == 8
NIBBLE   == 2 ^ (B \div 2)       \* values of a nibble, 16 in the program

\* Nibble i of a word counts so many times: << 4 * i.
Weight(i) == 2 ^ ((B \div 2) * i)

ASSUME LayoutAssumption ==
  /\ BANKS \in Nat \ {0} /\ ROWS \in Nat \ {0} /\ COLS \in Nat \ {0} /\ ROWSTRIDE \in Nat \ {0}
  /\ COLS % ROWSTRIDE = 0 /\ GRANULES = ROWSTRIDE * ROWS * BANKS
  /\ GRANULES % COLS = 0
  /\ B % 2 = 0
  /\ Stray \subseteq 0 .. BYTE - 1 /\ Stray # {}
  /\ Addresses \subseteq Word /\ Values \subseteq Word /\ MaxInits \in Nat \ {0}

VARIABLES dram,      \* chips, banks, rows, cells: sequences in sequences
          data       \* what the last read_dram returned

vars == <<dram, data>>

----------------------------------------------------------------------------
(* init_dram                                                               *)

\* n pushes of an empty vector onto s.  The loops then fill elements 1 to n,
\* whether they are the ones just pushed or not.
Grown(s, n) == s \o [k \in 1 .. n |-> << >>]

FillRow(row)   == row \o [l \in 1 .. COLS |-> 0]
FillBank(bank) == [k \in DOMAIN Grown(bank, ROWS) |->
                     IF k <= ROWS THEN FillRow(Grown(bank, ROWS)[k]) ELSE Grown(bank, ROWS)[k]]
FillChip(chip) == [j \in DOMAIN Grown(chip, BANKS) |->
                     IF j <= BANKS THEN FillBank(Grown(chip, BANKS)[j]) ELSE Grown(chip, BANKS)[j]]

init_dram ==
  /\ Len(dram) < MaxInits * CHIPS
  /\ dram' = [i \in DOMAIN Grown(dram, CHIPS) |->
                IF i <= CHIPS THEN FillChip(Grown(dram, CHIPS)[i]) ELSE Grown(dram, CHIPS)[i]]
  /\ UNCHANGED data

----------------------------------------------------------------------------
(* Cells of an address; vectors count from 0                               *)

col_id(address)  == (address \div 8) % COLS
row_id(address)  == (address \div (8 * ROWSTRIDE)) % ROWS
\* Mutant: the shift of row_id used for the bank.
bank_by_row(address) == (address \div (8 * ROWSTRIDE)) % BANKS
bank_id(address) == (address \div (8 * ROWSTRIDE * ROWS)) % BANKS

Row(i, address)  == dram[i + 1][bank_id(address) + 1][row_id(address) + 1]

\* block.data[i]: the cell and the three behind it as the bytes of a word;
\* behind the end of the row the vector holds nothing and the read finds
\* whatever byte is there.
BlockData(i, address, stray) ==
  LET row     == Row(i, address)
      Cell(n) == IF n < Len(row) THEN row[n + 1] ELSE stray
      col     == col_id(address)
  IN Cell(col) + Cell(col + 1) * BYTE + Cell(col + 2) * BYTE * BYTE
       + Cell(col + 3) * BYTE * BYTE * BYTE

\* The lowest nibble of each chip's word.
get_block_data_at_address(block) ==
  LET Part(i) == (block[i] % NIBBLE) * Weight(i)
  IN Part(0) + Part(1) + Part(2) + Part(3) + Part(4) + Part(5) + Part(6) + Part(7)

Fetched(address, stray) ==
  get_block_data_at_address([i \in 0 .. CHIPS - 1 |-> BlockData(i, address, stray)])

read_dram(address, stray) ==
  /\ dram # << >>
  /\ data' = ShiftRight(Fetched(address, stray), ShiftOf(address))
  /\ UNCHANGED dram

\* Mutant: the value is shifted but not masked.
Unmasked(value, i) == value \div Weight(i)
\* The loop over the chips: value & 0xF, then value >> 4.
NibbleOf(value, i) == (value \div Weight(i)) % NIBBLE

write_dram(address, value) ==
  /\ dram # << >>
  /\ dram' = [k \in 1 .. Len(dram) |->
                IF k <= CHIPS
                  THEN [dram[k] EXCEPT ![bank_id(address) + 1][row_id(address) + 1][col_id(address) + 1]
                                          = NibbleOf(value, k - 1)]
                  ELSE dram[k]]
  /\ UNCHANGED data

Init == dram = << >> /\ data = 0

Next ==
  \/ init_dram
  \/ \E address \in Addresses :
       \/ \E stray \in Stray : read_dram(address, stray)
       \/ \E value \in Values : write_dram(address, value)

Spec == Init /\ [][Next]_vars

----------------------------------------------------------------------------
(* Properties                                                              *)

Nibble == 0 .. NIBBLE - 1

\* Everything an address can select exists once init_dram has run, and every
\* cell holds a nibble.
TypeOK ==
  /\ data \in Word
  /\ dram \in Seq(Seq(Seq(Seq(Nibble))))
  /\ dram # << >> =>
       /\ Len(dram) >= CHIPS
       /\ \A i \in 1 .. CHIPS :
            /\ Len(dram[i]) >= BANKS
            /\ \A j \in 1 .. BANKS :
                 /\ Len(dram[i][j]) >= ROWS
                 /\ \A k \in 1 .. ROWS : Len(dram[i][j][k]) >= COLS

\* The word kept in the cells of granule g.
WordAt(g) == Fetched(8 * g, 0)
Contents  == [g \in Granule |-> IF dram = << >> THEN 0 ELSE WordAt(g)]

Memory == INSTANCE GranuleMemory WITH mem <- Contents

\* The cells behave as one word per granule: no two granules share a cell
\* although row and column overlap, a word comes back with its nibbles in
\* order, the three neighbours a read also fetches leave no trace, and a
\* second init_dram changes no word.
ImplementsGranuleMemory == Memory!Spec

\* read_dram "returns the specific 32 bits data desired from address": a
\* write to one word leaves the other words as they were.
OtherWordsKept ==
  [][\A a, b \in { c \in Addresses : c % 4 = 0 /\ c \div 8 < GRANULES }, v \in Values :
       a # b /\ write_dram(a, v) =>
         Fetched(b, 0)' = Fetched(b, 0)]_vars
=============================================================================
