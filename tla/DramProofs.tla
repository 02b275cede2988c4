----------------------------- MODULE DramProofs -----------------------------
(***************************************************************************)
(* The vectors of cells of module Dram are, for every size of the memory   *)
(* and every width of the byte, a memory of one word per granule.          *)
(***************************************************************************)
EXTENDS Dram, WordProofs, SequenceTheorems

----------------------------------------------------------------------------
(* Eight nibbles make a word                                               *)

\* The weight of each nibble is the number of values of those below it.
LEMMA Weights ==
  /\ NIBBLE \in Nat \ {0} /\ BYTE = NIBBLE * NIBBLE
  /\ Weight(0) = 1 /\ Weight(8) = WORDS
  /\ \A i \in 0 .. 8 : Weight(i) \in Nat \ {0}
  /\ \A i \in 0 .. 7 : Weight(i + 1) = Weight(i) * NIBBLE
  <1> DEFINE h == B \div 2
  <1>1. h \in Nat /\ B = 2 * h /\ BITS = 8 * h
    BY ByteAssumption, LayoutAssumption DEF BITS
  <1> HIDE DEF h
  <1>2. \A i \in 0 .. 8 : h * i \in 0 .. BITS
    BY <1>1
  <1>3. NIBBLE = 2 ^ h /\ h \in 0 .. BITS
    BY <1>1 DEF NIBBLE, h
  <1>4. \A i \in 0 .. 8 : Weight(i) = 2 ^ (h * i)
    BY DEF Weight, h
  <1>5. BYTE = NIBBLE * NIBBLE
    <2>1. B = h + h /\ h + h <= BITS
      BY <1>1
    <2>2. 2 ^ (h + h) = 2 ^ h * 2 ^ h
      BY <1>3, <2>1, PowerAssumption
    <2> QED BY <1>3, <2>1, <2>2 DEF BYTE
  <1>6. ASSUME NEW i \in 0 .. 7 PROVE Weight(i + 1) = Weight(i) * NIBBLE
    <2>1. i + 1 \in 0 .. 8 /\ h * (i + 1) = h * i + h /\ i \in 0 .. 8
      BY <1>1
    <2>2. h * i + h <= BITS /\ h * i \in 0 .. BITS
      BY <1>2, <2>1
    <2>3. 2 ^ (h * i + h) = 2 ^ (h * i) * 2 ^ h
      BY <1>3, <2>2, PowerAssumption
    <2> QED BY <1>3, <1>4, <2>1, <2>3
  <1>7. Weight(0) = 1
    <2>1. h * 0 = 0 /\ 0 \in 0 .. 8
      BY <1>1
    <2>2. Weight(0) = 2 ^ (h * 0)
      BY <1>4, <2>1
    <2>3. 2 ^ 0 = 1
      BY PowerAssumption
    <2> QED BY <2>1, <2>2, <2>3
  <1>8. Weight(8) = WORDS
    <2>1. h * 8 = BITS
      BY <1>1
    <2> QED BY <1>4, <2>1 DEF WORDS
  <1>9. \A i \in 0 .. 8 : Weight(i) \in Nat \ {0}
    BY <1>2, <1>4, PowerAssumption
  <1>10. NIBBLE \in Nat \ {0}
    BY <1>3, PowerAssumption
  <1> QED BY <1>5, <1>6, <1>7, <1>8, <1>9, <1>10

\* A sum of i nibbles and one more at weight i stays below weight i + 1.
LEMMA OneMoreNibble ==
  ASSUME NEW i \in 0 .. 7, NEW s \in 0 .. Weight(i) - 1, NEW n \in Nibble
  PROVE  s + n * Weight(i) \in 0 .. Weight(i + 1) - 1
  <1> DEFINE w == Weight(i)
  <1>1. w \in Nat \ {0} /\ NIBBLE \in Nat \ {0} /\ Weight(i + 1) = w * NIBBLE
    BY Weights
  <1>2. n \in 0 .. NIBBLE - 1 /\ s \in 0 .. w - 1
    BY DEF Nibble
  <1> HIDE DEF w
  <1>3. n * w >= 0 /\ n * w <= (NIBBLE - 1) * w
    BY <1>1, <1>2
  <1>4. (NIBBLE - 1) * w = w * NIBBLE - w
    BY <1>1
  <1>5. s + n * w \in 0 .. w * NIBBLE - 1
    BY <1>1, <1>2, <1>3, <1>4
  <1> QED BY <1>1, <1>5 DEF w

\* What get_block_data_at_address returns is a word.
LEMMA AssembledType ==
  ASSUME NEW block, \A i \in 0 .. 7 : block[i] \in Int
  PROVE  get_block_data_at_address(block) \in Word
  <1> DEFINE Part(i) == (block[i] % NIBBLE) * Weight(i)
             S1 == Part(0)
             S2 == S1 + Part(1)
             S3 == S2 + Part(2)
             S4 == S3 + Part(3)
             S5 == S4 + Part(4)
             S6 == S5 + Part(5)
             S7 == S6 + Part(6)
             S8 == S7 + Part(7)
  <1>1. \A i \in 0 .. 7 : block[i] % NIBBLE \in Nibble
    BY Weights DEF Nibble
  <1>2. S1 \in 0 .. Weight(1) - 1
    <2>1. 0 \in 0 .. Weight(0) - 1 /\ 0 \in 0 .. 7
      BY Weights
    <2>2. 0 + Part(0) \in 0 .. Weight(0 + 1) - 1
      BY <1>1, <2>1, OneMoreNibble
    <2>3. Part(0) \in Int
      BY <1>1, Weights DEF Nibble
    <2> QED BY <2>2, <2>3
  <1> HIDE DEF S1
  <1>3. S2 \in 0 .. Weight(2) - 1
    <2>1. S1 + Part(1) \in 0 .. Weight(1 + 1) - 1
      BY <1>1, <1>2, OneMoreNibble
    <2> QED BY <2>1
  <1> HIDE DEF S2
  <1>4. S3 \in 0 .. Weight(3) - 1
    <2>1. S2 + Part(2) \in 0 .. Weight(2 + 1) - 1
      BY <1>1, <1>3, OneMoreNibble
    <2> QED BY <2>1
  <1> HIDE DEF S3
  <1>5. S4 \in 0 .. Weight(4) - 1
    <2>1. S3 + Part(3) \in 0 .. Weight(3 + 1) - 1
      BY <1>1, <1>4, OneMoreNibble
    <2> QED BY <2>1
  <1> HIDE DEF S4
  <1>6. S5 \in 0 .. Weight(5) - 1
    <2>1. S4 + Part(4) \in 0 .. Weight(4 + 1) - 1
      BY <1>1, <1>5, OneMoreNibble
    <2> QED BY <2>1
  <1> HIDE DEF S5
  <1>7. S6 \in 0 .. Weight(6) - 1
    <2>1. S5 + Part(5) \in 0 .. Weight(5 + 1) - 1
      BY <1>1, <1>6, OneMoreNibble
    <2> QED BY <2>1
  <1> HIDE DEF S6
  <1>8. S7 \in 0 .. Weight(7) - 1
    <2>1. S6 + Part(6) \in 0 .. Weight(6 + 1) - 1
      BY <1>1, <1>7, OneMoreNibble
    <2> QED BY <2>1
  <1> HIDE DEF S7
  <1>9. S8 \in 0 .. Weight(8) - 1
    <2>1. S7 + Part(7) \in 0 .. Weight(7 + 1) - 1
      BY <1>1, <1>8, OneMoreNibble
    <2> QED BY <2>1
  <1> QED BY <1>9, Weights DEF get_block_data_at_address, Word, S1, S2, S3, S4, S5, S6, S7

\* Shifting out the nibbles of a word, as write_dram does, and putting them
\* together again, as read_dram does, gives the word.
LEMMA NibblesOfWord ==
  ASSUME NEW v \in Word,
         NEW block, \A i \in 0 .. 7 : block[i] % NIBBLE = NibbleOf(v, i)
  PROVE  get_block_data_at_address(block) = v
  <1> DEFINE Part(i) == (block[i] % NIBBLE) * Weight(i)
  <1>1. ASSUME NEW i \in 0 .. 7
        PROVE  v % Weight(i + 1) = (v % Weight(i)) + Part(i) /\ Part(i) \in Int /\ v % Weight(i) \in Int
    <2>1. v \in Int /\ Weight(i) \in Nat \ {0} /\ NIBBLE \in Nat \ {0}
      BY Weights, WordInt
    <2>2. v % (Weight(i) * NIBBLE) = (v % Weight(i)) + Weight(i) * ((v \div Weight(i)) % NIBBLE)
      BY <2>1, TwoDigits
    <2>3. Part(i) = ((v \div Weight(i)) % NIBBLE) * Weight(i)
      BY DEF NibbleOf
    <2>4. (v \div Weight(i)) % NIBBLE \in Int
      BY <2>1
    <2>5. Part(i) = Weight(i) * ((v \div Weight(i)) % NIBBLE) /\ Part(i) \in Int
      BY <2>1, <2>3, <2>4
    <2>6. Weight(i + 1) = Weight(i) * NIBBLE
      BY Weights
    <2> QED BY <2>1, <2>2, <2>5, <2>6
  <1>2. v % Weight(0) = 0 /\ v % Weight(8) = v
    <2>1. v \in 0 .. WORDS - 1 /\ WORDS \in Nat \ {0}
      BY WordsPositive DEF Word
    <2>2. Weight(0) = 1 /\ Weight(8) = WORDS
      BY Weights
    <2>3. v % 1 = 0 /\ v % WORDS = v
      BY <2>1
    <2> QED BY <2>2, <2>3
  <1> HIDE DEF Part
  <1>3. v % Weight(1) = Part(0) /\ v % Weight(2) = (v % Weight(1)) + Part(1)
    <2>1. v % Weight(0 + 1) = (v % Weight(0)) + Part(0) /\ Part(0) \in Int
      BY <1>1
    <2>2. v % Weight(1 + 1) = (v % Weight(1)) + Part(1)
      BY <1>1
    <2> QED BY <1>2, <2>1, <2>2
  <1>4. v % Weight(3) = (v % Weight(2)) + Part(2) /\ v % Weight(4) = (v % Weight(3)) + Part(3)
    <2>1. v % Weight(2 + 1) = (v % Weight(2)) + Part(2)
      BY <1>1
    <2>2. v % Weight(3 + 1) = (v % Weight(3)) + Part(3)
      BY <1>1
    <2> QED BY <2>1, <2>2
  <1>5. v % Weight(5) = (v % Weight(4)) + Part(4) /\ v % Weight(6) = (v % Weight(5)) + Part(5)
    <2>1. v % Weight(4 + 1) = (v % Weight(4)) + Part(4)
      BY <1>1
    <2>2. v % Weight(5 + 1) = (v % Weight(5)) + Part(5)
      BY <1>1
    <2> QED BY <2>1, <2>2
  <1>6. v % Weight(7) = (v % Weight(6)) + Part(6) /\ v % Weight(8) = (v % Weight(7)) + Part(7)
    <2>1. v % Weight(6 + 1) = (v % Weight(6)) + Part(6)
      BY <1>1
    <2>2. v % Weight(7 + 1) = (v % Weight(7)) + Part(7)
      BY <1>1
    <2> QED BY <2>1, <2>2
  <1>7. v = Part(0) + Part(1) + Part(2) + Part(3) + Part(4) + Part(5) + Part(6) + Part(7)
    BY <1>2, <1>3, <1>4, <1>5, <1>6
  <1> QED BY <1>7 DEF get_block_data_at_address, Part

\* Only the lowest nibble of what each chip delivers counts.
LEMMA LowestNibbles ==
  ASSUME NEW block, NEW other, \A i \in 0 .. 7 : block[i] % NIBBLE = other[i] % NIBBLE
  PROVE  get_block_data_at_address(block) = get_block_data_at_address(other)
  BY DEF get_block_data_at_address

----------------------------------------------------------------------------
(* Granules and cells                                                      *)

\* The sizes are positive, and granules are counted by column step, row and
\* bank.
LEMMA Sizes ==
  /\ BANKS \in Nat \ {0} /\ ROWS \in Nat \ {0} /\ COLS \in Nat \ {0} /\ ROWSTRIDE \in Nat \ {0}
  /\ ROWSTRIDE * ROWS \in Nat \ {0} /\ ROWS * BANKS \in Nat \ {0}
  /\ GRANULES = (ROWSTRIDE * ROWS) * BANKS /\ GRANULES = ROWSTRIDE * (ROWS * BANKS)
  /\ GRANULES \in Nat \ {0}
  <1>1. BANKS \in Nat \ {0} /\ ROWS \in Nat \ {0} /\ COLS \in Nat \ {0} /\ ROWSTRIDE \in Nat \ {0}
    BY LayoutAssumption
  <1>2. ROWSTRIDE * ROWS \in Nat \ {0} /\ ROWS * BANKS \in Nat \ {0}
    BY <1>1
  <1>3. (ROWSTRIDE * ROWS) * BANKS = ROWSTRIDE * (ROWS * BANKS)
    BY <1>1
  <1> QED BY <1>1, <1>2, <1>3, LayoutAssumption, GranuleAssumption

\* A number that divides another divides it into a positive quotient.
LEMMA Divides ==
  ASSUME NEW n \in Nat \ {0}, NEW d \in Nat \ {0}, n % d = 0
  PROVE  \E k \in Nat \ {0} : n = d * k
  <1> DEFINE k == n \div d
  <1>1. k \in Int /\ n = d * k + (n % d)
    BY DivisionFacts
  <1> HIDE DEF k
  <1>2. n = d * k
    BY <1>1
  <1>3. k > 0
    <2> SUFFICES ASSUME k <= 0 PROVE FALSE
      BY <1>1
    <2>1. d * k <= 0
      BY <1>1
    <2> QED BY <1>2, <2>1
  <1> QED BY <1>1, <1>2, <1>3

\* Column, row and bank of an address, from the number of its granule before
\* it is cut to the size of the memory.
LEMMA CellIds ==
  ASSUME NEW a \in Nat
  PROVE  /\ a \div 8 \in Nat
         /\ col_id(a) = (a \div 8) % COLS
         /\ row_id(a) = ((a \div 8) \div ROWSTRIDE) % ROWS
         /\ bank_id(a) = ((a \div 8) \div (ROWSTRIDE * ROWS)) % BANKS
         /\ col_id(a) \in 0 .. COLS - 1 /\ row_id(a) \in 0 .. ROWS - 1 /\ bank_id(a) \in 0 .. BANKS - 1
  <1>0. a \in Int /\ 8 \in Nat \ {0} /\ ROWSTRIDE \in Nat \ {0} /\ ROWSTRIDE * ROWS \in Nat \ {0}
    BY Sizes
  <1>1. a \div 8 \in Nat
    OBVIOUS
  <1>2. a \div (8 * ROWSTRIDE) = (a \div 8) \div ROWSTRIDE
    BY <1>0, DividedTwice
  <1>3. a \div (8 * ROWSTRIDE * ROWS) = (a \div 8) \div (ROWSTRIDE * ROWS)
    <2>1. 8 * ROWSTRIDE * ROWS = 8 * (ROWSTRIDE * ROWS)
      BY Sizes
    <2>2. a \div (8 * (ROWSTRIDE * ROWS)) = (a \div 8) \div (ROWSTRIDE * ROWS)
      BY <1>0, DividedTwice
    <2> QED BY <2>1, <2>2
  <1>4. (a \div 8) \div ROWSTRIDE \in Int /\ (a \div 8) \div (ROWSTRIDE * ROWS) \in Int
    BY <1>1, Sizes
  <1>5. /\ (a \div 8) % COLS \in 0 .. COLS - 1
        /\ ((a \div 8) \div ROWSTRIDE) % ROWS \in 0 .. ROWS - 1
        /\ ((a \div 8) \div (ROWSTRIDE * ROWS)) % BANKS \in 0 .. BANKS - 1
    BY <1>1, <1>4, Sizes
  <1> QED BY <1>1, <1>2, <1>3, <1>5 DEF col_id, row_id, bank_id

\* ... counted from 1, as the sequences are.
LEMMA CellNumbers ==
  ASSUME NEW a \in Nat
  PROVE  /\ bank_id(a) + 1 \in 1 .. BANKS /\ row_id(a) + 1 \in 1 .. ROWS /\ col_id(a) + 1 \in 1 .. COLS
         /\ col_id(a) \in Nat
  <1>1. col_id(a) \in 0 .. COLS - 1 /\ row_id(a) \in 0 .. ROWS - 1 /\ bank_id(a) \in 0 .. BANKS - 1
    BY CellIds
  <1>2. BANKS \in Nat /\ ROWS \in Nat /\ COLS \in Nat
    BY Sizes
  <1> QED BY <1>1, <1>2

\* An address selects the cells its granule's first byte selects.
LEMMA CellsOfGranule ==
  ASSUME NEW a \in Nat
  PROVE  /\ GranuleOf(a) \in Granule /\ 8 * GranuleOf(a) \in Nat
         /\ col_id(8 * GranuleOf(a)) = col_id(a)
         /\ row_id(8 * GranuleOf(a)) = row_id(a)
         /\ bank_id(8 * GranuleOf(a)) = bank_id(a)
  <1> DEFINE x == a \div 8
             g == x % GRANULES
  <1>1. x \in Int /\ g \in 0 .. GRANULES - 1 /\ g \in Nat /\ GranuleOf(a) = g
    BY Sizes DEF GranuleOf
  <1>2. (8 * g) \div 8 = g /\ 8 * g \in Nat
    BY <1>1
  <1> HIDE DEF x
  <1>0. /\ ROWSTRIDE \in Nat \ {0} /\ ROWSTRIDE * ROWS \in Nat \ {0} /\ ROWS * BANKS \in Nat \ {0}
        /\ ROWS \in Nat \ {0} /\ BANKS \in Nat \ {0} /\ COLS \in Nat \ {0}
    BY Sizes
  <1>3. g % COLS = x % COLS
    <2>1. PICK k \in Nat \ {0} : GRANULES = COLS * k
      BY Sizes, Divides, LayoutAssumption
    <2>2. (x % (COLS * k)) % COLS = x % COLS
      BY <1>0, <1>1, RemainderOfRemainder
    <2> QED BY <2>1, <2>2
  <1>4. (g \div ROWSTRIDE) % ROWS = (x \div ROWSTRIDE) % ROWS
    <2>1. (x % (ROWSTRIDE * (ROWS * BANKS))) \div ROWSTRIDE = (x \div ROWSTRIDE) % (ROWS * BANKS)
      BY <1>0, <1>1, RemainderOfRemainder
    <2>2. x \div ROWSTRIDE \in Int
      BY <1>0, <1>1
    <2>3. ((x \div ROWSTRIDE) % (ROWS * BANKS)) % ROWS = (x \div ROWSTRIDE) % ROWS
      BY <1>0, <2>2, RemainderOfRemainder
    <2> QED BY <2>1, <2>3, Sizes
  <1>5. (g \div (ROWSTRIDE * ROWS)) % BANKS = (x \div (ROWSTRIDE * ROWS)) % BANKS
    <2>1. (x % ((ROWSTRIDE * ROWS) * BANKS)) \div (ROWSTRIDE * ROWS)
            = (x \div (ROWSTRIDE * ROWS)) % BANKS
      BY <1>0, <1>1, RemainderOfRemainder
    <2>2. x \div (ROWSTRIDE * ROWS) \in Int
      BY <1>0, <1>1, DivisionFacts
    <2>3. (x \div (ROWSTRIDE * ROWS)) % BANKS \in 0 .. BANKS - 1
      BY <1>0, <2>2, DivisionFacts
    <2>4. ((x \div (ROWSTRIDE * ROWS)) % BANKS) % BANKS = (x \div (ROWSTRIDE * ROWS)) % BANKS
      BY <1>0, <2>3, SmallRemainder
    <2> QED BY <2>1, <2>4, Sizes
  <1>6. /\ col_id(8 * g) = g % COLS /\ row_id(8 * g) = (g \div ROWSTRIDE) % ROWS
        /\ bank_id(8 * g) = (g \div (ROWSTRIDE * ROWS)) % BANKS
    <2> HIDE DEF g
    <2> QED BY <1>2, CellIds
  <1> QED BY <1>1, <1>2, <1>3, <1>4, <1>5, <1>6, CellIds DEF Granule, x

\* Column and row overlap, and yet no two granules share their cells.
LEMMA CellsDiffer ==
  ASSUME NEW a \in Nat, NEW b \in Nat,
         col_id(a) = col_id(b), row_id(a) = row_id(b), bank_id(a) = bank_id(b)
  PROVE  GranuleOf(a) = GranuleOf(b)
  <1> DEFINE x == a \div 8
             y == b \div 8
  <1>1. x \in Int /\ y \in Int
    OBVIOUS
  <1>2. /\ x % COLS = y % COLS
        /\ (x \div ROWSTRIDE) % ROWS = (y \div ROWSTRIDE) % ROWS
        /\ (x \div (ROWSTRIDE * ROWS)) % BANKS = (y \div (ROWSTRIDE * ROWS)) % BANKS
    BY CellIds
  <1> HIDE DEF x, y
  <1>0. ROWSTRIDE \in Nat \ {0} /\ ROWS \in Nat \ {0} /\ BANKS \in Nat \ {0}
    BY Sizes
  <1>3. x % ROWSTRIDE = y % ROWSTRIDE
    <2>1. PICK k \in Nat \ {0} : COLS = ROWSTRIDE * k
      BY Sizes, Divides, LayoutAssumption
    <2>2. /\ (x % (ROWSTRIDE * k)) % ROWSTRIDE = x % ROWSTRIDE
          /\ (y % (ROWSTRIDE * k)) % ROWSTRIDE = y % ROWSTRIDE
      BY <1>0, <1>1, RemainderOfRemainder
    <2> QED BY <1>2, <2>1, <2>2
  <1>4. x % (ROWSTRIDE * ROWS) = y % (ROWSTRIDE * ROWS)
    <2>1. /\ x % (ROWSTRIDE * ROWS) = (x % ROWSTRIDE) + ROWSTRIDE * ((x \div ROWSTRIDE) % ROWS)
          /\ y % (ROWSTRIDE * ROWS) = (y % ROWSTRIDE) + ROWSTRIDE * ((y \div ROWSTRIDE) % ROWS)
      BY <1>0, <1>1, TwoDigits
    <2> QED BY <1>2, <1>3, <2>1
  <1>5. x % GRANULES = y % GRANULES
    <2> DEFINE m == ROWSTRIDE * ROWS
    <2>0. m \in Nat \ {0} /\ GRANULES = m * BANKS
      BY Sizes
    <2> HIDE DEF m
    <2>1. /\ x % (m * BANKS) = (x % m) + m * ((x \div m) % BANKS)
          /\ y % (m * BANKS) = (y % m) + m * ((y \div m) % BANKS)
      BY <1>0, <1>1, <2>0, TwoDigits
    <2>2. x % m = y % m /\ (x \div m) % BANKS = (y \div m) % BANKS
      BY <1>2, <1>4 DEF m
    <2> QED BY <2>0, <2>1, <2>2
  <1> QED BY <1>5 DEF GranuleOf, x, y

----------------------------------------------------------------------------
(* What init_dram pushes                                                   *)

\* A function on 1 .. n is a sequence of length n.
LEMMA SequenceOf ==
  ASSUME NEW S, NEW n \in Nat, NEW f \in [1 .. n -> S]
  PROVE  f \in Seq(S) /\ Len(f) = n
  <1>1. f \in Seq(S)
    BY SeqDef
  <1>2. DOMAIN f = 1 .. Len(f) /\ Len(f) \in Nat
    BY <1>1, LenProperties
  <1>3. 1 .. Len(f) = 1 .. n
    BY <1>2
  <1> QED BY <1>1, <1>2, <1>3

\* The element an index finds after n empty vectors were pushed.
PushedAt(s, k) == IF k <= Len(s) THEN s[k] ELSE << >>

\* Pushing n empty vectors keeps the elements and puts the empty ones behind.
LEMMA GrownElements ==
  ASSUME NEW S, NEW s \in Seq(Seq(S)), NEW n \in Nat
  PROVE  /\ Grown(s, n) \in Seq(Seq(S))
         /\ Len(Grown(s, n)) = Len(s) + n /\ DOMAIN Grown(s, n) = 1 .. Len(s) + n
         /\ \A k \in 1 .. Len(s) + n : Grown(s, n)[k] = PushedAt(s, k) /\ PushedAt(s, k) \in Seq(S)
  <1> DEFINE e == [k \in 1 .. n |-> << >>]
  <1>1. << >> \in Seq(S)
    BY EmptySeq
  <1>2. e \in [1 .. n -> Seq(S)]
    BY <1>1
  <1>3. e \in Seq(Seq(S)) /\ Len(e) = n
    <2> HIDE DEF e
    <2> QED BY <1>2, SequenceOf
  <1>4. \A k \in 1 .. n : e[k] = << >>
    OBVIOUS
  <1>5. Grown(s, n) = s \o e
    BY DEF Grown
  <1> HIDE DEF e
  <1>6. /\ s \o e \in Seq(Seq(S)) /\ Len(s \o e) = Len(s) + n
        /\ \A k \in 1 .. Len(s) + n : (s \o e)[k] = IF k <= Len(s) THEN s[k] ELSE e[k - Len(s)]
    BY <1>3, ConcatProperties
  <1>7. Len(s) \in Nat /\ DOMAIN (s \o e) = 1 .. Len(s \o e)
    BY <1>6, LenProperties
  <1>8. ASSUME NEW k \in 1 .. Len(s) + n
        PROVE  (s \o e)[k] = PushedAt(s, k) /\ PushedAt(s, k) \in Seq(S)
    <2>1. CASE k <= Len(s)
      <3>1. k \in 1 .. Len(s)
        BY <1>7, <2>1
      <3>2. s[k] \in Seq(S)
        BY <3>1, ElementOfSeq
      <3> QED BY <1>6, <2>1, <3>2 DEF PushedAt
    <2>2. CASE ~ (k <= Len(s))
      <3>1. k - Len(s) \in 1 .. n
        BY <1>7, <2>2
      <3> QED BY <1>1, <1>4, <1>6, <2>2, <3>1 DEF PushedAt
    <2> QED BY <2>1, <2>2
  <1> QED BY <1>5, <1>6, <1>7, <1>8

\* A row keeps its cells and gets COLS zeros behind them.
LEMMA FilledRow ==
  ASSUME NEW row \in Seq(Nibble)
  PROVE  /\ FillRow(row) \in Seq(Nibble) /\ Len(FillRow(row)) >= COLS
         /\ \A l \in 1 .. COLS : FillRow(row)[l] = IF l <= Len(row) THEN row[l] ELSE 0
  <1> DEFINE e == [l \in 1 .. COLS |-> 0]
  <1>1. 0 \in Nibble /\ COLS \in Nat
    BY Weights, Sizes DEF Nibble
  <1>2. e \in [1 .. COLS -> Nibble]
    BY <1>1
  <1>3. e \in Seq(Nibble) /\ Len(e) = COLS
    <2> HIDE DEF e
    <2> QED BY <1>1, <1>2, SequenceOf
  <1>4. \A l \in 1 .. COLS : e[l] = 0
    OBVIOUS
  <1>5. FillRow(row) = row \o e
    BY DEF FillRow
  <1> HIDE DEF e
  <1>6. /\ row \o e \in Seq(Nibble) /\ Len(row \o e) = Len(row) + COLS
        /\ \A l \in 1 .. Len(row) + COLS : (row \o e)[l] = IF l <= Len(row) THEN row[l] ELSE e[l - Len(row)]
    BY <1>3, ConcatProperties
  <1>7. Len(row) \in Nat
    BY LenProperties
  <1>8. ASSUME NEW l \in 1 .. COLS
        PROVE  (row \o e)[l] = IF l <= Len(row) THEN row[l] ELSE 0
    <2>1. l \in 1 .. Len(row) + COLS
      BY <1>1, <1>7
    <2>2. ~ (l <= Len(row)) => l - Len(row) \in 1 .. COLS
      BY <1>1, <1>7
    <2> QED BY <1>4, <1>6, <2>1, <2>2
  <1> QED BY <1>1, <1>5, <1>6, <1>7, <1>8

\* A bank gets ROWS more rows; the first ROWS of them are filled.
LEMMA FilledBank ==
  ASSUME NEW bank \in Seq(Seq(Nibble))
  PROVE  /\ FillBank(bank) \in Seq(Seq(Nibble)) /\ Len(FillBank(bank)) >= ROWS
         /\ \A k \in 1 .. ROWS :
              PushedAt(bank, k) \in Seq(Nibble) /\ FillBank(bank)[k] = FillRow(PushedAt(bank, k))
  <1> DEFINE g == Grown(bank, ROWS)
             n == Len(bank) + ROWS
  <1>1. ROWS \in Nat /\ Len(bank) \in Nat /\ n \in Nat /\ n >= ROWS
    BY Sizes, LenProperties
  <1>2. /\ DOMAIN g = 1 .. n
        /\ \A k \in 1 .. n : g[k] = PushedAt(bank, k) /\ PushedAt(bank, k) \in Seq(Nibble)
    BY <1>1, GrownElements
  <1>3. FillBank(bank) = [k \in 1 .. n |-> IF k <= ROWS THEN FillRow(g[k]) ELSE g[k]]
    BY <1>2 DEF FillBank
  <1> HIDE DEF g, n
  <1>4. ASSUME NEW k \in 1 .. n PROVE FillRow(g[k]) \in Seq(Nibble) /\ g[k] \in Seq(Nibble)
    BY <1>2, FilledRow
  <1>5. FillBank(bank) \in [1 .. n -> Seq(Nibble)]
    BY <1>3, <1>4
  <1>6. FillBank(bank) \in Seq(Seq(Nibble)) /\ Len(FillBank(bank)) = n
    BY <1>1, <1>5, SequenceOf
  <1>7. ASSUME NEW k \in 1 .. ROWS
        PROVE  PushedAt(bank, k) \in Seq(Nibble) /\ FillBank(bank)[k] = FillRow(PushedAt(bank, k))
    <2>1. k \in 1 .. n /\ k <= ROWS
      BY <1>1
    <2> QED BY <1>2, <1>3, <2>1
  <1> QED BY <1>1, <1>6, <1>7

\* A chip gets BANKS more banks; the first BANKS of them are filled.
LEMMA FilledChip ==
  ASSUME NEW chip \in Seq(Seq(Seq(Nibble)))
  PROVE  /\ FillChip(chip) \in Seq(Seq(Seq(Nibble))) /\ Len(FillChip(chip)) >= BANKS
         /\ \A j \in 1 .. BANKS :
              PushedAt(chip, j) \in Seq(Seq(Nibble)) /\ FillChip(chip)[j] = FillBank(PushedAt(chip, j))
  <1> DEFINE g == Grown(chip, BANKS)
             n == Len(chip) + BANKS
  <1>1. BANKS \in Nat /\ Len(chip) \in Nat /\ n \in Nat /\ n >= BANKS
    BY Sizes, LenProperties
  <1>2. /\ DOMAIN g = 1 .. n
        /\ \A j \in 1 .. n : g[j] = PushedAt(chip, j) /\ PushedAt(chip, j) \in Seq(Seq(Nibble))
    BY <1>1, GrownElements
  <1>3. FillChip(chip) = [j \in 1 .. n |-> IF j <= BANKS THEN FillBank(g[j]) ELSE g[j]]
    BY <1>2 DEF FillChip
  <1> HIDE DEF g, n
  <1>4. ASSUME NEW j \in 1 .. n PROVE FillBank(g[j]) \in Seq(Seq(Nibble)) /\ g[j] \in Seq(Seq(Nibble))
    BY <1>2, FilledBank
  <1>5. FillChip(chip) \in [1 .. n -> Seq(Seq(Nibble))]
    BY <1>3, <1>4
  <1>6. FillChip(chip) \in Seq(Seq(Seq(Nibble))) /\ Len(FillChip(chip)) = n
    BY <1>1, <1>5, SequenceOf
  <1>7. ASSUME NEW j \in 1 .. BANKS
        PROVE  PushedAt(chip, j) \in Seq(Seq(Nibble)) /\ FillChip(chip)[j] = FillBank(PushedAt(chip, j))
    <2>1. j \in 1 .. n /\ j <= BANKS
      BY <1>1
    <2> QED BY <1>2, <1>3, <2>1
  <1> QED BY <1>1, <1>6, <1>7

\* init_dram pushes CHIPS more chips and fills the first CHIPS.
LEMMA FilledDimm ==
  ASSUME TypeOK, init_dram
  PROVE  /\ dram' \in Seq(Seq(Seq(Seq(Nibble)))) /\ Len(dram') >= CHIPS
         /\ \A i \in 1 .. CHIPS :
              PushedAt(dram, i) \in Seq(Seq(Seq(Nibble))) /\ dram'[i] = FillChip(PushedAt(dram, i))
  <1> DEFINE g == Grown(dram, CHIPS)
             n == Len(dram) + CHIPS
  <1>0. dram \in Seq(Seq(Seq(Seq(Nibble))))
    BY DEF TypeOK
  <1>1. CHIPS \in Nat /\ Len(dram) \in Nat /\ n \in Nat /\ n >= CHIPS
    BY <1>0, LenProperties DEF CHIPS
  <1>2. /\ DOMAIN g = 1 .. n
        /\ \A i \in 1 .. n : g[i] = PushedAt(dram, i) /\ PushedAt(dram, i) \in Seq(Seq(Seq(Nibble)))
    BY <1>0, <1>1, GrownElements
  <1>3. dram' = [i \in 1 .. n |-> IF i <= CHIPS THEN FillChip(g[i]) ELSE g[i]]
    BY <1>2 DEF init_dram
  <1> HIDE DEF g, n
  <1>4. ASSUME NEW i \in 1 .. n PROVE FillChip(g[i]) \in Seq(Seq(Seq(Nibble))) /\ g[i] \in Seq(Seq(Seq(Nibble)))
    BY <1>2, FilledChip
  <1>5. dram' \in [1 .. n -> Seq(Seq(Seq(Nibble)))]
    BY <1>3, <1>4
  <1>6. dram' \in Seq(Seq(Seq(Seq(Nibble)))) /\ Len(dram') = n
    BY <1>1, <1>5, SequenceOf
  <1>7. ASSUME NEW i \in 1 .. CHIPS
        PROVE  PushedAt(dram, i) \in Seq(Seq(Seq(Nibble))) /\ dram'[i] = FillChip(PushedAt(dram, i))
    <2>1. i \in 1 .. n /\ i <= CHIPS
      BY <1>1
    <2> QED BY <1>2, <1>3, <2>1
  <1> QED BY <1>1, <1>6, <1>7

----------------------------------------------------------------------------
(* The cells, step by step                                                 *)

\* The cells an address can select are there and hold nibbles.
LEMMA CellsThere ==
  ASSUME TypeOK, dram # << >>,
         NEW i \in 1 .. CHIPS, NEW j \in 1 .. BANKS, NEW k \in 1 .. ROWS
  PROVE  /\ dram[i] \in Seq(Seq(Seq(Nibble))) /\ j \in 1 .. Len(dram[i])
         /\ dram[i][j] \in Seq(Seq(Nibble)) /\ k \in 1 .. Len(dram[i][j])
         /\ dram[i][j][k] \in Seq(Nibble) /\ COLS <= Len(dram[i][j][k]) /\ Len(dram[i][j][k]) \in Nat
         /\ \A l \in 1 .. COLS : l \in 1 .. Len(dram[i][j][k]) /\ dram[i][j][k][l] \in Nibble
  <1>1. dram \in Seq(Seq(Seq(Seq(Nibble)))) /\ Len(dram) >= CHIPS
    BY DEF TypeOK
  <1>2. i \in 1 .. Len(dram)
    BY <1>1, LenProperties DEF CHIPS
  <1>3. dram[i] \in Seq(Seq(Seq(Nibble))) /\ Len(dram[i]) >= BANKS
    BY <1>1, <1>2, ElementOfSeq DEF TypeOK
  <1>4. j \in 1 .. Len(dram[i])
    BY <1>3, LenProperties, Sizes
  <1>5. dram[i][j] \in Seq(Seq(Nibble)) /\ Len(dram[i][j]) >= ROWS
    BY <1>3, <1>4, ElementOfSeq DEF TypeOK
  <1>6. k \in 1 .. Len(dram[i][j])
    BY <1>5, LenProperties, Sizes
  <1>7. dram[i][j][k] \in Seq(Nibble) /\ Len(dram[i][j][k]) >= COLS
    BY <1>5, <1>6, ElementOfSeq DEF TypeOK
  <1>8. Len(dram[i][j][k]) \in Nat
    BY <1>7, LenProperties
  <1>9. ASSUME NEW l \in 1 .. COLS PROVE l \in 1 .. Len(dram[i][j][k]) /\ dram[i][j][k][l] \in Nibble
    <2>1. l \in 1 .. Len(dram[i][j][k])
      BY <1>7, <1>8, Sizes
    <2> QED BY <1>7, <2>1, ElementOfSeq
  <1>10. COLS <= Len(dram[i][j][k])
    BY <1>7, <1>8, Sizes
  <1> QED BY <1>3, <1>4, <1>5, <1>6, <1>7, <1>8, <1>9, <1>10

\* init_dram gives the cells an address can select the value 0 the first
\* time, and leaves them as they are every other time.
LEMMA InitCells ==
  ASSUME TypeOK, init_dram
  PROVE  /\ TypeOK' /\ dram' # << >>
         /\ \A i \in 1 .. CHIPS, j \in 1 .. BANKS, k \in 1 .. ROWS, l \in 1 .. COLS :
              dram'[i][j][k][l] = IF dram = << >> THEN 0 ELSE dram[i][j][k][l]
  <1>1. /\ dram' \in Seq(Seq(Seq(Seq(Nibble)))) /\ Len(dram') >= CHIPS
        /\ \A i \in 1 .. CHIPS :
             PushedAt(dram, i) \in Seq(Seq(Seq(Nibble))) /\ dram'[i] = FillChip(PushedAt(dram, i))
    BY FilledDimm
  <1>2. dram' # << >>
    BY <1>1, EmptySeq DEF CHIPS
  <1>3. ASSUME NEW i \in 1 .. CHIPS
        PROVE  /\ Len(dram'[i]) >= BANKS
               /\ \A j \in 1 .. BANKS :
                    /\ PushedAt(PushedAt(dram, i), j) \in Seq(Seq(Nibble))
                    /\ dram'[i][j] = FillBank(PushedAt(PushedAt(dram, i), j))
    BY <1>1, <1>3, FilledChip
  <1>4. ASSUME NEW i \in 1 .. CHIPS, NEW j \in 1 .. BANKS
        PROVE  /\ Len(dram'[i][j]) >= ROWS
               /\ \A k \in 1 .. ROWS :
                    /\ PushedAt(PushedAt(PushedAt(dram, i), j), k) \in Seq(Nibble)
                    /\ dram'[i][j][k] = FillRow(PushedAt(PushedAt(PushedAt(dram, i), j), k))
    BY <1>3, <1>4, FilledBank
  <1>5. ASSUME NEW i \in 1 .. CHIPS, NEW j \in 1 .. BANKS, NEW k \in 1 .. ROWS
        PROVE  /\ Len(dram'[i][j][k]) >= COLS
               /\ \A l \in 1 .. COLS :
                    dram'[i][j][k][l] = IF l <= Len(PushedAt(PushedAt(PushedAt(dram, i), j), k))
                                          THEN PushedAt(PushedAt(PushedAt(dram, i), j), k)[l]
                                          ELSE 0
    BY <1>4, <1>5, FilledRow
  <1>6. TypeOK'
    <2>1. data' \in Word
      BY DEF init_dram, TypeOK
    <2> QED BY <1>1, <1>3, <1>4, <1>5, <2>1 DEF TypeOK
  <1>7. ASSUME NEW i \in 1 .. CHIPS, NEW j \in 1 .. BANKS, NEW k \in 1 .. ROWS, NEW l \in 1 .. COLS
        PROVE  dram'[i][j][k][l] = IF dram = << >> THEN 0 ELSE dram[i][j][k][l]
    <2>1. CASE dram = << >>
      <3>0. Len(<< >>) = 0 /\ ~ (i <= 0) /\ ~ (j <= 0) /\ ~ (k <= 0) /\ ~ (l <= 0)
        BY Sizes DEF CHIPS
      <3>1. PushedAt(dram, i) = << >>
        BY <2>1, <3>0 DEF PushedAt
      <3>2. PushedAt(PushedAt(dram, i), j) = << >>
        BY <3>0, <3>1 DEF PushedAt
      <3>3. PushedAt(PushedAt(PushedAt(dram, i), j), k) = << >>
        BY <3>0, <3>2 DEF PushedAt
      <3> QED BY <1>5, <2>1, <3>0, <3>3
    <2>2. CASE dram # << >>
      <3>1. /\ dram \in Seq(Seq(Seq(Seq(Nibble)))) /\ i <= Len(dram)
            /\ j \in 1 .. Len(dram[i]) /\ k \in 1 .. Len(dram[i][j]) /\ l \in 1 .. Len(dram[i][j][k])
        <4>1. dram \in Seq(Seq(Seq(Seq(Nibble)))) /\ Len(dram) >= CHIPS /\ Len(dram) \in Nat
          BY <2>2, LenProperties DEF TypeOK
        <4>2. i <= Len(dram)
          BY <4>1 DEF CHIPS
        <4>3. j \in 1 .. Len(dram[i]) /\ k \in 1 .. Len(dram[i][j]) /\ l \in 1 .. Len(dram[i][j][k])
          BY <2>2, CellsThere
        <4> QED BY <4>1, <4>2, <4>3
      <3>2. PushedAt(dram, i) = dram[i]
        BY <3>1 DEF PushedAt
      <3>3. PushedAt(PushedAt(dram, i), j) = dram[i][j]
        BY <3>1, <3>2 DEF PushedAt
      <3>4. PushedAt(PushedAt(PushedAt(dram, i), j), k) = dram[i][j][k]
        BY <3>1, <3>3 DEF PushedAt
      <3>5. dram'[i][j][k][l] = IF l <= Len(dram[i][j][k]) THEN dram[i][j][k][l] ELSE 0
        BY <1>5, <3>4
      <3>6. l <= Len(dram[i][j][k])
        BY <3>1
      <3> QED BY <2>2, <3>5, <3>6
    <2> QED BY <2>1, <2>2
  <1> QED BY <1>2, <1>6, <1>7

\* Assigning an element keeps the sequence's type, length and other elements.
LEMMA ElementAssigned ==
  ASSUME NEW S, NEW s \in Seq(S), NEW i \in 1 .. Len(s), NEW e \in S, NEW t, t = [s EXCEPT ![i] = e]
  PROVE  t \in Seq(S) /\ Len(t) = Len(s) /\ \A j \in 1 .. Len(s) : t[j] = IF j = i THEN e ELSE s[j]
  BY ExceptSeq

\* new has the shape of chip and differs from it in one cell at most.
OneCell(new, chip, b, r, c, v) ==
  /\ new \in Seq(Seq(Seq(Nibble))) /\ Len(new) = Len(chip)
  /\ \A j \in 1 .. Len(chip) :
       /\ Len(new[j]) = Len(chip[j])
       /\ \A k \in 1 .. Len(chip[j]) :
            /\ Len(new[j][k]) = Len(chip[j][k])
            /\ \A l \in 1 .. Len(chip[j][k]) :
                 new[j][k][l] = IF j = b /\ k = r /\ l = c THEN v ELSE chip[j][k][l]

\* Assigning one cell of a chip keeps its shape and every other cell.
LEMMA ChipAssigned ==
  ASSUME NEW chip \in Seq(Seq(Seq(Nibble))), NEW b \in 1 .. Len(chip),
         NEW r \in 1 .. Len(chip[b]), NEW c \in 1 .. Len(chip[b][r]), NEW v \in Nibble
  PROVE  OneCell([chip EXCEPT ![b][r][c] = v], chip, b, r, c, v)
  <1> DEFINE row  == [chip[b][r] EXCEPT ![c] = v]
             bank == [chip[b] EXCEPT ![r] = row]
             new  == [chip EXCEPT ![b] = bank]
  <1>1. chip[b] \in Seq(Seq(Nibble))
    BY ElementOfSeq
  <1>2. chip[b][r] \in Seq(Nibble)
    BY <1>1, ElementOfSeq
  <1>3. /\ row \in Seq(Nibble) /\ Len(row) = Len(chip[b][r])
        /\ \A l \in 1 .. Len(chip[b][r]) : row[l] = IF l = c THEN v ELSE chip[b][r][l]
    BY <1>2, ExceptSeq
  <1>0. [chip EXCEPT ![b][r][c] = v] = new
    OBVIOUS
  <1> HIDE DEF row
  <1>4. /\ bank \in Seq(Seq(Nibble)) /\ Len(bank) = Len(chip[b])
        /\ \A k \in 1 .. Len(chip[b]) : bank[k] = IF k = r THEN row ELSE chip[b][k]
    BY <1>1, <1>3, ExceptSeq
  <1> HIDE DEF bank
  <1>5. /\ new \in Seq(Seq(Seq(Nibble))) /\ Len(new) = Len(chip)
        /\ \A j \in 1 .. Len(chip) : new[j] = IF j = b THEN bank ELSE chip[j]
    BY <1>4, ElementAssigned
  <1> HIDE DEF new
  <1>6. ASSUME NEW j \in 1 .. Len(chip)
        PROVE  Len(new[j]) = Len(chip[j])
    BY <1>4, <1>5
  <1>7. ASSUME NEW j \in 1 .. Len(chip), NEW k \in 1 .. Len(chip[j])
        PROVE  Len(new[j][k]) = Len(chip[j][k])
    BY <1>3, <1>4, <1>5
  <1>8. ASSUME NEW j \in 1 .. Len(chip), NEW k \in 1 .. Len(chip[j]), NEW l \in 1 .. Len(chip[j][k])
        PROVE  new[j][k][l] = IF j = b /\ k = r /\ l = c THEN v ELSE chip[j][k][l]
    <2>1. CASE j = b /\ k = r
      <3>1. new[j][k] = row
        BY <1>4, <1>5, <2>1
      <3> QED BY <1>3, <2>1, <3>1
    <2>2. CASE ~ (j = b /\ k = r)
      <3>1. new[j][k] = chip[j][k]
        BY <1>4, <1>5, <2>2
      <3> QED BY <2>2, <3>1
    <2> QED BY <2>1, <2>2
  <1> QED BY <1>0, <1>5, <1>6, <1>7, <1>8 DEF OneCell

\* What is shifted out of a word is a nibble.
LEMMA NibbleOfType == ASSUME NEW v \in Word, NEW i \in 0 .. 7 PROVE NibbleOf(v, i) \in Nibble
  <1>1. v \in Int /\ Weight(i) \in Nat \ {0} /\ NIBBLE \in Nat \ {0}
    BY Weights, WordInt
  <1>2. v \div Weight(i) \in Int
    BY <1>1
  <1> QED BY <1>1, <1>2 DEF NibbleOf, Nibble

\* write_dram changes one cell in each of the first chips, and no other.
LEMMA WriteCells ==
  ASSUME TypeOK, NEW a \in Nat, NEW v \in Word, write_dram(a, v)
  PROVE  /\ TypeOK' /\ dram' # << >>
         /\ \A i \in 1 .. CHIPS, j \in 1 .. BANKS, k \in 1 .. ROWS, l \in 1 .. COLS :
              dram'[i][j][k][l] =
                IF j = bank_id(a) + 1 /\ k = row_id(a) + 1 /\ l = col_id(a) + 1
                  THEN NibbleOf(v, i - 1) ELSE dram[i][j][k][l]
  <1> DEFINE b == bank_id(a) + 1
             r == row_id(a) + 1
             c == col_id(a) + 1
  <1>1. b \in 1 .. BANKS /\ r \in 1 .. ROWS /\ c \in 1 .. COLS
    BY CellNumbers
  <1>2. /\ dram # << >>
        /\ dram' = [i \in 1 .. Len(dram) |->
                     IF i <= CHIPS THEN [dram[i] EXCEPT ![b][r][c] = NibbleOf(v, i - 1)] ELSE dram[i]]
    BY DEF write_dram
  <1> HIDE DEF b, r, c
  <1>3. dram \in Seq(Seq(Seq(Seq(Nibble)))) /\ Len(dram) \in Nat /\ Len(dram) >= CHIPS
    BY <1>2, LenProperties DEF TypeOK
  <1>4. \A i \in 1 .. CHIPS : i \in 1 .. Len(dram) /\ i <= CHIPS
    BY <1>3 DEF CHIPS
  <1>5. ASSUME NEW i \in 1 .. CHIPS
        PROVE  /\ dram'[i] \in Seq(Seq(Seq(Nibble))) /\ Len(dram'[i]) = Len(dram[i])
               /\ \A j \in 1 .. Len(dram[i]) :
                    /\ Len(dram'[i][j]) = Len(dram[i][j])
                    /\ \A k \in 1 .. Len(dram[i][j]) :
                         /\ Len(dram'[i][j][k]) = Len(dram[i][j][k])
                         /\ \A l \in 1 .. Len(dram[i][j][k]) :
                              dram'[i][j][k][l] =
                                IF j = b /\ k = r /\ l = c THEN NibbleOf(v, i - 1) ELSE dram[i][j][k][l]
    <2>1. /\ dram[i] \in Seq(Seq(Seq(Nibble))) /\ b \in 1 .. Len(dram[i])
          /\ r \in 1 .. Len(dram[i][b]) /\ c \in 1 .. Len(dram[i][b][r])
      BY <1>1, <1>2, CellsThere
    <2>2. i - 1 \in 0 .. 7
      BY DEF CHIPS
    <2>3. NibbleOf(v, i - 1) \in Nibble
      BY <2>2, NibbleOfType
    <2>4. dram'[i] = [dram[i] EXCEPT ![b][r][c] = NibbleOf(v, i - 1)]
      BY <1>2, <1>4
    <2>5. OneCell([dram[i] EXCEPT ![b][r][c] = NibbleOf(v, i - 1)], dram[i], b, r, c, NibbleOf(v, i - 1))
      BY <2>1, <2>3, ChipAssigned
    <2>6. OneCell(dram'[i], dram[i], b, r, c, NibbleOf(v, i - 1))
      BY <2>4, <2>5
    <2> QED BY <2>6 DEF OneCell
  <1>7. dram' \in Seq(Seq(Seq(Seq(Nibble)))) /\ Len(dram') = Len(dram) /\ dram' # << >>
    <2>1. ASSUME NEW i \in 1 .. Len(dram) PROVE dram'[i] \in Seq(Seq(Seq(Nibble)))
      <3>1. CASE i <= CHIPS
        <4>1. i \in 1 .. CHIPS
          BY <1>3, <3>1 DEF CHIPS
        <4> QED BY <1>5, <4>1
      <3>2. CASE ~ (i <= CHIPS)
        BY <1>2, <1>3, <3>2, ElementOfSeq
      <3> QED BY <3>1, <3>2
    <2>2. dram' \in [1 .. Len(dram) -> Seq(Seq(Seq(Nibble)))]
      BY <1>2, <2>1
    <2>3. dram' \in Seq(Seq(Seq(Seq(Nibble)))) /\ Len(dram') = Len(dram)
      BY <1>3, <2>2, SequenceOf
    <2> QED BY <1>3, <2>3, EmptySeq DEF CHIPS
  <1>8. ASSUME NEW i \in 1 .. CHIPS, NEW j \in 1 .. BANKS, NEW k \in 1 .. ROWS
        PROVE  /\ j \in 1 .. Len(dram[i]) /\ k \in 1 .. Len(dram[i][j])
               /\ \A l \in 1 .. COLS : l \in 1 .. Len(dram[i][j][k])
    BY <1>2, CellsThere
  <1>9. TypeOK'
    <2>1. data' \in Word
      BY DEF write_dram, TypeOK
    <2>2. ASSUME NEW i \in 1 .. CHIPS PROVE Len(dram'[i]) >= BANKS
      BY <1>2, <1>5 DEF TypeOK
    <2>3. ASSUME NEW i \in 1 .. CHIPS, NEW j \in 1 .. BANKS PROVE Len(dram'[i][j]) >= ROWS
      <3>1. 1 \in 1 .. ROWS
        BY Sizes
      <3>2. j \in 1 .. Len(dram[i])
        BY <1>8, <3>1
      <3>3. Len(dram'[i][j]) = Len(dram[i][j])
        BY <1>5, <3>2
      <3> QED BY <1>2, <3>3 DEF TypeOK
    <2>4. ASSUME NEW i \in 1 .. CHIPS, NEW j \in 1 .. BANKS, NEW k \in 1 .. ROWS
          PROVE  Len(dram'[i][j][k]) >= COLS
      <3>1. Len(dram'[i][j][k]) = Len(dram[i][j][k])
        BY <1>5, <1>8
      <3> QED BY <1>2, <3>1 DEF TypeOK
    <2> QED BY <1>3, <1>7, <2>1, <2>2, <2>3, <2>4 DEF TypeOK
  <1>10. ASSUME NEW i \in 1 .. CHIPS, NEW j \in 1 .. BANKS, NEW k \in 1 .. ROWS, NEW l \in 1 .. COLS
         PROVE  dram'[i][j][k][l] =
                  IF j = b /\ k = r /\ l = c THEN NibbleOf(v, i - 1) ELSE dram[i][j][k][l]
    <2>1. j \in 1 .. Len(dram[i]) /\ k \in 1 .. Len(dram[i][j]) /\ l \in 1 .. Len(dram[i][j][k])
      BY <1>8
    <2> QED BY <1>5, <2>1
  <1> QED BY <1>7, <1>9, <1>10 DEF b, r, c

\* The cell of chip i that address a selects.
CellOf(i, a) == dram[i + 1][bank_id(a) + 1][row_id(a) + 1][col_id(a) + 1]

\* Of the four cells a read fetches from a chip, the lowest nibble is the one
\* selected, whatever the neighbours hold.
LEMMA NeighboursLeaveNoTrace ==
  ASSUME TypeOK, dram # << >>, NEW a \in Nat, NEW stray \in 0 .. BYTE - 1, NEW i \in 0 .. 7
  PROVE  /\ BlockData(i, a, stray) \in Int
         /\ BlockData(i, a, stray) % NIBBLE = CellOf(i, a) /\ CellOf(i, a) \in Nibble
  <1> DEFINE row     == Row(i, a)
             Cell(n) == IF n < Len(row) THEN row[n + 1] ELSE stray
             col     == col_id(a)
  <1>1. i + 1 \in 1 .. CHIPS
    BY DEF CHIPS
  <1>2. bank_id(a) + 1 \in 1 .. BANKS /\ row_id(a) + 1 \in 1 .. ROWS /\ col_id(a) + 1 \in 1 .. COLS
    BY CellNumbers
  <1>3. /\ row \in Seq(Nibble) /\ Len(row) \in Nat /\ col_id(a) + 1 \in 1 .. Len(row)
        /\ row[col_id(a) + 1] \in Nibble
    <2>1. row = dram[i + 1][bank_id(a) + 1][row_id(a) + 1]
      BY DEF Row
    <2> QED BY <1>1, <1>2, <2>1, CellsThere
  <1>4. col \in Nat
    BY CellNumbers
  <1>5. row[col + 1] = CellOf(i, a)
    BY DEF CellOf, Row
  <1> HIDE DEF row, col
  <1>6. Cell(col) = CellOf(i, a) /\ Cell(col) \in Nibble
    <2>1. col < Len(row)
      BY <1>3, <1>4 DEF col
    <2> QED BY <1>3, <1>5, <2>1 DEF col
  <1>7. ASSUME NEW n \in Nat PROVE Cell(n) \in Nat
    <2>1. CASE n < Len(row)
      <3>1. n + 1 \in 1 .. Len(row)
        BY <1>3, <2>1
      <3>2. row[n + 1] \in Nibble
        BY <1>3, <3>1, ElementOfSeq
      <3> QED BY <2>1, <3>2, Weights DEF Nibble
    <2>2. CASE ~ (n < Len(row))
      <3>1. stray \in Nat
        BY HalfByte
      <3> QED BY <2>2, <3>1
    <2> QED BY <2>1, <2>2
  <1>8. Cell(col + 1) \in Nat /\ Cell(col + 2) \in Nat /\ Cell(col + 3) \in Nat
    BY <1>4, <1>7
  <1>9. BlockData(i, a, stray) = Cell(col) + Cell(col + 1) * BYTE + Cell(col + 2) * BYTE * BYTE
                                   + Cell(col + 3) * BYTE * BYTE * BYTE
    BY DEF BlockData, row, col
  <1> DEFINE c0 == Cell(col)
             c1 == Cell(col + 1)
             c2 == Cell(col + 2)
             c3 == Cell(col + 3)
             k == c1 * NIBBLE + c2 * BYTE * NIBBLE + c3 * BYTE * BYTE * NIBBLE
  <1>10. c0 \in Nibble /\ c1 \in Nat /\ c2 \in Nat /\ c3 \in Nat
    BY <1>6, <1>8
  <1> HIDE DEF c0, c1, c2, c3, Cell
  <1>11. NIBBLE \in Nat \ {0} /\ BYTE = NIBBLE * NIBBLE /\ BYTE \in Nat
    BY Weights, HalfByte
  <1>12. c0 \in 0 .. NIBBLE - 1 /\ c0 \in Int
    BY <1>10, <1>11 DEF Nibble
  <1>13. k \in Int
    BY <1>10, <1>11
  <1>14. c0 + c1 * BYTE + c2 * BYTE * BYTE + c3 * BYTE * BYTE * BYTE = c0 + NIBBLE * k
    BY <1>10, <1>11, <1>12
  <1> HIDE DEF k
  <1>15. (c0 + NIBBLE * k) % NIBBLE = c0
    <2>1. (c0 + NIBBLE * k) % NIBBLE = c0 % NIBBLE
      BY <1>11, <1>12, <1>13, MultipleAdded
    <2>2. c0 % NIBBLE = c0
      BY <1>11, <1>12, SmallRemainder
    <2> QED BY <2>1, <2>2
  <1>16. c0 + NIBBLE * k \in Int
    BY <1>11, <1>12, <1>13
  <1> QED BY <1>6, <1>9, <1>14, <1>15, <1>16 DEF c0, c1, c2, c3

\* What a read finds is a word, decided by the granule of the address alone.
LEMMA FetchedIsWord ==
  ASSUME TypeOK, dram # << >>, NEW a \in Nat, NEW stray \in 0 .. BYTE - 1
  PROVE  Fetched(a, stray) \in Word /\ Fetched(a, stray) = WordAt(GranuleOf(a))
  <1> DEFINE b == 8 * GranuleOf(a)
             here  == [i \in 0 .. CHIPS - 1 |-> BlockData(i, a, stray)]
             there == [i \in 0 .. CHIPS - 1 |-> BlockData(i, b, 0)]
  <1>1. 0 \in 0 .. BYTE - 1
    BY HalfByte
  <1>2. b \in Nat
    BY CellsOfGranule
  <1>3. ASSUME NEW i \in 0 .. 7
        PROVE  here[i] \in Int /\ here[i] % NIBBLE = CellOf(i, a) /\ there[i] % NIBBLE = CellOf(i, b)
    <2>1. BlockData(i, a, stray) \in Int /\ BlockData(i, a, stray) % NIBBLE = CellOf(i, a)
      BY NeighboursLeaveNoTrace
    <2>2. BlockData(i, b, 0) % NIBBLE = CellOf(i, b)
      BY <1>1, <1>2, NeighboursLeaveNoTrace
    <2>3. here[i] = BlockData(i, a, stray) /\ there[i] = BlockData(i, b, 0)
      BY DEF CHIPS
    <2> QED BY <2>1, <2>2, <2>3
  <1>4. \A i \in 0 .. 7 : CellOf(i, a) = CellOf(i, b)
    BY CellsOfGranule DEF CellOf
  <1>5. Fetched(a, stray) = get_block_data_at_address(here)
    BY DEF Fetched
  <1>6. WordAt(GranuleOf(a)) = get_block_data_at_address(there)
    BY DEF Fetched, WordAt
  <1> HIDE DEF here, there, b
  <1>7. get_block_data_at_address(here) \in Word
    BY <1>3, AssembledType
  <1>8. get_block_data_at_address(here) = get_block_data_at_address(there)
    BY <1>3, <1>4, LowestNibbles
  <1> QED BY <1>5, <1>6, <1>7, <1>8

\* The word of granule g has the nibbles of the cells its first byte selects.
OfCells(g) ==
  /\ 8 * g \in Nat /\ GranuleOf(8 * g) = g
  /\ \E block : /\ WordAt(g) = get_block_data_at_address(block)
                /\ \A i \in 0 .. 7 : block[i] % NIBBLE = CellOf(i, 8 * g)

\* It has in every state, ...
LEMMA WordFromCells == TypeOK /\ dram # << >> => \A g \in Granule : OfCells(g)
  <1> SUFFICES ASSUME TypeOK, dram # << >>, NEW g \in Granule PROVE OfCells(g)
    OBVIOUS
  <1> DEFINE block == [i \in 0 .. CHIPS - 1 |-> BlockData(i, 8 * g, 0)]
  <1>1. 0 \in 0 .. BYTE - 1
    BY HalfByte
  <1>2. g \in 0 .. GRANULES - 1 /\ GRANULES \in Nat \ {0}
    BY GranuleAssumption DEF Granule
  <1>3. 8 * g \in Nat /\ (8 * g) \div 8 = g
    BY <1>2
  <1>4. GranuleOf(8 * g) = g
    BY <1>2, <1>3 DEF GranuleOf
  <1>5. ASSUME NEW i \in 0 .. 7 PROVE block[i] % NIBBLE = CellOf(i, 8 * g)
    <2>1. BlockData(i, 8 * g, 0) % NIBBLE = CellOf(i, 8 * g)
      BY <1>1, <1>3, NeighboursLeaveNoTrace
    <2>2. block[i] = BlockData(i, 8 * g, 0)
      BY DEF CHIPS
    <2> QED BY <2>1, <2>2
  <1>6. WordAt(g) = get_block_data_at_address(block)
    BY DEF WordAt, Fetched
  <1> HIDE DEF block
  <1> QED BY <1>3, <1>4, <1>5, <1>6 DEF OfCells

\* ... the next one included.
LEMMA WordFromNextCells == TypeOK' /\ (dram # << >>)' => \A g \in Granule : OfCells(g)'
  <1>1. (TypeOK /\ dram # << >> => \A g \in Granule : OfCells(g))'
    BY WordFromCells, PTL
  <1> QED BY <1>1

\* Two states with the same cells for a granule have the same word in it.
LEMMA SameCellsSameWord ==
  ASSUME TypeOK, TypeOK', dram # << >>, dram' # << >>, NEW g \in Granule,
         \A i \in 0 .. 7 : CellOf(i, 8 * g)' = CellOf(i, 8 * g)
  PROVE  WordAt(g)' = WordAt(g)
  <1>1. PICK block : /\ WordAt(g) = get_block_data_at_address(block)
                     /\ \A i \in 0 .. 7 : block[i] % NIBBLE = CellOf(i, 8 * g)
    BY WordFromCells DEF OfCells
  <1>2. PICK new : /\ WordAt(g)' = get_block_data_at_address(new)
                   /\ \A i \in 0 .. 7 : new[i] % NIBBLE = CellOf(i, 8 * g)'
    <2>1. OfCells(g)'
      BY WordFromNextCells
    <2> QED BY <2>1 DEF OfCells, get_block_data_at_address
  <1> QED BY <1>1, <1>2, LowestNibbles

----------------------------------------------------------------------------
(* The theorems                                                            *)

\* Addresses and values are words, stray bytes are bytes.
LEMMA Inputs ==
  /\ \A a \in Addresses : a \in Word /\ a \in Nat
  /\ \A v \in Values : v \in Word
  /\ \A b \in Stray : b \in 0 .. BYTE - 1
  BY LayoutAssumption, WordInt

\* A read returns the granule's word, shifted by the low bits of the address.
LEMMA ReadStep ==
  ASSUME TypeOK, NEW a \in Addresses, NEW stray \in Stray, read_dram(a, stray)
  PROVE  TypeOK' /\ dram # << >> /\ data' = ShiftRight(WordAt(GranuleOf(a)), ShiftOf(a))
  <1>1. a \in Nat /\ stray \in 0 .. BYTE - 1 /\ dram # << >>
    BY Inputs DEF read_dram
  <1>2. Fetched(a, stray) \in Word /\ Fetched(a, stray) = WordAt(GranuleOf(a))
    BY <1>1, FetchedIsWord
  <1>3. data' = ShiftRight(Fetched(a, stray), ShiftOf(a)) /\ dram' = dram
    BY DEF read_dram
  <1>4. ShiftOf(a) \in 0 .. BITS
    <2>1. B * (a % 8) \in Int
      BY <1>1, ByteAssumption
    <2>2. (B * (a % 8)) % BITS \in 0 .. BITS - 1
      BY <2>1, WordsPositive
    <2> QED BY <2>2, WordsPositive DEF ShiftOf, ChipId
  <1>5. data' \in Word
    BY <1>2, <1>3, <1>4, ShiftTypes
  <1>6. TypeOK'
    BY <1>3, <1>5 DEF TypeOK
  <1> QED BY <1>1, <1>2, <1>3, <1>6

\* data stays a word; dram stays empty or has a nibble in every cell an
\* address can select, through every call of init_dram.
THEOREM TypeCorrect == Spec => []TypeOK
  <1>1. Init => TypeOK
    BY EmptySeq, WordInt DEF Init, TypeOK
  <1>2. TypeOK /\ [Next]_vars => TypeOK'
    <2> SUFFICES ASSUME TypeOK, [Next]_vars PROVE TypeOK'
      OBVIOUS
    <2>1. CASE init_dram
      BY <2>1, InitCells
    <2>2. ASSUME NEW a \in Addresses, NEW stray \in Stray, read_dram(a, stray) PROVE TypeOK'
      BY <2>2, ReadStep
    <2>3. ASSUME NEW a \in Addresses, NEW v \in Values, write_dram(a, v) PROVE TypeOK'
      BY <2>3, Inputs, WriteCells
    <2>4. CASE UNCHANGED vars
      BY <2>4 DEF vars, TypeOK
    <2> QED BY <2>1, <2>2, <2>3, <2>4 DEF Next
  <1> QED BY <1>1, <1>2, PTL DEF Spec

\* init_dram changes no word: the first call makes them all 0, which is what
\* they count as before, and any other leaves the cells alone.
LEMMA InitStep ==
  ASSUME TypeOK, init_dram
  PROVE  Contents' = Contents /\ data' = data
  <1>1. /\ TypeOK' /\ dram' # << >>
        /\ \A i \in 1 .. CHIPS, j \in 1 .. BANKS, k \in 1 .. ROWS, l \in 1 .. COLS :
             dram'[i][j][k][l] = IF dram = << >> THEN 0 ELSE dram[i][j][k][l]
    BY InitCells
  <1>2. ASSUME NEW g \in Granule
        PROVE  WordAt(g)' = IF dram = << >> THEN 0 ELSE WordAt(g)
    <2>1. OfCells(g)'
      BY <1>1, WordFromNextCells
    <2>2. 8 * g \in Nat
      BY <2>1 DEF OfCells
    <2>3. ASSUME NEW i \in 0 .. 7
          PROVE  CellOf(i, 8 * g)' = IF dram = << >> THEN 0 ELSE CellOf(i, 8 * g)
      <3>1. i + 1 \in 1 .. CHIPS
        BY DEF CHIPS
      <3>2. /\ bank_id(8 * g) + 1 \in 1 .. BANKS /\ row_id(8 * g) + 1 \in 1 .. ROWS
            /\ col_id(8 * g) + 1 \in 1 .. COLS
        BY <2>2, CellNumbers
      <3> QED BY <1>1, <3>1, <3>2 DEF CellOf
    <2>4. CASE dram = << >>
      <3>1. PICK new : /\ WordAt(g)' = get_block_data_at_address(new)
                       /\ \A i \in 0 .. 7 : new[i] % NIBBLE = CellOf(i, 8 * g)'
        BY <2>1 DEF OfCells, get_block_data_at_address
      <3>2. 0 \in Word
        BY WordInt
      <3>3. \A i \in 0 .. 7 : NibbleOf(0, i) = 0
        BY Weights DEF NibbleOf
      <3>4. \A i \in 0 .. 7 : new[i] % NIBBLE = NibbleOf(0, i)
        BY <2>3, <2>4, <3>1, <3>3
      <3> QED BY <2>4, <3>1, <3>2, <3>4, NibblesOfWord
    <2>5. CASE dram # << >>
      BY <1>1, <2>3, <2>5, SameCellsSameWord
    <2> QED BY <2>4, <2>5
  <1> QED BY <1>1, <1>2 DEF Contents, init_dram

\* write_dram replaces the granule's word and no other.
LEMMA WriteStep ==
  ASSUME TypeOK, NEW a \in Addresses, NEW v \in Values, write_dram(a, v)
  PROVE  Contents' = WriteGranule(Contents, a, v) /\ data' = data
  <1>1. a \in Nat /\ v \in Word /\ dram # << >>
    BY Inputs DEF write_dram
  <1>2. /\ TypeOK' /\ dram' # << >>
        /\ \A i \in 1 .. CHIPS, j \in 1 .. BANKS, k \in 1 .. ROWS, l \in 1 .. COLS :
             dram'[i][j][k][l] =
               IF j = bank_id(a) + 1 /\ k = row_id(a) + 1 /\ l = col_id(a) + 1
                 THEN NibbleOf(v, i - 1) ELSE dram[i][j][k][l]
    BY <1>1, WriteCells
  <1>3. ASSUME NEW g \in Granule
        PROVE  WordAt(g)' = IF g = GranuleOf(a) THEN v ELSE WordAt(g)
    <2>1. OfCells(g)' /\ OfCells(g)
      BY <1>1, <1>2, WordFromCells, WordFromNextCells
    <2>2. 8 * g \in Nat /\ GranuleOf(8 * g) = g
      BY <2>1 DEF OfCells
    <2>3. ASSUME NEW i \in 0 .. 7
          PROVE  CellOf(i, 8 * g)' =
                   IF bank_id(8 * g) = bank_id(a) /\ row_id(8 * g) = row_id(a) /\ col_id(8 * g) = col_id(a)
                     THEN NibbleOf(v, i) ELSE CellOf(i, 8 * g)
      <3>1. i + 1 \in 1 .. CHIPS /\ (i + 1) - 1 = i
        BY DEF CHIPS
      <3>2. /\ bank_id(8 * g) + 1 \in 1 .. BANKS /\ row_id(8 * g) + 1 \in 1 .. ROWS
            /\ col_id(8 * g) + 1 \in 1 .. COLS
        BY <2>2, CellNumbers
      <3>3. /\ bank_id(8 * g) \in Int /\ row_id(8 * g) \in Int /\ col_id(8 * g) \in Int
            /\ bank_id(a) \in Int /\ row_id(a) \in Int /\ col_id(a) \in Int
        BY <1>1, <2>2, CellIds
      <3>4. CellOf(i, 8 * g)' =
              IF /\ bank_id(8 * g) + 1 = bank_id(a) + 1 /\ row_id(8 * g) + 1 = row_id(a) + 1
                 /\ col_id(8 * g) + 1 = col_id(a) + 1
                THEN NibbleOf(v, (i + 1) - 1) ELSE CellOf(i, 8 * g)
        BY <1>2, <3>1, <3>2 DEF CellOf
      <3> QED BY <3>1, <3>3, <3>4
    <2>4. CASE g = GranuleOf(a)
      <3>1. PICK new : /\ WordAt(g)' = get_block_data_at_address(new)
                       /\ \A i \in 0 .. 7 : new[i] % NIBBLE = CellOf(i, 8 * g)'
        BY <2>1 DEF OfCells, get_block_data_at_address
      <3>2. bank_id(8 * g) = bank_id(a) /\ row_id(8 * g) = row_id(a) /\ col_id(8 * g) = col_id(a)
        BY <1>1, <2>4, CellsOfGranule
      <3>3. \A i \in 0 .. 7 : new[i] % NIBBLE = NibbleOf(v, i)
        BY <2>3, <3>1, <3>2
      <3> QED BY <1>1, <2>4, <3>1, <3>3, NibblesOfWord
    <2>5. CASE g # GranuleOf(a)
      <3>1. ~ (bank_id(8 * g) = bank_id(a) /\ row_id(8 * g) = row_id(a) /\ col_id(8 * g) = col_id(a))
        BY <1>1, <2>2, <2>5, CellsDiffer
      <3>2. \A i \in 0 .. 7 : CellOf(i, 8 * g)' = CellOf(i, 8 * g)
        BY <2>3, <3>1
      <3> QED BY <1>1, <1>2, <2>5, <3>2, SameCellsSameWord
    <2> QED BY <2>4, <2>5
  <1>4. Contents' = [g \in Granule |-> WordAt(g)'] /\ Contents = [g \in Granule |-> WordAt(g)]
    BY <1>1, <1>2 DEF Contents
  <1> QED BY <1>3, <1>4 DEF WriteGranule, write_dram

\* Every behaviour of the vectors of cells is, read as one word per granule,
\* a behaviour of GranuleMemory: read_dram returns what was written last to
\* the granule, whatever lies beside it, and init_dram is a stutter.
THEOREM CellsImplementGranules == Spec => ImplementsGranuleMemory
  <1>1. Init => Memory!Init
    BY DEF Init, Memory!Init, Contents, Memory!Granule, Granule
  <1>2. TypeOK /\ [Next]_vars => [Memory!Next]_(Memory!vars)
    <2> SUFFICES ASSUME TypeOK, [Next]_vars PROVE [Memory!Next]_(Memory!vars)
      OBVIOUS
    <2>1. CASE init_dram
      BY <2>1, InitStep DEF Memory!vars
    <2>2. ASSUME NEW a \in Addresses, NEW stray \in Stray, read_dram(a, stray)
          PROVE  Memory!Read(a)
      <3>1. GranuleOf(a) \in Granule
        BY Inputs, CellsOfGranule
      <3>2. data' = ShiftRight(WordAt(GranuleOf(a)), ShiftOf(a)) /\ dram # << >>
        BY <2>2, ReadStep
      <3>3. Contents' = Contents
        BY <2>2 DEF read_dram, Contents, WordAt, Fetched, BlockData, Row
      <3>4. Contents[GranuleOf(a)] = WordAt(GranuleOf(a))
        BY <3>1, <3>2 DEF Contents
      <3>5. data' = ReadGranule(Contents, a)
        BY <3>2, <3>4 DEF ReadGranule
      <3> QED BY <3>3, <3>5 DEF Memory!Read, Memory!ReadGranule, ReadGranule, Memory!ShiftRight, ShiftRight,
                              Memory!ShiftOf, ShiftOf, Memory!GranuleOf, GranuleOf, Memory!ChipId, ChipId,
                              Memory!BITS, BITS
    <2>3. ASSUME NEW a \in Addresses, NEW v \in Values, write_dram(a, v)
          PROVE  Memory!Write(a, v)
      BY <2>3, WriteStep DEF Memory!Write, Memory!WriteGranule, WriteGranule, Memory!GranuleOf, GranuleOf
    <2>4. CASE UNCHANGED vars
      BY <2>4 DEF vars, Memory!vars, Contents, WordAt, Fetched, BlockData, Row
    <2> QED BY <2>1, <2>2, <2>3, <2>4 DEF Next, Memory!Next
  <1> QED BY <1>1, <1>2, TypeCorrect, PTL DEF Spec, ImplementsGranuleMemory, Memory!Spec

=============================================================================
