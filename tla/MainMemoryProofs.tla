-------------------------- MODULE MainMemoryProofs --------------------------
(***************************************************************************)
(* The byte blocks of module MainMemory behave, for every layout of        *)
(* regions that begin and end at word boundaries, as a store of words, and *)
(* hold what the program files say.                                        *)
(***************************************************************************)
EXTENDS MainMemory, WordProofs, SequenceTheorems

----------------------------------------------------------------------------
(* Four bytes make a word                                                  *)

\* The place of each byte is the number of values of those below it; a word
\* has a whole number of fours.
LEMMA Places ==
  /\ Place(0) = 1 /\ Place(4) = WORDS /\ BYTE \in Nat \ {0}
  /\ \A k \in 0 .. 4 : Place(k) \in Nat \ {0}
  /\ \A k \in 0 .. 3 : Place(k + 1) = Place(k) * BYTE
  <1>1. B \in Nat \ {0} /\ BITS = B * 4 /\ BITS \in Nat
    BY ByteAssumption DEF BITS
  <1>2. \A k \in 0 .. 4 : B * k \in 0 .. BITS
    BY <1>1
  <1>3. \A k \in 0 .. 4 : Place(k) \in Nat \ {0}
    BY <1>2, PowerAssumption DEF Place
  <1>4. Place(0) = 1
    <2>1. B * 0 = 0 /\ 2 ^ 0 = 1
      BY <1>1, PowerAssumption
    <2> QED BY <2>1 DEF Place
  <1>5. Place(4) = WORDS
    BY <1>1 DEF Place, WORDS
  <1>6. ASSUME NEW k \in 0 .. 3 PROVE Place(k + 1) = Place(k) * BYTE
    <2>1. B * (k + 1) = B * k + B /\ k \in 0 .. 4 /\ k + 1 \in 0 .. 4 /\ B \in 0 .. BITS
      BY <1>1
    <2>2. B * k \in 0 .. BITS /\ B * k + B <= BITS
      <3>1. B * (k + 1) \in 0 .. BITS
        BY <1>2, <2>1
      <3> QED BY <1>1, <1>2, <2>1, <3>1
    <2>3. 2 ^ (B * k + B) = 2 ^ (B * k) * 2 ^ B
      BY <2>1, <2>2, PowerAssumption
    <2> QED BY <2>1, <2>3 DEF Place, BYTE
  <1> QED BY <1>3, <1>4, <1>5, <1>6, HalfByte

\* A word has a whole number of fours.
LEMMA FourDivides == WORDS \div 4 \in Nat \ {0} /\ WORDS = 4 * (WORDS \div 4)
  <1>1. BITS \in Nat /\ 2 \in 0 .. BITS /\ BITS \in 0 .. BITS /\ 1 \in 0 .. BITS /\ 2 <= BITS /\ 1 + 1 = 2
    BY ByteAssumption DEF BITS
  <1>2. 2 ^ (1 + 1) = 2 ^ 1 * 2 ^ 1
    BY <1>1, PowerAssumption
  <1>3. 2 ^ 2 = 4
    <2>1. 2 ^ 1 = 2
      BY PowerAssumption
    <2> QED BY <1>1, <1>2, <2>1
  <1>4. 2 ^ BITS = 2 ^ 2 * 2 ^ (BITS - 2) /\ 2 ^ (BITS - 2) \in Nat \ {0}
    BY <1>1, PowerGrows
  <1> DEFINE q == 2 ^ (BITS - 2)
  <1>5. WORDS = 4 * q /\ q \in Nat \ {0}
    BY <1>3, <1>4 DEF WORDS
  <1> HIDE DEF q
  <1>6. WORDS \div 4 = q
    BY <1>5
  <1> QED BY <1>5, <1>6

\* The bytes mem_write_32 stores make, as mem_read_32 joins them, the word.
LEMMA BytesOfWord ==
  ASSUME NEW v \in Word
  PROVE  /\ \A k \in 0 .. 3 : ByteOf(k, v) \in 0 .. BYTE - 1 /\ ByteOf(k, v) * Place(k) \in Int
         /\ ByteOf(3, v) * Place(3) + ByteOf(2, v) * Place(2) + ByteOf(1, v) * Place(1)
              + ByteOf(0, v) * Place(0) = v
  <1> DEFINE Part(k) == ByteOf(k, v) * Place(k)
  <1>1. ASSUME NEW k \in 0 .. 3
        PROVE  /\ v % Place(k + 1) = (v % Place(k)) + Part(k) /\ Part(k) \in Int /\ v % Place(k) \in Int
               /\ ByteOf(k, v) \in 0 .. BYTE - 1
    <2>1. v \in Int /\ Place(k) \in Nat \ {0} /\ BYTE \in Nat \ {0}
      BY Places, WordInt
    <2>2. v % (Place(k) * BYTE) = (v % Place(k)) + Place(k) * ((v \div Place(k)) % BYTE)
      BY <2>1, TwoDigits
    <2>3. (v \div Place(k)) % BYTE \in 0 .. BYTE - 1
      BY <2>1
    <2>4. Part(k) = Place(k) * ((v \div Place(k)) % BYTE) /\ Part(k) \in Int
      BY <2>1, <2>3 DEF ByteOf
    <2>5. Place(k + 1) = Place(k) * BYTE
      BY Places
    <2> QED BY <2>1, <2>2, <2>3, <2>4, <2>5 DEF ByteOf
  <1>2. v % Place(0) = 0 /\ v % Place(4) = v
    <2>1. v \in 0 .. WORDS - 1 /\ WORDS \in Nat \ {0}
      BY WordsPositive DEF Word
    <2>2. Place(0) = 1 /\ Place(4) = WORDS
      BY Places
    <2>3. v % 1 = 0 /\ v % WORDS = v
      BY <2>1
    <2> QED BY <2>2, <2>3
  <1> HIDE DEF Part
  <1>3. v % Place(1) = Part(0) /\ v % Place(2) = (v % Place(1)) + Part(1)
    <2>1. v % Place(0 + 1) = (v % Place(0)) + Part(0) /\ Part(0) \in Int
      BY <1>1
    <2>2. v % Place(1 + 1) = (v % Place(1)) + Part(1)
      BY <1>1
    <2> QED BY <1>2, <2>1, <2>2
  <1>4. v % Place(3) = (v % Place(2)) + Part(2) /\ v % Place(4) = (v % Place(3)) + Part(3)
    <2>1. v % Place(2 + 1) = (v % Place(2)) + Part(2)
      BY <1>1
    <2>2. v % Place(3 + 1) = (v % Place(3)) + Part(3)
      BY <1>1
    <2> QED BY <2>1, <2>2
  <1>5. /\ Part(0) \in Int /\ Part(1) \in Int /\ Part(2) \in Int /\ Part(3) \in Int
        /\ v = Part(3) + Part(2) + Part(1) + Part(0)
    BY <1>1, <1>2, <1>3, <1>4
  <1> QED BY <1>1, <1>5 DEF Part

----------------------------------------------------------------------------
(* Word boundaries and regions                                             *)

\* The aligned addresses are the words divisible by 4.
LEMMA AlignedIs == \A a : a \in Aligned <=> a \in Word /\ a % 4 = 0
  <1> DEFINE q == WORDS \div 4
  <1>1. q \in Nat \ {0} /\ WORDS = 4 * q
    BY FourDivides
  <1>2. Aligned = {4 * k : k \in 0 .. q - 1} /\ Word = 0 .. WORDS - 1
    BY DEF Aligned, Word
  <1> HIDE DEF q
  <1>3. ASSUME NEW a \in Aligned PROVE a \in Word /\ a % 4 = 0
    BY <1>1, <1>2
  <1>4. ASSUME NEW a \in Word, a % 4 = 0 PROVE a \in Aligned
    <2>1. a \div 4 \in 0 .. q - 1 /\ a = 4 * (a \div 4)
      BY <1>1, <1>2, <1>4
    <2> QED BY <1>2, <2>1
  <1> QED BY <1>3, <1>4

\* A sum divisible by 4, cut to a word, is an aligned address.
LEMMA WrapsAligned == ASSUME NEW v \in Int, v % 4 = 0 PROVE U32(v) \in Aligned
  <1> DEFINE q == WORDS \div 4
  <1>1. q \in Nat \ {0} /\ WORDS = 4 * q
    BY FourDivides
  <1> HIDE DEF q
  <1>2. 4 \in Nat \ {0}
    OBVIOUS
  <1>3. (v % (4 * q)) % 4 = v % 4
    BY <1>1, <1>2, RemainderOfRemainder
  <1>4. U32(v) % 4 = 0
    BY <1>1, <1>3 DEF U32
  <1> QED BY <1>4, U32Type, AlignedIs

\* The bounds of a region.
LEMMA RegionFacts ==
  ASSUME NEW r \in RegionIndex
  PROVE  /\ MEM_REGIONS[r].start \in Nat /\ MEM_REGIONS[r].size \in Nat /\ End(r) \in Nat
         /\ End(r) = MEM_REGIONS[r].start + MEM_REGIONS[r].size
         /\ MEM_REGIONS[r].start % 4 = 0 /\ End(r) % 4 = 0 /\ End(r) <= WORDS
         /\ r \in Nat
  <1>1. MEM_REGIONS \in Seq([start : Word, size : Word])
    BY RegionAssumption
  <1>2. r \in 1 .. Len(MEM_REGIONS) /\ r \in Nat
    BY <1>1, LenProperties DEF RegionIndex
  <1>3. MEM_REGIONS[r] \in [start : Word, size : Word]
    BY <1>1, <1>2, ElementOfSeq
  <1>4. MEM_REGIONS[r].start \in Nat /\ MEM_REGIONS[r].size \in Nat
    BY <1>3, WordInt
  <1>5. MEM_REGIONS[r].start % 4 = 0 /\ MEM_REGIONS[r].size % 4 = 0 /\ End(r) <= WORDS
    BY RegionAssumption
  <1>6. End(r) % 4 = 0
    BY <1>4, <1>5 DEF End
  <1> QED BY <1>2, <1>4, <1>5, <1>6 DEF End

\* The region that holds an address is the only one; the word at an aligned
\* address lies in it to its last byte.
LEMMA RegionIsUnique ==
  ASSUME NEW a \in Word, Holding(a) # {}
  PROVE  /\ RegionOf(a) \in RegionIndex /\ Holding(a) = {RegionOf(a)} /\ Holds(RegionOf(a), a)
         /\ Offset(a) \in 0 .. MEM_REGIONS[RegionOf(a)].size - 1
         /\ a % 4 = 0 => Offset(a) % 4 = 0 /\ Offset(a) + 3 \in 0 .. MEM_REGIONS[RegionOf(a)].size - 1
  <1>0. a \in Nat
    BY WordInt
  <1>1. PICK r \in RegionIndex : Holds(r, a)
    BY DEF Holding
  <1>2. /\ MEM_REGIONS[r].start \in Nat /\ MEM_REGIONS[r].size \in Nat /\ End(r) \in Nat
        /\ End(r) = MEM_REGIONS[r].start + MEM_REGIONS[r].size
        /\ MEM_REGIONS[r].start % 4 = 0 /\ End(r) % 4 = 0 /\ r \in Nat
    BY RegionFacts
  <1>3. ASSUME NEW s \in RegionIndex, Holds(s, a) PROVE s = r
    <2> SUFFICES ASSUME s # r PROVE FALSE
      OBVIOUS
    <2>1. End(r) <= MEM_REGIONS[s].start \/ End(s) <= MEM_REGIONS[r].start
      BY RegionAssumption
    <2>2. MEM_REGIONS[s].start \in Nat /\ End(s) \in Nat
      BY RegionFacts
    <2> QED BY <1>0, <1>1, <1>2, <1>3, <2>1, <2>2 DEF Holds
  <1>4. Holding(a) = {r}
    BY <1>1, <1>3 DEF Holding
  <1>5. RegionOf(a) = r
    BY <1>2, <1>4 DEF RegionOf, Min
  <1>6. MEM_REGIONS[r].start <= a /\ a < End(r)
    BY <1>1 DEF Holds
  <1>7. Offset(a) = a - MEM_REGIONS[r].start
    BY <1>5 DEF Offset
  <1>8. Offset(a) \in 0 .. MEM_REGIONS[r].size - 1
    BY <1>0, <1>2, <1>6, <1>7
  <1>9. a % 4 = 0 => Offset(a) % 4 = 0 /\ Offset(a) + 3 \in 0 .. MEM_REGIONS[r].size - 1
    BY <1>0, <1>2, <1>6, <1>7
  <1> QED BY <1>1, <1>4, <1>5, <1>8, <1>9

\* An access at a word boundary stays inside the block it begins in.
LEMMA AlignedInside ==
  ASSUME NEW a \in Aligned, NEW r \in Holding(a) PROVE a + 3 < End(r)
  <1>1. a \in Nat /\ a % 4 = 0
    BY AlignedIs, WordInt
  <1>2. r \in RegionIndex /\ MEM_REGIONS[r].start <= a /\ a < End(r)
    BY DEF Holding, Holds
  <1>3. End(r) \in Nat /\ End(r) % 4 = 0
    BY <1>2, RegionFacts
  <1> QED BY <1>1, <1>2, <1>3

----------------------------------------------------------------------------
(* Types                                                                   *)

\* What the program files and the terminal may hand over.
LEMMA InputTypes ==
  ASSUME NEW line \in CommandLines, NEW n \in 0 .. Len(line) - 1, line[n + 1] # Missing
  PROVE  /\ line[n + 1] \in Seq(Word \cup {Unmatched}) /\ Len(line[n + 1]) \in Nat
         /\ MEM_TEXT_START + 4 * Len(line[n + 1]) <= WORDS
         /\ \A m \in 1 .. Len(line[n + 1]) :
              line[n + 1][m] \in Scanned /\ line[n + 1][m] \in Word \cup {Unmatched}
  <1> DEFINE file == line[n + 1]
  <1>1. line \in Seq({Missing} \cup Seq(Word \cup {Unmatched})) /\ Len(line) \in Nat
    BY InputAssumption, LenProperties
  <1>2. n + 1 \in 1 .. Len(line) /\ n + 1 \in DOMAIN line
    BY <1>1, LenProperties
  <1>3. file \in Seq(Word \cup {Unmatched})
    BY <1>1, <1>2, ElementOfSeq
  <1>4. file \in ToSet(line) \ {Missing}
    BY <1>2 DEF ToSet
  <1>5. MEM_TEXT_START + 4 * Len(file) <= WORDS
    BY <1>4, InputAssumption
  <1> HIDE DEF file
  <1>6. Len(file) \in Nat /\ DOMAIN file = 1 .. Len(file)
    BY <1>3, LenProperties
  <1>7. ASSUME NEW m \in 1 .. Len(file) PROVE file[m] \in Scanned /\ file[m] \in Word \cup {Unmatched}
    <2>1. file[m] \in Word \cup {Unmatched}
      BY <1>3, ElementOfSeq
    <2>2. file[m] \in ToSet(file)
      BY <1>6 DEF ToSet
    <2>3. file \in UNION {ToSet(l) \ {Missing} : l \in CommandLines}
      BY <1>4
    <2> QED BY <2>1, <2>2, <2>3 DEF Scanned
  <1> QED BY <1>3, <1>5, <1>6, <1>7 DEF file

\* Only words are written.
LEMMA WrittenAreWords == Written \subseteq Word
  <1>1. ASSUME NEW v \in Scanned \ {Unmatched} PROVE v \in Word
    <2>1. PICK file \in UNION {ToSet(line) \ {Missing} : line \in CommandLines} : v \in ToSet(file)
      BY DEF Scanned
    <2>2. PICK line \in CommandLines : file \in ToSet(line) \ {Missing}
      BY <2>1
    <2>3. line \in Seq({Missing} \cup Seq(Word \cup {Unmatched}))
      BY InputAssumption
    <2>4. PICK n \in DOMAIN line : file = line[n]
      BY <2>2 DEF ToSet
    <2>5. n \in 1 .. Len(line)
      BY <2>3, <2>4, LenProperties
    <2>6. file \in Seq(Word \cup {Unmatched})
      BY <2>2, <2>3, <2>4, <2>5, ElementOfSeq
    <2>7. PICK m \in DOMAIN file : v = file[m]
      BY <2>1 DEF ToSet
    <2>8. m \in 1 .. Len(file)
      BY <2>6, <2>7, LenProperties
    <2> QED BY <2>6, <2>7, <2>8, ElementOfSeq
  <1> QED BY <1>1, InputAssumption DEF Written

\* Blocks of bytes, one per region.
BlocksOK ==
  /\ DOMAIN mem = RegionIndex
  /\ \A r \in RegionIndex : mem[r] \in [0 .. MEM_REGIONS[r].size - 1 -> 0 .. BYTE - 1]

\* Fresh blocks hold bytes.
LEMMA ZeroedBlocks == ASSUME mem' = Zeroed PROVE BlocksOK'
  <1>1. 0 \in 0 .. BYTE - 1
    BY HalfByte
  <1> QED BY <1>1 DEF BlocksOK, Zeroed

\* What the write of a word leaves in the blocks.
LEMMA WriteBlocks ==
  ASSUME BlocksOK, NEW a \in Word, NEW v \in Word, mem_write_32(a, v)
  PROVE  /\ BlocksOK'
         /\ Holding(a) = {} => mem' = mem
         /\ Holding(a) # {} =>
              \A r \in RegionIndex : \A offset \in 0 .. MEM_REGIONS[r].size - 1 :
                mem'[r][offset] = IF r = RegionOf(a) /\ offset - Offset(a) \in 0 .. 3
                                    THEN ByteOf(offset - Offset(a), v) ELSE mem[r][offset]
  <1>1. CASE Holding(a) = {}
    <2>1. mem' = mem
      BY <1>1 DEF mem_write_32
    <2> QED BY <1>1, <2>1 DEF BlocksOK
  <1>2. CASE Holding(a) # {}
    <2> DEFINE q == RegionOf(a)
               block == [offset \in DOMAIN mem[q] |->
                           IF offset - Offset(a) \in 0 .. 3 THEN ByteOf(offset - Offset(a), v) ELSE mem[q][offset]]
    <2>1. q \in RegionIndex
      BY <1>2, RegionIsUnique
    <2>2. mem' = [mem EXCEPT ![q] = block]
      BY <1>2 DEF mem_write_32
    <2>3. DOMAIN mem[q] = 0 .. MEM_REGIONS[q].size - 1
      BY <2>1 DEF BlocksOK
    <2>4. block \in [0 .. MEM_REGIONS[q].size - 1 -> 0 .. BYTE - 1]
      <3>1. ASSUME NEW offset \in 0 .. MEM_REGIONS[q].size - 1
            PROVE  (IF offset - Offset(a) \in 0 .. 3 THEN ByteOf(offset - Offset(a), v) ELSE mem[q][offset])
                     \in 0 .. BYTE - 1
        <4>1. CASE offset - Offset(a) \in 0 .. 3
          BY <4>1, BytesOfWord
        <4>2. CASE ~ (offset - Offset(a) \in 0 .. 3)
          BY <2>1, <4>2 DEF BlocksOK
        <4> QED BY <4>1, <4>2
      <3> QED BY <2>3, <3>1
    <2>5. \A offset \in 0 .. MEM_REGIONS[q].size - 1 :
            block[offset] = IF offset - Offset(a) \in 0 .. 3 THEN ByteOf(offset - Offset(a), v) ELSE mem[q][offset]
      BY <2>3
    <2> HIDE DEF q, block
    <2>6. /\ DOMAIN mem' = RegionIndex
          /\ \A r \in RegionIndex : mem'[r] = IF r = q THEN block ELSE mem[r]
      BY <2>1, <2>2 DEF BlocksOK
    <2>7. BlocksOK'
      BY <2>4, <2>6 DEF BlocksOK
    <2>8. ASSUME NEW r \in RegionIndex, NEW offset \in 0 .. MEM_REGIONS[r].size - 1
          PROVE  mem'[r][offset] = IF r = q /\ offset - Offset(a) \in 0 .. 3
                                     THEN ByteOf(offset - Offset(a), v) ELSE mem[r][offset]
      BY <2>5, <2>6
    <2> QED BY <1>2, <2>7, <2>8 DEF q
  <1> QED BY <1>1, <1>2

\* One round of the loader's loop: what it writes, and where.
LEMMA ReadWord ==
  ASSUME TypeOK, read_word
  PROVE  /\ doing = "load" /\ i \in 0 .. Len(files) - 1 /\ files[i + 1] # Missing /\ files \in CommandLines
         /\ scanned + 1 \in 1 .. Len(files[i + 1])
         /\ U32(MEM_TEXT_START + ii) \in Aligned /\ ii' \in Aligned /\ word' \in Written
         /\ mem_write_32(U32(MEM_TEXT_START + ii), word')
         /\ scanned' = IF files[i + 1][scanned + 1] = Unmatched THEN scanned ELSE scanned + 1
  <1>1. /\ doing = "load" /\ i \in 0 .. Len(files) /\ i < Len(files) /\ files[i + 1] # Missing
        /\ files \in CommandLines /\ scanned \in Nat /\ scanned < Len(files[i + 1])
        /\ word \in Written /\ ii \in Aligned
    BY DEF TypeOK, read_word
  <1>2. i \in 0 .. Len(files) - 1
    <2>1. files \in Seq({Missing} \cup Seq(Word \cup {Unmatched}))
      BY <1>1, InputAssumption
    <2>2. Len(files) \in Nat
      BY <2>1, LenProperties
    <2> QED BY <1>1, <2>2
  <1>3. Len(files[i + 1]) \in Nat
    BY <1>1, <1>2, InputTypes
  <1>4. scanned + 1 \in 1 .. Len(files[i + 1])
    BY <1>1, <1>3
  <1>5. files[i + 1][scanned + 1] \in Scanned
    BY <1>1, <1>2, <1>4, InputTypes
  <1>6. word' \in Written
    BY <1>1, <1>5 DEF read_word, Written
  <1>7. ii \in Nat /\ ii % 4 = 0 /\ MEM_TEXT_START \in Nat /\ MEM_TEXT_START % 4 = 0
    BY <1>1, AlignedIs, WordInt, RegionAssumption
  <1>8. (MEM_TEXT_START + ii) % 4 = 0 /\ (ii + 4) % 4 = 0 /\ MEM_TEXT_START + ii \in Int /\ ii + 4 \in Int
    BY <1>7
  <1>9. U32(MEM_TEXT_START + ii) \in Aligned /\ U32(ii + 4) \in Aligned
    BY <1>8, WrapsAligned
  <1> QED BY <1>1, <1>2, <1>4, <1>6, <1>9 DEF read_word, NextWord

\* Boundaries, types and the place of the loader are kept by every step.
THEOREM TypeCorrect == Spec => []TypeOK
  <1>0. 0 \in Aligned /\ 0 \in Word
    BY WordInt, AlignedIs
  <1>1. Init => TypeOK
    <2> SUFFICES ASSUME Init PROVE TypeOK
      OBVIOUS
    <2>1. BlocksOK
      <3>1. 0 \in 0 .. BYTE - 1
        BY HalfByte
      <3> QED BY <3>1 DEF BlocksOK, Zeroed, Init
    <2>2. files \in CommandLines /\ i \in 0 .. Len(files)
      <3>1. files \in Seq({Missing} \cup Seq(Word \cup {Unmatched})) /\ files \in CommandLines
        BY InputAssumption DEF Init
      <3> QED BY <3>1, LenProperties DEF Init
    <2>3. dram \in [Granule -> Word]
      BY <1>0 DEF Init
    <2> QED BY <1>0, <2>1, <2>2, <2>3 DEF Init, TypeOK, BlocksOK
  <1>2. TypeOK /\ [Next]_vars => TypeOK'
    <2> SUFFICES ASSUME TypeOK, [Next]_vars PROVE TypeOK'
      OBVIOUS
    <2>0. Len(files) \in Nat /\ BlocksOK
      <3>1. files \in Seq({Missing} \cup Seq(Word \cup {Unmatched}))
        BY InputAssumption DEF TypeOK
      <3> QED BY <3>1, LenProperties DEF TypeOK, BlocksOK
    <2>1. CASE load_program
      <3>1. i + 1 \in 1 .. Len(files) /\ files[i + 1] # Missing /\ i \in 0 .. Len(files) - 1
        BY <2>0, <2>1 DEF TypeOK, load_program
      <3>2. 0 <= Len(files[i + 1])
        BY <3>1, InputTypes DEF TypeOK
      <3> QED BY <1>0, <2>1, <3>1, <3>2 DEF TypeOK, load_program, dump, Written
    <2>2. CASE exit
      BY <2>2 DEF TypeOK, exit, loader, dump
    <2>3. CASE read_word
      <3>1. /\ doing = "load" /\ i \in 0 .. Len(files) - 1 /\ files[i + 1] # Missing /\ files \in CommandLines
            /\ scanned + 1 \in 1 .. Len(files[i + 1])
            /\ U32(MEM_TEXT_START + ii) \in Aligned /\ ii' \in Aligned /\ word' \in Written
            /\ mem_write_32(U32(MEM_TEXT_START + ii), word')
            /\ scanned' = IF files[i + 1][scanned + 1] = Unmatched THEN scanned ELSE scanned + 1
        BY <2>3, ReadWord
      <3>2. BlocksOK'
        BY <2>0, <3>1, AlignedIs, WrittenAreWords, WriteBlocks
      <3>3. scanned' \in Nat /\ scanned' <= Len(files[i + 1])
        <4>1. Len(files[i + 1]) \in Nat /\ scanned \in Nat
          BY <3>1, InputTypes DEF TypeOK
        <4> QED BY <3>1, <4>1
      <3> QED BY <2>3, <3>1, <3>2, <3>3 DEF TypeOK, BlocksOK, read_word, dump
    <2>4. CASE end_of_file
      <3>1. i + 1 \in 0 .. Len(files)
        BY <2>0, <2>4 DEF TypeOK, end_of_file
      <3> QED BY <2>4, <3>1 DEF TypeOK, end_of_file, dump
    <2>5. CASE initialized
      BY <2>5 DEF TypeOK, initialized, loader, dump
    <2>6. CASE dump_word
      <3>1. address + 4 \in Int
        BY WordSums DEF TypeOK
      <3>2. address' \in Word
        BY <2>6, <3>1, U32Type DEF dump_word, NextWord
      <3> QED BY <2>6, <3>2 DEF TypeOK, dump_word, loader
    <2>7. CASE dump_again
      BY <2>7 DEF TypeOK, dump_again, loader
    <2>8. CASE dump_end
      BY <1>0, <2>8 DEF TypeOK, dump_end, loader
    <2>9. CASE Exited
      BY <2>9 DEF TypeOK, Exited, vars, loader, dump
    <2>10. ASSUME NEW line \in CommandLines, initialize(line) PROVE TypeOK'
      <3>1. BlocksOK'
        BY <2>10, ZeroedBlocks DEF initialize, init_memory
      <3>2. 0 \in 0 .. Len(line)
        <4>1. line \in Seq({Missing} \cup Seq(Word \cup {Unmatched}))
          BY InputAssumption
        <4> QED BY <4>1, LenProperties
      <3> QED BY <2>10, <3>1, <3>2 DEF TypeOK, BlocksOK, initialize, dump
    <2>11. ASSUME NEW d \in Dumps, mdump(d[1], d[2]) PROVE TypeOK'
      <3>1. d[1] \in Word /\ d[2] \in Word
        BY InputAssumption
      <3> QED BY <2>11, <3>1 DEF TypeOK, mdump, loader
    <2>12. ASSUME NEW s \in SWs, store_data_to_memory(s[1], s[2]) PROVE TypeOK'
      <3>1. s[2] \in Word
        BY InputAssumption
      <3>2. dram' \in [Granule -> Word]
        BY <2>12, <3>1 DEF store_data_to_memory, WriteGranule, TypeOK
      <3> QED BY <2>12, <3>2 DEF TypeOK, store_data_to_memory, loader, dump
    <2>13. CASE UNCHANGED vars
      BY <2>13 DEF TypeOK, vars, loader, dump
    <2> QED BY <2>1, <2>2, <2>3, <2>4, <2>5, <2>6, <2>7, <2>8, <2>9, <2>10, <2>11, <2>12, <2>13
            DEF Next, Running
  <1> QED BY <1>1, <1>2, PTL DEF Spec

\* mdump goes in steps of a word, also where its address wraps around.
InStep == doing = "mdump" => address % 4 = start % 4

\* Neither the loader, whatever the files, nor mdump from a low divisible by
\* 4 ever goes behind the block that holds the first of its four bytes.
THEOREM LoaderAndDumpStayInside == Spec => []LoaderAndDumpInside
  <1>1. Init => InStep
    BY DEF Init, InStep
  <1>2. TypeOK /\ InStep /\ [Next]_vars => InStep'
    <2> SUFFICES ASSUME TypeOK, InStep, [Next]_vars PROVE InStep'
      OBVIOUS
    <2>1. CASE dump_word
      <3>1. address \in Int
        BY WordInt DEF TypeOK
      <3>2. ((address + 4) % WORDS) % 4 = (address + 4) % 4
        <4> DEFINE q == WORDS \div 4
        <4>1. q \in Nat \ {0} /\ WORDS = 4 * q
          BY FourDivides
        <4> HIDE DEF q
        <4>2. address + 4 \in Int /\ 4 \in Nat \ {0}
          BY <3>1
        <4>3. ((address + 4) % (4 * q)) % 4 = (address + 4) % 4
          BY <4>1, <4>2, RemainderOfRemainder
        <4> QED BY <4>1, <4>3
      <3>3. (address + 4) % 4 = address % 4
        BY <3>1
      <3>4. address' = (address + 4) % WORDS /\ doing = "mdump" /\ start' = start
        BY <2>1 DEF dump_word, NextWord, U32
      <3> QED BY <3>2, <3>3, <3>4 DEF InStep
    <2>2. CASE load_program \/ exit \/ read_word \/ end_of_file \/ initialized
      BY <2>2 DEF InStep, load_program, exit, read_word, end_of_file, initialized
    <2>3. CASE dump_again \/ dump_end
      BY <2>3 DEF InStep, dump_again, dump_end
    <2>4. CASE Exited \/ UNCHANGED vars
      BY <2>4 DEF InStep, Exited, vars, dump
    <2>5. ASSUME NEW line \in CommandLines, initialize(line) PROVE InStep'
      BY <2>5 DEF InStep, initialize
    <2>6. ASSUME NEW d \in Dumps, mdump(d[1], d[2]) PROVE InStep'
      BY <2>6 DEF InStep, mdump
    <2>7. ASSUME NEW s \in SWs, store_data_to_memory(s[1], s[2]) PROVE InStep'
      BY <2>7 DEF InStep, store_data_to_memory
    <2> QED BY <2>1, <2>2, <2>3, <2>4, <2>5, <2>6, <2>7 DEF Next, Running
  <1>3. TypeOK /\ InStep => LoaderAndDumpInside
    <2> SUFFICES ASSUME TypeOK, InStep PROVE LoaderAndDumpInside
      OBVIOUS
    <2>1. ASSUME NEW a \in Aligned PROVE ~ Behind(a)
      <3>1. ASSUME NEW r \in Holding(a) PROVE ~ (a + 3 >= End(r))
        <4>1. a + 3 < End(r) /\ r \in RegionIndex
          BY AlignedInside DEF Holding
        <4>2. a \in Int
          <5>1. a \in Word
            BY AlignedIs
          <5> QED BY <5>1, WordIsInt
        <4>3. End(r) \in Int
          BY <4>1, RegionFacts
        <4> QED BY <4>1, <4>2, <4>3
      <3> QED BY <3>1 DEF Behind
    <2>2. U32(MEM_TEXT_START + ii) \in Aligned
      <3>1. ii \in Nat /\ ii % 4 = 0 /\ MEM_TEXT_START \in Nat /\ MEM_TEXT_START % 4 = 0
        BY AlignedIs, WordInt, RegionAssumption DEF TypeOK
      <3>2. (MEM_TEXT_START + ii) % 4 = 0 /\ MEM_TEXT_START + ii \in Int
        BY <3>1
      <3> QED BY <3>2, WrapsAligned
    <2>3. doing = "mdump" /\ start % 4 = 0 => address \in Aligned
      BY AlignedIs DEF TypeOK, InStep
    <2> QED BY <2>1, <2>2, <2>3 DEF LoaderAndDumpInside
  <1> QED BY <1>1, <1>2, <1>3, TypeCorrect, PTL DEF Spec

----------------------------------------------------------------------------
(* One word for every aligned address                                      *)

\* What mem_read_32 joins at a word boundary lies in one block.
LEMMA WordAtIs ==
  ASSUME NEW a \in Aligned, Holding(a) # {}
  PROVE  LET r == RegionOf(a)
             o == Offset(a)
         IN /\ WordAt(a) = mem[r][o + 3] * Place(3) + mem[r][o + 2] * Place(2)
                            + mem[r][o + 1] * Place(1) + mem[r][o + 0] * Place(0)
            /\ WordAt(a)' = mem'[r][o + 3] * Place(3) + mem'[r][o + 2] * Place(2)
                             + mem'[r][o + 1] * Place(1) + mem'[r][o + 0] * Place(0)
  <1> DEFINE e == End(RegionOf(a))
  <1>1. a \in Int /\ e \in Int /\ a + 3 < e
    <2>1. a \in Word
      BY AlignedIs
    <2>2. RegionOf(a) \in RegionIndex /\ RegionOf(a) \in Holding(a)
      BY <2>1, RegionIsUnique
    <2>3. a + 3 < e
      BY <2>2, AlignedInside
    <2>4. a \in Int
      BY <2>1, WordIsInt
    <2>5. e \in Int
      BY <2>2, RegionFacts
    <2> QED BY <2>3, <2>4, <2>5
  <1> HIDE DEF e
  <1>2. ~ (a + 0 - e + 1 > 0) /\ ~ (a + 1 - e + 1 > 0) /\ ~ (a + 2 - e + 1 > 0) /\ ~ (a + 3 - e + 1 > 0)
    BY <1>1
  <1> QED BY <1>2 DEF WordAt, mem_read_32, e

\* A write at a word boundary changes the word there, if it lies in a
\* region, and no other.
LEMMA WriteIsOneWord ==
  ASSUME BlocksOK, NEW a \in Aligned, NEW v \in Word, mem_write_32(a, v), NEW b \in Aligned
  PROVE  WordAt(b)' = IF b = a /\ Holding(a) # {} THEN v ELSE WordAt(b)
  <1> DEFINE r == RegionOf(b)
             o == Offset(b)
             q == RegionOf(a)
             p == Offset(a)
  <1>1. a \in Word /\ a \in Nat /\ a % 4 = 0 /\ b \in Word /\ b \in Nat /\ b % 4 = 0
    BY AlignedIs, WordInt
  <1>2. /\ Holding(a) = {} => mem' = mem
        /\ Holding(a) # {} =>
             \A s \in RegionIndex : \A offset \in 0 .. MEM_REGIONS[s].size - 1 :
               mem'[s][offset] = IF s = q /\ offset - p \in 0 .. 3
                                   THEN ByteOf(offset - p, v) ELSE mem[s][offset]
    BY <1>1, WriteBlocks
  <1>3. CASE Holding(b) = {}
    BY <1>3 DEF WordAt, mem_read_32
  <1>4. CASE Holding(b) # {} /\ Holding(a) = {}
    BY <1>2, <1>4 DEF WordAt, mem_read_32
  <1>5. CASE Holding(b) # {} /\ Holding(a) # {}
    <2>1. /\ r \in RegionIndex /\ o \in 0 .. MEM_REGIONS[r].size - 1 /\ o % 4 = 0
          /\ o + 3 \in 0 .. MEM_REGIONS[r].size - 1 /\ o = b - MEM_REGIONS[r].start
      BY <1>1, <1>5, RegionIsUnique DEF Offset
    <2>2. /\ q \in RegionIndex /\ p \in 0 .. MEM_REGIONS[q].size - 1 /\ p % 4 = 0
          /\ p = a - MEM_REGIONS[q].start
      BY <1>1, <1>5, RegionIsUnique DEF Offset
    <2>3. MEM_REGIONS[r].start \in Nat /\ MEM_REGIONS[r].size \in Nat /\ MEM_REGIONS[q].size \in Nat
      BY <2>1, <2>2, RegionFacts
    <2>4. /\ WordAt(b) = mem[r][o + 3] * Place(3) + mem[r][o + 2] * Place(2)
                                 + mem[r][o + 1] * Place(1) + mem[r][o + 0] * Place(0)
          /\ WordAt(b)' = mem'[r][o + 3] * Place(3) + mem'[r][o + 2] * Place(2)
                                  + mem'[r][o + 1] * Place(1) + mem'[r][o + 0] * Place(0)
      BY <1>5, WordAtIs
    <2> HIDE DEF r, o, q, p
    <2>5. \A k \in 0 .. 3 : o + k \in 0 .. MEM_REGIONS[r].size - 1
      BY <2>1, <2>3
    <2>6. \A k \in 0 .. 3 : mem'[r][o + k] = IF r = q /\ (o + k) - p \in 0 .. 3
                                              THEN ByteOf((o + k) - p, v) ELSE mem[r][o + k]
      BY <1>2, <1>5, <2>1, <2>5
    <2>7. CASE b = a
      <3>1. r = q /\ o = p
        BY <2>7 DEF r, q, o, p
      <3>2. \A k \in 0 .. 3 : (o + k) - p = k
        BY <2>1, <2>3, <3>1
      <3>3. \A k \in 0 .. 3 : mem'[r][o + k] = ByteOf(k, v)
        BY <2>6, <3>1, <3>2
      <3>4. WordAt(b)' = ByteOf(3, v) * Place(3) + ByteOf(2, v) * Place(2)
                                + ByteOf(1, v) * Place(1) + ByteOf(0, v) * Place(0)
        BY <2>4, <3>3
      <3> QED BY <1>5, <2>7, <3>4, BytesOfWord
    <2>8. CASE b # a
      <3>1. r = q => \A k \in 0 .. 3 : ~ ((o + k) - p \in 0 .. 3)
        <4> SUFFICES ASSUME r = q PROVE \A k \in 0 .. 3 : ~ ((o + k) - p \in 0 .. 3)
          OBVIOUS
        <4>1. o # p /\ o \in Int /\ p \in Int
          BY <1>1, <2>1, <2>2, <2>3, <2>8
        <4>2. o - p >= 4 \/ o - p <= -4
          BY <2>1, <2>2, <4>1
        <4> QED BY <4>1, <4>2
      <3>2. \A k \in 0 .. 3 : mem'[r][o + k] = mem[r][o + k]
        BY <2>6, <3>1
      <3>3. WordAt(b)' = WordAt(b)
        BY <2>4, <3>2
      <3> QED BY <2>8, <3>3
    <2> QED BY <2>7, <2>8
  <1> QED BY <1>3, <1>4, <1>5

\* Fresh blocks read 0 everywhere, ...
LEMMA ZeroedReadsZero == mem = Zeroed => \A a \in Aligned : WordAt(a) = 0
  <1> SUFFICES ASSUME mem = Zeroed, NEW a \in Aligned PROVE WordAt(a) = 0
    OBVIOUS
  <1>1. CASE Holding(a) = {}
    BY <1>1 DEF WordAt, mem_read_32
  <1>2. CASE Holding(a) # {}
    <2> DEFINE r == RegionOf(a)
               o == Offset(a)
    <2>1. a \in Word /\ a % 4 = 0
      BY AlignedIs
    <2>2. /\ r \in RegionIndex /\ o \in 0 .. MEM_REGIONS[r].size - 1
          /\ o + 3 \in 0 .. MEM_REGIONS[r].size - 1 /\ MEM_REGIONS[r].size \in Nat
      BY <1>2, <2>1, RegionIsUnique, RegionFacts
    <2>3. WordAt(a) = mem[r][o + 3] * Place(3) + mem[r][o + 2] * Place(2)
                             + mem[r][o + 1] * Place(1) + mem[r][o + 0] * Place(0)
      BY <1>2, WordAtIs
    <2> HIDE DEF r, o
    <2>4. \A k \in 0 .. 3 : o + k \in 0 .. MEM_REGIONS[r].size - 1
      BY <2>2
    <2>5. \A k \in 0 .. 3 : mem[r][o + k] = 0
      BY <2>2, <2>4 DEF Zeroed
    <2>6. Place(0) \in Int /\ Place(1) \in Int /\ Place(2) \in Int /\ Place(3) \in Int
      BY Places
    <2> QED BY <2>3, <2>5, <2>6
  <1> QED BY <1>1, <1>2

\* ... in the next state too.
LEMMA ZeroedNextReadsZero == mem' = Zeroed => \A a \in Aligned : WordAt(a)' = 0
  <1>1. (mem = Zeroed => \A a \in Aligned : WordAt(a) = 0)'
    BY ZeroedReadsZero, PTL
  <1> QED BY <1>1 DEF Zeroed

\* Steps that leave the blocks alone leave every word alone.
LEMMA SameBlocksSameWords == ASSUME mem' = mem, NEW a PROVE WordAt(a)' = WordAt(a)
  BY DEF WordAt, mem_read_32

\* The steps that touch the blocks are a second initialize and the loader's.
LEMMA BlockSteps ==
  ASSUME [Next]_vars
  PROVE  (\E line \in CommandLines : initialize(line)) \/ read_word \/ mem' = mem
  BY DEF Next, Running, vars, load_program, exit, end_of_file, initialized, dump_word, dump_again, dump_end,
         Exited, mdump, store_data_to_memory

\* Every behaviour of the byte blocks is, read at the word boundaries, a
\* behaviour of WordStore: a write changes one word, a write outside all
\* regions none, and initialize clears them all.
THEOREM BlocksImplementWords == Spec => ImplementsWordStore
  <1>1. Init => Store_!Init
    <2> SUFFICES ASSUME Init PROVE Store_!Init
      OBVIOUS
    <2>1. \A a \in Aligned : WordAt(a) = 0
      BY ZeroedReadsZero DEF Init
    <2> QED BY <2>1 DEF Store_!Init, Mapped
  <1>2. TypeOK /\ [Next]_vars => [Store_!Next]_([a \in Mapped |-> WordAt(a)])
    <2> SUFFICES ASSUME TypeOK, [Next]_vars PROVE [Store_!Next]_([a \in Mapped |-> WordAt(a)])
      OBVIOUS
    <2> DEFINE store == [a \in Mapped |-> WordAt(a)]
    <2>0. Mapped \subseteq Aligned
      BY DEF Mapped
    <2>1. ASSUME NEW line \in CommandLines, initialize(line) PROVE Store_!Clear
      <3>1. \A a \in Aligned : WordAt(a)' = 0
        BY <2>1, ZeroedNextReadsZero DEF initialize, init_memory
      <3> QED BY <2>0, <3>1 DEF Store_!Clear
    <2>2. CASE read_word
      <3> DEFINE a == U32(MEM_TEXT_START + ii)
                 v == word'
      <3>1. a \in Aligned /\ v \in Written /\ v \in Word /\ mem_write_32(a, v) /\ BlocksOK
        BY <2>2, ReadWord, WrittenAreWords DEF TypeOK, BlocksOK
      <3> HIDE DEF a, v
      <3>2. \A b \in Aligned : WordAt(b)' = IF b = a /\ Holding(a) # {} THEN v ELSE WordAt(b)
        BY <3>1, WriteIsOneWord
      <3>3. CASE Holding(a) = {}
        BY <2>0, <3>2, <3>3
      <3>4. CASE Holding(a) # {}
        <4>1. a \in Mapped
          BY <3>1, <3>4 DEF Mapped
        <4>2. store' = [store EXCEPT ![a] = v]
          BY <2>0, <3>2, <3>4, <4>1
        <4>3. Store_!Write(a, v)
          BY <4>2 DEF Store_!Write
        <4> QED BY <3>1, <4>1, <4>3 DEF Store_!Next
      <3> QED BY <3>3, <3>4
    <2>3. CASE mem' = mem
      BY <2>3, SameBlocksSameWords
    <2> QED BY <2>1, <2>2, <2>3, BlockSteps DEF Store_!Next
  <1> QED BY <1>1, <1>2, TypeCorrect, PTL DEF Spec, ImplementsWordStore, Store_!Spec

----------------------------------------------------------------------------
(* The bytes at any address                                                *)

\* The bytes of a word that was joined from four bytes are these.
LEMMA BytesOfSum ==
  ASSUME NEW b0 \in 0 .. BYTE - 1, NEW b1 \in 0 .. BYTE - 1, NEW b2 \in 0 .. BYTE - 1,
         NEW b3 \in 0 .. BYTE - 1
  PROVE  LET v == b3 * Place(3) + b2 * Place(2) + b1 * Place(1) + b0 * Place(0)
         IN ByteOf(0, v) = b0 /\ ByteOf(1, v) = b1 /\ ByteOf(2, v) = b2 /\ ByteOf(3, v) = b3
  <1> DEFINE v  == b3 * Place(3) + b2 * Place(2) + b1 * Place(1) + b0 * Place(0)
             w2 == b2 + BYTE * b3
             w1 == b1 + BYTE * w2
             w0 == b0 + BYTE * w1
  <1>1. BYTE \in Nat \ {0} /\ b0 \in Int /\ b1 \in Int /\ b2 \in Int /\ b3 \in Int
    BY HalfByte
  <1>2. Place(0) = 1 /\ Place(1) = BYTE /\ Place(2) = BYTE * BYTE /\ Place(3) = (BYTE * BYTE) * BYTE
    <2>1. Place(0) = 1 /\ Place(0 + 1) = Place(0) * BYTE /\ Place(1 + 1) = Place(1) * BYTE
          /\ Place(2 + 1) = Place(2) * BYTE
      BY Places
    <2>2. 0 + 1 = 1 /\ 1 + 1 = 2 /\ 2 + 1 = 3
      OBVIOUS
    <2> QED BY <1>1, <2>1, <2>2
  <1>3. w2 \in Int /\ w1 \in Int /\ w0 \in Int
    <2>1. ASSUME NEW x \in Int, NEW y \in Int PROVE x + BYTE * y \in Int
      BY <1>1
    <2>2. w2 \in Int
      BY <1>1, <2>1
    <2> HIDE DEF w2
    <2>3. w1 \in Int
      BY <1>1, <2>1, <2>2
    <2> HIDE DEF w1
    <2>4. w0 \in Int
      BY <1>1, <2>1, <2>3
    <2> QED BY <2>2, <2>3, <2>4
  <1>4. v = w0
    BY <1>1, <1>2
  <1>5. ASSUME NEW x \in 0 .. BYTE - 1, NEW y \in Int
        PROVE  (x + BYTE * y) % BYTE = x /\ (x + BYTE * y) \div BYTE = y
    <2>1. x % BYTE = x /\ x \div BYTE = 0 /\ x \in Int
      BY <1>1, <1>5, SmallRemainder
    <2>2. (x + BYTE * y) % BYTE = x % BYTE /\ (x + BYTE * y) \div BYTE = (x \div BYTE) + y
      BY <1>1, <1>5, <2>1, MultipleAdded
    <2> QED BY <1>5, <2>1, <2>2
  <1>6. w2 % BYTE = b2 /\ w2 \div BYTE = b3
    BY <1>1, <1>5
  <1> HIDE DEF w2
  <1>7. w1 % BYTE = b1 /\ w1 \div BYTE = w2
    BY <1>3, <1>5
  <1> HIDE DEF w1
  <1>8. w0 % BYTE = b0 /\ w0 \div BYTE = w1
    BY <1>3, <1>5
  <1> HIDE DEF w0
  <1>9. w0 \div 1 = w0 /\ b3 % BYTE = b3
    BY <1>1, <1>3, SmallRemainder
  <1>10. w0 \div (BYTE * BYTE) = w2
    <2>1. w0 \div (BYTE * BYTE) = (w0 \div BYTE) \div BYTE
      BY <1>1, <1>3, DividedTwice
    <2> QED BY <1>7, <1>8, <2>1
  <1>11. w0 \div ((BYTE * BYTE) * BYTE) = b3
    <2> DEFINE n == BYTE * BYTE
    <2>1. n \in Nat \ {0}
      BY <1>1
    <2>2. w0 \div n = w2
      BY <1>10
    <2> HIDE DEF n
    <2>3. w0 \div (n * BYTE) = (w0 \div n) \div BYTE
      BY <1>1, <1>3, <2>1, DividedTwice
    <2>4. w0 \div (n * BYTE) = b3
      BY <1>6, <2>2, <2>3
    <2> QED BY <2>4 DEF n
  <1> HIDE DEF v
  <1>12. ByteOf(0, v) = b0 /\ ByteOf(1, v) = b1 /\ ByteOf(2, v) = b2 /\ ByteOf(3, v) = b3
    BY <1>2, <1>4, <1>6, <1>7, <1>8, <1>9, <1>10, <1>11 DEF ByteOf
  <1> QED BY <1>12 DEF v

\* What mem_read_32 returns at any address of a region has the bytes of the
\* block, as far as the block goes.
LEMMA BytesRead ==
  ASSUME BlocksOK, NEW a \in Word, Holding(a) # {}, NEW stray \in [1 .. 3 -> 0 .. BYTE - 1],
         NEW k \in 0 .. 3, a + k < End(RegionOf(a))
  PROVE  ByteOf(k, mem_read_32(a, stray)) = mem[RegionOf(a)][Offset(a) + k]
  <1> DEFINE r == RegionOf(a)
             n == MEM_REGIONS[r].size
             behind(l) == a + l - End(r) + 1
             byte(l) == IF behind(l) > 0 THEN stray[behind(l)] ELSE mem[r][Offset(a) + l]
  <1>1. r \in RegionIndex /\ Holds(r, a) /\ Offset(a) \in 0 .. n - 1 /\ Offset(a) = a - MEM_REGIONS[r].start
    BY RegionIsUnique DEF Offset
  <1>2. /\ End(r) \in Int /\ MEM_REGIONS[r].start \in Int /\ n \in Int /\ a \in Int
        /\ End(r) = MEM_REGIONS[r].start + n /\ a < End(r)
    <2>1. a \in Int
      BY WordIsInt
    <2> QED BY <1>1, <2>1, RegionFacts DEF Holds
  <1>3. mem_read_32(a, stray) = byte(3) * Place(3) + byte(2) * Place(2) + byte(1) * Place(1) + byte(0) * Place(0)
    BY DEF mem_read_32
  <1>4. ASSUME NEW l \in 0 .. 3 PROVE byte(l) \in 0 .. BYTE - 1
    <2>1. CASE behind(l) > 0
      <3>1. behind(l) \in 1 .. 3
        BY <1>2, <2>1
      <3>2. stray[behind(l)] \in 0 .. BYTE - 1
        BY <3>1
      <3> QED BY <2>1, <3>2
    <2>2. CASE ~ (behind(l) > 0)
      <3>1. Offset(a) + l \in 0 .. n - 1
        BY <1>1, <1>2, <2>2
      <3>2. mem[r][Offset(a) + l] \in 0 .. BYTE - 1
        BY <1>1, <3>1 DEF BlocksOK
      <3> QED BY <2>2, <3>2
    <2> QED BY <2>1, <2>2
  <1>5. ~ (behind(k) > 0)
    BY <1>2
  <1>6. byte(k) = mem[r][Offset(a) + k]
    BY <1>5
  <1> HIDE DEF byte, behind
  <1>7. byte(0) \in 0 .. BYTE - 1 /\ byte(1) \in 0 .. BYTE - 1 /\ byte(2) \in 0 .. BYTE - 1 /\ byte(3) \in 0 .. BYTE - 1
    BY <1>4
  <1> DEFINE w == mem_read_32(a, stray)
  <1>8. ByteOf(0, w) = byte(0) /\ ByteOf(1, w) = byte(1) /\ ByteOf(2, w) = byte(2) /\ ByteOf(3, w) = byte(3)
    BY <1>3, <1>7, BytesOfSum
  <1> HIDE DEF w
  <1>9. ByteOf(k, w) = byte(k)
    BY <1>8
  <1> QED BY <1>6, <1>9 DEF w, r

\* Read at any address, a byte of a region is the byte that the word around
\* it has.
LEMMA BytesOfNeighbours ==
  ASSUME BlocksOK, NEW p \in Word, NEW r \in Holding(p), NEW stray \in [1 .. 3 -> 0 .. BYTE - 1],
         NEW k \in 0 .. 3, p + k < End(r)
  PROVE  LET j == (p + k) % 4
             a == (p + k) - j
         IN a \in Aligned /\ ByteOf(k, mem_read_32(p, stray)) = ByteOf(j, WordAt(a))
  <1> DEFINE j == (p + k) % 4
             a == (p + k) - j
             none == [n \in 1 .. 3 |-> 0]
  <1>1. /\ r \in RegionIndex /\ Holds(r, p) /\ p \in Int
        /\ MEM_REGIONS[r].start \in Nat /\ End(r) \in Nat /\ End(r) <= WORDS
        /\ MEM_REGIONS[r].start % 4 = 0 /\ End(r) % 4 = 0 /\ WORDS \in Nat
    <2>1. r \in RegionIndex /\ Holds(r, p)
      BY DEF Holding
    <2>2. p \in Int
      BY WordIsInt
    <2> QED BY <2>1, <2>2, RegionFacts, WordsPositive
  <1>2. MEM_REGIONS[r].start <= p /\ p < End(r)
    BY <1>1 DEF Holds
  <1>3. RegionOf(p) = r
    <2>1. Holding(p) = {RegionOf(p)}
      BY RegionIsUnique
    <2> QED BY <2>1
  <1>4. j \in 0 .. 3 /\ a \in Int /\ a % 4 = 0 /\ a + j = p + k
    <2> DEFINE n == p + k
    <2>1. n \in Int
      BY <1>1
    <2> HIDE DEF n
    <2>2. n % 4 \in 0 .. 3 /\ n - (n % 4) \in Int /\ (n - (n % 4)) % 4 = 0 /\ (n - (n % 4)) + (n % 4) = n
      BY <2>1
    <2> QED BY <2>2 DEF n
  <1> HIDE DEF j, a
  <1>5. MEM_REGIONS[r].start <= a /\ a < End(r) /\ a + j < End(r)
    <2> DEFINE s == MEM_REGIONS[r].start
    <2>1. s \in Nat /\ s % 4 = 0 /\ s <= p /\ p \in Int
      BY <1>1, <1>2
    <2> HIDE DEF s
    <2>2. s = 4 * (s \div 4) /\ a = 4 * (a \div 4) /\ a + 3 >= s /\ s \div 4 \in Int /\ a \div 4 \in Int
      BY <1>4, <2>1
    <2>3. s <= a
      BY <1>4, <2>1, <2>2
    <2>4. a + j < End(r)
      BY <1>4
    <2>5. a < End(r)
      BY <1>1, <1>4, <2>4
    <2> QED BY <2>3, <2>4, <2>5 DEF s
  <1>6. a \in Word /\ a \in Aligned
    <2>1. a \in Word
      <3>1. a >= 0 /\ a <= WORDS - 1
        BY <1>1, <1>4, <1>5
      <3> QED BY <1>1, <1>4, <3>1 DEF Word
    <2>2. a \in Aligned
      BY <1>4, <2>1, AlignedIs
    <2> QED BY <2>1, <2>2
  <1>7. r \in Holding(a)
    BY <1>1, <1>5 DEF Holding, Holds
  <1>8. RegionOf(a) = r
    <2>1. Holding(a) = {RegionOf(a)}
      BY <1>6, <1>7, RegionIsUnique
    <2> QED BY <1>7, <2>1
  <1>9. Offset(a) + j = Offset(p) + k
    BY <1>1, <1>3, <1>4, <1>8 DEF Offset
  <1>10. none \in [1 .. 3 -> 0 .. BYTE - 1]
    <2>1. 0 \in 0 .. BYTE - 1
      BY HalfByte
    <2> QED BY <2>1
  <1>11. ByteOf(j, mem_read_32(a, none)) = mem[r][Offset(a) + j]
    <2> HIDE DEF none
    <2> QED BY <1>4, <1>5, <1>6, <1>7, <1>8, <1>10, BytesRead
  <1>12. ByteOf(k, mem_read_32(p, stray)) = mem[r][Offset(p) + k]
    BY <1>3, BytesRead
  <1>13. ByteOf(k, mem_read_32(p, stray)) = ByteOf(j, WordAt(a))
    BY <1>9, <1>11, <1>12 DEF WordAt
  <1> QED BY <1>6, <1>13 DEF a, j

----------------------------------------------------------------------------
(* The words of the program files                                          *)

\* Which of the first k files reach address a, and the word they leave there.
ReachingOf(k, a) == {n \in 1 .. k : a >= MEM_TEXT_START /\ a < MEM_TEXT_START + 4 * Len(files[n])}
Index(a) == (a - MEM_TEXT_START) \div 4 + 1
FromFirst(k, a) ==
  IF ReachingOf(k, a) = {} \/ Holding(a) = {} THEN 0
  ELSE files[Max(ReachingOf(k, a))][Index(a)]

\* A file has been loaded up to its scanned-th token: it lies over the i files before.
InPart(a) == doing = "load" /\ Holding(a) # {} /\ a >= MEM_TEXT_START /\ a < MEM_TEXT_START + 4 * scanned
SoFar(a)  == IF InPart(a) THEN files[i + 1][Index(a)] ELSE FromFirst(i, a)

\* The loader is at a token that is no number, which it never leaves.
Stuck == doing = "load" /\ scanned < Len(files[i + 1]) /\ files[i + 1][scanned + 1] = Unmatched

\* The inductive invariant: unless the loader is stuck, memory holds what was
\* scanned, file over file, and the loader is at the word behind.
Contents == \A a \in Aligned : WordAt(a) = SoFar(a)
Loaded ==
  /\ doing \in {"prompt", "mdump"} => i = Len(files)
  /\ \A n \in 1 .. i : files[n] # Missing
  /\ doing = "exited" \/ Stuck \/ ((doing = "load" => ii = U32(4 * scanned)) /\ Contents)

\* One file more: where it reaches, its word decides; elsewhere nothing changes.
LEMMA OneFileMore ==
  ASSUME NEW k \in Nat, NEW a
  PROVE  FromFirst(k + 1, a) =
           IF a >= MEM_TEXT_START /\ a < MEM_TEXT_START + 4 * Len(files[k + 1]) /\ Holding(a) # {}
             THEN files[k + 1][Index(a)] ELSE FromFirst(k, a)
  <1> DEFINE In(n) == a >= MEM_TEXT_START /\ a < MEM_TEXT_START + 4 * Len(files[n])
  <1>1. 1 .. k + 1 = (1 .. k) \cup {k + 1}
    OBVIOUS
  <1>2. ReachingOf(k, a) = {n \in 1 .. k : In(n)} /\ ReachingOf(k + 1, a) = {n \in 1 .. k + 1 : In(n)}
    BY DEF ReachingOf
  <1>3. In(k + 1) <=> a >= MEM_TEXT_START /\ a < MEM_TEXT_START + 4 * Len(files[k + 1])
    OBVIOUS
  <1> HIDE DEF In
  <1>4. CASE In(k + 1)
    <2> DEFINE S == ReachingOf(k + 1, a)
    <2>1. k + 1 \in S /\ \A n \in S : n \in Nat /\ k + 1 >= n
      BY <1>2, <1>4
    <2> HIDE DEF S
    <2>2. Max(S) \in S /\ \A n \in S : Max(S) >= n
      BY <2>1 DEF Max
    <2>3. Max(S) = k + 1
      BY <2>1, <2>2
    <2>4. ReachingOf(k + 1, a) # {} /\ Max(ReachingOf(k + 1, a)) = k + 1
      BY <2>1, <2>3 DEF S
    <2>5. CASE Holding(a) = {}
      BY <2>5 DEF FromFirst
    <2>6. CASE Holding(a) # {}
      BY <1>3, <1>4, <2>4, <2>6 DEF FromFirst
    <2> QED BY <2>5, <2>6
  <1>5. CASE ~ In(k + 1)
    <2>1. ReachingOf(k + 1, a) = ReachingOf(k, a)
      BY <1>1, <1>2, <1>5
    <2> QED BY <1>3, <1>5, <2>1 DEF FromFirst
  <1> QED BY <1>4, <1>5

\* No file reaches anything, and all files reach what the property says.
LEMMA NoFile == \A a : FromFirst(0, a) = 0
  BY DEF FromFirst, ReachingOf

LEMMA AllFiles == files \in CommandLines => \A a : FromFirst(Len(files), a) = FromFiles(a)
  <1> SUFFICES ASSUME files \in CommandLines, NEW a PROVE FromFirst(Len(files), a) = FromFiles(a)
    OBVIOUS
  <1>1. files \in Seq({Missing} \cup Seq(Word \cup {Unmatched}))
    BY InputAssumption
  <1>2. DOMAIN files = 1 .. Len(files)
    BY <1>1, LenProperties
  <1>3. ReachingOf(Len(files), a) = Reaching(a)
    BY <1>2 DEF ReachingOf, Reaching
  <1> QED BY <1>3 DEF FromFirst, FromFiles, Index

\* A round that scans a number puts it behind the words before it.
LEMMA ScansNumber ==
  ASSUME TypeOK, read_word, ii = U32(4 * scanned), Contents, ~ Stuck
  PROVE  Contents' /\ ii' = U32(4 * scanned')
  <1> DEFINE file == files[i + 1]
             at   == MEM_TEXT_START + 4 * scanned
  <1>1. /\ doing = "load" /\ i \in 0 .. Len(files) - 1 /\ file # Missing /\ files \in CommandLines
        /\ scanned + 1 \in 1 .. Len(file) /\ word' \in Written
        /\ mem_write_32(U32(MEM_TEXT_START + ii), word')
    BY ReadWord
  <1>2. /\ Len(file) \in Nat /\ MEM_TEXT_START + 4 * Len(file) <= WORDS
        /\ scanned \in Nat /\ scanned < Len(file)
    BY <1>1, InputTypes DEF TypeOK
  <1>3. MEM_TEXT_START \in Nat /\ MEM_TEXT_START % 4 = 0 /\ WORDS \in Nat \ {0}
    BY RegionAssumption, WordInt, WordsPositive
  <1>4. file[scanned + 1] # Unmatched
    BY <1>1, <1>2 DEF Stuck
  <1>5. /\ word' = file[scanned + 1] /\ scanned' = scanned + 1
        /\ doing' = doing /\ files' = files /\ i' = i /\ ii' = U32(ii + 4)
    BY <1>4 DEF read_word, NextWord
  <1> HIDE DEF file
  <1>6. at \in Word /\ at % 4 = 0 /\ at \in Nat /\ 4 * scanned \in Word
    BY <1>2, <1>3 DEF Word
  <1>7. ii = 4 * scanned
    BY <1>6, U32Word
  <1>8. U32(MEM_TEXT_START + ii) = at
    BY <1>6, <1>7, U32Word
  <1>9. ii' = U32(4 * scanned')
    <2>1. ii + 4 = 4 * (scanned + 1)
      BY <1>2, <1>7
    <2> QED BY <1>5, <2>1
  <1>10. at \in Aligned /\ word' \in Word /\ BlocksOK
    BY <1>1, <1>6, AlignedIs, WrittenAreWords DEF TypeOK, BlocksOK
  <1>11. ASSUME NEW a \in Aligned PROVE WordAt(a)' = SoFar(a)'
    <2>1. a \in Nat /\ a % 4 = 0
      BY AlignedIs, WordInt
    <2>2. WordAt(a)' = IF a = at /\ Holding(at) # {} THEN word' ELSE WordAt(a)
      BY <1>1, <1>8, <1>10, WriteIsOneWord
    <2>3. WordAt(a) = SoFar(a)
      BY DEF Contents
    <2>4. SoFar(a) = IF Holding(a) # {} /\ a >= MEM_TEXT_START /\ a < at
                       THEN file[Index(a)] ELSE FromFirst(i, a)
      BY <1>1 DEF SoFar, InPart, file
    <2>5. SoFar(a)' = IF Holding(a) # {} /\ a >= MEM_TEXT_START /\ a < MEM_TEXT_START + 4 * (scanned + 1)
                        THEN file[Index(a)] ELSE FromFirst(i, a)
      BY <1>1, <1>5 DEF SoFar, InPart, file, FromFirst, ReachingOf
    <2>6. a >= MEM_TEXT_START /\ a < MEM_TEXT_START + 4 * (scanned + 1)
            <=> (a >= MEM_TEXT_START /\ a < at) \/ a = at
      BY <1>2, <1>3, <2>1
    <2>7. Index(at) = scanned + 1 /\ ~ (at < at)
      <3>1. at - MEM_TEXT_START = 4 * scanned
        BY <1>2, <1>3
      <3>2. (4 * scanned) \div 4 = scanned
        BY <1>2
      <3> QED BY <1>6, <3>1, <3>2 DEF Index
    <2> HIDE DEF at
    <2>8. CASE a = at
      BY <1>5, <2>2, <2>3, <2>4, <2>5, <2>6, <2>7, <2>8
    <2>9. CASE a # at
      BY <2>2, <2>3, <2>4, <2>5, <2>6, <2>9
    <2> QED BY <2>8, <2>9
  <1> QED BY <1>9, <1>11 DEF Contents

\* The end of a file makes its words those of one file more.
LEMMA EndsFile ==
  ASSUME TypeOK, end_of_file, Contents
  PROVE  Contents'
  <1>1. /\ doing = "load" /\ doing' = "initialize" /\ i' = i + 1 /\ files' = files /\ mem' = mem
        /\ scanned = Len(files[i + 1]) /\ i \in Nat
    BY DEF end_of_file, TypeOK
  <1>2. ASSUME NEW a \in Aligned PROVE WordAt(a)' = SoFar(a)'
    <2>1. WordAt(a)' = SoFar(a)
      BY <1>1, SameBlocksSameWords DEF Contents
    <2>2. SoFar(a) = IF a >= MEM_TEXT_START /\ a < MEM_TEXT_START + 4 * Len(files[i + 1]) /\ Holding(a) # {}
                       THEN files[i + 1][Index(a)] ELSE FromFirst(i, a)
      BY <1>1 DEF SoFar, InPart
    <2>3. SoFar(a)' = FromFirst(i + 1, a)
      BY <1>1 DEF SoFar, InPart, FromFirst, ReachingOf
    <2> QED BY <1>1, <2>1, <2>2, <2>3, OneFileMore
  <1> QED BY <1>2 DEF Contents

\* Where no word is written and no file ends, the contents are what they were.
LEMMA KeepsContents ==
  ASSUME Contents, mem' = mem, files' = files, i' = i,
         \A a \in Aligned : InPart(a)' <=> InPart(a)
  PROVE  Contents'
  <1>1. ASSUME NEW a \in Aligned PROVE WordAt(a)' = SoFar(a)'
    <2>1. SoFar(a)' = SoFar(a)
      BY DEF SoFar, FromFirst, ReachingOf
    <2> QED BY <2>1, SameBlocksSameWords DEF Contents
  <1> QED BY <1>1 DEF Contents

\* Nothing of a file is in memory before its first token, nor when no file is read.
LEMMA NoPart == (doing = "load" => scanned = 0) => \A a \in Aligned : ~ InPart(a)
  <1> SUFFICES ASSUME doing = "load", scanned = 0, NEW a \in Aligned PROVE ~ InPart(a)
    BY DEF InPart
  <1>1. a \in Nat /\ MEM_TEXT_START \in Nat
    BY AlignedIs, WordInt, RegionAssumption
  <1> QED BY <1>1 DEF InPart

LEMMA NoPartNext == (doing' = "load" => scanned' = 0) => \A a \in Aligned : ~ InPart(a)'
  <1>1. ((doing = "load" => scanned = 0) => \A a \in Aligned : ~ InPart(a))'
    BY NoPart, PTL
  <1> QED BY <1>1

\* With no file loaded, zeroed blocks hold what they should.
LEMMA NothingLoaded ==
  mem = Zeroed /\ i = 0 /\ doing = "initialize" => Contents
  <1> SUFFICES ASSUME mem = Zeroed, i = 0, doing = "initialize", NEW a \in Aligned
               PROVE  WordAt(a) = SoFar(a)
    BY DEF Contents
  <1>1. ~ InPart(a)
    BY DEF InPart
  <1>2. FromFirst(i, a) = 0
    BY NoFile
  <1> QED BY <1>1, <1>2, ZeroedReadsZero DEF SoFar

LEMMA NothingLoadedNext ==
  mem' = Zeroed /\ i' = 0 /\ doing' = "initialize" => Contents'
  <1>1. (mem = Zeroed /\ i = 0 /\ doing = "initialize" => Contents)'
    BY NothingLoaded, PTL
  <1> QED BY <1>1 DEF Zeroed

\* Once initialize is done, memory reads, at every address, the bytes that
\* the last of the given files to reach them has there, or 0: nothing of an
\* earlier program, of a store or of a dump is in them.  Only what a read
\* reaches behind its block is anything.
THEOREM TextLoaded == Spec => []TextIsLoaded
  <1>1. Init => Loaded
    <2> SUFFICES ASSUME Init PROVE Loaded
      OBVIOUS
    <2>1. Contents
      BY NothingLoaded DEF Init
    <2> QED BY <2>1 DEF Init, Loaded
  <1>2. TypeOK /\ Loaded /\ [Next]_vars => Loaded'
    <2> SUFFICES ASSUME TypeOK, Loaded, [Next]_vars PROVE Loaded'
      OBVIOUS
    <2>0. i \in Nat
      BY DEF TypeOK
    <2>1. CASE load_program
      <3>1. doing = "initialize" /\ doing' = "load" /\ scanned' = 0 /\ ii' = 0
        BY <2>1 DEF load_program
      <3>2. mem' = mem /\ files' = files /\ i' = i
        BY <2>1 DEF load_program
      <3>3. Contents
        BY <3>1 DEF Loaded, Stuck
      <3>4. \A a \in Aligned : InPart(a)' <=> InPart(a)
        BY <3>1, NoPart, NoPartNext
      <3>5. Contents'
        BY <3>2, <3>3, <3>4, KeepsContents
      <3>6. U32(4 * 0) = 0
        BY WordInt, U32Word
      <3> QED BY <3>1, <3>2, <3>5, <3>6 DEF Loaded
    <2>2. CASE exit
      BY <2>2 DEF Loaded, exit, loader
    <2>3. CASE read_word
      <3>1. doing = "load" /\ doing' = doing /\ files' = files /\ i' = i
        BY <2>3 DEF read_word
      <3>2. CASE Stuck
        <4>1. scanned' = scanned
          BY <2>3, <3>2 DEF Stuck, read_word
        <4> QED BY <3>1, <3>2, <4>1 DEF Loaded, Stuck
      <3>3. CASE ~ Stuck
        <4>1. ii = U32(4 * scanned) /\ Contents
          BY <3>1, <3>3 DEF Loaded
        <4>2. Contents' /\ ii' = U32(4 * scanned')
          BY <2>3, <3>3, <4>1, ScansNumber
        <4> QED BY <3>1, <4>2 DEF Loaded
      <3> QED BY <3>2, <3>3
    <2>4. CASE end_of_file
      <3>1. /\ doing = "load" /\ doing' = "initialize" /\ files' = files /\ i' = i + 1
            /\ scanned = Len(files[i + 1]) /\ files[i + 1] # Missing
        BY <2>4 DEF end_of_file, TypeOK
      <3>2. ~ Stuck
        <4>1. scanned \in Nat
          BY DEF TypeOK
        <4> QED BY <3>1, <4>1 DEF Stuck
      <3>3. Contents
        BY <3>1, <3>2 DEF Loaded
      <3>4. Contents'
        BY <2>4, <3>3, EndsFile
      <3>5. \A n \in 1 .. i + 1 : files[n] # Missing
        BY <2>0, <3>1 DEF Loaded
      <3> QED BY <3>1, <3>4, <3>5 DEF Loaded
    <2>5. CASE initialized
      <3>1. /\ doing = "initialize" /\ doing' = "prompt" /\ i = Len(files)
            /\ mem' = mem /\ files' = files /\ i' = i
        BY <2>5 DEF initialized, loader
      <3>2. Contents'
        BY <3>1, KeepsContents DEF Loaded, Stuck, InPart
      <3> QED BY <3>1, <3>2 DEF Loaded
    <2>6. CASE dump_word \/ dump_again
      <3>1. doing = "mdump" /\ doing' = "mdump" /\ mem' = mem /\ files' = files /\ i' = i
        BY <2>6 DEF dump_word, dump_again, loader
      <3>2. Contents'
        BY <3>1, KeepsContents DEF Loaded, Stuck, InPart
      <3> QED BY <3>1, <3>2 DEF Loaded
    <2>7. CASE dump_end
      <3>1. doing = "mdump" /\ doing' = "prompt" /\ mem' = mem /\ files' = files /\ i' = i
        BY <2>7 DEF dump_end, loader
      <3>2. Contents'
        BY <3>1, KeepsContents DEF Loaded, Stuck, InPart
      <3> QED BY <3>1, <3>2 DEF Loaded
    <2>8. CASE Exited \/ UNCHANGED vars
      <3>1. /\ mem' = mem /\ doing' = doing /\ files' = files /\ i' = i /\ ii' = ii /\ scanned' = scanned
        BY <2>8 DEF Exited, vars, loader
      <3>2. \A a \in Aligned : InPart(a)' <=> InPart(a)
        BY <3>1 DEF InPart
      <3>3. Contents => Contents'
        BY <3>1, <3>2, KeepsContents
      <3>4. Stuck' <=> Stuck
        BY <3>1 DEF Stuck
      <3> QED BY <3>1, <3>3, <3>4 DEF Loaded
    <2>9. ASSUME NEW line \in CommandLines, initialize(line) PROVE Loaded'
      <3>1. mem' = Zeroed /\ i' = 0 /\ doing' = "initialize"
        BY <2>9 DEF initialize, init_memory
      <3>2. Contents'
        BY <3>1, NothingLoadedNext
      <3> QED BY <3>1, <3>2 DEF Loaded
    <2>10. ASSUME NEW d \in Dumps, mdump(d[1], d[2]) PROVE Loaded'
      <3>1. doing = "prompt" /\ doing' = "mdump" /\ mem' = mem /\ files' = files /\ i' = i
        BY <2>10 DEF mdump, loader
      <3>2. Contents'
        BY <3>1, KeepsContents DEF Loaded, Stuck, InPart
      <3> QED BY <3>1, <3>2 DEF Loaded
    <2>11. ASSUME NEW s \in SWs, store_data_to_memory(s[1], s[2]) PROVE Loaded'
      <3>1. doing = "prompt" /\ doing' = "prompt" /\ mem' = mem /\ files' = files /\ i' = i
        BY <2>11 DEF store_data_to_memory, loader
      <3>2. Contents'
        BY <3>1, KeepsContents DEF Loaded, Stuck, InPart
      <3> QED BY <3>1, <3>2 DEF Loaded
    <2> QED BY <2>1, <2>2, <2>3, <2>4, <2>5, <2>6, <2>7, <2>8, <2>9, <2>10, <2>11 DEF Next, Running
  <1>3. TypeOK /\ Loaded => TextIsLoaded
    <2> SUFFICES ASSUME TypeOK, Loaded, doing = "prompt", NEW PC \in Word, NEW stray \in Strays
                 PROVE  /\ Holding(PC) = {} => mem_read_32(PC, stray) = 0
                        /\ \A r \in Holding(PC) : \A k \in 0 .. 3 :
                             PC + k < End(r) => ByteOf(k, mem_read_32(PC, stray)) = FileByte(PC + k)
      BY DEF TextIsLoaded
    <2>1. ASSUME NEW a \in Aligned PROVE WordAt(a) = FromFiles(a)
      <3>1. i = Len(files) /\ WordAt(a) = SoFar(a) /\ files \in CommandLines
        BY DEF Loaded, Stuck, Contents, TypeOK
      <3>2. SoFar(a) = FromFirst(Len(files), a)
        BY <3>1 DEF SoFar, InPart
      <3> QED BY <3>1, <3>2, AllFiles
    <2>2. Holding(PC) = {} => mem_read_32(PC, stray) = 0
      BY DEF mem_read_32
    <2>3. ASSUME NEW r \in Holding(PC), NEW k \in 0 .. 3, PC + k < End(r)
          PROVE  ByteOf(k, mem_read_32(PC, stray)) = FileByte(PC + k)
      <3> DEFINE a == (PC + k) - ((PC + k) % 4)
                 j == (PC + k) % 4
      <3>1. BlocksOK /\ stray \in [1 .. 3 -> 0 .. BYTE - 1]
        BY InputAssumption DEF TypeOK, BlocksOK
      <3>2. ByteOf(k, mem_read_32(PC, stray)) = ByteOf(j, WordAt(a)) /\ a \in Aligned
        BY <2>3, <3>1, BytesOfNeighbours
      <3> HIDE DEF a, j
      <3>3. WordAt(a) = FromFiles(a)
        BY <2>1, <3>2
      <3>4. FileByte(PC + k) = ByteOf(j, FromFiles(a))
        BY DEF FileByte, a, j
      <3> QED BY <3>2, <3>3, <3>4
    <2> QED BY <2>2, <2>3
  <1> QED BY <1>1, <1>2, <1>3, TypeCorrect, PTL DEF Spec

=============================================================================
