----------------------------- MODULE WordProofs -----------------------------
(***************************************************************************)
(* Facts about the words of module Words, for every width of the byte.     *)
(***************************************************************************)
EXTENDS Words, TLAPS

----------------------------------------------------------------------------
(* Division of integers                                                    *)

\* What \div and % mean for a positive divisor.
LEMMA DivisionFacts ==
  ASSUME NEW x \in Int, NEW n \in Nat \ {0}
  PROVE  x \div n \in Int /\ x % n \in 0 .. n - 1 /\ x = n * (x \div n) + (x % n)
  OBVIOUS

\* Quotient and remainder are the only numbers of their kind.
LEMMA DivisionUnique ==
  ASSUME NEW x \in Int, NEW n \in Nat \ {0}, NEW q \in Int, NEW r \in 0 .. n - 1, x = n * q + r
  PROVE  q = x \div n /\ r = x % n
  <1> DEFINE k == x \div n
             s == x % n
  <1>1. k \in Int /\ s \in 0 .. n - 1 /\ x = n * k + s
    BY DivisionFacts
  <1> HIDE DEF k, s
  <1>2. n * (q - k) = s - r
    BY <1>1
  <1>3. ~ (q - k >= 1)
    <2> SUFFICES ASSUME q - k >= 1 PROVE FALSE
      OBVIOUS
    <2>1. n * (q - k) >= n
      BY <1>1
    <2> QED BY <2>1, <1>1, <1>2
  <1>4. ~ (q - k <= -1)
    <2> SUFFICES ASSUME q - k <= -1 PROVE FALSE
      OBVIOUS
    <2>1. n * (q - k) <= -n
      BY <1>1
    <2> QED BY <2>1, <1>1, <1>2
  <1>5. q = k
    BY <1>3, <1>4, <1>1
  <1>6. r = s
    BY <1>5, <1>1
  <1> QED BY <1>5, <1>6 DEF k, s

\* Dividing by a product is dividing twice; the remainder has two digits.
LEMMA MixedRadix ==
  ASSUME NEW x \in Int, NEW n \in Nat \ {0}, NEW m \in Nat \ {0}
  PROVE  /\ x \div (n * m) = (x \div n) \div m
         /\ x % (n * m) = (x % n) + n * ((x \div n) % m)
  <1> DEFINE q == x \div n
             r == x % n
             p == q \div m
             s == q % m
  <1>0. n * m \in Nat \ {0}
    OBVIOUS
  <1>1. q \in Int /\ r \in 0 .. n - 1 /\ x = n * q + r
    BY DivisionFacts
  <1>2. p \in Int /\ s \in 0 .. m - 1 /\ q = m * p + s
    BY <1>1, DivisionFacts
  <1> HIDE DEF q, r, p, s
  <1>3. x = (n * m) * p + (r + n * s)
    <2>1. x = n * (m * p + s) + r
      BY <1>1, <1>2
    <2> QED BY <1>1, <1>2, <2>1
  <1>4. r + n * s \in 0 .. n * m - 1
    <2>1. n * s >= 0 /\ n * s \in Int
      BY <1>2
    <2>2. n * s <= n * (m - 1)
      BY <1>2
    <2>3. n * (m - 1) = n * m - n
      OBVIOUS
    <2> QED BY <2>1, <2>2, <2>3, <1>1, <1>0
  <1>5. p = x \div (n * m) /\ r + n * s = x % (n * m)
    BY <1>0, <1>1, <1>2, <1>3, <1>4, DivisionUnique
  <1> QED BY <1>0, <1>5 DEF q, r, p, s

\* ... the quotient alone,
LEMMA DividedTwice ==
  ASSUME NEW x \in Int, NEW n \in Nat \ {0}, NEW m \in Nat \ {0}
  PROVE  x \div (n * m) = (x \div n) \div m
  BY MixedRadix

\* ... and the remainder alone.
LEMMA TwoDigits ==
  ASSUME NEW x \in Int, NEW n \in Nat \ {0}, NEW m \in Nat \ {0}
  PROVE  x % (n * m) = (x % n) + n * ((x \div n) % m)
  BY MixedRadix

\* A multiple of n added to x leaves the remainder, and adds to the quotient.
LEMMA MultipleAdded ==
  ASSUME NEW n \in Nat \ {0}, NEW k \in Int, NEW x \in Int
  PROVE  (x + n * k) % n = x % n /\ (x + n * k) \div n = (x \div n) + k
  <1> DEFINE q == x \div n
             r == x % n
  <1>1. q \in Int /\ r \in 0 .. n - 1 /\ x = n * q + r
    BY DivisionFacts
  <1> HIDE DEF q, r
  <1>2. x + n * k = n * (q + k) + r /\ q + k \in Int /\ x + n * k \in Int
    BY <1>1
  <1>3. q + k = (x + n * k) \div n /\ r = (x + n * k) % n
    BY <1>1, <1>2, DivisionUnique
  <1> QED BY <1>3 DEF q, r

\* A number below the divisor is its own remainder.
LEMMA SmallRemainder ==
  ASSUME NEW n \in Nat \ {0}, NEW x \in 0 .. n - 1 PROVE x % n = x /\ x \div n = 0
  OBVIOUS

\* Taking a remainder by a multiple first changes nothing.
LEMMA RemainderOfRemainder ==
  ASSUME NEW x \in Int, NEW n \in Nat \ {0}, NEW m \in Nat \ {0}
  PROVE  /\ (x % (n * m)) % n = x % n
         /\ (x % (n * m)) \div n = (x \div n) % m
  <1> DEFINE r == x % n
             s == (x \div n) % m
  <1>1. r \in 0 .. n - 1 /\ s \in 0 .. m - 1
    BY DivisionFacts
  <1>2. x % (n * m) = r + n * s
    BY MixedRadix
  <1>3. r % n = r /\ r \div n = 0
    BY <1>1, SmallRemainder
  <1> HIDE DEF r, s
  <1>4. (r + n * s) % n = r /\ (r + n * s) \div n = 0 + s
    <2>1. r \in Int /\ s \in Int
      BY <1>1
    <2> QED BY <2>1, <1>3, MultipleAdded
  <1> QED BY <1>1, <1>2, <1>4 DEF r, s

----------------------------------------------------------------------------
(* Words                                                                   *)

\* Powers of two grow with the exponent.
LEMMA PowerGrows ==
  ASSUME NEW m \in 0 .. BITS, NEW n \in 0 .. BITS, m <= n
  PROVE  /\ 2 ^ m \in Nat \ {0} /\ 2 ^ n \in Nat \ {0} /\ 2 ^ (n - m) \in Nat \ {0}
         /\ 2 ^ n = 2 ^ m * 2 ^ (n - m) /\ 2 ^ m <= 2 ^ n
  <1>1. BITS \in Nat
    BY ByteAssumption DEF BITS
  <1>2. n - m \in 0 .. BITS /\ m + (n - m) = n
    BY <1>1
  <1>3. 2 ^ n = 2 ^ m * 2 ^ (n - m)
    <2>1. m + (n - m) <= BITS
      BY <1>1, <1>2
    <2>2. 2 ^ (m + (n - m)) = 2 ^ m * 2 ^ (n - m)
      BY <1>2, <2>1, PowerAssumption
    <2> QED BY <1>2, <2>2
  <1>4. 2 ^ m \in Nat \ {0} /\ 2 ^ (n - m) \in Nat \ {0} /\ 2 ^ n \in Nat \ {0}
    BY <1>2, PowerAssumption
  <1>5. \A p, q \in Nat \ {0} : p <= p * q
    OBVIOUS
  <1> QED BY <1>3, <1>4, <1>5

\* The number of words is a positive integer, and there are two at least.
LEMMA WordsPositive == WORDS \in Nat \ {0} /\ BITS \in Nat \ {0} /\ WORDS >= 2
  <1>1. /\ BITS \in Nat \ {0}
        /\ 1 \in 0 .. BITS /\ BITS \in 0 .. BITS /\ 1 <= BITS
    BY ByteAssumption DEF BITS
  <1>2. 2 ^ 1 <= 2 ^ BITS /\ 2 ^ BITS \in Nat \ {0}
    BY <1>1, PowerGrows
  <1> QED BY <1>1, <1>2, PowerAssumption DEF WORDS

\* Bytes and halfwords have a positive number of values, at most a word's.
LEMMA HalfByte == HALF \in Nat \ {0} /\ BYTE \in Nat \ {0} /\ BYTE <= WORDS /\ HALF <= WORDS
  <1>1. 2 * B \in 0 .. BITS /\ B \in 0 .. BITS /\ BITS \in 0 .. BITS
    BY ByteAssumption DEF BITS
  <1>2. 2 * B <= BITS /\ B <= BITS
    BY <1>1
  <1>3. 2 ^ (2 * B) \in Nat \ {0} /\ 2 ^ (2 * B) <= 2 ^ BITS
    BY <1>1, <1>2, PowerGrows
  <1>4. 2 ^ B \in Nat \ {0} /\ 2 ^ B <= 2 ^ BITS
    BY <1>1, <1>2, PowerGrows
  <1> QED BY <1>3, <1>4 DEF HALF, BYTE, WORDS

\* Words are integers, 0 and 1 among them.
LEMMA WordInt == Word \subseteq Nat /\ 0 \in Word /\ 1 \in Word
  BY WordsPositive DEF Word

\* A word is a natural number.
LEMMA WordIsInt == ASSUME NEW p \in Word PROVE p \in Int /\ p \in Nat
  BY WordInt

\* Storing any integer into a u32 gives a word, and a word is kept.
LEMMA U32Type == ASSUME NEW v \in Int PROVE U32(v) \in Word
  BY WordsPositive DEF U32, Word

\* Sums of words and small numbers are integers.
LEMMA WordSums ==
  ASSUME NEW p \in Word, NEW q \in Word
  PROVE  /\ p + q \in Int /\ p - q \in Int /\ p + 4 * q \in Int /\ 4 * p \in Int /\ p + 4 \in Int
         /\ p * q \in Int
  <1>1. p \in Int /\ q \in Int
    BY WordInt
  <1> QED BY <1>1

\* A word stored into a u32 is kept.
LEMMA U32Word == ASSUME NEW v \in Word PROVE U32(v) = v
  BY WordsPositive DEF U32, Word

\* A truth value is a bit and a word.
LEMMA BoolType == ASSUME NEW p \in BOOLEAN PROVE Bool(p) \in {0, 1} /\ Bool(p) \in Word
  BY WordInt DEF Bool

\* The remainder of a word is at most the word.
LEMMA RemainderType ==
  ASSUME NEW v \in Word, NEW m \in Nat \ {0} PROVE v % m \in Word /\ v % m < m
  <1>1. v % m \in 0 .. m - 1
    BY WordInt
  <1>2. v \in 0 .. WORDS - 1 /\ WORDS \in Nat
    BY WordsPositive DEF Word
  <1>3. v % m <= v
    BY <1>1, <1>2
  <1> QED BY <1>1, <1>2, <1>3 DEF Word

\* The quotient of a word by a positive number is at most the word.
LEMMA QuotientType ==
  ASSUME NEW v \in Word, NEW m \in Nat \ {0} PROVE v \div m \in Word
  <1>1. v \div m \in 0 .. v
    BY WordInt
  <1> QED BY <1>1, WordsPositive DEF Word

\* Sign extension of a word, from any width, gives a word.
LEMMA SignExtendType ==
  ASSUME NEW v \in Word, NEW m \in Nat \ {0}
  PROVE  SignExtendTo(v, m) \in Word
  <1>1. (v % m) - m \in Int
    BY WordInt
  <1> QED BY <1>1, U32Type DEF SignExtendTo

\* ... from a halfword.
LEMMA SignExtend16Type == ASSUME NEW v \in Word PROVE sign_extend_16(v) \in Word
  BY SignExtendType, HalfByte DEF sign_extend_16

\* ... from a byte.
LEMMA SignExtend8Type == ASSUME NEW v \in Word PROVE sign_extend_8(v) \in Word
  BY SignExtendType, HalfByte DEF sign_extend_8

\* The s32 reading of a word is an integer.
LEMMA S32Type == ASSUME NEW v \in Word PROVE S32(v) \in Int
  BY WordsPositive, WordInt DEF S32

\* Shifts by an amount the instruction can hold give words.
LEMMA ShiftTypes ==
  ASSUME NEW v \in Word, NEW n \in 0 .. BITS
  PROVE  ShiftLeft(v, n) \in Word /\ ShiftRight(v, n) \in Word /\ ArithmeticShiftRight(v, n) \in Word
  <1>1. 2 ^ n \in Nat \ {0}
    BY PowerAssumption
  <1>2. BITS - n \in 0 .. BITS
    BY WordsPositive
  <1>3. 2 ^ (BITS - n) \in Nat \ {0}
    BY <1>2, PowerAssumption
  <1>4. ShiftLeft(v, n) \in Word
    <2>1. v * 2 ^ n \in Int
      BY <1>1, WordInt
    <2> QED BY <2>1, U32Type DEF ShiftLeft
  <1>5. ShiftRight(v, n) \in Word
    BY <1>1, QuotientType DEF ShiftRight
  <1>6. HighMask(n) \in Int
    BY <1>3, WordsPositive DEF HighMask
  <1>7. ShiftRight(v, n) + HighMask(n) \in Int
    <2>1. ASSUME NEW p \in Word, NEW q \in Int PROVE p + q \in Int
      BY WordInt
    <2> QED BY <1>5, <1>6, <2>1
  <1> QED BY <1>4, <1>5, <1>7, U32Type DEF ArithmeticShiftRight

\* The comparison alu() makes for SLTIU, rs < rs - imm on u32 values, is
\* the borrow of the subtraction: it is the unsigned comparison rs < imm.
THEOREM BorrowIsUnsignedLess ==
  ASSUME NEW a \in Word, NEW c \in Word
  PROVE  (a < U32(a - c)) <=> (a < c)
  <1>1. a \in Int /\ c \in Int /\ 0 <= a /\ a < WORDS /\ 0 <= c /\ c < WORDS /\ WORDS \in Nat \ {0}
    BY WordsPositive DEF Word
  <1>2. CASE a < c
    <2>1. U32(a - c) = a - c + WORDS
      BY <1>1, <1>2 DEF U32
    <2> QED BY <1>1, <1>2, <2>1
  <1>3. CASE ~ (a < c)
    <2>1. U32(a - c) = a - c
      BY <1>1, <1>3 DEF U32
    <2> QED BY <1>1, <1>3, <2>1
  <1> QED BY <1>2, <1>3
----------------------------------------------------------------------------
(* The signed reading of a word                                            *)

\* The types of the machine nest, and each has as many negative values as
\* others.
LEMMA Widths ==
  /\ BYTE >= 2 /\ HALF = BYTE * BYTE /\ WORDS = HALF * HALF
  /\ BYTE < HALF /\ HALF < WORDS
  <1>1. /\ BITS \in Nat /\ B \in 0 .. BITS /\ 2 * B \in 0 .. BITS /\ 1 \in 0 .. BITS /\ 1 <= B
        /\ B + B = 2 * B /\ 2 * B + 2 * B = BITS /\ B + B <= BITS /\ 2 * B + 2 * B <= BITS
    BY ByteAssumption DEF BITS
  <1>2. 2 ^ (B + B) = 2 ^ B * 2 ^ B /\ 2 ^ (2 * B + 2 * B) = 2 ^ (2 * B) * 2 ^ (2 * B)
    BY <1>1, PowerAssumption
  <1>3. HALF = BYTE * BYTE /\ WORDS = HALF * HALF
    BY <1>1, <1>2 DEF HALF, BYTE, WORDS
  <1>4. 2 ^ 1 = 2 /\ 2 ^ 1 <= 2 ^ B
    BY <1>1, PowerGrows, PowerAssumption
  <1>5. BYTE >= 2 /\ BYTE \in Nat
    BY <1>4, HalfByte DEF BYTE
  <1>6. \A n \in Nat : n >= 2 => n < n * n /\ n * n >= 2
    OBVIOUS
  <1>7. BYTE < HALF /\ HALF >= 2 /\ HALF \in Nat
    BY <1>3, <1>5, <1>6, HalfByte
  <1> QED BY <1>3, <1>5, <1>6, <1>7

\* A power of two with a positive exponent is even.
LEMMA Halves ==
  ASSUME NEW m \in {BYTE, HALF, WORDS}
  PROVE  m \div 2 \in Nat \ {0} /\ m = 2 * (m \div 2) /\ m \in Nat \ {0} /\ m <= WORDS
  <1>1. BITS \in Nat /\ 1 \in 0 .. BITS /\ B \in 0 .. BITS /\ 2 * B \in 0 .. BITS /\ 1 <= B
    BY ByteAssumption DEF BITS
  <1>2. PICK n \in 0 .. BITS : 1 <= n /\ m = 2 ^ n
    BY <1>1 DEF BYTE, HALF, WORDS, BITS
  <1>3. 2 ^ n = 2 ^ 1 * 2 ^ (n - 1) /\ 2 ^ (n - 1) \in Nat \ {0}
    BY <1>1, <1>2, PowerGrows
  <1> DEFINE q == 2 ^ (n - 1)
  <1>4. m = 2 * q /\ q \in Nat \ {0}
    BY <1>2, <1>3, PowerAssumption
  <1> HIDE DEF q
  <1>5. m \div 2 = q
    BY <1>4
  <1>6. m <= WORDS
    BY HalfByte, WordsPositive
  <1> QED BY <1>4, <1>5, <1>6

\* S32 and U32 undo one another.
LEMMA SignedRange ==
  ASSUME NEW v \in Word
  PROVE  /\ S32(v) \in - (WORDS \div 2) .. WORDS \div 2 - 1 /\ U32(S32(v)) = v
         /\ S32(v) = IF v < WORDS \div 2 THEN v ELSE v - WORDS
  <1>1. WORDS \div 2 \in Nat \ {0} /\ WORDS = 2 * (WORDS \div 2)
    BY Halves
  <1>2. v \in 0 .. WORDS - 1 /\ WORDS \in Nat \ {0}
    BY WordsPositive DEF Word
  <1>3. S32(v) \in - (WORDS \div 2) .. WORDS \div 2 - 1
    BY <1>1, <1>2 DEF S32
  <1>4. (v - WORDS) % WORDS = v /\ v % WORDS = v
    BY <1>2
  <1> QED BY <1>3, <1>4 DEF S32, U32

LEMMA SignedOfWrapped ==
  ASSUME NEW x \in - (WORDS \div 2) .. WORDS \div 2 - 1
  PROVE  /\ S32(U32(x)) = x /\ x \in Int
         /\ U32(x) = IF x < 0 THEN x + WORDS ELSE x
  <1> DEFINE h == WORDS \div 2
  <1>1. h \in Nat \ {0} /\ WORDS = 2 * h /\ x \in - h .. h - 1
    BY Halves
  <1>2. S32(U32(x)) = IF x % WORDS < h THEN x % WORDS ELSE (x % WORDS) - WORDS
    BY DEF S32, U32
  <1> HIDE DEF h
  <1>3. CASE x < 0
    <2>1. x % WORDS = x + WORDS
      BY <1>1, <1>3
    <2> QED BY <1>1, <1>2, <1>3, <2>1 DEF U32
  <1>4. CASE ~ (x < 0)
    <2>1. x % WORDS = x
      BY <1>1, <1>4
    <2> QED BY <1>1, <1>2, <1>4, <2>1 DEF U32
  <1> QED BY <1>3, <1>4

\* Adding a whole turn does not show.
LEMMA WholeTurn == ASSUME NEW x \in Int PROVE U32(x + WORDS) = U32(x)
  <1>1. (x + WORDS * 1) % WORDS = x % WORDS
    <2>1. WORDS \in Nat \ {0} /\ 1 \in Int
      BY WordsPositive
    <2> QED BY <2>1, MultipleAdded
  <1>2. x + WORDS * 1 = x + WORDS
    BY WordsPositive
  <1> QED BY <1>1, <1>2 DEF U32

\* Different words give different sums.
LEMMA SumsDiffer ==
  ASSUME NEW p \in Int, NEW x \in Word, NEW y \in Word
  PROVE  U32(p + x) = U32(p + y) <=> x = y
  <1> SUFFICES ASSUME U32(p + x) = U32(p + y) PROVE x = y
    OBVIOUS
  <1>1. x \in 0 .. WORDS - 1 /\ y \in 0 .. WORDS - 1 /\ WORDS \in Nat \ {0}
    BY WordsPositive DEF Word
  <1> DEFINE j == (p + x) \div WORDS
             k == (p + y) \div WORDS
             r == (p + x) % WORDS
  <1>2. /\ j \in Int /\ k \in Int /\ r \in Int
        /\ p + x = WORDS * j + r /\ p + y = WORDS * k + r
    <2>1. p + x \in Int /\ p + y \in Int
      BY <1>1
    <2>2. (p + y) % WORDS = r
      BY DEF U32
    <2>3. j \in Int /\ r \in 0 .. WORDS - 1 /\ p + x = WORDS * j + r
      BY <1>1, <2>1, DivisionFacts
    <2>4. k \in Int /\ p + y = WORDS * k + ((p + y) % WORDS)
      BY <1>1, <2>1, DivisionFacts
    <2> QED BY <1>1, <2>2, <2>3, <2>4
  <1> HIDE DEF j, k, r
  <1>3. x - y = WORDS * (j - k) /\ j - k \in Int
    BY <1>1, <1>2
  <1>4. ~ (j - k >= 1)
    <2> SUFFICES ASSUME j - k >= 1 PROVE FALSE
      OBVIOUS
    <2>1. WORDS * (j - k) >= WORDS
      BY <1>1, <1>3
    <2> QED BY <1>1, <1>3, <2>1
  <1>5. ~ (j - k <= -1)
    <2> SUFFICES ASSUME j - k <= -1 PROVE FALSE
      OBVIOUS
    <2>1. WORDS * (j - k) <= - WORDS
      BY <1>1, <1>3
    <2> QED BY <1>1, <1>3, <2>1
  <1>6. j - k = 0
    BY <1>3, <1>4, <1>5
  <1> QED BY <1>1, <1>3, <1>6

\* The value a part of m values stands for, when its upper half is negative.
SignedPart(n, m) == IF n < m \div 2 THEN n ELSE n - m

\* sign_extend_16 and sign_extend_8 of such a part.
LEMMA PartExtended ==
  ASSUME NEW m \in {BYTE, HALF}, NEW n \in 0 .. m - 1
  PROVE  /\ SignExtendTo(n, m) = U32(SignedPart(n, m)) /\ S32(SignExtendTo(n, m)) = SignedPart(n, m)
         /\ SignExtendTo(n, m) \in Word /\ SignedPart(n, m) \in Int /\ n \in Word
  <1> DEFINE h == m \div 2
             g == WORDS \div 2
  <1>1. h \in Nat \ {0} /\ m = 2 * h /\ m <= WORDS /\ g \in Nat \ {0} /\ WORDS = 2 * g
    BY Halves
  <1>2. SignedPart(n, m) = IF n < h THEN n ELSE n - m
    BY DEF SignedPart
  <1> HIDE DEF h, g
  <1>3. SignedPart(n, m) \in - g .. g - 1 /\ SignedPart(n, m) \in Int
    BY <1>1, <1>2
  <1>4. n % m = n /\ n \in 0 .. WORDS - 1
    BY <1>1
  <1>5. n < h => U32(n) = n
    BY <1>4, U32Word DEF Word
  <1>6. SignExtendTo(n, m) = U32(SignedPart(n, m))
    BY <1>2, <1>4, <1>5 DEF SignExtendTo, h
  <1>7. S32(U32(SignedPart(n, m))) = SignedPart(n, m) /\ U32(SignedPart(n, m)) \in Word
    BY <1>3, SignedOfWrapped, U32Type DEF g
  <1> QED BY <1>3, <1>4, <1>6, <1>7 DEF Word
=============================================================================
