------------------------------- MODULE Words -------------------------------
(***************************************************************************)
(* The machine word of the simulator and the C arithmetic it uses on it:   *)
(* u32 wrap-around, the s32 reading of a u32, MASK, GET_BLOCK and          *)
(* sign_extend (src/src/utils.h, src/src/uninspiring_macros.h).            *)
(*                                                                         *)
(* A byte has B bits (8 in the program); everything the code writes as a   *)
(* multiple of 8 bits scales with it: a nibble B/2, a halfword 2B, a word  *)
(* 4B.  The number of bytes in a word (4) and of nibbles (8) is not        *)
(* scaled, so addresses and the DRAM layout keep their structure.          *)
(***************************************************************************)
EXTENDS Integers

CONSTANTS B,                        \* bits in a byte
          BitAnd, BitOr, BitXor      \* the C operators & | ^, as functions on words

BITS  == 4 * B                      \* bits in a word (32)
BYTE  == 2 ^ B
HALF  == 2 ^ (2 * B)
WORDS == 2 ^ BITS
Word  == 0 .. WORDS - 1

ASSUME ByteAssumption == B \in Nat \ {0}

\* What a power of two is, up to the width of a word.
ASSUME PowerAssumption ==
  /\ 2 ^ 0 = 1 /\ 2 ^ 1 = 2
  /\ \A n \in 0 .. BITS : 2 ^ n \in Nat \ {0}
  /\ \A m, n \in 0 .. BITS : m + n <= BITS => 2 ^ (m + n) = 2 ^ m * 2 ^ n

\* & | ^ of two words are words.
ASSUME BitwiseAssumption ==
  /\ BitAnd \in [Word \X Word -> Word]
  /\ BitOr  \in [Word \X Word -> Word]
  /\ BitXor \in [Word \X Word -> Word]

U32(v) == v % WORDS                 \* storing into a uint32_t
S32(v) == IF v < WORDS \div 2 THEN v ELSE v - WORDS   \* cast(s32, v)
Bool(p) == IF p THEN 1 ELSE 0       \* a C truth value

ShiftLeft(v, n)  == U32(v * 2 ^ n)
ShiftRight(v, n) == v \div 2 ^ n
\* MASK1(n, BITS - n): the n highest bits, what SRA and SRAV or into a
\* negative operand.
HighMask(n)      == WORDS - 2 ^ (BITS - n)
\* Mutant: zeros are shifted in.
LogicalShiftRight(v, n) == ShiftRight(v, n)
ArithmeticShiftRight(v, n) ==
  IF v < WORDS \div 2 THEN ShiftRight(v, n) ELSE U32(ShiftRight(v, n) + HighMask(n))

\* Mutant: the smallest negative number is taken for a positive one.
SignExtendOffByOne(v, m) ==
  IF v % m <= m \div 2 THEN v ELSE U32((v % m) - m)
\* sign_extend_16 and sign_extend_8 for the power of two m that is the
\* number of values of the narrow type: bits above the narrow type are kept
\* when its sign bit is clear, set when it is not.
SignExtendTo(v, m) ==
  IF v % m < m \div 2 THEN v ELSE U32((v % m) - m)
sign_extend_16(v) == SignExtendTo(v, HALF)
sign_extend_8(v)  == SignExtendTo(v, BYTE)

\* C division of two ints truncates towards zero; the divisor is not 0.
Abs(v) == IF v < 0 THEN -v ELSE v
Quotient(a, b)  == IF (a < 0) = (b < 0) THEN Abs(a) \div Abs(b) ELSE -(Abs(a) \div Abs(b))
\* Mutant: the remainder of a negative dividend is positive.
PositiveRemainder(a, b) == Abs(a) % Abs(b)
Remainder(a, b) == IF a < 0 THEN -(Abs(a) % Abs(b)) ELSE Abs(a) % Abs(b)
=============================================================================
