------------------------------ MODULE MCWords ------------------------------
(* Values of the constants BitAnd, BitOr and BitXor for words of 8 bits:   *)
(* a truth table for pairs of bits, taken two bits at a time.              *)
EXTENDS Integers

Digit(v, n) == ((v \div n) % 4) + 1

Table(t) ==
  [p \in (0 .. 255) \X (0 .. 255) |->
     LET At(n) == n * t[Digit(p[1], n)][Digit(p[2], n)]
     IN At(1) + At(4) + At(16) + At(64)]

AndOf == Table(<< <<0, 0, 0, 0>>, <<0, 1, 0, 1>>, <<0, 0, 2, 2>>, <<0, 1, 2, 3>> >>)
OrOf  == Table(<< <<0, 1, 2, 3>>, <<1, 1, 3, 3>>, <<2, 3, 2, 3>>, <<3, 3, 3, 3>> >>)
XorOf == Table(<< <<0, 1, 2, 3>>, <<1, 0, 3, 2>>, <<2, 3, 0, 1>>, <<3, 2, 1, 0>> >>)
=============================================================================
