---------------------------- MODULE MCMainMemory ----------------------------
(* Addresses of 8 bits.  The text region has three words and the data       *)
(* region lies close enough behind it for a long file to reach it; the      *)
(* stack ends where KTEXT begins, at the smallest negative int.             *)
EXTENDS MainMemory, MCWords

MCRegions ==
  << [start |-> 16, size |-> 12], [start |-> 32, size |-> 8], [start |-> 120, size |-> 8],
     [start |-> 144, size |-> 4], [start |-> 128, size |-> 8] >>

\* 27 and 228 have four different bytes, in opposite order.
Short == <<228>>
Plain == <<27, 228>>
Long  == <<1, 27, 64, 228, 6, 9>>
MCCommandLines ==
  { <<f>> : f \in {<< >>, Short, Plain, Long, Missing, <<27, Unmatched>>, <<Unmatched>>} }
  \cup { <<Long, Plain>>, <<Plain, Short, << >> >>, <<Plain, Missing>> }
MCDumps == { <<24, 36>>, <<112, 123>>, <<128, 132>>, <<252, 4>>, <<36, 24>>, <<120, 127>>,
             <<21, 30>>, <<122, 125>>, <<121, 125>> }
MCStrays == { <<0, 0, 0>>, <<3, 1, 2>> }
MCSWs == { <<32, 27>> }
=============================================================================
