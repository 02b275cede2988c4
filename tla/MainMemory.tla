----------------------------- MODULE MainMemory -----------------------------
(***************************************************************************)
(* MEM_REGIONS of src/src/shell.cpp: blocks of bytes that init_memory      *)
(* allocates, the loader fills with the words of the program files, fetch  *)
(* reads and mdump prints; and beside it the DRAM, where loads and stores  *)
(* of the program go.  A user calls initialize (again, as the test harness *)
(* does) and mdump; between two commands the program may store a word.     *)
(* The cells of the DRAM are in module Dram.                               *)
(***************************************************************************)
EXTENDS Granules, SequencesExt

CONSTANTS
  MEM_REGIONS,      \* sequence of records [start, size]
  MEM_TEXT_START,
  Unmatched,        \* a token that is no hexadecimal number
  Missing,          \* a file that cannot be opened
  CommandLines,     \* what initialize is given: sequences of files
  Garbage,          \* what load_program's word may hold before it is set
  Dumps,            \* low and high of mdump
  SWs,              \* address and value of a store by the program
  Strays            \* what may lie in the three bytes behind a block

RegionIndex == DOMAIN MEM_REGIONS
End(i)      == MEM_REGIONS[i].start + MEM_REGIONS[i].size

\* Regions start and end at word boundaries and do not overlap.
ASSUME RegionAssumption ==
  /\ MEM_REGIONS \in Seq([start : Word, size : Word])
  /\ MEM_TEXT_START \in Word /\ MEM_TEXT_START % 4 = 0
  /\ \A i \in RegionIndex :
       MEM_REGIONS[i].start % 4 = 0 /\ MEM_REGIONS[i].size % 4 = 0 /\ End(i) <= WORDS
  /\ \A i, j \in RegionIndex : i # j => End(i) <= MEM_REGIONS[j].start \/ End(j) <= MEM_REGIONS[i].start

\* Files hold words and are not so long that their addresses wrap around;
\* mdump is given any two words.
ASSUME InputAssumption ==
  /\ Garbage \subseteq Word /\ Garbage # {}
  /\ CommandLines \subseteq Seq({Missing} \cup Seq(Word \cup {Unmatched}))
  /\ \A line \in CommandLines : \A file \in ToSet(line) \ {Missing} :
       MEM_TEXT_START + 4 * Len(file) <= WORDS
  /\ Dumps \subseteq Word \X Word /\ SWs \subseteq Word \X Word
  /\ Strays \subseteq [1 .. 3 -> 0 .. BYTE - 1] /\ Strays # {}

VARIABLES
  mem,                     \* MEM_REGIONS[i].mem
  dram,                    \* a word for every granule
  doing,                   \* "prompt", "initialize", "load", "mdump", "exited"
  files, i,                \* initialize: its files, and how many are loaded
  ii, word,                \* load_program, which has matched scanned tokens
  scanned,
  start, stop, address,    \* mdump, in the first or the second of its loops
  copy

loader == <<files, i, ii, word, scanned>>
dump   == <<start, stop, address, copy>>
vars   == <<mem, dram, doing, loader, dump>>

----------------------------------------------------------------------------
(* init_memory, mem_read_32, mem_write_32                                  *)

Zeroed == [r \in RegionIndex |-> [offset \in 0 .. MEM_REGIONS[r].size - 1 |-> 0]]

\* Mutant: a block that is there is taken as it is.
KeptBlocks == mem
init_memory == Zeroed

Holds(r, a) == MEM_REGIONS[r].start <= a /\ a < End(r)

\* The loops of mem_read_32 and mem_write_32 stop at the first such region.
Holding(a)  == {r \in RegionIndex : Holds(r, a)}
RegionOf(a) == Min(Holding(a))
Offset(a)   == a - MEM_REGIONS[RegionOf(a)].start

\* Byte k of a word counts so many times: << 8 * k.
Place(k) == 2 ^ (B * k)

\* Both test the address of the first byte only.  Behind the end of the
\* block, which they reach from an address inside its last word, lies
\* whatever the allocator has there: byte n of stray is n bytes behind.
mem_read_32(a, stray) ==
  IF Holding(a) = {} THEN 0
  ELSE LET behind(k) == a + k - End(RegionOf(a)) + 1
           Part(k) == (IF behind(k) > 0 THEN stray[behind(k)] ELSE mem[RegionOf(a)][Offset(a) + k]) * Place(k)
       IN Part(3) + Part(2) + Part(1) + Part(0)

\* The word at an address divisible by 4, all of which is in the block.
WordAt(a) == mem_read_32(a, [n \in 1 .. 3 |-> 0])

\* Mutant: the bytes are stored in the order they are read in, reversed.
BigEndian(k, value) == (value \div Place(3 - k)) % BYTE
ByteOf(k, value) == (value \div Place(k)) % BYTE

mem_write_32(a, value) ==
  mem' = IF Holding(a) = {} THEN mem
         ELSE [mem EXCEPT ![RegionOf(a)] =
                 [offset \in DOMAIN @ |->
                    IF offset - Offset(a) \in 0 .. 3 THEN ByteOf(offset - Offset(a), value) ELSE @[offset]]]

----------------------------------------------------------------------------
(* initialize and load_program                                             *)

\* The machine is initialized before the first command.
Init ==
  /\ mem = Zeroed /\ dram = [g \in Granule |-> 0]
  /\ doing = "initialize" /\ files \in CommandLines /\ i = 0
  /\ ii = 0 /\ word = 0 /\ scanned = 0
  /\ start = 0 /\ stop = 0 /\ address = 0 /\ copy = 0

\* init_dram leaves the words in the DRAM (see Dram).
initialize(line) ==
  /\ doing = "prompt"
  /\ mem' = init_memory
  /\ doing' = "initialize" /\ files' = line /\ i' = 0
  /\ UNCHANGED <<dram, ii, word, scanned, dump>>

load_program ==
  /\ doing = "initialize" /\ i < Len(files) /\ files[i + 1] # Missing
  /\ doing' = "load" /\ ii' = 0 /\ word' \in Garbage /\ scanned' = 0
  /\ UNCHANGED <<mem, dram, files, i, dump>>

\* "Can't open program file"
exit ==
  /\ doing = "initialize" /\ i < Len(files) /\ files[i + 1] = Missing
  /\ doing' = "exited"
  /\ UNCHANGED <<mem, dram, loader, dump>>

\* The loops of load_program and mdump.  Mutant: words are not skipped over.
NextByte(a) == U32(a + 1)
NextWord(a) == U32(a + 4)

\* One round of the loop.  fscanf does not return EOF for a token it cannot
\* match, nor does it skip it: the word before is written again, for ever.
read_word ==
  /\ doing = "load" /\ scanned < Len(files[i + 1])
  /\ LET token == files[i + 1][scanned + 1]
     IN /\ word' = IF token = Unmatched THEN word ELSE token
        /\ scanned' = IF token = Unmatched THEN scanned ELSE scanned + 1
  /\ mem_write_32(U32(MEM_TEXT_START + ii), word')
  /\ ii' = NextWord(ii)
  /\ UNCHANGED <<dram, doing, files, i, dump>>

end_of_file ==
  /\ doing = "load" /\ scanned = Len(files[i + 1])
  /\ doing' = "initialize" /\ i' = i + 1
  /\ UNCHANGED <<mem, dram, files, ii, word, scanned, dump>>

initialized ==
  /\ doing = "initialize" /\ i = Len(files)
  /\ doing' = "prompt"
  /\ UNCHANGED <<mem, dram, loader, dump>>

----------------------------------------------------------------------------
(* mdump, whose addresses are signed; a store by the program; the end      *)

mdump(low, high) ==
  /\ doing = "prompt"
  /\ doing' = "mdump" /\ start' = low /\ stop' = high /\ address' = low /\ copy' = 1
  /\ UNCHANGED <<mem, dram, loader>>

\* Mutant: low to high is taken for a whole number of words.
NotYetBehind(a, high) == a # U32(high + 4)
UpTo(a, high) == S32(a) <= S32(high)

\* mem_read_32(address), also of an address that is not divisible by 4, is
\* printed.
dump_word ==
  /\ doing = "mdump" /\ UpTo(address, stop)
  /\ address' = NextWord(address)
  /\ UNCHANGED <<mem, dram, doing, loader, start, stop, copy>>

\* The terminal has its copy; the range starts anew for the file.
dump_again ==
  /\ doing = "mdump" /\ ~ UpTo(address, stop) /\ copy = 1
  /\ copy' = 2 /\ address' = start
  /\ UNCHANGED <<mem, dram, doing, loader, start, stop>>

dump_end ==
  /\ doing = "mdump" /\ ~ UpTo(address, stop) /\ copy = 2
  /\ doing' = "prompt" /\ start' = 0 /\ stop' = 0 /\ address' = 0 /\ copy' = 0
  /\ UNCHANGED <<mem, dram, loader>>

store_data_to_memory(a, value) ==
  /\ doing = "prompt"
  /\ dram' = WriteGranule(dram, a, value)
  /\ UNCHANGED <<mem, doing, loader, dump>>

\* exit(-1)
Exited == doing = "exited" /\ UNCHANGED vars

Running == load_program \/ exit \/ read_word \/ end_of_file \/ initialized
           \/ dump_word \/ dump_again \/ dump_end

Next ==
  \/ Running \/ Exited
  \/ \E line \in CommandLines : initialize(line)
  \/ \E d \in Dumps : mdump(d[1], d[2])
  \/ \E s \in SWs : store_data_to_memory(s[1], s[2])

Spec == Init /\ [][Next]_vars

\* A command that was given runs; the user need not give one.
FairSpec == Spec /\ WF_vars(Running)

----------------------------------------------------------------------------
(* Properties                                                              *)

Aligned == {4 * k : k \in 0 .. WORDS \div 4 - 1}
Mapped  == {a \in Aligned : Holding(a) # {}}
Scanned == UNION {ToSet(file) : file \in UNION {ToSet(line) \ {Missing} : line \in CommandLines}}
Written == Garbage \cup (Scanned \ {Unmatched})

\* Blocks hold bytes; the loader is inside a file and at a word boundary.
TypeOK ==
  /\ DOMAIN mem = RegionIndex
  /\ \A r \in RegionIndex : mem[r] \in [0 .. MEM_REGIONS[r].size - 1 -> 0 .. BYTE - 1]
  /\ dram \in [Granule -> Word]
  /\ doing \in {"prompt", "initialize", "load", "mdump", "exited"}
  /\ files \in CommandLines /\ i \in 0 .. Len(files) /\ ii \in Aligned /\ scanned \in Nat
  /\ doing = "load" => /\ i < Len(files) /\ files[i + 1] # Missing
                       /\ word \in Written /\ scanned <= Len(files[i + 1])
  /\ start \in Word /\ stop \in Word /\ address \in Word /\ copy \in 0 .. 2

Store_ == INSTANCE WordStore WITH Values <- Written, store <- [a \in Mapped |-> WordAt(a)]

\* Blocks of bytes, searched for by address, behave as one word for each
\* aligned address of a region: a write changes that word and no other, also
\* where a region begins in the word behind another one.
ImplementsWordStore == Store_!Spec

\* The last of the four bytes at a lies behind the block that holds the first.
Behind(a) == \E r \in Holding(a) : a + 3 >= End(r)

\* mem_write_32 and mem_read_32 test the address of the first byte only, yet
\* the loader never writes behind a block, whatever the files, and mdump
\* never reads there from a low divisible by 4, also when its address has
\* wrapped around.  What fetch, which JR and JALR send to any address, reads
\* of a block and what behind it is TextIsLoaded's.
LoaderAndDumpInside ==
  /\ doing = "load" => ~ Behind(U32(MEM_TEXT_START + ii))
  /\ doing = "mdump" /\ start % 4 = 0 => ~ Behind(address)

\* The word the files given to initialize leave at address a: the last file
\* that reaches it, in a word of a region, decides.
Reaching(a) ==
  {n \in DOMAIN files : a >= MEM_TEXT_START /\ a < MEM_TEXT_START + 4 * Len(files[n])}
FromFiles(a) ==
  IF Reaching(a) = {} \/ Holding(a) = {} THEN 0
  ELSE files[Max(Reaching(a))][(a - MEM_TEXT_START) \div 4 + 1]

FileByte(a) == ByteOf(a % 4, FromFiles(a - (a % 4)))

\* What fetch reads of an initialized machine, at any PC, is made of the bytes
\* that the last command line put at its four addresses: neither an earlier
\* program, however long, nor the program's own stores are in it, and of
\* several files each is loaded over the one before.  Outside the regions it
\* is 0.  Only what it reads behind a block, from a PC inside the last word,
\* is not decided.  Module Decoder's FetchedFrom is this for one file that
\* fits the text region, and a PC that stays clear of the region's end.
TextIsLoaded ==
  doing = "prompt" =>
    \A PC \in Word, stray \in Strays :
      LET instr == mem_read_32(PC, stray)
      IN /\ Holding(PC) = {} => instr = 0
         /\ \A r \in Holding(PC) : \A k \in 0 .. 3 :
              PC + k < End(r) => ByteOf(k, instr) = FileByte(PC + k)

\* A dump that ends before the largest int mdump gets to in steps of 4.
Dumpable(low, high) == S32(high) < WORDS \div 2 - 4 + (low % 4)
Endless(file)  == file # Missing /\ Unmatched \in ToSet(file)

\* initialize comes to its end for files of numbers, and mdump for every range
\* that stays clear of the largest int (where its int wraps around, as the
\* compiled loop does); for a file with a token that is no
\* number, and for any other range, they never do.
CommandsEnd ==
  /\ doing \in {"initialize", "load"} /\ (\A file \in ToSet(files) : ~ Endless(file))
       ~> doing \in {"prompt", "exited"}
  /\ doing = "mdump" /\ Dumpable(start, stop) ~> doing = "prompt"
  /\ [](doing = "load" /\ Endless(files[i + 1]) => [](doing = "load"))
  /\ [](doing = "mdump" /\ ~ Dumpable(start, stop) => [](doing = "mdump"))
=============================================================================
