# ram-sim, specified and checked

A TLA+ development beside `ram-sim`, a simulator of a five-stage MIPS pipeline with a DRAM model
(`src/src/sim.cpp`, `src/src/shell.cpp`, `src/src/dram.cpp`). It models the pipeline cycle by cycle and
stage by stage, compares it with a machine that runs one instruction at a time, compares the DRAM cells and
the byte arrays of the text with plain memories, compares the ALU's C tricks with integer arithmetic, and runs the pipeline
under its two users: a person at the prompt and the test harness. Module texts cite the C names;
`PROJECT.json` maps each definition to its source lines.

## The system

| Part | Code | State | Operations |
|---|---|---|---|
| Stages and latches | `sim.cpp` 30-178, 213-240, 689-768, 1171-1376 | `if_id`, `id_ex`, `ex_mem`, `mem_wb` buffers; one `*_status` flag per stage; `fetch_timer`, `decode_timer` | `process_instruction`: `check_stall`, `write_back`, `memory`, `execute`, `decode`, `fetch`, `reset_state` |
| Scoreboard and bypass | `sim.cpp` 201-225, 445-683, 703-767, 1240-1274 | `registerStatus[34]`, `dependency`, `load`, `syscall` | `CheckDependencies`, the bypass in `decode`, the releases in `write_back` |
| Decoder | `sim.cpp` 242-426, `uninspiring_macros.h` | control fields of `id_ex` | `SetupControlSignals`, `SetControlSignals` |
| ALU | `sim.cpp` 770-1169, `utils.h` | fields of `ex_mem` | `alu` |
| DRAM | `dram.cpp`, `dram.h` | `dimm dram`: chips, banks, rows, nibbles | `init_dram`, `read_dram`, `write_dram` |
| Shell | `shell.cpp` | `CURRENT_STATE`, `RUN_BIT`, `INSTRUCTION_COUNT` | `cycle`, `run`, `go`, `reset`, `initialize`, commands |
| Memory regions | `shell.cpp` 28-91, 112-127, 362-424 | five byte arrays | `mem_read_32`, `mem_write_32`, `load_program` |
| Test harness | `shell.cpp` 481-780 | `results` | `test`: `reset`, `initialize`, `go`, a verdict and `reset` again for each program of `tests/`; R15 = 0 is success, or the registers a `test_*` function names |

There is one thread. The shell's `go` calls `cycle` while `RUN_BIT` is set; `cycle` calls
`process_instruction` and counts. `process_instruction` calls the stages **from the last to the first**, so a
stage reads the latch its predecessor filled in the previous cycle. Stages influence each other out of that
order as well, and this is what makes the code hard:

- `decode` reads `ex_mem` and `mem_wb` to bypass results, guided by a scoreboard that write-back clears;
- a load makes the *next* decode stop the front end, which only `check_stall` starts again;
- `execute` redirects the PC and empties the two latches before it, `decode` redirects it for jumps;
- latch fields an instruction does not set keep the value of the one before it and travel on;
- `write_back` copies the `run_bit` of a latch into `RUN_BIT`, while younger instructions are in flight.

The harness runs 52 programs on one machine. `reset` clears registers and counter, `initialize` the text and the PC;
latches, scoreboard and status flags are cleared by `reset_state` only, at the end of the last cycle of a program that
its `SYSCALL` stopped. Nothing clears the timers and the DRAM.

Fetch reads `MEM_REGIONS`, loads and stores use the DRAM: they are two memories. What makes the parts correct:
operands are those of the youngest older producer, nothing behind a taken branch has an effect, a load is
waited for, a stall ends, a program that exits is stopped; a word stored in the DRAM comes back; each ALU
operation computes its function. `PROJECT.json` lists the hazards line by line.

## Modules

| Module | Models | Notes |
|---|---|---|
| `Words` | u32 and s32 arithmetic, shifts, `sign_extend_*` | a byte has `B` bits, a word `4B`; `B = 8` in the program |
| `Isa` | opcodes, function codes, control records, `Watched` (what `CheckDependencies` looks at) | an instruction is a record of its fields; `PADDING` is an opcode and `UNUSED` a function code or selector without a case. A word whose opcode has no case but whose low bits happen to be a function code, behind an R-type instruction, is not represented |
| `Alu` | `alu` | one operator per field of `ex_mem`; `old` is the value the field keeps |
| `Decoder` | `mem_read_32` of the text, `SetupControlSignals`, `reset_id_ex`, `set_ex_reg_write` | |
| `Granules` | what a caller sees of the DRAM | a *granule* is the word one address selects |
| `Pipeline` | `process_instruction`, `cycle`, `go` | the core: one action per C function, `stage` is the position inside the cycle |
| `SeqMachine` | abstract: one instruction per step | uses the decoder and ALU of the code, no latches, bypass or scoreboard |
| `Retire` | `Pipeline` with history variables and the refinement mapping to `SeqMachine` | |
| `Dram` | `dram.cpp` with its vectors | |
| `GranuleMemory` | abstract: the memory `Dram` promises | |
| `Shell` | `run_shell`: `go`, `run`, `input`, `high`, `low`, `quit` around `Retire` | `command` is the command that is running; the user acts between two cycles |
| `SeqShell` | abstract: `SeqMachine` whose registers are set between two instructions | |
| `Harness` | `test`: `reset`, `initialize`, `go`, verdict around `Retire` | `runs` records how each program started and ended, `limit` whether the cycle limit stopped the last one |
| `SeqSession` | abstract: `SeqMachine` run once per program, from cleared registers on the memory left so far | |
| `MainMemory` | `MEM_REGIONS`: `init_memory`, `mem_read_32`, `mem_write_32`, `load_program`, `initialize`, `mdump` | a file is a sequence of words and of tokens `fscanf` cannot match |
| `WordStore` | abstract: one word per aligned address of a region | |
| `AluReference` | ALU properties over all operand pairs | |
| `Assembler`, `MC*` | instruction constructors and the instances for TLC | |
| `WordProofs`, `PipelineProofs` | theorems | words; the decoder and the ALU by type, the pipeline's invariant, the scoreboard |
| `RetirementProofs` | theorems | the pipeline implements `SeqMachine` |
| `ShellProofs`, `HarnessProofs` | theorems | the prompt implements `SeqShell`, `test` implements `SeqSession` |
| `DramProofs`, `MainMemoryProofs` | theorems | the DRAM and the byte arrays implement their abstract memories |
| `AluReferenceProofs` | theorems | the ALU against integer arithmetic |

**How a cycle maps.** `stage` runs through `check_stall`, `write_back`, `memory`, `execute`, `decode`, `fetch`,
`cycle_end`. A stage whose status flag is 0 is passed by `Skip`. `process_instruction` sets the next stage's flag
before and clears the stage's own flag after the call; the action does both. `decode_stall` is the early return
at the top of `decode`. `trap` is the `SIGFPE` of INT_MIN / -1. `cycle_end` is the tail of
`process_instruction` (`reset_state` when `RUN_BIT` is 0) with the counter and the limit of `cycle`. `halted`
means `go` has returned.

**What is left out of the latches.** Fields no code reads (`rd.value`, `opcode`, the copies of
`branchCondition` and `jumpAddress` behind EX) and the global `jump`, which is written and never read. `syscall` is set and
consumed inside one `decode`. `ex_mem.jumpAddress` is read only in the `execute` that fills it, so it is the operator
`BranchTarget`. `hi.index` and `lo.index` of `id_ex` live inside one `decode` too: `Reserved` is their effect.

**Undefined behaviour.** `data >> (chip_id * 8)` shifts a 32-bit value by up to 56: the committed binary has a
`shr %cl` on a 32-bit register, which takes the amount modulo 32 (`ShiftOf`). `rs * rt` on `s32` overflows: the
binary has a 32-bit `imul` followed by `movslq` (`Product`). INT_MIN / -1 is an `idiv`, which traps. Reads behind
the end of a DRAM row find any byte (`Stray`). `address += 4` in `mdump` overflows an `int` behind 0x7fffffff: the binary
adds, compares and jumps on 32-bit registers, so it wraps to the smallest negative one (`NextWord`, `UpTo`), and `CommandsEnd`
rests on that. `mem_read_32` from inside the last word of a region, which fetch calls with any PC that JR or JALR left and `mdump` with any
`low`, reads up to three bytes behind its block: any bytes (`Strays`).

**Unaligned PCs.** JR and JALR do not check the low two bits of their target. Fetch then takes its four bytes from two words. In
`MainMemory` these are bytes. In the pipeline an instruction is a record, and `FetchedFrom` puts two of them together by the constant
`Straddling`, of which the proofs know only that it gives an instruction and makes the word 0 of two words 0; `Straddles` in `Assembler` is the
instance for the runs. The text has no end there: zeros lie behind it. What a fetch across the end of the region finds is in `MainMemory` only.

## The contract of the pipeline

`SeqMachine` executes the instruction at `pc` with the operands in the registers. `Retire` maps the pipeline to
it: `pc` is the address of the oldest unfinished instruction, and an instruction finishes in `write_back` (in
`memory` if it is a store). The pipeline does **not** implement this for every program. Instead of a weaker
machine, `Retire` names the idioms for which it does not, as predicates on the state in which an instruction is
decoded; once one of them is met, `hazard` is not empty and nothing is promised any more:

| Idiom | Code | What happens |
|---|---|---|
| unknown | `sim.cpp` 273, 346 | no case: the control signals of the instruction before are used again |
| zero | 708-724, 1257 | register 0 can be written, and is never bypassed; only the word 0, `SLL r0, r0, 0`, is harmless |
| unwatched | 577-580 | `BLTZAL`/`BGEZAL` use a stale `rs` (other than register 0) |
| released | 1249-1260 | a write-back releases a register a younger instruction is still computing |
| phantom | 708-724 | the bypass takes the ALU result of a store, branch or jump that only names the register |
| hilo | 725-736 | a zero in HI or LO is not bypassed |
| jalr | 330-338, 742-743 | `JALR` jumps to 4 unless its operand was bypassed |
| div0 | 908-918 | a division by zero writes the previous ALU result to `rd` |
| halt | 1241, 1212-1216 | the store behind a `SYSCALL` that stops the machine is still made |

Every entry is needed: with any single one removed the run `retire` fails, by a step of the pipeline that is no step
of `SeqMachine` or, for *released*, by a register that counts as ready while it is being computed. The table is therefore also the list of what a
programmer of this simulator has to avoid. `SeqMachine` leaves open whether a `SYSCALL` stops the machine,
because the code decides it by the state of the pipeline. Of two idioms a property says what the code does instead: `JalrTargets`
(the operand when it was bypassed, else 4) and `OnlyStoreBehindHalt` (the store right behind the `SYSCALL` and nothing else). `ExitStops` is the half that can be relied on: one that is decoded while
the value of `$v0` is on its way stops the machine. `RunsToCompletion` is the other half, which fails.

## The two users

**Shell.** `SeqShell` adds to `SeqMachine` that a register may be set between two instructions. `ImplementsSeqShell` says this is
what `input`, `high` and `low` do although they act between two *cycles*, with up to four instructions in flight, and that
`run n`, which may stop anywhere, changes nothing. There is one exception, again a named idiom: setting a register that an
instruction in flight has already read (`ReadInFlight`). A register that an older instruction in flight will write keeps
that instruction's result, and younger ones get it by the bypass, as if the command had come first.

**Harness.** In `SeqSession` every program starts afresh: a new promise, whatever idiom the one before used. That makes the
refinement a statement about what survives a program: `reset_state` must have removed all of it. The
exception is a program stopped by the cycle limit (`limit`), after which `reset_state` has not run, and
`SetsUpMachine` shows what then happens. `Repeatable` asks the same of results alone, idioms included: the same program on the same
memory ends with the same registers and memory. Its exceptions (`Touched`) are the ways in which one program does reach
another: the cycle limit; a timer left by a load just behind the `SYSCALL`, which starts decode one cycle early and so decides whether
an idiom is met; and the `run_bit` that `reset_id_ex` leaves, which an instruction without a case takes over.
`TestsPass` runs programs of `src/tests` one after the other, and `SuiteEnds` says that none of them can keep `test` from
its end.

**Main memory.** `MainMemory` shows that the byte arrays behave as a store of words (`ImplementsWordStore`), that what fetch reads is
decided by the last command line (`TextIsLoaded`, which is `FetchedFrom` of module `Decoder` for one file that fits, and a PC clear of the
region's end): byte by byte, at every PC, and 0 outside the regions. Only the bytes a fetch finds behind the end of a block, from a PC
inside its last word, are left open, as the code leaves them. `LoaderAndDumpInside` says that the other callers of `mem_write_32` and
`mem_read_32` do not get there: the loader never, and
`mdump` not from a word boundary, wherever its address wraps to. `CommandsEnd` says exactly when commands end: not for a file with a token
that is no number, which is read for ever, and not for a dump to the last word below 0x80000000.

## What the runs check

Words have 8 bits in all runs (`B = 2`): a nibble has one bit, a byte two, a halfword four. Everything the code
writes as a multiple of 8 bits scales with it, and each kind of width (operand, immediate, load size, shift
amount) still has more than one value on both sides of its sign. There are five registers: `$0`, one general
register, `$v0`, `$t7` (where the cycle limit leaves its mark) and `$ra`; the memory has four granules.
Programs are *all* sequences of the stated length over the stated instructions, followed by the exit sequence of the
repository's tests, so producers and consumers meet at every distance at which two instructions can be
in flight together (three), and behind every kind of neighbour.

| Run | Programs, bounds | Properties | Result |
|---|---|---|---|
| `pipeline` | 13^3 programs of 3 + 2 instructions, 8^4 of 4 + 2 that write `$v0` at their end only; 22 cycles | `TypeOK`, `StallDiscipline`, `LoadInterlock`, `NoStrayWrite`, `StopsAtExit` | hold, 534,285 states |
| `pipeline_live` | 6^2 programs, loops and traps among them, 12 cycles | `GoReturns`, `StallEnds` | hold, 2,409 states |
| `pipeline_exit` | the program of `tests/test_pipe_lui_lw_sw.s` | `RunsToCompletion` | **violated** |
| `retire` | 4 x 7^4 programs of 4 + 2: ALU, HI and LO, control, memory; 4^4 that jump inside words; 20 cycles | `ScoreboardSound`, `ExitStops`, `ImplementsSeqMachine`, `JalrTargets`, `OnlyStoreBehindHalt` | hold, 920,195 states |
| `dram` | 2 banks x 2 rows x 2 columns, 18 addresses, 2 values, 2 calls of `init_dram` | `TypeOK`, `ImplementsGranuleMemory` | hold |
| `dram_words` | the same | `OtherWordsKept` | **violated** |
| `alu_reference` | all 65,536 pairs of operands, all shift amounts, all eight addresses of a granule | `ShiftsDivide`, `Comparisons`, `Products`, `Divisions`, `SubwordRoundTrip`, `Additions` | hold |
| `shell` | 8^2 programs of 2 + 2 and 4^3 of 3 + 2 instructions, 12 cycles, `go` and `run 1`, one register set at any cycle | `ImplementsSeqShell` | holds, 256,116 states |
| `harness` | 1,863 suites p, q, p: p of 9^2 programs, q of 23 that end in every way, 14 cycles | `Repeatable`, `ImplementsSeqSession` | hold, 372,329 states |
| `harness_tests` | 12 programs of `src/tests` in 4 orders, and programs that run on, loop, are cut off or trap, one behind the other; 80 cycles, 11 registers | `TestsPass`, `SuiteEnds` | hold, 11,398 states |
| `harness_left` | one suite p, q, p with q a loop | `SetsUpMachine` | **violated** |
| `main_memory` | 10 command lines, 9 ranges to dump, 3 of them from inside a word, 5 regions of 4 to 12 bytes in 8-bit addresses, fetch at all 256 | `TypeOK`, `LoaderAndDumpInside`, `TextIsLoaded`, `ImplementsWordStore`, `CommandsEnd` | hold, 3,538 states |

Why the bounds are enough. The pipeline has five stages and a load holds it for two cycles: what an
instruction can meet is decided by the four around it. The cycle limits (`MaxCycles`, 5000 in the code) let
every straight program of the run finish, and cut the loops, so both ways of stopping occur, also in the same
cycle. `pipeline_live` needs a limit large enough for the guard `INSTRUCTION_COUNT + 3 < MaxCycles` of
`StallEnds` to be met by stalls in every position. The DRAM instance keeps the structure that matters: the row
is selected by the same bits as the upper part of the column (`ROWSTRIDE < COLS`), addresses exist beyond
the last granule, and every granule is addressed at several of its eight bytes.

For the harness, what a program can leave to the next is in the latches, flags, scoreboard and timers at its last cycle, which the four
instructions around the `SYSCALL` decide: `Tails` has one of each class there, and loads at the distances that leave a timer
running. A first and a third run of the same program around it are enough to compare. The programs of `harness_tests` have
the instructions of the repository's, with immediates cut to four bits and addresses to the small text. In the shell a second `input` in
the same program would meet the same four instructions as the first. In `main_memory` regions touch (stack and KTEXT, at the
smallest negative int), a file is long enough to leave the text region and reach the next, and the words of the files have four
different bytes.

**Fairness.** `FairSpec` of `Pipeline` assumes weak fairness of `Step`: some step of the program is taken when one is possible. The
simulator is one thread, no step waits for anything, and `go` calls `cycle` in a loop, so this is no more than
the program running. `FairHarness` assumes the same of `test`, `FairSpec` of `MainMemory` of a command
that has been given; it does not assume that the user gives one. Without the cycle limit `GoReturns` would be false: it is the limit that stops loops.

**Deadlock** is checked everywhere; `Stopped` (`Over`, `Ended`, `Exited`) lets a halted or trapped machine,
or a process that has ended, stay as it is.

`PROJECT.json` lists for every property of a passing run a mutated definition (they stand next to the
definitions they mutate, marked *Mutant*) with which TLC finds the property violated.

### Disagreements between the code and what the repository says of it

- **A program that ends with the exit sequence may not be stopped by it** (`pipeline_exit`). `SYSCALL` stops the
  machine only if `$v0` is still being computed when it is decoded (`sim.cpp:459`). The tests end with
  `addiu $v0, $zero, 0xa; syscall` back to back, which works; `tests/test_pipe_lui_lw_sw.s` loads `$v0`, the load stall
  lets the load finish first, and the machine runs through zeros to the cycle limit, which puts 0xffffffff into
  R15, the register in which the tests report a failure. `shell.cpp:138` promises "run program to completion".
  `StopsAtExit` shows the sequence does work when nothing else writes `$v0`; an instruction that writes `$v0`
  two places before the sequence's `addiu` can release it early (idiom *released*).
- **The words at 8k and 8k + 4 share their cells** (`dram_words`; `dram.cpp:19`).
- **`initialize` does not set up the machine after a program stopped by the cycle limit** (`harness_left`; `shell.cpp:430`).

Five more disagreements are part of what a passing property says holds:

- **`init_dram` does not initialize on a second call** (`dram.cpp:46`): `ImplementsGranuleMemory`, whose abstract memory has no
  action that clears it.
- **JAL and JALR link to a wrong address from the second 32 KiB of the text on** (`sim.cpp:373`, 332; `shell.cpp:573`):
  `Additions` says for which addresses the link is right. The simulator itself leaves 0xffff8004 in R31 for a JAL at 0x00408000.
- **Several program files are loaded over each other** (`shell.cpp:374`, 460): `TextIsLoaded`, the last file that reaches a word decides.
- **`mdump` shows a memory the program does not store into** (`shell.cpp:140`): `TextIsLoaded` again.
- **`mdump` does not end when `high` is in the last word below 0x80000000** (`shell.cpp:140`): `CommandsEnd`, in both directions.

`help` says `run n` executes n instructions (`shell.cpp:139`) and the comment on `run` says cycles (172); it runs cycles.

## What is proved

All theorems are checked by TLAPS to the last step. They hold for every byte width `B`, register file, memory size, set
of programs, initial registers, cycle limit, commands of the user and suite of programs, for every geometry of the DRAM and for all memory regions and files that satisfy the
assumptions below. TLC evaluates every assumption in the runs.

| Theorem | States | Module |
|---|---|---|
| `TypeCorrect`, `StallsAreTimed`, `LoadsAreWaitedFor`, `WritesStayInside` | `Spec => []` `TypeOK`, `StallDiscipline`, `LoadInterlock`, `NoStrayWrite` | `PipelineProofs` |
| `RegistersStayBusy` | `RetireSpec => []ScoreboardSound` | `PipelineProofs` |
| `HistoryOnly` | `RetireSpec => Spec`: the history variables only watch | `PipelineProofs` |
| `RetirementRefines`, `ExitsAreSeen` | `RetireSpec => ImplementsSeqMachine`, `RetireSpec => ExitStops` | `RetirementProofs` |
| `SessionRefines` | `ShellSpec => ImplementsSeqShell` | `ShellProofs` |
| `SuiteRefines` | `HarnessSpec => ImplementsSeqSession` | `HarnessProofs` |
| `TypeCorrect`, `CellsImplementGranules` | `Spec => []TypeOK`, `Spec => ImplementsGranuleMemory` | `DramProofs` |
| `TypeCorrect`, `LoaderAndDumpStayInside`, `TextLoaded`, `BlocksImplementWords` | `Spec => []` `TypeOK`, `LoaderAndDumpInside`, `TextIsLoaded`; `Spec => ImplementsWordStore` | `MainMemoryProofs` |
| `ComparisonsHold`, `ShiftsDivideHolds`, `AdditionsHold`, `SubwordRoundTripHolds`, `DivisionsHold`, `ProductsHold` | the six properties of the run `alu_reference` | `AluReferenceProofs` |
| `BorrowIsUnsignedLess` | the comparison `alu` makes for `SLTIU` is the unsigned one | `WordProofs` |

**Assumptions.** `B` is positive (`ByteAssumption`), and even where nibbles are built (`LayoutAssumption`). `PowerAssumption` is what
the provers are told about exponentiation: 2^0 = 1, 2^1 = 2, powers up to the width of a word are positive, and 2^(m+n) = 2^m * 2^n
up to that width. `&`, `|`, `^` of words are words (`BitwiseAssumption`). The named registers exist, programs are sequences of
instructions, initial values are words, memory and cycle limit are not empty. What the user types at the prompt are registers
and words; a suite lists at least one program (the 52 of `shell.cpp:718`), each with the registers it is judged by (`SuiteAssumption`). The geometry of the DRAM: the column
id overlaps the row id (`COLS` is a multiple of `ROWSTRIDE`), the granules are those the address can select and a multiple of the columns,
a stray cell holds a byte. Regions are disjoint, aligned and inside the address space, and no file is so long that
its last address wraps around; `mdump` is given any two words, and any bytes may lie behind a block (`Strays`).
Two neighbouring words of a program make up an instruction (`Straddling`, `ProgramAssumption`).

**The pipeline by itself.** None of the four properties of `Pipeline` is inductive. The invariant `IInv` adds two parts to
`TypeOK` and `StallDiscipline`:

- `LatchInv`: a control record in ID/EX reads memory only if its ALU operation is a load (an unknown
  opcode keeps the old record, JAL and JALR pass the opcode of LB, and a flush empties the latch, so this is a
  claim about all of them), `rd` is 32 or 33 only for MTHI and MTLO, and a result that goes to the register file
  names a register.
- `LoadProgress`: where a load between decode and write-back is, as a function of `stage`, the flag `load` and the
  timer. It says the timer is 2 at the end of the cycle in which decode stalled, 1 while the load is in memory, and 0
  when write-back stores it; `decode` with `load = 0` is in none of these places.

There is one lemma per action (`CheckStallInv` ... `CycleEndInv`), each with a step per conjunct the action can
disturb. The first part of `PipelineProofs` supplies what each of them needs of the decoder and the ALU: types of each field of EX/MEM, and
`ControlOfType`, `MoveToControl`, `SetupType` for the control record. That `alu_result` is a word rests on the width of each
ALU operation, that `loadSize` is a size whenever it is used rests on `LatchInv`.

**The scoreboard.** `ScoreboardSound` speaks of instructions, the scoreboard of latches. `BoardInv` ties them together, in a live
machine outside the idioms: a stage that has run has cleared its flag (`Due`); what a latch names, and what its write-back
releases, is what the instruction in that slot writes (`Slots`); every register an instruction in flight will write is busy,
loads apart (`Marked`); the registers of a younger instruction are clear of what the write-back of an older one releases (`Apart`,
where the idiom *released* is used); and what follows a load through the pipeline is a bubble (`Shadow`), which is why the
load's own missing mark does no harm.

**The pipeline implements `SeqMachine`.** The refinement mapping needs to know what is in the latches, and in which order. `RetireInv` says:

- `Results`: what is due in MEM/WB, EX/MEM and ID/EX is what `SeqMachine` computes for the instruction in that
  slot, *with the registers as they will be when the latches ahead have been written back* (`RegsW`, `RegsM`; `WbLatch`,
  `MemLatch`, `ExLatch`). A latch without an instruction writes nothing, or register 0 with its own value (`Harmless`).
- `Order`: each instruction in flight is followed by the one `SeqMachine` would run next (`NextOf`): nothing behind a taken branch or a jump
  is left, and fetch continues in the right place.
- `Origins`: what is in flight was read from the text at its address. `Empties` and `FrontEnd`: which slots are bubbles in which part of a stall.
- `Neighbours`: the copy of HI or LO that travels in a younger instruction's latch, which `decode` may bypass, and that no store
  follows a `SYSCALL` that stops the machine. `HiLoOwned`: HI and LO are busy only while they are being computed.

The heart is `DecodedSame`: the operands `decode` hands on, bypassed or not, are those of `SeqMachine`. It uses every idiom about
operands, the load interlock (`NoLoadAhead`), the marks of `BoardInv` and the rule that the younger producer wins. There is again one lemma per action
(`CheckStallOrdered` ... `CycleEndOrdered`), and `PipelineInOrder` states the invariant. From it, `WriteBackExecutes` and `StoreExecutes` show that the
write-back of an instruction, or for a store its memory stage, is the step `Execute`; `LastCycle` is `TimeOut`; decoding an idiom
is `Leave`; all other steps leave everything `SeqMachine` has as it is (`OthersStutter`, `WriteBackStutters`, `MemoryStutters`).
TLC checked the parts of `RetireInv` on the instance of the run `retire` before they were proved.
`ExitsAreSeen` follows from the same invariant: at `decode` only EX/MEM and MEM/WB can hold the producer of `$v0`, it is no load
(`NoLoadAhead`), and so its register is marked.

**The prompt.** `ShellInv` is the invariant of the pipeline together with what `command` says of `stage`: the user acts only between
cycles. `SessionInOrder` needs that setting a register keeps `RetireInv`, although that invariant says what the latches hold *as a function of
the registers*. It does if no instruction in flight has read the register: `SameOperands` and `SameHolding` show that
latches that differ in an operand nobody reads lead to the same results, `PendingGiven` that a register which an older instruction in
flight will write comes out the same, and `GivenResults` puts these together. With `ReadInFlight` the idiom is noted, and nothing is claimed.

**The suite.** Between two programs `IInv` does *not* hold: a timer may be left running while `reset_state` has set fetch going, which
`StallDiscipline` forbids. `HarnessInv` therefore has two kinds of front end. `Steady` is the stall discipline. `Warm` is a program that
starts with such a timer: fetch runs, decode is started when the timer runs out, which may be a cycle early, and everything behind decode is empty
(`CleanInv`), until the timer reaches 0 after at most one fetch (`WarmFront`) and the front end is steady. In that time nothing the sequential
machine has is changed (`WarmClean`), so `StepFinishes`, the step lemma of the pipeline, is needed in steady states only. `LoadsAtRest` and
`Idle` are what `go` leaves to the next `initialize`: the latches of `reset_state` if a `SYSCALL` stopped the program, and anything in the types if
the limit did, after which `hazard` is not empty. TLC checked `HarnessInv` on the programs of the run `harness` before it was proved.

**Memories.** `DramProofs` shows that different granules have different cells, that eight nibbles make up the word that was written whatever
the stray cells behind a row hold, and that the cells a second `init_dram` appends are selected by no address. `TextLoaded` needs `Loaded`: while a file
is half loaded, every word has been reached by this file up to `ii`, or holds what the files before it and, above that, the fresh memory had.

**What the proofs found.** `CellsImplementGranules` cannot be proved unless the number of granules is a multiple of the number of columns, as
it is in the code: with other sizes two granules share cells. In `Retire` three idioms were drawn in the wrong place:
bubbles counted as writers of register 0 (in *released* and *unwatched*), which excluded harmless programs, and every
`SLL` of register 0 into itself counted as harmless, although one with a shift amount changes it. No program of the runs shows either.
In `Shell` the first attempt at `SessionInOrder` failed because `simulate` could also be taken at the prompt, with no command
running: cycles came from nowhere, which the code does not allow and which hid in the refinement as harmless extra steps. It is a guard of its own now.
`StallDiscipline` turned out to be false for the second program of a suite, which is where `Warm` comes from.

**Only model-checked.** `Repeatable` compares two runs of one program cycle by cycle, idioms included. `SeqMachine` promises nothing about
programs with idioms, so a proof would need the state of the whole pipeline after n cycles as a function of where it started, by induction over n: that
is induction over data. `TestsPass` and `StopsAtExit` are about what certain programs compute; what holds of the exit sequence in every
program is `ExitStops`, which is proved. `JalrTargets` and `OnlyStoreBehindHalt` are about programs that have used an idiom, of which
the invariants of the proofs say nothing any more. The liveness properties `GoReturns`, `StallEnds`, `SuiteEnds` and `CommandsEnd` need
fairness, which is out of the prover's reach.

## Not modelled

`?` and `rdump`, which only print; how commands and numbers are parsed; `dumpsim`, the file. `reset_staller` and its
structs, which nothing uses. `input` with a register number outside 0..31 writes outside the array and is taken not to happen;
Programs of the pipeline modules are shorter than
the text region (`MainMemory` has longer ones). `init_memory` allocates anew without freeing: the model has the
new block only.

## Plan

Built, in this order: `Words`, `Isa`, `Alu`, `Decoder`, `Granules`, `Pipeline` with its runs; `SeqMachine` and `Retire`;
`GranuleMemory` and `Dram`; `AluReference`; the proofs of `IInv`; `SeqSession` and `Harness`; `SeqShell` and `Shell`; `WordStore` and
`MainMemory`; the proofs of the DRAM, the main memory and the ALU reference; `BoardInv`, `RetireInv` and the refinement of `SeqMachine`. Then `ExitStops`, and the refinements of
`SeqShell` and `SeqSession` around it.

Left: a proof of `Repeatable`, for which the prover would have to follow two runs in step; and `StopsAtExit` for every program that writes
`$v0` in its exit sequence only, of which `ExitStops` is the part about the pipeline.
