------------------------------ MODULE Harness ------------------------------
(***************************************************************************)
(* The TEST_MODE program of src/src/shell.cpp: test() runs one program     *)
(* after another on one machine.  reset() clears the registers before and  *)
(* after each, initialize() loads the program, go() runs it, and the       *)
(* verdict is read off the registers.  Nobody clears the latches, the      *)
(* scoreboard, the timers or the DRAM between two programs: that is left   *)
(* to reset_state, which only runs for a program stopped by its SYSCALL.   *)
(***************************************************************************)
EXTENDS Retire

CONSTANT Suites    \* what "instructions" and the test_* functions list:
                   \* programs, and the registers they are judged by

ASSUME SuiteAssumption ==
  \A list \in Suites :
    /\ Len(list) \in Nat \ {0} /\ DOMAIN list = 1 .. Len(list)
    /\ \A n \in DOMAIN list :
         /\ list[n].program \in Programs
         /\ \A r \in DOMAIN list[n].expected : r \in StatusIndex /\ list[n].expected[r] \in Word

VARIABLES
  phase, suite, results,   \* where test() is, its programs, results[]
  runs,                    \* history: how each program started and ended
  limit                    \* history: the cycle limit stopped the last program

session == <<phase, suite, results, runs, limit>>
harnessVars == <<allvars, session>>

\* The test at the top of the loop of test().
Test == suite[Len(results) + 1]

----------------------------------------------------------------------------

HarnessInit ==
  /\ stage = "halted"
  /\ PC = 0 /\ REGS = [r \in Reg |-> 0] /\ hi = 0 /\ lo = 0
  /\ RUN_BIT = 0 /\ INSTRUCTION_COUNT = 0
  /\ if_id = EmptyIfId /\ id_ex = EmptyIdEx(0) /\ ex_mem = EmptyExMem /\ mem_wb = EmptyMemWb
  /\ fetch_status = 1 /\ decode_status = 0 /\ execute_status = 0
  /\ memory_status = 0 /\ writeback_status = 0
  /\ fetch_timer = 0 /\ decode_timer = 0
  /\ registerStatus = AllReady /\ dependency = 0 /\ load = 0
  /\ dram = [g \in Granule |-> 0] /\ text = << >>
  /\ slot = [id |-> FALSE, ex |-> Bubble, mem |-> Bubble, wb |-> Bubble] /\ hazard = {}
  /\ phase = "reset" /\ suite \in Suites /\ results = << >> /\ runs = << >> /\ limit = FALSE

\* Mutant: HI and LO are not cleared.
ResetRegisters ==
  REGS' = [r \in Reg |-> 0] /\ UNCHANGED <<hi, lo>> /\ INSTRUCTION_COUNT' = 0 /\ RUN_BIT' = 1
\* reset().  The PC, the latches, the timers and the scoreboard stay.
Reset ==
  REGS' = [r \in Reg |-> 0] /\ hi' = 0 /\ lo' = 0 /\ INSTRUCTION_COUNT' = 0 /\ RUN_BIT' = 1

\* The two calls of reset() around a test.
reset ==
  /\ phase \in {"reset", "reset_after"}
  /\ Reset
  /\ phase' = IF phase = "reset" THEN "initialize"
              ELSE IF Len(results) = Len(suite) THEN "done" ELSE "reset"
  /\ UNCHANGED <<stage, PC, if_id, id_ex, ex_mem, mem_wb, statuses, timers, board, dram, text,
                 history, suite, results, runs, limit>>

\* initialize() and the start of go().  init_memory zeroes the text before it
\* is loaded; init_dram leaves the words in the DRAM (see Dram).
initialize ==
  /\ phase = "initialize"
  /\ phase' = "go" /\ stage' = "check_stall"
  /\ text' = Test.program /\ PC' = TextStart /\ RUN_BIT' = 1
  /\ slot' = IF limit THEN slot ELSE [id |-> FALSE, ex |-> Bubble, mem |-> Bubble, wb |-> Bubble]
  /\ hazard' = IF limit THEN {"leftover"} ELSE {}
  /\ runs' = Append(runs, [cut |-> limit, timed |-> fetch_timer > 0 \/ decode_timer > 0,
                            before |-> dram, idioms |-> {}, after |-> << >>])
  /\ limit' = FALSE
  /\ UNCHANGED <<REGS, hi, lo, INSTRUCTION_COUNT, if_id, id_ex, ex_mem, mem_wb, statuses,
                 timers, board, dram, suite, results>>

\* go(): cycles while RUN_BIT is set.
go ==
  /\ phase = "go" /\ stage \notin {"halted", "trapped"}
  /\ RetireStep
  /\ limit' = (stage = "cycle_end" /\ Capped)
  /\ UNCHANGED <<phase, suite, results, runs>>

\* The test functions: R15 = 0, or the registers a test_* function names.
Right(expected) ==
  \A r \in DOMAIN expected :
    expected[r] = CASE r = HI -> hi [] r = LO -> lo [] OTHER -> REGS[r]

verdict ==
  /\ phase = "go" /\ stage = "halted"
  /\ phase' = "reset_after"
  /\ results' = Append(results, Right(Test.expected))
  /\ runs' = [runs EXCEPT ![Len(runs)].idioms = hazard,
                            ![Len(runs)].after = <<REGS, hi, lo, dram>>]
  /\ UNCHANGED <<allvars, suite, limit>>

\* test() has returned, or SIGFPE has ended the process.
Over == (phase = "done" \/ stage = "trapped") /\ UNCHANGED harnessVars

HarnessStep == reset \/ initialize \/ go \/ verdict

HarnessSpec == HarnessInit /\ [][HarnessStep \/ Over]_harnessVars

\* One thread, none of whose steps waits.
FairHarness == HarnessSpec /\ WF_harnessVars(HarnessStep)

----------------------------------------------------------------------------
(* Properties                                                              *)

\* What earlier programs left could have reached this run of a program: one
\* that the limit stopped left everything; one stopped with a load just behind
\* its SYSCALL left the timers, which let decode start a cycle early, and that
\* changes whether some idioms are met; and reset_id_ex leaves the run_bit of
\* ID/EX (0 on a new machine), which an instruction without a case takes over.
Touched(n) ==
  \/ runs[n].cut
  \/ runs[n].timed /\ runs[n].idioms # {}
  \/ suite[n].program # << >> /\ ~ Known(Head(suite[n].program))

SameStart(m, n) == suite[m].program = suite[n].program /\ runs[m].before = runs[n].before

\* A test does not depend on its place in the suite: run twice on the same
\* memory, a program leaves the same registers and the same memory whatever
\* ran between, except in the three ways above.
Repeatable ==
  \A m, n \in DOMAIN results :
    SameStart(m, n) /\ ~ Touched(m) /\ ~ Touched(n) => runs[m].after = runs[n].after

\* initialize() is to "set up initial state of the machine": a program run
\* again on the same memory gives the same result.
SetsUpMachine ==
  \A m, n \in DOMAIN results : SameStart(m, n) => runs[m].after = runs[n].after

\* The programs of the suite succeed, in whatever order they are run.
TestsPass == \A n \in DOMAIN results : results[n]

Session_ == INSTANCE SeqSession
              WITH pc <- IF phase = "go" THEN RetirePC ELSE 0, regs <- REGS, mem <- dram,
                   running <- (phase = "go" /\ RUN_BIT = 1), void <- (hazard # {})

\* Each program of the suite runs as on a sequential machine with cleared
\* registers and the memory of the programs before it: what the last program
\* left in the timers, the latches and the statuses never reaches it, unless
\* the cycle limit stopped that one.
ImplementsSeqSession == Session_!SessionSpec

\* Every test gets its verdict: neither a program that loops, nor one that
\* runs on behind its end, nor what either leaves behind keeps test() from
\* reaching the last program.
SuiteEnds == <>(phase = "done" \/ stage = "trapped")
=============================================================================
