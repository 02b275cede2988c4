--------------------------- MODULE HarnessProofs ---------------------------
(***************************************************************************)
(* test() runs its programs as SeqSession does: whatever a program that    *)
(* its SYSCALL stopped has left in the timers, the next one starts on a    *)
(* pipeline in order, for every word size, register file, memory, cycle    *)
(* limit and suite of programs.                                            *)
(***************************************************************************)
EXTENDS Harness, RetirementProofs, SequenceTheorems

----------------------------------------------------------------------------
(* The inductive invariant                                                 *)

\* What StallDiscipline says of a machine that runs.
Steady ==
  /\ fetch_timer > 0 => fetch_status = 0 /\ decode_status = 0
  /\ fetch_status = 0 => fetch_timer > 0

\* A program that starts with a timer running behind the last one: reset_state
\* has set fetch going, decode starts when it runs out, which may be a cycle
\* early, and nothing is in flight.
Warm ==
  /\ fetch_timer > 0 /\ fetch_status = 1
  /\ execute_status = 0 /\ memory_status = 0 /\ writeback_status = 0
  /\ load = 0 /\ id_ex.ctl.mread = 0
  /\ CASE stage \in {"check_stall", "halted"} -> decode_status = 1 => fetch_timer = 1
       [] stage = "cycle_end"                 -> decode_status = 1 /\ fetch_timer = 1
       [] OTHER                               -> decode_status = 0 /\ fetch_timer = 1
  /\ Live => RUN_BIT = 1

\* It starts from the latches reset_state leaves.
Fresh ==
  /\ slot.ex = Bubble /\ slot.mem = Bubble /\ slot.wb = Bubble
  /\ ex_mem = EmptyExMem /\ mem_wb = EmptyMemWb
  /\ registerStatus = AllReady

\* What LoadProgress will say when the machine is started again.
LoadsAtRest ==
  /\ id_ex.ctl.mread = 1 => load = 1
  /\ load = 1 => fetch_timer = 0 /\ decode_status = 1
  /\ memory_status = 1 /\ ex_mem.mread = 1 => fetch_timer = 2
  /\ writeback_status = 1 /\ mem_wb.mem_to_rg = 1 => fetch_timer = 1

\* The front end while go() runs, and as go() leaves it to the next program.
FrontInv ==
  /\ fetch_timer = decode_timer
  /\ stage # "trapped" => Steady \/ Warm
  /\ stage = "halted" => LoadsAtRest

\* The pipeline of a program behind one that its SYSCALL stopped.
CleanInv ==
  Live /\ hazard = {} /\ Warm => Fresh /\ (decode_status = 0 => ~ slot.id)

DrivenInv ==
  TypeOK /\ LatchInv /\ LoadProgress /\ FrontInv /\ BoardInv /\ RetireInv /\ CleanInv

\* What reset_state leaves.
Idle ==
  /\ fetch_status = 1 /\ decode_status = 0 /\ execute_status = 0
  /\ memory_status = 0 /\ writeback_status = 0
  /\ if_id = EmptyIfId /\ id_ex = EmptyIdEx(id_ex.run_bit)
  /\ ex_mem = EmptyExMem /\ mem_wb = EmptyMemWb
  /\ registerStatus = AllReady /\ dependency = 0 /\ load = 0

\* Where test() is.
LoopInv ==
  /\ phase \in {"reset", "initialize", "go", "reset_after", "done"}
  /\ suite \in Suites /\ results \in Seq(BOOLEAN) /\ limit \in BOOLEAN
  /\ phase \in {"reset", "initialize", "go"} => Len(results) < Len(suite)
  /\ Len(results) <= Len(suite)
  /\ phase # "go" => stage = "halted"
  /\ phase = "initialize" => REGS = [r \in Reg |-> 0] /\ hi = 0 /\ lo = 0
  /\ Live => ~ limit
  /\ phase = "go" /\ stage = "halted" => RUN_BIT = 0
  /\ stage = "halted" /\ ~ limit => Idle

HarnessInv == DrivenInv /\ LoopInv

\* In words of IInv: steady is what the stall discipline asks for.
LEMMA SteadyIsDisciplined ==
  ASSUME FrontInv, Live, Steady
  PROVE  StallDiscipline
  BY DEF FrontInv, Steady, StallDiscipline, Live

----------------------------------------------------------------------------
(* Nothing in flight                                                       *)

\* The bubble is well typed.
LEMMA BubbleType == Bubble \in [ir : Instr, pc : Word, real : BOOLEAN, fwd : Bit]
  <1>1. Nop \in Instr
    BY EmptyLatchTypes DEF EmptyIfId
  <1> QED BY <1>1, WordInt DEF Bubble, Bit

Unfilled ==
  /\ SlotTypes /\ Fresh /\ FrontEnd /\ RUN_BIT = 1
  /\ execute_status = 0 /\ memory_status = 0 /\ writeback_status = 0

\* A pipeline with nothing in flight is in order as soon as its front end is.
LEMMA FreshInOrder ==
  Unfilled => BoardInv /\ RetireInv
  <1> SUFFICES ASSUME Unfilled PROVE BoardInv /\ RetireInv
    OBVIOUS
  <1> USE DEF Unfilled, Fresh
  <1>1. Slots
    <2>1. slot.wb.ir = Nop /\ slot.mem.ir = Nop
      BY WritesIndices
    <2>2. Releases(EmptyMemWb, Nop) /\ Releases(EmptyExMem, Nop)
      BY WritesIndices DEF Releases, EmptyMemWb, EmptyExMem
    <2> QED BY <2>1, <2>2 DEF Slots
  <1>2. Due /\ Marked /\ Apart /\ Shadow
    BY DEF Due, Marked, Apart, Shadow
  <1>3. Origins /\ Empties /\ Results /\ Order /\ Neighbours
    BY DEF Origins, Empties, Results, Order, Neighbours
  <1>4. HiLoOwned
    BY StatusIndices DEF HiLoOwned, AllReady
  <1> QED BY <1>1, <1>2, <1>3, <1>4 DEF BoardInv, RetireInv, Ordered

\* The same of the next state.
LEMMA FreshInOrderNext == (Unfilled => BoardInv /\ RetireInv)'
  BY FreshInOrder, PTL

----------------------------------------------------------------------------
(* A program starts while a timer of the last one runs                     *)

\* What can happen then: the timers run, an instruction is fetched.
WarmAction ==
  \/ check_stall /\ UNCHANGED history
  \/ fetch /\ slot' = [slot EXCEPT !.id = TRUE] /\ UNCHANGED hazard
  \/ cycle_end /\ UNCHANGED history
  \/ /\ \/ Skip("write_back", writeback_status, "memory")
        \/ Skip("memory", memory_status, "execute")
        \/ Skip("execute", execute_status, "decode")
        \/ Skip("decode", decode_status, "fetch")
     /\ UNCHANGED history

\* No stage but fetch is due.
LEMMA WarmActions ==
  ASSUME Warm, RetireStep
  PROVE  WarmAction
  <1>1. ~ write_back /\ ~ memory /\ ~ execute /\ ~ trap
    BY DEF Warm, write_back, memory, execute, trap
  <1>2. ~ decode /\ ~ decode_stall
    BY DEF Warm, decode, decode_stall
  <1>3. ~ Skip("fetch", fetch_status, "cycle_end")
    BY DEF Warm, Skip
  <1> QED BY <1>1, <1>2, <1>3 DEF RetireStep, WarmAction

\* Nothing else moves.
LEMMA WarmKept ==
  ASSUME Warm, WarmAction, SlotTypes
  PROVE  /\ Live
         /\ UNCHANGED <<hi, lo, id_ex, ex_mem, mem_wb, registerStatus, dependency, load, dram, text, hazard,
                        fetch_status, execute_status, memory_status, writeback_status,
                        slot.ex, slot.mem, slot.wb>>
         /\ ~ (stage = "cycle_end" /\ Capped) => UNCHANGED <<REGS, RUN_BIT>>
  <1>1. CASE check_stall /\ UNCHANGED history
    BY <1>1 DEF Warm, Live, check_stall, Resumed, cpu, board, history
  <1>2. CASE fetch /\ slot' = [slot EXCEPT !.id = TRUE] /\ UNCHANGED hazard
    <2>1. slot'.ex = slot.ex /\ slot'.mem = slot.mem /\ slot'.wb = slot.wb
      BY <1>2, HeldTypes
    <2> QED BY <1>2, <2>1 DEF Live, fetch, board
  <1>3. CASE cycle_end /\ UNCHANGED history
    <2>1. Live /\ RUN_BIT = 1
      BY <1>3 DEF Warm, Live, cycle_end
    <2>2. UNCHANGED <<board, statuses, if_id, id_ex, ex_mem, mem_wb>>
      BY <1>3, <2>1 DEF cycle_end
    <2> QED BY <1>3, <2>1, <2>2 DEF cycle_end, board, statuses, history
  <1>4. CASE /\ \/ Skip("write_back", writeback_status, "memory")
                \/ Skip("memory", memory_status, "execute")
                \/ Skip("execute", execute_status, "decode")
                \/ Skip("decode", decode_status, "fetch")
             /\ UNCHANGED history
    BY <1>4 DEF Live, Skip, cpu, statuses, board, history
  <1> QED BY <1>1, <1>2, <1>3, <1>4 DEF WarmAction

\* The timers reach 0 behind at most one fetch.
LEMMA WarmFront ==
  ASSUME TypeOK, FrontInv, SlotTypes, Warm, WarmAction
  PROVE  FrontInv' /\ (Live' /\ RUN_BIT = 1 => RUN_BIT' = 1)
  <1>1. /\ Live /\ RUN_BIT = 1 /\ fetch_timer \in 1 .. 2 /\ decode_timer = fetch_timer /\ decode_status \in Bit
        /\ fetch_status = 1 /\ execute_status = 0 /\ memory_status = 0 /\ writeback_status = 0
        /\ load = 0 /\ id_ex.ctl.mread = 0
    BY WarmKept DEF Warm, TypeOK, FrontInv
  <1>2. /\ fetch_status' = 1 /\ execute_status' = 0 /\ memory_status' = 0 /\ writeback_status' = 0
        /\ load' = 0 /\ id_ex'.ctl.mread = 0
    BY <1>1, WarmKept
  <1>3. LoadsAtRest'
    BY <1>2 DEF LoadsAtRest
  <1>4. CASE check_stall
    <2>1. /\ stage = "check_stall" /\ stage' = "write_back" /\ RUN_BIT' = 1
          /\ fetch_timer' = fetch_timer - 1 /\ decode_timer' = fetch_timer'
          /\ fetch_timer = 1 => decode_status' = 1
          /\ fetch_timer # 1 => decode_status' = decode_status
      BY <1>1, <1>4 DEF check_stall, Tick, Resumed
    <2>2. CASE fetch_timer = 1
      BY <1>2, <2>1, <2>2 DEF FrontInv, Steady
    <2>3. CASE fetch_timer = 2
      <3>1. decode_status = 0
        BY <1>1, <2>1, <2>3 DEF Warm, Bit
      <3> QED BY <1>2, <2>1, <2>3, <3>1 DEF FrontInv, Warm
    <2> QED BY <1>1, <2>1, <2>2, <2>3
  <1>5. CASE fetch
    <2>1. /\ stage = "fetch" /\ stage' = "cycle_end" /\ RUN_BIT' = 1 /\ decode_status' = 1
          /\ fetch_timer' = fetch_timer /\ decode_timer' = decode_timer
      BY <1>1, <1>5 DEF fetch, timers
    <2>2. fetch_timer = 1
      BY <2>1 DEF Warm
    <2> QED BY <1>1, <1>2, <2>1, <2>2 DEF FrontInv, Warm
  <1>6. CASE cycle_end
    <2>1. /\ stage = "cycle_end" /\ stage' \in {"halted", "check_stall"} /\ decode_status' = decode_status
          /\ fetch_timer' = fetch_timer /\ decode_timer' = decode_timer /\ (Live' => RUN_BIT' = 1)
      BY <1>1, <1>6 DEF cycle_end, timers, statuses, Live
    <2>2. fetch_timer = 1 /\ decode_status = 1
      BY <2>1 DEF Warm
    <2> QED BY <1>1, <1>2, <1>3, <2>1, <2>2 DEF FrontInv, Warm
  <1>7. CASE \/ Skip("write_back", writeback_status, "memory") \/ Skip("memory", memory_status, "execute")
             \/ Skip("execute", execute_status, "decode") \/ Skip("decode", decode_status, "fetch")
    <2>1. /\ stage \in {"write_back", "memory", "execute", "decode"}
          /\ stage' \in {"memory", "execute", "decode", "fetch"} /\ RUN_BIT' = 1
          /\ fetch_timer' = fetch_timer /\ decode_timer' = decode_timer /\ decode_status' = decode_status
      BY <1>1, <1>7 DEF Skip, statuses, timers
    <2>2. fetch_timer = 1 /\ decode_status = 0
      BY <2>1 DEF Warm
    <2> QED BY <1>1, <1>2, <2>1, <2>2 DEF FrontInv, Warm
  <1> QED BY <1>4, <1>5, <1>6, <1>7 DEF WarmAction

\* Types, latches and loads.
LEMMA WarmTypes ==
  ASSUME TypeOK, LatchInv, SlotTypes, Warm, WarmAction
  PROVE  TypeOK' /\ LatchInv' /\ LoadProgress'
  <1>1. /\ UNCHANGED <<hi, lo, id_ex, ex_mem, mem_wb, registerStatus, dependency, load, dram, text,
                       fetch_status, execute_status, memory_status, writeback_status>>
        /\ Live /\ RUN_BIT = 1 /\ RUN_BIT \in Bit
    BY WarmKept DEF Warm, TypeOK
  <1>2. LatchInv'
    BY <1>1 DEF LatchInv, Destined
  <1>3. LoadProgress'
    BY <1>1 DEF Warm, LoadProgress
  <1>4. /\ stage' \in Stages /\ RUN_BIT' \in Bit /\ INSTRUCTION_COUNT' \in Nat /\ decode_status' \in Bit
        /\ fetch_timer' \in 0 .. 2 /\ decode_timer' \in 0 .. 2
    <2>1. CASE check_stall
      BY <1>1, <2>1 DEF TypeOK, check_stall, Tick, Resumed, Stages, Bit
    <2>2. CASE fetch
      BY <1>1, <2>2 DEF TypeOK, fetch, timers, Stages, Bit
    <2>3. CASE cycle_end
      BY <1>1, <2>3 DEF TypeOK, cycle_end, Counted, timers, statuses, Stages, Bit
    <2>4. CASE \/ Skip("write_back", writeback_status, "memory") \/ Skip("memory", memory_status, "execute")
               \/ Skip("execute", execute_status, "decode") \/ Skip("decode", decode_status, "fetch")
      BY <1>1, <2>4 DEF TypeOK, Skip, timers, statuses, Stages, Bit
    <2> QED BY <2>1, <2>2, <2>3, <2>4 DEF WarmAction
  <1>5. PC' \in Word /\ if_id' \in [ir : Instr, pc : Word] /\ REGS' \in [Reg -> Word]
    <2>1. CASE fetch
      <3>1. PC + 4 \in Int
        BY WordSums DEF TypeOK
      <3>2. PC' \in Word
        BY <2>1, <3>1, U32Type DEF fetch
      <3> QED BY <2>1, <3>2, FetchedType DEF TypeOK, fetch
    <2>2. CASE cycle_end
      <3>1. WORDS - 1 \in Word
        BY WordsPositive DEF Word
      <3>2. if_id' = if_id /\ PC' = PC
        BY <1>1, <2>2 DEF cycle_end
      <3>3. REGS' = REGS \/ REGS' = [REGS EXCEPT ![R_T7] = WORDS - 1]
        BY <2>2 DEF cycle_end
      <3> QED BY <3>1, <3>2, <3>3 DEF TypeOK
    <2>3. CASE ~ fetch /\ ~ cycle_end
      BY <2>3 DEF TypeOK, WarmAction, check_stall, Skip, cpu
    <2> QED BY <2>1, <2>2, <2>3
  <1>6. TypeOK'
    BY <1>1, <1>4, <1>5 DEF TypeOK
  <1> QED BY <1>2, <1>3, <1>6

\* Behind a program that its SYSCALL stopped, the pipeline stays in order.
LEMMA WarmClean ==
  ASSUME TypeOK, FrontInv, BoardInv, RetireInv, CleanInv, Warm, WarmAction
  PROVE  BoardInv' /\ RetireInv' /\ CleanInv' /\ (Live' /\ hazard = {} => FrontWb' = FrontWb)
  <1>1. /\ SlotTypes
        /\ UNCHANGED <<id_ex, ex_mem, mem_wb, registerStatus, text, hazard, execute_status, memory_status,
                       writeback_status, slot.ex, slot.mem, slot.wb>>
        /\ Live /\ RUN_BIT = 1 /\ slot.id \in BOOLEAN
    BY WarmKept, HeldTypes DEF Warm, BoardInv
  <1>2. SlotTypes'
    <2>1. slot' = slot \/ slot' = [slot EXCEPT !.id = TRUE]
      BY DEF WarmAction, history
    <2> QED BY <1>1, <2>1 DEF SlotTypes
  <1>3. CASE ~ (Live' /\ hazard = {})
    BY <1>1, <1>2, <1>3 DEF BoardInv, RetireInv, CleanInv
  <1>4. CASE Live' /\ hazard = {}
    <2>1. Fresh /\ (decode_status = 0 => ~ slot.id) /\ FrontEnd
      BY <1>1, <1>4 DEF CleanInv, RetireInv, Ordered
    <2>2. Fresh' /\ execute_status' = 0 /\ memory_status' = 0 /\ writeback_status' = 0 /\ RUN_BIT' = 1
      BY <1>1, <1>4, <2>1, WarmKept DEF Fresh, Warm, WarmAction, check_stall, fetch, cycle_end, Skip, Live
    <2>3. /\ fetch_timer \in 1 .. 2 /\ decode_status \in Bit /\ text' = text
          /\ stage # "check_stall" => fetch_timer = 1
          /\ stage \notin {"check_stall", "cycle_end"} => decode_status = 0
          /\ IF slot.id THEN if_id.ir = FetchedFrom(text, if_id.pc) /\ PC = U32(if_id.pc + 4)
             ELSE if_id = EmptyIfId
      BY <1>1, <1>4, <2>1 DEF Warm, TypeOK, FrontEnd, Live, Stages
    <2>4. FrontEnd' /\ FrontEx' = FrontEx /\ (decode_status' = 0 => ~ slot'.id)
      <3>1. CASE fetch /\ slot' = [slot EXCEPT !.id = TRUE]
        <4>1. /\ stage = "fetch" /\ stage' = "cycle_end" /\ decode_status' = 1 /\ fetch_timer' = 1
              /\ if_id' = [ir |-> FetchedFrom(text, PC), pc |-> PC] /\ PC' = U32(PC + 4)
          BY <2>3, <3>1 DEF fetch, timers
        <4>2. slot'.id = TRUE /\ ~ slot.id
          BY <1>1, <2>1, <2>3, <3>1, <4>1, HeldTypes
        <4> QED BY <2>3, <4>1, <4>2 DEF FrontEnd, FrontEx
      <3>2. CASE check_stall /\ UNCHANGED history
        <4>1. /\ stage' = "write_back" /\ fetch_timer' = fetch_timer - 1 /\ UNCHANGED <<PC, if_id, slot>>
              /\ decode_status' = decode_status \/ (decode_status' = 1 /\ fetch_timer = 1)
              /\ fetch_timer = 1 => decode_status' = 1
          <5>1. decode_timer = fetch_timer
            BY <1>1, <2>3, <3>2 DEF FrontInv
          <5> QED BY <2>3, <3>2, <5>1 DEF check_stall, Tick, Resumed, cpu, history
        <4> QED BY <2>1, <2>3, <4>1 DEF FrontEnd, FrontEx, Bit
      <3>3. CASE \/ cycle_end /\ UNCHANGED history
                 \/ /\ \/ Skip("write_back", writeback_status, "memory")
                       \/ Skip("memory", memory_status, "execute")
                       \/ Skip("execute", execute_status, "decode")
                       \/ Skip("decode", decode_status, "fetch")
                    /\ UNCHANGED history
        <4>1. /\ UNCHANGED <<PC, if_id, slot, fetch_timer, decode_status>>
              /\ stage # "check_stall" /\ (stage' = "fetch" => stage = "decode")
          <5>1. CASE cycle_end /\ UNCHANGED history
            BY <1>1, <5>1 DEF cycle_end, statuses, timers, history
          <5>2. CASE ~ cycle_end
            BY <3>3, <5>2 DEF Skip, statuses, timers, cpu, history
          <5> QED BY <3>3, <5>1, <5>2
        <4> QED BY <2>1, <2>3, <4>1 DEF FrontEnd, FrontEx
      <3> QED BY <3>1, <3>2, <3>3 DEF WarmAction
    <2>5. BoardInv' /\ RetireInv'
      BY <1>2, <2>2, <2>4, FreshInOrderNext DEF Unfilled
    <2> QED BY <1>1, <2>2, <2>4, <2>5 DEF CleanInv, FrontWb, FrontMem, Fresh, Bubble
  <1> QED BY <1>3, <1>4

----------------------------------------------------------------------------
(* A step of go()                                                          *)

\* The end of the last cycle leaves the front end ready for another program,
\* and, unless the limit cut it off, everything behind it empty.
LEMMA HaltedFront ==
  ASSUME TypeOK, LoadProgress, fetch_timer = decode_timer, Steady, cycle_end, ~ Live'
  PROVE  FrontInv' /\ (~ Capped => Idle')
  <1>1. /\ stage = "cycle_end" /\ stage' = "halted" /\ Live /\ RUN_BIT \in Bit /\ fetch_timer \in 0 .. 2
        /\ fetch_timer' = fetch_timer /\ decode_timer' = decode_timer /\ id_ex.run_bit \in Bit
    BY DEF cycle_end, Live, TypeOK, timers, IdEx
  <1>2. CASE RUN_BIT = 0
    <2>1. reset_state
      BY <1>2 DEF cycle_end
    <2>2. EmptyIdEx(id_ex.run_bit).ctl.mread = 0 /\ EmptyIdEx(id_ex.run_bit).run_bit = id_ex.run_bit
      BY <1>1, EmptyIdExSound DEF EmptyIdEx
    <2>3. Idle'
      BY <2>1, <2>2 DEF reset_state, Idle
    <2>4. id_ex'.ctl.mread = 0
      BY <2>1, <2>2 DEF reset_state
    <2>5. /\ fetch_status' = 1 /\ decode_status' = 0 /\ execute_status' = 0 /\ memory_status' = 0
          /\ writeback_status' = 0 /\ load' = 0
      BY <2>1 DEF reset_state
    <2>6. LoadsAtRest'
      BY <2>4, <2>5 DEF LoadsAtRest
    <2>7. (Steady \/ Warm)'
      BY <1>1, <2>4, <2>5 DEF Steady, Warm, Live
    <2> QED BY <1>1, <2>3, <2>6, <2>7 DEF FrontInv
  <1>3. CASE RUN_BIT # 0
    <2>1. UNCHANGED <<load, fetch_status, decode_status, execute_status, memory_status, writeback_status,
                      id_ex, ex_mem, mem_wb>> /\ Capped
      BY <1>1, <1>3 DEF cycle_end, board, statuses
    <2>2. Steady'
      BY <1>1, <2>1 DEF Steady
    <2>3. LoadsAtRest'
      BY <1>1, <2>1 DEF LoadProgress, LoadsAtRest
    <2> QED BY <1>1, <2>1, <2>2, <2>3 DEF FrontInv
  <1> QED BY <1>2, <1>3

\* Every step of a program keeps the invariant.
LEMMA GoInv ==
  ASSUME DrivenInv, RetireStep
  PROVE  DrivenInv'
  <1>1. /\ TypeOK /\ LatchInv /\ LoadProgress /\ FrontInv /\ BoardInv /\ RetireInv /\ CleanInv /\ SlotTypes
    BY DEF DrivenInv, BoardInv
  <1>2. /\ Live /\ (~ Live' => trap \/ (cycle_end /\ stage' = "halted"))
    BY DEF RetireStep, Live, decode, decode_stall, execute, memory, fetch, check_stall, write_back,
           trap, cycle_end, Skip
  <1>3. CASE Steady
    <2>1. IInv
      BY <1>1, <1>2, <1>3, SteadyIsDisciplined DEF IInv
    <2>2. IInv'
      BY <2>1, HistoryWatches, NextInv DEF RetireNext
    <2>3. BoardInv' /\ RetireInv'
      BY <1>1, <2>1, BoardStep, RetireStepInv DEF RetireNext
    <2>4. CASE Live'
      <3>1. fetch_timer' = decode_timer' /\ Steady' /\ stage' # "halted"
        BY <2>2, <2>4 DEF IInv, TypeOK, StallDiscipline, Steady, Live, Stages
      <3>2. ~ Warm'
        BY <3>1 DEF Warm, Steady
      <3> QED BY <2>2, <2>3, <3>1, <3>2 DEF DrivenInv, IInv, FrontInv, CleanInv
    <2>5. CASE ~ Live'
      <3>1. CleanInv'
        BY <2>5 DEF CleanInv
      <3>2. FrontInv'
        <4>1. CASE trap
          BY <1>1, <4>1 DEF FrontInv, trap, timers
        <4>2. CASE cycle_end
          BY <1>1, <1>3, <2>5, <4>2, HaltedFront DEF FrontInv
        <4> QED BY <1>2, <2>5, <4>1, <4>2
      <3> QED BY <2>2, <2>3, <3>1, <3>2 DEF DrivenInv, IInv
    <2> QED BY <2>4, <2>5
  <1>4. CASE Warm
    <2>1. WarmAction
      BY <1>4, WarmActions
    <2>2. TypeOK' /\ LatchInv' /\ LoadProgress'
      BY <1>1, <1>4, <2>1, WarmTypes
    <2>3. FrontInv'
      BY <1>1, <1>4, <2>1, WarmFront
    <2>4. BoardInv' /\ RetireInv' /\ CleanInv'
      BY <1>1, <1>4, <2>1, WarmClean
    <2> QED BY <2>2, <2>3, <2>4 DEF DrivenInv
  <1> QED BY <1>1, <1>2, <1>3, <1>4 DEF FrontInv, Live

\* go() ends with RUN_BIT cleared, and with empty latches unless at the limit.
LEMMA GoEnds ==
  ASSUME DrivenInv, RetireStep, stage' = "halted"
  PROVE  stage = "cycle_end" /\ RUN_BIT' = 0 /\ (~ Capped => Idle')
  <1>1. cycle_end /\ ~ Live'
    BY DEF RetireStep, Live, decode, decode_stall, execute, memory, fetch, check_stall, write_back,
           trap, cycle_end, Skip
  <1>2. stage = "cycle_end" /\ RUN_BIT' = 0 /\ (~ Capped => RUN_BIT = 0)
    BY <1>1 DEF cycle_end
  <1>3. ~ Capped => Steady
    BY <1>2 DEF DrivenInv, FrontInv, Warm, Live
  <1>4. ~ Capped => Idle'
    BY <1>1, <1>3, HaltedFront DEF DrivenInv, FrontInv
  <1> QED BY <1>2, <1>4

----------------------------------------------------------------------------
(* The invariant holds                                                     *)

\* The latches of a new machine are those reset_state leaves.
LEMMA HarnessInitInv == HarnessInit => HarnessInv
  <1> SUFFICES ASSUME HarnessInit PROVE HarnessInv
    OBVIOUS
  <1> USE DEF HarnessInit
  <1>1. TypeOK
    <2>1. /\ stage \in Stages /\ PC \in Word /\ REGS \in [Reg -> Word] /\ hi \in Word
          /\ lo \in Word /\ RUN_BIT \in Bit /\ INSTRUCTION_COUNT \in Nat
          /\ text \in Programs \cup {<< >>}
      BY WordInt DEF Stages, Bit
    <2>2. /\ if_id \in [ir : Instr, pc : Word] /\ id_ex \in IdEx /\ ex_mem \in ExMem
          /\ mem_wb \in MemWb
      BY EmptyLatchTypes, EmptyIdExSound DEF Bit
    <2>3. dram \in [Granule -> Word] /\ registerStatus \in [StatusIndex -> Bit]
      BY AllReadyType, WordInt
    <2> QED BY <2>1, <2>2, <2>3 DEF TypeOK, Bit
  <1>2. LatchInv
    BY EmptyLatchTypes, EmptyIdExSound DEF LatchInv, Bit
  <1>3. LoadProgress /\ RetireInv /\ CleanInv
    BY DEF LoadProgress, RetireInv, CleanInv, Live
  <1>4. BoardInv
    BY BubbleType DEF BoardInv, SlotTypes, Live
  <1>5. FrontInv
    <2>1. id_ex.ctl.mread = 0
      BY EmptyIdExSound DEF Bit
    <2> QED BY <2>1 DEF FrontInv, Steady, LoadsAtRest
  <1>6. LoopInv
    <2>1. id_ex = EmptyIdEx(id_ex.run_bit)
      BY DEF EmptyIdEx
    <2>2. Idle
      BY <2>1 DEF Idle
    <2>3. Len(results) = 0 /\ results \in Seq(BOOLEAN)
      OBVIOUS
    <2>4. Len(suite) \in Nat \ {0} /\ suite \in Suites
      BY SuiteAssumption
    <2>5. Len(results) < Len(suite) /\ Len(results) <= Len(suite)
      BY <2>3, <2>4
    <2>6. phase = "reset" /\ ~ limit /\ limit \in BOOLEAN /\ stage = "halted"
      OBVIOUS
    <2> HIDE DEF HarnessInit
    <2> QED BY <2>2, <2>3, <2>4, <2>5, <2>6 DEF LoopInv, Live
  <1> QED BY <1>1, <1>2, <1>3, <1>4, <1>5, <1>6 DEF DrivenInv, HarnessInv

\* What reset(), the verdict and a finished test() leave alone is all that
\* DrivenInv is about while the machine stands still.
LEMMA StandingKept ==
  ASSUME DrivenInv, stage = "halted", REGS' \in [Reg -> Word], hi' \in Word, lo' \in Word,
         RUN_BIT' \in Bit, INSTRUCTION_COUNT' \in Nat,
         UNCHANGED <<stage, PC, if_id, id_ex, ex_mem, mem_wb, statuses, timers, board, dram, text, history>>
  PROVE  DrivenInv' /\ (Idle => Idle')
  <1>1. UNCHANGED <<fetch_status, decode_status, execute_status, memory_status, writeback_status, fetch_timer,
                    decode_timer, registerStatus, dependency, load, slot, hazard>>
    BY DEF statuses, timers, board, history
  <1>2. TypeOK'
    BY <1>1 DEF DrivenInv, TypeOK
  <1>3. LatchInv'
    BY DEF DrivenInv, LatchInv, Destined
  <1>4. FrontInv'
    <2>1. fetch_timer' = decode_timer' /\ LoadsAtRest'
      BY <1>1 DEF DrivenInv, FrontInv, LoadsAtRest
    <2>2. (Steady \/ Warm)'
      BY <1>1 DEF DrivenInv, FrontInv, Steady, Warm, Live
    <2> QED BY <2>1, <2>2 DEF FrontInv
  <1>5. LoadProgress' /\ RetireInv' /\ CleanInv'
    BY DEF LoadProgress, RetireInv, CleanInv, Live
  <1>6. BoardInv'
    BY <1>1 DEF DrivenInv, BoardInv, SlotTypes, Live
  <1>7. Idle => Idle'
    BY <1>1 DEF Idle
  <1> QED BY <1>2, <1>3, <1>4, <1>5, <1>6, <1>7 DEF DrivenInv

\* reset() clears the registers.
LEMMA ResetInv == HarnessInv /\ reset => HarnessInv'
  <1> SUFFICES ASSUME HarnessInv, reset PROVE HarnessInv'
    OBVIOUS
  <1>1. /\ DrivenInv /\ stage = "halted" /\ REGS' = [r \in Reg |-> 0] /\ hi' = 0 /\ lo' = 0
        /\ INSTRUCTION_COUNT' = 0 /\ RUN_BIT' = 1
        /\ UNCHANGED <<stage, PC, if_id, id_ex, ex_mem, mem_wb, statuses, timers, board, dram, text, history>>
    BY DEF HarnessInv, LoopInv, reset, Reset
  <1>2. DrivenInv' /\ (Idle => Idle')
    BY <1>1, WordInt, StandingKept DEF Bit
  <1>3. /\ phase' \in {"reset", "initialize", "reset_after", "done"}
        /\ phase' \in {"reset", "initialize"} => Len(results) < Len(suite)
    <2>1. Len(results) \in Nat /\ Len(suite) \in Nat /\ Len(results) <= Len(suite)
      BY SuiteAssumption DEF HarnessInv, LoopInv
    <2> QED BY <2>1 DEF HarnessInv, LoopInv, reset
  <1>4. LoopInv'
    BY <1>1, <1>2, <1>3 DEF HarnessInv, LoopInv, reset, Live
  <1> QED BY <1>2, <1>4 DEF HarnessInv

\* The verdict ends a program.
LEMMA VerdictInv == HarnessInv /\ verdict => HarnessInv'
  <1> SUFFICES ASSUME HarnessInv, verdict PROVE HarnessInv'
    OBVIOUS
  <1>1. DrivenInv /\ stage = "halted" /\ TypeOK
        /\ UNCHANGED <<stage, PC, REGS, hi, lo, INSTRUCTION_COUNT, RUN_BIT, if_id, id_ex, ex_mem, mem_wb,
                       statuses, timers, board, dram, text, history>>
    BY DEF HarnessInv, DrivenInv, verdict, allvars, vars, cpu
  <1>2. DrivenInv' /\ (Idle => Idle')
    BY <1>1, StandingKept DEF TypeOK
  <1>3. results' \in Seq(BOOLEAN) /\ Len(results') <= Len(suite)
    <2>1. /\ results \in Seq(BOOLEAN) /\ Len(results) \in Nat /\ Len(results) < Len(suite)
          /\ Len(suite) \in Nat /\ Right(Test.expected) \in BOOLEAN
      BY SuiteAssumption DEF HarnessInv, LoopInv, verdict, Right
    <2>2. results' = Append(results, Right(Test.expected))
      BY DEF verdict
    <2> HIDE DEF Right, Test
    <2>3. results' \in Seq(BOOLEAN) /\ Len(results') = Len(results) + 1
      BY <2>1, <2>2, AppendProperties
    <2> QED BY <2>1, <2>3
  <1>4. LoopInv'
    BY <1>1, <1>2, <1>3 DEF HarnessInv, LoopInv, verdict, Live
  <1> QED BY <1>2, <1>4 DEF HarnessInv

\* Every program starts on a machine in order: what the last one has left
\* lets decode go a cycle early, on an empty latch, no more.
LEMMA InitializeInv == HarnessInv /\ initialize => HarnessInv' /\ text' \in Programs
  <1> SUFFICES ASSUME HarnessInv, initialize PROVE HarnessInv' /\ text' \in Programs
    OBVIOUS
  <1>1. /\ TypeOK /\ LatchInv /\ LoadProgress /\ FrontInv /\ SlotTypes /\ LoopInv
        /\ stage = "halted" /\ stage' = "check_stall" /\ Live' /\ RUN_BIT' = 1 /\ PC' = TextStart
        /\ phase' = "go" /\ text' = Test.program /\ limit' = FALSE
        /\ UNCHANGED <<REGS, hi, lo, INSTRUCTION_COUNT, if_id, id_ex, ex_mem, mem_wb, suite, results>>
    BY DEF HarnessInv, DrivenInv, BoardInv, LoopInv, initialize, Live
  <1>2. UNCHANGED <<fetch_status, decode_status, execute_status, memory_status, writeback_status, fetch_timer,
                    decode_timer, registerStatus, dependency, load, dram>>
    BY DEF initialize, statuses, timers, board
  <1>3. text' \in Programs
    <2>1. suite \in Suites /\ results \in Seq(BOOLEAN) /\ Len(results) < Len(suite)
      BY <1>1 DEF LoopInv, initialize
    <2>2. Len(results) + 1 \in DOMAIN suite
      BY <2>1, SuiteAssumption
    <2>3. Test.program \in Programs
      BY <2>1, <2>2, SuiteAssumption DEF Test
    <2> QED BY <1>1, <2>3, ProgramAssumption
  <1>4. TypeOK'
    BY <1>1, <1>2, <1>3, WordInt, ProgramAssumption DEF TypeOK, Stages, Bit
  <1>5. LatchInv'
    BY <1>1, <1>2 DEF LatchInv, Destined
  <1>6. LoadProgress'
    BY <1>1, <1>2 DEF FrontInv, LoadsAtRest, LoadProgress
  <1>7. FrontInv'
    BY <1>1, <1>2 DEF FrontInv, Steady, Warm, Live
  <1>8. SlotTypes'
    <2>1. CASE limit
      BY <1>1, <2>1 DEF initialize, SlotTypes
    <2>2. CASE ~ limit
      BY <2>2, BubbleType DEF initialize, SlotTypes
    <2> QED BY <2>1, <2>2
  <1>9. BoardInv' /\ RetireInv' /\ CleanInv'
    <2>1. CASE limit
      <3>1. hazard' # {}
        BY <2>1 DEF initialize
      <3> QED BY <1>8, <3>1 DEF BoardInv, RetireInv, CleanInv
    <2>2. CASE ~ limit
      <3>1. Idle /\ slot' = [id |-> FALSE, ex |-> Bubble, mem |-> Bubble, wb |-> Bubble]
        BY <1>1, <2>2 DEF initialize, LoopInv
      <3>2. Fresh'
        BY <1>1, <1>2, <3>1 DEF Fresh, Idle
      <3>3. FrontEnd'
        BY <1>1, <1>2, <3>1 DEF FrontEnd, Idle
      <3>4. execute_status' = 0 /\ memory_status' = 0 /\ writeback_status' = 0
        BY <1>2, <3>1 DEF Idle
      <3>5. BoardInv' /\ RetireInv'
        BY <1>1, <1>8, <3>2, <3>3, <3>4, FreshInOrderNext DEF Unfilled
      <3>6. ~ slot'.id
        BY <3>1
      <3> QED BY <3>2, <3>5, <3>6 DEF CleanInv
    <2> QED BY <2>1, <2>2
  <1>10. LoopInv'
    BY <1>1 DEF LoopInv, initialize
  <1> QED BY <1>3, <1>4, <1>5, <1>6, <1>7, <1>9, <1>10 DEF HarnessInv, DrivenInv

\* A step of go() inside test().
LEMMA ProgramInv == HarnessInv /\ go => HarnessInv'
  <1> SUFFICES ASSUME HarnessInv, go PROVE HarnessInv'
    OBVIOUS
  <1>1. /\ DrivenInv /\ LoopInv /\ RetireStep /\ Live /\ phase = "go"
        /\ limit' = (stage = "cycle_end" /\ Capped)
        /\ UNCHANGED <<phase, suite, results, runs>>
    BY DEF HarnessInv, go, Live
  <1>2. DrivenInv'
    BY <1>1, GoInv
  <1>3. limit' \in BOOLEAN /\ (Live' => ~ limit')
    <2>1. stage = "cycle_end" /\ Capped => ~ Live'
      BY <1>1 DEF RetireStep, Live, decode, decode_stall, execute, memory, fetch, check_stall, write_back,
             trap, cycle_end, Skip
    <2> HIDE DEF Capped
    <2> QED BY <1>1, <2>1
  <1>4. stage' = "halted" => RUN_BIT' = 0 /\ (~ limit' => Idle')
    BY <1>1, GoEnds
  <1>5. LoopInv'
    BY <1>1, <1>3, <1>4 DEF LoopInv
  <1> QED BY <1>2, <1>5 DEF HarnessInv

\* Nothing moves.
LEMMA StillInv == HarnessInv /\ UNCHANGED harnessVars => HarnessInv'
  <1> SUFFICES ASSUME HarnessInv, UNCHANGED harnessVars PROVE HarnessInv'
    OBVIOUS
  <1>1. /\ DrivenInv /\ LoopInv
        /\ UNCHANGED <<stage, PC, REGS, hi, lo, INSTRUCTION_COUNT, RUN_BIT, if_id, id_ex, ex_mem, mem_wb, statuses,
                       timers, board, dram, text, history, phase, suite, results, limit>>
    BY DEF HarnessInv, harnessVars, allvars, vars, cpu, session
  <1>2. UNCHANGED <<fetch_status, decode_status, execute_status, memory_status, writeback_status, fetch_timer,
                    decode_timer, registerStatus, dependency, load, slot, hazard>>
    BY <1>1 DEF statuses, timers, board, history
  <1>3. TypeOK' /\ LatchInv' /\ LoadProgress'
    BY <1>1, <1>2 DEF DrivenInv, TypeOK, LatchInv, Destined, LoadProgress, Live
  <1>4. FrontInv' /\ CleanInv'
    BY <1>1, <1>2 DEF DrivenInv, FrontInv, CleanInv, LoadsAtRest, Steady, Warm, Fresh, Live
  <1>5. BoardInv' /\ RetireInv'
    BY BoardStands, RetireStands DEF HarnessInv, DrivenInv, harnessVars, allvars
  <1>6. LoopInv'
    BY <1>1, <1>2 DEF LoopInv, Live, Idle
  <1> QED BY <1>3, <1>4, <1>5, <1>6 DEF HarnessInv, DrivenInv

\* Whatever test() does keeps the invariant.
LEMMA HarnessStepInv == HarnessInv /\ [HarnessStep \/ Over]_harnessVars => HarnessInv'
  BY ResetInv, InitializeInv, ProgramInv, VerdictInv, StillInv DEF HarnessStep, Over

\* In every state of every suite the program under test runs on a pipeline in
\* order, and the machine between two programs holds nothing of the last one
\* but its timers.
THEOREM SuiteInOrder == HarnessSpec => []HarnessInv
  BY HarnessInitInv, HarnessStepInv, PTL DEF HarnessSpec

----------------------------------------------------------------------------
(* The programs of the suite are those of SeqSession                       *)

\* The operators SeqSession brings along are the ones the pipeline uses.
LEMMA SessionControl == \A i, old : Session_!ControlOf(i, old) = ControlOf(i, old)
  BY DEF Session_!ControlOf, Session_!Known, Session_!Special, Session_!AluFuncts, Session_!ShiftFuncts,
         Session_!MulDiv, Session_!MoveFrom, Session_!MoveTo, Session_!RegJumps, Session_!Regimm,
         Session_!LinkBranch, Session_!PlainRegimm, Session_!NoControl, Session_!Jump, Session_!Link,
         Session_!RdWrite, Session_!RtWrite, Session_!Branch, Session_!ImmOps, Session_!CmpBranch,
         Session_!Loads, Session_!Load, Session_!Stores, Session_!Store, ControlOf, Known, Special, AluFuncts,
         ShiftFuncts, MulDiv, MoveFrom, MoveTo, RegJumps, Regimm, LinkBranch, PlainRegimm, NoControl, Jump,
         Link, RdWrite, RtWrite, Branch, ImmOps, CmpBranch, Loads, Load, Stores, Store

\* The decoder.
LEMMA SessionSetup == \A d : Session_!SetupControlSignals(d) = SetupControlSignals(d)
  <1> SUFFICES ASSUME NEW d PROVE Session_!SetupControlSignals(d) = SetupControlSignals(d)
    OBVIOUS
  <1>1. Session_!ControlOf(d.ir, d.ctl) = ControlOf(d.ir, d.ctl)
    BY SessionControl
  <1> QED
    BY <1>1 DEF Session_!SetupControlSignals, Session_!Known, Session_!Special, Session_!AluFuncts,
           Session_!ShiftFuncts, Session_!MulDiv, Session_!MoveFrom, Session_!MoveTo, Session_!RegJumps,
           Session_!Regimm, Session_!LinkBranch, Session_!PlainRegimm, Session_!HI, Session_!LO, Session_!U32,
           Session_!WORDS, Session_!BITS, SetupControlSignals, Known, Special, AluFuncts, ShiftFuncts, MulDiv,
           MoveFrom, MoveTo, RegJumps, Regimm, LinkBranch, PlainRegimm, HI, LO, U32, WORDS, BITS

\* What execute computes from the latch.
LEMMA SessionResults ==
  /\ \A d, old : Session_!AluResult(d, old) = AluResult(d, old)
  /\ \A d : Session_!HiAfter(d) = HiAfter(d) /\ Session_!LoAfter(d) = LoAfter(d)
  /\ \A d, old : Session_!BranchCondition(d, old) = BranchCondition(d, old)
  /\ \A d : Session_!BranchTarget(d) = BranchTarget(d) /\ Session_!DestinationOf(d) = DestinationOf(d)
  /\ \A d, old : Session_!StoreValue(d, old) = StoreValue(d, old)
  /\ \A d, old : Session_!LoadSize(d, old) = LoadSize(d, old) /\ Session_!IsLoadSigned(d, old) = IsLoadSigned(d, old)
  <1>1. \A d, old : Session_!AluResult(d, old) = AluResult(d, old)
    BY DEF Session_!AluResult, Session_!OperandA, Session_!OperandB, Session_!SpecialResult, Session_!BITS,
           Session_!U32, Session_!WORDS, Session_!sign_extend_16, Session_!SignExtendTo, Session_!HALF,
           Session_!Bool, Session_!S32, Session_!ShiftLeft, Session_!ShiftRight, Session_!ArithmeticShiftRight,
           Session_!HighMask, Session_!LinkBranch, Session_!ImmResult, Session_!Loads, Session_!Stores,
           Session_!Effective, AluResult, OperandA, OperandB, SpecialResult, BITS, U32, WORDS, sign_extend_16,
           SignExtendTo, HALF, Bool, S32, ShiftLeft, ShiftRight, ArithmeticShiftRight, HighMask, LinkBranch,
           ImmResult, Loads, Stores, Effective
  <1>2. \A d : Session_!HiAfter(d) = HiAfter(d) /\ Session_!LoAfter(d) = LoAfter(d)
    BY DEF Session_!HiAfter, Session_!OperandA, Session_!OperandB, Session_!RunsSpecial, Session_!Set,
           Session_!U32, Session_!WORDS, Session_!BITS, Session_!S32, Session_!Product, Session_!Divides,
           Session_!Remainder, Session_!Abs, Session_!Keep, Session_!LoAfter, Session_!Quotient, HiAfter,
           OperandA, OperandB, RunsSpecial, Set, U32, WORDS, BITS, S32, Product, Divides, Remainder, Abs, Keep,
           LoAfter, Quotient
  <1>3. \A d, old : Session_!BranchCondition(d, old) = BranchCondition(d, old)
    BY DEF Session_!BranchCondition, Session_!OperandA, Session_!Bool, Session_!Negative, Session_!WORDS,
           Session_!BITS, BranchCondition, OperandA, Bool, Negative, WORDS, BITS
  <1>4. \A d : Session_!BranchTarget(d) = BranchTarget(d) /\ Session_!DestinationOf(d) = DestinationOf(d)
    BY DEF Session_!BranchTarget, Session_!U32, Session_!WORDS, Session_!BITS, Session_!sign_extend_16,
           Session_!SignExtendTo, Session_!HALF, Session_!PlainRegimm, Session_!LinkBranch, Session_!OperandB,
           Session_!DestinationOf, BranchTarget, U32, WORDS, BITS, sign_extend_16, SignExtendTo, HALF,
           PlainRegimm, LinkBranch, OperandB, DestinationOf
  <1>5. \A d, old : Session_!StoreValue(d, old) = StoreValue(d, old)
    BY DEF Session_!StoreValue, Session_!BYTE, Session_!HALF, StoreValue, BYTE, HALF
  <1>6. \A d, old : Session_!LoadSize(d, old) = LoadSize(d, old) /\ Session_!IsLoadSigned(d, old) = IsLoadSigned(d, old)
    BY DEF Session_!LoadSize, Session_!WORDS, Session_!BITS, Session_!HALF, Session_!BYTE,
           Session_!IsLoadSigned, Session_!Loads, Session_!Bool, LoadSize, WORDS, BITS, HALF, BYTE,
           IsLoadSigned, Loads, Bool
  <1> QED BY <1>1, <1>2, <1>3, <1>4, <1>5, <1>6

\* What the program and the memory hold.
LEMMA SessionAccesses ==
  /\ \A p, a : Session_!FetchedFrom(p, a) = FetchedFrom(p, a)
  /\ \A m, a : Session_!ReadGranule(m, a) = ReadGranule(m, a)
  /\ \A m, a, v : Session_!WriteGranule(m, a, v) = WriteGranule(m, a, v)
  /\ \A c, size, signed : Session_!LoadedValue(c, size, signed) = LoadedValue(c, size, signed)
  /\ \A i : Session_!Known(i) <=> Known(i)
  /\ \A i, S : Session_!Special(i, S) <=> Special(i, S)
  /\ \A v : Session_!U32(v) = U32(v)
  /\ Session_!WORDS = WORDS /\ Session_!Granule = Granule
  <1>1. \A p, a : Session_!FetchedFrom(p, a) = FetchedFrom(p, a)
    BY DEF Session_!FetchedFrom, Session_!WordAt, Session_!Nop, FetchedFrom, WordAt, Nop
  <1>2. \A m, a : Session_!ReadGranule(m, a) = ReadGranule(m, a)
    BY DEF Session_!ReadGranule, Session_!ShiftRight, Session_!GranuleOf, Session_!ShiftOf, Session_!ChipId,
           Session_!BITS, ReadGranule, ShiftRight, GranuleOf, ShiftOf, ChipId, BITS
  <1>3. \A m, a, v : Session_!WriteGranule(m, a, v) = WriteGranule(m, a, v)
    BY DEF Session_!WriteGranule, Session_!GranuleOf, WriteGranule, GranuleOf
  <1>4. \A c, size, signed : Session_!LoadedValue(c, size, signed) = LoadedValue(c, size, signed)
    BY DEF Session_!LoadedValue, Session_!HALF, Session_!sign_extend_16, Session_!SignExtendTo, Session_!U32,
           Session_!WORDS, Session_!BITS, Session_!sign_extend_8, Session_!BYTE, LoadedValue, HALF,
           sign_extend_16, SignExtendTo, U32, WORDS, BITS, sign_extend_8, BYTE
  <1>5. \A i : Session_!Known(i) <=> Known(i)
    BY DEF Session_!Known, Session_!Special, Session_!AluFuncts, Session_!ShiftFuncts, Session_!MulDiv,
           Session_!MoveFrom, Session_!MoveTo, Session_!RegJumps, Session_!Regimm, Session_!LinkBranch,
           Session_!PlainRegimm, Known, Special, AluFuncts, ShiftFuncts, MulDiv, MoveFrom, MoveTo, RegJumps,
           Regimm, LinkBranch, PlainRegimm
  <1>6. \A i, S : Session_!Special(i, S) <=> Special(i, S)
    BY DEF Session_!Special, Special
  <1>7. \A v : Session_!U32(v) = U32(v)
    BY DEF Session_!U32, Session_!WORDS, Session_!BITS, U32, WORDS, BITS
  <1>8. Session_!WORDS = WORDS /\ Session_!Granule = Granule
    BY DEF Session_!WORDS, Session_!BITS, Session_!Granule, WORDS, BITS, Granule
  <1> QED BY <1>1, <1>2, <1>3, <1>4, <1>5, <1>6, <1>7, <1>8

\* One instruction of SeqMachine is one of SeqSession.
LEMMA SessionExecutes ==
  ASSUME phase = "go", phase' = "go", Seq_!Execute
  PROVE  Session_!Execute
  <1>1. Seq_!Instruction = Session_!Instruction
    BY SeqAccesses, SessionAccesses DEF Seq_!Instruction, Session_!Instruction
  <1>2. Seq_!Latch = Session_!Latch
    <2>1. Seq_!NoControl("NONE") = Session_!NoControl("NONE")
      BY DEF Seq_!NoControl, Session_!NoControl
    <2> QED BY <1>1, <2>1, SeqSetup, SessionSetup DEF Seq_!Latch, Session_!Latch
  <1>3. Seq_!Result = Session_!Result
    BY <1>2, SeqResults, SessionResults DEF Seq_!Result, Session_!Result
  <1>4. Seq_!IsHiLo <=> Session_!IsHiLo
    BY <1>2, SeqResults, SessionResults DEF Seq_!IsHiLo, Session_!IsHiLo
  <1>5. Seq_!Loaded = Session_!Loaded
    BY <1>2, <1>3, SeqResults, SessionResults, SeqAccesses, SessionAccesses DEF Seq_!Loaded, Session_!Loaded
  <1>6. Seq_!NextPC = Session_!NextPC
    <2>1. Seq_!Taken <=> Session_!Taken
      BY <1>2, SeqResults, SessionResults DEF Seq_!Taken, Session_!Taken
    <2>2. Seq_!BranchTarget(Seq_!Latch) = Session_!BranchTarget(Session_!Latch)
      BY <1>2, SeqResults, SessionResults
    <2>3. Seq_!U32(RetirePC + 4) = Session_!U32(RetirePC + 4)
      BY SeqAccesses, SessionAccesses
    <2> QED BY <1>2, <2>1, <2>2, <2>3 DEF Seq_!NextPC, Session_!NextPC
  <1>7. /\ Seq_!DestinationOf(Seq_!Latch) = Session_!DestinationOf(Session_!Latch)
        /\ Seq_!HiAfter(Seq_!Latch) = Session_!HiAfter(Session_!Latch)
        /\ Seq_!LoAfter(Seq_!Latch) = Session_!LoAfter(Session_!Latch)
        /\ Seq_!StoreValue(Seq_!Latch, 0) = Session_!StoreValue(Session_!Latch, 0)
    BY <1>2, SeqResults, SessionResults
  <1>8. \A v : Seq_!WriteGranule(dram, Seq_!Result, v) = Session_!WriteGranule(dram, Session_!Result, v)
    BY <1>3, SeqAccesses, SessionAccesses
  <1>9. /\ Seq_!Known(Seq_!Instruction) <=> Session_!Known(Session_!Instruction)
        /\ Seq_!Special(Seq_!Instruction, {"SYSCALL"}) <=> Session_!Special(Session_!Instruction, {"SYSCALL"})
    BY <1>1, SeqAccesses, SessionAccesses
  <1>10. /\ (phase = "go" /\ RUN_BIT = 1) /\ Session_!Known(Session_!Instruction)
         /\ REGS' = IF Session_!Latch.ctl.reg_write = 1 /\ ~ Session_!IsHiLo
                      THEN [REGS EXCEPT ![Session_!DestinationOf(Session_!Latch)] =
                              IF Session_!Latch.ctl.mem_to_rg = 1 THEN Session_!Loaded ELSE Session_!Result]
                      ELSE REGS
    BY <1>2, <1>3, <1>4, <1>5, <1>7, <1>9 DEF Seq_!Execute
  <1>11. /\ hi' = Session_!HiAfter(Session_!Latch).value
         /\ lo' = Session_!LoAfter(Session_!Latch).value
         /\ dram' = IF Session_!Latch.ctl.mwrite = 1
                      THEN Session_!WriteGranule(dram, Session_!Result, Session_!StoreValue(Session_!Latch, 0))
                      ELSE dram
    BY <1>2, <1>7, <1>8 DEF Seq_!Execute
  <1>12. /\ (phase = "go" /\ RUN_BIT = 1)' \in
               IF Session_!Special(Session_!Instruction, {"SYSCALL"}) THEN BOOLEAN ELSE {TRUE}
         /\ (IF phase = "go" THEN RetirePC ELSE 0)' =
               IF (phase = "go" /\ RUN_BIT = 1)' THEN Session_!NextPC ELSE 0
         /\ UNCHANGED <<hazard # {}, text>>
    BY <1>6, <1>9 DEF Seq_!Execute
  <1> QED BY <1>10, <1>11, <1>12 DEF Session_!Execute

\* A step of a program is one instruction or none, or the limit stops it, or
\* it leaves the contract: also of one that starts with a timer running.
LEMMA ProgramRefines == HarnessInv /\ go => [Session_!SessionNext]_Session_!sessionVars
  <1> SUFFICES ASSUME HarnessInv, go PROVE [Session_!SessionNext]_Session_!sessionVars
    OBVIOUS
  <1>1. /\ DrivenInv /\ RetireStep /\ Live /\ phase = "go" /\ phase' = "go"
        /\ limit = FALSE /\ limit' = (stage = "cycle_end" /\ Capped)
    BY DEF HarnessInv, LoopInv, go, Live
  <1>2. /\ TypeOK /\ LatchInv /\ LoadProgress /\ FrontInv /\ BoardInv /\ RetireInv /\ CleanInv /\ SlotTypes
        /\ RUN_BIT \in Bit
    BY <1>1 DEF DrivenInv, BoardInv, TypeOK
  <1>3. CASE hazard' # {}
    <2>1. text' = text
      BY <1>1 DEF RetireStep, decode, decode_stall, execute, memory, fetch, check_stall, write_back,
             trap, cycle_end, Skip
    <2> QED BY <1>3, <2>1 DEF Session_!SessionNext, Session_!Leave
  <1>4. CASE hazard' = {}
    <2>1. IF stage = "cycle_end" /\ Capped THEN Seq_!TimeOut ELSE Seq_!Execute \/ UNCHANGED Seq_!vars
      <3>1. CASE Steady
        <4>1. IInv
          BY <1>1, <1>2, <3>1, SteadyIsDisciplined DEF IInv
        <4> QED BY <1>1, <1>2, <1>4, <4>1, StepFinishes
      <3>2. CASE Warm
        <4>1. WarmAction /\ hazard = {}
          <5>1. WarmAction
            BY <1>1, <3>2, WarmActions
          <5> QED BY <1>2, <1>4, <3>2, <5>1, WarmKept
        <4>2. CASE stage = "cycle_end" /\ Capped
          <5>1. cycle_end /\ UNCHANGED history /\ ~ Live'
            BY <1>1, <4>2 DEF RetireStep, Live, decode, decode_stall, execute, memory, fetch, check_stall,
                   write_back, trap, cycle_end, Skip
          <5> QED BY <1>2, <4>1, <4>2, <5>1, LastCycle
        <4>3. CASE ~ (stage = "cycle_end" /\ Capped)
          <5>1. UNCHANGED <<REGS, hi, lo, RUN_BIT, dram, text, hazard, writeback_status, slot.wb>>
            BY <1>2, <3>2, <4>1, <4>3, WarmKept
          <5>2. Live'
            BY <1>1, <3>2, <4>1, <4>3 DEF Warm, WarmAction, Live, check_stall, fetch, cycle_end, Skip
          <5>3. FrontWb' = FrontWb
            BY <1>2, <3>2, <4>1, <5>2, WarmClean
          <5>4. RetirePC' = RetirePC
            BY <5>1, <5>3, Retiring, RetiringNext DEF NextToFinish
          <5> QED BY <4>3, <5>1, <5>4, SeqUnchanged
        <4> QED BY <4>2, <4>3
      <3> QED BY <1>2, <1>1, <3>1, <3>2 DEF FrontInv, Live
    <2>2. hazard = {}
      BY <1>1, <1>4 DEF RetireStep, history
    <2>3. CASE stage = "cycle_end" /\ Capped
      <3>1. Seq_!TimeOut /\ limit' = TRUE
        <4>1. limit' = TRUE
          BY <1>1, <2>3 DEF Capped
        <4> QED BY <2>1, <2>3, <4>1
      <3>2. Session_!TimeOut
        BY <1>1, <3>1, SeqAccesses, SessionAccesses DEF Seq_!TimeOut, Session_!TimeOut
      <3> QED BY <2>2, <3>1, <3>2 DEF Session_!SessionNext
    <2>4. CASE ~ (stage = "cycle_end" /\ Capped)
      <3>1. limit' = FALSE /\ (Seq_!Execute \/ UNCHANGED Seq_!vars)
        <4>1. limit' = FALSE
          BY <1>1, <2>4 DEF Capped
        <4> QED BY <2>1, <2>4, <4>1
      <3>2. CASE Seq_!Execute
        <4>1. Session_!Execute /\ RUN_BIT = 1
          BY <1>1, <3>2, SessionExecutes DEF Seq_!Execute
        <4> QED BY <1>1, <2>2, <3>1, <4>1 DEF Session_!SessionNext
      <3>3. CASE UNCHANGED Seq_!vars
        BY <1>1, <3>1, <3>3 DEF Seq_!vars, Session_!sessionVars, Session_!vars
      <3> QED BY <3>1, <3>2, <3>3
    <2> QED BY <2>3, <2>4
  <1> QED BY <1>3, <1>4

\* initialize() starts a program of the suite from cleared registers.
LEMMA InitializeRefines == HarnessInv /\ initialize => Session_!SessionNext
  <1> SUFFICES ASSUME HarnessInv, initialize PROVE Session_!SessionNext
    OBVIOUS
  <1>1. /\ phase = "initialize" /\ phase' = "go" /\ RUN_BIT' = 1 /\ PC' = TextStart /\ limit' = FALSE
        /\ limit \in BOOLEAN /\ REGS = [r \in Reg |-> 0] /\ hi = 0 /\ lo = 0 /\ stage = "halted"
        /\ UNCHANGED <<REGS, hi, lo, dram, statuses>>
    BY DEF HarnessInv, LoopInv, initialize
  <1>2. text' \in Programs
    BY InitializeInv
  <1>3. CASE limit
    <2>1. hazard' # {}
      BY <1>3 DEF initialize
    <2>2. Session_!StartVoid(text')
      BY <1>1, <1>3, <2>1 DEF Session_!StartVoid
    <2> QED BY <1>2, <2>2 DEF Session_!SessionNext
  <1>4. CASE ~ limit
    <2>1. /\ hazard' = {} /\ slot' = [id |-> FALSE, ex |-> Bubble, mem |-> Bubble, wb |-> Bubble]
          /\ execute_status = 0 /\ memory_status = 0 /\ writeback_status = 0
      BY <1>1, <1>4 DEF HarnessInv, LoopInv, Idle, initialize
    <2>2. execute_status' = 0 /\ memory_status' = 0 /\ writeback_status' = 0 /\ ~ slot'.id
      BY <1>1, <2>1 DEF statuses
    <2>3. RetirePC' = TextStart
      BY <1>1, <2>2, RetiringNext DEF NextToFinish, FrontWb, FrontMem, FrontEx
    <2>4. Session_!Cleared = REGS
      BY <1>1 DEF Session_!Cleared, Session_!Reg, Reg
    <2>5. Session_!Start(text')
      BY <1>1, <1>4, <2>1, <2>3, <2>4 DEF Session_!Start
    <2> QED BY <1>2, <2>5 DEF Session_!SessionNext
  <1> QED BY <1>1, <1>3, <1>4

\* Every step of test() is a step of SeqSession or changes nothing it has.
LEMMA HarnessStepRefines ==
  HarnessInv /\ [HarnessStep \/ Over]_harnessVars => [Session_!SessionNext]_Session_!sessionVars
  <1> SUFFICES ASSUME HarnessInv, [HarnessStep \/ Over]_harnessVars
      PROVE  [Session_!SessionNext]_Session_!sessionVars
    OBVIOUS
  <1>1. CASE reset
    <2>1. /\ phase \in {"reset", "reset_after"} /\ phase' # "go" /\ REGS' = [r \in Reg |-> 0]
          /\ hi' = 0 /\ lo' = 0 /\ UNCHANGED <<dram, text, hazard, limit>>
      BY <1>1 DEF reset, Reset, history
    <2>2. Session_!Cleared = [r \in Reg |-> 0]
      BY DEF Session_!Cleared, Session_!Reg, Reg
    <2>3. Session_!Reset
      BY <2>1, <2>2 DEF Session_!Reset
    <2> QED BY <2>3 DEF Session_!SessionNext
  <1>2. CASE verdict
    <2>1. /\ phase = "go" /\ phase' = "reset_after" /\ RUN_BIT = 0
          /\ UNCHANGED <<REGS, hi, lo, dram, text, RUN_BIT, hazard, limit>>
      BY <1>2 DEF HarnessInv, LoopInv, verdict, allvars, vars, cpu, history
    <2>2. RetirePC = 0
      BY <2>1, Retiring DEF NextToFinish
    <2> QED BY <2>1, <2>2 DEF Session_!sessionVars, Session_!vars
  <1>3. CASE UNCHANGED harnessVars
    <2>1. UNCHANGED <<phase, PC, REGS, hi, lo, dram, text, RUN_BIT, hazard, limit, if_id, execute_status,
                      memory_status, writeback_status, slot>>
      BY <1>3 DEF harnessVars, allvars, vars, cpu, statuses, history, session
    <2>2. RetirePC' = RetirePC
      BY <2>1, Retiring, RetiringNext DEF NextToFinish, FrontWb, FrontMem, FrontEx
    <2> QED BY <2>1, <2>2 DEF Session_!sessionVars, Session_!vars
  <1> QED BY <1>1, <1>2, <1>3, InitializeRefines, ProgramRefines DEF HarnessStep, Over

\* The two start alike.
LEMMA HarnessInitRefines == HarnessInit => Session_!SessionInit
  <1> SUFFICES ASSUME HarnessInit PROVE Session_!SessionInit
    OBVIOUS
  <1>1. Session_!Cleared = [r \in Reg |-> 0]
    BY DEF Session_!Cleared, Session_!Reg, Reg
  <1>2. Session_!Granule = Granule
    BY SessionAccesses
  <1> QED BY <1>1, <1>2 DEF HarnessInit, Session_!SessionInit

\* For every word size, register file, memory, cycle limit and suite of
\* programs: each program runs as on a machine that takes one instruction at a
\* time and starts from cleared registers and the memory of the programs
\* before it, unless the limit stopped the last one.
THEOREM SuiteRefines == HarnessSpec => ImplementsSeqSession
  BY HarnessInitRefines, HarnessStepRefines, SuiteInOrder, PTL
     DEF HarnessSpec, ImplementsSeqSession, Session_!SessionSpec
=============================================================================
