-------------------------------- MODULE Driver --------------------------------
(***************************************************************************)
(* A run of the cycle simulator: main of src/sim_cycle.cpp, which reads    *)
(* the cache configuration, the calls of runCycles in src/cycle.cpp and    *)
(* what they leave behind for one another, and the files written.          *)
(*                                                                         *)
(* runTillHalt asks for one cycle per call; here a run asks for any fixed  *)
(* number in CallLengths.  The pipeline's miss flags and timers are the    *)
(* locals of runCycles: a call copies them from the caches when it begins  *)
(* and back when it ends.                                                  *)
(***************************************************************************)
EXTENDS CycleSim, Sequences

CONSTANTS
  ConfigFiles,    (* cache configurations: a number per line, or NoNumber    *)
  CallLengths     (* arguments of runCycles; 0 asks for no particular number *)

NoNumber == -1

VARIABLES
  phase,          (* "parse", "call", "loop", "halted", "finished", "failed" *)
  config,         (* the configuration file                                  *)
  cycles, count,  (* argument of runCycles, and cycles done in this call     *)
  iSaved, dSaved, (* fetchMiss and fetchStalls of the two caches             *)
  fileInit,       (* dumpPipeState has been called                           *)
  pipeFile,       (* rows of _pipe_state.out, older ones included            *)
  stats,          (* _sim_stats.out                                          *)
  entered,        (* history: instructions that have entered MEM             *)
  memAtHalt       (* history: the memory when the halt entered MEM           *)

history    == <<entered, memAtHalt>>
driverVars == <<simVars, phase, config, cycles, count, iSaved, dSaved, fileInit,
                pipeFile, stats, history>>

------------------------------------------------------------------------------
(* parseArgs *)

ConfigLines == 8
Parses(lines) == /\ Len(lines) >= ConfigLines
                 /\ \A i \in 1 .. ConfigLines : lines[i] # NoNumber

(* The four lines of a cache, behind the first `skipped` ones. *)
Config(lines, skipped) ==
  [cacheSize |-> lines[skipped + 1], blockSize   |-> lines[skipped + 2],
   ways      |-> lines[skipped + 3], missLatency |-> lines[skipped + 4]]

(* The constants stand for the configuration of every file that parses. *)
ASSUME DriverAssumption ==
  /\ \A lines \in ConfigFiles : Parses(lines) =>
       Config(lines, 0) = iCacheConfig /\ Config(lines, 4) = dCacheConfig
  /\ CallLengths \subseteq Nat

NoMiss   == [fetchMiss |-> FALSE, fetchStalls |-> 0]
NoStats  == [dynamicInstructions |-> 0, totalCycles |-> 0, icHits |-> 0, icMisses |-> 0,
             dcHits |-> 0, dcMisses |-> 0, loadUseStalls |-> 0]
StaleRow == [cycle |-> 0, wb |-> "halt"]

DriverInit ==
  /\ SimInit
  /\ phase = "parse"
  /\ config \in ConfigFiles
  /\ cycles \in CallLengths /\ count = 0
  /\ iSaved = NoMiss /\ dSaved = NoMiss
  /\ fileInit = FALSE
  /\ pipeFile = <<StaleRow>>       \* an earlier run may have left its file
  /\ stats = NoStats
  /\ entered = 0 /\ memAtHalt = InitMem

(* A line that is no number ends the program before it has begun. *)
parseArgs ==
  /\ phase = "parse"
  /\ phase' = IF Parses(config) THEN "call" ELSE "failed"
  /\ UNCHANGED <<simVars, config, cycles, count, iSaved, dSaved, fileInit, pipeFile,
                 stats, history>>

------------------------------------------------------------------------------
(* runCycles *)

(* dumpPipeState: the first call truncates the file, the others append.     *)
Row == [cycle |-> cycleCount - 1, wb |-> wbInst.word.op]
dumpPipeState(row) ==
  /\ pipeFile' = IF fileInit THEN Append(pipeFile, row) ELSE <<row>>
  /\ fileInit' = TRUE

(* Mutant of Call: the miss in progress is forgotten. *)
CallAfresh ==
  /\ phase = "call" /\ phase' = "loop"
  /\ count' = 0
  /\ instFetchMiss' = FALSE /\ instMissStalls' = 0
  /\ dataFetchMiss' = FALSE /\ dataMissStalls' = 0
  /\ UNCHANGED <<code, oracle, PC, stages, regs, mem, remainingStallCycles, prevICPC,
                 prevD, loadStallCount, completedCount, status, iCacheVars, dCacheVars,
                 cycleCount, frozenCycles, fetchMissCycles, config, cycles, iSaved,
                 dSaved, fileInit, pipeFile, stats, history>>

(* A call begins: the locals come from the caches. *)
Call ==
  /\ phase = "call" /\ phase' = "loop"
  /\ count' = 0
  /\ instFetchMiss' = iSaved.fetchMiss /\ instMissStalls' = iSaved.fetchStalls
  /\ dataFetchMiss' = dSaved.fetchMiss /\ dataMissStalls' = dSaved.fetchStalls
  /\ UNCHANGED <<code, oracle, PC, stages, regs, mem, remainingStallCycles, prevICPC,
                 prevD, loadStallCount, completedCount, status, iCacheVars, dCacheVars,
                 cycleCount, frozenCycles, fetchMissCycles, config, cycles, iSaved,
                 dSaved, fileInit, pipeFile, stats, history>>

EntersMEM == ~dMiss(dCache!Hit(memInst.memAddress)) /\ Active(memInst') /\ isLegal(memInst')

(* One iteration of the loop; the one that halts dumps its row itself. *)
Iterate ==
  /\ phase = "loop" /\ UNCHANGED phase
  /\ status = "SUCCESS" /\ (cycles = 0 \/ count < cycles)
  /\ SimCycle
  /\ count' = count + 1
  /\ IF status' = "HALT" THEN dumpPipeState(Row') ELSE UNCHANGED <<pipeFile, fileInit>>
  /\ entered' = entered + (IF EntersMEM THEN 1 ELSE 0)
  /\ memAtHalt' = IF isHalt(memInst') THEN mem' ELSE memAtHalt
  /\ UNCHANGED <<config, cycles, iSaved, dSaved, stats>>

CallOver == phase = "loop" /\ (status = "HALT" \/ (cycles # 0 /\ count = cycles))

SaveMisses ==
  /\ iSaved' = [fetchMiss |-> instFetchMiss, fetchStalls |-> instMissStalls]
  /\ dSaved' = [fetchMiss |-> dataFetchMiss, fetchStalls |-> dataMissStalls]

(* Mutant of Return: the halt's row is dumped again. *)
ReturnDumpsAlways ==
  /\ CallOver
  /\ SaveMisses
  /\ dumpPipeState(Row)
  /\ phase' = IF status = "HALT" THEN "halted" ELSE "call"
  /\ UNCHANGED <<simVars, config, cycles, count, stats, history>>

(* The call returns, and runTillHalt calls again unless it was HALT. *)
Return ==
  /\ CallOver
  /\ SaveMisses
  /\ IF status = "HALT" THEN UNCHANGED <<pipeFile, fileInit>> ELSE dumpPipeState(Row)
  /\ phase' = IF status = "HALT" THEN "halted" ELSE "call"
  /\ UNCHANGED <<simVars, config, cycles, count, stats, history>>

finalizeSimulator ==
  /\ phase = "halted" /\ phase' = "finished"
  /\ stats' = [dynamicInstructions |-> completedCount, totalCycles |-> cycleCount,
               icHits |-> iHits, icMisses |-> iMisses,
               dcHits |-> dHits, dcMisses |-> dMisses, loadUseStalls |-> loadStallCount]
  /\ UNCHANGED <<simVars, config, cycles, count, iSaved, dSaved, fileInit, pipeFile, history>>

(* main has returned, or the bound on cycles is reached. *)
Exited == /\ phase \in {"finished", "failed"} \/ cycleCount = MaxCycles
          /\ UNCHANGED driverVars

DriverNext == parseArgs \/ Call \/ Iterate \/ Return \/ finalizeSimulator \/ Exited

DriverSpec == DriverInit /\ [][DriverNext]_driverVars /\ WF_driverVars(DriverNext)

------------------------------------------------------------------------------
(* Type correctness. *)
DriverTypeOK ==
  /\ SimTypeOK
  /\ phase \in {"parse", "call", "loop", "halted", "finished", "failed"}
  /\ count \in Nat /\ entered \in Nat
  /\ iSaved \in [fetchMiss : BOOLEAN, fetchStalls : Nat]
  /\ dSaved \in [fetchMiss : BOOLEAN, fetchStalls : Nat]
  /\ fileInit \in BOOLEAN

(* runCycles ends its call in the middle of a miss, a stall or a            *)
(* speculation, and the next call goes on where it ended (cycle.cpp:107 and *)
(* 620): however the cycles are parted into calls, they are the same cycles.*)
CallsAreCycles == SimInit /\ [][SimCycle]_simVars

(* Every call leaves one row, that of its last cycle, in _pipe_state.out;   *)
(* the halt leaves no second one (cycle.cpp:602, 638) and no row of an      *)
(* earlier run survives (Utilities.cpp:400).                                *)
OneRowPerCall ==
  phase = "finished" \/ (phase = "call" /\ fileInit) =>
    /\ Len(pipeFile) = IF cycles = 0 THEN 1 ELSE (cycleCount + cycles - 1) \div cycles
    /\ \A k \in 1 .. Len(pipeFile) :
         pipeFile[k].cycle = IF k = Len(pipeFile) THEN cycleCount - 1 ELSE k * cycles - 1

(* WB counts an instruction when it retires (cycle.cpp:307), and MEM keeps  *)
(* one for as long as its data miss lasts: each instruction that enters MEM *)
(* is counted once, and "Dynamic instructions" counts nothing else.         *)
CountedOnce ==
  completedCount + (IF Active(memInst) /\ isLegal(memInst) THEN 1 ELSE 0) = entered

(* The halt is noticed at the end of the cycle that retires it              *)
(* (cycle.cpp:602).  Of what is behind it, one store at most has changed    *)
(* the memory by then, and it is the word right behind the halt.            *)
OneStoreEscapes ==
  HaltInMem \/ status = "HALT" =>
    \/ mem = memAtHalt
    \/ /\ isHalt(wbInst) /\ isStore(memInst) /\ memInst.pc = Plus(wbInst.pc, 1)
       /\ mem = setMemValue(memAtHalt, memInst.memAddress, memInst.op2Val)

(* That store apart, the run is the machine's (see Pipeline). *)
FinalISA == INSTANCE Machine WITH
  pc <- MachinePC, regs <- MachineRegs, halted <- HaltInMem,
  mem <- IF HaltInMem THEN memAtHalt ELSE mem
RunsAsMachine == FinalISA!Spec

(* "run till halt" (cycle.cpp:645): main returns, whether calls are short   *)
(* or long and wherever they end.                                           *)
Finishes == <>(phase \in {"finished", "failed"})
==============================================================================
