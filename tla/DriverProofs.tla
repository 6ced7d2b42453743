---------------------------- MODULE DriverProofs ----------------------------
(***************************************************************************)
(* However a run is parted into calls of runCycles, it makes the cycles of *)
(* the simulator, none of them in vain, it counts each instruction once,   *)
(* and it ends with at most one store too many.  A run that keeps the flow *)
(* of the pipeline ends as the machine does, but for that store.           *)
(***************************************************************************)
EXTENDS Driver, CycleSimProofs

(* Between two calls the caches hold the miss flags and timers that the     *)
(* next call takes over.                                                    *)
Saved ==
  phase \in {"parse", "call"} =>
    /\ instFetchMiss = iSaved.fetchMiss /\ instMissStalls = iSaved.fetchStalls
    /\ dataFetchMiss = dSaved.fetchMiss /\ dataMissStalls = dSaved.fetchStalls

(* A step of a call is a cycle, and the other steps leave the simulator be. *)
LEMMA DriverStep ==
  ASSUME Saved, [DriverNext]_driverVars
  PROVE  [SimCycle]_simVars /\ Saved'
<1>1. CASE parseArgs
  BY <1>1 DEF parseArgs, Saved, simVars, vars, misses
<1>2. CASE Call
  <2>1. UNCHANGED misses
    BY <1>2 DEF Call, Saved, misses
  <2>2. UNCHANGED simVars
    BY <1>2, <2>1 DEF Call, simVars, vars
  <2>3. phase' = "loop"
    BY <1>2 DEF Call
  <2>. QED
    BY <2>2, <2>3 DEF Saved
<1>3. CASE Iterate
  BY <1>3 DEF Iterate, Saved
<1>4. CASE Return
  BY <1>4 DEF Return, SaveMisses, Saved, simVars, vars, misses
<1>5. CASE finalizeSimulator
  BY <1>5 DEF finalizeSimulator, Saved
<1>6. CASE Exited
  BY <1>6 DEF Exited, driverVars, Saved, simVars, vars, misses
<1>7. CASE UNCHANGED driverVars
  BY <1>7 DEF driverVars, Saved, simVars, vars, misses
<1>. QED
  BY <1>1, <1>2, <1>3, <1>4, <1>5, <1>6, <1>7 DEF DriverNext

(* The miss in progress at the end of a call is the one the next call goes  *)
(* on with (cycle.cpp:107 and 620), so that calls of any length make the    *)
(* cycles that one endless call would make.                                 *)
THEOREM DriverCallsAreCycles == DriverSpec => CallsAreCycles
<1>1. DriverInit => SimInit /\ Saved
  <2>1. Init => misses = <<FALSE, 0, FALSE, 0>>
    BY DEF Init, misses
  <2>2. DriverInit => SimInit /\ Init /\ iSaved = NoMiss /\ dSaved = NoMiss
    BY DEF DriverInit, SimInit
  <2>3. misses = <<FALSE, 0, FALSE, 0>> /\ iSaved = NoMiss /\ dSaved = NoMiss => Saved
    <3>1. NoMiss.fetchMiss = FALSE /\ NoMiss.fetchStalls = 0
      BY DEF NoMiss
    <3>. QED
      BY <3>1 DEF Saved, misses
  <2>. QED
    BY <2>1, <2>2, <2>3
<1>. QED
  BY <1>1, DriverStep, PTL DEF DriverSpec, CallsAreCycles

(* What holds of the simulator holds of it in the driver's hands. *)
LEMMA DriverIsSim == DriverSpec => SimSafety
<1>1. [SimCycle]_simVars => [SimNext]_simVars
  BY DEF SimNext
<1>. QED
  BY <1>1, DriverCallsAreCycles, PTL DEF CallsAreCycles, SimSafety

(* The pipeline's inductive invariant is among it. *)
LEMMA DriverInvariant == DriverSpec => []IInv
BY DriverIsSim, SimIInv, PTL

(* Every data miss costs missLatency cycles, also one that a call of        *)
(* runCycles leaves to the next (cycle.cpp:620).                            *)
THEOREM DriverDataMissesPaid ==
  ASSUME DMissLatency > 0
  PROVE  DriverSpec => []DataMissesPaid
BY DriverIsSim, SimDataMissesPaid, PTL

(* No instruction miss costs more than that, however the run is parted.     *)
THEOREM DriverInstMissesNotOvercharged ==
  ASSUME IMissLatency > 0
  PROVE  DriverSpec => []InstMissesNotOvercharged
BY DriverIsSim, SimInstMissesNotOvercharged, PTL

(* A lookup that a later call skips, it skips rightly (cycle.cpp:162, 276). *)
THEOREM DriverSkippedLookupsHit == DriverSpec => []SkippedLookupsHit
BY DriverIsSim, SimSkippedLookupsHit, PTL

(* No call spoils the progress of the cycles before it: however a run is    *)
(* parted, a cycle retires something, traps or comes nearer to one of them. *)
THEOREM DriverNeverStuck ==
  ASSUME IMissLatency > 0, DMissLatency > 0
  PROVE  DriverSpec =>
           [](Wait \in 0 .. MaxWait) /\ [][Retires \/ Traps \/ Wait' < Wait]_vars
<1>1. Init /\ [][Next]_vars =>
        [](Wait \in 0 .. MaxWait) /\ [][Retires \/ Traps \/ Wait' < Wait]_vars
  BY PipelineNeverStuck
<1>. QED
  BY <1>1, DriverIsSim, SimImplementsPipeline, PTL

(* The state of a run stays well typed, what a call leaves behind for the   *)
(* next one included.                                                       *)
THEOREM DriverTypeCorrect == DriverSpec => []DriverTypeOK
<1>. DEFINE OwnTypes ==
              /\ phase \in {"parse", "call", "loop", "halted", "finished", "failed"}
              /\ count \in Nat /\ entered \in Nat
              /\ iSaved \in [fetchMiss : BOOLEAN, fetchStalls : Nat]
              /\ dSaved \in [fetchMiss : BOOLEAN, fetchStalls : Nat]
              /\ fileInit \in BOOLEAN
<1>1. DriverInit => OwnTypes
  <2>1. NoMiss \in [fetchMiss : BOOLEAN, fetchStalls : Nat]
    BY DEF NoMiss
  <2>2. DriverInit => /\ phase = "parse" /\ count = 0 /\ entered = 0
                      /\ iSaved = NoMiss /\ dSaved = NoMiss /\ fileInit = FALSE
    BY DEF DriverInit
  <2>3. 0 \in Nat
    OBVIOUS
  <2>. QED
    BY <2>1, <2>2, <2>3, Zenon
<1>2. SimTypeOK /\ OwnTypes /\ [DriverNext]_driverVars => OwnTypes'
  <2>. SUFFICES ASSUME SimTypeOK, OwnTypes, [DriverNext]_driverVars PROVE OwnTypes'
    OBVIOUS
  <2>1. CASE parseArgs
    BY <2>1 DEF parseArgs, history
  <2>2. CASE Call
    BY <2>2 DEF Call, history
  <2>3. CASE Iterate
    <3>1. phase' = phase /\ iSaved' = iSaved /\ dSaved' = dSaved
          /\ count' = count + 1 /\ fileInit' \in {fileInit, TRUE}
      BY <2>3, Zenon DEF Iterate, dumpPipeState
    <3>2. entered' \in {entered, entered + 1}
      BY <2>3 DEF Iterate
    <3>3. fileInit' \in BOOLEAN
      BY <3>1, Zenon
    <3>4. count' \in Nat /\ entered' \in Nat
      BY <3>1, <3>2
    <3>. QED
      BY <3>1, <3>3, <3>4, Zenon
  <2>4. CASE Return
    <3>1. /\ instFetchMiss \in BOOLEAN /\ instMissStalls \in Nat
          /\ dataFetchMiss \in BOOLEAN /\ dataMissStalls \in Nat
      BY DEF SimTypeOK, TypeOK
    <3>. QED
      BY <2>4, <3>1 DEF Return, SaveMisses, dumpPipeState, history
  <2>5. CASE finalizeSimulator
    BY <2>5 DEF finalizeSimulator, history
  <2>6. CASE UNCHANGED driverVars
    BY <2>6 DEF driverVars, history
  <2>. QED
    BY <2>1, <2>2, <2>3, <2>4, <2>5, <2>6 DEF DriverNext, Exited
<1>3. DriverSpec => []SimTypeOK
  BY DriverIsSim, SimTypeCorrect, PTL
<1>4. SimTypeOK /\ OwnTypes => DriverTypeOK
  BY DEF DriverTypeOK
<1>. HIDE DEF OwnTypes
<1>. QED
  BY <1>1, <1>2, <1>3, <1>4, PTL DEF DriverSpec

------------------------------------------------------------------------------
(* Each instruction is counted once. *)

Counts(inst) == Active(inst) /\ isLegal(inst)

(* WB passes on what counts as what counts, and bubbles as bubbles. *)
LEMMA CommittedCounts ==
  ASSUME NEW inst \in Sound
  PROVE  Counts(simWB(inst)) <=> Counts(inst)
<1>1. CASE PassesThrough(inst) \/ NotExecuted(inst)
  BY <1>1 DEF simWB
<1>2. CASE ~(PassesThrough(inst) \/ NotExecuted(inst))
  <2>. DEFINE new == [inst EXCEPT !.status = "NORMAL"]
  <2>1. simWB(inst) = new
    BY <1>2 DEF simWB
  <2>2. new.status = "NORMAL" /\ new.isNop = inst.isNop /\ new.word = inst.word
    BY DEF Sound, Instruction
  <2>. HIDE DEF new
  <2>. QED
    BY <1>2, <2>1, <2>2 DEF PassesThrough, NotExecuted, Counts, Active, isLegal
<1>. QED
  BY <1>1, <1>2

(* Completed instructions, and the one in MEM that has yet to be counted.   *)
Counted == entered \in Nat /\ CountedOnce

(* A cycle counts what leaves MEM and enters what arrives there; in a       *)
(* freeze it does neither.                                                  *)
LEMMA CycleCounts ==
  ASSUME IInv, Counted, Iterate
  PROVE  Counted'
<1>. DEFINE dHit == dCache!Hit(memInst.memAddress)
            iHit == iCache!Hit(InstAddress(ifInst.pc))
            next == completedCount + (IF Counts(memInst) THEN 1 ELSE 0)
<1>1. /\ completedCount \in Nat /\ entered \in Nat /\ memInst \in Sound
      /\ next = entered
  BY DEF IInv, TypeOK, Operand0, Counted, CountedOnce, Counts
<1>2. /\ dHit \in BOOLEAN /\ iHit \in BOOLEAN /\ Cycle(iHit, dHit)
  BY HitIsBoolean DEF Iterate, SimCycle
<1>3. entered' = entered + (IF ~dMiss(dHit) /\ Counts(memInst') THEN 1 ELSE 0)
  BY DEF Iterate, EntersMEM, Counts
<1>4. memInst' = NewMEM(dHit)
  <2>1. regs \in [Reg -> Value]
    BY DEF IInv, TypeOK
  <2>2. memExc(dHit) = FALSE
    BY <1>2, <2>1, NewStages DEF memExc, Operand0, Sound
  <2>. QED
    BY <1>2, <2>2 DEF Cycle, Memory
<1>5. /\ wbInst' = NewWB(dHit)
      /\ completedCount' = IF Counts(wbInst') THEN completedCount + 1 ELSE completedCount
  BY <1>2 DEF Cycle, WriteBack, Counts
<1>. HIDE DEF dHit, iHit
<1>6. CASE dMiss(dHit)
  <2>1. memInst' = memInst /\ wbInst' = nop("BUBBLE")
    BY <1>4, <1>5, <1>6 DEF NewMEM, NewWB
  <2>2. ~Counts(wbInst')
    BY <2>1 DEF Counts, Active, nop
  <2>3. completedCount' = completedCount /\ entered' = entered
    BY <1>1, <1>3, <1>5, <1>6, <2>2
  <2>. QED
    BY <1>1, <2>1, <2>3 DEF Counted, CountedOnce
<1>7. CASE ~dMiss(dHit)
  <2>1. Counts(wbInst') <=> Counts(memInst)
    BY <1>1, <1>5, <1>7, CommittedCounts DEF NewWB
  <2>2. completedCount' = next /\ completedCount' \in Nat
    BY <1>1, <1>5, <2>1
  <2>3. entered' = entered + (IF Counts(memInst') THEN 1 ELSE 0)
    BY <1>3, <1>7
  <2>. QED
    BY <1>1, <2>2, <2>3 DEF Counted, CountedOnce, Counts
<1>. QED
  BY <1>6, <1>7

(* "Dynamic instructions" counts an instruction when it retires             *)
(* (cycle.cpp:307): none is left out and none is counted again while a data *)
(* miss holds it in MEM, for every program, geometry and latency.           *)
THEOREM DriverCountedOnce == DriverSpec => []CountedOnce
<1>1. DriverInit => Counted
  BY DEF DriverInit, SimInit, Init, Counted, CountedOnce, Active, nop
<1>2. IInv /\ Counted /\ [DriverNext]_driverVars => Counted'
  <2>. SUFFICES ASSUME IInv, Counted, [DriverNext]_driverVars PROVE Counted'
    OBVIOUS
  <2>1. CASE Iterate
    BY <2>1, CycleCounts
  <2>2. CASE UNCHANGED <<memInst, completedCount, entered>>
    BY <2>2 DEF Counted, CountedOnce, Active, isLegal
  <2>3. [DriverNext]_driverVars /\ ~Iterate => UNCHANGED <<memInst, completedCount, entered>>
    BY DEF DriverNext, parseArgs, Call, Return, finalizeSimulator, Exited, driverVars,
           simVars, vars, stages, history
  <2>. QED
    BY <2>1, <2>2, <2>3
<1>3. Counted => CountedOnce
  BY DEF Counted
<1>. QED
  BY <1>1, <1>2, <1>3, DriverInvariant, PTL DEF DriverSpec

------------------------------------------------------------------------------
(* What is behind the halt. *)

(* The words behind a halt are in order in the driver's pipeline too. *)
LEMMA DriverHaltsInOrder == DriverSpec => [](IInv /\ CodeInv /\ HaltInv)
BY DriverIsSim, SimImplementsPipeline, HaltsInOrder, PTL

(* Until the halt has left MEM nothing has changed the memory. *)
EscapeInv ==
  /\ isHalt(memInst) /\ status = "SUCCESS" => mem = memAtHalt
  /\ OneStoreEscapes

(* The store in EX writes the memory as it enters MEM, and keeps its address*)
(* and its data there.                                                      *)
LEMMA StoreEnters ==
  ASSUME NEW inst \in Instruction, NEW m \in [Address -> Value], isStore(inst)
  PROVE  /\ MemAfter(inst, m) = setMemValue(m, inst.memAddress, inst.op2Val)
         /\ simMEM(inst, m).memAddress = inst.memAddress
         /\ simMEM(inst, m).op2Val = inst.op2Val
<1>1. ~PassesThrough(inst) /\ ~NotExecuted(inst) /\ writesMem(inst) /\ ~readsMem(inst)
  BY DEF isStore, Active, PassesThrough, NotExecuted, isHalt, isLegal, writesMem, readsMem
<1>2. simMEM(inst, m) = [inst EXCEPT !.status = "NORMAL"]
  BY <1>1 DEF simMEM, simMemAccess
<1>. QED
  BY <1>1, <1>2 DEF MemAfter, Instruction

(* A cycle keeps to that: behind the halt at most one store enters MEM      *)
(* before the halt check.                                                   *)
LEMMA CycleLetsOneEscape ==
  ASSUME IInv, CodeInv, HaltInv, HaltInv', EscapeInv, Iterate
  PROVE  EscapeInv'
<1>. DEFINE dHit == dCache!Hit(memInst.memAddress)
            iHit == iCache!Hit(InstAddress(ifInst.pc))
<1>1. /\ dHit \in BOOLEAN /\ iHit \in BOOLEAN /\ Cycle(iHit, dHit) /\ status = "SUCCESS"
  BY HitIsBoolean DEF Iterate, SimCycle
<1>2. memAtHalt' = IF isHalt(memInst') THEN mem' ELSE memAtHalt
  BY DEF Iterate
<1>3. status' = "HALT" <=> isHalt(wbInst')
  BY DEF HaltInv
<1>. HIDE DEF dHit, iHit
<1>4. CASE isHalt(memInst')
  BY <1>2, <1>4 DEF EscapeInv, OneStoreEscapes
<1>5. CASE ~isHalt(memInst') /\ ~isHalt(wbInst')
  BY <1>3, <1>5 DEF EscapeInv, OneStoreEscapes, HaltInMem
<1>6. CASE ~isHalt(memInst') /\ isHalt(wbInst')
  <2>1. ~dMiss(dHit)
    <3>1. wbInst' # nop("BUBBLE")
      BY <1>6 DEF isHalt, nop, NopWord
    <3>. QED
      BY <3>1, <1>1, CycleKeeps
  <2>2. mem = memAtHalt /\ memAtHalt' = memAtHalt
    <3>1. Same(wbInst', memInst)
      BY <2>1, <1>1, CycleKeeps
    <3>2. isHalt(memInst)
      BY <3>1, <1>6 DEF Same, isHalt
    <3>. QED
      BY <3>2, <1>1, <1>2, <1>6 DEF EscapeInv
  <2>3. /\ mem' = MemAfter(StoreForwarded, mem)
        /\ memInst' = simMEM(StoreForwarded, mem)
        /\ StoreForwarded \in Instruction /\ mem \in [Address -> Value]
    BY <2>1, <1>1, CycleMoves, Forwarded
       DEF Cycle, Memory, NewMEM, Operand0, Sound, IInv, TypeOK
  <2>4. CASE isStore(StoreForwarded)
    <3>1. /\ mem' = setMemValue(memAtHalt', memInst'.memAddress, memInst'.op2Val)
      BY <2>2, <2>3, <2>4, StoreEnters
    <3>2. isStore(memInst')
      BY <2>3, <2>4, AccessedSame DEF Same, isStore, writesMem
    <3>3. memInst'.pc = Plus(wbInst'.pc, 1)
      BY <3>2, <1>6 DEF HaltInv, Follows, isStore
    <3>. QED
      BY <3>1, <3>2, <3>3, <1>6 DEF EscapeInv, OneStoreEscapes
  <2>5. CASE ~isStore(StoreForwarded)
    <3>1. mem' = memAtHalt'
      BY <2>2, <2>3, <2>5 DEF MemAfter, isStore, Active, PassesThrough
    <3>. QED
      BY <3>1, <1>6 DEF EscapeInv, OneStoreEscapes
  <2>. QED
    BY <2>4, <2>5
<1>. QED
  BY <1>4, <1>5, <1>6

LEMMA EscapeInvInductive == DriverSpec => []EscapeInv
<1>. DEFINE All == IInv /\ CodeInv /\ HaltInv
<1>1. DriverInit => EscapeInv
  BY DEF DriverInit, SimInit, Init, EscapeInv, OneStoreEscapes, HaltInMem, isHalt, nop,
     NopWord
<1>2. All /\ All' /\ EscapeInv /\ [DriverNext]_driverVars => EscapeInv'
  <2>. SUFFICES ASSUME All, All', EscapeInv, [DriverNext]_driverVars PROVE EscapeInv'
    OBVIOUS
  <2>1. CASE Iterate
    BY <2>1, CycleLetsOneEscape
  <2>2. CASE UNCHANGED <<memInst, wbInst, mem, memAtHalt, status>>
    BY <2>2 DEF EscapeInv, OneStoreEscapes, HaltInMem, isHalt, isStore, Active, writesMem
  <2>3. [DriverNext]_driverVars /\ ~Iterate =>
          UNCHANGED <<memInst, wbInst, mem, memAtHalt, status>>
    BY DEF DriverNext, parseArgs, Call, Return, finalizeSimulator, Exited, driverVars,
           simVars, vars, stages, history
  <2>. QED
    BY <2>1, <2>2, <2>3
<1>. QED
  BY <1>1, <1>2, DriverHaltsInOrder, PTL DEF DriverSpec

(* Whatever is behind the halt, of the words that are in the pipeline when  *)
(* the halt retires (cycle.cpp:602) only the one right behind it can have   *)
(* changed the memory, for every program, geometry and latency.             *)
THEOREM DriverOneStoreEscapes == DriverSpec => []OneStoreEscapes
<1>1. EscapeInv => OneStoreEscapes
  BY DEF EscapeInv
<1>. QED
  BY <1>1, EscapeInvInductive, PTL

------------------------------------------------------------------------------
(* The whole run is the machine's. *)

(* The memory of the machine: what it was when the halt entered MEM. *)
FinalMem == IF HaltInMem THEN memAtHalt ELSE mem

(* The two instances of the machine take the same steps where they see the  *)
(* same memory.                                                             *)
LEMMA SameMachineStep ==
  ASSUME ISA!Next, FinalMem = mem, FinalMem' = mem'
  PROVE  FinalISA!Next
<1>1. FinalISA!word = ISA!word
  BY DEF FinalISA!word, ISA!word, FinalISA!At, ISA!At, FinalISA!ZeroWord, ISA!ZeroWord
<1>2. /\ FinalISA!rs1Value = ISA!rs1Value /\ FinalISA!rs2Value = ISA!rs2Value
      /\ FinalISA!target = ISA!target
      /\ \A a, b : FinalISA!Plus(a, b) = ISA!Plus(a, b)
  BY <1>1 DEF FinalISA!rs1Value, ISA!rs1Value, FinalISA!rs2Value, ISA!rs2Value,
     FinalISA!target, ISA!target, FinalISA!Plus, ISA!Plus
<1>3. \A r, v : ISA!SetReg(r, v) <=> FinalISA!SetReg(r, v)
  BY DEF FinalISA!SetReg, ISA!SetReg
<1>4. \A p : ISA!GoTo(p) <=> FinalISA!GoTo(p)
  BY DEF FinalISA!GoTo, ISA!GoTo, FinalISA!Vector, ISA!Vector, FinalISA!At, ISA!At,
     FinalISA!ZeroWord, ISA!ZeroWord
<1>5. FinalISA!Address = ISA!Address
  BY DEF FinalISA!Address, ISA!Address
<1>6. /\ ISA!Nop => FinalISA!Nop
      /\ ISA!Branch => FinalISA!Branch
      /\ ISA!Jump => FinalISA!Jump
      /\ ISA!Arithmetic => FinalISA!Arithmetic
  BY <1>1, <1>2, <1>3, <1>4 DEF FinalISA!Nop, ISA!Nop, FinalISA!Branch, ISA!Branch,
     FinalISA!Jump, ISA!Jump, FinalISA!Arithmetic, ISA!Arithmetic, FinalMem
<1>7. ISA!Load => FinalISA!Load
  BY <1>1, <1>2, <1>3, <1>4, <1>5 DEF FinalISA!Load, ISA!Load, FinalMem
<1>8. ISA!Store => FinalISA!Store
  BY <1>1, <1>2, <1>4, <1>5 DEF FinalISA!Store, ISA!Store, FinalMem
<1>9. ISA!Halt => FinalISA!Halt
  BY <1>1 DEF FinalISA!Halt, ISA!Halt, FinalMem
<1>. QED
  BY <1>6, <1>7, <1>8, <1>9 DEF FinalISA!Next, ISA!Next

(* A cycle of the driver is a step of the machine or none: the store that   *)
(* escapes is not in the memory the halt has left.                          *)
LEMMA IterateIsStep ==
  ASSUME IInv, CodeInv, HaltInv, FlowInv, FlowKept, EscapeInv, Iterate
  PROVE  FinalISA!Next \/ UNCHANGED FinalISA!vars
<1>. DEFINE dHit == dCache!Hit(memInst.memAddress)
            iHit == iCache!Hit(InstAddress(ifInst.pc))
<1>1. /\ dHit \in BOOLEAN /\ iHit \in BOOLEAN /\ Cycle(iHit, dHit) /\ status = "SUCCESS"
  BY HitIsBoolean DEF Iterate, SimCycle
<1>2. memAtHalt' = IF isHalt(memInst') THEN mem' ELSE memAtHalt
  BY DEF Iterate
<1>. HIDE DEF dHit, iHit
<1>3. \/ ~HaltInMem /\ ISA!Next
      \/ Idles /\ mem' = mem
      \/ Idles /\ HaltInMem /\ isHalt(wbInst') /\ isStore(memInst')
  BY <1>1, CycleIsStep DEF FlowInv, FlowKept
<1>4. CASE ~HaltInMem /\ ISA!Next
  <2>1. FinalMem = mem
    BY <1>4 DEF FinalMem
  <2>2. ~isHalt(wbInst')
    <3>1. Same(wbInst', memInst) \/ wbInst' = nop("BUBBLE")
      BY <1>1, CycleKeeps
    <3>. QED
      BY <1>4, <3>1 DEF HaltInMem, Same, isHalt, nop, NopWord
  <2>3. FinalMem' = mem'
    BY <1>2, <2>2 DEF FinalMem, HaltInMem
  <2>. QED
    BY <1>4, <2>1, <2>3, SameMachineStep
<1>5. ASSUME Idles, mem' = mem \/ (HaltInMem /\ isStore(memInst'))
      PROVE  UNCHANGED FinalISA!vars
  <2>1. HaltInMem' <=> HaltInMem
    BY <1>5 DEF Idles
  <2>2. CASE HaltInMem
    <3>1. mem = memAtHalt
      BY <1>1, <2>2 DEF EscapeInv, HaltInMem, HaltInv
    <3>2. memAtHalt' = memAtHalt
      BY <1>2, <1>5, <3>1 DEF isHalt, isStore, writesMem
    <3>. QED
      BY <1>5, <2>1, <2>2, <3>2 DEF FinalISA!vars, Idles
  <2>3. CASE ~HaltInMem
    BY <1>5, <2>1, <2>3 DEF FinalISA!vars, Idles
  <2>. QED
    BY <2>2, <2>3
<1>. QED
  BY <1>3, <1>4, <1>5

(* As long as branches are decided in time, skip no single word, and the    *)
(* handler's first word runs once, a run of main is a run of the machine,   *)
(* however it is parted into calls, with caches of every geometry and       *)
(* latency.                                                                 *)
THEOREM DriverRunsAsMachine == DriverSpec /\ []FlowKept => RunsAsMachine
<1>. DEFINE All == IInv /\ CodeInv /\ HaltInv
<1>1. DriverInit => FinalISA!Init
  <2>. SUFFICES ASSUME DriverInit PROVE FinalISA!Init
    OBVIOUS
  <2>1. Init /\ ISA!Init
    BY InitIsMachineInit DEF DriverInit, SimInit
  <2>2. ~HaltInMem
    BY <2>1 DEF Init, HaltInMem, isHalt, nop, NopWord
  <2>. QED
    BY <2>1, <2>2 DEF ISA!Init, FinalISA!Init, ISA!Reg, FinalISA!Reg, ISA!Vector,
       FinalISA!Vector, ISA!At, FinalISA!At, ISA!ZeroWord, FinalISA!ZeroWord
<1>2. All /\ FlowInv /\ FlowKept /\ EscapeInv /\ [DriverNext]_driverVars
        => [FinalISA!Next]_FinalISA!vars
  <2>. SUFFICES ASSUME IInv, CodeInv, HaltInv, FlowInv, FlowKept, EscapeInv,
                       [DriverNext]_driverVars
                PROVE  [FinalISA!Next]_FinalISA!vars
    OBVIOUS
  <2>1. CASE Iterate
    BY <2>1, IterateIsStep
  <2>2. CASE UNCHANGED <<code, PC, stages, regs, mem, memAtHalt>>
    BY <2>2 DEF stages, FinalISA!vars, MachinePC, MachineRegs, HaltInMem, OldestPC,
       WrongPath
  <2>3. [DriverNext]_driverVars /\ ~Iterate =>
          UNCHANGED <<code, PC, stages, regs, mem, memAtHalt>>
    BY DEF DriverNext, parseArgs, Call, Return, finalizeSimulator, Exited, driverVars,
           simVars, vars, history
  <2>. QED
    BY <2>1, <2>2, <2>3
<1>3. DriverSpec /\ []FlowKept => []FlowInv
  BY DriverIsSim, SimImplementsPipeline, KeptFlows, PTL
<1>. QED
  BY <1>1, <1>2, <1>3, DriverHaltsInOrder, EscapeInvInductive, PTL
     DEF DriverSpec, RunsAsMachine, FinalISA!Spec

(* So main runs every settled program as the machine does. *)
THEOREM DriverRunsSettledPrograms ==
  DriverSpec /\ Settled /\ []RegisterJumpsFar => RunsAsMachine
<1>1. DriverSpec /\ Settled /\ []RegisterJumpsFar => []FlowKept
  BY DriverIsSim, SimImplementsPipeline, SettledFlows, PTL
<1>. QED
  BY <1>1, DriverRunsAsMachine

(* Branches may besides rely on the stalls of cycle.cpp:231-262, if no      *)
(* access comes shortly before: main runs every such program as the machine *)
(* does, although its caches miss what they do not hold yet.                *)
THEOREM DriverRunsTimelyPrograms ==
  DriverSpec /\ Timely /\ AccessesApart /\ []RegisterJumpsFar => RunsAsMachine
<1>1. AccessesApart => MissesApart
  BY DEF MissesApart
<1>2. DriverSpec /\ Timely /\ AccessesApart /\ []RegisterJumpsFar => []FlowKept
  BY <1>1, DriverIsSim, SimImplementsPipeline, TimelyFlows, PTL
<1>. QED
  BY <1>2, DriverRunsAsMachine

------------------------------------------------------------------------------
(* The rows of _pipe_state.out. *)

RowType == [cycle : Int, wb : Ops]

(* Rows of this run; what is in the file before the first is not one. *)
rows == IF fileInit THEN Len(pipeFile) ELSE 0

(* The first n rows are each that of the last cycle of a full call. *)
FullRows(n) == \A k \in 1 .. n : pipeFile[k].cycle = k * cycles - 1

(* A run that has not halted has made `done` cycles more than the full calls*)
(* its rows stand for; the call that halts has dumped its row.              *)
Parted(done) == /\ cycleCount = rows * cycles + done
                /\ FullRows(rows)
                /\ cycles = 0 => ~fileInit
Ended == /\ fileInit /\ rows \in Nat \ {0} /\ count \in Nat \ {0}
         /\ cycleCount = (rows - 1) * cycles + count
         /\ FullRows(rows - 1) /\ pipeFile[rows].cycle = cycleCount - 1
         /\ cycles = 0 => rows = 1

RowsInv ==
  /\ pipeFile \in Seq(RowType) /\ fileInit \in BOOLEAN
  /\ cycles \in Nat /\ count \in Nat /\ cycleCount \in Nat
  /\ cycles # 0 => count <= cycles
  /\ phase \in {"parse", "call"} => status = "SUCCESS" /\ Parted(0)
  /\ phase = "loop" => IF status = "HALT" THEN Ended ELSE Parted(count)
  /\ phase \in {"halted", "finished"} => Ended

(* Dumping a row adds it behind the rows of this run. *)
LEMMA Dumped ==
  ASSUME pipeFile \in Seq(RowType), fileInit \in BOOLEAN, NEW row \in RowType,
         dumpPipeState(row)
  PROVE  /\ pipeFile' \in Seq(RowType) /\ fileInit' = TRUE
         /\ rows \in Nat /\ rows' = rows + 1 /\ pipeFile'[rows + 1] = row
         /\ \A k \in 1 .. rows : pipeFile'[k] = pipeFile[k]
<1>1. CASE fileInit
  <2>1. pipeFile' = Append(pipeFile, row) /\ fileInit' = TRUE
    BY <1>1 DEF dumpPipeState
  <2>2. /\ pipeFile' \in Seq(RowType) /\ Len(pipeFile) \in Nat
        /\ Len(pipeFile') = Len(pipeFile) + 1 /\ pipeFile'[Len(pipeFile) + 1] = row
        /\ \A k \in 1 .. Len(pipeFile) : pipeFile'[k] = pipeFile[k]
    BY <2>1
  <2>. QED
    BY <1>1, <2>1, <2>2 DEF rows
<1>2. CASE ~fileInit
  <2>1. pipeFile' = <<row>> /\ fileInit' = TRUE
    BY <1>2 DEF dumpPipeState
  <2>2. pipeFile' \in Seq(RowType) /\ Len(pipeFile') = 1 /\ pipeFile'[1] = row
    BY <2>1
  <2>. QED
    BY <1>2, <2>1, <2>2 DEF rows
<1>. QED
  BY <1>1, <1>2

(* A cycle belongs to its call, and the one that halts dumps the call's row.*)
LEMMA IterateKeepsRows ==
  ASSUME IInv, RowsInv, Iterate
  PROVE  RowsInv'
<1>1. /\ phase = "loop" /\ phase' = "loop" /\ status = "SUCCESS" /\ cycles' = cycles
      /\ count' = count + 1 /\ cycleCount' = cycleCount + 1
      /\ cycles # 0 => count < cycles
      /\ IF status' = "HALT" THEN dumpPipeState(Row') ELSE UNCHANGED <<pipeFile, fileInit>>
  BY DEF Iterate, SimCycle, RowsInv
<1>2. /\ cycles \in Nat /\ count \in Nat /\ cycleCount \in Nat /\ Parted(count)
      /\ pipeFile \in Seq(RowType) /\ fileInit \in BOOLEAN
      /\ rows \in Nat /\ rows * cycles \in Nat
  BY <1>1 DEF RowsInv, rows
<1>3. /\ cycles' \in Nat /\ count' \in Nat /\ cycleCount' \in Nat
      /\ cycles' # 0 => count' <= cycles'
  BY <1>1, <1>2
<1>4. CASE status' # "HALT"
  <2>1. pipeFile' = pipeFile /\ fileInit' = fileInit /\ rows' = rows
    BY <1>1, <1>4 DEF rows
  <2>2. Parted(count)'
    <3>1. rows' * cycles' = rows * cycles
      BY <2>1, <1>1
    <3>2. cycleCount' = rows' * cycles' + count'
      BY <3>1, <1>1, <1>2 DEF Parted
    <3>. QED
      BY <3>2, <2>1, <1>1, <1>2 DEF Parted, FullRows
  <2>. QED
    BY <2>1, <2>2, <1>1, <1>2, <1>3, <1>4 DEF RowsInv
<1>5. CASE status' = "HALT"
  <2>1. Row' \in RowType /\ Row'.cycle = cycleCount' - 1
    <3>1. wbInst' \in Instruction
      BY CycleKeepsIInv, HitIsBoolean DEF Iterate, SimCycle, IInv, TypeOK
    <3>. QED
      BY <3>1, <1>3 DEF Row, RowType, Instruction, Word
  <2>2. dumpPipeState(Row')
    BY <1>1, <1>5
  <2>. DEFINE row == Row'
  <2>3. /\ pipeFile' \in Seq(RowType) /\ fileInit' = TRUE
        /\ rows' = rows + 1 /\ pipeFile'[rows + 1] = row
        /\ \A k \in 1 .. rows : pipeFile'[k] = pipeFile[k]
    <3>1. row \in RowType /\ dumpPipeState(row)
      BY <2>1, <2>2
    <3>. HIDE DEF row
    <3>. QED
      BY <3>1, <1>2, Dumped
  <2>4. rows' - 1 = rows /\ rows' \in Nat \ {0}
    <3>1. rows' = rows + 1
      BY <2>3
    <3>. QED
      BY <3>1, <1>2
  <2>5. FullRows(rows - 1)'
    BY <2>3, <2>4, <1>1, <1>2 DEF Parted, FullRows
  <2>6. cycleCount' = (rows' - 1) * cycles' + count' /\ count' # 0
    <3>1. (rows' - 1) * cycles' = rows * cycles
      BY <2>4, <1>1
    <3>2. cycleCount' = rows * cycles + count' /\ count' # 0
      BY <1>1, <1>2 DEF Parted
    <3>. QED
      BY <3>1, <3>2, Zenon
  <2>7. cycles' = 0 => rows' = 1
    <3>1. cycles = 0 => rows = 0
      BY <1>2 DEF Parted, rows
    <3>. QED
      BY <3>1, <2>3, <1>1
  <2>8. Ended'
    BY <2>1, <2>3, <2>4, <2>5, <2>6, <2>7, <1>3 DEF Ended
  <2>. QED
    BY <2>3, <2>8, <1>1, <1>3, <1>5 DEF RowsInv
<1>. QED
  BY <1>4, <1>5

(* A call that returns with its cycles done dumps the row of the last one.  *)
LEMMA ReturnKeepsRows ==
  ASSUME IInv, RowsInv, Return
  PROVE  RowsInv'
<1>1. /\ phase = "loop" /\ status' = status /\ cycles' = cycles /\ count' = count
      /\ cycleCount' = cycleCount /\ wbInst' = wbInst
      /\ phase' = IF status = "HALT" THEN "halted" ELSE "call"
      /\ IF status = "HALT" THEN UNCHANGED <<pipeFile, fileInit>> ELSE dumpPipeState(Row)
      /\ status = "HALT" \/ (cycles # 0 /\ count = cycles)
  BY DEF Return, CallOver, simVars, vars, stages
<1>2. /\ cycles \in Nat /\ count \in Nat /\ cycleCount \in Nat
      /\ pipeFile \in Seq(RowType) /\ fileInit \in BOOLEAN
      /\ cycles # 0 => count <= cycles
  BY DEF RowsInv
<1>3. CASE status = "HALT"
  <2>1. Ended /\ pipeFile' = pipeFile /\ fileInit' = fileInit /\ phase' = "halted"
    BY <1>1, <1>3 DEF RowsInv
  <2>2. Ended'
    BY <2>1, <1>1 DEF Ended, FullRows, rows
  <2>. QED
    BY <2>1, <2>2, <1>1, <1>2 DEF RowsInv
<1>4. CASE status # "HALT"
  <2>1. /\ Parted(cycles) /\ dumpPipeState(Row) /\ phase' = "call" /\ cycles # 0
        /\ status = "SUCCESS"
    BY <1>1, <1>4 DEF RowsInv, IInv, TypeOK
  <2>2. Row \in RowType /\ Row.cycle = cycleCount - 1
    BY <1>2 DEF Row, RowType, IInv, TypeOK, Instruction, Word
  <2>3. /\ pipeFile' \in Seq(RowType) /\ fileInit' = TRUE
        /\ rows \in Nat /\ rows' = rows + 1 /\ pipeFile'[rows + 1] = Row
        /\ \A k \in 1 .. rows : pipeFile'[k] = pipeFile[k]
    BY <2>1, <2>2, <1>2, Dumped
  <2>4. rows' * cycles' = rows * cycles + cycles /\ rows * cycles \in Nat
    BY <2>3, <1>1, <1>2
  <2>5. cycleCount = rows * cycles + cycles
    BY <2>1 DEF Parted
  <2>6. cycleCount' = rows' * cycles' + 0
    BY <2>4, <2>5, <1>1, <1>2
  <2>7. FullRows(rows)'
    <3>. SUFFICES ASSUME NEW k \in 1 .. rows + 1
                  PROVE  pipeFile'[k].cycle = k * cycles - 1
      BY <2>3, <1>1 DEF FullRows
    <3>1. CASE k = rows + 1
      BY <3>1, <2>2, <2>3, <2>4, <2>5, <1>1
    <3>2. CASE k \in 1 .. rows
      BY <3>2, <2>1, <2>3 DEF Parted, FullRows
    <3>. QED
      BY <3>1, <3>2, <2>3
  <2>8. Parted(0)'
    BY <2>1, <2>6, <2>7, <1>1 DEF Parted
  <2>. QED
    BY <2>1, <2>3, <2>8, <1>1, <1>2 DEF RowsInv
<1>. QED
  BY <1>3, <1>4

(* Every call leaves one row, that of its last cycle, whatever the length of*)
(* the calls; the halt leaves no second one (cycle.cpp:602, 638), and no row*)
(* of an earlier run survives (Utilities.cpp:400).                          *)
THEOREM DriverOneRowPerCall == DriverSpec => []OneRowPerCall
<1>1. DriverInit => RowsInv
  <2>. SUFFICES ASSUME DriverInit PROVE RowsInv
    OBVIOUS
  <2>1. StaleRow \in RowType
    BY DEF StaleRow, RowType, Ops
  <2>2. rows = 0 /\ fileInit = FALSE /\ pipeFile = <<StaleRow>>
    BY DEF DriverInit, rows
  <2>3. cycles \in Nat /\ count = 0 /\ cycleCount = 0 /\ status = "SUCCESS" /\ phase = "parse"
    BY DriverAssumption DEF DriverInit, SimInit, Init
  <2>4. pipeFile \in Seq(RowType)
    BY <2>1, <2>2
  <2>5. Parted(0)
    BY <2>2, <2>3 DEF Parted, FullRows
  <2>6. fileInit \in BOOLEAN
    BY <2>2
  <2>. QED
    BY <2>3, <2>4, <2>5, <2>6 DEF RowsInv
<1>2. IInv /\ RowsInv /\ [DriverNext]_driverVars => RowsInv'
  <2>. SUFFICES ASSUME IInv, RowsInv, [DriverNext]_driverVars PROVE RowsInv'
    OBVIOUS
  <2>1. CASE Iterate
    BY <2>1, IterateKeepsRows
  <2>2. CASE Return
    BY <2>2, ReturnKeepsRows
  <2>3. CASE /\ UNCHANGED <<pipeFile, fileInit, cycles, count, cycleCount, status>>
             /\ \/ phase' = phase
                \/ phase = "parse" /\ phase' \in {"call", "failed"}
                \/ phase = "halted" /\ phase' = "finished"
    <3>1. UNCHANGED rows
      BY <2>3 DEF rows
    <3>. QED
      BY <2>3, <3>1 DEF RowsInv, Parted, Ended, FullRows
  <2>4. CASE Call
    <3>1. /\ phase = "call" /\ phase' = "loop" /\ count' = 0
          /\ UNCHANGED <<pipeFile, fileInit, cycles, cycleCount, status>>
      BY <2>4 DEF Call
    <3>2. UNCHANGED rows
      BY <3>1 DEF rows
    <3>. QED
      BY <3>1, <3>2 DEF RowsInv, Parted, FullRows
  <2>5. CASE parseArgs
    BY <2>3, <2>5 DEF parseArgs, simVars, vars
  <2>6. CASE finalizeSimulator
    BY <2>3, <2>6 DEF finalizeSimulator, simVars, vars
  <2>7. CASE Exited \/ UNCHANGED driverVars
    BY <2>3, <2>7 DEF Exited, driverVars, simVars, vars
  <2>. QED
    BY <2>1, <2>2, <2>4, <2>5, <2>6, <2>7 DEF DriverNext
<1>3. RowsInv => OneRowPerCall
  <2>. SUFFICES ASSUME RowsInv, phase = "finished" \/ (phase = "call" /\ fileInit)
                PROVE  /\ Len(pipeFile) = IF cycles = 0 THEN 1
                                          ELSE (cycleCount + cycles - 1) \div cycles
                       /\ \A k \in 1 .. Len(pipeFile) :
                            pipeFile[k].cycle =
                              IF k = Len(pipeFile) THEN cycleCount - 1 ELSE k * cycles - 1
    BY DEF OneRowPerCall
  <2>1. cycles \in Nat /\ count \in Nat /\ cycleCount \in Nat /\ Len(pipeFile) \in Nat
    BY DEF RowsInv
  <2>2. CASE phase = "finished"
    <3>1. Ended /\ rows = Len(pipeFile) /\ (cycles # 0 => count <= cycles)
      BY <2>2 DEF RowsInv, Ended, rows
    <3>. DEFINE n == Len(pipeFile)
    <3>2. n \in Nat \ {0} /\ n * cycles = (n - 1) * cycles + cycles /\ n * cycles \in Nat
      BY <2>1, <3>1, SMTT(30) DEF Ended
    <3>3. cycleCount = (n - 1) * cycles + count /\ count # 0
      BY <3>1 DEF Ended
    <3>4. cycles # 0 => (cycleCount + cycles - 1) \div cycles = n
      <4>. SUFFICES ASSUME cycles # 0 PROVE (cycleCount + cycles - 1) \div cycles = n
        OBVIOUS
      <4>1. count - 1 \in Nat /\ count - 1 < cycles
        BY <2>1, <3>1, <3>3
      <4>. DEFINE base == (n - 1) * cycles
      <4>2. base \in Int /\ n * cycles = base + cycles /\ cycleCount = base + count
        BY <3>2, <3>3, <2>1
      <4>. HIDE DEF base
      <4>3. cycleCount + cycles - 1 = n * cycles + (count - 1)
        BY <4>2, <2>1
      <4>. QED
        BY <4>1, <4>3, <3>2, <2>1, dCacheP!DivOf, Geometries
    <3>. QED
      BY <3>1, <3>4 DEF Ended, FullRows
  <2>3. CASE phase = "call" /\ fileInit
    <3>1. Parted(0) /\ rows = Len(pipeFile) /\ cycles # 0
      BY <2>3 DEF RowsInv, Parted, rows
    <3>. DEFINE n == Len(pipeFile)
    <3>2. cycleCount = n * cycles /\ n * cycles \in Nat
      BY <2>1, <3>1 DEF Parted
    <3>3. (cycleCount + cycles - 1) \div cycles = n
      <4>1. cycles - 1 \in Nat /\ cycles - 1 < cycles
        BY <2>1, <3>1
      <4>2. cycleCount + cycles - 1 = n * cycles + (cycles - 1)
        BY <3>2, <2>1
      <4>. QED
        BY <4>1, <4>2, <2>1, dCacheP!DivOf, Geometries
    <3>. QED
      BY <3>1, <3>2, <3>3 DEF Parted, FullRows
  <2>. QED
    BY <2>2, <2>3
<1>. QED
  BY <1>1, <1>2, <1>3, DriverInvariant, PTL DEF DriverSpec
==============================================================================
