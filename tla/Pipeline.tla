------------------------------- MODULE Pipeline -------------------------------
(***************************************************************************)
(* The five-stage pipeline of src/cycle.cpp.  One step is one iteration of *)
(* the loop of runCycles, a cycle: every stage computes its next contents  *)
(* from the contents the cycle started with.                               *)
(*                                                                         *)
(* The two caches are an oracle: a lookup hits or misses as it likes, among*)
(* the outcomes oracle.i and oracle.d.  What the pipeline does around a    *)
(* lookup is all here: when it is made, the miss timers, the freezes.      *)
(* CycleSim puts the caches of cache.cpp in the place of the oracle.       *)
(***************************************************************************)
EXTENDS Simulator

CONSTANTS
  Programs,                    (* functions from some PCs to words           *)
  InitMem,                     (* initial contents of the data memory        *)
  IMissLatency, DMissLatency,  (* CacheConfig::missLatency of either cache   *)
  Oracles(_)                   (* the oracles that a program is run with     *)

(* The outcomes a lookup of the I-cache (i) and of the D-cache (d) may have.*)
Oracle == [i : SUBSET BOOLEAN \ {{}}, d : SUBSET BOOLEAN \ {{}}]

ASSUME PipelineAssumption ==
  /\ \A program \in Programs : IsProgram(program) /\ Oracles(program) \subseteq Oracle
  /\ InitMem \in [Address -> Value]
  /\ IMissLatency \in Nat /\ DMissLatency \in Nat

VARIABLES
  code, oracle,                               (* the program, its oracle     *)
  PC, ifInst, idInst, exInst, memInst, wbInst,
  regs, mem,
  instFetchMiss, instMissStalls,              (* I-cache miss and its timer  *)
  dataFetchMiss, dataMissStalls,              (* D-cache miss and its timer  *)
  remainingStallCycles,
  prevICPC,                                   (* PC of the last I-cache use  *)
  prevD,                                      (* prevDValid/prevDAddr/prevDOp*)
  loadStallCount, completedCount,
  status                                      (* what runCycles(1) returned  *)

stages == <<ifInst, idInst, exInst, memInst, wbInst>>
misses == <<instFetchMiss, instMissStalls, dataFetchMiss, dataMissStalls>>
vars == <<code, oracle, PC, stages, regs, mem, misses, remainingStallCycles, prevICPC,
          prevD, loadStallCount, completedCount, status>>

NoPC == -1     (* (uint64_t)-1, which is no PC of a program *)

------------------------------------------------------------------------------
(* Classes of instruction in a stage. *)

Active(inst) == ~inst.isNop /\ inst.status \notin {"BUBBLE", "SQUASHED"}

isLoad(inst)    == Active(inst) /\ readsMem(inst)
isStore(inst)   == Active(inst) /\ writesMem(inst)
(* Mutant of writesREG: a write to x0 counts. *)
writesAnyREG(inst) == Active(inst) /\ writesRd(inst)

writesREG(inst) == Active(inst) /\ writesRd(inst) /\ inst.word.rd # 0
isBranchOrJump(inst) == Active(inst) /\ inst.word.op \in {"beq", "bne", "jal", "jalr"}

Reads(inst, r) == \/ readsRs1(inst) /\ inst.word.rs1 = r
                  \/ readsRs2(inst) /\ inst.word.rs2 = r

------------------------------------------------------------------------------
(* Conditions a cycle evaluates on the contents it starts with. *)

illegalExc == Active(idInst) /\ ~isLegal(idInst) /\ ~isHalt(idInst)

DataLookup == [valid |-> TRUE, address |-> memInst.memAddress,
               op |-> IF writesMem(memInst) THEN "WRITE" ELSE "READ"]
(* The D-cache is asked only when address or operation differ from last time. *)
dAccess == /\ ~dataFetchMiss
           /\ isLoad(memInst) \/ isStore(memInst)
           /\ prevD # DataLookup
dMiss(dHit) == dataFetchMiss \/ (dAccess /\ ~dHit)

(* A load in EX and a reader of its result in ID; the data of a store is    *)
(* forwarded later, so only its address register counts.                    *)
loadHazard ==
  /\ isLoad(exInst)
  /\ exInst.word.rd # 0
  /\ \/ readsRs1(idInst) /\ idInst.word.rs1 = exInst.word.rd
     \/ ~isStore(idInst) /\ readsRs2(idInst) /\ idInst.word.rs2 = exInst.word.rd

aluBranchHazard ==
  /\ isBranchOrJump(idInst)
  /\ writesREG(exInst) /\ ~isLoad(exInst)
  /\ Reads(idInst, exInst.word.rd)

stall == remainingStallCycles > 0 \/ loadHazard \/ aluBranchHazard

(* The I-cache is asked when the PC differs from last time. *)
iAccess == ~stall /\ ~instFetchMiss /\ ~ifInst.isNop /\ ifInst.pc # prevICPC
iMiss(iHit) == instFetchMiss \/ (iAccess /\ ~iHit)

------------------------------------------------------------------------------
(* Forwarding. *)

(* WB -> MEM: the data of the store in EX. *)
StoreForwarded ==
  IF isStore(exInst) /\ writesREG(memInst) /\ exInst.word.rs2 = memInst.word.rd
  THEN [exInst EXCEPT !.op2Val = Result(memInst)] ELSE exInst

Bypass(inst, from, value) ==
  IF ~writesREG(from) THEN inst
  ELSE [inst EXCEPT
          !.op1Val = IF readsRs1(inst) /\ inst.word.rs1 = from.word.rd THEN value ELSE @,
          !.op2Val = IF readsRs2(inst) /\ inst.word.rs2 = from.word.rd THEN value ELSE @]

(* MEM -> EX, then EX -> EX (and EX -> ID, which repeats it): EX wins. *)
ForwardedID ==
  Bypass(Bypass(idInst, memInst, Result(memInst)), exInst, exInst.arithResult)

------------------------------------------------------------------------------
(* What each stage holds after the cycle. *)

(* Mutant of NewWB: a data miss does not keep MEM's instruction from WB. *)
WBNotFrozen(dHit) == simWB(memInst)

NewWB(dHit)  == IF dMiss(dHit) THEN nop("BUBBLE") ELSE simWB(memInst)
NewMEM(dHit) == IF dMiss(dHit) THEN memInst ELSE simMEM(StoreForwarded, mem)

(* Mutant of NewEX: a stall puts no bubble into EX. *)
NoBubble(dHit) ==
  IF dMiss(dHit)     THEN exInst
  ELSE IF illegalExc THEN nop("SQUASHED")
  ELSE simEX(ForwardedID)

NewEX(dHit) ==
  IF dMiss(dHit)     THEN exInst
  ELSE IF illegalExc THEN nop("SQUASHED")
  ELSE IF stall      THEN nop("BUBBLE")
  ELSE simEX(ForwardedID)

(* Mutant of WrongPath: a speculative fetch is always confirmed. *)
NeverWrong == FALSE

(* The instruction in IF is on a path the branch behind it did not take. *)
WrongPath == ifInst.status = "SPECULATIVE" /\ ifInst.pc # (PC - 1) % WordMod

Confirmed(inst) ==
  IF inst.isNop \/ inst.status \in {"BUBBLE", "SQUASHED", "IDLE"} THEN inst
  ELSE [inst EXCEPT !.status = "NORMAL"]

(* Mutant of NewID: the outcome of a stalled branch is not computed again. *)
StaleOutcome(iHit, dHit, registersAfterWB) ==
  IF dMiss(dHit)      THEN ForwardedID
  ELSE IF illegalExc  THEN nop("SQUASHED")
  ELSE IF stall       THEN ForwardedID
  ELSE IF iMiss(iHit) THEN nop("BUBBLE")
  ELSE IF WrongPath   THEN nop("SQUASHED")
  ELSE simID(Confirmed(ifInst), registersAfterWB)

(* registersAfterWB: WB runs before ID in a cycle. *)
NewID(iHit, dHit, registersAfterWB) ==
  IF dMiss(dHit)      THEN ForwardedID
  ELSE IF illegalExc  THEN nop("SQUASHED")
  ELSE IF stall       THEN IF isBranchOrJump(ForwardedID)
                           THEN simNextPCResolution(ForwardedID) ELSE ForwardedID
  ELSE IF iMiss(iHit) THEN nop("BUBBLE")
  ELSE IF WrongPath   THEN nop("SQUASHED")
  ELSE simID(Confirmed(ifInst), registersAfterWB)

Squash(inst) == [inst EXCEPT !.status = "SQUASHED"]

------------------------------------------------------------------------------
Init ==
  /\ code \in Programs
  /\ oracle \in Oracles(code)
  /\ PC = 0
  /\ ifInst = nop("IDLE") /\ idInst = nop("IDLE") /\ exInst = nop("IDLE")
  /\ memInst = nop("IDLE") /\ wbInst = nop("IDLE")
  /\ regs = [r \in Reg |-> 0]
  /\ mem = InitMem
  /\ instFetchMiss = FALSE /\ instMissStalls = 0
  /\ dataFetchMiss = FALSE /\ dataMissStalls = 0
  /\ remainingStallCycles = 0
  /\ prevICPC = NoPC
  /\ prevD = [valid |-> FALSE, address |-> 0, op |-> "READ"]
  /\ loadStallCount = 0 /\ completedCount = 0
  /\ status = "SUCCESS"

(* Mutant of Lookups: prevICPC is recorded without a lookup. *)
RecordsUnasked ==
  /\ prevD' = IF dAccess THEN DataLookup ELSE prevD
  /\ prevICPC' = ifInst.pc

(* The bookkeeping of the two caches' lookups. *)
Lookups ==
  /\ prevD' = IF dAccess THEN DataLookup ELSE prevD
  /\ prevICPC' = IF iAccess THEN ifInst.pc ELSE prevICPC

(* Mutant of Hazards: the stall of this cycle is counted again. *)
StallsTwice ==
  /\ remainingStallCycles' =
       IF remainingStallCycles > 0 THEN remainingStallCycles - 1
       ELSE IF loadHazard /\ isBranchOrJump(idInst) THEN 2 ELSE 0
  /\ loadStallCount' =
       IF remainingStallCycles = 0 /\ loadHazard
       THEN loadStallCount + 1 ELSE loadStallCount

(* Mutant of Hazards: remainingStallCycles is never decremented. *)
StallsForever ==
  /\ remainingStallCycles' =
       IF remainingStallCycles > 0 THEN remainingStallCycles
       ELSE IF loadHazard /\ isBranchOrJump(idInst) THEN 1 ELSE 0
  /\ loadStallCount' =
       IF remainingStallCycles = 0 /\ loadHazard
       THEN loadStallCount + 1 ELSE loadStallCount

Hazards ==
  /\ remainingStallCycles' =
       IF remainingStallCycles > 0 THEN remainingStallCycles - 1
       ELSE IF loadHazard /\ isBranchOrJump(idInst) THEN 1 ELSE 0
  /\ loadStallCount' =
       IF remainingStallCycles = 0 /\ loadHazard
       THEN loadStallCount + 1 ELSE loadStallCount

WriteBack(dHit) ==
  /\ wbInst' = NewWB(dHit)
  /\ regs' = IF dMiss(dHit) THEN regs ELSE RegsAfter(memInst, regs)
  /\ completedCount' =
       IF Active(wbInst') /\ isLegal(wbInst') THEN completedCount + 1 ELSE completedCount

memExc(dHit) == NewMEM(dHit).memException

(* Mutant of Memory: a data miss does not hold the store in EX back. *)
StoresWhileFrozen(dHit) ==
  /\ memInst' = IF memExc(dHit) THEN Squash(NewMEM(dHit)) ELSE NewMEM(dHit)
  /\ mem' = MemAfter(StoreForwarded, mem)

Memory(dHit) ==
  /\ memInst' = IF memExc(dHit) THEN Squash(NewMEM(dHit)) ELSE NewMEM(dHit)
  /\ mem' = IF dMiss(dHit) THEN mem ELSE MemAfter(StoreForwarded, mem)

(* A memory exception squashes what EX and ID have just computed. *)
Flushes(dHit) == memExc(dHit) /\ ~illegalExc

Execute(dHit) ==
  exInst' = IF Flushes(dHit) THEN Squash(NewEX(dHit)) ELSE NewEX(dHit)

Decode(iHit, dHit) ==
  idInst' = IF Flushes(dHit) THEN Squash(NewID(iHit, dHit, regs'))
                             ELSE NewID(iHit, dHit, regs')

------------------------------------------------------------------------------
(* Fetch.  The branch looked at is the one ID holds after this cycle. *)

exception(dHit) == illegalExc \/ memExc(dHit)
branchInId(iHit, dHit, id) == ~dMiss(dHit) /\ ~iMiss(iHit) /\ isBranchOrJump(id)
taken(id) == id.nextPC # Plus(id.pc, 1)

FetchHandler(iHit, dHit) ==
  /\ exception(dHit)
  /\ PC' = EXC_HANDLER
  /\ ifInst' = simIF(code, EXC_HANDLER)

FetchStall(iHit, dHit) ==
  /\ ~exception(dHit) /\ stall
  /\ ifInst' = ifInst
  /\ PC' = IF ~branchInId(iHit, dHit, idInst') THEN PC
           ELSE IF taken(idInst') THEN idInst'.nextPC
           ELSE Plus(idInst'.nextPC, 1)

FetchBranch(iHit, dHit) ==
  /\ ~exception(dHit) /\ ~stall /\ branchInId(iHit, dHit, idInst')
  /\ ifInst' = [simIF(code, PC) EXCEPT !.status = "SPECULATIVE"]
  /\ PC' = idInst'.nextPC

FetchHold(iHit, dHit) ==
  /\ ~exception(dHit) /\ ~stall /\ (iMiss(iHit) \/ dMiss(dHit))
  /\ UNCHANGED <<ifInst, PC>>

FetchNext(iHit, dHit) ==
  /\ ~exception(dHit) /\ ~stall /\ ~iMiss(iHit) /\ ~dMiss(dHit)
  /\ ~isBranchOrJump(idInst')
  /\ ifInst' = simIF(code, PC)
  /\ PC' = Plus(PC, 1)

Fetch(iHit, dHit) ==
  \/ FetchHandler(iHit, dHit)
  \/ FetchStall(iHit, dHit)
  \/ FetchBranch(iHit, dHit)
  \/ FetchHold(iHit, dHit)
  \/ FetchNext(iHit, dHit)

(* Handler and taken branches drop an I-cache miss that is in progress. *)
MissDropped(iHit, dHit) ==
  \/ exception(dHit)
  \/ branchInId(iHit, dHit, idInst') /\ taken(idInst')

------------------------------------------------------------------------------
(* Mutant of Expired: one cycle late. *)
ExpiresLate(stalls, missLatency) == stalls >= missLatency

(* The miss timers.  With a latency of 0 the bound latency-1 wraps to       *)
(* 2^64-1, which no timer reaches.                                          *)
Expired(stalls, missLatency) == missLatency > 0 /\ stalls >= missLatency - 1

(* Mutant of MissTimers: a miss in progress starts the timer anew. *)
TimersRestart(iHit, dHit) ==
  LET iStalls == IF MissDropped(iHit, dHit) \/ iMiss(iHit) THEN 0 ELSE instMissStalls
      dStalls == IF dMiss(dHit) THEN 0 ELSE dataMissStalls
  IN  /\ instMissStalls' = IF Expired(iStalls, IMissLatency) THEN 0 ELSE iStalls
      /\ instFetchMiss' = /\ iMiss(iHit) /\ ~MissDropped(iHit, dHit)
                          /\ ~Expired(iStalls, IMissLatency)
      /\ dataMissStalls' = IF Expired(dStalls, DMissLatency) THEN 0 ELSE dStalls
      /\ dataFetchMiss' = (dMiss(dHit) /\ ~Expired(dStalls, DMissLatency))

MissTimers(iHit, dHit) ==
  LET iStalls == IF MissDropped(iHit, dHit) THEN 0
                 ELSE IF instFetchMiss THEN instMissStalls + 1
                 ELSE IF iMiss(iHit) THEN 0 ELSE instMissStalls
      dStalls == IF dataFetchMiss THEN dataMissStalls + 1
                 ELSE IF dMiss(dHit) THEN 0 ELSE dataMissStalls
  IN  /\ instMissStalls' = IF Expired(iStalls, IMissLatency) THEN 0 ELSE iStalls
      /\ instFetchMiss' = /\ iMiss(iHit) /\ ~MissDropped(iHit, dHit)
                          /\ ~Expired(iStalls, IMissLatency)
      /\ dataMissStalls' = IF Expired(dStalls, DMissLatency) THEN 0 ELSE dStalls
      /\ dataFetchMiss' = (dMiss(dHit) /\ ~Expired(dStalls, DMissLatency))

(* Mutant of HaltCheck: it looks at the instruction WB held before.         *)
LateHaltCheck == status' = IF isHalt(wbInst) THEN "HALT" ELSE "SUCCESS"

HaltCheck == status' = IF isHalt(wbInst') THEN "HALT" ELSE "SUCCESS"

(* One iteration of the loop, ending with the halt check. *)
Cycle(iHit, dHit) ==
  /\ status = "SUCCESS"
  /\ Lookups
  /\ Hazards
  /\ WriteBack(dHit)
  /\ Memory(dHit)
  /\ Execute(dHit)
  /\ Decode(iHit, dHit)
  /\ Fetch(iHit, dHit)
  /\ MissTimers(iHit, dHit)
  /\ HaltCheck
  /\ UNCHANGED <<code, oracle>>

(* runTillHalt returns. *)
Halted == status = "HALT" /\ UNCHANGED vars

Next == \/ Halted
        \/ \E iHit, dHit \in BOOLEAN :
             iHit \in oracle.i /\ dHit \in oracle.d /\ Cycle(iHit, dHit)

Spec == Init /\ [][Next]_vars /\ WF_vars(Next)
------------------------------------------------------------------------------
(* Type correctness. *)
TypeOK ==
  /\ IsProgram(code)
  /\ PC \in Value
  /\ ifInst \in Instruction /\ idInst \in Instruction /\ exInst \in Instruction
  /\ memInst \in Instruction /\ wbInst \in Instruction
  /\ regs \in [Reg -> Value]
  /\ mem \in [Address -> Value]
  /\ instFetchMiss \in BOOLEAN /\ instMissStalls \in Nat
  /\ dataFetchMiss \in BOOLEAN /\ dataMissStalls \in Nat
  /\ remainingStallCycles \in {0, 1}
  /\ prevICPC \in Value \cup {NoPC}
  /\ prevD \in [valid : BOOLEAN, address : Value, op : {"READ", "WRITE"}]
  /\ loadStallCount \in Nat /\ completedCount \in Nat
  /\ status \in {"SUCCESS", "HALT"}

------------------------------------------------------------------------------
(* The pipeline implements the machine.  An instruction takes effect when   *)
(* it enters MEM: from then on nothing can squash it.                       *)

Real(inst) == inst.status \in {"NORMAL", "SPECULATIVE"}

(* The oldest instruction that has not entered MEM. *)
OldestPC ==
  IF Real(exInst) THEN exInst.pc
  ELSE IF Real(idInst) THEN idInst.pc
  ELSE IF Real(ifInst) /\ ~WrongPath THEN ifInst.pc
  ELSE PC

HaltInMem == isHalt(memInst) \/ isHalt(wbInst)

MachinePC == IF HaltInMem THEN 0
             ELSE IF isLegal(simIF(code, OldestPC)) THEN OldestPC ELSE EXC_HANDLER

MachineRegs ==
  [(IF isHalt(wbInst) THEN regs ELSE RegsAfter(memInst, regs)) EXCEPT ![0] = 0]

ISA == INSTANCE Machine WITH
  pc <- MachinePC, regs <- MachineRegs, halted <- HaltInMem

(* Whatever hazards, forwards, stalls, misses and squashes come in between, *)
(* the instructions take effect in program order, with the values and the   *)
(* next PC the machine gives them, and an illegal one traps precisely.      *)
ImplementsMachine == ISA!Spec

(* x0 reads as zero in every stage although simCommit (simulator.cpp:426)   *)
(* writes registers[0] like any register: neither a register read nor a     *)
(* forward ever hands on a value computed for x0.                           *)
ReadsZero(inst) ==
  Active(inst) => /\ readsRs1(inst) /\ inst.word.rs1 = 0 => inst.op1Val = 0
                  /\ readsRs2(inst) /\ inst.word.rs2 = 0 => inst.op2Val = 0
ZeroReadsZero == ReadsZero(idInst) /\ ReadsZero(exInst) /\ ReadsZero(memInst)

(* A program that halts on the machine halts on the pipeline (runTillHalt,  *)
(* cycle.cpp:647): no miss, stall or squash repeats forever.                *)
Halts == <>(status = "HALT")

(* A counted load-use stall (cycle.cpp:240) keeps the consumer from EX: a    *)
(* bubble goes there, or all is frozen.                                     *)
StalledConsumerWaits ==
  [][loadStallCount' > loadStallCount => exInst' \in {nop("BUBBLE"), exInst}]_vars

(* cycle.cpp:453, "if whati s being stalled is a branch instruction, re     *)
(* compute outcome": the next PC a branch leaves ID with is the one its     *)
(* forwarded operands give, not the one its stale operands gave.            *)
BranchesResolved ==
  isBranchOrJump(exInst) => exInst.nextPC = simNextPCResolution(exInst).nextPC

------------------------------------------------------------------------------
(* Statements of the repository that this code departs from: each is        *)
(* refuted by a run of its own.                                             *)

(* test/stall_tests.s:36 marks the word a taken branch skips "# squashed":  *)
(* behind a taken branch in EX there is nothing live in ID.                 *)
TakenBranchSquashes ==
  isBranchOrJump(exInst) /\ taken(exInst) => ~Active(idInst)

(* illegal_cycle_pipe_state.ref:16, "Inst at 0x8004 | HALT": when the first *)
(* instruction of the handler is in ID, the second one is in IF.            *)
HandlerAdvances ==
  Active(idInst) /\ idInst.pc = EXC_HANDLER => ifInst.pc = Plus(EXC_HANDLER, 1)

(* cycle.cpp:16, "count of load-use stalls": a cycle is counted because it  *)
(* is lost, so it puts a bubble into EX.                                    *)
CountedStallsDelay ==
  [][loadStallCount' > loadStallCount => exInst' = nop("BUBBLE")]_vars

(* test/mem_exception_pipeline.s:16, "LW -> MEM EXCEPTION": a load outside  *)
(* the memory raises the exception.                                         *)
BadLoadsFault ==
  readsMem(memInst) /\ memInst.memAddress \notin Address => memInst.memException
==============================================================================
