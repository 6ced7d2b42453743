---------------------------- MODULE PipelineProofs ----------------------------
(***************************************************************************)
(* Theorems about the pipeline, for every program, every size of the       *)
(* machine and every outcome of the cache lookups:                         *)
(*  - the state is well typed, x0 reads as zero in every stage, and the    *)
(*    memory exception is never raised;                                    *)
(*  - the words behind a halt are in order;                                *)
(*  - unless a latency is 0, no instruction waits longer than the two      *)
(*    latencies say, nor does the machine for its next step;               *)
(*  - a run that departs from the machine in none of four ways implements  *)
(*    the machine; no run of a settled program departs, nor one of a timely*)
(*    program while no two misses meet at a stall.                         *)
(***************************************************************************)
EXTENDS Pipeline, SimulatorProofs

(* The three are proved together, stage by stage: what a stage holds is a   *)
(* sound instruction, and from ID on it reads x0 as zero.                   *)
Sound == {inst \in Instruction : inst.memException = FALSE}
Operand0 == {inst \in Sound : ReadsZero(inst)}

IInv ==
  /\ TypeOK
  /\ ifInst \in Sound /\ wbInst \in Sound
  /\ idInst \in Operand0 /\ exInst \in Operand0 /\ memInst \in Operand0

------------------------------------------------------------------------------
(* What each stage function makes of a sound instruction. *)

(* An empty slot of the pipeline is sound. *)
LEMMA EmptySlot ==
  ASSUME NEW s \in StageStatus
  PROVE  nop(s) \in Operand0 /\ nop(s) \in Sound
<1>1. nop(s) \in Instruction
  BY NopType
<1>. QED
  BY <1>1 DEF Sound, Operand0, ReadsZero, Active, nop

(* What is fetched is sound. *)
LEMMA Fetched ==
  ASSUME NEW c, IsProgram(c), NEW pc \in Value
  PROVE  simIF(c, pc) \in Sound
<1>1. simIF(c, pc) \in Instruction
  BY FetchType
<1>. QED
  BY <1>1 DEF Sound, simIF, nop

(* A new status changes neither; an instruction stays inactive if it was.   *)
LEMMA Restatused ==
  ASSUME NEW inst \in Sound, NEW s \in StageStatus
  PROVE  /\ [inst EXCEPT !.status = s] \in Sound
         /\ inst \in Operand0 /\ (Active(inst) \/ s \in {"BUBBLE", "SQUASHED"}) =>
              [inst EXCEPT !.status = s] \in Operand0
<1>. DEFINE new == [inst EXCEPT !.status = s]
<1>1. new \in Instruction
  BY DEF Sound, Instruction
<1>2. /\ new.memException = FALSE /\ new.status = s /\ new.isNop = inst.isNop
      /\ new.word = inst.word /\ new.op1Val = inst.op1Val /\ new.op2Val = inst.op2Val
  BY DEF Sound, Instruction
<1>. HIDE DEF new
<1>. QED
  BY <1>1, <1>2 DEF Sound, Operand0, ReadsZero, Active, readsRs1, readsRs2, new

(* Next-PC resolution leaves the operands alone. *)
LEMMA NextPCSound ==
  ASSUME NEW inst \in Operand0
  PROVE  simNextPCResolution(inst) \in Operand0
<1>. DEFINE new == simNextPCResolution(inst)
<1>1. new \in Instruction
  BY NextPCType DEF Sound, Operand0
<1>2. /\ new.memException = inst.memException /\ new.status = inst.status
      /\ new.isNop = inst.isNop /\ new.word = inst.word
      /\ new.op1Val = inst.op1Val /\ new.op2Val = inst.op2Val
  BY DEF simNextPCResolution, Sound, Operand0, Instruction
<1>. HIDE DEF new
<1>. QED
  BY <1>1, <1>2 DEF Sound, Operand0, ReadsZero, Active, readsRs1, readsRs2, new

(* The register file is read with x0 as zero, whatever registers[0] holds. *)
LEMMA Decoded ==
  ASSUME NEW inst \in Sound, NEW r \in [Reg -> Value]
  PROVE  simID(inst, r) \in Operand0
<1>. DEFINE decoded == simDecode(inst)
            operands == simOperandCollection(decoded, r)
            resolved == simNextPCResolution(operands)
<1>1. CASE PassesThrough(inst)
  BY <1>1 DEF simID, PassesThrough, Operand0, ReadsZero, Active
<1>2. CASE ~PassesThrough(inst)
  <2>1. /\ decoded \in Instruction /\ decoded.memException = FALSE
        /\ decoded.status = inst.status /\ decoded.word = inst.word
    BY DecodeType DEF simDecode, Sound, Instruction
  <2>. HIDE DEF decoded
  <2>2. CASE NotExecuted(decoded)
    <3>1. ~readsRs1(decoded) /\ ~readsRs2(decoded)
      BY <2>2 DEF NotExecuted, isHalt, isLegal, readsRs1, readsRs2
    <3>2. simID(inst, r) = decoded
      BY <1>2, <2>2 DEF simID, decoded
    <3>. QED
      BY <2>1, <3>1, <3>2 DEF Sound, Operand0, ReadsZero
  <2>3. CASE ~NotExecuted(decoded)
    <3>1. /\ operands \in Instruction /\ operands.memException = FALSE
          /\ readsRs1(operands) /\ operands.word.rs1 = 0 => operands.op1Val = 0
          /\ readsRs2(operands) /\ operands.word.rs2 = 0 => operands.op2Val = 0
      <4>1. operands \in Instruction
        BY <2>1, OperandsType
      <4>2. ReadReg(r, 0) = 0
        BY DEF ReadReg
      <4>. QED
        BY <2>1, <4>1, <4>2 DEF simOperandCollection, Instruction, readsRs1, readsRs2
    <3>. HIDE DEF operands
    <3>2. operands \in Operand0
      BY <3>1 DEF Sound, Operand0, ReadsZero
    <3>3. resolved \in Operand0
      BY <3>2, NextPCSound
    <3>4. /\ [resolved EXCEPT !.status = "NORMAL"] \in Instruction
          /\ [resolved EXCEPT !.status = "NORMAL"].memException = FALSE
          /\ readsRs1(resolved) /\ resolved.word.rs1 = 0 => resolved.op1Val = 0
          /\ readsRs2(resolved) /\ resolved.word.rs2 = 0 => resolved.op2Val = 0
      <4>1. resolved.word = operands.word /\ resolved.op1Val = operands.op1Val
            /\ resolved.op2Val = operands.op2Val
        BY <3>1 DEF simNextPCResolution, Instruction
      <4>2. resolved \in Instruction /\ resolved.memException = FALSE
        BY <3>3 DEF Operand0, Sound
      <4>. HIDE DEF resolved
      <4>. QED
        BY <4>1, <4>2, <3>1 DEF Instruction, StageStatus, readsRs1, readsRs2
    <3>5. simID(inst, r) = [resolved EXCEPT !.status = "NORMAL"]
      BY <1>2, <2>3 DEF simID, decoded, operands
    <3>6. resolved \in Instruction
      BY <3>3 DEF Operand0, Sound
    <3>. HIDE DEF resolved
    <3>. QED
      BY <3>4, <3>5, <3>6 DEF Sound, Operand0, ReadsZero, readsRs1, readsRs2, Instruction
  <2>. QED
    BY <2>2, <2>3
<1>. QED
  BY <1>1, <1>2

(* Execution leaves the operands alone. *)
LEMMA Executed ==
  ASSUME NEW inst \in Operand0
  PROVE  simEX(inst) \in Operand0
<1>. DEFINE computed == IF doesArithLogic(inst) THEN simArithLogic(inst) ELSE inst
            addressed == IF readsMem(inst) \/ writesMem(inst)
                         THEN simAddrGen(computed) ELSE computed
<1>1. inst \in Instruction /\ inst.memException = FALSE
  BY DEF Operand0, Sound
<1>2. /\ computed \in Instruction /\ computed.memException = FALSE
      /\ computed.status = inst.status /\ computed.isNop = inst.isNop
      /\ computed.word = inst.word
      /\ computed.op1Val = inst.op1Val /\ computed.op2Val = inst.op2Val
  BY <1>1, ArithType DEF simArithLogic, Instruction
<1>. HIDE DEF computed
<1>3. /\ addressed \in Instruction /\ addressed.memException = FALSE
      /\ addressed.status = inst.status /\ addressed.isNop = inst.isNop
      /\ addressed.word = inst.word
      /\ addressed.op1Val = inst.op1Val /\ addressed.op2Val = inst.op2Val
  BY <1>2, AddrGenType DEF simAddrGen, Instruction
<1>. HIDE DEF addressed
<1>4. addressed \in Operand0
  BY <1>3 DEF Operand0, Sound, ReadsZero, Active, readsRs1, readsRs2
<1>5. CASE PassesThrough(inst) \/ NotExecuted(inst)
  BY <1>5 DEF simEX
<1>6. CASE ~(PassesThrough(inst) \/ NotExecuted(inst))
  <2>1. simEX(inst) = [addressed EXCEPT !.status = "NORMAL"]
    BY <1>6 DEF simEX, addressed, computed
  <2>2. Active(addressed)
    BY <1>3, <1>6 DEF PassesThrough, Active
  <2>. QED
    BY <2>1, <2>2, <1>3, <1>4, Restatused DEF Operand0, StageStatus
<1>. QED
  BY <1>5, <1>6

(* simMemAccess compares with EINVAL, so it never raises the exception.     *)
LEMMA MemoryAccessed ==
  ASSUME NEW inst \in Operand0, NEW m \in [Address -> Value]
  PROVE  simMEM(inst, m) \in Operand0
<1>. DEFINE accessed == simMemAccess(inst, m)
<1>1. inst \in Instruction /\ inst.memException = FALSE
  BY DEF Operand0, Sound
<1>2. accessed \in Instruction /\ (readsMem(inst) => accessed.memException = FALSE)
  BY <1>1, MemAccessType
<1>3. /\ accessed.memException = FALSE
      /\ accessed.status = inst.status /\ accessed.isNop = inst.isNop
      /\ accessed.word = inst.word
      /\ accessed.op1Val = inst.op1Val /\ accessed.op2Val = inst.op2Val
  BY <1>1, <1>2 DEF simMemAccess, Instruction
<1>. HIDE DEF accessed
<1>4. accessed \in Operand0
  BY <1>2, <1>3 DEF Operand0, Sound, ReadsZero, Active, readsRs1, readsRs2
<1>5. CASE PassesThrough(inst) \/ NotExecuted(inst)
  BY <1>5 DEF simMEM
<1>6. CASE ~(PassesThrough(inst) \/ NotExecuted(inst))
  <2>1. simMEM(inst, m) = [accessed EXCEPT !.status = "NORMAL"]
    BY <1>6 DEF simMEM, accessed
  <2>2. Active(accessed)
    BY <1>3, <1>6 DEF PassesThrough, Active
  <2>. QED
    BY <2>1, <2>2, <1>4, Restatused DEF Operand0, StageStatus
<1>. QED
  BY <1>5, <1>6

(* Write-back changes the status only. *)
LEMMA Committed ==
  ASSUME NEW inst \in Operand0
  PROVE  simWB(inst) \in Sound
BY Restatused DEF simWB, Operand0, StageStatus

(* A forward comes from a register other than x0.                           *)
LEMMA Bypassed ==
  ASSUME NEW inst \in Operand0, NEW from \in Sound, NEW value \in Value
  PROVE  Bypass(inst, from, value) \in Operand0
<1>1. CASE ~writesREG(from)
  BY <1>1 DEF Bypass
<1>2. CASE writesREG(from)
  <2>. DEFINE new == Bypass(inst, from, value)
  <2>1. inst \in Instruction /\ inst.memException = FALSE /\ from.word.rd # 0
    BY <1>2 DEF Operand0, Sound, writesREG
  <2>2. /\ new \in Instruction /\ new.memException = FALSE
        /\ new.status = inst.status /\ new.isNop = inst.isNop /\ new.word = inst.word
        /\ readsRs1(inst) /\ inst.word.rs1 = 0 => new.op1Val = inst.op1Val
        /\ readsRs2(inst) /\ inst.word.rs2 = 0 => new.op2Val = inst.op2Val
    BY <1>2, <2>1 DEF Bypass, Instruction
  <2>. HIDE DEF new
  <2>. QED
    BY <2>2 DEF new, Operand0, Sound, ReadsZero, Active, readsRs1, readsRs2
<1>. QED
  BY <1>1, <1>2

(* What forwarding makes of ID and EX still reads x0 as zero. *)
LEMMA Forwarded ==
  ASSUME IInv
  PROVE  ForwardedID \in Operand0 /\ StoreForwarded \in Operand0
<1>1. /\ memInst \in Sound /\ exInst \in Sound
      /\ exInst \in Instruction /\ memInst \in Instruction
      /\ Result(memInst) \in Value /\ exInst.arithResult \in Value
  BY DEF IInv, Operand0, Sound, Result, Instruction
<1>2. ForwardedID \in Operand0
  BY <1>1, Bypassed DEF IInv, ForwardedID
<1>3. CASE isStore(exInst) /\ writesREG(memInst) /\ exInst.word.rs2 = memInst.word.rd
  <2>. DEFINE new == [exInst EXCEPT !.op2Val = Result(memInst)]
  <2>1. memInst.word.rd # 0 /\ exInst.word.rs2 # 0
    BY <1>3 DEF writesREG
  <2>2. /\ new \in Instruction /\ new.memException = exInst.memException
        /\ new.status = exInst.status /\ new.isNop = exInst.isNop
        /\ new.word = exInst.word /\ new.op1Val = exInst.op1Val
    BY <1>1 DEF Instruction
  <2>3. StoreForwarded = new
    BY <1>3 DEF StoreForwarded
  <2>. HIDE DEF new
  <2>. QED
    BY <2>1, <2>2, <2>3, <1>2
       DEF IInv, Operand0, Sound, ReadsZero, Active, readsRs1, readsRs2
<1>4. CASE ~(isStore(exInst) /\ writesREG(memInst) /\ exInst.word.rs2 = memInst.word.rd)
  BY <1>2, <1>4 DEF StoreForwarded, IInv
<1>. QED
  BY <1>3, <1>4

------------------------------------------------------------------------------
(* A cycle. *)

(* What the stages hold after a cycle, before an exception squashes it.     *)
LEMMA NewStages ==
  ASSUME IInv, NEW iHit \in BOOLEAN, NEW dHit \in BOOLEAN, NEW r \in [Reg -> Value]
  PROVE  /\ NewWB(dHit) \in Sound /\ NewMEM(dHit) \in Operand0
         /\ NewEX(dHit) \in Operand0 /\ NewID(iHit, dHit, r) \in Operand0
<1>1. /\ ForwardedID \in Operand0 /\ StoreForwarded \in Operand0
      /\ nop("BUBBLE") \in Operand0 /\ nop("SQUASHED") \in Operand0
      /\ nop("BUBBLE") \in Sound
  BY Forwarded, EmptySlot DEF StageStatus
<1>2. NewWB(dHit) \in Sound
  BY <1>1, Committed DEF NewWB, IInv
<1>3. NewMEM(dHit) \in Operand0
  BY <1>1, MemoryAccessed DEF NewMEM, IInv, TypeOK
<1>4. NewEX(dHit) \in Operand0
  BY <1>1, Executed DEF NewEX, IInv
<1>5. Confirmed(ifInst) \in Sound
  BY Restatused DEF Confirmed, IInv, StageStatus
<1>6. simID(Confirmed(ifInst), r) \in Operand0
  BY <1>5, Decoded
<1>7. simNextPCResolution(ForwardedID) \in Operand0
  BY <1>1, NextPCSound
<1>8. NewID(iHit, dHit, r) \in Operand0
  BY <1>1, <1>6, <1>7 DEF NewID
<1>. QED
  BY <1>2, <1>3, <1>4, <1>8

(* One cycle keeps the inductive invariant, whatever the caches answer. *)
LEMMA CycleKeepsIInv ==
  ASSUME IInv, NEW iHit \in BOOLEAN, NEW dHit \in BOOLEAN, Cycle(iHit, dHit)
  PROVE  IInv'
<1>1. /\ memInst \in Instruction /\ ifInst \in Instruction
      /\ regs \in [Reg -> Value] /\ mem \in [Address -> Value]
  BY DEF IInv, TypeOK
<1>2. regs' \in [Reg -> Value]
  BY <1>1, RegsAfterType DEF Cycle, WriteBack
<1>3. mem' \in [Address -> Value]
  <2>1. StoreForwarded \in Instruction
    BY Forwarded DEF Operand0, Sound
  <2>. QED
    BY <2>1, <1>1, MemAfterType DEF Cycle, Memory
<1>4. /\ NewWB(dHit) \in Sound /\ NewMEM(dHit) \in Operand0
      /\ NewEX(dHit) \in Operand0 /\ NewID(iHit, dHit, regs') \in Operand0
  BY <1>2, NewStages
<1>5. memExc(dHit) = FALSE
  BY <1>4 DEF memExc, Operand0, Sound
<1>6. /\ wbInst' \in Sound /\ memInst' \in Operand0
      /\ exInst' \in Operand0 /\ idInst' \in Operand0
  BY <1>4, <1>5 DEF Cycle, WriteBack, Memory, Execute, Decode, Flushes
<1>7. code' = code /\ IsProgram(code)
  BY DEF Cycle, IInv, TypeOK
<1>8. ifInst' \in Sound /\ PC' \in Value
  <2>1. /\ PC \in Value /\ EXC_HANDLER \in Value /\ ifInst \in Sound
        /\ idInst'.nextPC \in Value
    BY <1>6, Words DEF IInv, TypeOK, Operand0, Sound, Instruction
  <2>2. Plus(PC, 1) \in Value /\ Plus(idInst'.nextPC, 1) \in Value
    BY <2>1, PlusType, Words
  <2>3. simIF(code, PC) \in Sound /\ simIF(code, EXC_HANDLER) \in Sound
    BY <1>7, <2>1, Fetched
  <2>4. [simIF(code, PC) EXCEPT !.status = "SPECULATIVE"] \in Sound
    BY <2>3, Restatused DEF StageStatus
  <2>5. Fetch(iHit, dHit)
    BY DEF Cycle
  <2>. QED
    BY <2>1, <2>2, <2>3, <2>4, <2>5
       DEF Fetch, FetchHandler, FetchStall, FetchBranch, FetchHold, FetchNext
<1>9. remainingStallCycles' \in {0, 1} /\ loadStallCount' \in Nat /\ completedCount' \in Nat
  BY DEF Cycle, Hazards, WriteBack, IInv, TypeOK
<1>10. /\ prevICPC' \in Value \cup {NoPC}
       /\ prevD' \in [valid : BOOLEAN, address : Value, op : {"READ", "WRITE"}]
  <2>1. DataLookup \in [valid : BOOLEAN, address : Value, op : {"READ", "WRITE"}]
    BY <1>1 DEF DataLookup, Instruction
  <2>. QED
    BY <1>1, <2>1 DEF Cycle, Lookups, IInv, TypeOK, Instruction
<1>11. /\ instFetchMiss' \in BOOLEAN /\ instMissStalls' \in Nat
       /\ dataFetchMiss' \in BOOLEAN /\ dataMissStalls' \in Nat
  BY DEF Cycle, MissTimers, IInv, TypeOK
<1>12. status' \in {"SUCCESS", "HALT"}
  BY DEF Cycle, HaltCheck
<1>. QED
  BY <1>2, <1>3, <1>6, <1>7, <1>8, <1>9, <1>10, <1>11, <1>12 DEF IInv, TypeOK, Operand0,
     Sound

(* The inductive invariant holds in every state of every run. *)
LEMMA IInvInductive == Init /\ [][Next]_vars => []IInv
<1>1. Init => IInv
  <2>. SUFFICES ASSUME Init PROVE IInv
    OBVIOUS
  <2>1. nop("IDLE") \in Operand0 /\ nop("IDLE") \in Sound /\ nop("IDLE") \in Instruction
    BY EmptySlot, NopType DEF StageStatus
  <2>. QED
    BY <2>1, PipelineAssumption, Words DEF Init, IInv, TypeOK
<1>2. IInv /\ [Next]_vars => IInv'
  <2>. SUFFICES ASSUME IInv, [Next]_vars PROVE IInv'
    OBVIOUS
  <2>1. ASSUME NEW iHit \in BOOLEAN, NEW dHit \in BOOLEAN, Cycle(iHit, dHit)
        PROVE  IInv'
    BY <2>1, CycleKeepsIInv
  <2>2. CASE UNCHANGED vars
    BY <2>2 DEF vars, stages, misses, IInv, TypeOK, ReadsZero, Operand0, Sound
  <2>. QED
    BY <2>1, <2>2 DEF Next, Halted
<1>. QED
  BY <1>1, <1>2, PTL

(* The state of the pipeline stays well typed.                              *)
THEOREM PipelineTypeCorrect == Spec => []TypeOK
<1>1. IInv => TypeOK
  BY DEF IInv
<1>. QED
  BY <1>1, IInvInductive, PTL DEF Spec

(* x0 reads as zero in every stage, although simCommit (simulator.cpp:426)  *)
(* writes registers[0].                                                     *)
THEOREM PipelineZeroReadsZero == Spec => []ZeroReadsZero
<1>1. IInv => ZeroReadsZero
  BY DEF IInv, Operand0, ZeroReadsZero
<1>. QED
  BY <1>1, IInvInductive, PTL DEF Spec

(* No load raises the memory exception, whatever its address: the branch of *)
(* cycle.cpp that handles it (lines 344-348 and 501-512) is never taken,    *)
(* because simMemAccess compares -EINVAL with EINVAL (simulator.cpp:410).   *)
MemoryNeverFaults == ~memInst.memException

(* That invariant holds for every program and every address. *)
THEOREM PipelineMemoryNeverFaults == Spec => []MemoryNeverFaults
<1>1. IInv => MemoryNeverFaults
  BY DEF IInv, Operand0, Sound, MemoryNeverFaults
<1>. QED
  BY <1>1, IInvInductive, PTL DEF Spec

(* So a cycle puts into a stage what the stage computed: only an illegal    *)
(* instruction in ID squashes anything.                                     *)
LEMMA CycleMoves ==
  ASSUME IInv, NEW iHit \in BOOLEAN, NEW dHit \in BOOLEAN, Cycle(iHit, dHit)
  PROVE  /\ wbInst' = NewWB(dHit) /\ memInst' = NewMEM(dHit) /\ exInst' = NewEX(dHit)
         /\ idInst' = NewID(iHit, dHit, regs') /\ regs' \in [Reg -> Value]
         /\ exception(dHit) <=> illegalExc
<1>1. regs' \in [Reg -> Value]
  BY CycleKeepsIInv DEF IInv, TypeOK
<1>2. memExc(dHit) = FALSE
  BY <1>1, NewStages DEF memExc, Operand0, Sound
<1>. QED
  BY <1>1, <1>2 DEF Cycle, WriteBack, Memory, Execute, Decode, Flushes, exception

(* A counted load-use stall (cycle.cpp:240) never lets the consumer into    *)
(* EX with the register the load has yet to write: EX gets a bubble, or a   *)
(* data miss freezes it.                                                    *)
THEOREM PipelineStalledConsumerWaits == Spec => StalledConsumerWaits
<1>1. ASSUME IInv, [Next]_vars, loadStallCount' > loadStallCount
      PROVE  exInst' \in {nop("BUBBLE"), exInst}
  <2>1. ~(loadStallCount > loadStallCount)
    BY <1>1 DEF IInv, TypeOK
  <2>2. PICK iHit \in BOOLEAN, dHit \in BOOLEAN : Cycle(iHit, dHit)
    BY <1>1, <2>1 DEF Next, Halted, vars
  <2>3. loadHazard /\ stall
    BY <1>1, <2>1, <2>2 DEF Cycle, Hazards, stall
  <2>4. ~illegalExc
    BY <2>3 DEF illegalExc, isLegal, loadHazard, readsRs1, readsRs2
  <2>. QED
    BY <1>1, <2>2, <2>3, <2>4, CycleMoves DEF NewEX
<1>2. IInv /\ [Next]_vars =>
        [loadStallCount' > loadStallCount => exInst' \in {nop("BUBBLE"), exInst}]_vars
  BY <1>1
<1>. QED
  BY <1>2, IInvInductive, PTL DEF Spec, StalledConsumerWaits

(* A latency of 0 is configured like any other, but missLatency - 1 is then *)
(* the largest unsigned number, which no timer reaches (cycle.cpp:592): the *)
(* first data miss never ends, and nothing retires from then on.            *)
THEOREM PipelineZeroLatencyFreezes ==
  ASSUME DMissLatency = 0
  PROVE  Spec => [][dataFetchMiss => dataFetchMiss' /\ wbInst' = nop("BUBBLE")]_vars
<1>1. [Next]_vars => [dataFetchMiss => dataFetchMiss' /\ wbInst' = nop("BUBBLE")]_vars
  <2>. SUFFICES ASSUME [Next]_vars, ~UNCHANGED vars, dataFetchMiss
                PROVE  dataFetchMiss' /\ wbInst' = nop("BUBBLE")
    OBVIOUS
  <2>1. PICK iHit \in BOOLEAN, dHit \in BOOLEAN : Cycle(iHit, dHit)
    BY DEF Next, Halted
  <2>2. dMiss(dHit)
    BY DEF dMiss
  <2>3. dataFetchMiss'
    <3>1. \A stalls : ~Expired(stalls, DMissLatency)
      BY DEF Expired
    <3>2. MissTimers(iHit, dHit)
      BY <2>1 DEF Cycle
    <3>. QED
      BY <2>2, <3>1, <3>2, Zenon DEF MissTimers
  <2>4. wbInst' = nop("BUBBLE")
    BY <2>1, <2>2 DEF Cycle, WriteBack, NewWB
  <2>. QED
    BY <2>3, <2>4
<1>. QED
  BY <1>1, PTL DEF Spec

------------------------------------------------------------------------------
(* The order of the program in the stages of the pipeline: which word is   *)
(* behind which, and what that says of the end of a run.                   *)

(* What a stage keeps of an instruction: it never revives one that is not   *)
(* there, but makes a status normal.                                        *)

Same(new, inst) == /\ new.pc = inst.pc /\ new.word = inst.word
                   /\ Active(new) <=> Active(inst)
                   /\ Real(inst) => Real(new)
                   /\ Real(new) => Real(inst) \/ Active(inst)

(* A new status that keeps a live instruction alive. *)
LEMMA RestatusedSame ==
  ASSUME NEW inst \in Instruction, ~PassesThrough(inst)
  PROVE  Same([inst EXCEPT !.status = "NORMAL"], inst)
<1>. DEFINE new == [inst EXCEPT !.status = "NORMAL"]
<1>1. /\ new.pc = inst.pc /\ new.word = inst.word /\ new.isNop = inst.isNop
      /\ new.status = "NORMAL"
  BY DEF Instruction
<1>. HIDE DEF new
<1>2. Active(new) <=> Active(inst)
  BY <1>1 DEF Active, PassesThrough
<1>3. Real(new) /\ Active(inst)
  BY <1>1 DEF Real, Active, PassesThrough
<1>. QED
  BY <1>1, <1>2, <1>3 DEF Same, new

(* Next-PC resolution changes the next PC only. *)
LEMMA ResolvedSame ==
  ASSUME NEW inst \in Instruction
  PROVE  Same(simNextPCResolution(inst), inst)
<1>. DEFINE new == simNextPCResolution(inst)
<1>1. /\ new.pc = inst.pc /\ new.word = inst.word /\ new.isNop = inst.isNop
      /\ new.status = inst.status
  BY DEF simNextPCResolution, Instruction
<1>. HIDE DEF new
<1>. QED
  BY <1>1 DEF Same, Active, Real, new

(* A bypass changes the operands only. *)
LEMMA BypassedSame ==
  ASSUME NEW inst \in Instruction, NEW from, NEW value
  PROVE  Same(Bypass(inst, from, value), inst)
<1>. DEFINE new == Bypass(inst, from, value)
<1>1. /\ new.pc = inst.pc /\ new.word = inst.word /\ new.isNop = inst.isNop
      /\ new.status = inst.status
  BY DEF Bypass, Instruction
<1>. HIDE DEF new
<1>. QED
  BY <1>1 DEF Same, Active, Real, new

(* Execution computes a result or an address. *)
LEMMA ExecutedSame ==
  ASSUME NEW inst \in Instruction
  PROVE  Same(simEX(inst), inst)
<1>. DEFINE computed == IF doesArithLogic(inst) THEN simArithLogic(inst) ELSE inst
            addressed == IF readsMem(inst) \/ writesMem(inst)
                         THEN simAddrGen(computed) ELSE computed
<1>1. CASE PassesThrough(inst) \/ NotExecuted(inst)
  BY <1>1 DEF simEX, Same
<1>2. CASE ~(PassesThrough(inst) \/ NotExecuted(inst))
  <2>1. /\ computed \in Instruction
        /\ computed.status = inst.status /\ computed.isNop = inst.isNop
        /\ computed.word = inst.word /\ computed.pc = inst.pc
    BY ArithType DEF simArithLogic, Instruction
  <2>. HIDE DEF computed
  <2>2. /\ addressed \in Instruction
        /\ addressed.status = inst.status /\ addressed.isNop = inst.isNop
        /\ addressed.word = inst.word /\ addressed.pc = inst.pc
    BY <2>1, AddrGenType DEF simAddrGen, Instruction
  <2>3. simEX(inst) = [addressed EXCEPT !.status = "NORMAL"]
    BY <1>2 DEF simEX, addressed, computed
  <2>. HIDE DEF addressed
  <2>4. ~PassesThrough(addressed)
    BY <2>2, <1>2 DEF PassesThrough
  <2>. QED
    BY <2>2, <2>3, <2>4, RestatusedSame DEF Same, Active, Real
<1>. QED
  BY <1>1, <1>2

(* A memory access reads a value. *)
LEMMA AccessedSame ==
  ASSUME NEW inst \in Instruction, NEW m \in [Address -> Value]
  PROVE  Same(simMEM(inst, m), inst)
<1>. DEFINE accessed == simMemAccess(inst, m)
<1>1. CASE PassesThrough(inst) \/ NotExecuted(inst)
  BY <1>1 DEF simMEM, Same
<1>2. CASE ~(PassesThrough(inst) \/ NotExecuted(inst))
  <2>1. /\ accessed \in Instruction
        /\ accessed.status = inst.status /\ accessed.isNop = inst.isNop
        /\ accessed.word = inst.word /\ accessed.pc = inst.pc
    BY MemAccessType DEF simMemAccess, Instruction
  <2>2. simMEM(inst, m) = [accessed EXCEPT !.status = "NORMAL"]
    BY <1>2 DEF simMEM
  <2>. HIDE DEF accessed
  <2>3. ~PassesThrough(accessed)
    BY <2>1, <1>2 DEF PassesThrough
  <2>. QED
    BY <2>1, <2>2, <2>3, RestatusedSame DEF Same, Active, Real
<1>. QED
  BY <1>1, <1>2

(* Write-back changes the status only. *)
LEMMA CommittedSame ==
  ASSUME NEW inst \in Instruction
  PROVE  Same(simWB(inst), inst)
BY RestatusedSame DEF simWB, Same

(* Decoding finds out what is a nop, and passes on the rest. *)
LEMMA DecodedSame ==
  ASSUME NEW inst \in Instruction, NEW r \in [Reg -> Value],
         NEW new, new = simID(Confirmed(inst), r)
  PROVE  /\ new.pc = inst.pc /\ new.word = inst.word
         /\ Active(new) <=> Active(inst) /\ inst.word.op # "nop"
         /\ Real(inst) => Real(new)
         /\ Real(new) => Real(inst) \/ Active(inst)
<1>. DEFINE confirmed == Confirmed(inst)
            decoded == simDecode(confirmed)
            operands == simOperandCollection(decoded, r)
            resolved == simNextPCResolution(operands)
<1>1. /\ confirmed \in Instruction
      /\ confirmed.pc = inst.pc /\ confirmed.word = inst.word
      /\ confirmed.isNop = inst.isNop /\ (Active(confirmed) <=> Active(inst))
      /\ Real(inst) => Real(confirmed)
      /\ Real(confirmed) => Real(inst) \/ Active(inst)
  <2>1. CASE inst.isNop \/ inst.status \in {"BUBBLE", "SQUASHED", "IDLE"}
    BY <2>1 DEF Confirmed
  <2>2. CASE ~(inst.isNop \/ inst.status \in {"BUBBLE", "SQUASHED", "IDLE"})
    <3>1. confirmed = [inst EXCEPT !.status = "NORMAL"] /\ ~PassesThrough(inst)
      BY <2>2 DEF Confirmed, PassesThrough
    <3>. QED
      BY <3>1, RestatusedSame DEF Same, Instruction, StageStatus
  <2>. QED
    BY <2>1, <2>2
<1>. HIDE DEF confirmed
<1>2. CASE PassesThrough(confirmed)
  BY <1>1, <1>2 DEF simID, PassesThrough, Active, confirmed
<1>3. CASE ~PassesThrough(confirmed)
  <2>1. /\ decoded \in Instruction /\ (decoded.isNop <=> inst.word.op = "nop")
        /\ decoded.pc = inst.pc /\ decoded.word = inst.word
        /\ decoded.status = confirmed.status
    BY <1>1, DecodeType DEF simDecode, Instruction
  <2>. HIDE DEF decoded
  <2>2. Active(inst) /\ (Active(decoded) <=> inst.word.op # "nop")
    <3>1. Active(confirmed)
      BY <1>3 DEF PassesThrough, Active
    <3>2. Active(inst)
      BY <3>1, <1>1, Zenon
    <3>3. decoded.status \notin {"BUBBLE", "SQUASHED"}
      BY <2>1, <1>3 DEF PassesThrough
    <3>. QED
      BY <3>2, <3>3, <2>1, Zenon DEF Active
  <2>3. CASE NotExecuted(decoded)
    <3>1. new = decoded
      BY <1>3, <2>3 DEF simID, decoded, confirmed
    <3>2. Real(new) <=> Real(confirmed)
      BY <3>1, <2>1 DEF Real
    <3>. QED
      BY <3>1, <3>2, <1>1, <2>1, <2>2
  <2>4. CASE ~NotExecuted(decoded)
    <3>1. /\ operands \in Instruction
          /\ operands.pc = inst.pc /\ operands.word = inst.word
          /\ operands.isNop = decoded.isNop
      <4>1. operands \in Instruction
        BY <2>1, OperandsType
      <4>. QED
        BY <4>1, <2>1 DEF simOperandCollection, Instruction
    <3>. HIDE DEF operands
    <3>2. /\ resolved \in Instruction
          /\ resolved.pc = inst.pc /\ resolved.word = inst.word
          /\ resolved.isNop = decoded.isNop
      BY <3>1, NextPCType DEF simNextPCResolution, Instruction
    <3>3. new = [resolved EXCEPT !.status = "NORMAL"]
      BY <1>3, <2>4 DEF simID, decoded, operands, confirmed
    <3>. HIDE DEF resolved
    <3>4. new.pc = inst.pc /\ new.word = inst.word /\ new.isNop = decoded.isNop
          /\ new.status = "NORMAL"
      BY <3>2, <3>3 DEF Instruction
    <3>5. (Active(new) <=> inst.word.op # "nop") /\ Real(new)
      BY <3>4, <2>1 DEF Active, Real
    <3>. QED
      BY <3>4, <3>5, <2>2
  <2>. QED
    BY <2>3, <2>4
<1>. QED
  BY <1>2, <1>3

(* What forwarding makes of the instructions in ID and EX. *)
LEMMA ForwardedSame ==
  ASSUME IInv
  PROVE  Same(ForwardedID, idInst) /\ Same(StoreForwarded, exInst)
<1>1. idInst \in Instruction /\ exInst \in Instruction /\ memInst \in Sound
      /\ idInst \in Operand0 /\ Result(memInst) \in Value
  BY DEF IInv, TypeOK, Operand0, Sound, Result, Instruction
<1>2. Same(ForwardedID, idInst)
  <2>. DEFINE once == Bypass(idInst, memInst, Result(memInst))
  <2>1. Same(once, idInst)
    BY <1>1, BypassedSame
  <2>2. once \in Instruction
    BY <1>1, Bypassed DEF Operand0, Sound
  <2>3. Same(Bypass(once, exInst, exInst.arithResult), once)
    BY <2>2, BypassedSame
  <2>. QED
    BY <2>1, <2>3 DEF Same, ForwardedID
<1>3. Same(StoreForwarded, exInst)
  <2>. DEFINE new == [exInst EXCEPT !.op2Val = Result(memInst)]
  <2>1. /\ new.pc = exInst.pc /\ new.word = exInst.word /\ new.isNop = exInst.isNop
        /\ new.status = exInst.status
    BY <1>1 DEF Instruction
  <2>2. StoreForwarded \in {new, exInst}
    BY DEF StoreForwarded
  <2>. HIDE DEF new
  <2>. QED
    BY <2>1, <2>2 DEF Same, Active, Real
<1>. QED
  BY <1>2, <1>3

(* An empty slot, once the first instruction is in the pipeline. *)
Empty(inst) == ~Active(inst) /\ ~Real(inst) /\ inst.word = NopWord

(* A cycle moves instructions on, holds them or drops them: what each stage *)
(* holds next is what one of the stages held, or an empty slot.             *)
LEMMA CycleKeeps ==
  ASSUME IInv, NEW iHit \in BOOLEAN, NEW dHit \in BOOLEAN, Cycle(iHit, dHit)
  PROVE  /\ dMiss(dHit) => /\ wbInst' = nop("BUBBLE") /\ memInst' = memInst
                           /\ exInst' = exInst /\ Same(idInst', idInst)
         /\ ~dMiss(dHit) =>
              /\ Same(wbInst', memInst) /\ Same(memInst', exInst)
              /\ IF stall \/ illegalExc THEN Empty(exInst') ELSE Same(exInst', idInst)
              /\ \/ Empty(idInst') /\ (illegalExc \/ (~stall /\ (iMiss(iHit) \/ WrongPath)))
                 \/ stall /\ ~illegalExc /\ Same(idInst', idInst)
                 \/ /\ ~stall /\ ~illegalExc /\ ~iMiss(iHit) /\ ~WrongPath
                    /\ idInst'.pc = ifInst.pc /\ idInst'.word = ifInst.word
                    /\ Active(idInst') <=> Active(ifInst) /\ ifInst.word.op # "nop"
                    /\ Real(ifInst) => Real(idInst')
                    /\ Real(idInst') => Real(ifInst) \/ Active(ifInst)
<1>1. /\ wbInst' = NewWB(dHit) /\ memInst' = NewMEM(dHit) /\ exInst' = NewEX(dHit)
      /\ idInst' = NewID(iHit, dHit, regs') /\ regs' \in [Reg -> Value]
  BY CycleMoves
<1>2. Same(ForwardedID, idInst) /\ Same(StoreForwarded, exInst)
  BY ForwardedSame
<1>3. /\ ForwardedID \in Instruction /\ StoreForwarded \in Instruction
      /\ memInst \in Instruction /\ ifInst \in Instruction /\ mem \in [Address -> Value]
  BY Forwarded DEF Operand0, Sound, IInv, TypeOK
<1>4. Empty(nop("BUBBLE")) /\ Empty(nop("SQUASHED"))
  BY DEF Active, Real, nop, Empty
<1>5. CASE dMiss(dHit)
  BY <1>1, <1>2, <1>5 DEF NewWB, NewMEM, NewEX, NewID
<1>6. CASE ~dMiss(dHit)
  <2>1. Same(wbInst', memInst)
    BY <1>1, <1>3, <1>6, CommittedSame DEF NewWB
  <2>2. Same(memInst', exInst)
    <3>1. Same(simMEM(StoreForwarded, mem), StoreForwarded)
      BY <1>3, AccessedSame
    <3>. QED
      BY <3>1, <1>1, <1>2, <1>6 DEF NewMEM, Same
  <2>3. IF stall \/ illegalExc THEN Empty(exInst') ELSE Same(exInst', idInst)
    <3>1. Same(simEX(ForwardedID), ForwardedID)
      BY <1>3, ExecutedSame
    <3>. QED
      BY <3>1, <1>1, <1>2, <1>4, <1>6 DEF NewEX, Same
  <2>4. CASE illegalExc
    <3>1. Empty(idInst')
      BY <2>4, <1>1, <1>4, <1>6 DEF NewID
    <3>2. Empty(idInst') /\ (illegalExc \/ (~stall /\ (iMiss(iHit) \/ WrongPath)))
      BY <2>4, <3>1
    <3>. QED
      BY <2>1, <2>2, <2>3, <3>2, <1>6
  <2>5. CASE ~illegalExc /\ stall
    <3>1. Same(simNextPCResolution(ForwardedID), ForwardedID)
      BY <1>3, ResolvedSame
    <3>2. idInst' \in {ForwardedID, simNextPCResolution(ForwardedID)}
      BY <1>1, <1>6, <2>5 DEF NewID
    <3>3. Same(idInst', idInst)
      BY <3>1, <3>2, <1>2 DEF Same
    <3>. QED
      BY <2>1, <2>2, <2>3, <2>5, <3>3, <1>6
  <2>6. CASE ~illegalExc /\ ~stall /\ (iMiss(iHit) \/ WrongPath)
    <3>1. idInst' \in {nop("BUBBLE"), nop("SQUASHED")}
      BY <2>6, <1>1, <1>6 DEF NewID
    <3>. QED
      BY <2>1, <2>2, <2>3, <2>6, <3>1, <1>4, <1>6
  <2>7. CASE ~illegalExc /\ ~stall /\ ~iMiss(iHit) /\ ~WrongPath
    <3>1. idInst' = simID(Confirmed(ifInst), regs')
      BY <2>7, <1>1, <1>6 DEF NewID
    <3>2. /\ idInst'.pc = ifInst.pc /\ idInst'.word = ifInst.word
          /\ Active(idInst') <=> Active(ifInst) /\ ifInst.word.op # "nop"
          /\ Real(ifInst) => Real(idInst')
          /\ Real(idInst') => Real(ifInst) \/ Active(ifInst)
      BY <3>1, <1>1, <1>3, DecodedSame
    <3>. QED
      BY <2>1, <2>2, <2>3, <2>7, <3>2, <1>6
  <2>. QED
    BY <2>4, <2>5, <2>6, <2>7
<1>. QED
  BY <1>5, <1>6

------------------------------------------------------------------------------
(* What the stages hold comes from the code. *)

(* An instruction from ID on: of the program, or a nop; there, if live. *)
FromCode(inst) ==
  /\ Active(inst) => Real(inst)
  /\ Real(inst) => inst.word = simFetch(code, inst.pc)
  /\ ~Active(inst) => inst.word.op = "nop"

(* IF is empty until the first fetch only, and behind a branch in ID it     *)
(* holds what was fetched on speculation.                                   *)
CodeInv ==
  /\ \/ ifInst = nop("IDLE")
     \/ /\ ~ifInst.isNop /\ ifInst.status \in {"NORMAL", "SPECULATIVE"}
        /\ ifInst.word = simFetch(code, ifInst.pc)
  /\ FromCode(idInst) /\ FromCode(exInst) /\ FromCode(memInst) /\ FromCode(wbInst)
  /\ isBranchOrJump(idInst) => ifInst.status = "SPECULATIVE"

(* What a fetch puts into IF. *)
LEMMA FetchedFacts ==
  ASSUME NEW pc \in Value, NEW s \in {"NORMAL", "SPECULATIVE"},
         NEW inst, inst = [simIF(code, pc) EXCEPT !.status = s] \/
                   (s = "NORMAL" /\ inst = simIF(code, pc))
  PROVE  inst.pc = pc /\ inst.word = simFetch(code, pc) /\ ~inst.isNop /\ inst.status = s
BY DEF simIF, nop

(* A cycle keeps IF, or fetches at the PC or at the handler.                *)
LEMMA CycleFetches ==
  ASSUME IInv, NEW iHit \in BOOLEAN, NEW dHit \in BOOLEAN, Cycle(iHit, dHit)
  PROVE  \/ /\ illegalExc
            /\ PC' = EXC_HANDLER /\ ifInst' = simIF(code, EXC_HANDLER)
         \/ /\ ~illegalExc /\ stall
            /\ ifInst' = ifInst
            /\ IF branchInId(iHit, dHit, idInst')
               THEN PC' = IF taken(idInst') THEN idInst'.nextPC ELSE Plus(idInst'.nextPC, 1)
               ELSE PC' = PC
         \/ /\ ~illegalExc /\ ~stall /\ branchInId(iHit, dHit, idInst')
            /\ ifInst' = [simIF(code, PC) EXCEPT !.status = "SPECULATIVE"]
            /\ PC' = idInst'.nextPC
         \/ /\ ~illegalExc /\ ~stall /\ (iMiss(iHit) \/ dMiss(dHit))
            /\ ifInst' = ifInst /\ PC' = PC
         \/ /\ ~illegalExc /\ ~stall /\ ~iMiss(iHit) /\ ~dMiss(dHit)
            /\ ~isBranchOrJump(idInst')
            /\ ifInst' = simIF(code, PC) /\ PC' = Plus(PC, 1)
<1>1. exception(dHit) <=> illegalExc
  BY CycleMoves
<1>2. Fetch(iHit, dHit)
  BY DEF Cycle
<1>. QED
  BY <1>1, <1>2
     DEF Fetch, FetchHandler, FetchStall, FetchBranch, FetchHold, FetchNext

(* A cycle fetches, moves and drops; it makes no instruction up. *)
LEMMA CycleKeepsCode ==
  ASSUME IInv, CodeInv, NEW iHit \in BOOLEAN, NEW dHit \in BOOLEAN, Cycle(iHit, dHit)
  PROVE  CodeInv'
<1>1. code' = code /\ PC \in Value /\ EXC_HANDLER \in Value
  BY Words DEF Cycle, IInv, TypeOK
<1>2. \/ ifInst' = nop("IDLE")
      \/ /\ ~ifInst'.isNop /\ ifInst'.status \in {"NORMAL", "SPECULATIVE"}
         /\ ifInst'.word = simFetch(code, ifInst'.pc)
  <2>1. \A pc \in Value :
          /\ simIF(code, pc).pc = pc /\ simIF(code, pc).word = simFetch(code, pc)
          /\ ~simIF(code, pc).isNop /\ simIF(code, pc).status = "NORMAL"
    BY FetchedFacts
  <2>2. ASSUME ifInst' = [simIF(code, PC) EXCEPT !.status = "SPECULATIVE"]
        PROVE  /\ ifInst'.pc = PC /\ ifInst'.word = simFetch(code, PC)
               /\ ~ifInst'.isNop /\ ifInst'.status = "SPECULATIVE"
    BY <2>2, <1>1, FetchedFacts
  <2>3. \/ ifInst' = ifInst \/ \E pc \in Value : ifInst' = simIF(code, pc)
        \/ ifInst' = [simIF(code, PC) EXCEPT !.status = "SPECULATIVE"]
    BY <1>1, CycleFetches
  <2>4. CASE ifInst' = ifInst
    BY <2>4 DEF CodeInv
  <2>5. CASE \E pc \in Value : ifInst' = simIF(code, pc)
    BY <2>1, <2>5
  <2>6. CASE ifInst' = [simIF(code, PC) EXCEPT !.status = "SPECULATIVE"]
    BY <2>2, <2>6
  <2>. QED
    BY <2>3, <2>4, <2>5, <2>6
<1>3. \A new, inst : Same(new, inst) /\ FromCode(inst) => FromCode(new)
  BY DEF Same, FromCode
<1>4. \A new : Empty(new) => FromCode(new)
  BY DEF FromCode, NopWord, Empty
<1>5. FromCode(wbInst') /\ FromCode(memInst') /\ FromCode(exInst')
  <2>1. Empty(nop("BUBBLE"))
    BY DEF nop, Active, Real, Empty
  <2>2. CASE dMiss(dHit)
    BY <2>1, <2>2, <1>3, <1>4, CycleKeeps DEF CodeInv
  <2>3. CASE ~dMiss(dHit)
    BY <2>3, <1>3, <1>4, CycleKeeps DEF CodeInv
  <2>. QED
    BY <2>2, <2>3
<1>6. FromCode(idInst')
  <2>1. ASSUME idInst'.pc = ifInst.pc, idInst'.word = ifInst.word,
               Active(idInst') <=> Active(ifInst) /\ ifInst.word.op # "nop",
               Real(ifInst) => Real(idInst'),
               Real(idInst') => Real(ifInst) \/ Active(ifInst)
        PROVE  FromCode(idInst')
    <3>1. CASE ifInst = nop("IDLE")
      BY <2>1, <3>1 DEF FromCode, Active, Real, nop, NopWord
    <3>2. CASE ifInst # nop("IDLE")
      <4>1. Active(ifInst) /\ Real(ifInst) /\ ifInst.word = simFetch(code, ifInst.pc)
        BY <3>2 DEF CodeInv, Active, Real
      <4>. QED
        BY <2>1, <4>1 DEF FromCode
    <3>. QED
      BY <3>1, <3>2
  <2>2. CASE dMiss(dHit)
    BY <2>2, <1>3, CycleKeeps DEF CodeInv
  <2>3. CASE ~dMiss(dHit)
    BY <2>1, <2>3, <1>3, <1>4, CycleKeeps DEF CodeInv
  <2>. QED
    BY <2>2, <2>3
<1>7. ASSUME isBranchOrJump(idInst')
      PROVE  ifInst'.status = "SPECULATIVE"
  <2>1. \A new, inst : Same(new, inst) => (isBranchOrJump(new) <=> isBranchOrJump(inst))
    BY DEF Same, isBranchOrJump
  <2>2. Active(idInst')
    BY <1>7 DEF isBranchOrJump
  <2>3. isBranchOrJump(idInst) => ~illegalExc
    BY DEF isBranchOrJump, illegalExc, isLegal
  <2>4. CASE dMiss(dHit)
    <3>1. isBranchOrJump(idInst)
      BY <1>7, <2>1, <2>4, CycleKeeps
    <3>. QED
      BY <3>1, <2>3, <2>4, CycleFetches DEF branchInId, CodeInv
  <2>5. CASE ~dMiss(dHit) /\ stall /\ ~illegalExc
    <3>1. isBranchOrJump(idInst)
      BY <1>7, <2>1, <2>2, <2>5, CycleKeeps
    <3>2. ifInst' = ifInst
      BY <2>5, CycleFetches
    <3>3. ifInst.status = "SPECULATIVE"
      <4>1. isBranchOrJump(idInst) => ifInst.status = "SPECULATIVE"
        BY Zenon DEF CodeInv
      <4>. QED
        BY <4>1, <3>1
    <3>. QED
      BY <3>2, <3>3
  <2>6. CASE ~dMiss(dHit) /\ ~(stall /\ ~illegalExc)
    <3>1. ~stall /\ ~illegalExc /\ ~iMiss(iHit)
      BY <2>2, <2>6, CycleKeeps DEF Empty
    <3>2. branchInId(iHit, dHit, idInst')
      BY <3>1, <2>6, <1>7 DEF branchInId
    <3>3. ifInst' = [simIF(code, PC) EXCEPT !.status = "SPECULATIVE"]
      BY <3>1, <3>2, <1>7, <2>6, CycleFetches
    <3>. QED
      BY <3>3, <1>1, FetchedFacts
  <2>. QED
    BY <2>4, <2>5, <2>6
<1>. QED
  BY <1>1, <1>2, <1>5, <1>6, <1>7 DEF CodeInv, FromCode

------------------------------------------------------------------------------
(* The halt: the word behind it in a stage is the next one of the program,  *)
(* or a halt again (the first word of the handler is fetched twice).        *)

Follows(back, front) ==
  isHalt(front) => ~Active(back) \/ isHalt(back) \/ back.pc = Plus(front.pc, 1)

HaltInv ==
  /\ Follows(memInst, wbInst) /\ Follows(exInst, memInst) /\ Follows(idInst, exInst)
  /\ isHalt(idInst) => isHalt(ifInst) \/ ifInst.pc = Plus(idInst.pc, 1)
  /\ isHalt(ifInst) => WrongPath \/ PC \in {ifInst.pc, Plus(ifInst.pc, 1)}
  /\ dataFetchMiss => isLoad(memInst) \/ isStore(memInst)
  /\ status = "HALT" <=> isHalt(wbInst)

(* The PC behind the one that is one below it. *)
LEMMA Predecessor ==
  ASSUME NEW pc \in Value, NEW next \in Value, pc = (next - 1) % WordMod
  PROVE  next = Plus(pc, 1)
<1>1. WordMod \in Nat /\ WordMod > 1 /\ next \in 0 .. WordMod - 1
  BY SimulatorAssumption DEF Value
<1>2. CASE next = 0
  <2>1. (next - 1) % WordMod = WordMod - 1
    BY <1>1, <1>2
  <2>. QED
    BY <2>1, <1>1, <1>2 DEF Plus
<1>3. CASE next # 0
  <2>1. (next - 1) % WordMod = next - 1
    BY <1>1, <1>3
  <2>. QED
    BY <2>1, <1>1, <1>3 DEF Plus
<1>. QED
  BY <1>2, <1>3

(* A data miss is one of the access in MEM, for as long as it lasts. *)
LEMMA DataMissInMem ==
  ASSUME HaltInv, NEW dHit \in BOOLEAN, dMiss(dHit)
  PROVE  isLoad(memInst) \/ isStore(memInst)
BY DEF HaltInv, dMiss, dAccess

(* A cycle keeps the words behind a halt in order. *)
LEMMA CycleKeepsHalts ==
  ASSUME IInv, CodeInv, HaltInv, NEW iHit \in BOOLEAN, NEW dHit \in BOOLEAN,
         Cycle(iHit, dHit)
  PROVE  HaltInv'
<1>1. /\ code' = code /\ PC \in Value /\ PC' \in Value /\ EXC_HANDLER \in Value
      /\ ifInst'.pc \in Value /\ idInst'.nextPC \in Value
  BY CycleKeepsIInv, Words DEF Cycle, IInv, TypeOK, Instruction
<1>2. \A b, f, nb, nf : Follows(b, f) /\ (Same(nb, b) \/ Empty(nb)) /\ Same(nf, f)
                        => Follows(nb, nf)
  BY DEF Follows, Same, isHalt, Empty
<1>3. \A b, f : Empty(f) => Follows(b, f) /\ ~isHalt(f)
  BY DEF Follows, isHalt, NopWord, Empty
<1>4. Empty(nop("BUBBLE"))
  BY DEF nop, Active, Real, Empty
<1>5. \A new, inst : Same(new, inst) =>
        /\ new.pc = inst.pc /\ (isHalt(new) <=> isHalt(inst))
        /\ isBranchOrJump(new) <=> isBranchOrJump(inst)
  BY DEF Same, isHalt, isBranchOrJump
<1>6. isHalt(idInst) => ~illegalExc /\ ~isBranchOrJump(idInst)
  BY DEF isHalt, illegalExc, isBranchOrJump
<1>7. Follows(memInst', wbInst') /\ Follows(exInst', memInst')
  <2>1. CASE dMiss(dHit)
    BY <2>1, <1>3, <1>4, CycleKeeps DEF HaltInv
  <2>2. CASE ~dMiss(dHit)
    <3>1. Same(wbInst', memInst) /\ Same(memInst', exInst)
      BY <2>2, CycleKeeps
    <3>2. Same(exInst', idInst) \/ Empty(exInst')
      BY <2>2, CycleKeeps
    <3>. QED
      BY <3>1, <3>2, <1>2 DEF HaltInv
  <2>. QED
    BY <2>1, <2>2
<1>8. Follows(idInst', exInst')
  <2>1. CASE dMiss(dHit)
    <3>1. Same(idInst', idInst) /\ exInst' = exInst
      BY <2>1, CycleKeeps
    <3>. QED
      BY <3>1, <1>2 DEF HaltInv, Same
  <2>2. CASE ~dMiss(dHit) /\ (stall \/ illegalExc)
    <3>1. Empty(exInst')
      BY <2>2, CycleKeeps
    <3>. QED
      BY <3>1, <1>3
  <2>3. CASE ~dMiss(dHit) /\ ~stall /\ ~illegalExc
    <3>1. Same(exInst', idInst)
      BY <2>3, CycleKeeps
    <3>2. \/ Empty(idInst')
          \/ idInst'.pc = ifInst.pc /\ idInst'.word = ifInst.word
      BY <2>3, CycleKeeps
    <3>3. CASE Empty(idInst')
      BY <3>3 DEF Follows, Empty
    <3>4. CASE idInst'.pc = ifInst.pc /\ idInst'.word = ifInst.word
      BY <3>1, <3>4, <1>5 DEF HaltInv, Follows, isHalt
    <3>. QED
      BY <3>2, <3>3, <3>4
  <2>. QED
    BY <2>1, <2>2, <2>3
<1>9. ASSUME isHalt(idInst')
      PROVE  isHalt(ifInst') \/ ifInst'.pc = Plus(idInst'.pc, 1)
  <2>1. ~Empty(idInst') /\ ~isBranchOrJump(idInst')
    BY <1>9, <1>3 DEF isHalt, isBranchOrJump
  <2>2. CASE dMiss(dHit)
    <3>1. Same(idInst', idInst)
      BY <2>2, CycleKeeps
    <3>2. isHalt(idInst) /\ ~illegalExc
      BY <3>1, <1>5, <1>6, <1>9
    <3>3. ifInst' = ifInst
      BY <3>2, <2>1, <2>2, CycleFetches DEF branchInId
    <3>. QED
      BY <3>1, <3>2, <3>3, <1>5 DEF HaltInv
  <2>3. CASE ~dMiss(dHit) /\ stall /\ ~illegalExc
    <3>1. Same(idInst', idInst) /\ ifInst' = ifInst
      BY <2>1, <2>3, CycleKeeps, CycleFetches DEF Empty
    <3>. QED
      BY <3>1, <1>5, <1>9 DEF HaltInv
  <2>4. CASE ~dMiss(dHit) /\ ~(stall /\ ~illegalExc)
    <3>1. /\ ~stall /\ ~illegalExc /\ ~iMiss(iHit) /\ ~WrongPath
          /\ idInst'.pc = ifInst.pc /\ idInst'.word = ifInst.word
      BY <2>1, <2>4, CycleKeeps
    <3>2. ifInst' = simIF(code, PC)
      BY <3>1, <2>1, <2>4, CycleFetches DEF branchInId
    <3>3. ifInst'.pc = PC /\ ifInst'.word = simFetch(code, PC)
      BY <3>2, <1>1, FetchedFacts
    <3>4. isHalt(ifInst)
      BY <3>1, <1>9 DEF isHalt
    <3>5. PC = ifInst.pc \/ PC = Plus(ifInst.pc, 1)
      BY <3>1, <3>4 DEF HaltInv
    <3>6. PC = ifInst.pc => ifInst'.word = ifInst.word
      BY <3>3, <3>4 DEF CodeInv, isHalt, nop, NopWord
    <3>. QED
      BY <3>1, <3>3, <3>4, <3>5, <3>6 DEF isHalt
  <2>. QED
    BY <2>2, <2>3, <2>4
<1>10. ASSUME isHalt(ifInst')
       PROVE  WrongPath' \/ PC' \in {ifInst'.pc, Plus(ifInst'.pc, 1)}
  <2>1. ASSUME ifInst'.status = "SPECULATIVE"
        PROVE  WrongPath' \/ PC' = Plus(ifInst'.pc, 1)
    <3>1. CASE ifInst'.pc = (PC' - 1) % WordMod
      BY <3>1, <1>1, Predecessor
    <3>2. CASE ifInst'.pc # (PC' - 1) % WordMod
      BY <3>2, <2>1 DEF WrongPath
    <3>. QED
      BY <3>1, <3>2
  <2>2. CASE ifInst' = simIF(code, EXC_HANDLER) /\ PC' = EXC_HANDLER
    BY <2>2, <1>1, FetchedFacts
  <2>3. CASE ifInst' = simIF(code, PC) /\ PC' = Plus(PC, 1)
    BY <2>3, <1>1, FetchedFacts
  <2>4. CASE ifInst' = ifInst /\ PC' = PC
    BY <2>4, <1>10 DEF HaltInv, WrongPath, isHalt
  <2>5. CASE ifInst' = ifInst /\ stall /\ ~illegalExc /\ branchInId(iHit, dHit, idInst')
    <3>1. ~dMiss(dHit) /\ isBranchOrJump(idInst')
      BY <2>5 DEF branchInId
    <3>2. Same(idInst', idInst)
      BY <3>1, <2>5, CycleKeeps DEF isBranchOrJump
    <3>3. ifInst'.status = "SPECULATIVE"
      BY <3>1, <3>2, <2>5, <1>5 DEF CodeInv
    <3>. QED
      BY <3>3, <2>1
  <2>6. CASE ifInst' = [simIF(code, PC) EXCEPT !.status = "SPECULATIVE"]
    BY <2>1, <2>6, <1>1, FetchedFacts
  <2>. QED
    BY <2>2, <2>3, <2>4, <2>5, <2>6, CycleFetches
<1>11. ASSUME dataFetchMiss'
       PROVE  isLoad(memInst') \/ isStore(memInst')
  <2>1. dMiss(dHit)
    BY <1>11 DEF Cycle, MissTimers
  <2>2. memInst' = memInst
    BY <2>1, CycleKeeps
  <2>. QED
    BY <2>1, <2>2, DataMissInMem DEF isLoad, isStore, Active, readsMem, writesMem
<1>12. status' = "HALT" <=> isHalt(wbInst')
  BY DEF Cycle, HaltCheck
<1>. QED
  BY <1>7, <1>8, <1>9, <1>10, <1>11, <1>12 DEF HaltInv, Follows, isHalt, isLoad, isStore

(* In every state the words behind a halt are in order. *)
LEMMA HaltsInOrder == Init /\ [][Next]_vars => [](IInv /\ CodeInv /\ HaltInv)
<1>1. Init => CodeInv /\ HaltInv
  <2>. SUFFICES ASSUME Init PROVE CodeInv /\ HaltInv
    OBVIOUS
  <2>1. LET inst == nop("IDLE")
        IN  /\ ~Active(inst) /\ ~Real(inst) /\ inst.word.op = "nop"
            /\ ~isHalt(inst) /\ ~isBranchOrJump(inst)
    BY DEF Active, Real, isHalt, isBranchOrJump, nop, NopWord
  <2>. QED
    BY <2>1 DEF Init, CodeInv, HaltInv, FromCode, Follows
<1>2. IInv /\ CodeInv /\ HaltInv /\ [Next]_vars => CodeInv' /\ HaltInv'
  <2>. SUFFICES ASSUME IInv, CodeInv, HaltInv, [Next]_vars PROVE CodeInv' /\ HaltInv'
    OBVIOUS
  <2>1. ASSUME NEW iHit \in BOOLEAN, NEW dHit \in BOOLEAN, Cycle(iHit, dHit)
        PROVE  CodeInv' /\ HaltInv'
    BY <2>1, CycleKeepsCode, CycleKeepsHalts
  <2>2. CASE UNCHANGED vars
    BY <2>2 DEF vars, stages, misses, CodeInv, HaltInv, FromCode, Follows, WrongPath,
           isHalt, isLoad, isStore, isBranchOrJump
  <2>. QED
    BY <2>1, <2>2 DEF Next, Halted
<1>. QED
  BY <1>1, <1>2, IInvInductive, PTL

------------------------------------------------------------------------------
(* No instruction waits forever: between two cycles that retire something   *)
(* or trap there is a number of cycles that only the two latencies bound.   *)

(* The cycles for which the word in IF, the access in MEM, are not there.   *)
FetchWait == IF instFetchMiss THEN IMissLatency - 1 - instMissStalls
             ELSE IF ifInst.isNop \/ ifInst.pc = prevICPC THEN 0 ELSE IMissLatency
DataWait  == IF dataFetchMiss THEN DMissLatency - 1 - dataMissStalls
             ELSE IF (isLoad(memInst) \/ isStore(memInst)) /\ prevD # DataLookup
                  THEN DMissLatency ELSE 0

(* The cycles until an instruction is in EX, or until one traps in ID: one  *)
(* for each slot it has to move, the stall, the misses of a word in IF and, *)
(* if that word is on a wrong path, of the word fetched in its place.       *)
WaitForEX == IF Real(exInst) \/ illegalExc THEN 0
             ELSE IF Real(idInst) THEN 1 + remainingStallCycles
             ELSE IF Real(ifInst) /\ ~WrongPath THEN 2 + FetchWait
             ELSE 3 + IMissLatency + FetchWait

(* The cycles until an instruction retires or traps, and the most of them.  *)
Wait    == IF Real(memInst) THEN DataWait ELSE 1 + DMissLatency + WaitForEX
MaxWait == DMissLatency + 2 * IMissLatency + 4

(* A miss in progress is that of the last lookup and not at its end; a      *)
(* stall has somebody to stall.                                             *)
WaitInv ==
  /\ instFetchMiss => /\ ~ifInst.isNop /\ ifInst.pc = prevICPC
                      /\ instMissStalls + 1 < IMissLatency
  /\ dataFetchMiss => prevD = DataLookup /\ dataMissStalls + 1 < DMissLatency
  /\ remainingStallCycles > 0 => Real(idInst)

(* What a cycle ends for an instruction. *)
Retires == Real(wbInst')
Traps   == illegalExc /\ idInst' = nop("SQUASHED")

(* The waits are as long as their bounds say, in the next state too. *)
Bounded == /\ FetchWait \in 0 .. IMissLatency /\ DataWait \in 0 .. DMissLatency
           /\ WaitForEX \in 0 .. 3 + 2 * IMissLatency /\ Wait \in 0 .. MaxWait

LEMMA WaitsBounded == IInv /\ WaitInv => Bounded
<1>. SUFFICES ASSUME IInv, WaitInv PROVE Bounded
  OBVIOUS
<1>1. /\ IMissLatency \in Nat /\ DMissLatency \in Nat
      /\ instMissStalls \in Nat /\ dataMissStalls \in Nat /\ remainingStallCycles \in {0, 1}
  BY PipelineAssumption DEF IInv, TypeOK
<1>2. FetchWait \in 0 .. IMissLatency
  BY <1>1 DEF FetchWait, WaitInv
<1>3. DataWait \in 0 .. DMissLatency
  BY <1>1 DEF DataWait, WaitInv
<1>4. WaitForEX \in 0 .. 3 + 2 * IMissLatency
  BY <1>1, <1>2 DEF WaitForEX
<1>. QED
  BY <1>1, <1>2, <1>3, <1>4 DEF Bounded, Wait, MaxWait

LEMMA WaitsStayBounded == (IInv /\ WaitInv => Bounded)'
BY WaitsBounded, PTL

(* A fetch that misses stays in IF, and what it waits for comes nearer.     *)
LEMMA MissingFetch ==
  ASSUME IMissLatency > 0, IInv, WaitInv,
         NEW iHit \in BOOLEAN, NEW dHit \in BOOLEAN, Cycle(iHit, dHit),
         iMiss(iHit), ~illegalExc
  PROVE  /\ ifInst' = ifInst /\ PC' = PC
         /\ FetchWait' \in Nat /\ FetchWait' < FetchWait
         /\ instFetchMiss' => /\ ~ifInst.isNop /\ ifInst.pc = prevICPC'
                              /\ instMissStalls' + 1 < IMissLatency
<1>1. /\ IMissLatency \in Nat /\ instMissStalls \in Nat
  BY PipelineAssumption DEF IInv, TypeOK
<1>2. ifInst' = ifInst /\ PC' = PC
  BY CycleFetches DEF branchInId
<1>3. ~MissDropped(iHit, dHit)
  BY CycleMoves DEF MissDropped, branchInId
<1>. DEFINE s == IF instFetchMiss THEN instMissStalls + 1 ELSE 0
<1>4. /\ s \in Nat
      /\ instMissStalls' = (IF Expired(s, IMissLatency) THEN 0 ELSE s)
      /\ instFetchMiss' <=> ~Expired(s, IMissLatency)
  BY <1>1, <1>3 DEF Cycle, MissTimers
<1>5. ~ifInst.isNop /\ prevICPC' = ifInst.pc
  BY DEF iMiss, iAccess, Cycle, Lookups, WaitInv
<1>6. CASE instFetchMiss
  BY <1>1, <1>2, <1>4, <1>5, <1>6 DEF FetchWait, WaitInv, Expired
<1>7. CASE ~instFetchMiss
  <2>1. FetchWait = IMissLatency
    BY <1>7 DEF FetchWait, iMiss, iAccess
  <2>. QED
    BY <2>1, <1>1, <1>2, <1>4, <1>5, <1>7 DEF FetchWait, Expired
<1>. QED
  BY <1>6, <1>7

(* The same for an access. *)
LEMMA MissingAccess ==
  ASSUME DMissLatency > 0, IInv, WaitInv,
         NEW iHit \in BOOLEAN, NEW dHit \in BOOLEAN, Cycle(iHit, dHit), dMiss(dHit)
  PROVE  /\ memInst' = memInst /\ DataWait' \in Nat /\ DataWait' < DataWait
         /\ dataFetchMiss' => prevD' = DataLookup' /\ dataMissStalls' + 1 < DMissLatency
<1>1. DMissLatency \in Nat /\ dataMissStalls \in Nat
  BY PipelineAssumption DEF IInv, TypeOK
<1>2. memInst' = memInst /\ DataLookup' = DataLookup
  BY CycleKeeps DEF DataLookup, writesMem
<1>. DEFINE s == IF dataFetchMiss THEN dataMissStalls + 1 ELSE 0
<1>3. /\ s \in Nat
      /\ dataMissStalls' = (IF Expired(s, DMissLatency) THEN 0 ELSE s)
      /\ dataFetchMiss' <=> ~Expired(s, DMissLatency)
  <2>1. MissTimers(iHit, dHit)
    BY DEF Cycle
  <2>2. s \in Nat
    BY <1>1
  <2>3. /\ dataMissStalls' = (IF Expired(s, DMissLatency) THEN 0 ELSE s)
        /\ dataFetchMiss' <=> ~Expired(s, DMissLatency)
    BY <2>1, Zenon DEF MissTimers
  <2>. QED
    BY <2>2, <2>3
<1>4. prevD' = DataLookup
  BY DEF dMiss, dAccess, Cycle, Lookups, WaitInv
<1>5. CASE dataFetchMiss
  BY <1>1, <1>2, <1>3, <1>4, <1>5 DEF DataWait, WaitInv, Expired
<1>6. CASE ~dataFetchMiss
  <2>1. DataWait = DMissLatency
    BY <1>6 DEF DataWait, dMiss, dAccess
  <2>. QED
    BY <2>1, <1>1, <1>2, <1>3, <1>4, <1>6 DEF DataWait, Expired
<1>. QED
  BY <1>5, <1>6

(* Every cycle keeps the invariant. *)
LEMMA CycleKeepsWaits ==
  ASSUME IMissLatency > 0, DMissLatency > 0, IInv, CodeInv, WaitInv,
         NEW iHit \in BOOLEAN, NEW dHit \in BOOLEAN, Cycle(iHit, dHit)
  PROVE  WaitInv'
<1>1. MissTimers(iHit, dHit)
  BY DEF Cycle
<1>2. /\ instFetchMiss' => iMiss(iHit) /\ ~MissDropped(iHit, dHit)
      /\ dataFetchMiss' => dMiss(dHit)
  BY <1>1, Zenon DEF MissTimers
<1>3. ASSUME instFetchMiss'
      PROVE  /\ ~ifInst'.isNop /\ ifInst'.pc = prevICPC'
             /\ instMissStalls' + 1 < IMissLatency
  <2>1. iMiss(iHit) /\ ~illegalExc
    BY <1>2, <1>3, CycleMoves DEF MissDropped
  <2>. QED
    BY <2>1, <1>3, MissingFetch
<1>4. ASSUME dataFetchMiss'
      PROVE  prevD' = DataLookup' /\ dataMissStalls' + 1 < DMissLatency
  BY <1>2, <1>4, MissingAccess
<1>5. ASSUME remainingStallCycles' > 0
      PROVE  Real(idInst')
  <2>1. remainingStallCycles \in {0, 1}
    BY DEF IInv, TypeOK
  <2>2. remainingStallCycles = 0 /\ loadHazard /\ isBranchOrJump(idInst)
    BY <1>5, <2>1 DEF Cycle, Hazards
  <2>3. stall /\ ~illegalExc /\ Active(idInst)
    BY <2>2 DEF stall, illegalExc, isLegal, isBranchOrJump
  <2>4. Same(idInst', idInst)
    BY <2>3, CycleKeeps DEF Same
  <2>. QED
    BY <2>3, <2>4 DEF Same, CodeInv, FromCode
<1>. QED
  BY <1>3, <1>4, <1>5 DEF WaitInv

(* Sums of waits. *)
LEMMA Sums ==
  ASSUME NEW d \in Nat, NEW a \in Nat, NEW b \in Nat
  PROVE  /\ b < a => 1 + d + b < 1 + d + a /\ 2 + b < 2 + a /\ 3 + d + b < 3 + d + a
         /\ b \in 0 .. d => 2 + b < 3 + d + a
         /\ 0 < 3 + d + a
OBVIOUS

(* Unless the access in MEM misses, what is not in EX yet comes nearer.      *)
LEMMA CycleNearsEX ==
  ASSUME IMissLatency > 0, DMissLatency > 0, IInv, CodeInv, HaltInv, WaitInv,
         NEW iHit \in BOOLEAN, NEW dHit \in BOOLEAN, Cycle(iHit, dHit),
         ~dMiss(dHit), ~illegalExc, ~Real(exInst)
  PROVE  WaitForEX' < WaitForEX
<1>1. /\ IMissLatency \in Nat /\ DMissLatency \in Nat /\ remainingStallCycles \in {0, 1}
      /\ PC \in Value
  BY PipelineAssumption DEF IInv, TypeOK
<1>2. /\ FetchWait \in 0 .. IMissLatency /\ FetchWait' \in 0 .. IMissLatency
      /\ WaitForEX \in Nat /\ WaitForEX' \in Nat
  <2>1. Bounded
    BY WaitsBounded
  <2>2. Bounded'
    BY CycleKeepsIInv, CycleKeepsWaits, WaitsStayBounded
  <2>. QED
    BY <2>1, <2>2, <1>1 DEF Bounded
<1>3. /\ FromCode(idInst) /\ FromCode(exInst) /\ FromCode(memInst)
  BY DEF CodeInv
<1>4. /\ \A new, inst : Same(new, inst) /\ FromCode(inst) => (Real(new) <=> Real(inst))
      /\ \A inst : Empty(inst) => ~Real(inst)
      /\ ~Real(idInst) => ~illegalExc
      /\ ~Real(exInst) => ~loadHazard /\ ~aluBranchHazard
  BY <1>3 DEF Same, FromCode, Empty, illegalExc, loadHazard, aluBranchHazard, isLoad,
     writesREG
<1>5. /\ stall <=> remainingStallCycles > 0
      /\ remainingStallCycles' = IF stall THEN remainingStallCycles - 1 ELSE 0
  BY <1>1, <1>4 DEF stall, Cycle, Hazards
<1>6. CASE Real(idInst) /\ stall
  <2>1. Real(idInst') /\ ~Real(exInst')
    BY <1>6, <1>3, <1>4, CycleKeeps
  <2>. QED
    BY <2>1, <1>5, <1>6, <1>1 DEF WaitForEX
<1>7. CASE Real(idInst) /\ ~stall
  <2>1. Real(exInst')
    BY <1>7, <1>3, <1>4, CycleKeeps
  <2>. QED
    BY <2>1, <1>7, <1>1 DEF WaitForEX
<1>8. CASE ~Real(idInst)
  <2>1. ~stall /\ remainingStallCycles' = 0
    BY <1>5, <1>8, <1>1 DEF WaitInv
  <2>2. ~Real(exInst')
    BY <2>1, <1>8, <1>3, <1>4, CycleKeeps
  <2>3. CASE iMiss(iHit)
    <3>1. Empty(idInst')
      BY <2>1, <2>3, CycleKeeps
    <3>2. ifInst' = ifInst /\ PC' = PC /\ FetchWait' < FetchWait
      BY <2>3, MissingFetch
    <3>3. ~Real(idInst') /\ ~illegalExc'
      BY <3>1 DEF Empty, illegalExc
    <3>4. /\ WaitForEX' = IF Real(ifInst) /\ ~WrongPath THEN 2 + FetchWait'
                         ELSE 3 + IMissLatency + FetchWait'
          /\ WaitForEX = IF Real(ifInst) /\ ~WrongPath THEN 2 + FetchWait
                        ELSE 3 + IMissLatency + FetchWait
      BY <2>2, <3>2, <3>3, <1>8 DEF WaitForEX, WrongPath, Real
    <3>5. FetchWait \in Nat /\ FetchWait' \in Nat
      BY <1>2
    <3>. QED
      BY <3>2, <3>4, <3>5, <1>1, Sums, Zenon
  <2>4. CASE ~iMiss(iHit) /\ Real(ifInst) /\ ~WrongPath
    <3>1. Real(idInst')
      BY <2>1, <2>4, CycleKeeps
    <3>. QED
      BY <3>1, <2>1, <2>2, <2>4, <1>8, <1>1, <1>2 DEF WaitForEX
  <2>5. CASE ~iMiss(iHit) /\ ~(Real(ifInst) /\ ~WrongPath)
    <3>1. ~Real(ifInst) => ~Active(ifInst)
      BY DEF CodeInv, Real, Active, nop
    <3>2. ~Real(idInst')
      BY <2>1, <2>5, <3>1, <1>4, CycleKeeps
    <3>3. ~isBranchOrJump(idInst')
      <4>1. Active(idInst') => Real(idInst')
        BY CycleKeepsCode DEF CodeInv, FromCode
      <4>. QED
        BY <3>2, <4>1 DEF isBranchOrJump
    <3>4. ifInst' = simIF(code, PC)
      BY <2>1, <2>5, <3>3, CycleFetches DEF branchInId
    <3>5. Real(ifInst') /\ ~WrongPath'
      BY <3>4, <1>1, FetchedFacts DEF Real, WrongPath
    <3>6. /\ WaitForEX' \in {0, 2 + FetchWait'}
          /\ WaitForEX = 3 + IMissLatency + FetchWait
      BY <2>2, <2>5, <3>2, <3>5, <1>8 DEF WaitForEX, Real
    <3>7. FetchWait \in Nat /\ FetchWait' \in Nat
      BY <1>2
    <3>. QED
      BY <3>6, <3>7, <1>1, <1>2, Sums, Zenon
  <2>. QED
    BY <2>3, <2>4, <2>5
<1>. QED
  BY <1>6, <1>7, <1>8

(* Every cycle retires something, traps or comes nearer to one of the two.  *)
LEMMA CycleGetsNearer ==
  ASSUME IMissLatency > 0, DMissLatency > 0, IInv, CodeInv, HaltInv, WaitInv,
         NEW iHit \in BOOLEAN, NEW dHit \in BOOLEAN, Cycle(iHit, dHit)
  PROVE  Retires \/ Traps \/ Wait' < Wait
<1>1. /\ IMissLatency \in Nat /\ DMissLatency \in Nat /\ remainingStallCycles \in {0, 1}
      /\ PC \in Value
  BY PipelineAssumption DEF IInv, TypeOK
<1>2. /\ FetchWait \in 0 .. IMissLatency /\ FetchWait' \in 0 .. IMissLatency
      /\ DataWait \in 0 .. DMissLatency /\ DataWait' \in 0 .. DMissLatency
      /\ WaitForEX \in Nat /\ WaitForEX' \in Nat
  <2>1. Bounded
    BY WaitsBounded
  <2>2. Bounded'
    BY CycleKeepsIInv, CycleKeepsWaits, WaitsStayBounded
  <2>. QED
    BY <2>1, <2>2, <1>1 DEF Bounded
<1>3. /\ FromCode(idInst) /\ FromCode(exInst) /\ FromCode(memInst)
  BY DEF CodeInv
<1>4. /\ \A new, inst : Same(new, inst) /\ FromCode(inst) => (Real(new) <=> Real(inst))
      /\ \A inst : Empty(inst) => ~Real(inst)
      /\ ~Real(idInst) => ~illegalExc
      /\ ~Real(exInst) => ~loadHazard /\ ~aluBranchHazard
  BY <1>3 DEF Same, FromCode, Empty, illegalExc, loadHazard, aluBranchHazard, isLoad,
     writesREG
<1>5. CASE Real(memInst) /\ dMiss(dHit)
  <2>1. memInst' = memInst /\ DataWait' < DataWait
    BY <1>5, MissingAccess
  <2>. QED
    BY <2>1, <1>5 DEF Wait, Real
<1>6. CASE Real(memInst) /\ ~dMiss(dHit)
  <2>1. Same(wbInst', memInst)
    BY <1>6, CycleKeeps
  <2>. QED
    BY <2>1, <1>3, <1>4, <1>6 DEF Retires
<1>7. CASE ~Real(memInst)
  <2>1. ~dMiss(dHit)
    BY <1>3, <1>7, DataMissInMem DEF isLoad, isStore, FromCode
  <2>2. CASE illegalExc
    BY <2>1, <2>2, CycleMoves DEF Traps, NewID
  <2>3. CASE Real(exInst)
    <3>1. Real(memInst')
      BY <2>1, <2>3, <1>3, <1>4, CycleKeeps
    <3>. QED
      BY <3>1, <1>1, <1>2, <1>7 DEF Wait
  <2>4. CASE ~Real(exInst) /\ ~illegalExc
    <3>1. ~Real(memInst')
      BY <2>1, <2>4, <1>3, <1>4, CycleKeeps
    <3>2. WaitForEX' < WaitForEX
      BY <2>1, <2>4, CycleNearsEX
    <3>3. Wait = 1 + DMissLatency + WaitForEX
      BY <1>7 DEF Wait
    <3>4. Wait' = 1 + DMissLatency + WaitForEX'
      BY <3>1 DEF Wait, Real
    <3>. QED
      BY <3>2, <3>3, <3>4, <1>1, <1>2, Sums, Zenon
  <2>. QED
    BY <2>2, <2>3, <2>4
<1>. QED
  BY <1>5, <1>6, <1>7

(* So the invariant holds throughout. *)
LEMMA WaitsInTime ==
  ASSUME IMissLatency > 0, DMissLatency > 0
  PROVE  Init /\ [][Next]_vars => []WaitInv
<1>1. Init => WaitInv
  BY DEF Init, WaitInv
<1>2. IInv /\ CodeInv /\ WaitInv /\ [Next]_vars => WaitInv'
  <2>. SUFFICES ASSUME IInv, CodeInv, WaitInv, [Next]_vars PROVE WaitInv'
    OBVIOUS
  <2>1. ASSUME NEW iHit \in BOOLEAN, NEW dHit \in BOOLEAN, Cycle(iHit, dHit)
        PROVE  WaitInv'
    BY <2>1, CycleKeepsWaits
  <2>2. CASE UNCHANGED vars
    BY <2>2 DEF vars, stages, misses, WaitInv, DataLookup, writesMem, Real
  <2>. QED
    BY <2>1, <2>2 DEF Next, Halted
<1>. QED
  BY <1>1, <1>2, HaltsInOrder, PTL

(* The safety in "no miss, stall or squash repeats forever" (Halts), for    *)
(* every program and every outcome of the lookups: each cycle retires an    *)
(* instruction, traps, or leaves fewer cycles to the next that does, and    *)
(* there are never more than MaxWait of them.  With a latency of 0 this is  *)
(* false (PipelineZeroLatencyFreezes).                                      *)
THEOREM PipelineNeverStuck ==
  ASSUME IMissLatency > 0, DMissLatency > 0
  PROVE  Init /\ [][Next]_vars =>
           [](Wait \in 0 .. MaxWait) /\ [][Retires \/ Traps \/ Wait' < Wait]_vars
<1>1. IInv /\ WaitInv => Wait \in 0 .. MaxWait
  BY WaitsBounded DEF Bounded
<1>2. IInv /\ CodeInv /\ HaltInv /\ WaitInv /\ [Next]_vars
        => [Retires \/ Traps \/ Wait' < Wait]_vars
  <2>. SUFFICES ASSUME IInv, CodeInv, HaltInv, WaitInv, [Next]_vars, ~UNCHANGED vars
                PROVE  Retires \/ Traps \/ Wait' < Wait
    OBVIOUS
  <2>1. PICK iHit \in BOOLEAN, dHit \in BOOLEAN : Cycle(iHit, dHit)
    BY DEF Next, Halted
  <2>. QED
    BY <2>1, CycleGetsNearer
<1>. QED
  BY <1>1, <1>2, HaltsInOrder, WaitsInTime, PTL

------------------------------------------------------------------------------
(* The instructions in the pipeline are in the order in which the machine   *)
(* executes them.                                                           *)

(* What comes after an instruction, and what never has anything after it.   *)
NextOf(inst) == IF isBranchOrJump(inst) THEN inst.nextPC ELSE Plus(inst.pc, 1)
Stops(inst) == isHalt(inst) \/ ~isLegal(inst)

(* The next PC that is not yet in ID, and the next one that is not in EX.   *)
BehindID == IF Real(ifInst) /\ ~WrongPath THEN ifInst.pc ELSE PC
BehindEX == IF Real(idInst) THEN idInst.pc ELSE BehindID

(* Behind a branch in ID the next word was fetched on speculation, or the   *)
(* handler's first word once more if the branch is that word, and the PC is *)
(* the one the branch goes to, or lets the next word go on.                 *)
BranchOrder ==
  isBranchOrJump(idInst) =>
    /\ \/ ifInst.pc = Plus(idInst.pc, 1)
       \/ ifInst.pc = EXC_HANDLER /\ idInst.pc = EXC_HANDLER
    /\ \/ PC = idInst.nextPC
       \/ idInst.nextPC = Plus(idInst.pc, 1) /\ PC = Plus(Plus(idInst.pc, 1), 1)
    /\ stall => ~instFetchMiss

FetchOrder ==
  Real(ifInst) /\ ~WrongPath =>
    \/ PC = Plus(ifInst.pc, 1)
    \/ PC = ifInst.pc /\ Stops(ifInst)
    \/ PC = ifInst.pc /\ isBranchOrJump(ifInst) /\ ifInst.pc = EXC_HANDLER

OrderInv ==
  /\ Real(exInst) => isLegal(exInst)
  /\ Real(exInst) /\ ~isHalt(exInst) => BehindEX = NextOf(exInst)
  /\ Real(idInst) /\ ~Stops(idInst) /\ ~isBranchOrJump(idInst) => BehindID = Plus(idInst.pc, 1)
  /\ BranchOrder
  /\ FetchOrder

(* The handler ends the run, traps again, or begins with a branch that does *)
(* not go on to the next word: its second copy is then on a wrong path.     *)
HandlerOnce ==
  /\ simFetch(code, EXC_HANDLER).op \in {"halt", "illegal", "beq", "bne", "jal", "jalr"}
  /\ isBranchOrJump(exInst) /\ exInst.pc = EXC_HANDLER => exInst.nextPC # Plus(exInst.pc, 1)

(* No branch skips one word: the code would execute the word all the same.  *)
NoWordSkipped == isBranchOrJump(exInst) => exInst.nextPC # Plus(Plus(exInst.pc, 1), 1)

(* A word is not the next one, nor the one after that. *)
LEMMA Successors ==
  ASSUME NEW pc \in Value
  PROVE  /\ Plus(pc, 1) \in Value /\ Plus(pc, 1) # pc
         /\ (Plus(pc, 1) - 1) % WordMod = pc
<1>1. WordMod \in Nat /\ WordMod > 1 /\ pc \in 0 .. WordMod - 1
  BY SimulatorAssumption DEF Value
<1>2. CASE pc = WordMod - 1
  <2>1. Plus(pc, 1) = 0
    BY <1>1, <1>2 DEF Plus
  <2>2. (0 - 1) % WordMod = WordMod - 1
    BY <1>1
  <2>. QED
    BY <2>1, <2>2, <1>1, <1>2, Words
<1>3. CASE pc # WordMod - 1
  <2>1. Plus(pc, 1) = pc + 1
    BY <1>1, <1>3 DEF Plus
  <2>2. ((pc + 1) - 1) % WordMod = pc
    BY <1>1
  <2>. QED
    BY <2>1, <2>2, <1>1, <1>3 DEF Value
<1>. QED
  BY <1>2, <1>3

(* The instruction behind a branch in ID is the one it goes to. *)
LEMMA BranchBehind ==
  ASSUME IInv, CodeInv, BranchOrder, isBranchOrJump(idInst),
         idInst.nextPC # Plus(Plus(idInst.pc, 1), 1),
         idInst.pc = EXC_HANDLER => idInst.nextPC # Plus(idInst.pc, 1)
  PROVE  BehindID = idInst.nextPC
<1>1. /\ idInst.pc \in Value /\ PC \in Value /\ ifInst.pc \in Value /\ idInst.nextPC \in Value
      /\ WordMod \in Nat
  BY SimulatorAssumption DEF IInv, TypeOK, Instruction
<1>2. isBranchOrJump(idInst) => ifInst.status = "SPECULATIVE"
  BY Zenon DEF CodeInv
<1>3. Real(ifInst) /\ (WrongPath <=> ifInst.pc # (PC - 1) % WordMod)
  BY <1>2 DEF Real, WrongPath
<1>4. \/ ifInst.pc = Plus(idInst.pc, 1)
      \/ ifInst.pc = idInst.pc /\ idInst.nextPC # Plus(idInst.pc, 1)
  BY DEF BranchOrder
<1>5. CASE PC = idInst.nextPC
  <2>1. WrongPath
    <3>1. SUFFICES ASSUME ifInst.pc = (PC - 1) % WordMod PROVE FALSE
      BY <1>3
    <3>2. PC = Plus(ifInst.pc, 1)
      BY <1>1, <3>1, Predecessor
    <3>. QED
      BY <3>2, <1>4, <1>5
  <2>. QED
    BY <2>1, <1>5 DEF BehindID
<1>6. CASE idInst.nextPC = Plus(idInst.pc, 1) /\ PC = Plus(Plus(idInst.pc, 1), 1)
  <2>1. ifInst.pc = Plus(idInst.pc, 1)
    BY <1>4, <1>6
  <2>2. ~WrongPath
    BY <2>1, <1>1, <1>3, <1>6, Successors
  <2>. QED
    BY <2>1, <2>2, <1>3, <1>6 DEF BehindID
<1>. QED
  BY <1>5, <1>6 DEF BranchOrder

------------------------------------------------------------------------------
(* The values a cycle gives the instructions it moves.                      *)

(* An instruction that will write a register other than x0. *)
Writes(inst, r) == writesREG(inst) /\ inst.word.rd = r

(* What execution computes, and what it leaves alone. *)
LEMMA ExecutedValues ==
  ASSUME NEW inst \in Instruction, NEW new, new = simEX(inst)
  PROVE  /\ new.nextPC = inst.nextPC /\ new.op1Val = inst.op1Val /\ new.op2Val = inst.op2Val
         /\ Active(inst) /\ doesArithLogic(inst) =>
              new.arithResult = simArithLogic(inst).arithResult
         /\ Active(inst) /\ (readsMem(inst) \/ writesMem(inst)) =>
              new.memAddress = Plus(inst.op1Val, inst.word.imm)
<1>. DEFINE computed == IF doesArithLogic(inst) THEN simArithLogic(inst) ELSE inst
            addressed == IF readsMem(inst) \/ writesMem(inst)
                         THEN simAddrGen(computed) ELSE computed
<1>1. CASE PassesThrough(inst) \/ NotExecuted(inst)
  BY <1>1 DEF simEX, PassesThrough, NotExecuted, isHalt, isLegal, Active,
              doesArithLogic, readsMem, writesMem
<1>2. CASE ~(PassesThrough(inst) \/ NotExecuted(inst))
  <2>1. /\ computed \in Instruction
        /\ computed.nextPC = inst.nextPC /\ computed.word = inst.word
        /\ computed.op1Val = inst.op1Val /\ computed.op2Val = inst.op2Val
        /\ doesArithLogic(inst) => computed.arithResult = simArithLogic(inst).arithResult
    BY ArithType DEF simArithLogic, Instruction
  <2>. HIDE DEF computed
  <2>2. /\ addressed \in Instruction
        /\ addressed.nextPC = inst.nextPC
        /\ addressed.op1Val = inst.op1Val /\ addressed.op2Val = inst.op2Val
        /\ addressed.arithResult = computed.arithResult
        /\ readsMem(inst) \/ writesMem(inst) =>
             addressed.memAddress = Plus(inst.op1Val, inst.word.imm)
    BY <2>1, AddrGenType DEF simAddrGen, Instruction
  <2>3. new = [addressed EXCEPT !.status = "NORMAL"]
    BY <1>2 DEF simEX, addressed, computed
  <2>. HIDE DEF addressed
  <2>4. /\ new.nextPC = addressed.nextPC /\ new.op1Val = addressed.op1Val
        /\ new.op2Val = addressed.op2Val /\ new.arithResult = addressed.arithResult
        /\ new.memAddress = addressed.memAddress
    BY <2>2, <2>3 DEF Instruction
  <2>. QED
    BY <2>1, <2>2, <2>4
<1>. QED
  BY <1>1, <1>2

(* A bypass gives a register that is read the value on its way to it. *)
LEMMA BypassedValues ==
  ASSUME NEW inst \in Instruction, NEW from, NEW value,
         NEW new, new = Bypass(inst, from, value)
  PROVE  /\ new.nextPC = inst.nextPC
         /\ readsRs1(inst) =>
              new.op1Val = IF Writes(from, inst.word.rs1) THEN value ELSE inst.op1Val
         /\ readsRs2(inst) =>
              new.op2Val = IF Writes(from, inst.word.rs2) THEN value ELSE inst.op2Val
<1>1. CASE ~writesREG(from)
  BY <1>1 DEF Bypass, Writes
<1>2. CASE writesREG(from)
  BY <1>2 DEF Bypass, Writes, Instruction
<1>. QED
  BY <1>1, <1>2

(* The value that the instruction in ID is forwarded for register r.        *)
Forward(r, old) == IF Writes(exInst, r) THEN exInst.arithResult
                   ELSE IF Writes(memInst, r) THEN Result(memInst) ELSE old

(* EX wins over MEM, and MEM over what was read at decode. *)
LEMMA ForwardedValues ==
  ASSUME IInv
  PROVE  /\ ForwardedID.nextPC = idInst.nextPC
         /\ readsRs1(idInst) => ForwardedID.op1Val = Forward(idInst.word.rs1, idInst.op1Val)
         /\ readsRs2(idInst) => ForwardedID.op2Val = Forward(idInst.word.rs2, idInst.op2Val)
<1>. DEFINE once == Bypass(idInst, memInst, Result(memInst))
            twice == Bypass(once, exInst, exInst.arithResult)
<1>1. /\ idInst \in Operand0 /\ memInst \in Sound /\ Result(memInst) \in Value
      /\ idInst \in Instruction
  BY DEF IInv, TypeOK, Operand0, Sound, Result, Instruction
<1>2. once \in Instruction /\ once.word = idInst.word
  <2>1. once \in Operand0
    BY <1>1, Bypassed
  <2>2. Same(once, idInst)
    BY <1>1, BypassedSame
  <2>. QED
    BY <2>1, <2>2 DEF Operand0, Sound, Same
<1>3. /\ once.nextPC = idInst.nextPC
      /\ readsRs1(idInst) =>
           once.op1Val = IF Writes(memInst, idInst.word.rs1) THEN Result(memInst) ELSE idInst.op1Val
      /\ readsRs2(idInst) =>
           once.op2Val = IF Writes(memInst, idInst.word.rs2) THEN Result(memInst) ELSE idInst.op2Val
  BY <1>1, BypassedValues
<1>. HIDE DEF once
<1>4. /\ twice.nextPC = once.nextPC
      /\ readsRs1(once) =>
           twice.op1Val = IF Writes(exInst, once.word.rs1) THEN exInst.arithResult ELSE once.op1Val
      /\ readsRs2(once) =>
           twice.op2Val = IF Writes(exInst, once.word.rs2) THEN exInst.arithResult ELSE once.op2Val
  BY <1>2, BypassedValues
<1>5. ForwardedID = twice
  BY DEF ForwardedID, once
<1>6. (readsRs1(once) <=> readsRs1(idInst)) /\ (readsRs2(once) <=> readsRs2(idInst))
  BY <1>2 DEF readsRs1, readsRs2
<1>. HIDE DEF twice
<1>7. readsRs1(idInst) => ForwardedID.op1Val = Forward(idInst.word.rs1, idInst.op1Val)
  BY <1>2, <1>3, <1>4, <1>5, <1>6 DEF Forward
<1>8. readsRs2(idInst) => ForwardedID.op2Val = Forward(idInst.word.rs2, idInst.op2Val)
  BY <1>2, <1>3, <1>4, <1>5, <1>6 DEF Forward
<1>. QED
  BY <1>3, <1>4, <1>5, <1>7, <1>8

(* The next PC of a branch stays as it was decided. *)
LEMMA CycleKeepsNextPC ==
  ASSUME IInv, NEW iHit \in BOOLEAN, NEW dHit \in BOOLEAN, Cycle(iHit, dHit)
  PROVE  /\ dMiss(dHit) => idInst'.nextPC = idInst.nextPC
         /\ ~dMiss(dHit) /\ ~stall /\ ~illegalExc => exInst'.nextPC = idInst.nextPC
<1>1. exInst' = NewEX(dHit) /\ idInst' = NewID(iHit, dHit, regs')
  BY CycleMoves
<1>2. ForwardedID \in Instruction
  BY Forwarded DEF Operand0, Sound
<1>3. simEX(ForwardedID).nextPC = ForwardedID.nextPC
  BY <1>2, ExecutedValues
<1>4. ForwardedID.nextPC = idInst.nextPC
  BY ForwardedValues
<1>. QED
  BY <1>1, <1>3, <1>4 DEF NewEX, NewID

------------------------------------------------------------------------------
(* A cycle keeps the order. *)

(* The oldest instruction behind EX stays where it is or moves into EX. *)
LEMMA CycleAdvances ==
  ASSUME IInv, CodeInv, NEW iHit \in BOOLEAN, NEW dHit \in BOOLEAN, Cycle(iHit, dHit)
  PROVE  /\ dMiss(dHit) => BehindEX' = BehindEX
         /\ ~dMiss(dHit) /\ illegalExc =>
              /\ BehindEX' = EXC_HANDLER
              /\ BehindEX = idInst.pc /\ ~isLegal(simIF(code, idInst.pc))
         /\ ~dMiss(dHit) /\ ~illegalExc /\ stall => BehindEX' = BehindEX
         /\ ~dMiss(dHit) /\ ~illegalExc /\ ~stall => BehindEX' = BehindID
<1>1. /\ PC \in Value /\ EXC_HANDLER \in Value
  BY Words DEF IInv, TypeOK
<1>2. ~Real(idInst) => ~illegalExc /\ ~isBranchOrJump(idInst)
  BY DEF CodeInv, FromCode, illegalExc, isBranchOrJump
<1>3. \A new, inst : Same(new, inst) => (isBranchOrJump(new) <=> isBranchOrJump(inst))
  BY DEF Same, isBranchOrJump
<1>4. \A new, inst : Same(new, inst) /\ FromCode(inst) => (Real(new) <=> Real(inst))
  BY DEF Same, FromCode
<1>5. FromCode(idInst)
  BY DEF CodeInv
<1>6. ASSUME Same(idInst', idInst), ~illegalExc => ifInst' = ifInst,
             ~illegalExc /\ ~isBranchOrJump(idInst') => PC' = PC
      PROVE  BehindEX' = BehindEX
  <2>1. idInst'.pc = idInst.pc /\ (Real(idInst') <=> Real(idInst))
    BY <1>4, <1>5, <1>6 DEF Same
  <2>2. CASE Real(idInst)
    BY <2>1, <2>2 DEF BehindEX
  <2>3. CASE ~Real(idInst)
    <3>1. ifInst' = ifInst /\ PC' = PC
      BY <2>3, <1>2, <1>3, <1>6
    <3>. QED
      BY <2>1, <2>3, <3>1 DEF BehindEX, BehindID, WrongPath, Real
  <2>. QED
    BY <2>2, <2>3
<1>7. CASE dMiss(dHit)
  BY <1>6, <1>7, CycleKeeps, CycleFetches DEF branchInId
<1>8. CASE ~dMiss(dHit) /\ illegalExc
  <2>1. Real(idInst) /\ idInst.word = simFetch(code, idInst.pc)
    BY <1>2, <1>5, <1>8 DEF FromCode
  <2>2. ~isLegal(simIF(code, idInst.pc))
    BY <2>1, <1>8 DEF illegalExc, isLegal, simIF, nop
  <2>3. ~Real(idInst')
    BY <1>8, CycleKeeps DEF Empty
  <2>4. PC' = EXC_HANDLER /\ ifInst' = simIF(code, EXC_HANDLER)
    BY <1>8, CycleFetches
  <2>5. ifInst'.pc = EXC_HANDLER
    BY <2>4, <1>1, FetchedFacts
  <2>. QED
    BY <2>1, <2>2, <2>3, <2>4, <2>5, <1>8 DEF BehindEX, BehindID
<1>9. CASE ~dMiss(dHit) /\ ~illegalExc /\ stall
  <2>1. Same(idInst', idInst)
    BY <1>9, CycleKeeps
  <2>. QED
    BY <2>1, <1>6, <1>9, CycleFetches DEF branchInId
<1>10. CASE ~dMiss(dHit) /\ ~illegalExc /\ ~stall
  <2>. SUFFICES BehindEX' = BehindID
    BY <1>10
  <2>1. CASE Real(idInst')
    <3>1. /\ ~WrongPath /\ idInst'.pc = ifInst.pc
          /\ Real(ifInst) \/ Active(ifInst)
      BY <1>10, <2>1, CycleKeeps DEF Empty
    <3>2. Real(ifInst)
      BY <3>1 DEF CodeInv, Active, Real, nop
    <3>. QED
      BY <3>1, <3>2, <2>1 DEF BehindEX, BehindID
  <2>2. CASE ~Real(idInst')
    <3>1. ~isBranchOrJump(idInst')
      <4>1. Active(idInst') => Real(idInst')
        BY CycleKeepsCode DEF CodeInv, FromCode
      <4>. QED
        BY <2>2, <4>1 DEF isBranchOrJump
    <3>2. BehindEX' = BehindID'
      BY <2>2 DEF BehindEX
    <3>3. CASE iMiss(iHit)
      <4>1. ifInst' = ifInst /\ PC' = PC
        BY <1>10, <3>1, <3>3, CycleFetches DEF branchInId
      <4>. QED
        BY <3>2, <4>1 DEF BehindID, WrongPath, Real
    <3>4. CASE ~iMiss(iHit)
      <4>1. ifInst' = simIF(code, PC)
        BY <1>10, <3>1, <3>4, CycleFetches DEF branchInId
      <4>2. ifInst'.pc = PC /\ ifInst'.status = "NORMAL"
        BY <4>1, <1>1, FetchedFacts
      <4>3. BehindID' = PC
        BY <4>2 DEF BehindID, Real, WrongPath
      <4>4. WrongPath \/ ~Real(ifInst)
        BY <1>10, <2>2, <3>4, CycleKeeps DEF Empty
      <4>. QED
        BY <3>2, <4>3, <4>4 DEF BehindID
    <3>. QED
      BY <3>3, <3>4
  <2>. QED
    BY <2>1, <2>2
<1>. QED
  BY <1>7, <1>8, <1>9, <1>10

(* Every cycle keeps the order, but for a branch that skips one word. *)
LEMMA CycleKeepsOrder ==
  ASSUME IInv, CodeInv, OrderInv, HandlerOnce', NoWordSkipped',
         NEW iHit \in BOOLEAN, NEW dHit \in BOOLEAN, Cycle(iHit, dHit)
  PROVE  OrderInv'
<1>1. /\ PC \in Value /\ EXC_HANDLER \in Value /\ code' = code
      /\ ifInst.pc \in Value /\ idInst.pc \in Value /\ ifInst \in Instruction
  BY Words DEF Cycle, IInv, TypeOK, Instruction
<1>2. \A new, inst : Same(new, inst) =>
        /\ new.pc = inst.pc
        /\ isBranchOrJump(new) <=> isBranchOrJump(inst)
        /\ isHalt(new) <=> isHalt(inst)
        /\ isLegal(new) <=> isLegal(inst)
        /\ Stops(new) <=> Stops(inst)
  BY DEF Same, isBranchOrJump, isHalt, isLegal, Stops
<1>3. \A new, inst : Same(new, inst) /\ FromCode(inst) => (Real(new) <=> Real(inst))
  BY DEF Same, FromCode
<1>4. FromCode(idInst) /\ FromCode(exInst) /\ FromCode(idInst')
  <2>1. CodeInv'
    BY CycleKeepsCode
  <2>. QED
    BY <1>1, <2>1 DEF CodeInv, FromCode
<1>5. ~Real(idInst) => ~illegalExc /\ ~isBranchOrJump(idInst)
  BY <1>4 DEF FromCode, illegalExc, isBranchOrJump
<1>6. isBranchOrJump(idInst) => ifInst.status = "SPECULATIVE"
  BY Zenon DEF CodeInv
<1>7. illegalExc => Stops(idInst)
  BY DEF illegalExc, Stops
<1>8. isBranchOrJump(idInst) => ~illegalExc
  BY DEF isBranchOrJump, illegalExc, isLegal
<1>10. Real(exInst') => isLegal(exInst')
  <2>1. CASE dMiss(dHit)
    BY <2>1, CycleKeeps DEF OrderInv
  <2>2. CASE ~dMiss(dHit) /\ (stall \/ illegalExc)
    BY <2>2, CycleKeeps DEF Empty
  <2>3. CASE ~dMiss(dHit) /\ ~stall /\ ~illegalExc
    <3>1. Same(exInst', idInst)
      BY <2>3, CycleKeeps
    <3>2. isLegal(idInst)
      BY <2>3, <1>4 DEF illegalExc, FromCode, isLegal, isHalt
    <3>. QED
      BY <3>1, <3>2, <1>2
  <2>. QED
    BY <2>1, <2>2, <2>3
<1>11. Real(exInst') /\ ~isHalt(exInst') => BehindEX' = NextOf(exInst)'
  <2>. SUFFICES ASSUME Real(exInst'), ~isHalt(exInst')
                PROVE  BehindEX' = NextOf(exInst)'
    OBVIOUS
  <2>1. CASE dMiss(dHit)
    <3>1. exInst' = exInst
      BY <2>1, CycleKeeps
    <3>2. BehindEX = NextOf(exInst)
      BY <3>1 DEF OrderInv
    <3>3. NextOf(exInst)' = NextOf(exInst)
      BY <3>1 DEF NextOf, isBranchOrJump, Active
    <3>. QED
      BY <2>1, <3>2, <3>3, CycleAdvances
  <2>2. CASE ~dMiss(dHit) /\ (stall \/ illegalExc)
    BY <2>2, CycleKeeps DEF Empty
  <2>3. CASE ~dMiss(dHit) /\ ~stall /\ ~illegalExc
    <3>1. Same(exInst', idInst) /\ exInst'.nextPC = idInst.nextPC
      BY <2>3, CycleKeeps, CycleKeepsNextPC
    <3>2. BehindEX' = BehindID
      BY <2>3, CycleAdvances
    <3>3. Real(idInst) /\ exInst'.pc = idInst.pc
      BY <3>1, <1>2, <1>3, <1>4
    <3>4. CASE isBranchOrJump(idInst)
      <4>1. isBranchOrJump(exInst')
        BY <3>1, <3>4, <1>2
      <4>2. idInst.nextPC # Plus(Plus(idInst.pc, 1), 1)
        BY <4>1, <3>1, <3>3 DEF NoWordSkipped
      <4>3. idInst.pc = EXC_HANDLER => idInst.nextPC # Plus(idInst.pc, 1)
        BY <4>1, <3>1, <3>3 DEF HandlerOnce
      <4>4. BehindID = idInst.nextPC
        BY <4>2, <4>3, <3>4, BranchBehind DEF OrderInv
      <4>. QED
        BY <4>1, <4>4, <3>1, <3>2 DEF NextOf
    <3>5. CASE ~isBranchOrJump(idInst)
      <4>1. ~isBranchOrJump(exInst')
        BY <3>1, <3>5, <1>2
      <4>2. ~Stops(idInst)
        <5>1. Real(exInst') => isLegal(exInst')
          BY <1>10
        <5>. QED
          BY <5>1, <3>1, <1>2 DEF Stops
      <4>3. BehindID = Plus(idInst.pc, 1)
        BY <4>2, <3>3, <3>5 DEF OrderInv
      <4>. QED
        BY <4>1, <4>3, <3>2, <3>3 DEF NextOf
    <3>. QED
      BY <3>4, <3>5
  <2>. QED
    BY <2>1, <2>2, <2>3
<1>12. FetchOrder'
  <2>1. ASSUME ifInst'.status = "SPECULATIVE", ~WrongPath'
        PROVE  PC' = Plus(ifInst'.pc, 1)
    <3>1. PC' \in Value /\ ifInst'.pc \in Value
      BY CycleKeepsIInv DEF IInv, TypeOK, Instruction
    <3>. QED
      BY <2>1, <3>1, Predecessor DEF WrongPath
  <2>2. CASE ifInst' = simIF(code, EXC_HANDLER) /\ PC' = EXC_HANDLER
    <3>1. /\ ifInst'.pc = EXC_HANDLER /\ ifInst'.word = simFetch(code, EXC_HANDLER)
          /\ ~ifInst'.isNop /\ ifInst'.status = "NORMAL"
      BY <2>2, <1>1, FetchedFacts
    <3>2. ifInst'.word.op \in {"halt", "illegal", "beq", "bne", "jal", "jalr"}
      BY <3>1, <1>1 DEF HandlerOnce
    <3>. QED
      BY <2>2, <3>1, <3>2 DEF FetchOrder, Stops, isHalt, isLegal, isBranchOrJump, Active
  <2>3. CASE ifInst' = simIF(code, PC) /\ PC' = Plus(PC, 1)
    BY <2>3, <1>1, FetchedFacts DEF FetchOrder
  <2>4. CASE ifInst' = ifInst /\ PC' = PC
    BY <2>4 DEF OrderInv, FetchOrder, WrongPath, Real, Stops, isHalt, isLegal, isBranchOrJump,
           Active
  <2>5. CASE ifInst' = ifInst /\ stall /\ ~illegalExc /\ branchInId(iHit, dHit, idInst')
    <3>1. ~dMiss(dHit) /\ isBranchOrJump(idInst')
      BY <2>5 DEF branchInId
    <3>2. Same(idInst', idInst)
      BY <3>1, <2>5, CycleKeeps DEF isBranchOrJump
    <3>3. ifInst'.status = "SPECULATIVE"
      BY <3>1, <3>2, <2>5, <1>2, <1>6
    <3>. QED
      BY <3>3, <2>1 DEF FetchOrder
  <2>6. CASE ifInst' = [simIF(code, PC) EXCEPT !.status = "SPECULATIVE"]
    BY <2>1, <2>6, <1>1, FetchedFacts DEF FetchOrder
  <2>. QED
    BY <2>2, <2>3, <2>4, <2>5, <2>6, CycleFetches
<1>13. ASSUME Real(idInst'), ~Stops(idInst'), ~isBranchOrJump(idInst')
       PROVE  BehindID' = Plus(idInst'.pc, 1)
  <2>1. ASSUME Same(idInst', idInst), ifInst' = ifInst, PC' = PC
        PROVE  BehindID' = Plus(idInst'.pc, 1)
    <3>1. Real(idInst) /\ ~Stops(idInst) /\ ~isBranchOrJump(idInst) /\ idInst'.pc = idInst.pc
      BY <2>1, <1>2, <1>3, <1>4, <1>13
    <3>2. BehindID = Plus(idInst.pc, 1)
      BY <3>1 DEF OrderInv
    <3>3. BehindID' = BehindID
      BY <2>1 DEF BehindID, WrongPath, Real
    <3>. QED
      BY <3>1, <3>2, <3>3
  <2>2. CASE dMiss(dHit) /\ illegalExc
    BY <2>2, <1>2, <1>7, <1>13, CycleKeeps
  <2>3. CASE ~dMiss(dHit) /\ illegalExc
    BY <2>3, <1>13, CycleKeeps DEF Empty
  <2>4. CASE dMiss(dHit) /\ ~illegalExc
    BY <2>1, <2>4, CycleKeeps, CycleFetches DEF branchInId
  <2>5. CASE ~dMiss(dHit) /\ ~illegalExc /\ stall
    BY <2>1, <2>5, <1>13, CycleKeeps, CycleFetches DEF branchInId
  <2>6. CASE ~dMiss(dHit) /\ ~illegalExc /\ ~stall
    <3>1. /\ ~iMiss(iHit) /\ ~WrongPath
          /\ idInst'.pc = ifInst.pc /\ idInst'.word = ifInst.word
          /\ Real(ifInst) \/ Active(ifInst)
      BY <2>6, <1>13, CycleKeeps DEF Empty
    <3>2. Real(ifInst)
      BY <3>1 DEF CodeInv, Active, Real, nop
    <3>3. ~Stops(ifInst) /\ ~isBranchOrJump(ifInst)
      BY <3>1, <1>4, <1>13 DEF Stops, isHalt, isLegal, isBranchOrJump, FromCode
    <3>4. PC = Plus(ifInst.pc, 1)
      BY <3>1, <3>2, <3>3 DEF OrderInv, FetchOrder
    <3>5. ifInst' = simIF(code, PC)
      BY <2>6, <3>1, <1>13, CycleFetches DEF branchInId
    <3>6. ifInst'.pc = PC /\ ifInst'.status = "NORMAL"
      BY <3>5, <1>1, FetchedFacts
    <3>7. BehindID' = PC
      BY <3>6 DEF BehindID, Real, WrongPath
    <3>. QED
      BY <3>1, <3>4, <3>7
  <2>. QED
    BY <2>2, <2>3, <2>4, <2>5, <2>6
<1>14. BranchOrder'
  <2>. SUFFICES ASSUME isBranchOrJump(idInst')
                PROVE  /\ \/ ifInst'.pc = Plus(idInst'.pc, 1)
                          \/ ifInst'.pc = EXC_HANDLER /\ idInst'.pc = EXC_HANDLER
                       /\ \/ PC' = idInst'.nextPC
                          \/ /\ idInst'.nextPC = Plus(idInst'.pc, 1)
                             /\ PC' = Plus(Plus(idInst'.pc, 1), 1)
                       /\ stall' => ~instFetchMiss'
    BY DEF BranchOrder
  <2>0. Active(idInst') /\ Real(idInst')
    BY <1>4 DEF isBranchOrJump, FromCode
  <2>1. MissTimers(iHit, dHit) /\ instFetchMiss \in BOOLEAN
    BY DEF Cycle, IInv, TypeOK
  <2>2. ~iMiss(iHit) => ~instFetchMiss'
    BY <2>1 DEF MissTimers
  <2>3. stall /\ ~instFetchMiss => ~iMiss(iHit)
    BY DEF iMiss, iAccess
  <2>4. CASE dMiss(dHit)
    <3>1. Same(idInst', idInst) /\ exInst' = exInst /\ idInst'.nextPC = idInst.nextPC
      BY <2>4, CycleKeeps, CycleKeepsNextPC
    <3>2. isBranchOrJump(idInst) /\ ~illegalExc /\ idInst'.pc = idInst.pc
      BY <3>1, <1>2, <1>8
    <3>3. ifInst' = ifInst /\ PC' = PC
      BY <2>4, <3>2, CycleFetches DEF branchInId
    <3>4. stall' => stall
      <4>1. remainingStallCycles = 0 \/ remainingStallCycles > 0
        BY DEF IInv, TypeOK
      <4>2. ~stall => remainingStallCycles' = 0
        BY <4>1 DEF Cycle, Hazards, stall
      <4>3. loadHazard' => loadHazard
        BY <3>1 DEF loadHazard, isLoad, isStore, Active, readsMem, writesMem, readsRs1,
           readsRs2, Same
      <4>4. aluBranchHazard' => aluBranchHazard
        BY <3>1 DEF aluBranchHazard, isBranchOrJump, writesREG, writesRd, Reads, isLoad,
           Active, readsMem, readsRs1, readsRs2, Same
      <4>. QED
        BY <4>2, <4>3, <4>4 DEF stall
    <3>5. stall => ~instFetchMiss
      BY <3>2 DEF OrderInv, BranchOrder
    <3>. QED
      BY <3>1, <3>2, <3>3, <3>4, <3>5, <2>2, <2>3 DEF OrderInv, BranchOrder
  <2>5. CASE ~dMiss(dHit) /\ stall /\ ~illegalExc
    <3>1. Same(idInst', idInst) /\ ifInst' = ifInst
      BY <2>0, <2>5, CycleKeeps, CycleFetches DEF Empty
    <3>2. isBranchOrJump(idInst) /\ idInst'.pc = idInst.pc
      BY <3>1, <1>2
    <3>3. /\ ~iMiss(iHit)
          /\ \/ ifInst.pc = Plus(idInst.pc, 1)
             \/ ifInst.pc = EXC_HANDLER /\ idInst.pc = EXC_HANDLER
      BY <3>2, <2>3, <2>5 DEF OrderInv, BranchOrder
    <3>4. branchInId(iHit, dHit, idInst')
      BY <3>3, <2>5 DEF branchInId
    <3>5. PC' = IF taken(idInst') THEN idInst'.nextPC ELSE Plus(idInst'.nextPC, 1)
      BY <3>4, <2>5, CycleFetches
    <3>. QED
      BY <3>1, <3>2, <3>3, <3>5, <2>2 DEF taken
  <2>6. CASE ~dMiss(dHit) /\ ~(stall /\ ~illegalExc)
    <3>1. /\ ~stall /\ ~illegalExc /\ ~iMiss(iHit) /\ ~WrongPath
          /\ idInst'.pc = ifInst.pc /\ idInst'.word = ifInst.word
          /\ Real(ifInst) \/ Active(ifInst)
      BY <2>0, <2>6, CycleKeeps DEF Empty
    <3>2. branchInId(iHit, dHit, idInst')
      BY <3>1, <2>6 DEF branchInId
    <3>3. ifInst' = [simIF(code, PC) EXCEPT !.status = "SPECULATIVE"] /\ PC' = idInst'.nextPC
      BY <3>1, <3>2, <2>6, CycleFetches
    <3>4. ifInst'.pc = PC
      BY <3>3, <1>1, FetchedFacts
    <3>5. Real(ifInst)
      BY <3>1 DEF CodeInv, Active, Real, nop
    <3>6. ~Stops(ifInst)
      BY <3>1 DEF Stops, isHalt, isLegal, isBranchOrJump
    <3>7. PC = Plus(ifInst.pc, 1) \/ (PC = EXC_HANDLER /\ ifInst.pc = EXC_HANDLER)
      BY <3>1, <3>5, <3>6 DEF OrderInv, FetchOrder
    <3>. QED
      BY <3>1, <3>3, <3>4, <3>7, <2>2
  <2>. QED
    BY <2>4, <2>5, <2>6
<1>. QED
  BY <1>10, <1>11, <1>12, <1>13, <1>14 DEF OrderInv

------------------------------------------------------------------------------
(* The values in the pipeline are those the machine computes. *)

(* The registers once the instruction in MEM has written back. *)
RegsAhead == RegsAfter(memInst, regs)

(* In EX an instruction has the operands that the ones before it leave it,  *)
(* but for the data of a store, which MEM is about to forward; its result   *)
(* and address are computed from them.                                      *)
ValuesEX ==
  /\ readsRs1(exInst) => exInst.op1Val = ReadReg(RegsAhead, exInst.word.rs1)
  /\ readsRs2(exInst) => \/ isStore(exInst) /\ Writes(memInst, exInst.word.rs2)
                         \/ exInst.op2Val = ReadReg(RegsAhead, exInst.word.rs2)
  /\ doesArithLogic(exInst) => exInst.arithResult = simArithLogic(exInst).arithResult
  /\ readsMem(exInst) \/ writesMem(exInst) =>
       exInst.memAddress = Plus(exInst.op1Val, exInst.word.imm)

(* In ID it has them unless their producer is still in flight.              *)
InFlight(r) == Writes(memInst, r) \/ Writes(exInst, r)

ValuesID ==
  /\ readsRs1(idInst) => \/ InFlight(idInst.word.rs1)
                         \/ idInst.op1Val = ReadReg(regs, idInst.word.rs1)
  /\ readsRs2(idInst) => \/ InFlight(idInst.word.rs2)
                         \/ idInst.op2Val = ReadReg(regs, idInst.word.rs2)

(* What a register reads as after a write-back. *)
LEMMA ReadAfter ==
  ASSUME NEW inst \in Instruction, NEW file \in [Reg -> Value], NEW r \in Reg
  PROVE  ReadReg(RegsAfter(inst, file), r) =
           IF Writes(inst, r) THEN Result(inst) ELSE ReadReg(file, r)
<1>1. inst.word.rd \in Reg
  BY DEF Instruction, Word
<1>2. PassesThrough(inst) <=> ~Active(inst)
  BY DEF PassesThrough, Active
<1>. QED
  BY <1>1, <1>2 DEF RegsAfter, ReadReg, Writes, writesREG

(* What an instruction has when it enters MEM. *)
LEMMA AccessedValues ==
  ASSUME NEW inst \in Instruction, NEW m \in [Address -> Value],
         NEW new, new = simMEM(inst, m)
  PROVE  /\ new.nextPC = inst.nextPC
         /\ ~readsMem(inst) => Result(new) = inst.arithResult
         /\ Active(inst) /\ readsMem(inst) =>
              Result(new) = getMemValue(m, inst.memAddress).value
<1>. DEFINE accessed == simMemAccess(inst, m)
<1>1. CASE PassesThrough(inst) \/ NotExecuted(inst)
  BY <1>1 DEF simMEM, PassesThrough, NotExecuted, isHalt, isLegal, Active, readsMem, Result
<1>2. CASE ~(PassesThrough(inst) \/ NotExecuted(inst))
  <2>1. /\ accessed \in Instruction /\ accessed.word = inst.word
        /\ accessed.arithResult = inst.arithResult /\ accessed.nextPC = inst.nextPC
        /\ readsMem(inst) => accessed.memResult = getMemValue(m, inst.memAddress).value
    BY MemAccessType DEF simMemAccess, Instruction
  <2>2. new = [accessed EXCEPT !.status = "NORMAL"]
    BY <1>2 DEF simMEM
  <2>. HIDE DEF accessed
  <2>3. /\ new.word = inst.word /\ new.arithResult = inst.arithResult
        /\ new.memResult = accessed.memResult /\ new.nextPC = inst.nextPC
    BY <2>1, <2>2 DEF Instruction
  <2>. QED
    BY <2>1, <2>3 DEF Result, readsMem
<1>. QED
  BY <1>1, <1>2

(* The store in EX has the data that MEM forwards to it. *)
LEMMA StoreForwardedValues ==
  ASSUME IInv
  PROVE  /\ StoreForwarded.word = exInst.word
         /\ StoreForwarded.memAddress = exInst.memAddress
         /\ StoreForwarded.nextPC = exInst.nextPC
         /\ StoreForwarded.arithResult = exInst.arithResult
         /\ StoreForwarded.op2Val =
              IF isStore(exInst) /\ Writes(memInst, exInst.word.rs2)
              THEN Result(memInst) ELSE exInst.op2Val
BY DEF IInv, TypeOK, Instruction, StoreForwarded, Writes

(* A forward is what the register reads as once all before ID have written  *)
(* back, unless it comes from a load in EX, which has not read yet.         *)
LEMMA ForwardedInTime ==
  ASSUME IInv, NEW iHit \in BOOLEAN, NEW dHit \in BOOLEAN, Cycle(iHit, dHit),
         ~dMiss(dHit), NEW r \in Reg, NEW old, InFlight(r) \/ old = ReadReg(regs, r)
  PROVE  /\ ~(isLoad(exInst) /\ Writes(exInst, r)) => Forward(r, old) = ReadReg(RegsAhead', r)
         /\ ~Writes(exInst, r) => Forward(r, old) = ReadReg(regs', r)
<1>1. /\ memInst \in Instruction /\ exInst \in Instruction /\ regs \in [Reg -> Value]
      /\ memInst' \in Instruction /\ regs' \in [Reg -> Value]
      /\ mem \in [Address -> Value] /\ StoreForwarded \in Instruction
  BY Forwarded, CycleKeepsIInv DEF IInv, TypeOK, Operand0, Sound
<1>2. regs' = RegsAfter(memInst, regs)
  BY DEF Cycle, WriteBack
<1>3. ReadReg(regs', r) = IF Writes(memInst, r) THEN Result(memInst) ELSE ReadReg(regs, r)
  BY <1>1, <1>2, ReadAfter
<1>4. ReadReg(RegsAhead', r) = IF Writes(memInst', r) THEN Result(memInst') ELSE ReadReg(regs', r)
  BY <1>1, ReadAfter DEF RegsAhead
<1>5. Writes(memInst', r) <=> Writes(exInst, r)
  <2>1. Same(memInst', exInst)
    BY CycleKeeps
  <2>. QED
    BY <2>1 DEF Same, Writes, writesREG, writesRd
<1>6. ~readsMem(exInst) => Result(memInst') = exInst.arithResult
  <2>1. memInst' = simMEM(StoreForwarded, mem)
    BY CycleMoves DEF NewMEM
  <2>2. ~readsMem(StoreForwarded) => Result(memInst') = StoreForwarded.arithResult
    BY <1>1, <2>1, AccessedValues
  <2>. QED
    BY <2>2, StoreForwardedValues DEF readsMem
<1>7. Writes(exInst, r) /\ ~isLoad(exInst) => ~readsMem(exInst)
  BY DEF Writes, writesREG, isLoad
<1>. QED
  BY <1>3, <1>4, <1>5, <1>6, <1>7 DEF Forward, InFlight

(* The next PC depends on the word, its PC and the operands it reads. *)
LEMMA SameOutcome ==
  ASSUME NEW a \in Instruction, NEW b \in Instruction, a.pc = b.pc, a.word = b.word,
         readsRs1(a) => a.op1Val = b.op1Val, readsRs2(a) => a.op2Val = b.op2Val
  PROVE  simNextPCResolution(a).nextPC = simNextPCResolution(b).nextPC
<1>1. BranchTaken(a) <=> BranchTaken(b)
  BY DEF BranchTaken, readsRs1, readsRs2
<1>2. a.word.op = "jalr" => a.op1Val = b.op1Val
  BY DEF readsRs1
<1>. QED
  BY <1>1, <1>2 DEF simNextPCResolution, Instruction

(* What ID has after decoding: the registers as they are then. *)
LEMMA DecodedValues ==
  ASSUME NEW inst \in Instruction, NEW file \in [Reg -> Value],
         inst.word.op = "nop" \/ Active(inst),
         NEW new, new = simID(Confirmed(inst), file)
  PROVE  /\ readsRs1(inst) => new.op1Val = ReadReg(file, inst.word.rs1)
         /\ readsRs2(inst) => new.op2Val = ReadReg(file, inst.word.rs2)
         /\ isBranchOrJump(new) => new.nextPC = simNextPCResolution(new).nextPC
<1>. DEFINE confirmed == Confirmed(inst)
            decoded == simDecode(confirmed)
            operands == simOperandCollection(decoded, file)
            resolved == simNextPCResolution(operands)
<1>0. new.word = inst.word
  BY DecodedSame
<1>1. CASE inst.word.op = "nop"
  BY <1>0, <1>1 DEF readsRs1, readsRs2, isBranchOrJump
<1>2. CASE inst.word.op # "nop" /\ NotExecuted(inst)
  BY <1>0, <1>2 DEF NotExecuted, isHalt, isLegal, readsRs1, readsRs2, isBranchOrJump
<1>3. CASE inst.word.op # "nop" /\ ~NotExecuted(inst)
  <2>1. Active(inst)
    BY <1>3
  <2>2. confirmed \in Instruction /\ confirmed.word = inst.word /\ ~PassesThrough(confirmed)
    BY <2>1 DEF Confirmed, Active, PassesThrough, Instruction, StageStatus
  <2>3. decoded \in Instruction /\ decoded.word = inst.word
    BY <2>2, DecodeType DEF simDecode, Instruction
  <2>4. ~NotExecuted(decoded)
    BY <2>3, <1>3 DEF NotExecuted, isHalt, isLegal
  <2>. HIDE DEF confirmed
  <2>5. new = [resolved EXCEPT !.status = "NORMAL"]
    BY <2>2, <2>4 DEF simID, confirmed
  <2>. HIDE DEF decoded
  <2>6. /\ operands \in Instruction /\ operands.word = inst.word
        /\ readsRs1(inst) => operands.op1Val = ReadReg(file, inst.word.rs1)
        /\ readsRs2(inst) => operands.op2Val = ReadReg(file, inst.word.rs2)
    <3>1. operands \in Instruction
      BY <2>3, OperandsType
    <3>. QED
      BY <2>3, <3>1 DEF simOperandCollection, Instruction, readsRs1, readsRs2
  <2>. HIDE DEF operands
  <2>7. /\ resolved \in Instruction
        /\ resolved.op1Val = operands.op1Val /\ resolved.op2Val = operands.op2Val
        /\ resolved.word = operands.word /\ resolved.pc = operands.pc
        /\ resolved.nextPC = simNextPCResolution(operands).nextPC
    BY <2>6, NextPCType DEF simNextPCResolution, Instruction
  <2>. HIDE DEF resolved
  <2>8. /\ new \in Instruction
        /\ new.op1Val = resolved.op1Val /\ new.op2Val = resolved.op2Val
        /\ new.word = resolved.word /\ new.pc = resolved.pc /\ new.nextPC = resolved.nextPC
    BY <2>5, <2>7 DEF Instruction, StageStatus
  <2>9. simNextPCResolution(new).nextPC = simNextPCResolution(operands).nextPC
    BY <2>6, <2>7, <2>8, SameOutcome
  <2>. QED
    BY <2>6, <2>7, <2>8, <2>9
<1>. QED
  BY <1>1, <1>2, <1>3

(* An empty slot has no values to be right about. *)
LEMMA EmptyHasNoValues ==
  ASSUME NEW inst, inst.word.op = "nop"
  PROVE  /\ ~readsRs1(inst) /\ ~readsRs2(inst) /\ ~doesArithLogic(inst)
         /\ ~readsMem(inst) /\ ~writesMem(inst)
BY DEF readsRs1, readsRs2, doesArithLogic, readsMem, writesMem

(* Every cycle hands on the right values, stalled, frozen or moving.        *)
LEMMA CycleKeepsValues ==
  ASSUME IInv, CodeInv, ValuesEX, ValuesID,
         NEW iHit \in BOOLEAN, NEW dHit \in BOOLEAN, Cycle(iHit, dHit)
  PROVE  ValuesEX' /\ ValuesID'
<1>1. /\ exInst' = NewEX(dHit) /\ idInst' = NewID(iHit, dHit, regs')
      /\ regs' \in [Reg -> Value]
  BY CycleMoves
<1>2. /\ ForwardedID \in Instruction /\ ForwardedID.word = idInst.word
      /\ Active(ForwardedID) <=> Active(idInst)
      /\ idInst.word.rs1 \in Reg /\ idInst.word.rs2 \in Reg /\ ifInst \in Instruction
  BY Forwarded, ForwardedSame DEF Operand0, Sound, IInv, TypeOK, Instruction, Word, Same
<1>3. /\ readsRs1(idInst) => ForwardedID.op1Val = Forward(idInst.word.rs1, idInst.op1Val)
      /\ readsRs2(idInst) => ForwardedID.op2Val = Forward(idInst.word.rs2, idInst.op2Val)
  BY ForwardedValues
<1>4. CASE dMiss(dHit)
  <2>1. /\ exInst' = exInst /\ memInst' = memInst /\ regs' = regs /\ idInst' = ForwardedID
    BY <1>1, <1>4, CycleKeeps DEF NewID, Cycle, WriteBack
  <2>2. ValuesEX'
    BY <2>1 DEF ValuesEX, RegsAhead, Writes, writesREG, writesRd, isStore, writesMem,
       Active,
                readsMem, readsRs1, readsRs2, doesArithLogic
  <2>3. \A r : InFlight(r)' <=> InFlight(r)
    BY <2>1 DEF InFlight, Writes, writesREG, writesRd, Active
  <2>4. \A r, old : ~InFlight(r) => Forward(r, old) = old
    BY DEF InFlight, Forward
  <2>5. (readsRs1(idInst') <=> readsRs1(idInst)) /\ (readsRs2(idInst') <=> readsRs2(idInst))
        /\ idInst'.word = idInst.word
    BY <2>1, <1>2 DEF readsRs1, readsRs2
  <2>6. readsRs1(idInst') => \/ InFlight(idInst.word.rs1)
                             \/ idInst'.op1Val = ReadReg(regs, idInst.word.rs1)
    BY <2>1, <2>4, <2>5, <1>3 DEF ValuesID
  <2>7. readsRs2(idInst') => \/ InFlight(idInst.word.rs2)
                             \/ idInst'.op2Val = ReadReg(regs, idInst.word.rs2)
    BY <2>1, <2>4, <2>5, <1>3 DEF ValuesID
  <2>8. ValuesID'
    BY <2>1, <2>3, <2>5, <2>6, <2>7 DEF ValuesID, ReadReg
  <2>. QED
    BY <2>2, <2>8
<1>5. CASE ~dMiss(dHit) /\ (stall \/ illegalExc)
  <2>1. exInst'.word.op = "nop"
    BY <1>5, CycleKeeps DEF Empty, NopWord
  <2>2. ValuesEX'
    BY <2>1, EmptyHasNoValues DEF ValuesEX
  <2>3. CASE idInst'.word.op = "nop"
    BY <2>3, <2>2, EmptyHasNoValues DEF ValuesID
  <2>4. CASE idInst'.word.op # "nop"
    <3>1. stall /\ ~illegalExc
      BY <1>5, <2>4, CycleKeeps DEF Empty, NopWord
    <3>2. /\ idInst'.word = idInst.word
          /\ idInst'.op1Val = ForwardedID.op1Val /\ idInst'.op2Val = ForwardedID.op2Val
      BY <1>1, <1>2, <1>5, <3>1 DEF NewID, simNextPCResolution, Instruction
    <3>3. \A r : Writes(memInst', r) <=> Writes(exInst, r)
      BY <1>5, CycleKeeps DEF Same, Writes, writesREG, writesRd
    <3>4. (readsRs1(idInst') <=> readsRs1(idInst)) /\ (readsRs2(idInst') <=> readsRs2(idInst))
      BY <3>2 DEF readsRs1, readsRs2
    <3>5. readsRs1(idInst) => \/ Writes(memInst', idInst.word.rs1)
                              \/ ForwardedID.op1Val = ReadReg(regs', idInst.word.rs1)
      BY <1>2, <1>3, <1>5, <3>3, ForwardedInTime DEF ValuesID
    <3>6. readsRs2(idInst) => \/ Writes(memInst', idInst.word.rs2)
                              \/ ForwardedID.op2Val = ReadReg(regs', idInst.word.rs2)
      BY <1>2, <1>3, <1>5, <3>3, ForwardedInTime DEF ValuesID
    <3>7. ValuesID'
      BY <3>2, <3>4, <3>5, <3>6 DEF ValuesID, InFlight
    <3>. QED
      BY <2>2, <3>7
  <2>. QED
    BY <2>3, <2>4
<1>6. CASE ~dMiss(dHit) /\ ~stall /\ ~illegalExc
  <2>1. exInst' = simEX(ForwardedID)
    BY <1>1, <1>6 DEF NewEX
  <2>2. /\ exInst'.word = idInst.word /\ exInst'.pc = ForwardedID.pc
        /\ Active(exInst') <=> Active(idInst)
    BY <2>1, <1>2, ExecutedSame DEF Same
  <2>3. /\ exInst'.op1Val = ForwardedID.op1Val /\ exInst'.op2Val = ForwardedID.op2Val
        /\ Active(ForwardedID) /\ doesArithLogic(ForwardedID) =>
              exInst'.arithResult = simArithLogic(ForwardedID).arithResult
        /\ Active(ForwardedID) /\ (readsMem(ForwardedID) \/ writesMem(ForwardedID)) =>
              exInst'.memAddress = Plus(ForwardedID.op1Val, ForwardedID.word.imm)
    BY <2>1, <1>2, ExecutedValues
  <2>4. idInst.word.op = "nop" \/ Active(idInst)
    BY DEF CodeInv, FromCode
  <2>5. /\ readsRs1(exInst') <=> readsRs1(idInst)
        /\ readsRs2(exInst') <=> readsRs2(idInst)
        /\ doesArithLogic(exInst') <=> doesArithLogic(ForwardedID)
        /\ readsMem(exInst') <=> readsMem(ForwardedID)
        /\ writesMem(exInst') <=> writesMem(ForwardedID)
        /\ idInst.word.op = "nop" => ~doesArithLogic(exInst') /\ ~readsMem(exInst')
                                     /\ ~writesMem(exInst')
    BY <2>2, <1>2 DEF readsRs1, readsRs2, doesArithLogic, readsMem, writesMem
  <2>6. \A r : Writes(memInst', r) <=> Writes(exInst, r)
    BY <1>6, CycleKeeps DEF Same, Writes, writesREG, writesRd
  <2>7. ~loadHazard
    BY <1>6 DEF stall
  <2>8. readsRs1(idInst) => exInst'.op1Val = ReadReg(RegsAhead', idInst.word.rs1)
    <3>1. readsRs1(idInst) => ~(isLoad(exInst) /\ Writes(exInst, idInst.word.rs1))
      BY <2>7 DEF loadHazard, Writes, writesREG
    <3>. QED
      BY <1>2, <1>3, <1>6, <2>3, <3>1, ForwardedInTime DEF ValuesID
  <2>9. readsRs2(idInst) => \/ isStore(exInst') /\ Writes(memInst', idInst.word.rs2)
                            \/ exInst'.op2Val = ReadReg(RegsAhead', idInst.word.rs2)
    <3>1. readsRs2(idInst) /\ ~isStore(idInst) =>
            ~(isLoad(exInst) /\ Writes(exInst, idInst.word.rs2))
      BY <2>7 DEF loadHazard, Writes, writesREG
    <3>2. isStore(idInst) => isStore(exInst')
      BY <2>2 DEF isStore, writesMem
    <3>. QED
      BY <1>2, <1>3, <1>6, <2>3, <2>6, <3>1, <3>2, ForwardedInTime DEF ValuesID
  <2>10. doesArithLogic(exInst') => exInst'.arithResult = simArithLogic(exInst').arithResult
    <3>1. exInst' \in Instruction
      BY CycleKeepsIInv DEF IInv, TypeOK
    <3>2. simArithLogic(exInst').arithResult = simArithLogic(ForwardedID).arithResult
      BY <3>1, <1>2, <2>2, <2>3 DEF simArithLogic, Instruction
    <3>. QED
      BY <3>2, <1>2, <2>3, <2>4, <2>5
  <2>11. readsMem(exInst') \/ writesMem(exInst') =>
           exInst'.memAddress = Plus(exInst'.op1Val, exInst'.word.imm)
    BY <1>2, <2>2, <2>3, <2>4, <2>5
  <2>12. ValuesEX'
    BY <2>2, <2>5, <2>8, <2>9, <2>10, <2>11 DEF ValuesEX
  <2>13. ValuesID'
    <3>1. CASE idInst'.word.op = "nop"
      BY <3>1, EmptyHasNoValues DEF ValuesID
    <3>2. CASE idInst'.word.op # "nop"
      <4>1. ~iMiss(iHit) /\ ~WrongPath /\ idInst'.word = ifInst.word
        BY <1>6, <3>2, CycleKeeps DEF Empty, NopWord
      <4>2. idInst' = simID(Confirmed(ifInst), regs')
        BY <1>1, <1>6, <4>1 DEF NewID
      <4>3. ifInst.word.op = "nop" \/ Active(ifInst)
        BY DEF CodeInv, Active, nop, NopWord
      <4>4. /\ readsRs1(ifInst) => idInst'.op1Val = ReadReg(regs', ifInst.word.rs1)
            /\ readsRs2(ifInst) => idInst'.op2Val = ReadReg(regs', ifInst.word.rs2)
        BY <1>1, <1>2, <4>2, <4>3, DecodedValues
      <4>5. (readsRs1(idInst') <=> readsRs1(ifInst)) /\ (readsRs2(idInst') <=> readsRs2(ifInst))
        BY <4>1 DEF readsRs1, readsRs2
      <4>. QED
        BY <4>1, <4>4, <4>5 DEF ValuesID
    <3>. QED
      BY <3>1, <3>2
  <2>. QED
    BY <2>12, <2>13
<1>. QED
  BY <1>4, <1>5, <1>6

------------------------------------------------------------------------------
(* Each cycle is a step of the machine, or none.                            *)

(* The second way: a store behind a halt reaches MEM while the halt retires *)
(* (cycle.cpp stops the loop only after that cycle).                        *)
NoStoreBehindHalt == isHalt(wbInst) => ~isStore(memInst)

(* The machine's registers are those that MEM is about to leave behind. *)
LEMMA MachineRegsRead ==
  ASSUME IInv, ~isHalt(wbInst), NEW r \in Reg
  PROVE  MachineRegs[r] = ReadReg(RegsAhead, r)
<1>1. RegsAhead \in [Reg -> Value]
  BY RegsAfterType DEF IInv, TypeOK, RegsAhead
<1>. QED
  BY <1>1 DEF MachineRegs, RegsAhead, ReadReg

(* A cycle without a data miss leaves what MEM was about to. *)
LEMMA RegsCaughtUp ==
  ASSUME NEW iHit, NEW dHit, Cycle(iHit, dHit), ~dMiss(dHit)
  PROVE  regs' = RegsAhead
BY DEF Cycle, WriteBack, RegsAhead

(* The machine's PC is where the oldest instruction before MEM is, or traps. *)
LEMMA MachinePCVector ==
  MachinePC = IF HaltInMem THEN 0 ELSE ISA!Vector(OldestPC)
BY DEF MachinePC, ISA!Vector, ISA!At, isLegal, simIF, nop, simFetch, ZeroWord, ISA!ZeroWord

(* When the instruction in EX enters MEM, the one behind it is the oldest. *)
LEMMA OldestAdvances ==
  ASSUME IInv, CodeInv, NEW iHit \in BOOLEAN, NEW dHit \in BOOLEAN, Cycle(iHit, dHit)
  PROVE  /\ dMiss(dHit) => OldestPC' = OldestPC
         /\ ~dMiss(dHit) => ISA!Vector(OldestPC') = ISA!Vector(BehindEX)
<1>1. /\ OldestPC = IF Real(exInst) THEN exInst.pc ELSE BehindEX
      /\ OldestPC' = IF Real(exInst') THEN exInst'.pc ELSE BehindEX'
  BY DEF OldestPC, BehindEX, BehindID
<1>2. CASE dMiss(dHit)
  BY <1>1, <1>2, CycleKeeps, CycleAdvances
<1>3. CASE ~dMiss(dHit) /\ illegalExc
  <2>1. OldestPC' = EXC_HANDLER
    BY <1>1, <1>3, CycleKeeps, CycleAdvances DEF Empty
  <2>2. BehindEX = idInst.pc /\ ~isLegal(simIF(code, idInst.pc))
    BY <1>3, CycleAdvances
  <2>3. ISA!Vector(BehindEX) = EXC_HANDLER
    BY <2>2 DEF ISA!Vector, ISA!At, isLegal, simIF, nop, simFetch, ZeroWord, ISA!ZeroWord
  <2>. QED
    BY <2>1, <2>3, <1>3 DEF ISA!Vector
<1>4. CASE ~dMiss(dHit) /\ ~illegalExc /\ stall
  <2>1. OldestPC' = BehindEX
    BY <1>1, <1>4, CycleKeeps, CycleAdvances DEF Empty
  <2>. QED
    BY <2>1, <1>4
<1>5. CASE ~dMiss(dHit) /\ ~illegalExc /\ ~stall
  <2>1. Same(exInst', idInst) /\ BehindEX' = BehindID
    BY <1>5, CycleKeeps, CycleAdvances
  <2>2. Real(exInst') <=> Real(idInst)
    BY <2>1 DEF CodeInv, FromCode, Same
  <2>3. OldestPC' = BehindEX
    BY <1>1, <2>1, <2>2 DEF BehindEX, Same
  <2>. QED
    BY <2>3, <1>5
<1>. QED
  BY <1>2, <1>3, <1>4, <1>5

(* What the instruction that enters MEM does there, in terms of the values  *)
(* v1 and v2 that the registers it names read as.                           *)
LEMMA EnteredMem ==
  ASSUME IInv, CodeInv, ValuesEX, NEW iHit \in BOOLEAN, NEW dHit \in BOOLEAN,
         Cycle(iHit, dHit), ~dMiss(dHit), NEW w, w = exInst.word,
         NEW v1, v1 = ReadReg(RegsAhead, w.rs1), NEW v2, v2 = ReadReg(RegsAhead, w.rs2)
  PROVE  /\ mem' = IF w.op = "sw" THEN setMemValue(mem, Plus(v1, w.imm), v2) ELSE mem
         /\ w.op = "add" => Result(memInst') = Plus(v1, v2)
         /\ w.op = "addi" => Result(memInst') = Plus(v1, w.imm)
         /\ w.op = "lui" => Result(memInst') = w.imm
         /\ w.op \in {"jal", "jalr"} => Result(memInst') = Plus(exInst.pc, 1)
         /\ w.op = "lw" => Result(memInst') = getMemValue(mem, Plus(v1, w.imm)).value
         /\ BranchesResolved => NextOf(exInst) =
              IF w.op = "jal" THEN Plus(exInst.pc, w.imm)
              ELSE IF w.op = "jalr" THEN Plus(v1, w.imm)
              ELSE IF (w.op = "beq" /\ v1 = v2) \/ (w.op = "bne" /\ v1 # v2)
              THEN Plus(exInst.pc, w.imm) ELSE Plus(exInst.pc, 1)
<1>1. /\ exInst \in Instruction /\ memInst \in Instruction /\ StoreForwarded \in Instruction
      /\ regs \in [Reg -> Value] /\ mem \in [Address -> Value]
      /\ w.rs1 \in Reg /\ w.rs2 \in Reg
  BY Forwarded DEF IInv, TypeOK, Operand0, Sound, Instruction, Word
<1>2. w.op = "nop" \/ Active(exInst)
  BY DEF CodeInv, FromCode
<1>3. readsRs1(exInst) => exInst.op1Val = v1
  BY DEF ValuesEX
<1>4. readsRs2(exInst) /\ ~writesMem(exInst) => exInst.op2Val = v2
  BY DEF ValuesEX, isStore
<1>5. writesMem(exInst) => StoreForwarded.op2Val = v2
  <2>1. v2 = IF Writes(memInst, w.rs2) THEN Result(memInst) ELSE ReadReg(regs, w.rs2)
    BY <1>1, ReadAfter DEF RegsAhead
  <2>2. writesMem(exInst) => isStore(exInst) /\ readsRs2(exInst)
    BY <1>2 DEF isStore, writesMem, readsRs2
  <2>3. writesMem(exInst) => Writes(memInst, w.rs2) \/ exInst.op2Val = v2
    BY <2>2 DEF ValuesEX
  <2>. QED
    BY <2>1, <2>2, <2>3, StoreForwardedValues
<1>6. readsMem(exInst) \/ writesMem(exInst) => exInst.memAddress = Plus(v1, w.imm)
  BY <1>3 DEF ValuesEX, readsMem, writesMem, readsRs1
<1>7. mem' = IF w.op = "sw" THEN setMemValue(mem, Plus(v1, w.imm), v2) ELSE mem
  <2>1. mem' = MemAfter(StoreForwarded, mem)
    BY DEF Cycle, Memory
  <2>2. Active(StoreForwarded) <=> Active(exInst)
    BY ForwardedSame DEF Same
  <2>3. CASE w.op = "sw"
    <3>1. ~PassesThrough(StoreForwarded) /\ writesMem(StoreForwarded)
      BY <1>2, <2>2, <2>3, StoreForwardedValues DEF PassesThrough, Active, writesMem
    <3>. QED
      BY <2>1, <2>3, <3>1, <1>5, <1>6, StoreForwardedValues DEF MemAfter, writesMem
  <2>4. CASE w.op # "sw"
    <3>1. ~writesMem(StoreForwarded)
      BY <2>4, StoreForwardedValues DEF writesMem
    <3>. QED
      BY <2>1, <2>4, <3>1 DEF MemAfter
  <2>. QED
    BY <2>3, <2>4
<1>8. /\ ~readsMem(exInst) => Result(memInst') = exInst.arithResult
      /\ w.op = "lw" => Result(memInst') = getMemValue(mem, Plus(v1, w.imm)).value
  <2>1. memInst' = simMEM(StoreForwarded, mem)
    BY CycleMoves DEF NewMEM
  <2>2. /\ ~readsMem(StoreForwarded) => Result(memInst') = StoreForwarded.arithResult
        /\ Active(StoreForwarded) /\ readsMem(StoreForwarded) =>
             Result(memInst') = getMemValue(mem, StoreForwarded.memAddress).value
    BY <1>1, <2>1, AccessedValues
  <2>3. Active(StoreForwarded) <=> Active(exInst)
    BY ForwardedSame DEF Same
  <2>. QED
    BY <2>2, <2>3, <1>2, <1>6, StoreForwardedValues DEF readsMem
<1>9. doesArithLogic(exInst) => exInst.arithResult =
        IF w.op = "add" THEN Plus(exInst.op1Val, exInst.op2Val)
        ELSE IF w.op = "addi" THEN Plus(exInst.op1Val, w.imm)
        ELSE IF w.op = "lui" THEN w.imm ELSE Plus(exInst.pc, 1)
  BY <1>1 DEF ValuesEX, simArithLogic, Instruction
<1>10. /\ w.op = "add" => Result(memInst') = Plus(v1, v2)
       /\ w.op = "addi" => Result(memInst') = Plus(v1, w.imm)
       /\ w.op = "lui" => Result(memInst') = w.imm
       /\ w.op \in {"jal", "jalr"} => Result(memInst') = Plus(exInst.pc, 1)
  BY <1>3, <1>4, <1>8, <1>9 DEF doesArithLogic, readsMem, writesMem, readsRs1, readsRs2
<1>11. BranchesResolved => NextOf(exInst) =
         IF w.op = "jal" THEN Plus(exInst.pc, w.imm)
         ELSE IF w.op = "jalr" THEN Plus(v1, w.imm)
         ELSE IF (w.op = "beq" /\ v1 = v2) \/ (w.op = "bne" /\ v1 # v2)
         THEN Plus(exInst.pc, w.imm) ELSE Plus(exInst.pc, 1)
  <2>1. CASE w.op \in {"beq", "bne", "jal", "jalr"}
    <3>1. isBranchOrJump(exInst)
      BY <1>2, <2>1 DEF isBranchOrJump
    <3>2. simNextPCResolution(exInst).nextPC =
            IF w.op = "jalr" THEN Plus(exInst.op1Val, w.imm)
            ELSE IF w.op = "jal" \/ (w.op = "beq" /\ exInst.op1Val = exInst.op2Val)
                                 \/ (w.op = "bne" /\ exInst.op1Val # exInst.op2Val)
            THEN Plus(exInst.pc, w.imm) ELSE Plus(exInst.pc, 1)
      BY <1>1 DEF simNextPCResolution, BranchTaken, Instruction
    <3>3. /\ w.op \in {"jalr", "beq", "bne"} => exInst.op1Val = v1
          /\ w.op \in {"beq", "bne"} => exInst.op2Val = v2
      BY <1>3, <1>4 DEF readsRs1, readsRs2, writesMem
    <3>4. BranchesResolved => NextOf(exInst) = simNextPCResolution(exInst).nextPC
      BY <3>1 DEF BranchesResolved, NextOf
    <3>. QED
      BY <2>1, <3>2, <3>3, <3>4
  <2>2. CASE w.op \notin {"beq", "bne", "jal", "jalr"}
    BY <2>2 DEF NextOf, isBranchOrJump
  <2>. QED
    BY <2>1, <2>2
<1>. QED
  BY <1>7, <1>8, <1>10, <1>11

(* The instruction that enters MEM takes the machine's step for its word.   *)
LEMMA EnteringMemIsStep ==
  ASSUME IInv, CodeInv, OrderInv, ValuesEX, BranchesResolved,
         NEW iHit \in BOOLEAN, NEW dHit \in BOOLEAN, Cycle(iHit, dHit),
         ~dMiss(dHit), ~HaltInMem, Real(exInst)
  PROVE  ISA!Next
<1>. DEFINE w == exInst.word
            pc == exInst.pc
            v1 == ReadReg(RegsAhead, w.rs1)
            v2 == ReadReg(RegsAhead, w.rs2)
<1>1. /\ w \in Word /\ w.op \in Ops /\ w.rd \in Reg /\ w.rs1 \in Reg /\ w.rs2 \in Reg
      /\ w.imm \in Value /\ pc \in Value
      /\ memInst \in Instruction /\ regs \in [Reg -> Value] /\ mem \in [Address -> Value]
  BY DEF IInv, TypeOK, Instruction, Word
<1>2. w = simFetch(code, pc) /\ w.op # "illegal"
  BY DEF CodeInv, FromCode, OrderInv, isLegal
<1>3. /\ Same(wbInst', memInst) /\ Same(memInst', exInst)
      /\ regs' = RegsAhead /\ code' = code
  BY CycleKeeps, RegsCaughtUp DEF Cycle
<1>4. ~isHalt(wbInst) /\ ~isHalt(memInst) /\ ~isHalt(wbInst')
      /\ (HaltInMem' <=> w.op = "halt")
  BY <1>3 DEF HaltInMem, isHalt, Same
<1>5. MachinePC = pc
  <2>1. OldestPC = pc
    BY DEF OldestPC
  <2>2. isLegal(simIF(code, pc))
    BY <1>2 DEF isLegal, simIF, nop
  <2>. QED
    BY <2>1, <2>2 DEF MachinePC
<1>6. ISA!word = w
  BY <1>2, <1>5 DEF ISA!word, ISA!At, simFetch, ISA!ZeroWord, ZeroWord
<1>7. ISA!rs1Value = v1 /\ ISA!rs2Value = v2
  BY <1>1, <1>4, <1>6, MachineRegsRead DEF ISA!rs1Value, ISA!rs2Value
<1>8. ISA!target = Plus(pc, w.imm) /\ \A a, b : ISA!Plus(a, b) = Plus(a, b)
  BY <1>5, <1>6 DEF ISA!target, ISA!Plus, Plus
<1>9. \A r \in Reg : MachineRegs'[r] =
        IF Writes(memInst', r) THEN Result(memInst') ELSE MachineRegs[r]
  <2>1. memInst' \in Instruction /\ regs' \in [Reg -> Value] /\ IInv'
    BY CycleKeepsIInv DEF IInv, TypeOK
  <2>2. ASSUME NEW r \in Reg
        PROVE  MachineRegs'[r] = ReadReg(RegsAhead', r)
    <3>1. RegsAhead' \in [Reg -> Value]
      BY <2>1, RegsAfterType DEF RegsAhead
    <3>. QED
      BY <1>4, <3>1 DEF MachineRegs, RegsAhead, ReadReg
  <2>3. ASSUME NEW r \in Reg
        PROVE  ReadReg(RegsAhead', r) =
                 IF Writes(memInst', r) THEN Result(memInst') ELSE ReadReg(regs', r)
    BY <2>1, ReadAfter DEF RegsAhead
  <2>. QED
    BY <2>2, <2>3, <1>3, <1>4, MachineRegsRead
<1>10. MachineRegs \in [Reg -> Value] /\ MachineRegs' \in [Reg -> Value]
  <2>1. RegsAhead \in [Reg -> Value] /\ RegsAhead' \in [Reg -> Value]
    BY CycleKeepsIInv, RegsAfterType DEF IInv, TypeOK, RegsAhead
  <2>. QED
    BY <1>4, <2>1, Words DEF MachineRegs, RegsAhead
<1>11. w.op = "nop" \/ Active(exInst)
  BY DEF CodeInv, FromCode
<1>12. \A r : Writes(memInst', r) <=> writesRd(exInst) /\ w.rd # 0 /\ w.rd = r
  BY <1>3, <1>11 DEF Writes, writesREG, writesRd, Same
<1>13. writesRd(exInst) => ISA!SetReg(w.rd, Result(memInst'))
  BY <1>1, <1>9, <1>10, <1>12 DEF ISA!SetReg
<1>14. ~writesRd(exInst) => MachineRegs' = MachineRegs
  BY <1>9, <1>10, <1>12
<1>15. w.op # "halt" => ISA!GoTo(NextOf(exInst))
  <2>. SUFFICES ASSUME w.op # "halt" PROVE ISA!GoTo(NextOf(exInst))
    OBVIOUS
  <2>1. BehindEX = NextOf(exInst)
    BY DEF OrderInv, isHalt
  <2>2. HaltInMem = FALSE /\ HaltInMem' = FALSE
    BY <1>4 DEF HaltInMem, isHalt
  <2>3. MachinePC' = ISA!Vector(OldestPC')
    BY <2>2, <1>3 DEF MachinePC, ISA!Vector, ISA!At, isLegal, simIF, nop, simFetch,
                      ZeroWord, ISA!ZeroWord
  <2>4. ISA!Vector(OldestPC') = ISA!Vector(NextOf(exInst))
    BY <2>1, OldestAdvances
  <2>. QED
    BY <2>2, <2>3, <2>4, <1>3 DEF ISA!GoTo
<1>16. /\ mem' = IF w.op = "sw" THEN setMemValue(mem, Plus(v1, w.imm), v2) ELSE mem
       /\ w.op = "add" => Result(memInst') = Plus(v1, v2)
       /\ w.op = "addi" => Result(memInst') = Plus(v1, w.imm)
       /\ w.op = "lui" => Result(memInst') = w.imm
       /\ w.op \in {"jal", "jalr"} => Result(memInst') = Plus(pc, 1)
       /\ w.op = "lw" => Result(memInst') = getMemValue(mem, Plus(v1, w.imm)).value
       /\ NextOf(exInst) =
            IF w.op = "jal" THEN Plus(pc, w.imm)
            ELSE IF w.op = "jalr" THEN Plus(v1, w.imm)
            ELSE IF (w.op = "beq" /\ v1 = v2) \/ (w.op = "bne" /\ v1 # v2)
            THEN Plus(pc, w.imm) ELSE Plus(pc, 1)
  BY EnteredMem
<1>17. writesRd(exInst) <=> w.op \in {"add", "addi", "lui", "jal", "jalr", "lw"}
  BY DEF writesRd
<1>. HIDE DEF w, pc, v1, v2
<1>20. CASE w.op = "nop"
  BY <1>4, <1>5, <1>6, <1>8, <1>14, <1>15, <1>16, <1>17, <1>20 DEF ISA!Next, ISA!Nop
<1>21. CASE w.op \in {"add", "addi", "lui"}
  BY <1>4, <1>5, <1>6, <1>7, <1>8, <1>13, <1>15, <1>16, <1>17, <1>21
     DEF ISA!Next, ISA!Arithmetic
<1>22. CASE w.op = "lw"
  <2>1. Result(memInst') = IF Plus(v1, w.imm) \in ISA!Address THEN mem[Plus(v1, w.imm)] ELSE 0
    BY <1>16, <1>22 DEF getMemValue, ISA!Address, Address
  <2>2. ISA!SetReg(w.rd, Result(memInst')) /\ ISA!GoTo(Plus(pc, 1)) /\ mem' = mem
    BY <1>13, <1>15, <1>16, <1>17, <1>22
  <2>. QED
    BY <2>1, <2>2, <1>5, <1>6, <1>7, <1>8, <1>22 DEF ISA!Next, ISA!Load
<1>23. CASE w.op = "sw"
  <2>1. mem' = IF Plus(v1, w.imm) \in ISA!Address
               THEN [mem EXCEPT ![Plus(v1, w.imm)] = v2] ELSE mem
    BY <1>16, <1>23 DEF setMemValue, ISA!Address, Address
  <2>2. ISA!GoTo(Plus(pc, 1)) /\ MachineRegs' = MachineRegs
    BY <1>14, <1>15, <1>16, <1>17, <1>23
  <2>. QED
    BY <2>1, <2>2, <1>5, <1>6, <1>7, <1>8, <1>23 DEF ISA!Next, ISA!Store
<1>24. CASE w.op \in {"beq", "bne"}
  <2>1. MachineRegs' = MachineRegs /\ mem' = mem
    BY <1>14, <1>16, <1>17, <1>24
  <2>2. /\ w.op = "beq" => ISA!GoTo(IF v1 = v2 THEN Plus(pc, w.imm) ELSE Plus(pc, 1))
        /\ w.op = "bne" => ISA!GoTo(IF v1 # v2 THEN Plus(pc, w.imm) ELSE Plus(pc, 1))
    BY <1>15, <1>16, <1>24
  <2>. QED
    BY <2>1, <2>2, <1>5, <1>6, <1>7, <1>8, <1>24 DEF ISA!Next, ISA!Branch
<1>25. CASE w.op \in {"jal", "jalr"}
  <2>1. ISA!SetReg(w.rd, Plus(pc, 1)) /\ mem' = mem
    BY <1>13, <1>16, <1>17, <1>25
  <2>2. /\ w.op = "jal" => ISA!GoTo(Plus(pc, w.imm))
        /\ w.op = "jalr" => ISA!GoTo(Plus(v1, w.imm))
    BY <1>15, <1>16, <1>25
  <2>. QED
    BY <2>1, <2>2, <1>5, <1>6, <1>7, <1>8, <1>25 DEF ISA!Next, ISA!Jump
<1>26. CASE w.op = "halt"
  <2>1. MachinePC' = 0
    BY <1>4, <1>26 DEF MachinePC
  <2>2. MachineRegs' = MachineRegs /\ mem' = mem
    BY <1>14, <1>16, <1>17, <1>26
  <2>3. HaltInMem' = TRUE
    BY <1>4, <1>26 DEF HaltInMem, isHalt
  <2>. QED
    BY <2>1, <2>2, <2>3, <1>3, <1>6, <1>26 DEF ISA!Next, ISA!Halt
<1>. QED
  BY <1>1, <1>2, <1>20, <1>21, <1>22, <1>23, <1>24, <1>25, <1>26 DEF Ops

(* A cycle executes one instruction of the machine, or none: then nothing   *)
(* changes, but for the store that may escape behind a halt.                *)
Idles == UNCHANGED <<code, MachinePC, MachineRegs, HaltInMem>>

(* What enters MEM in a cycle is what the machine executes next.            *)
LEMMA CycleIsStep ==
  ASSUME IInv, CodeInv, HaltInv, OrderInv, ValuesEX, BranchesResolved,
         NEW iHit \in BOOLEAN, NEW dHit \in BOOLEAN, Cycle(iHit, dHit)
  PROVE  \/ ~HaltInMem /\ ISA!Next
         \/ Idles /\ mem' = mem
         \/ Idles /\ HaltInMem /\ isHalt(wbInst') /\ isStore(memInst')
<1>1. code' = code /\ ~isHalt(wbInst)
  BY DEF Cycle, HaltInv
<1>2. ASSUME regs' = RegsAhead \/ (regs' = regs /\ memInst' = memInst),
             regs' = RegsAhead => ~Active(memInst') \/ isHalt(wbInst'),
             ~isHalt(wbInst') \/ regs' = RegsAhead
      PROVE  MachineRegs' = MachineRegs
  <2>1. CASE regs' = RegsAhead
    <3>1. RegsAfter(memInst', regs') = regs' \/ isHalt(wbInst')
      BY <1>2, <2>1 DEF RegsAfter, PassesThrough, Active
    <3>. QED
      BY <1>1, <2>1, <3>1 DEF MachineRegs, RegsAhead
  <2>2. CASE regs' # RegsAhead
    BY <1>1, <1>2, <2>2 DEF MachineRegs, RegsAhead
  <2>. QED
    BY <2>1, <2>2
<1>3. CASE dMiss(dHit)
  <2>1. /\ wbInst' = nop("BUBBLE") /\ memInst' = memInst /\ regs' = regs /\ mem' = mem
    BY <1>3, CycleKeeps DEF Cycle, WriteBack, Memory
  <2>2. ~isHalt(memInst) /\ ~isHalt(memInst') /\ ~isHalt(wbInst')
    <3>1. isLoad(memInst) \/ isStore(memInst)
      BY <1>3, DataMissInMem
    <3>. QED
      BY <2>1, <3>1 DEF isLoad, isStore, readsMem, writesMem, isHalt, nop, NopWord
  <2>3. HaltInMem = FALSE /\ HaltInMem' = FALSE
    BY <1>1, <2>2 DEF HaltInMem, isHalt
  <2>4. MachinePC' = MachinePC
    <3>1. OldestPC' = OldestPC
      BY <1>3, OldestAdvances
    <3>. QED
      BY <1>1, <2>3, <3>1 DEF MachinePC, isLegal, simIF, nop, simFetch
  <2>5. MachineRegs' = MachineRegs
    BY <1>1, <2>1, <2>2 DEF MachineRegs
  <2>. QED
    BY <1>1, <2>1, <2>3, <2>4, <2>5 DEF Idles
<1>4. CASE ~dMiss(dHit) /\ isHalt(memInst)
  <2>1. Same(wbInst', memInst) /\ Same(memInst', exInst) /\ regs' = RegsAhead
    BY <1>4, CycleKeeps, RegsCaughtUp
  <2>2. isHalt(wbInst')
    BY <1>4, <2>1 DEF Same, isHalt
  <2>3. HaltInMem = TRUE /\ HaltInMem' = TRUE
    BY <1>4, <2>2 DEF HaltInMem, isHalt
  <2>4. MachinePC' = MachinePC
    BY <2>3 DEF MachinePC
  <2>5. MachineRegs' = MachineRegs
    BY <1>2, <2>1, <2>2
  <2>6. ASSUME ~isStore(memInst') PROVE mem' = mem
    <3>2. ~isStore(exInst)
      BY <2>1, <2>6 DEF Same, isStore, writesMem
    <3>3. Same(StoreForwarded, exInst)
      BY ForwardedSame
    <3>4. PassesThrough(StoreForwarded) \/ ~writesMem(StoreForwarded)
      BY <3>2, <3>3 DEF Same, isStore, writesMem, PassesThrough, Active
    <3>. QED
      BY <1>4, <3>4 DEF Cycle, Memory, MemAfter
  <2>. QED
    BY <1>1, <2>2, <2>3, <2>4, <2>5, <2>6 DEF Idles
<1>5. CASE ~dMiss(dHit) /\ ~isHalt(memInst) /\ Real(exInst)
  BY <1>1, <1>5, EnteringMemIsStep DEF HaltInMem
<1>6. CASE ~dMiss(dHit) /\ ~isHalt(memInst) /\ ~Real(exInst)
  <2>1. /\ Same(wbInst', memInst) /\ Same(memInst', exInst) /\ regs' = RegsAhead
    BY <1>6, CycleKeeps, RegsCaughtUp
  <2>2. ~Active(exInst) /\ exInst.word.op = "nop"
    BY <1>6 DEF CodeInv, FromCode
  <2>3. ~Active(memInst') /\ ~isHalt(memInst') /\ ~isHalt(wbInst')
    BY <1>6, <2>1, <2>2 DEF Same, isHalt
  <2>4. HaltInMem = FALSE /\ HaltInMem' = FALSE
    BY <1>1, <1>6, <2>3 DEF HaltInMem, isHalt
  <2>5. MachinePC' = MachinePC
    <3>1. ISA!Vector(OldestPC') = ISA!Vector(OldestPC)
      BY <1>6, OldestAdvances DEF OldestPC, BehindEX, BehindID
    <3>2. MachinePC' = ISA!Vector(OldestPC')
      BY <1>1, <2>4 DEF MachinePC, ISA!Vector, ISA!At, isLegal, simIF, nop, simFetch,
                        ZeroWord, ISA!ZeroWord
    <3>. QED
      BY <2>4, <3>1, <3>2, MachinePCVector
  <2>6. MachineRegs' = MachineRegs
    BY <1>2, <2>1, <2>3
  <2>7. mem' = mem
    <3>1. PassesThrough(StoreForwarded)
      BY <2>2, ForwardedSame DEF Same, PassesThrough, Active
    <3>. QED
      BY <1>6, <3>1 DEF Cycle, Memory, MemAfter
  <2>. QED
    BY <1>1, <2>4, <2>5, <2>6, <2>7 DEF Idles
<1>. QED
  BY <1>3, <1>4, <1>5, <1>6

(* The pipeline starts where the machine does. *)
LEMMA InitIsMachineInit == Init => ISA!Init
<1>. SUFFICES ASSUME Init PROVE ISA!Init
  OBVIOUS
<1>1. /\ ~Real(nop("IDLE")) /\ ~isHalt(nop("IDLE")) /\ PassesThrough(nop("IDLE"))
  BY DEF Real, isHalt, PassesThrough, nop, NopWord
<1>2. OldestPC = 0 /\ HaltInMem = FALSE
  BY <1>1 DEF Init, OldestPC, HaltInMem, isHalt
<1>3. MachinePC = ISA!Vector(0)
  BY <1>2, MachinePCVector
<1>4. MachineRegs = [r \in Reg |-> 0]
  BY <1>1 DEF Init, MachineRegs, RegsAfter
<1>. QED
  BY <1>2, <1>3, <1>4 DEF Init, ISA!Init, ISA!Reg, Reg

(* The code departs from the machine in four ways: the first word of a      *)
(* handler is executed twice, a branch is decided on late operands,         *)
(* a branch skips one word, which is executed, and a store right behind a   *)
(* halt still stores.  NoDeparture says that a run takes none of them.      *)
FlowKept == HandlerOnce /\ BranchesResolved /\ NoWordSkipped
NoDeparture == FlowKept /\ NoStoreBehindHalt

FlowInv == OrderInv /\ ValuesEX /\ ValuesID

(* Before the first fetch there is nothing to be in order. *)
LEMMA InitFlows == Init => FlowInv
<1>. SUFFICES ASSUME Init PROVE FlowInv
  OBVIOUS
<1>1. /\ ~Real(nop("IDLE")) /\ ~isBranchOrJump(nop("IDLE")) /\ nop("IDLE").word.op = "nop"
  BY DEF Real, isBranchOrJump, Active, nop, NopWord
<1>2. OrderInv
  BY <1>1 DEF Init, OrderInv, BranchOrder, FetchOrder
<1>3. ValuesEX /\ ValuesID
  BY <1>1, EmptyHasNoValues DEF Init, ValuesEX, ValuesID
<1>. QED
  BY <1>2, <1>3 DEF FlowInv

(* Every step keeps the flow until it departs.                              *)
LEMMA StepFlows ==
  ASSUME IInv, CodeInv, FlowInv, FlowKept, FlowKept', [Next]_vars
  PROVE  FlowInv'
<1>1. ASSUME NEW iHit \in BOOLEAN, NEW dHit \in BOOLEAN, Cycle(iHit, dHit)
      PROVE  FlowInv'
  BY <1>1, CycleKeepsOrder, CycleKeepsValues DEF FlowInv, FlowKept
<1>2. CASE UNCHANGED vars
  <2>1. OrderInv'
    BY <1>2 DEF vars, stages, misses, FlowInv, OrderInv, BranchOrder, FetchOrder, BehindEX,
           BehindID, NextOf, Stops, WrongPath, isBranchOrJump, stall, loadHazard,
           aluBranchHazard, Real, isHalt, isLegal
  <2>2. ValuesEX' /\ ValuesID'
    BY <1>2 DEF vars, stages, misses, FlowInv, ValuesEX, ValuesID, RegsAhead, InFlight,
       Writes
  <2>. QED
    BY <2>1, <2>2 DEF FlowInv
<1>. QED
  BY <1>1, <1>2 DEF Next, Halted

(* So a run that never departs keeps it throughout.                         *)
LEMMA KeptFlows == Init /\ [][Next]_vars /\ []FlowKept => []FlowInv
<1>1. Init => FlowInv
  BY InitFlows
<1>2. IInv /\ CodeInv /\ FlowInv /\ FlowKept /\ FlowKept' /\ [Next]_vars => FlowInv'
  BY StepFlows
<1>. QED
  BY <1>1, <1>2, HaltsInOrder, PTL

(* And it is a step of the machine, if no store is behind a halt. *)
LEMMA StepIsMachineStep ==
  ASSUME IInv, CodeInv, HaltInv, FlowInv, FlowKept, NoStoreBehindHalt', [Next]_vars
  PROVE  [ISA!Next]_ISA!vars
<1>1. ASSUME NEW iHit \in BOOLEAN, NEW dHit \in BOOLEAN, Cycle(iHit, dHit)
      PROVE  [ISA!Next]_ISA!vars
  <2>1. \/ ~HaltInMem /\ ISA!Next
        \/ Idles /\ mem' = mem
        \/ Idles /\ HaltInMem /\ isHalt(wbInst') /\ isStore(memInst')
    BY <1>1, CycleIsStep DEF FlowInv, FlowKept
  <2>. QED
    BY <2>1 DEF NoStoreBehindHalt, Idles, ISA!vars
<1>2. CASE UNCHANGED vars
  BY <1>2 DEF vars, stages, misses, ISA!vars, MachinePC, MachineRegs, HaltInMem, OldestPC,
       WrongPath
<1>. QED
  BY <1>1, <1>2 DEF Next, Halted

(* As long as no run departs in one of the four ways, the pipeline does     *)
(* what the machine does, whatever the program, the hazards and the misses. *)
THEOREM PipelineImplementsMachine == Spec /\ []NoDeparture => ImplementsMachine
<1>1. Init => ISA!Init
  BY InitIsMachineInit
<1>2. IInv /\ CodeInv /\ HaltInv /\ FlowInv /\ FlowKept /\ NoStoreBehindHalt' /\ [Next]_vars
        => [ISA!Next]_ISA!vars
  BY StepIsMachineStep
<1>3. NoDeparture => FlowKept /\ NoStoreBehindHalt
  BY DEF NoDeparture
<1>. QED
  BY <1>1, <1>2, <1>3, HaltsInOrder, KeptFlows, PTL DEF Spec, ImplementsMachine, ISA!Spec

(* The refinement does not stall either.  The cycles until an instruction   *)
(* is in EX and MEM takes it, and the most of them.                         *)
Lag    == DataWait + WaitForEX
MaxLag == DMissLatency + 2 * IMissLatency + 3

(* The sum of two waits, the one shorter and the other no longer. *)
LEMMA ShorterSum ==
  ASSUME NEW d \in Nat, NEW e \in Nat, NEW a \in Nat, NEW b \in Nat
  PROVE  /\ e < d /\ (b < a \/ b = a) => e + b < d + a
         /\ e = d /\ b < a => e + b < d + a
         /\ e = 0 /\ b < a => e + b < d + a
OBVIOUS

(* A data miss freezes what is behind MEM; what is in IF waits on alone.    *)
LEMMA FreezeKeepsEX ==
  ASSUME IMissLatency > 0, DMissLatency > 0, IInv, CodeInv, WaitInv,
         NEW iHit \in BOOLEAN, NEW dHit \in BOOLEAN, Cycle(iHit, dHit), dMiss(dHit)
  PROVE  WaitForEX' < WaitForEX \/ WaitForEX' = WaitForEX
<1>1. /\ IMissLatency \in Nat /\ remainingStallCycles \in {0, 1}
  BY PipelineAssumption DEF IInv, TypeOK
<1>2. FetchWait \in Nat /\ FetchWait' \in Nat
  <2>1. Bounded
    BY WaitsBounded
  <2>2. Bounded'
    BY CycleKeepsIInv, CycleKeepsWaits, WaitsStayBounded
  <2>. QED
    BY <2>1, <2>2, <1>1 DEF Bounded
<1>3. /\ exInst' = exInst
      /\ Real(idInst') <=> Real(idInst)
      /\ illegalExc' <=> illegalExc
  <2>1. exInst' = exInst /\ Same(idInst', idInst)
    BY CycleKeeps
  <2>2. Real(idInst') <=> Real(idInst)
    BY <2>1 DEF Same, CodeInv, FromCode
  <2>3. illegalExc' <=> illegalExc
    BY <2>1 DEF Same, illegalExc, isLegal, isHalt
  <2>. QED
    BY <2>1, <2>2, <2>3
<1>4. CASE Real(exInst) \/ illegalExc
  BY <1>3, <1>4 DEF WaitForEX, Real
<1>5. CASE ~Real(exInst) /\ ~illegalExc /\ Real(idInst)
  <2>1. ~loadHazard
    BY <1>5 DEF loadHazard, isLoad, Active, CodeInv, FromCode
  <2>2. remainingStallCycles' \in {0, 1} /\ remainingStallCycles' =< remainingStallCycles
    BY <2>1, <1>1 DEF Cycle, Hazards
  <2>. QED
    BY <2>2, <1>1, <1>3, <1>5 DEF WaitForEX, Real
<1>6. CASE ~Real(exInst) /\ ~illegalExc /\ ~Real(idInst)
  <2>1. ifInst' = ifInst /\ PC' = PC
    BY <1>6, CycleFetches DEF branchInId
  <2>2. FetchWait' < FetchWait \/ FetchWait' = FetchWait
    <3>1. CASE iMiss(iHit)
      BY <3>1, <1>6, MissingFetch
    <3>2. CASE ~iMiss(iHit)
      <4>1. MissTimers(iHit, dHit)
        BY DEF Cycle
      <4>2. ~instFetchMiss' /\ ~instFetchMiss
        BY <4>1, <3>2, Zenon DEF MissTimers, iMiss
      <4>3. prevICPC' \in {ifInst.pc, prevICPC}
        BY DEF Cycle, Lookups
      <4>. QED
        BY <4>2, <4>3, <2>1, <1>1 DEF FetchWait
    <3>. QED
      BY <3>1, <3>2
  <2>3. /\ WaitForEX' = IF Real(ifInst) /\ ~WrongPath THEN 2 + FetchWait'
                        ELSE 3 + IMissLatency + FetchWait'
        /\ WaitForEX = IF Real(ifInst) /\ ~WrongPath THEN 2 + FetchWait
                       ELSE 3 + IMissLatency + FetchWait
    BY <2>1, <1>3, <1>6 DEF WaitForEX, WrongPath, Real
  <2>. QED
    BY <2>2, <2>3, <1>1, <1>2, Sums, Zenon
<1>. QED
  BY <1>4, <1>5, <1>6

(* Every cycle brings the machine's next step, a trap or the end nearer.    *)
LEMMA CycleKeepsPace ==
  ASSUME IMissLatency > 0, DMissLatency > 0, IInv, CodeInv, HaltInv, WaitInv,
         FlowInv, FlowKept,
         NEW iHit \in BOOLEAN, NEW dHit \in BOOLEAN, Cycle(iHit, dHit)
  PROVE  HaltInMem \/ ISA!Next \/ Traps \/ Lag' < Lag
<1>1. /\ DataWait \in Nat /\ DataWait' \in Nat
      /\ WaitForEX \in Nat /\ WaitForEX' \in Nat
  <2>1. Bounded
    BY WaitsBounded
  <2>2. Bounded'
    BY CycleKeepsIInv, CycleKeepsWaits, WaitsStayBounded
  <2>. QED
    BY <2>1, <2>2, PipelineAssumption DEF Bounded
<1>2. /\ Lag = DataWait + WaitForEX
      /\ Lag' = DataWait' + WaitForEX'
  BY DEF Lag
<1>3. CASE dMiss(dHit)
  <2>1. DataWait' < DataWait
    BY <1>3, MissingAccess
  <2>2. WaitForEX' < WaitForEX \/ WaitForEX' = WaitForEX
    BY <1>3, FreezeKeepsEX
  <2>. QED
    BY <2>1, <2>2, <1>1, <1>2, ShorterSum, Zenon
<1>4. CASE ~dMiss(dHit) /\ Real(exInst)
  BY <1>4, EnteringMemIsStep DEF FlowInv, FlowKept
<1>5. CASE ~dMiss(dHit) /\ illegalExc
  BY <1>5, CycleMoves DEF Traps, NewID
<1>6. CASE ~dMiss(dHit) /\ ~illegalExc /\ ~Real(exInst)
  <2>1. WaitForEX' < WaitForEX
    BY <1>6, CycleNearsEX
  <2>2. ~dataFetchMiss'
    <3>1. MissTimers(iHit, dHit)
      BY DEF Cycle
    <3>. QED
      BY <3>1, <1>6, Zenon DEF MissTimers
  <2>3. ~isLoad(memInst') /\ ~isStore(memInst')
    BY <1>6, CycleKeeps DEF Same, CodeInv, FromCode, isLoad, isStore
  <2>4. DataWait' = 0
    BY <2>2, <2>3 DEF DataWait
  <2>. QED
    BY <2>1, <2>4, <1>1, <1>2, ShorterSum, Zenon
<1>. QED
  BY <1>3, <1>4, <1>5, <1>6

(* The safety in the fairness of ISA!Spec: until the halt, and as long as   *)
(* nothing departs, each cycle takes a step of the machine, traps, or       *)
(* leaves fewer cycles to the next that does, and there are never more than *)
(* MaxLag of them.                                                          *)
THEOREM PipelineKeepsPace ==
  ASSUME IMissLatency > 0, DMissLatency > 0
  PROVE  Init /\ [][Next]_vars /\ []FlowKept =>
           [](Lag \in 0 .. MaxLag) /\ [][HaltInMem \/ ISA!Next \/ Traps \/ Lag' < Lag]_vars
<1>1. IInv /\ WaitInv => Lag \in 0 .. MaxLag
  BY WaitsBounded, PipelineAssumption DEF Bounded, Lag, MaxLag
<1>2. IInv /\ CodeInv /\ HaltInv /\ WaitInv /\ FlowInv /\ FlowKept /\ [Next]_vars
        => [HaltInMem \/ ISA!Next \/ Traps \/ Lag' < Lag]_vars
  <2>. SUFFICES ASSUME IInv, CodeInv, HaltInv, WaitInv, FlowInv, FlowKept, [Next]_vars,
                       ~UNCHANGED vars
                PROVE  HaltInMem \/ ISA!Next \/ Traps \/ Lag' < Lag
    OBVIOUS
  <2>1. PICK iHit \in BOOLEAN, dHit \in BOOLEAN : Cycle(iHit, dHit)
    BY DEF Next, Halted
  <2>. QED
    BY <2>1, CycleKeepsPace
<1>. QED
  BY <1>1, <1>2, HaltsInOrder, WaitsInTime, KeptFlows, PTL

------------------------------------------------------------------------------
(* Programs that take none of the departures, whatever the caches answer.   *)

WordAt(p) == simFetch(code, p)

(* The PCs that may come after p, in the order of execution or on the wrong *)
(* path behind it; behind a jalr that is any.                               *)
After(p) == {Plus(p, 1)} \cup
  (IF WordAt(p).op \in {"beq", "bne", "jal"} THEN {Plus(p, WordAt(p).imm)}
   ELSE IF WordAt(p).op = "jalr" THEN Value ELSE {})

(* The registers that tell where a branch goes. *)
ReadBy(branch) == IF branch.op = "jalr" THEN {branch.rs1} ELSE {branch.rs1, branch.rs2}

(* No branch reads a register that one of the two words before it writes.   *)
Feeds(producer, branch) ==
  /\ producer.op \in {"add", "addi", "lui", "jal", "jalr", "lw"}
  /\ branch.op \in {"beq", "bne", "jalr"}
  /\ producer.rd # 0 /\ producer.rd \in ReadBy(branch)

FeedsNoBranch(p) ==
  \A q \in After(p) :
    /\ ~Feeds(WordAt(p), WordAt(q))
    /\ \A s \in After(q) : ~Feeds(WordAt(p), WordAt(s))

(* The text has no branch over one word, and a handler that stops or begins *)
(* with a jump elsewhere.                                                   *)
PlainText ==
  /\ \/ WordAt(EXC_HANDLER).op \in {"halt", "illegal"}
     \/ /\ WordAt(EXC_HANDLER).op = "jal"
        /\ Plus(EXC_HANDLER, WordAt(EXC_HANDLER).imm) # Plus(EXC_HANDLER, 1)
  /\ \A p \in Value :
       WordAt(p).op \in {"beq", "bne", "jal"} =>
         Plus(p, WordAt(p).imm) # Plus(Plus(p, 1), 1)

(* Where a jalr goes is not in the text: it goes over one word neither.     *)
RegisterJumpsFar ==
  isBranchOrJump(exInst) /\ exInst.word.op = "jalr" =>
    exInst.nextPC # Plus(Plus(exInst.pc, 1), 1)

(* And the operands of every branch are written three words before it or    *)
(* earlier.                                                                 *)
Settled == PlainText /\ \A p \in Value : FeedsNoBranch(p)

(* No store is right behind a halt.                                         *)
HaltsQuietly == \A p \in Value : WordAt(p).op = "halt" => WordAt(Plus(p, 1)).op # "sw"

(* A branch goes where its operands say, which is where the text says; and  *)
(* EX or ID holds what comes after the instruction in MEM.                  *)
OnPath(inst)  == isBranchOrJump(inst) => inst.nextPC \in After(inst.pc)
Decided(inst) == isBranchOrJump(inst) => inst.nextPC = simNextPCResolution(inst).nextPC

MemOrder ==
  Real(memInst) /\ ~isHalt(memInst) =>
    /\ Real(exInst) => exInst.pc = NextOf(memInst)
    /\ ~Real(exInst) /\ Real(idInst) => idInst.pc = NextOf(memInst)

SettledInv ==
  /\ OnPath(idInst) /\ OnPath(exInst) /\ OnPath(memInst)
  /\ Decided(idInst) /\ Decided(exInst)
  /\ MemOrder

(* What decides a branch of a plain program is in its text. *)
LEMMA OutcomeOnPath ==
  ASSUME NEW inst \in Instruction, inst.word = WordAt(inst.pc), isBranchOrJump(inst)
  PROVE  simNextPCResolution(inst).nextPC \in After(inst.pc)
<1>1. inst.word.op \in {"beq", "bne", "jal", "jalr"}
  BY DEF isBranchOrJump, Instruction
<1>2. Plus(inst.op1Val, inst.word.imm) \in Value
  BY PlusType, Words DEF Instruction, Word
<1>. QED
  BY <1>1, <1>2 DEF simNextPCResolution, After, Instruction

(* What comes next is in the text, or right behind.                         *)
LEMMA NextOnPath ==
  ASSUME NEW inst, OnPath(inst)
  PROVE  NextOf(inst) \in After(inst.pc)
BY DEF OnPath, NextOf, After

(* Nothing that a branch in ID reads is still on its way. *)
LEMMA NothingInFlight ==
  ASSUME Settled, IInv, CodeInv, HaltInv, OrderInv, SettledInv, isBranchOrJump(idInst),
         NEW r, Reads(idInst, r)
  PROVE  ~InFlight(r)
<1>1. /\ Real(idInst) /\ Active(idInst) /\ ~isHalt(idInst)
      /\ idInst.word = WordAt(idInst.pc) /\ idInst.pc \in Value
      /\ exInst.pc \in Value /\ memInst.pc \in Value
  BY DEF CodeInv, FromCode, isBranchOrJump, isHalt, IInv, TypeOK, Instruction, WordAt
<1>2. idInst.word.op \in {"beq", "bne", "jalr"} /\ r \in ReadBy(idInst.word)
  BY DEF isBranchOrJump, Reads, readsRs1, readsRs2, ReadBy
<1>3. \A inst : FromCode(inst) /\ Writes(inst, r) =>
        /\ Real(inst) /\ ~isHalt(inst)
        /\ inst.word = WordAt(inst.pc) /\ Feeds(inst.word, idInst.word)
  BY <1>2 DEF FromCode, Writes, writesREG, writesRd, isHalt, Feeds, WordAt
<1>4. FromCode(exInst) /\ FromCode(memInst)
  BY DEF CodeInv
<1>7. Real(exInst) => idInst.pc \in After(exInst.pc)
  <2>1. CASE isHalt(exInst)
    BY <1>1, <2>1 DEF HaltInv, Follows, After
  <2>2. CASE Real(exInst) /\ ~isHalt(exInst)
    <3>1. idInst.pc = NextOf(exInst)
      BY <1>1, <2>2 DEF OrderInv, BehindEX
    <3>. QED
      BY <3>1, NextOnPath DEF SettledInv
  <2>. QED
    BY <2>1, <2>2
<1>8. ~Writes(exInst, r)
  <2>. SUFFICES ASSUME Writes(exInst, r) PROVE FALSE
    OBVIOUS
  <2>1. /\ Real(exInst) /\ exInst.word = WordAt(exInst.pc)
        /\ Feeds(exInst.word, idInst.word)
    BY <1>1, <1>3, <1>4
  <2>2. FeedsNoBranch(exInst.pc)
    BY <1>1 DEF Settled
  <2>. QED
    BY <1>1, <1>7, <2>1, <2>2 DEF FeedsNoBranch
<1>9. ~Writes(memInst, r)
  <2>. SUFFICES ASSUME Writes(memInst, r) PROVE FALSE
    OBVIOUS
  <2>1. /\ Real(memInst) /\ ~isHalt(memInst) /\ memInst.word = WordAt(memInst.pc)
        /\ Feeds(memInst.word, idInst.word)
    BY <1>1, <1>3, <1>4
  <2>2. FeedsNoBranch(memInst.pc)
    BY <1>1 DEF Settled
  <2>3. NextOf(memInst) \in After(memInst.pc)
    BY NextOnPath DEF SettledInv
  <2>4. CASE Real(exInst)
    <3>1. exInst.pc \in After(memInst.pc)
      BY <2>1, <2>3, <2>4 DEF SettledInv, MemOrder
    <3>. QED
      BY <1>1, <1>7, <2>1, <2>2, <2>4, <3>1 DEF FeedsNoBranch
  <2>5. CASE ~Real(exInst)
    <3>1. idInst.pc \in After(memInst.pc)
      BY <1>1, <2>1, <2>3, <2>5 DEF SettledInv, MemOrder
    <3>. QED
      BY <1>1, <2>1, <2>2, <3>1 DEF FeedsNoBranch
  <2>. QED
    BY <2>4, <2>5
<1>. QED
  BY <1>8, <1>9 DEF InFlight

(* So no forward changes the outcome of the branch in ID. *)
LEMMA OutcomeStays ==
  ASSUME Settled, IInv, CodeInv, HaltInv, OrderInv, SettledInv, isBranchOrJump(idInst)
  PROVE  /\ readsRs1(idInst) => ForwardedID.op1Val = idInst.op1Val
         /\ readsRs2(idInst) => ForwardedID.op2Val = idInst.op2Val
         /\ simNextPCResolution(ForwardedID).nextPC = simNextPCResolution(idInst).nextPC
<1>1. \A r, old : Reads(idInst, r) => Forward(r, old) = old
  BY NothingInFlight DEF InFlight, Forward
<1>2. /\ readsRs1(idInst) => ForwardedID.op1Val = idInst.op1Val
      /\ readsRs2(idInst) => ForwardedID.op2Val = idInst.op2Val
  BY <1>1, ForwardedValues DEF Reads
<1>3. /\ ForwardedID \in Instruction /\ idInst \in Instruction
      /\ ForwardedID.pc = idInst.pc /\ ForwardedID.word = idInst.word
  BY Forwarded, ForwardedSame DEF Operand0, Sound, IInv, TypeOK, Same
<1>4. simNextPCResolution(ForwardedID).nextPC = simNextPCResolution(idInst).nextPC
  BY <1>2, <1>3, SameOutcome DEF readsRs1, readsRs2
<1>. QED
  BY <1>2, <1>4

(* A plain program keeps the flow while its branches are decided.           *)
LEMMA DecidedKeepsFlow ==
  ASSUME PlainText, RegisterJumpsFar, IInv, CodeInv, OnPath(exInst), Decided(exInst)
  PROVE  FlowKept
<1>1. BranchesResolved
  BY DEF Decided, BranchesResolved
<1>2. NoWordSkipped
  <2>. SUFFICES ASSUME isBranchOrJump(exInst)
                PROVE  exInst.nextPC # Plus(Plus(exInst.pc, 1), 1)
    BY DEF NoWordSkipped
  <2>1. exInst.word = WordAt(exInst.pc) /\ exInst.pc \in Value
    BY DEF CodeInv, FromCode, isBranchOrJump, IInv, TypeOK, Instruction, WordAt
  <2>2. CASE exInst.word.op = "jalr"
    BY <2>2 DEF RegisterJumpsFar
  <2>. SUFFICES ASSUME exInst.word.op \in {"beq", "bne", "jal"}
                PROVE  exInst.nextPC # Plus(Plus(exInst.pc, 1), 1)
    BY <2>2 DEF isBranchOrJump
  <2>3. exInst.nextPC \in {Plus(exInst.pc, 1), Plus(exInst.pc, WordAt(exInst.pc).imm)}
    BY <2>1 DEF OnPath, After
  <2>4. Plus(exInst.pc, WordAt(exInst.pc).imm) # Plus(Plus(exInst.pc, 1), 1)
    BY <2>1 DEF PlainText
  <2>5. Plus(exInst.pc, 1) # Plus(Plus(exInst.pc, 1), 1)
    BY <2>1, Successors
  <2>. QED
    BY <2>3, <2>4, <2>5
<1>3. HandlerOnce
  <2>1. ASSUME isBranchOrJump(exInst), exInst.pc = EXC_HANDLER
        PROVE  exInst.nextPC # Plus(exInst.pc, 1)
    <3>1. exInst.word = WordAt(EXC_HANDLER)
      BY <2>1 DEF CodeInv, FromCode, isBranchOrJump, WordAt
    <3>2. /\ exInst.word.op = "jal"
          /\ Plus(EXC_HANDLER, exInst.word.imm) # Plus(EXC_HANDLER, 1)
      BY <2>1, <3>1 DEF PlainText, isBranchOrJump
    <3>3. exInst.nextPC = Plus(exInst.pc, exInst.word.imm)
      BY <2>1, <3>2 DEF Decided, simNextPCResolution, IInv, TypeOK, Instruction
    <3>. QED
      BY <2>1, <3>2, <3>3
  <2>. QED
    BY <2>1 DEF HandlerOnce, PlainText, WordAt
<1>. QED
  BY <1>1, <1>2, <1>3 DEF FlowKept

(* And what is behind a halt is what the text has there. *)
LEMMA QuietHalt ==
  ASSUME HaltsQuietly, IInv, CodeInv, HaltInv
  PROVE  NoStoreBehindHalt
<1>. SUFFICES ASSUME isHalt(wbInst), isStore(memInst) PROVE FALSE
  BY DEF NoStoreBehindHalt
<1>1. memInst.pc = Plus(wbInst.pc, 1)
  BY DEF HaltInv, Follows, isHalt, isStore, writesMem
<1>2. /\ memInst.word = WordAt(memInst.pc) /\ wbInst.word = WordAt(wbInst.pc)
      /\ wbInst.pc \in Value
  BY DEF CodeInv, FromCode, isHalt, isStore, IInv, TypeOK, Instruction, WordAt
<1>. QED
  BY <1>1, <1>2 DEF HaltsQuietly, isHalt, isStore, writesMem

(* A branch that a cycle decodes or holds is decided on what it reads then. *)
LEMMA CycleDecides ==
  ASSUME IInv, CodeInv, NEW iHit \in BOOLEAN, NEW dHit \in BOOLEAN, Cycle(iHit, dHit),
         ~dMiss(dHit), isBranchOrJump(idInst')
  PROVE  idInst'.nextPC = simNextPCResolution(idInst').nextPC
<1>1. /\ idInst' = NewID(iHit, dHit, regs') /\ regs' \in [Reg -> Value]
      /\ ifInst \in Instruction /\ idInst' \in Instruction /\ ForwardedID \in Instruction
  BY CycleKeepsIInv, CycleMoves, Forwarded DEF IInv, TypeOK, Operand0, Sound
<1>2. CASE illegalExc \/ (~stall /\ (iMiss(iHit) \/ WrongPath))
  <2>1. idInst' = nop("SQUASHED") \/ idInst' = nop("BUBBLE")
    BY <1>1, <1>2 DEF NewID
  <2>. QED
    BY <2>1 DEF nop, NopWord, isBranchOrJump
<1>3. CASE ~illegalExc /\ stall
  <2>1. Same(simNextPCResolution(ForwardedID), ForwardedID)
    BY <1>1, ResolvedSame
  <2>2. idInst' = simNextPCResolution(ForwardedID)
    BY <1>1, <1>3, <2>1 DEF NewID
  <2>3. /\ idInst'.pc = ForwardedID.pc /\ idInst'.word = ForwardedID.word
        /\ idInst'.op1Val = ForwardedID.op1Val /\ idInst'.op2Val = ForwardedID.op2Val
    BY <1>1, <2>2 DEF simNextPCResolution, Instruction
  <2>. QED
    BY <1>1, <2>2, <2>3, SameOutcome
<1>4. CASE ~illegalExc /\ ~stall /\ ~iMiss(iHit) /\ ~WrongPath
  <2>1. idInst' = simID(Confirmed(ifInst), regs')
    BY <1>1, <1>4 DEF NewID
  <2>2. ifInst.word.op = "nop" \/ Active(ifInst)
    BY DEF CodeInv, Active, nop, NopWord
  <2>. QED
    BY <1>1, <2>1, <2>2, DecodedValues
<1>. QED
  BY <1>2, <1>3, <1>4

(* What is behind MEM stays on the path, and in order.                      *)
LEMMA CycleKeepsMemOrder ==
  ASSUME IInv, CodeInv, OrderInv, OnPath(exInst), OnPath(memInst), MemOrder,
         NEW iHit \in BOOLEAN, NEW dHit \in BOOLEAN, Cycle(iHit, dHit)
  PROVE  OnPath(memInst)' /\ MemOrder'
<1>1. /\ code' = code /\ memInst' = NewMEM(dHit) /\ idInst' = NewID(iHit, dHit, regs')
  BY CycleMoves DEF Cycle
<1>2. \A new, inst : Same(new, inst) =>
        /\ new.pc = inst.pc /\ new.word = inst.word
        /\ isBranchOrJump(new) <=> isBranchOrJump(inst)
        /\ isHalt(new) <=> isHalt(inst)
  BY DEF Same, isBranchOrJump, isHalt
<1>3. \A new, inst : Same(new, inst) /\ FromCode(inst) => (Real(new) <=> Real(inst))
  BY DEF Same, FromCode
<1>4. FromCode(idInst) /\ FromCode(exInst) /\ FromCode(memInst)
  BY DEF CodeInv
<1>5. \A p : After(p)' = After(p)
  BY <1>1 DEF After, WordAt
<1>6. \A inst : Empty(inst) => ~Real(inst) /\ ~isBranchOrJump(inst)
  BY DEF Empty, isBranchOrJump
<1>8. ~dMiss(dHit) => Same(memInst', exInst) /\ memInst'.nextPC = exInst.nextPC
  <2>. SUFFICES ASSUME ~dMiss(dHit) PROVE Same(memInst', exInst) /\ memInst'.nextPC = exInst.nextPC
    OBVIOUS
  <2>1. memInst' = simMEM(StoreForwarded, mem)
    BY <1>1 DEF NewMEM
  <2>2. StoreForwarded \in Instruction /\ mem \in [Address -> Value]
    BY Forwarded DEF Operand0, Sound, IInv, TypeOK
  <2>3. memInst'.nextPC = StoreForwarded.nextPC
    BY <2>1, <2>2, AccessedValues
  <2>. QED
    BY <2>3, CycleKeeps, StoreForwardedValues
<1>9. OnPath(memInst)'
  <2>1. CASE dMiss(dHit)
    <3>1. memInst' = memInst
      BY <2>1, CycleKeeps
    <3>. QED
      BY <1>5, <3>1 DEF OnPath, isBranchOrJump, Active
  <2>2. CASE ~dMiss(dHit)
    BY <1>2, <1>5, <1>8, <2>2 DEF OnPath
  <2>. QED
    BY <2>1, <2>2
<1>10. MemOrder'
  <2>1. CASE dMiss(dHit)
    <3>1. memInst' = memInst /\ exInst' = exInst /\ Same(idInst', idInst)
      BY <2>1, CycleKeeps
    <3>2. idInst'.pc = idInst.pc /\ (Real(idInst') <=> Real(idInst))
      BY <1>2, <1>3, <1>4, <3>1
    <3>3. NextOf(memInst') = NextOf(memInst)
      BY <3>1
    <3>. QED
      BY <3>1, <3>2, <3>3 DEF MemOrder, Real, isHalt, NextOf, isBranchOrJump,
         Active
  <2>2. CASE ~dMiss(dHit)
    <3>. SUFFICES ASSUME Real(memInst'), ~isHalt(memInst')
                  PROVE  /\ Real(exInst') => exInst'.pc = NextOf(memInst')
                         /\ ~Real(exInst') /\ Real(idInst') => idInst'.pc = NextOf(memInst')
      BY DEF MemOrder
    <3>1. Real(exInst) /\ ~isHalt(exInst) /\ NextOf(memInst') = NextOf(exInst)
      BY <1>2, <1>3, <1>4, <1>8, <2>2 DEF NextOf
    <3>2. BehindEX = NextOf(exInst)
      BY <3>1 DEF OrderInv
    <3>3. ASSUME Real(exInst') PROVE exInst'.pc = BehindEX
      <4>1. Same(exInst', idInst)
        BY <2>2, <3>3, <1>6, CycleKeeps
      <4>. QED
        BY <1>2, <1>3, <1>4, <4>1, <3>3 DEF BehindEX
    <3>4. ASSUME ~Real(exInst'), Real(idInst') PROVE idInst'.pc = BehindEX
      <4>1. idInst'.pc = BehindEX'
        BY <3>4 DEF BehindEX
      <4>2. ~illegalExc
        BY <2>2, <3>4, <1>6, CycleKeeps
      <4>3. CASE stall
        BY <2>2, <4>1, <4>2, <4>3, CycleAdvances
      <4>4. CASE ~stall
        <5>1. Same(exInst', idInst)
          BY <2>2, <4>2, <4>4, CycleKeeps
        <5>2. ~Real(idInst)
          BY <1>3, <1>4, <3>4, <5>1
        <5>. QED
          BY <2>2, <4>1, <4>2, <4>4, <5>2, CycleAdvances DEF BehindEX
      <4>. QED
        BY <4>3, <4>4
    <3>. QED
      BY <3>1, <3>2, <3>3, <3>4
  <2>. QED
    BY <2>1, <2>2
<1>. QED
  BY <1>9, <1>10

(* Every cycle leaves the branches decided and on the path of the text. *)
LEMMA CycleSettles ==
  ASSUME Settled, IInv, CodeInv, HaltInv, OrderInv, SettledInv,
         NEW iHit \in BOOLEAN, NEW dHit \in BOOLEAN, Cycle(iHit, dHit)
  PROVE  SettledInv'
<1>1. /\ code' = code /\ IInv' /\ CodeInv'
      /\ exInst' = NewEX(dHit) /\ memInst' = NewMEM(dHit) /\ idInst' = NewID(iHit, dHit, regs')
      /\ regs' \in [Reg -> Value] /\ ifInst \in Instruction
      /\ idInst \in Instruction /\ idInst' \in Instruction /\ exInst' \in Instruction
  BY CycleKeepsIInv, CycleKeepsCode, CycleMoves DEF Cycle, IInv, TypeOK
<1>2. \A new, inst : Same(new, inst) =>
        /\ new.pc = inst.pc /\ new.word = inst.word
        /\ isBranchOrJump(new) <=> isBranchOrJump(inst)
        /\ isHalt(new) <=> isHalt(inst)
  BY DEF Same, isBranchOrJump, isHalt
<1>3. \A new, inst : Same(new, inst) /\ FromCode(inst) => (Real(new) <=> Real(inst))
  BY DEF Same, FromCode
<1>4. FromCode(idInst) /\ FromCode(exInst) /\ FromCode(memInst)
  BY DEF CodeInv
<1>5. \A p : After(p)' = After(p)
  BY <1>1 DEF After, WordAt
<1>6. \A inst : Empty(inst) => ~Real(inst) /\ ~isBranchOrJump(inst)
  BY DEF Empty, isBranchOrJump
<1>7. /\ ForwardedID \in Instruction /\ Same(ForwardedID, idInst)
      /\ ForwardedID.nextPC = idInst.nextPC
  BY Forwarded, ForwardedSame, ForwardedValues DEF Operand0, Sound
<1>10. Decided(idInst)'
  <2>. SUFFICES ASSUME isBranchOrJump(idInst')
                PROVE  idInst'.nextPC = simNextPCResolution(idInst').nextPC
    BY DEF Decided
  <2>1. CASE dMiss(dHit)
    <3>1. idInst' = ForwardedID
      BY <1>1, <2>1 DEF NewID
    <3>2. isBranchOrJump(idInst)
      BY <1>2, <1>7, <3>1
    <3>. QED
      BY <1>7, <3>1, <3>2, OutcomeStays DEF SettledInv, Decided
  <2>2. CASE ~dMiss(dHit)
    BY <2>2, CycleDecides
  <2>. QED
    BY <2>1, <2>2
<1>11. OnPath(idInst)'
  <2>. SUFFICES ASSUME isBranchOrJump(idInst')
                PROVE  idInst'.nextPC \in After(idInst'.pc)
    BY <1>5 DEF OnPath
  <2>1. idInst'.word = WordAt(idInst'.pc)
    BY <1>1 DEF CodeInv, FromCode, isBranchOrJump, WordAt
  <2>2. simNextPCResolution(idInst').nextPC \in After(idInst'.pc)
    BY <1>1, <2>1, OutcomeOnPath DEF Settled
  <2>. QED
    BY <1>10, <2>2 DEF Decided
<1>12. OnPath(exInst)' /\ Decided(exInst)'
  <2>1. CASE dMiss(dHit)
    <3>1. exInst' = exInst
      BY <2>1, CycleKeeps
    <3>. QED
      BY <1>5, <3>1 DEF SettledInv, OnPath, Decided, isBranchOrJump, Active
  <2>2. CASE ~dMiss(dHit) /\ (stall \/ illegalExc)
    <3>1. ~isBranchOrJump(exInst')
      BY <2>2, <1>6, CycleKeeps
    <3>. QED
      BY <3>1 DEF OnPath, Decided
  <2>3. CASE ~dMiss(dHit) /\ ~stall /\ ~illegalExc
    <3>. SUFFICES ASSUME isBranchOrJump(exInst')
                  PROVE  /\ exInst'.nextPC \in After(exInst'.pc)
                         /\ exInst'.nextPC = simNextPCResolution(exInst').nextPC
      BY <1>5 DEF OnPath, Decided
    <3>1. Same(exInst', idInst) /\ exInst'.nextPC = idInst.nextPC
      BY <2>3, CycleKeeps, CycleKeepsNextPC
    <3>2. isBranchOrJump(idInst) /\ exInst'.pc = idInst.pc /\ exInst'.word = idInst.word
      BY <1>2, <3>1
    <3>3. exInst' = simEX(ForwardedID)
      BY <1>1, <2>3 DEF NewEX
    <3>4. exInst'.op1Val = ForwardedID.op1Val /\ exInst'.op2Val = ForwardedID.op2Val
      BY <1>7, <3>3, ExecutedValues
    <3>5. simNextPCResolution(exInst').nextPC = simNextPCResolution(idInst).nextPC
      <4>1. /\ readsRs1(exInst') => exInst'.op1Val = idInst.op1Val
            /\ readsRs2(exInst') => exInst'.op2Val = idInst.op2Val
        BY <3>2, <3>4, OutcomeStays DEF readsRs1, readsRs2
      <4>. QED
        BY <1>1, <3>2, <4>1, SameOutcome
    <3>. QED
      BY <3>1, <3>2, <3>5 DEF SettledInv, OnPath, Decided
  <2>. QED
    BY <2>1, <2>2, <2>3
<1>13. OnPath(memInst)' /\ MemOrder'
  BY CycleKeepsMemOrder DEF SettledInv
<1>. QED
  BY <1>10, <1>11, <1>12, <1>13 DEF SettledInv

(* A run of a settled program keeps the flow to its end.                    *)
LEMMA SettledFlows ==
  Init /\ Settled /\ [][Next]_vars /\ []RegisterJumpsFar => []FlowKept
<1>1. Init => FlowInv /\ SettledInv
  <2>. SUFFICES ASSUME Init PROVE FlowInv /\ SettledInv
    OBVIOUS
  <2>1. ~Real(nop("IDLE")) /\ ~isBranchOrJump(nop("IDLE"))
    BY DEF Real, isBranchOrJump, Active, nop, NopWord
  <2>. QED
    BY <2>1, InitFlows DEF Init, SettledInv, OnPath, Decided, MemOrder
<1>2. IInv /\ CodeInv /\ HaltInv /\ FlowInv /\ SettledInv /\ Settled /\ [Next]_vars
        => SettledInv' /\ Settled'
  <2>. SUFFICES ASSUME IInv, CodeInv, HaltInv, FlowInv, SettledInv, Settled, [Next]_vars
                PROVE  SettledInv' /\ Settled'
    OBVIOUS
  <2>1. code' = code
    BY DEF Next, Halted, Cycle, vars
  <2>2. Settled'
    BY <2>1 DEF Settled, PlainText, FeedsNoBranch, After, WordAt
  <2>3. ASSUME NEW iHit \in BOOLEAN, NEW dHit \in BOOLEAN, Cycle(iHit, dHit)
        PROVE  SettledInv'
    BY <2>3, CycleSettles DEF FlowInv
  <2>4. CASE UNCHANGED vars
    BY <2>2, <2>4 DEF vars, stages, SettledInv, OnPath, Decided, MemOrder, After, WordAt,
           NextOf, isBranchOrJump, Active, Real, isHalt
  <2>. QED
    BY <2>2, <2>3, <2>4 DEF Next, Halted
<1>3. Settled /\ RegisterJumpsFar /\ IInv /\ CodeInv /\ SettledInv => FlowKept
  BY DecidedKeepsFlow DEF SettledInv, Settled
<1>4. IInv /\ CodeInv /\ FlowInv /\ FlowKept /\ FlowKept' /\ [Next]_vars => FlowInv'
  BY StepFlows
<1>. QED
  BY <1>1, <1>2, <1>3, <1>4, HaltsInOrder, PTL

(* In a program without jalr no jalr goes over one word: of these the text  *)
(* alone tells that the flow is kept.                                       *)
LEMMA WithoutRegisterJumps ==
  Init /\ [][Next]_vars /\ (\A p \in Value : WordAt(p).op # "jalr") => []RegisterJumpsFar
<1>. DEFINE NoJalr == \A p \in Value : WordAt(p).op # "jalr"
<1>1. NoJalr /\ [Next]_vars => NoJalr'
  <2>1. [Next]_vars => code' = code
    BY DEF Next, Halted, Cycle, vars
  <2>. QED
    BY <2>1 DEF WordAt
<1>2. NoJalr /\ IInv /\ CodeInv => RegisterJumpsFar
  BY DEF RegisterJumpsFar, CodeInv, FromCode, isBranchOrJump, IInv, TypeOK, Instruction, WordAt
<1>. HIDE DEF NoJalr
<1>3. Init /\ [][Next]_vars /\ NoJalr => []RegisterJumpsFar
  BY <1>1, <1>2, HaltsInOrder, PTL
<1>. QED
  BY <1>3 DEF NoJalr

(* A settled program: every branch leaves ID with the next PC that its      *)
(* operands give (cycle.cpp:453), with every pattern of hits and misses.    *)
THEOREM PipelineSettledBranches ==
  Spec /\ Settled /\ []RegisterJumpsFar => []BranchesResolved
<1>1. FlowKept => BranchesResolved
  BY DEF FlowKept
<1>. QED
  BY <1>1, SettledFlows, PTL DEF Spec

(* If no store is right behind a halt, a run that keeps the flow departs in *)
(* no way.                                                                  *)
LEMMA QuietRuns ==
  Init /\ HaltsQuietly /\ [][Next]_vars /\ []FlowKept => []NoDeparture
<1>1. HaltsQuietly /\ [Next]_vars => HaltsQuietly'
  <2>1. [Next]_vars => code' = code
    BY DEF Next, Halted, Cycle, vars
  <2>. QED
    BY <2>1 DEF HaltsQuietly, WordAt
<1>2. HaltsQuietly /\ IInv /\ CodeInv /\ HaltInv => NoStoreBehindHalt
  BY QuietHalt
<1>3. FlowKept /\ NoStoreBehindHalt => NoDeparture
  BY DEF NoDeparture
<1>. QED
  BY <1>1, <1>2, <1>3, HaltsInOrder, PTL

(* Then a settled program does on the pipeline what it does on the machine. *)
THEOREM PipelineRunsSettledPrograms ==
  Spec /\ Settled /\ HaltsQuietly /\ []RegisterJumpsFar => ImplementsMachine
<1>1. Spec /\ Settled /\ HaltsQuietly /\ []RegisterJumpsFar => []NoDeparture
  BY SettledFlows, QuietRuns, PTL DEF Spec
<1>. QED
  BY <1>1, PipelineImplementsMachine

------------------------------------------------------------------------------
(* Branches right behind the producers of their operands: they are stalled, *)
(* and decided again, as long as no two misses meet at the stall.           *)

(* No branch reads a link, and one that reads what the second word before   *)
(* it writes reads also what the word right before it writes: that one      *)
(* stalls it.                                                               *)
FeedsInTime(p) ==
  \A q \in After(p) :
    /\ Feeds(WordAt(p), WordAt(q)) => WordAt(p).op \notin {"jal", "jalr"}
    /\ \A s \in After(q) : Feeds(WordAt(p), WordAt(s)) => Feeds(WordAt(q), WordAt(s))

Timely == PlainText /\ \A p \in Value : FeedsInTime(p)

LoadsFeedNoBranch ==
  \A p \in Value : \A q \in After(p) : Feeds(WordAt(p), WordAt(q)) => WordAt(p).op # "lw"

(* The word at p feeds a branch right behind it. *)
FeedsNext(p) == \E q \in After(p) : Feeds(WordAt(p), WordAt(q))

(* A data miss takes the second stall cycle of a branch behind a load, and  *)
(* with fetch misses the bubbles that make a branch wait for its operands;  *)
(* a fetch miss of one cycle puts one bubble where two are needed.  So one  *)
(* of the caches hits, or no access is one of the two words before such a   *)
(* producer nor the producer: then any access may miss and any fetch.       *)
DataHits  == oracle.d = {TRUE} /\ (oracle.i = {TRUE} \/ IMissLatency # 1)
FetchHits == oracle.i = {TRUE} /\ LoadsFeedNoBranch
AccessesApart ==
  /\ IMissLatency # 1
  /\ LoadsFeedNoBranch
  /\ \A p \in Value : WordAt(p).op \in {"lw", "sw"} =>
       \A q \in After(p) : ~FeedsNext(q) /\ \A s \in After(q) : ~FeedsNext(s)
MissesApart == DataHits \/ FetchHits \/ AccessesApart

(* An instruction that the fetch behind it must not lag by one bubble.      *)
Prompt(inst) == DataHits \/ FetchHits \/ FeedsNext(inst.pc)

(* A branch that is not stalled has been decided on what it takes along.    *)
LeavesDecided ==
  isBranchOrJump(idInst) /\ ~stall => idInst.nextPC = simNextPCResolution(ForwardedID).nextPC

(* The second stall cycle follows a first one that was not frozen. *)
SecondStall == remainingStallCycles > 0 => DataHits /\ ~Real(exInst)

(* Nothing separates an instruction in EX from the next one but a branch    *)
(* not taken or a fetch that is still missing.                              *)
NoGap ==
  /\ Real(idInst) => Real(ifInst)
  /\ Real(idInst) /\ ifInst.status = "SPECULATIVE" => isBranchOrJump(idInst)
  /\ Real(idInst) /\ Prompt(idInst) => ~instFetchMiss
  /\ Real(exInst) /\ ~Real(idInst) /\ ~isBranchOrJump(exInst) /\ Prompt(exInst)
       => instFetchMiss

NeverMissing ==
  /\ oracle.d = {TRUE} => ~dataFetchMiss
  /\ oracle.i = {TRUE} => ~instFetchMiss

TimelyInv ==
  /\ OnPath(idInst) /\ OnPath(exInst) /\ OnPath(memInst)
  /\ Decided(exInst)
  /\ MemOrder
  /\ LeavesDecided
  /\ SecondStall
  /\ NoGap
  /\ NeverMissing

(* What comes after the instruction in EX is in the text. *)
LEMMA BehindOnPath ==
  ASSUME IInv, HaltInv, OrderInv, OnPath(exInst), Real(exInst), Real(idInst),
         Active(idInst), ~isHalt(idInst)
  PROVE  idInst.pc \in After(exInst.pc)
<1>1. CASE isHalt(exInst)
  BY <1>1 DEF HaltInv, Follows, After
<1>2. CASE ~isHalt(exInst)
  BY <1>2, NextOnPath DEF OrderInv, BehindEX
<1>. QED
  BY <1>1, <1>2

(* A writer in EX is a word of the program that feeds what reads it. *)
LEMMA WriterFeeds ==
  ASSUME IInv, CodeInv, NEW r, Writes(exInst, r),
         NEW word, word.op \in {"beq", "bne", "jalr"}, r \in ReadBy(word)
  PROVE  /\ Real(exInst) /\ ~isHalt(exInst) /\ exInst.pc \in Value
         /\ exInst.word = WordAt(exInst.pc) /\ Feeds(exInst.word, word)
         /\ isBranchOrJump(exInst) => exInst.word.op \in {"jal", "jalr"}
<1>1. Real(exInst) /\ exInst.word = WordAt(exInst.pc) /\ exInst.pc \in Value
  BY DEF CodeInv, FromCode, Writes, writesREG, IInv, TypeOK, Instruction, WordAt
<1>. QED
  BY <1>1 DEF Writes, writesREG, writesRd, isHalt, Feeds, isBranchOrJump

(* When a branch is about to be decoded and EX writes what it reads, then   *)
(* ID does so too, and will stall it.                                       *)
LEMMA DecodedInTime ==
  ASSUME Timely, IInv, CodeInv, HaltInv, OrderInv, OnPath(idInst), OnPath(exInst), NoGap,
         ifInst.word.op \in {"beq", "bne", "jalr"}, Real(ifInst), ~WrongPath,
         ~illegalExc, ~instFetchMiss,
         NEW r, r \in ReadBy(ifInst.word), Writes(exInst, r)
  PROVE  \E s : s \in ReadBy(ifInst.word) /\ Writes(idInst, s)
<1>1. /\ Real(exInst) /\ ~isHalt(exInst) /\ exInst.pc \in Value
      /\ exInst.word = WordAt(exInst.pc) /\ Feeds(exInst.word, ifInst.word)
      /\ isBranchOrJump(exInst) => exInst.word.op \in {"jal", "jalr"}
  BY WriterFeeds
<1>2. FeedsInTime(exInst.pc)
  BY <1>1 DEF Timely
<1>3. ifInst.word = WordAt(ifInst.pc)
  BY DEF CodeInv, nop, Real, WordAt
<1>4. BehindEX = NextOf(exInst) /\ NextOf(exInst) \in After(exInst.pc)
  BY <1>1, NextOnPath DEF OrderInv
<1>5. BehindID = ifInst.pc
  BY DEF BehindID
<1>6. CASE Real(idInst)
  <2>1. idInst.pc \in After(exInst.pc) /\ idInst.word = WordAt(idInst.pc)
    BY <1>4, <1>6 DEF BehindEX, CodeInv, FromCode, WordAt
  <2>2. ifInst.pc \in After(idInst.pc)
    <3>1. CASE isBranchOrJump(idInst)
      <4>1. ifInst.pc # EXC_HANDLER
        BY <1>3 DEF Timely, PlainText
      <4>. QED
        BY <4>1, <3>1 DEF OrderInv, BranchOrder, After
    <3>2. CASE isHalt(idInst)
      BY <3>2 DEF HaltInv, isHalt, After
    <3>3. CASE ~isBranchOrJump(idInst) /\ ~isHalt(idInst)
      <4>1. isLegal(idInst)
        BY <3>3 DEF illegalExc, CodeInv, FromCode, isLegal
      <4>. QED
        BY <4>1, <3>3, <1>5, <1>6 DEF OrderInv, Stops, After
    <3>. QED
      BY <3>1, <3>2, <3>3
  <2>3. Feeds(idInst.word, ifInst.word)
    BY <1>1, <1>2, <1>3, <2>1, <2>2 DEF FeedsInTime
  <2>4. Active(idInst)
    BY <2>3 DEF CodeInv, FromCode, Feeds
  <2>. QED
    BY <2>3, <2>4 DEF Feeds, Writes, writesREG, writesRd
<1>7. CASE ~Real(idInst)
  <2>1. ifInst.pc \in After(exInst.pc)
    BY <1>4, <1>5, <1>7 DEF BehindEX
  <2>2. Prompt(exInst)
    BY <1>1, <1>3, <2>1 DEF Prompt, FeedsNext
  <2>3. exInst.word.op \in {"jal", "jalr"}
    BY <1>1, <1>7, <2>2 DEF NoGap
  <2>. QED
    BY <1>1, <1>2, <1>3, <2>1, <2>3 DEF FeedsInTime
<1>. QED
  BY <1>6, <1>7

(* Forwards from MEM of what a branch has already leave its outcome.        *)
LEMMA ForwardedOutcome ==
  ASSUME NEW inst \in Operand0, NEW older \in Operand0, NEW newer \in Operand0,
         \A r : Reads(inst, r) => ~Writes(newer, r),
         readsRs1(inst) /\ Writes(older, inst.word.rs1) => Result(older) = inst.op1Val,
         readsRs2(inst) /\ Writes(older, inst.word.rs2) => Result(older) = inst.op2Val
  PROVE  simNextPCResolution(Bypass(Bypass(inst, older, Result(older)), newer,
                                    newer.arithResult)).nextPC
           = simNextPCResolution(inst).nextPC
<1>. DEFINE once == Bypass(inst, older, Result(older))
            twice == Bypass(once, newer, newer.arithResult)
<1>1. /\ Result(older) \in Value /\ newer.arithResult \in Value
      /\ older \in Sound /\ newer \in Sound /\ inst \in Instruction
  BY DEF Operand0, Sound, Result, Instruction
<1>2. once \in Operand0 /\ once \in Instruction /\ Same(once, inst)
  BY <1>1, Bypassed, BypassedSame DEF Operand0, Sound
<1>3. /\ readsRs1(inst) => once.op1Val = inst.op1Val
      /\ readsRs2(inst) => once.op2Val = inst.op2Val
  BY <1>1, BypassedValues
<1>. HIDE DEF once
<1>4. twice \in Instruction /\ Same(twice, once)
  BY <1>1, <1>2, Bypassed, BypassedSame DEF Operand0, Sound
<1>5. /\ readsRs1(once) => twice.op1Val = once.op1Val
      /\ readsRs2(once) => twice.op2Val = once.op2Val
  BY <1>2, BypassedValues DEF Reads, Same, readsRs1, readsRs2
<1>. HIDE DEF twice
<1>6. /\ twice.pc = inst.pc /\ twice.word = inst.word
      /\ readsRs1(twice) => twice.op1Val = inst.op1Val
      /\ readsRs2(twice) => twice.op2Val = inst.op2Val
  BY <1>2, <1>3, <1>4, <1>5 DEF Same, readsRs1, readsRs2
<1>7. simNextPCResolution(twice).nextPC = simNextPCResolution(inst).nextPC
  BY <1>1, <1>4, <1>6, SameOutcome
<1>. QED
  BY <1>7 DEF twice, once

(* Which misses there are. *)
LEMMA CycleMisses ==
  ASSUME IInv, NeverMissing, NEW iHit \in oracle.i, NEW dHit \in oracle.d,
         Cycle(iHit, dHit)
  PROVE  /\ oracle.i = {TRUE} => ~iMiss(iHit)
         /\ oracle.d = {TRUE} => ~dMiss(dHit)
         /\ dMiss(dHit) => ~DataHits
         /\ instFetchMiss' => iMiss(iHit)
         /\ dataFetchMiss' => dMiss(dHit)
<1>1. MissTimers(iHit, dHit)
  BY DEF Cycle
<1>2. (instFetchMiss' => iMiss(iHit)) /\ (dataFetchMiss' => dMiss(dHit))
  BY <1>1, Zenon DEF MissTimers
<1>3. ASSUME oracle.i = {TRUE} PROVE ~iMiss(iHit)
  <2>1. iHit /\ ~instFetchMiss
    BY <1>3, Zenon DEF NeverMissing
  <2>. QED
    BY <2>1, Zenon DEF iMiss
<1>4. ASSUME oracle.d = {TRUE} PROVE ~dMiss(dHit)
  <2>1. dHit /\ ~dataFetchMiss
    BY <1>4, Zenon DEF NeverMissing
  <2>. QED
    BY <2>1, Zenon DEF dMiss
<1>. QED
  BY <1>2, <1>3, <1>4 DEF DataHits

(* A fetch that begins to miss misses for another cycle, if the latency is  *)
(* not that of one cycle.                                                   *)
LEMMA FetchMissLasts ==
  ASSUME IInv, NEW iHit \in BOOLEAN, NEW dHit \in BOOLEAN, Cycle(iHit, dHit),
         iMiss(iHit), ~instFetchMiss, ~illegalExc, IMissLatency # 1
  PROVE  instFetchMiss'
<1>1. MissTimers(iHit, dHit)
  BY DEF Cycle
<1>2. ~MissDropped(iHit, dHit)
  BY CycleMoves DEF MissDropped, branchInId
<1>3. IMissLatency \in Nat
  BY PipelineAssumption
<1>4. ~Expired(0, IMissLatency)
  BY <1>3 DEF Expired
<1>. QED
  BY <1>1, <1>2, <1>4 DEF MissTimers

(* While a producer in ID or EX has to be followed promptly, no data access *)
(* misses that fetches could wait out.                                      *)
LEMMA PromptNotFrozen ==
  ASSUME MissesApart, IInv, CodeInv, HaltInv, OrderInv, OnPath(exInst), OnPath(memInst),
         MemOrder, NeverMissing,
         NEW iHit \in BOOLEAN, NEW dHit \in BOOLEAN, iHit \in oracle.i, dHit \in oracle.d,
         Cycle(iHit, dHit), dMiss(dHit),
         \/ Real(idInst) /\ Prompt(idInst)
         \/ Real(exInst) /\ ~Real(idInst) /\ Prompt(exInst)
  PROVE  FetchHits
<1>. SUFFICES ASSUME ~FetchHits PROVE FALSE
  OBVIOUS
<1>1. ~DataHits /\ AccessesApart
  BY CycleMisses DEF MissesApart
<1>2. /\ Real(memInst) /\ ~isHalt(memInst) /\ memInst.pc \in Value
      /\ WordAt(memInst.pc).op \in {"lw", "sw"}
  BY DataMissInMem DEF isLoad, isStore, readsMem, writesMem, CodeInv, FromCode, isHalt,
     WordAt, IInv, TypeOK, Instruction
<1>3. NextOf(memInst) \in After(memInst.pc)
  BY NextOnPath
<1>4. \A q \in After(memInst.pc) : ~FeedsNext(q) /\ \A s \in After(q) : ~FeedsNext(s)
  BY <1>1, <1>2 DEF AccessesApart
<1>5. CASE Real(exInst) /\ ~Real(idInst) /\ Prompt(exInst)
  BY <1>1, <1>2, <1>3, <1>4, <1>5 DEF Prompt, MemOrder
<1>6. CASE Real(idInst) /\ Prompt(idInst)
  <2>1. FeedsNext(idInst.pc)
    BY <1>1, <1>6 DEF Prompt
  <2>2. Active(idInst) /\ ~isHalt(idInst)
    <3>1. idInst.word = WordAt(idInst.pc)
      BY <1>6 DEF CodeInv, FromCode, WordAt
    <3>. QED
      BY <2>1, <3>1 DEF FeedsNext, Feeds, CodeInv, FromCode, isHalt
  <2>3. CASE Real(exInst)
    <3>1. idInst.pc \in After(exInst.pc)
      BY <1>6, <2>2, <2>3, BehindOnPath
    <3>2. exInst.pc \in After(memInst.pc)
      BY <1>2, <1>3, <2>3 DEF MemOrder
    <3>. QED
      BY <1>4, <2>1, <3>1, <3>2
  <2>4. CASE ~Real(exInst)
    BY <1>2, <1>3, <1>4, <1>6, <2>1, <2>4 DEF MemOrder
  <2>. QED
    BY <2>3, <2>4
<1>. QED
  BY <1>5, <1>6

(* So what is decoded next comes right behind what is in EX, or waits.      *)
LEMMA CycleKeepsGaps ==
  ASSUME MissesApart, IInv, CodeInv, HaltInv, OrderInv, OnPath(exInst), OnPath(memInst),
         MemOrder, NoGap, NeverMissing,
         NEW iHit \in BOOLEAN, NEW dHit \in BOOLEAN, iHit \in oracle.i, dHit \in oracle.d,
         Cycle(iHit, dHit)
  PROVE  NoGap' /\ NeverMissing'
<1>1. /\ oracle' = oracle /\ (FetchHits => ~iMiss(iHit))
      /\ Prompt(idInst)' <=> Prompt(idInst')
      /\ Prompt(exInst)' <=> Prompt(exInst')
      /\ ifInst \in Instruction /\ PC \in Value /\ EXC_HANDLER \in Value
  <2>1. oracle' = oracle /\ code' = code
    BY DEF Cycle
  <2>2. /\ Prompt(idInst)' <=> Prompt(idInst')
        /\ Prompt(exInst)' <=> Prompt(exInst')
    BY <2>1 DEF Prompt, DataHits, FetchHits, LoadsFeedNoBranch, FeedsNext, After, WordAt
  <2>3. FetchHits => ~iMiss(iHit)
    BY CycleMisses DEF FetchHits
  <2>. QED
    BY <2>1, <2>2, <2>3, SimulatorAssumption DEF IInv, TypeOK, Value
<1>2. NeverMissing'
  BY <1>1, CycleMisses DEF NeverMissing
<1>3. Real(ifInst) \/ (~Real(ifInst) /\ ~Active(ifInst))
  BY DEF CodeInv, Real, Active, nop
<1>4. FromCode(idInst) /\ FromCode(exInst)
  BY DEF CodeInv
<1>5. \A new, inst : Same(new, inst) /\ FromCode(inst) =>
        /\ Real(new) <=> Real(inst)
        /\ isBranchOrJump(new) <=> isBranchOrJump(inst)
  BY DEF Same, FromCode, isBranchOrJump
<1>6. \A inst : Empty(inst) => ~Real(inst)
  BY DEF Empty
<1>7. Real(ifInst') \/ (ifInst' = ifInst)
  BY <1>1, CycleFetches, FetchedFacts DEF Real
<1>8. Real(idInst') => \/ Real(idInst) /\ Same(idInst', idInst) /\ (dMiss(dHit) \/ stall)
                       \/ Real(ifInst) /\ ~dMiss(dHit) /\ ~stall /\ ~iMiss(iHit)
  BY <1>3, <1>4, <1>5, <1>6, CycleKeeps
<1>9. Real(idInst') => Real(ifInst')
  BY <1>7, <1>8 DEF NoGap
<1>10. Real(idInst') /\ ifInst'.status = "SPECULATIVE" => isBranchOrJump(idInst')
  <2>. SUFFICES ASSUME Real(idInst'), ifInst'.status = "SPECULATIVE"
                PROVE  isBranchOrJump(idInst')
    OBVIOUS
  <2>1. CASE ifInst' = ifInst /\ Same(idInst', idInst)
    BY <2>1, <1>4, <1>5 DEF NoGap
  <2>2. CASE branchInId(iHit, dHit, idInst')
    BY <2>2 DEF branchInId
  <2>3. \A pc \in Value : simIF(code, pc).status = "NORMAL"
    BY FetchedFacts
  <2>. QED
    BY <1>1, <1>8, <2>1, <2>2, <2>3, CycleFetches
<1>11. Real(idInst') /\ Prompt(idInst') => ~instFetchMiss'
  <2>. SUFFICES ASSUME Real(idInst'), Prompt(idInst') PROVE ~iMiss(iHit)
    BY CycleMisses
  <2>1. CASE Real(idInst) /\ Same(idInst', idInst) /\ (dMiss(dHit) \/ stall)
    <3>1. Prompt(idInst)
      BY <2>1 DEF Prompt, Same
    <3>2. dMiss(dHit) => FetchHits
      BY <2>1, <3>1, PromptNotFrozen
    <3>. QED
      BY <1>1, <2>1, <3>1, <3>2 DEF NoGap, iMiss, iAccess
  <2>. QED
    BY <2>1, <1>8
<1>12. Real(exInst') /\ ~Real(idInst') /\ ~isBranchOrJump(exInst') /\ Prompt(exInst')
         => instFetchMiss'
  <2>. SUFFICES ASSUME Real(exInst'), ~Real(idInst'), ~isBranchOrJump(exInst'),
                       Prompt(exInst')
                PROVE  instFetchMiss'
    OBVIOUS
  <2>1. CASE dMiss(dHit)
    <3>1. exInst' = exInst /\ Same(idInst', idInst)
      BY <2>1, CycleKeeps
    <3>2. Real(exInst) /\ ~Real(idInst) /\ ~isBranchOrJump(exInst) /\ Prompt(exInst)
      BY <3>1, <1>4, <1>5 DEF Real, isBranchOrJump, Active, Prompt
    <3>3. FetchHits /\ instFetchMiss
      BY <2>1, <3>2, PromptNotFrozen DEF NoGap
    <3>. QED
      BY <3>3 DEF NeverMissing, FetchHits
  <2>2. CASE ~dMiss(dHit)
    <3>1. ~stall /\ ~illegalExc /\ Same(exInst', idInst)
      BY <2>2, <1>6, CycleKeeps
    <3>2. Real(idInst) /\ ~isBranchOrJump(idInst) /\ Prompt(idInst)
      BY <3>1, <1>4, <1>5 DEF Prompt, Same
    <3>3. Real(ifInst) /\ ~WrongPath
      BY <3>2 DEF NoGap, WrongPath
    <3>4. iMiss(iHit)
      BY <2>2, <3>1, <3>3, CycleKeeps
    <3>5. ~instFetchMiss /\ IMissLatency # 1
      BY <1>1, <3>2, <3>4, CycleMisses DEF NoGap, MissesApart, DataHits, AccessesApart
    <3>. QED
      BY <3>1, <3>4, <3>5, FetchMissLasts
  <2>. QED
    BY <2>1, <2>2
<1>. QED
  BY <1>1, <1>2, <1>9, <1>10, <1>11, <1>12 DEF NoGap

(* The branch that stays in ID or enters it is decided on what it will take *)
(* along, unless it is stalled again.                                       *)
LEMMA CycleDecidesLeaving ==
  ASSUME Timely, MissesApart, IInv, CodeInv, HaltInv, OrderInv, TimelyInv,
         NEW iHit \in BOOLEAN, NEW dHit \in BOOLEAN, iHit \in oracle.i, dHit \in oracle.d,
         Cycle(iHit, dHit)
  PROVE  LeavesDecided'
<1>. SUFFICES ASSUME isBranchOrJump(idInst'), ~stall'
              PROVE  idInst'.nextPC = simNextPCResolution(ForwardedID').nextPC
  BY DEF LeavesDecided
<1>1. /\ idInst' \in Operand0 /\ memInst' \in Operand0 /\ exInst' \in Operand0
      /\ idInst' \in Instruction /\ ForwardedID \in Instruction
      /\ memInst \in Operand0 /\ exInst \in Operand0
      /\ Same(ForwardedID, idInst) /\ CodeInv' /\ code' = code
  BY CycleKeepsIInv, CycleKeepsCode, Forwarded, ForwardedSame
     DEF IInv, TypeOK, Operand0, Sound, Cycle
<1>2. \A r : Reads(idInst', r) => ~Writes(exInst', r)
  BY DEF stall, loadHazard, aluBranchHazard, Reads, Writes, writesREG, isLoad, isStore,
     isBranchOrJump, writesMem
<1>. SUFFICES /\ idInst'.nextPC = simNextPCResolution(idInst').nextPC
              /\ \A r : Writes(memInst', r) =>
                   /\ readsRs1(idInst') /\ idInst'.word.rs1 = r => Result(memInst') = idInst'.op1Val
                   /\ readsRs2(idInst') /\ idInst'.word.rs2 = r => Result(memInst') = idInst'.op2Val
  BY <1>1, <1>2, ForwardedOutcome DEF ForwardedID, Reads
<1>3. CASE dMiss(dHit)
  <2>1. idInst' = ForwardedID /\ exInst' = exInst /\ memInst' = memInst
    BY <1>3, CycleMoves DEF NewID, NewEX, NewMEM
  <2>2. isBranchOrJump(idInst)
    BY <1>1, <2>1 DEF Same, isBranchOrJump
  <2>3. ~stall
    <3>1. remainingStallCycles = 0
      <4>1. ~DataHits
        BY <1>3, CycleMisses DEF TimelyInv
      <4>. QED
        BY <4>1 DEF TimelyInv, SecondStall, IInv, TypeOK
    <3>2. ~loadHazard /\ ~aluBranchHazard
      BY <1>1, <2>1 DEF Same, stall, loadHazard, aluBranchHazard, isStore, isBranchOrJump,
         writesMem, readsRs1, readsRs2, Reads
    <3>. QED
      BY <3>1, <3>2 DEF stall
  <2>4. idInst'.nextPC = simNextPCResolution(idInst').nextPC
    BY <2>1, <2>2, <2>3, ForwardedValues DEF TimelyInv, LeavesDecided
  <2>5. ASSUME NEW r, Writes(memInst, r)
        PROVE  /\ readsRs1(idInst') /\ idInst'.word.rs1 = r => Result(memInst) = idInst'.op1Val
               /\ readsRs2(idInst') /\ idInst'.word.rs2 = r => Result(memInst) = idInst'.op2Val
    BY <1>1, <1>2, <2>1, <2>5, ForwardedValues DEF Same, Reads, Forward, readsRs1, readsRs2
  <2>. QED
    BY <2>1, <2>4, <2>5
<1>4. CASE ~dMiss(dHit) /\ ~illegalExc /\ stall
  <2>1. idInst' = simNextPCResolution(ForwardedID) /\ isBranchOrJump(idInst)
    <3>1. Same(simNextPCResolution(ForwardedID), ForwardedID)
      BY <1>1, ResolvedSame
    <3>. QED
      BY <1>1, <1>4, <3>1, CycleMoves DEF NewID, Same, isBranchOrJump
  <2>2. /\ idInst'.word = idInst.word
        /\ idInst'.op1Val = ForwardedID.op1Val /\ idInst'.op2Val = ForwardedID.op2Val
    BY <1>1, <2>1 DEF simNextPCResolution, Instruction, Same
  <2>3. memInst' = simMEM(StoreForwarded, mem) /\ Same(memInst', exInst)
    BY <1>4, CycleMoves, CycleKeeps DEF NewMEM
  <2>4. ASSUME NEW r, Reads(idInst', r), Writes(memInst', r)
        PROVE  Writes(exInst, r) /\ Result(memInst') = exInst.arithResult
    <3>1. Writes(exInst, r)
      BY <2>3, <2>4 DEF Same, Writes, writesREG, writesRd
    <3>2. ~readsMem(exInst)
      <4>. SUFFICES ASSUME readsMem(exInst) PROVE FALSE
        OBVIOUS
      <4>1. loadHazard
        BY <2>1, <2>2, <2>4, <3>1 DEF loadHazard, isLoad, Writes, writesREG, Reads,
           isStore, isBranchOrJump, writesMem, readsRs1, readsRs2
      <4>2. Real(exInst)
        BY <3>1 DEF Writes, writesREG, CodeInv, FromCode
      <4>3. remainingStallCycles = 0
        BY <4>2 DEF TimelyInv, SecondStall, IInv, TypeOK
      <4>4. remainingStallCycles' = 1
        BY <2>1, <4>1, <4>3 DEF Cycle, Hazards
      <4>. QED
        BY <4>4 DEF stall
    <3>3. StoreForwarded \in Instruction /\ mem \in [Address -> Value]
      BY Forwarded DEF Operand0, Sound, IInv, TypeOK
    <3>4. ~readsMem(StoreForwarded) /\ StoreForwarded.arithResult = exInst.arithResult
      BY <3>2, StoreForwardedValues DEF readsMem
    <3>. QED
      BY <2>3, <3>1, <3>3, <3>4, AccessedValues
  <2>5. ASSUME NEW r, Writes(memInst', r)
        PROVE  /\ readsRs1(idInst') /\ idInst'.word.rs1 = r => Result(memInst') = idInst'.op1Val
               /\ readsRs2(idInst') /\ idInst'.word.rs2 = r => Result(memInst') = idInst'.op2Val
    BY <2>2, <2>4, <2>5, ForwardedValues DEF Reads, Forward, readsRs1, readsRs2
  <2>. QED
    BY <1>4, <2>5, CycleDecides
<1>5. CASE ~dMiss(dHit) /\ ~illegalExc /\ ~stall /\ ~iMiss(iHit) /\ ~WrongPath
  <2>1. /\ idInst'.word = ifInst.word /\ Real(ifInst)
        /\ Same(memInst', exInst) /\ Same(exInst', idInst)
    <3>1. FromCode(idInst') /\ (Real(idInst') => Real(ifInst) \/ Active(ifInst))
      <4>1. FromCode(idInst')
        BY <1>1 DEF CodeInv, FromCode
      <4>. QED
        BY <1>5, <4>1, CycleKeeps DEF Empty
    <3>2. Real(ifInst)
      <4>1. Real(ifInst) \/ Active(ifInst)
        BY <3>1 DEF FromCode, isBranchOrJump
      <4>. QED
        BY <4>1 DEF CodeInv, Real, Active, nop
    <3>. QED
      BY <1>5, <3>2, CycleKeeps DEF Empty, isBranchOrJump
  <2>2. ASSUME NEW r, Reads(idInst', r), Writes(memInst', r)
        PROVE  FALSE
    <3>1. ifInst.word.op \in {"beq", "bne", "jalr"} /\ r \in ReadBy(ifInst.word)
      BY <2>1, <2>2 DEF isBranchOrJump, Reads, readsRs1, readsRs2, ReadBy
    <3>2. Writes(exInst, r)
      BY <2>1, <2>2 DEF Same, Writes, writesREG, writesRd
    <3>3. ~instFetchMiss
      BY <1>5 DEF iMiss
    <3>4. PICK s : s \in ReadBy(ifInst.word) /\ Writes(idInst, s)
      BY <1>5, <2>1, <3>1, <3>2, <3>3, DecodedInTime DEF TimelyInv
    <3>5. Reads(idInst', s) /\ Writes(exInst', s)
      BY <2>1, <3>1, <3>4 DEF Same, Reads, readsRs1, readsRs2, ReadBy, Writes, writesREG, writesRd
    <3>. QED
      BY <1>2, <3>5
  <2>. QED
    BY <1>5, <2>2, CycleDecides DEF Reads
<1>. QED
  BY <1>3, <1>4, <1>5, CycleKeeps DEF Empty, isBranchOrJump

(* Every cycle of a timely program leaves all this.                         *)
LEMMA CycleTimely ==
  ASSUME Timely, MissesApart, IInv, CodeInv, HaltInv, OrderInv, TimelyInv,
         NEW iHit \in BOOLEAN, NEW dHit \in BOOLEAN, iHit \in oracle.i, dHit \in oracle.d,
         Cycle(iHit, dHit)
  PROVE  TimelyInv'
<1>1. /\ code' = code /\ (DataHits' <=> DataHits) /\ CodeInv'
      /\ idInst \in Instruction /\ idInst' \in Instruction /\ exInst' \in Instruction
      /\ ForwardedID \in Instruction /\ Same(ForwardedID, idInst)
  BY CycleKeepsIInv, CycleKeepsCode, Forwarded, ForwardedSame
     DEF Cycle, IInv, TypeOK, Operand0, Sound, DataHits
<1>2. \A new, inst : Same(new, inst) =>
        /\ new.pc = inst.pc /\ new.word = inst.word
        /\ isBranchOrJump(new) <=> isBranchOrJump(inst)
  BY DEF Same, isBranchOrJump
<1>3. \A p : After(p)' = After(p)
  BY <1>1 DEF After, WordAt
<1>4. OnPath(idInst)'
  <2>. SUFFICES ASSUME isBranchOrJump(idInst')
                PROVE  idInst'.nextPC \in After(idInst'.pc)
    BY <1>3 DEF OnPath
  <2>1. CASE dMiss(dHit)
    <3>1. Same(idInst', idInst) /\ idInst'.nextPC = idInst.nextPC
      BY <2>1, CycleKeeps, CycleKeepsNextPC
    <3>. QED
      BY <1>2, <3>1 DEF TimelyInv, OnPath
  <2>2. CASE ~dMiss(dHit)
    <3>1. idInst'.word = WordAt(idInst'.pc)
      BY <1>1 DEF CodeInv, FromCode, isBranchOrJump, WordAt
    <3>2. simNextPCResolution(idInst').nextPC \in After(idInst'.pc)
      BY <1>1, <3>1, OutcomeOnPath DEF Timely
    <3>. QED
      BY <2>2, <3>2, CycleDecides
  <2>. QED
    BY <2>1, <2>2
<1>5. OnPath(exInst)' /\ Decided(exInst)'
  <2>1. CASE dMiss(dHit)
    <3>1. exInst' = exInst
      BY <2>1, CycleKeeps
    <3>. QED
      BY <1>3, <3>1 DEF TimelyInv, OnPath, Decided, isBranchOrJump, Active
  <2>2. CASE ~dMiss(dHit) /\ (stall \/ illegalExc)
    <3>1. ~isBranchOrJump(exInst')
      BY <2>2, CycleKeeps DEF Empty, isBranchOrJump
    <3>. QED
      BY <3>1 DEF OnPath, Decided
  <2>3. CASE ~dMiss(dHit) /\ ~stall /\ ~illegalExc
    <3>. SUFFICES ASSUME isBranchOrJump(exInst')
                  PROVE  /\ exInst'.nextPC \in After(exInst'.pc)
                         /\ exInst'.nextPC = simNextPCResolution(exInst').nextPC
      BY <1>3 DEF OnPath, Decided
    <3>1. Same(exInst', idInst) /\ exInst'.nextPC = idInst.nextPC
      BY <2>3, CycleKeeps, CycleKeepsNextPC
    <3>2. isBranchOrJump(idInst) /\ exInst'.pc = idInst.pc /\ exInst'.word = idInst.word
      BY <1>2, <3>1
    <3>3. exInst' = simEX(ForwardedID)
      BY <2>3, CycleMoves DEF NewEX
    <3>4. exInst'.op1Val = ForwardedID.op1Val /\ exInst'.op2Val = ForwardedID.op2Val
      BY <1>1, <3>3, ExecutedValues
    <3>5. simNextPCResolution(exInst').nextPC = simNextPCResolution(ForwardedID).nextPC
      BY <1>1, <1>2, <3>2, <3>4, SameOutcome
    <3>. QED
      BY <2>3, <3>1, <3>2, <3>5 DEF TimelyInv, OnPath, LeavesDecided
  <2>. QED
    BY <2>1, <2>2, <2>3
<1>6. LeavesDecided'
  BY CycleDecidesLeaving
<1>7. SecondStall'
  <2>. SUFFICES ASSUME remainingStallCycles' > 0 PROVE DataHits /\ ~Real(exInst')
    BY <1>1 DEF SecondStall
  <2>1. loadHazard /\ isBranchOrJump(idInst)
    BY DEF Cycle, Hazards, IInv, TypeOK
  <2>2. /\ Active(idInst) /\ ~isHalt(idInst) /\ ~illegalExc /\ Real(idInst)
        /\ idInst.word = WordAt(idInst.pc)
    BY <2>1 DEF isBranchOrJump, isHalt, illegalExc, isLegal, CodeInv, FromCode, WordAt
  <2>3. idInst.word.op \in {"beq", "bne", "jalr"}
    BY <2>1 DEF isBranchOrJump, loadHazard, readsRs1, readsRs2
  <2>4. PICK r : r \in ReadBy(idInst.word) /\ Writes(exInst, r)
    BY <2>1, <2>3 DEF loadHazard, isLoad, Writes, writesREG, writesRd, readsMem, readsRs1,
       readsRs2, ReadBy
  <2>5. /\ Real(exInst) /\ exInst.pc \in Value
        /\ exInst.word = WordAt(exInst.pc) /\ Feeds(exInst.word, idInst.word)
    BY <2>3, <2>4, WriterFeeds
  <2>6. idInst.pc \in After(exInst.pc)
    BY <2>2, <2>5, BehindOnPath DEF TimelyInv
  <2>7. ~LoadsFeedNoBranch
    BY <2>1, <2>2, <2>5, <2>6 DEF LoadsFeedNoBranch, loadHazard, isLoad, readsMem
  <2>8. DataHits
    BY <2>7 DEF MissesApart, FetchHits, AccessesApart
  <2>9. ~dMiss(dHit)
    BY <2>8, CycleMisses DEF TimelyInv
  <2>. QED
    BY <2>1, <2>8, <2>9, CycleKeeps DEF stall, Empty
<1>8. NoGap' /\ NeverMissing'
  BY CycleKeepsGaps DEF TimelyInv
<1>9. OnPath(memInst)' /\ MemOrder'
  BY CycleKeepsMemOrder DEF TimelyInv
<1>. QED
  BY <1>4, <1>5, <1>6, <1>7, <1>8, <1>9 DEF TimelyInv

(* A run of a timely program keeps the flow if misses stay apart.           *)
LEMMA TimelyFlows ==
  Init /\ Timely /\ MissesApart /\ [][Next]_vars /\ []RegisterJumpsFar => []FlowKept
<1>. DEFINE Class == Timely /\ MissesApart
<1>1. Init => FlowInv /\ TimelyInv
  <2>. SUFFICES ASSUME Init PROVE FlowInv /\ TimelyInv
    OBVIOUS
  <2>1. ~Real(nop("IDLE")) /\ ~isBranchOrJump(nop("IDLE"))
    BY DEF Real, isBranchOrJump, Active, nop, NopWord
  <2>2. TimelyInv
    <3>1. /\ OnPath(idInst) /\ OnPath(exInst) /\ OnPath(memInst)
          /\ Decided(exInst) /\ MemOrder /\ LeavesDecided
      BY <2>1 DEF Init, OnPath, Decided, MemOrder, LeavesDecided
    <3>2. SecondStall
      BY DEF Init, SecondStall
    <3>3. NoGap /\ NeverMissing
      BY <2>1 DEF Init, NoGap, NeverMissing
    <3>. QED
      BY <3>1, <3>2, <3>3 DEF TimelyInv
  <2>. QED
    BY <2>2, InitFlows
<1>2. IInv /\ CodeInv /\ HaltInv /\ FlowInv /\ TimelyInv /\ Class /\ [Next]_vars
        => TimelyInv' /\ Class'
  <2>. SUFFICES ASSUME IInv, CodeInv, HaltInv, FlowInv, TimelyInv, Class, [Next]_vars
                PROVE  TimelyInv' /\ Class'
    OBVIOUS
  <2>1. code' = code /\ oracle' = oracle
    BY DEF Next, Halted, Cycle, vars
  <2>2. Class'
    <3>1. Timely'
      BY <2>1 DEF Timely, PlainText, FeedsInTime, After, WordAt
    <3>2. MissesApart'
      BY <2>1 DEF MissesApart, DataHits, FetchHits, AccessesApart, LoadsFeedNoBranch,
         FeedsNext, After, WordAt
    <3>. QED
      BY <3>1, <3>2
  <2>3. ASSUME NEW iHit \in BOOLEAN, NEW dHit \in BOOLEAN,
               iHit \in oracle.i, dHit \in oracle.d, Cycle(iHit, dHit)
        PROVE  TimelyInv'
    BY <2>3, CycleTimely DEF FlowInv
  <2>4. CASE UNCHANGED vars
    <3>1. /\ UNCHANGED <<code, oracle, remainingStallCycles, instFetchMiss, dataFetchMiss>>
          /\ UNCHANGED <<ifInst, idInst, exInst, memInst>>
      BY <2>4 DEF vars, stages, misses
    <3>2. UNCHANGED <<stall, ForwardedID, DataHits>>
      BY <3>1 DEF stall, loadHazard, aluBranchHazard, ForwardedID, DataHits
    <3>3. /\ OnPath(idInst)' /\ OnPath(exInst)' /\ OnPath(memInst)'
          /\ Decided(exInst)' /\ MemOrder'
      BY <3>1 DEF TimelyInv, OnPath, Decided, MemOrder, NextOf, After, WordAt,
             isBranchOrJump, Active, Real, isHalt
    <3>4. LeavesDecided' /\ SecondStall'
      BY <3>1, <3>2 DEF TimelyInv, LeavesDecided, SecondStall, isBranchOrJump, Active, Real
    <3>5. NoGap' /\ NeverMissing'
      BY <3>1, <3>2 DEF TimelyInv, NoGap, NeverMissing, isBranchOrJump, Active, Real,
             Prompt, DataHits, FetchHits, LoadsFeedNoBranch, FeedsNext, After, WordAt
    <3>. QED
      BY <2>2, <3>3, <3>4, <3>5 DEF TimelyInv
  <2>. QED
    BY <2>2, <2>3, <2>4 DEF Next, Halted
<1>3. Class /\ RegisterJumpsFar /\ IInv /\ CodeInv /\ TimelyInv => FlowKept
  BY DecidedKeepsFlow DEF TimelyInv, Timely
<1>4. IInv /\ CodeInv /\ FlowInv /\ FlowKept /\ FlowKept' /\ [Next]_vars => FlowInv'
  BY StepFlows
<1>. HIDE DEF Class
<1>5. Init /\ Class /\ [][Next]_vars /\ []RegisterJumpsFar => []FlowKept
  BY <1>1, <1>2, <1>3, <1>4, HaltsInOrder, PTL
<1>. QED
  BY <1>5 DEF Class

(* A branch right behind what writes its operands (cycle.cpp:231-262) is    *)
(* stalled until it can be decided on them (cycle.cpp:453), for every       *)
(* timely program, as long as data accesses hit and fetches do not miss for *)
(* one cycle, or fetches hit and no branch is right behind its load, or no  *)
(* access comes shortly before such a branch.                               *)
THEOREM PipelineTimelyBranches ==
  Spec /\ Timely /\ MissesApart /\ []RegisterJumpsFar => []BranchesResolved
<1>1. FlowKept => BranchesResolved
  BY DEF FlowKept
<1>. QED
  BY <1>1, TimelyFlows, PTL DEF Spec

(* And without a store right behind a halt the pipeline does with these     *)
(* programs what the machine does.                                          *)
THEOREM PipelineRunsTimelyPrograms ==
  Spec /\ Timely /\ MissesApart /\ HaltsQuietly /\ []RegisterJumpsFar => ImplementsMachine
<1>1. Spec /\ Timely /\ MissesApart /\ HaltsQuietly /\ []RegisterJumpsFar => []NoDeparture
  BY TimelyFlows, QuietRuns, PTL DEF Spec
<1>. QED
  BY <1>1, PipelineImplementsMachine
==============================================================================
