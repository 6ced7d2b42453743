------------------------------ MODULE FunctProofs ------------------------------
(***************************************************************************)
(* The functional simulator implements the machine, for every program and  *)
(* every size of words, register file and memory.                          *)
(***************************************************************************)
EXTENDS Funct, SimulatorProofs

(* What simInstruction returns is an instruction, its word the fetched one. *)
LEMMA SimInstructionType ==
  ASSUME TypeOK
  PROVE  simInstruction(PC) \in Instruction
<1>. DEFINE decoded  == simDecode(simIF(code, PC))
            resolved == simNextPCResolution(simOperandCollection(decoded, regs))
            computed == IF doesArithLogic(resolved) THEN simArithLogic(resolved)
                                                    ELSE resolved
<1>1. decoded \in Instruction
  BY FetchType, DecodeType DEF TypeOK
<1>2. resolved \in Instruction
  BY <1>1, OperandsType, NextPCType DEF TypeOK
<1>. HIDE DEF resolved
<1>3. computed \in Instruction
  BY <1>2, ArithType
<1>. HIDE DEF computed
<1>4. simMemAccess(simAddrGen(computed), mem) \in Instruction
  BY <1>3, AddrGenType, MemAccessType DEF TypeOK
<1>. QED
  BY <1>1, <1>3, <1>4 DEF simInstruction, resolved, computed

(* The state stays well typed: no program drives the simulator out of its   *)
(* registers, its memory or its address space.                              *)
THEOREM FunctTypeCorrect == Spec => []TypeOK
<1>1. Init => TypeOK
  BY FunctAssumption, Words DEF Init, TypeOK
<1>2. TypeOK /\ [Next]_vars => TypeOK'
  <2>. SUFFICES ASSUME TypeOK, [Next]_vars
                PROVE  TypeOK'
    OBVIOUS
  <2>1. CASE runInstructions
    <3>. DEFINE inst == simInstruction(PC)
    <3>1. inst \in Instruction
      BY SimInstructionType
    <3>. HIDE DEF inst
    <3>2. setMemValue(mem, inst.memAddress, inst.op2Val) \in [Address -> Value]
      BY <3>1 DEF setMemValue, TypeOK, Instruction
    <3>3. Result(inst) \in Value
      BY <3>1 DEF Result, Instruction
    <3>. QED
      BY <2>1, <3>1, <3>2, <3>3 DEF runInstructions, TypeOK, inst, Instruction, Word
  <2>2. CASE UNCHANGED vars
    BY <2>2 DEF TypeOK, vars
  <2>. QED
    BY <2>1, <2>2 DEF Next, Stopped
<1>. QED
  BY <1>1, <1>2, PTL DEF Spec

------------------------------------------------------------------------------
(* What simInstruction computes, in terms of the word w at pc and of the    *)
(* values v1 and v2 that the registers it names read as.                    *)

Resolved(pc) == simNextPCResolution(simOperandCollection(simDecode(simIF(code, pc)), regs))
Computed(pc) == IF doesArithLogic(Resolved(pc)) THEN simArithLogic(Resolved(pc)) ELSE Resolved(pc)

(* After next-PC resolution an instruction holds the values of its operands. *)
LEMMA ResolvedFacts ==
  ASSUME TypeOK, NEW w, w = simFetch(code, PC), w \in Word,
         NEW v1, v1 = ReadReg(regs, w.rs1), NEW v2, v2 = ReadReg(regs, w.rs2)
  PROVE  /\ Resolved(PC) \in Instruction
         /\ Resolved(PC).word = w /\ Resolved(PC).pc = PC
         /\ readsRs1(Resolved(PC)) => Resolved(PC).op1Val = v1
         /\ readsRs2(Resolved(PC)) => Resolved(PC).op2Val = v2
         /\ w.op = "jalr" => Resolved(PC).nextPC = Plus(v1, w.imm)
         /\ w.op = "jal" => Resolved(PC).nextPC = Plus(PC, w.imm)
         /\ w.op = "beq" => Resolved(PC).nextPC = IF v1 = v2 THEN Plus(PC, w.imm) ELSE Plus(PC, 1)
         /\ w.op = "bne" => Resolved(PC).nextPC = IF v1 # v2 THEN Plus(PC, w.imm) ELSE Plus(PC, 1)
         /\ w.op \notin {"jalr", "jal", "beq", "bne"} => Resolved(PC).nextPC = Plus(PC, 1)
<1>. DEFINE decoded == simDecode(simIF(code, PC))
            operands == simOperandCollection(decoded, regs)
<1>1. decoded \in Instruction /\ decoded.word = w /\ decoded.pc = PC
  <2>1. simIF(code, PC) \in Instruction
    BY FetchType DEF TypeOK
  <2>2. simIF(code, PC).word = w /\ simIF(code, PC).pc = PC
    BY DEF simIF, nop
  <2>. QED
    BY <2>1, <2>2, DecodeType DEF simDecode, Instruction
<1>2. /\ operands \in Instruction /\ operands.word = w /\ operands.pc = PC
      /\ readsRs1(operands) => operands.op1Val = v1
      /\ readsRs2(operands) => operands.op2Val = v2
  <2>. HIDE DEF decoded
  <2>1. operands \in Instruction
    BY <1>1, OperandsType DEF TypeOK
  <2>. QED
    BY <1>1, <2>1 DEF simOperandCollection, Instruction, readsRs1, readsRs2
<1>. HIDE DEF operands
<1>3. simNextPCResolution(operands) \in Instruction
  BY <1>2, NextPCType
<1>. QED
  BY <1>2, <1>3 DEF Resolved, operands, simNextPCResolution, BranchTaken, Instruction,
                    readsRs1, readsRs2

(* What the arithmetic of an instruction computes, word by word. *)
LEMMA ComputedFacts ==
  ASSUME TypeOK, NEW w, w = simFetch(code, PC), w \in Word,
         NEW v1, v1 = ReadReg(regs, w.rs1), NEW v2, v2 = ReadReg(regs, w.rs2)
  PROVE  /\ Computed(PC) \in Instruction
         /\ Computed(PC).word = w
         /\ Computed(PC).nextPC = Resolved(PC).nextPC
         /\ readsRs1(Computed(PC)) => Computed(PC).op1Val = v1
         /\ readsRs2(Computed(PC)) => Computed(PC).op2Val = v2
         /\ w.op = "add" => Computed(PC).arithResult = Plus(v1, v2)
         /\ w.op = "addi" => Computed(PC).arithResult = Plus(v1, w.imm)
         /\ w.op = "lui" => Computed(PC).arithResult = w.imm
         /\ w.op \in {"jal", "jalr"} => Computed(PC).arithResult = Plus(PC, 1)
<1>1. /\ Resolved(PC) \in Instruction
      /\ Resolved(PC).word = w /\ Resolved(PC).pc = PC
      /\ readsRs1(Resolved(PC)) => Resolved(PC).op1Val = v1
      /\ readsRs2(Resolved(PC)) => Resolved(PC).op2Val = v2
  BY ResolvedFacts
<1>2. Computed(PC) \in Instruction
  BY <1>1, ArithType DEF Computed
<1>. QED
  BY <1>1, <1>2 DEF Computed, simArithLogic, doesArithLogic, readsRs1, readsRs2, Instruction

(* One step of runInstructions on a word that is executed.                  *)
LEMMA ExecutedStep ==
  ASSUME TypeOK, runInstructions, NEW w, w = simFetch(code, PC), w \in Word,
         w.op \notin {"halt", "illegal"},
         NEW v1, v1 = ReadReg(regs, w.rs1), NEW v2, v2 = ReadReg(regs, w.rs2)
  PROVE  /\ code' = code /\ status' = "SUCCESS"
         /\ PC' = Resolved(PC).nextPC
         /\ mem' = IF w.op = "sw" THEN setMemValue(mem, Plus(v1, w.imm), v2) ELSE mem
         /\ w.op = "add" => regs' = [regs EXCEPT ![w.rd] = Plus(v1, v2)]
         /\ w.op = "addi" => regs' = [regs EXCEPT ![w.rd] = Plus(v1, w.imm)]
         /\ w.op = "lui" => regs' = [regs EXCEPT ![w.rd] = w.imm]
         /\ w.op \in {"jal", "jalr"} => regs' = [regs EXCEPT ![w.rd] = Plus(PC, 1)]
         /\ w.op = "lw" =>
              regs' = [regs EXCEPT ![w.rd] = getMemValue(mem, Plus(v1, w.imm)).value]
         /\ w.op \in {"nop", "sw", "beq", "bne"} => regs' = regs
<1>. DEFINE inst == simInstruction(PC)
            decoded == simDecode(simIF(code, PC))
            addressed == simAddrGen(Computed(PC))
<1>1. decoded.word = w
  BY DEF simDecode, simIF, nop
<1>2. inst = IF readsMem(Computed(PC)) \/ writesMem(Computed(PC))
             THEN simMemAccess(addressed, mem) ELSE Computed(PC)
  <2>1. ~NotExecuted(decoded)
    BY <1>1 DEF NotExecuted, isHalt, isLegal
  <2>. QED
    BY <2>1 DEF simInstruction, Computed, Resolved
<1>. HIDE DEF inst, decoded
<1>3. /\ Computed(PC) \in Instruction /\ Computed(PC).word = w
      /\ Computed(PC).nextPC = Resolved(PC).nextPC
      /\ readsRs1(Computed(PC)) => Computed(PC).op1Val = v1
      /\ readsRs2(Computed(PC)) => Computed(PC).op2Val = v2
  BY ComputedFacts
<1>4. CASE w.op \in {"lw", "sw"}
  <2>1. /\ addressed \in Instruction /\ addressed.word = w
        /\ addressed.memAddress = Plus(v1, w.imm)
        /\ addressed.nextPC = Resolved(PC).nextPC
        /\ w.op = "sw" => addressed.op2Val = v2
    BY <1>3, <1>4, AddrGenType DEF simAddrGen, Instruction, readsRs1, readsRs2
  <2>. HIDE DEF addressed
  <2>2. /\ inst.word = w /\ inst.nextPC = Resolved(PC).nextPC
        /\ inst.memAddress = Plus(v1, w.imm)
        /\ w.op = "sw" => inst.op2Val = v2
        /\ w.op = "lw" => inst.memResult = getMemValue(mem, Plus(v1, w.imm)).value
    BY <1>2, <1>3, <1>4, <2>1 DEF simMemAccess, readsMem, writesMem, Instruction
  <2>. QED
    BY <2>2, <1>4 DEF runInstructions, inst, isHalt, isLegal, writesMem, writesRd, Result, readsMem
<1>5. CASE w.op \notin {"lw", "sw"}
  <2>1. inst = Computed(PC)
    BY <1>2, <1>3, <1>5 DEF readsMem, writesMem
  <2>2. /\ w.op = "add" => inst.arithResult = Plus(v1, v2)
        /\ w.op = "addi" => inst.arithResult = Plus(v1, w.imm)
        /\ w.op = "lui" => inst.arithResult = w.imm
        /\ w.op \in {"jal", "jalr"} => inst.arithResult = Plus(PC, 1)
    BY <2>1, ComputedFacts
  <2>3. inst.word = w /\ inst.nextPC = Resolved(PC).nextPC
    BY <2>1, <1>3
  <2>4. w.op \in Ops
    BY DEF Word
  <2>5. code' = code /\ status' = "SUCCESS" /\ PC' = Resolved(PC).nextPC /\ mem' = mem
    BY <2>3, <1>5 DEF runInstructions, inst, isHalt, isLegal, writesMem
  <2>6. regs' = IF writesRd(inst) THEN [regs EXCEPT ![w.rd] = inst.arithResult] ELSE regs
    BY <2>3, <1>5 DEF runInstructions, inst, Result, readsMem
  <2>. HIDE DEF addressed
  <2>. QED
    BY <2>2, <2>3, <2>4, <2>5, <2>6, <1>5 DEF writesRd
<1>. QED
  BY <1>4, <1>5

------------------------------------------------------------------------------
(* The machine's registers, and what a write does to them. *)
LEMMA MachineRegsRead ==
  ASSUME TypeOK, NEW r \in Reg
  PROVE  MachineRegs[r] = ReadReg(regs, r)
BY DEF MachineRegs, ReadReg, TypeOK

(* A write to the register file is the machine's write, none for x0. *)
LEMMA MachineRegsWritten ==
  ASSUME TypeOK, NEW r \in Reg, NEW value \in Value, regs' = [regs EXCEPT ![r] = value]
  PROVE  MachineRegs' = IF r = 0 THEN MachineRegs ELSE [MachineRegs EXCEPT ![r] = value]
BY DEF MachineRegs, TypeOK

(* The functional simulator computes what the machine computes: on every    *)
(* program, each call of simInstruction has the effect of the machine's one *)
(* action for that word, and the stop at an illegal word changes nothing.   *)
THEOREM FunctImplementsMachine == Spec => ImplementsMachine
<1>1. Init => ISA!Init
  <2>. SUFFICES ASSUME Init PROVE ISA!Init
    OBVIOUS
  <2>1. MachinePC = ISA!Vector(0)
    BY DEF Init, MachinePC, ISA!Vector, ISA!At, isLegal, simIF, nop, simFetch,
           ZeroWord, ISA!ZeroWord
  <2>2. MachineRegs = [r \in Reg |-> 0]
    BY DEF Init, MachineRegs
  <2>. QED
    BY <2>1, <2>2 DEF Init, ISA!Init, ISA!Reg, Reg
<1>2. TypeOK /\ [Next]_vars => [ISA!Next]_ISA!vars
  <2>. SUFFICES ASSUME TypeOK, [Next]_vars
                PROVE  ISA!Next \/ UNCHANGED ISA!vars
    OBVIOUS
  <2>1. CASE runInstructions
    <3>. DEFINE w == simFetch(code, PC)
                v1 == ReadReg(regs, w.rs1)
                v2 == ReadReg(regs, w.rs2)
    <3>1. w \in Word /\ w.op \in Ops /\ w.rd \in Reg /\ w.imm \in Value /\ v1 \in Value /\ v2 \in Value
      BY FetchType, ReadRegType DEF TypeOK, Word
    <3>2. simIF(code, PC).word = w
      BY DEF simIF, nop
    <3>3. CASE w.op = "illegal"
      <4>1. simInstruction(PC).nextPC = 0 /\ simInstruction(PC).word = w
        BY <3>2, <3>3 DEF simInstruction, NotExecuted, isLegal, simDecode, simIF, nop
      <4>2. status' = "ERROR" /\ regs' = regs /\ mem' = mem /\ code' = code /\ status = "SUCCESS"
        BY <2>1, <4>1, <3>3 DEF runInstructions, isHalt, isLegal, writesMem, writesRd
      <4>3. MachinePC = EXC_HANDLER /\ MachinePC' = EXC_HANDLER
        BY <3>2, <3>3, <4>2 DEF MachinePC, isLegal
      <4>. QED
        BY <4>2, <4>3 DEF ISA!vars, MachineRegs
    <3>4. CASE w.op = "halt"
      <4>1. simInstruction(PC).word = w
        BY <3>2, <3>4 DEF simInstruction, NotExecuted, isHalt, simDecode, simIF, nop
      <4>2. status' = "HALT" /\ regs' = regs /\ mem' = mem /\ code' = code /\ status = "SUCCESS"
        BY <2>1, <4>1, <3>4 DEF runInstructions, isHalt, writesMem, writesRd
      <4>3. MachinePC = PC /\ MachinePC' = 0
        BY <3>2, <3>4, <4>2 DEF MachinePC, isLegal
      <4>. QED
        BY <4>2, <4>3, <3>4
           DEF ISA!Next, ISA!Halt, ISA!word, ISA!At, simFetch, ZeroWord, ISA!ZeroWord, MachineRegs
    <3>5. CASE w.op \notin {"halt", "illegal"}
      <4>1. MachinePC = PC /\ status = "SUCCESS"
        BY <2>1, <3>2, <3>5 DEF MachinePC, isLegal, runInstructions
      <4>2. ISA!word = w
        BY <4>1 DEF ISA!word, ISA!At, simFetch, ISA!ZeroWord, ZeroWord
      <4>3. ISA!rs1Value = v1 /\ ISA!rs2Value = v2
        BY <4>2, <3>1, MachineRegsRead DEF ISA!rs1Value, ISA!rs2Value, Word
      <4>4. ISA!target = Plus(PC, w.imm)
        BY <4>1, <4>2 DEF ISA!target, ISA!Plus, Plus
      <4>5. code' = code /\ status' = "SUCCESS" /\ PC' = Resolved(PC).nextPC
        BY <2>1, <3>1, <3>5, ExecutedStep
      <4>6. ISA!GoTo(PC')
        <5>1. MachinePC' = ISA!Vector(PC')
          BY <4>5 DEF MachinePC, ISA!Vector, ISA!At, isLegal, simIF, nop, simFetch,
                 ZeroWord, ISA!ZeroWord
        <5>. QED
          BY <5>1, <4>1, <4>5 DEF ISA!GoTo
      <4>7. \A value \in Value : regs' = [regs EXCEPT ![w.rd] = value] => ISA!SetReg(w.rd, value)
        BY <3>1, MachineRegsWritten DEF ISA!SetReg
      <4>8. mem' = IF w.op = "sw" THEN setMemValue(mem, Plus(v1, w.imm), v2) ELSE mem
        BY <2>1, <3>1, <3>5, ExecutedStep
      <4>9. regs' = regs => MachineRegs' = MachineRegs
        BY DEF MachineRegs
      <4>10. PC \in Nat /\ v1 \in Nat /\ v2 \in Nat /\ w.imm \in Nat
        BY <3>1, Words DEF TypeOK
      <4>11. \A a, b : ISA!Plus(a, b) = Plus(a, b)
        BY DEF ISA!Plus, Plus
      <4>12. ~(status = "HALT")
        BY <4>1
      <4>. HIDE DEF w, v1, v2
      <4>20. CASE w.op = "nop"
        <5>1. PC' = Plus(PC, 1) /\ regs' = regs
          BY <2>1, <3>1, <3>5, <4>5, <4>20, ResolvedFacts, ExecutedStep DEF w, v1, v2
        <5>. QED
          BY <5>1, <4>1, <4>2, <4>6, <4>8, <4>9, <4>11, <4>12, <4>20 DEF ISA!Next, ISA!Nop
      <4>21. CASE w.op \in {"add", "addi", "lui"}
        <5>1. PC' = Plus(PC, 1)
          BY <2>1, <3>1, <3>5, <4>5, <4>21, ResolvedFacts DEF w, v1, v2
        <5>2. /\ w.op = "add" => ISA!SetReg(w.rd, Plus(v1, v2))
              /\ w.op = "addi" => ISA!SetReg(w.rd, Plus(v1, w.imm))
              /\ w.op = "lui" => ISA!SetReg(w.rd, w.imm)
          <6>1. Plus(v1, v2) \in Value /\ Plus(v1, w.imm) \in Value /\ w.imm \in Value
            BY <3>1, <4>10, PlusType
          <6>2. /\ w.op = "add" => regs' = [regs EXCEPT ![w.rd] = Plus(v1, v2)]
                /\ w.op = "addi" => regs' = [regs EXCEPT ![w.rd] = Plus(v1, w.imm)]
                /\ w.op = "lui" => regs' = [regs EXCEPT ![w.rd] = w.imm]
            BY <2>1, <3>1, <3>5, ExecutedStep DEF w, v1, v2
          <6>. QED
            BY <6>1, <6>2, <4>7
        <5>. QED
          BY <5>1, <5>2, <4>1, <4>2, <4>3, <4>6, <4>8, <4>11, <4>12, <4>21
             DEF ISA!Next, ISA!Arithmetic
      <4>22. CASE w.op = "lw"
        <5>. DEFINE value == getMemValue(mem, Plus(v1, w.imm)).value
        <5>1. PC' = Plus(PC, 1)
          BY <2>1, <3>1, <3>5, <4>5, <4>22, ResolvedFacts DEF w, v1, v2
        <5>2. regs' = [regs EXCEPT ![w.rd] = value]
          BY <2>1, <3>1, <3>5, <4>22, ExecutedStep DEF w, v1, v2
        <5>3. value = IF Plus(v1, w.imm) \in Address THEN mem[Plus(v1, w.imm)] ELSE 0
          BY DEF getMemValue
        <5>4. value \in Value
          BY <5>3, Words DEF TypeOK
        <5>. HIDE DEF value
        <5>5. ISA!SetReg(w.rd, value)
          BY <5>2, <5>4, <4>7
        <5>6. ISA!Address = Address
          BY DEF ISA!Address, Address
        <5>. QED
          BY <5>1, <5>3, <5>5, <5>6, <4>1, <4>2, <4>3, <4>6, <4>8, <4>11, <4>12, <4>22
             DEF ISA!Next, ISA!Load
      <4>23. CASE w.op = "sw"
        <5>1. PC' = Plus(PC, 1) /\ regs' = regs
          BY <2>1, <3>1, <3>5, <4>5, <4>23, ResolvedFacts, ExecutedStep DEF w, v1, v2
        <5>2. ISA!Address = Address
          BY DEF ISA!Address, Address
        <5>. QED
          BY <5>1, <5>2, <4>1, <4>2, <4>3, <4>6, <4>8, <4>9, <4>11, <4>12, <4>23
             DEF ISA!Next, ISA!Store, setMemValue
      <4>24. CASE w.op \in {"beq", "bne"}
        <5>1. /\ w.op = "beq" => PC' = IF v1 = v2 THEN Plus(PC, w.imm) ELSE Plus(PC, 1)
              /\ w.op = "bne" => PC' = IF v1 # v2 THEN Plus(PC, w.imm) ELSE Plus(PC, 1)
              /\ regs' = regs
          BY <2>1, <3>1, <3>5, <4>5, <4>24, ResolvedFacts, ExecutedStep DEF w, v1, v2
        <5>. QED
          BY <5>1, <4>1, <4>2, <4>3, <4>4, <4>6, <4>8, <4>9, <4>11, <4>12, <4>24
             DEF ISA!Next, ISA!Branch
      <4>25. CASE w.op \in {"jal", "jalr"}
        <5>1. /\ w.op = "jal" => PC' = Plus(PC, w.imm)
              /\ w.op = "jalr" => PC' = Plus(v1, w.imm)
              /\ regs' = [regs EXCEPT ![w.rd] = Plus(PC, 1)]
          BY <2>1, <3>1, <3>5, <4>5, <4>25, ResolvedFacts, ExecutedStep DEF w, v1, v2
        <5>2. ISA!SetReg(w.rd, Plus(PC, 1))
          BY <5>1, <4>7, <4>10, PlusType, Words
        <5>. QED
          BY <5>1, <5>2, <4>1, <4>2, <4>3, <4>4, <4>6, <4>8, <4>11, <4>12, <4>25
             DEF ISA!Next, ISA!Jump
      <4>. QED
        BY <3>1, <3>5, <4>20, <4>21, <4>22, <4>23, <4>24, <4>25 DEF Ops
    <3>. QED
      BY <3>3, <3>4, <3>5
  <2>2. CASE UNCHANGED vars
    BY <2>2 DEF vars, ISA!vars, MachinePC, MachineRegs
  <2>. QED
    BY <2>1, <2>2 DEF Next, Stopped
<1>. QED
  BY <1>1, <1>2, FunctTypeCorrect, PTL DEF Spec, ImplementsMachine, ISA!Spec
==============================================================================
