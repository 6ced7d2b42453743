---------------------------- MODULE SimulatorProofs ----------------------------
(***************************************************************************)
(* Facts about the stage functions of Simulator: they keep instructions,   *)
(* registers and memory well typed, and they keep an instruction's word.   *)
(***************************************************************************)
EXTENDS Simulator, TLAPS

(* Additions wrap into a word. *)
LEMMA PlusType ==
  ASSUME NEW a \in Nat, NEW b \in Nat
  PROVE  Plus(a, b) \in Value
<1>1. WordMod \in Nat /\ WordMod > 0
  BY SimulatorAssumption
<1>2. a + b \in Nat
  OBVIOUS
<1>. QED
  BY <1>1, <1>2 DEF Plus, Value

(* Constants are words. *)
LEMMA Words ==
  /\ 0 \in Value
  /\ 1 \in Nat
  /\ Value \subseteq Nat
  /\ 0 \in Reg
  /\ EXC_HANDLER \in Value
  /\ NopWord \in Word
  /\ ZeroWord \in Word
<1>1. 0 \in Value /\ 1 \in Nat /\ Value \subseteq Nat /\ 0 \in Reg /\ EXC_HANDLER \in Value
  BY SimulatorAssumption DEF Value, Reg
<1>. QED
  BY <1>1 DEF NopWord, ZeroWord, Word, Ops

(* An empty slot is a well-typed instruction (nop, cycle.cpp:40). *)
LEMMA NopType ==
  ASSUME NEW status \in StageStatus
  PROVE  nop(status) \in Instruction
BY Words DEF nop, Instruction

(* Whatever is fetched is a word, also outside the program. *)
LEMMA FetchType ==
  ASSUME NEW code, IsProgram(code), NEW pc \in Value
  PROVE  simFetch(code, pc) \in Word /\ simIF(code, pc) \in Instruction
<1>1. simFetch(code, pc) \in Word
  BY Words DEF simFetch, IsProgram
<1>2. nop("NORMAL") \in Instruction
  BY NopType DEF StageStatus
<1>. QED
  BY <1>1, <1>2 DEF simIF, Instruction

(* A register read is a value. *)
LEMMA ReadRegType ==
  ASSUME NEW regs \in [Reg -> Value], NEW r \in Reg
  PROVE  ReadReg(regs, r) \in Value
BY Words DEF ReadReg

(* The resolved next PC is a value. *)
LEMMA NextPCType ==
  ASSUME NEW inst \in Instruction
  PROVE  simNextPCResolution(inst) \in Instruction
<1>1. /\ Plus(inst.op1Val, inst.word.imm) \in Value
      /\ Plus(inst.pc, inst.word.imm) \in Value
      /\ Plus(inst.pc, 1) \in Value
  BY PlusType, Words DEF Instruction, Word
<1>. QED
  BY <1>1 DEF simNextPCResolution, Instruction

(* Collected operands are values. *)
LEMMA OperandsType ==
  ASSUME NEW inst \in Instruction, NEW regs \in [Reg -> Value]
  PROVE  simOperandCollection(inst, regs) \in Instruction
<1>1. ReadReg(regs, inst.word.rs1) \in Value /\ ReadReg(regs, inst.word.rs2) \in Value
  BY ReadRegType DEF Instruction, Word
<1>. QED
  BY <1>1 DEF simOperandCollection, Instruction

(* Decoding keeps an instruction well typed. *)
LEMMA DecodeType ==
  ASSUME NEW inst \in Instruction
  PROVE  simDecode(inst) \in Instruction
BY DEF simDecode, Instruction

(* So does the ID stage, *)
LEMMA IDType ==
  ASSUME NEW inst \in Instruction, NEW regs \in [Reg -> Value]
  PROVE  simID(inst, regs) \in Instruction
<1>. DEFINE decoded == simDecode(inst)
            resolved == simNextPCResolution(simOperandCollection(decoded, regs))
<1>1. decoded \in Instruction /\ resolved \in Instruction
  BY DecodeType, OperandsType, NextPCType
<1>2. [resolved EXCEPT !.status = "NORMAL"] \in Instruction
  BY <1>1 DEF Instruction, StageStatus
<1>. QED
  BY <1>1, <1>2 DEF simID

(* and so do arithmetic, *)
LEMMA ArithType ==
  ASSUME NEW inst \in Instruction
  PROVE  simArithLogic(inst) \in Instruction
<1>1. /\ Plus(inst.op1Val, inst.op2Val) \in Value
      /\ Plus(inst.op1Val, inst.word.imm) \in Value
      /\ Plus(inst.pc, 1) \in Value
      /\ inst.word.imm \in Value
  BY PlusType, Words DEF Instruction, Word
<1>. QED
  BY <1>1 DEF simArithLogic, Instruction

(* address generation, *)
LEMMA AddrGenType ==
  ASSUME NEW inst \in Instruction
  PROVE  simAddrGen(inst) \in Instruction
<1>1. Plus(inst.op1Val, inst.word.imm) \in Value
  BY PlusType, Words DEF Instruction, Word
<1>. QED
  BY <1>1 DEF simAddrGen, Instruction

(* the EX stage, *)
LEMMA EXType ==
  ASSUME NEW inst \in Instruction
  PROVE  simEX(inst) \in Instruction
<1>. DEFINE computed == IF doesArithLogic(inst) THEN simArithLogic(inst) ELSE inst
            addressed == IF readsMem(inst) \/ writesMem(inst)
                         THEN simAddrGen(computed) ELSE computed
<1>1. computed \in Instruction
  BY ArithType
<1>2. addressed \in Instruction
  BY <1>1, AddrGenType
<1>3. [addressed EXCEPT !.status = "NORMAL"] \in Instruction
  BY <1>2 DEF Instruction, StageStatus
<1>. HIDE DEF computed, addressed
<1>. QED
  BY <1>3 DEF simEX, computed, addressed

(* A load returns a value, also from outside the memory, and a failed one   *)
(* is never seen as failed: -EINVAL is not EINVAL (simulator.cpp:410).      *)
LEMMA MemAccessType ==
  ASSUME NEW inst \in Instruction, NEW mem \in [Address -> Value]
  PROVE  /\ simMemAccess(inst, mem) \in Instruction
         /\ readsMem(inst) => simMemAccess(inst, mem).memException = FALSE
<1>1. /\ getMemValue(mem, inst.memAddress).value \in Value
      /\ getMemValue(mem, inst.memAddress).ret # EINVAL
  BY Words DEF getMemValue, EINVAL, Instruction
<1>. QED
  BY <1>1 DEF simMemAccess, Instruction

(* the MEM stage, *)
LEMMA MEMType ==
  ASSUME NEW inst \in Instruction, NEW mem \in [Address -> Value]
  PROVE  simMEM(inst, mem) \in Instruction
<1>1. simMemAccess(inst, mem) \in Instruction
  BY MemAccessType
<1>2. [simMemAccess(inst, mem) EXCEPT !.status = "NORMAL"] \in Instruction
  BY <1>1 DEF Instruction, StageStatus
<1>. QED
  BY <1>2 DEF simMEM

(* and the WB stage. *)
LEMMA WBType ==
  ASSUME NEW inst \in Instruction
  PROVE  simWB(inst) \in Instruction
BY DEF simWB, Instruction, StageStatus

(* The state that MEM and WB leave behind. *)
LEMMA MemAfterType ==
  ASSUME NEW inst \in Instruction, NEW mem \in [Address -> Value]
  PROVE  MemAfter(inst, mem) \in [Address -> Value]
BY DEF MemAfter, setMemValue, Instruction

(* Register writes keep the register file well typed. *)
LEMMA RegsAfterType ==
  ASSUME NEW inst \in Instruction, NEW regs \in [Reg -> Value]
  PROVE  RegsAfter(inst, regs) \in [Reg -> Value]
BY DEF RegsAfter, Result, Instruction, Word
==============================================================================
