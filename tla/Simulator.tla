------------------------------ MODULE Simulator ------------------------------
(***************************************************************************)
(* The stage functions of src/simulator.cpp that both simulators call:     *)
(* fetch, decode, operand collection, next-PC resolution, execution,       *)
(* memory access and commit, as constant operators on one instruction.     *)
(*                                                                         *)
(* Data is abstracted to what the pipeline can tell apart.  An instruction *)
(* word is a record [op, rd, rs1, rs2, imm] with one op per class of the   *)
(* decoder's switch.  A register holds a number below WordMod.  A PC       *)
(* counts instructions, so the code's PC + 4 is Plus(PC, 1).  Memory keeps *)
(* code and data apart, and its data part has MemSize cells.               *)
(***************************************************************************)
EXTENDS Integers

CONSTANTS
  WordMod,       (* registers, addresses and PCs are numbers modulo WordMod  *)
  NumRegs,       (* number of architectural registers, x0 included           *)
  MemSize,       (* data addresses 0 .. MemSize-1 exist, the others do not   *)
  EXC_HANDLER    (* PC of the exception handler                              *)

ASSUME SimulatorAssumption ==
  /\ WordMod \in Nat \ {0, 1}
  /\ NumRegs \in Nat \ {0}
  /\ MemSize \in 0 .. WordMod
  /\ EXC_HANDLER \in 0 .. WordMod - 1

Value   == 0 .. WordMod - 1
Reg     == 0 .. NumRegs - 1
Address == 0 .. MemSize - 1

(* uint64_t addition: it wraps. *)
Plus(a, b) == (a + b) % WordMod

------------------------------------------------------------------------------
(* Instruction words: the classes that simDecode tells apart. *)

Ops == {"add", "addi", "lui", "lw", "sw", "beq", "bne", "jal", "jalr",
        "nop", "halt", "illegal"}

Word == [op : Ops, rd : Reg, rs1 : Reg, rs2 : Reg, imm : Value]

NopWord  == [op |-> "nop", rd |-> 0, rs1 |-> 0, rs2 |-> 0, imm |-> 0]
(* Memory that holds no code is zero, and 0 is not a legal encoding. *)
ZeroWord == [op |-> "illegal", rd |-> 0, rs1 |-> 0, rs2 |-> 0, imm |-> 0]

StageStatus == {"NORMAL", "BUBBLE", "IDLE", "SPECULATIVE", "SQUASHED"}

(* struct Simulator::Instruction.  The flags that decoding derives from the  *)
(* encoding alone are the operators below; isNop is also set by nop().      *)
Instruction ==
  [pc : Value, word : Word, isNop : BOOLEAN, nextPC : Value,
   op1Val : Value, op2Val : Value, arithResult : Value, memAddress : Value,
   memException : BOOLEAN, memResult : Value, status : StageStatus]

isHalt(inst)    == inst.word.op = "halt"
isLegal(inst)   == inst.word.op # "illegal"
readsMem(inst)  == inst.word.op = "lw"
writesMem(inst) == inst.word.op = "sw"
doesArithLogic(inst) == inst.word.op \in {"add", "addi", "lui", "jal", "jalr"}
writesRd(inst)  == inst.word.op \in {"add", "addi", "lui", "jal", "jalr", "lw"}
readsRs1(inst)  == inst.word.op \in {"add", "addi", "lw", "sw", "beq", "bne", "jalr"}
readsRs2(inst)  == inst.word.op \in {"add", "sw", "beq", "bne"}

(* An empty slot of the pipeline, nop(status) in src/cycle.cpp. *)
nop(status) ==
  [pc |-> 0, word |-> NopWord, isNop |-> TRUE, nextPC |-> 0,
   op1Val |-> 0, op2Val |-> 0, arithResult |-> 0, memAddress |-> 0,
   memException |-> FALSE, memResult |-> 0, status |-> status]

------------------------------------------------------------------------------
(* Fetch, decode, operands, next PC. *)

IsProgram(code) == /\ DOMAIN code \subseteq Value
                   /\ \A pc \in DOMAIN code : code[pc] \in Word

simFetch(code, pc) == IF pc \in DOMAIN code THEN code[pc] ELSE ZeroWord

simIF(code, pc) ==
  [nop("NORMAL") EXCEPT !.pc = pc, !.word = simFetch(code, pc), !.isNop = FALSE]

simDecode(inst) == [inst EXCEPT !.isNop = (inst.word.op = "nop")]

(* Mutant of ReadReg: x0 reads as registers[0]. *)
ReadRawReg(regs, r) == regs[r]

(* Register reads see x0 as zero whatever registers[0] holds. *)
ReadReg(regs, r) == IF r = 0 THEN 0 ELSE regs[r]

simOperandCollection(inst, regs) ==
  [inst EXCEPT
     !.op1Val = IF readsRs1(inst) THEN ReadReg(regs, inst.word.rs1) ELSE @,
     !.op2Val = IF readsRs2(inst) THEN ReadReg(regs, inst.word.rs2) ELSE @]

BranchTaken(inst) ==
  \/ inst.word.op = "beq" /\ inst.op1Val = inst.op2Val
  \/ inst.word.op = "bne" /\ inst.op1Val # inst.op2Val

simNextPCResolution(inst) ==
  [inst EXCEPT !.nextPC =
     IF inst.word.op = "jalr" THEN Plus(inst.op1Val, inst.word.imm)
     ELSE IF inst.word.op = "jal" \/ BranchTaken(inst)
          THEN Plus(inst.pc, inst.word.imm)
          ELSE Plus(inst.pc, 1)]

(* The early return that opens simID, simEX, simMEM and simWB. *)
PassesThrough(inst) == inst.isNop \/ inst.status \in {"BUBBLE", "SQUASHED"}
(* The second one, of simEX, simMEM and simWB (simID has it after decoding). *)
NotExecuted(inst)   == isHalt(inst) \/ ~isLegal(inst)

simID(inst, regs) ==
  IF PassesThrough(inst) THEN inst
  ELSE LET decoded == simDecode(inst)
       IN  IF NotExecuted(decoded) THEN decoded
           ELSE [simNextPCResolution(simOperandCollection(decoded, regs))
                   EXCEPT !.status = "NORMAL"]

------------------------------------------------------------------------------
(* Execution and address generation. *)

simArithLogic(inst) ==
  [inst EXCEPT !.arithResult =
     IF inst.word.op = "add"  THEN Plus(inst.op1Val, inst.op2Val)
     ELSE IF inst.word.op = "addi" THEN Plus(inst.op1Val, inst.word.imm)
     ELSE IF inst.word.op = "lui"  THEN inst.word.imm
     ELSE Plus(inst.pc, 1)]                        (* jal and jalr: the link *)

simAddrGen(inst) == [inst EXCEPT !.memAddress = Plus(inst.op1Val, inst.word.imm)]

simEX(inst) ==
  IF PassesThrough(inst) \/ NotExecuted(inst) THEN inst
  ELSE LET computed  == IF doesArithLogic(inst) THEN simArithLogic(inst) ELSE inst
           addressed == IF readsMem(inst) \/ writesMem(inst)
                        THEN simAddrGen(computed) ELSE computed
       IN  [addressed EXCEPT !.status = "NORMAL"]

------------------------------------------------------------------------------
(* Memory.  getOrSetValue returns -EINVAL outside the memory: a load then    *)
(* reads 0 and a store changes nothing.                                      *)

EINVAL == 22

(* Mutant of getMemValue: a failed read hands its error code on as the value. *)
ErrorAsValue(mem, address) ==
  IF address \in Address THEN [ret |-> 0, value |-> mem[address]]
                         ELSE [ret |-> -EINVAL, value |-> -EINVAL]

getMemValue(mem, address) ==
  IF address \in Address THEN [ret |-> 0, value |-> mem[address]]
                         ELSE [ret |-> -EINVAL, value |-> 0]

setMemValue(mem, address, value) ==
  IF address \in Address THEN [mem EXCEPT ![address] = value] ELSE mem

(* simMemAccess compares the result with EINVAL, not with -EINVAL. *)
simMemAccess(inst, mem) ==
  LET read == getMemValue(mem, inst.memAddress)
  IN  IF readsMem(inst)
      THEN [inst EXCEPT !.memException = (read.ret = EINVAL),
                        !.memResult    = read.value]
      ELSE inst

simMEM(inst, mem) ==
  IF PassesThrough(inst) \/ NotExecuted(inst) THEN inst
  ELSE [simMemAccess(inst, mem) EXCEPT !.status = "NORMAL"]

(* What simMEM does to the memory. *)
MemAfter(inst, mem) ==
  IF ~PassesThrough(inst) /\ writesMem(inst)
  THEN setMemValue(mem, inst.memAddress, inst.op2Val) ELSE mem

------------------------------------------------------------------------------
(* Commit. *)

(* simCommit: the value an instruction writes to rd. *)
Result(inst) == IF readsMem(inst) THEN inst.memResult ELSE inst.arithResult

simWB(inst) ==
  IF PassesThrough(inst) \/ NotExecuted(inst) THEN inst
  ELSE [inst EXCEPT !.status = "NORMAL"]

(* What simWB does to the registers; registers[0] is written like the rest. *)
RegsAfter(inst, regs) ==
  IF ~PassesThrough(inst) /\ writesRd(inst)
  THEN [regs EXCEPT ![inst.word.rd] = Result(inst)] ELSE regs

==============================================================================
