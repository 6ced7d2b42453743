------------------------------- MODULE Datapath -------------------------------
(***************************************************************************)
(* One encoded instruction on its way through src/simulator.cpp: decoded   *)
(* and given its operands in ID, executed in EX, and shown in the dump of  *)
(* the pipeline state.                                                     *)
(*                                                                         *)
(* Registers have XLEN bits and the operations on words WLEN, for 64 and   *)
(* 32; an immediate operand is taken modulo 2^XLEN.                        *)
(***************************************************************************)
EXTENDS Disassembler, FiniteSets

CONSTANTS
  XLEN, WLEN,     (* bits of a register and of a word                        *)
  Words,          (* encoded instructions                                    *)
  Operands,       (* contents of the registers read                          *)
  BitXor(_, _), BitOr(_, _), BitAnd(_, _) (* the language's ^, | and &       *)

Bit(a, i) == extractBits(a, i, i)

(* The masks 0x3F and 0x1F cut a shift's count only to a power of two.  The *)
(* last two conjuncts hold of all powers and of the bits of all numbers: no *)
(* prover here knows of powers, and ^, | and & are defined bit by bit.      *)
ASSUME DatapathAssumption ==
  /\ WLEN \in Nat /\ XLEN \in Nat /\ 0 < WLEN /\ WLEN < XLEN
  /\ WLEN \in {2^k : k \in 0 .. WLEN}
  /\ Words \subseteq EncodedWord
  /\ Operands \subseteq 0 .. 2^XLEN - 1
  /\ \A n \in 0 .. XLEN :
       2^n \in 1 .. 2^XLEN /\ 2^n = IF n = 0 THEN 1 ELSE 2 * 2^(n - 1)
  /\ \A a, b \in 0 .. 2^XLEN - 1 :
       /\ {BitXor(a, b), BitOr(a, b), BitAnd(a, b)} \subseteq Nat
       /\ \A i \in 0 .. XLEN - 1 :
            /\ Bit(BitXor(a, b), i) = (Bit(a, i) + Bit(b, i)) % 2
            /\ Bit(BitOr(a, b), i)  = 1 - (1 - Bit(a, i)) * (1 - Bit(b, i))
            /\ Bit(BitAnd(a, b), i) = Bit(a, i) * Bit(b, i)

VARIABLES
  word,
  stage,                  (* the stage it has left: "IF", "ID", "EX", "WB"   *)
  inst,                   (* its flags                                       *)
  op1Val, op2Val, arithResult,
  taken,                  (* a branch goes to its target                     *)
  shown                   (* its text in the dumps                           *)

vars == <<word, stage, inst, op1Val, op2Val, arithResult, taken, shown>>

------------------------------------------------------------------------------
(* Casts. *)
Signed(a, bits)  == IF a >= 2^(bits - 1) THEN a - 2^bits ELSE a    \* (int64_t), (int32_t)
Unsigned(a, bits) == a % 2^bits                                    \* (uint64_t), (uint32_t)

(* One case of the switches, on operands of so many bits, the comparisons   *)
(* apart.  A shift counts by its low bits only.                             *)
Computed(operation, a, b, bits) ==
  LET n == b % bits IN
  Unsigned(
    CASE operation = "add"  -> a + b
      [] operation = "sub"  -> a - b
      [] operation = "sll"  -> Unsigned(a, bits - n) * 2^n
      [] operation = "xor"  -> BitXor(a, b)
      [] operation = "srl"  -> a \div 2^n
      [] operation = "sra"  -> Signed(a, bits) \div 2^n
      [] operation = "or"   -> BitOr(a, b)
      [] operation = "and"  -> BitAnd(a, b),
    bits)

Flag(holds) == IF holds THEN 1 ELSE 0

(* slt and sltu. *)
SetIfLess(w, a, b) ==
  Flag(IF Operation(w) = "slt" THEN Signed(a, XLEN) < Signed(b, XLEN) ELSE a < b)

(* Mutant of SetIfLessImmediate: sltiu compares like slti. *)
SignedImmediate(w, a) ==
  LET imm == Unsigned(sextImm12(w), XLEN)
  IN  Flag(Signed(a, XLEN) < Signed(imm, XLEN))

(* slti and sltiu: a switch of their own, the immediate extended by its     *)
(* sign for both.                                                           *)
SetIfLessImmediate(w, a) ==
  LET imm == Unsigned(sextImm12(w), XLEN)
  IN  Flag(IF Operation(w) = "slt" THEN Signed(a, XLEN) < Signed(imm, XLEN) ELSE a < imm)

(* Of the operations on whole registers. *)
Wide(w, a, b) ==
  IF Operation(w) \notin {"slt", "sltu"} THEN Computed(Operation(w), a, b, XLEN)
  ELSE IF Immediate(w) THEN SetIfLessImmediate(w, a) ELSE SetIfLess(w, a, b)

(* Mutant of simArithLogic: the result of an operation on words is not      *)
(* extended.                                                                *)
WordNotExtended(w, a, b) ==
  IF Narrow(w) THEN Computed(Operation(w), Unsigned(a, WLEN), Unsigned(b, WLEN), WLEN)
               ELSE Wide(w, a, b)

(* Mutant of simArithLogic: the extended result stays signed. *)
SignKept(w, a, b) ==
  IF Narrow(w)
  THEN sext64(Computed(Operation(w), Unsigned(a, WLEN), Unsigned(b, WLEN), WLEN), WLEN - 1)
  ELSE Wide(w, a, b)

simArithLogic(w, a, b) ==
  IF Narrow(w)
  THEN Unsigned(sext64(Computed(Operation(w), Unsigned(a, WLEN), Unsigned(b, WLEN), WLEN),
                       WLEN - 1), XLEN)
  ELSE Wide(w, a, b)

SecondOperand(w, b) == IF Immediate(w) THEN Unsigned(sextImm12(w), XLEN) ELSE b

(* simNextPCResolution *)
BranchTaken(w, a, b) ==
  CASE BranchFunct(w.funct3) = "eq"  -> a = b
    [] BranchFunct(w.funct3) = "ne"  -> a # b
    [] BranchFunct(w.funct3) = "lt"  -> Signed(a, XLEN) < Signed(b, XLEN)
    [] BranchFunct(w.funct3) = "ge"  -> Signed(a, XLEN) >= Signed(b, XLEN)
    [] BranchFunct(w.funct3) = "ltu" -> a < b
    [] BranchFunct(w.funct3) = "geu" -> a >= b

------------------------------------------------------------------------------
Init ==
  /\ word \in Words
  /\ stage = "IF"
  /\ inst = simDecode(HALT)        \* any flags: no stage has looked at them
  /\ op1Val = 0 /\ op2Val = 0 /\ arithResult = 0
  /\ taken = FALSE
  /\ shown = IllegalText

(* simID: flags, operands from the registers, the next PC. *)
ID ==
  /\ stage = "IF" /\ stage' = "ID"
  /\ inst' = simDecode(word)
  /\ op1Val' \in IF inst'.readsRs1 THEN Operands ELSE {0}
  /\ op2Val' \in IF inst'.readsRs2 THEN Operands ELSE {0}
  /\ taken' = /\ inst'.isLegal /\ word.opcode = "BRANCH"
              /\ BranchTaken(word, op1Val', op2Val')
  /\ UNCHANGED <<word, arithResult, shown>>

(* simEX returns at once for halt and illegal words.  Links and upper       *)
(* immediates, which no operand goes into, are left out.                    *)
EX ==
  /\ stage = "ID" /\ stage' = "EX"
  /\ arithResult' =
       IF inst.doesArithLogic /\ (Immediate(word) \/ word.opcode \in {"INT", "INTW"})
       THEN simArithLogic(word, op1Val, SecondOperand(word, op2Val)) ELSE arithResult
  /\ UNCHANGED <<word, inst, op1Val, op2Val, taken, shown>>

(* dumpPipeState at the end of a cycle. *)
Dump ==
  /\ stage = "EX" /\ stage' = "WB"
  /\ shown' = printInstr(word)
  /\ UNCHANGED <<word, inst, op1Val, op2Val, arithResult, taken>>

Retired == stage = "WB" /\ UNCHANGED vars

Next == ID \/ EX \/ Dump \/ Retired

Spec == Init /\ [][Next]_vars
------------------------------------------------------------------------------
(* Type correctness: registers hold unsigned numbers of XLEN bits. *)
Flags == {"isHalt", "isNop", "isLegal", "readsMem", "writesMem", "doesArithLogic",
          "writesRd", "readsRs1", "readsRs2"}
TypeOK ==
  /\ word \in EncodedWord
  /\ stage \in {"IF", "ID", "EX", "WB"}
  /\ inst \in [Flags -> BOOLEAN]
  /\ {op1Val, op2Val, arithResult} \subseteq 0 .. 2^XLEN - 1
  /\ taken \in BOOLEAN
  /\ shown.registers \subseteq {"rd", "rs1", "rs2"} /\ shown.imm \subseteq Int

(* Simulator's classes of words. *)
Class ==
  IF word = HALT THEN "halt" ELSE IF word = NOP THEN "nop"
  ELSE IF ~Legal(word) THEN "illegal"
  ELSE CASE word.opcode \in {"INT", "INTW"} -> "add"
         [] word.opcode \in {"INTIMM", "INTIMMW"} -> "addi"
         [] word.opcode \in {"LUI", "AUIPC"} -> "lui"
         [] word.opcode = "LOAD" -> "lw"
         [] word.opcode = "STORE" -> "sw"
         [] word.opcode = "BRANCH" -> "beq"
         [] word.opcode = "JAL" -> "jal"
         [] word.opcode = "JALR" -> "jalr"

Classes == INSTANCE Simulator WITH WordMod <- 2, NumRegs <- 1, MemSize <- 1, EXC_HANDLER <- 0
OfClass == [word |-> [op |-> Class]]

(* The pipeline decides by the decoder's flags (simulator.cpp:42) alone.    *)
(* Whatever the function codes, a word has the flags of one of the classes  *)
(* that Simulator, and with it every other module, takes for all of it.     *)
DecodesByClass ==
  stage # "IF" => inst =
    [isHalt |-> Classes!isHalt(OfClass), isNop |-> Class = "nop",
     isLegal |-> Classes!isLegal(OfClass),
     readsMem |-> Classes!readsMem(OfClass), writesMem |-> Classes!writesMem(OfClass),
     doesArithLogic |-> Classes!doesArithLogic(OfClass),
     writesRd |-> Classes!writesRd(OfClass),
     readsRs1 |-> Classes!readsRs1(OfClass), readsRs2 |-> Classes!readsRs2(OfClass)]

Executes(operations) ==
  /\ stage \in {"EX", "WB"} /\ inst.isLegal /\ LegalInt(word) /\ word # NOP
  /\ Operation(word) \in operations

Width     == IF Narrow(word) THEN WLEN ELSE XLEN
Second    == SecondOperand(word, op2Val)
Shift     == Second % Width

(* Utilities.h:34, "Integer ALU instructions on 32-bit words": through all  *)
(* the casts between signed and unsigned, narrow and wide                   *)
(* (simulator.cpp:262-368), each bit of a result is the bit the operation   *)
(* moves there or makes, and a word fills the register with its sign.       *)
BitsMoved ==
  /\ Executes({"sll", "srl", "sra", "xor", "or", "and", "add", "sub"}) =>
       \A i \in Width .. XLEN - 1 : Bit(arithResult, i) = Bit(arithResult, Width - 1)
  /\ \A i \in 0 .. Width - 1 :
       /\ Executes({"sll"}) => Bit(arithResult, i) = IF i < Shift THEN 0 ELSE Bit(op1Val, i - Shift)
       /\ Executes({"srl"}) =>
            Bit(arithResult, i) = IF i + Shift < Width THEN Bit(op1Val, i + Shift) ELSE 0
       /\ Executes({"sra"}) =>
            Bit(arithResult, i) = Bit(op1Val, IF i + Shift < Width THEN i + Shift ELSE Width - 1)
       /\ Executes({"xor"}) => Bit(arithResult, i) = (Bit(op1Val, i) + Bit(Second, i)) % 2
       /\ Executes({"or"})  => Bit(arithResult, i) = 1 - (1 - Bit(op1Val, i)) * (1 - Bit(Second, i))
       /\ Executes({"and"}) => Bit(arithResult, i) = Bit(op1Val, i) * Bit(Second, i)
  /\ Executes({"add"}) => (op1Val + Second - arithResult) % 2^Width = 0
  /\ Executes({"sub"}) => (op1Val - Second - arithResult) % 2^Width = 0

(* The second operand bit by bit: above its twelve bits an immediate has    *)
(* its sign.                                                                *)
SecondBit(i) == IF Immediate(word) THEN Bit(imm12(word), IF i < 11 THEN i ELSE 11)
                                   ELSE Bit(op2Val, i)

Same(i) == Bit(op1Val, i) = SecondBit(i)

(* The highest bit in which two numbers differ is set in the greater one,   *)
(* but the sign bit in the lesser.                                          *)
Lower(signed) ==
  \E i \in 0 .. XLEN - 1 :
    /\ ~Same(i) /\ \A j \in i + 1 .. XLEN - 1 : Same(j)
    /\ SecondBit(i) = IF signed /\ i = XLEN - 1 THEN 0 ELSE 1

(* slt and sltu (simulator.cpp:273), slti and sltiu (328) and the branches  *)
(* (197) have comparisons of their own, with casts of their own: each one   *)
(* orders its operands as their bits do, an immediate in all its width.     *)
OrdersByBits ==
  /\ Executes({"slt"})  => arithResult = Flag(Lower(TRUE))
  /\ Executes({"sltu"}) => arithResult = Flag(Lower(FALSE))
  /\ stage # "IF" /\ inst.isLegal /\ word.opcode = "BRANCH" =>
       LET f == BranchFunct(word.funct3) IN
       /\ f = "eq" => (taken <=> \A i \in 0 .. XLEN - 1 : Same(i))
       /\ f = "ne" => (taken <=> \E i \in 0 .. XLEN - 1 : ~Same(i))
       /\ f \in {"lt", "ltu"} => (taken <=> Lower(f = "lt"))
       /\ f \in {"ge", "geu"} => (taken <=> ~Lower(f = "ge"))

(* The dump never makes an illegal word look like an instruction, although  *)
(* a second set of switches (Utilities.cpp:12) decides it.                  *)
IllegalShown == stage = "WB" /\ ~inst.isLegal => shown = IllegalText

(* Names of the instructions in src/src/Utilities.h:28-43. *)
LoadNames == [b |-> "lb", h |-> "lh", w |-> "lw", d |-> "ld", bu |-> "lbu", hu |-> "lhu",
              wu |-> "lwu"]
StoreNames == [b |-> "sb", h |-> "sh", w |-> "sw", d |-> "sd"]
BranchNames == [eq |-> "beq", ne |-> "bne", lt |-> "blt", ge |-> "bge", ltu |-> "bltu",
                geu |-> "bgeu"]
ImmediateNames == [add |-> "addi", sll |-> "slli", slt |-> "slti", sltu |-> "sltiu",
                   xor |-> "xori", srl |-> "srli", sra |-> "srai", or |-> "ori", and |-> "andi"]
NarrowNames == [add |-> "addw", sub |-> "subw", sll |-> "sllw", srl |-> "srlw", sra |-> "sraw"]
NarrowImmediateNames == [add |-> "addiw", sll |-> "slliw", srl |-> "srliw", sra |-> "sraiw"]

(* The instruction that decoding and execution make of a word. *)
Named ==
  IF word = HALT THEN "HALT" ELSE IF word = NOP THEN "NOP"
  ELSE CASE inst.readsMem -> LoadNames[AccessFunct(word.funct3)]
         [] inst.writesMem -> StoreNames[AccessFunct(word.funct3)]
         [] word.opcode = "BRANCH" -> BranchNames[BranchFunct(word.funct3)]
         [] word.opcode = "INT" -> Operation(word)
         [] word.opcode = "INTIMM" -> ImmediateNames[Operation(word)]
         [] word.opcode = "INTW" -> NarrowNames[Operation(word)]
         [] word.opcode = "INTIMMW" -> NarrowImmediateNames[Operation(word)]
         [] word.opcode = "JALR" -> "jalr" [] word.opcode = "JAL" -> "jal"
         [] word.opcode = "LUI" -> "lui" [] word.opcode = "AUIPC" -> "auipc"

Executed ==
  Text(Named,
       (IF inst.writesRd THEN {"rd"} ELSE {}) \cup (IF inst.readsRs1 THEN {"rs1"} ELSE {})
         \cup (IF inst.readsRs2 THEN {"rs2"} ELSE {}),
       IF word \in {HALT, NOP} THEN NoImm ELSE ImmediateUsed(word))

(* The words of which the text says something else: sltiu, named "sltui";   *)
(* addiw whose immediate has bits in the place of funct7 ("ILLEGAL" or      *)
(* "subiw"), slliw by 32 and more, jalr with the function code of a shift   *)
(* and an immediate that is not a shift's, lui and auipc whose bit 19 is    *)
(* not the sign.                                                            *)
Misprinted ==
  \/ word.opcode = "INTIMM" /\ IntFunct(word.funct3) = "sltu"
  \/ word.opcode = "INTIMMW" /\ IntFunct(word.funct3) = "add" /\ word.funct7 # FUNCT7_ADD
  \/ word.opcode = "INTIMMW" /\ IntFunct(word.funct3) = "sll" /\ extractBits(word.funct7, 0, 0) = 1
  \/ word.opcode = "JALR" /\ IsShift(word) /\ sextImm12(word) \notin 0 .. 63
  \/ /\ word.opcode \in {"LUI", "AUIPC"} /\ upperImm(word) \notin -128 .. -1
     /\ upperImm(word) < 0 \/ extractBits(imm20(word), 19 - 12, 19 - 12) = 1

(* Of every other word the dump tells the operation, the registers and the  *)
(* immediate that are executed, the two files taking them from the encoding *)
(* each for itself (Utilities.cpp:209-342).                                 *)
ShowsWhatRuns ==
  stage = "WB" /\ inst.isLegal => (shown = Executed <=> ~Misprinted)
==============================================================================
