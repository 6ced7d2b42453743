------------------------------- MODULE Decoder -------------------------------
(***************************************************************************)
(* Instruction words by their fields: simDecode of src/simulator.cpp, and  *)
(* the operations and immediates that simNextPCResolution, simArithLogic   *)
(* and simAddrGen take from the fields.                                    *)
(*                                                                         *)
(* An opcode goes by its name in Utilities.h, any other one is "OTHER".    *)
(* Immediates are signed numbers; those of lui and auipc count units of    *)
(* 4096, their twelve low bits being zero.                                 *)
(***************************************************************************)
EXTENDS Integers

Opcodes == {"INT", "INTW", "LOAD", "INTIMM", "INTIMMW", "JALR", "STORE", "BRANCH",
            "AUIPC", "LUI", "JAL", "OTHER"}

EncodedWord == [opcode : Opcodes, rd : 0 .. 31, funct3 : 0 .. 7,
                rs1 : 0 .. 31, rs2 : 0 .. 31, funct7 : 0 .. 127]

Fields(opcode, rd, funct3, rs1, rs2, funct7) ==
  [opcode |-> opcode, rd |-> rd, funct3 |-> funct3, rs1 |-> rs1, rs2 |-> rs2,
   funct7 |-> funct7]

HALT == Fields("OTHER", 29, 7, 27, 14, 127)     \* 0xfeedfeed
NOP  == Fields("INTIMM", 0, 0, 0, 0, 0)         \* 0x00000013

(* enum FUNCT3: its names for integer instructions, accesses and branches.  *)
IntFunct(funct3)    == <<"add", "sll", "slt", "sltu", "xor", "sr", "or", "and">>[funct3 + 1]
AccessFunct(funct3) == <<"b", "h", "w", "d", "bu", "hu", "wu">>[funct3 + 1]
BranchFunct(funct3) ==
  IF funct3 <= 1 THEN <<"eq", "ne">>[funct3 + 1] ELSE <<"lt", "ge", "ltu", "geu">>[funct3 - 3]

FUNCT7_ADD == 0
FUNCT7_SUB == 32
FUNCT7_LOGICAL == 0
FUNCT7_ARITH   == 32
UPPERIMM_LOGICAL == 0
UPPERIMM_ARITH   == 16

------------------------------------------------------------------------------
(* Bits. *)

extractBits(x, start, end) == (x \div 2^end) % 2^(start - end + 1)

(* Bits above the sign bit are overwritten only when it is set. *)
sext64(imm, signBit) ==
  IF extractBits(imm, signBit, signBit) = 1
  THEN (imm % 2^(signBit + 1)) - 2^(signBit + 1) ELSE imm

imm12(word) == word.funct7 * 2^5 + word.rs2
imm20(word) == imm12(word) * 2^8 + word.rs1 * 2^3 + word.funct3
upperImm12(word) == word.funct7 \div 2

------------------------------------------------------------------------------
(* simDecode *)

LegalInt(word) ==
  LET f == IntFunct(word.funct3) IN
  \/ /\ word.opcode = "INT"
     /\ f = "add" => word.funct7 \in {FUNCT7_ADD, FUNCT7_SUB}
     /\ f = "sr"  => word.funct7 \div 2 \in {UPPERIMM_ARITH, UPPERIMM_LOGICAL}
  \/ /\ word.opcode = "INTIMM"
     /\ f = "sr"  => word.funct7 \div 2 \in {UPPERIMM_ARITH, UPPERIMM_LOGICAL}
  \/ /\ word.opcode = "INTW" /\ f \in {"add", "sll", "sr"}
     /\ f = "add" => word.funct7 \in {FUNCT7_ADD, FUNCT7_SUB}
     /\ f = "sr"  => word.funct7 \in {FUNCT7_ARITH, FUNCT7_LOGICAL}
  \/ /\ word.opcode = "INTIMMW" /\ f \in {"add", "sll", "sr"}
     /\ f = "sr"  => word.funct7 \in {FUNCT7_ARITH, FUNCT7_LOGICAL}

Legal(word) ==
  \/ LegalInt(word)
  \/ word.opcode = "LOAD" /\ word.funct3 # 7
  \/ word.opcode = "STORE" /\ word.funct3 <= 3
  \/ word.opcode = "BRANCH" /\ word.funct3 \notin {2, 3}
  \/ word.opcode \in {"JALR", "AUIPC", "LUI", "JAL"}

(* Mutant of TwoRegisters: the word form of the immediates is among them. *)
WithIMMW == {"INT", "INTW", "STORE", "BRANCH", "INTIMMW"}

TwoRegisters == {"INT", "INTW", "STORE", "BRANCH"}

(* The flags of struct Instruction, which halt and nop leave as they are.   *)
simDecode(word) ==
  LET decoded == word \notin {HALT, NOP}
      is(opcodes) == decoded /\ Legal(word) /\ word.opcode \in opcodes
  IN  [isHalt |-> word = HALT, isNop |-> word = NOP,
       isLegal |-> decoded => Legal(word),
       readsMem |-> is({"LOAD"}), writesMem |-> is({"STORE"}),
       doesArithLogic |-> is({"INT", "INTW", "INTIMM", "INTIMMW", "JALR", "AUIPC", "LUI", "JAL"}),
       writesRd |-> is(Opcodes \ {"STORE", "BRANCH", "OTHER"}),
       readsRs1 |-> is(Opcodes \ {"AUIPC", "LUI", "JAL", "OTHER"}),
       readsRs2 |-> is(TwoRegisters)]

------------------------------------------------------------------------------
(* What simArithLogic computes and which immediates take part. *)

Immediate(word) == word.opcode \in {"INTIMM", "INTIMMW"}
Narrow(word)    == word.opcode \in {"INTW", "INTIMMW"}

(* The case of the two switches that applies to a legal word. *)
Operation(word) ==
  LET f == IntFunct(word.funct3) IN
  IF f = "add" /\ ~Immediate(word) /\ word.funct7 = FUNCT7_SUB THEN "sub"
  ELSE IF f = "sr" THEN IF upperImm12(word) = UPPERIMM_ARITH THEN "sra" ELSE "srl"
  ELSE f

branchOffset(word) ==
  LET imm7 == word.funct7
      imm5 == word.rd
  IN  sext64(extractBits(imm7, 6, 6) * 2^12 + extractBits(imm7, 5, 0) * 2^5
             + extractBits(imm5, 4, 1) * 2 + extractBits(imm5, 0, 0) * 2^11, 12)

jalOffset(word) ==
  LET imm == imm20(word)
  IN  sext64(extractBits(imm, 19, 19) * 2^20 + extractBits(imm, 18, 9) * 2
             + extractBits(imm, 8, 8) * 2^11 + extractBits(imm, 7, 0) * 2^12, 20)

storeImm(word)     == sext64(word.funct7 * 2^5 + word.rd, 11)
sextImm12(word)    == sext64(imm12(word), 11)
upperImm(word)     == sext64(imm20(word), 31 - 12)
shiftAmount(word)  == imm12(word) % (IF Narrow(word) THEN 32 ELSE 64)
IsShift(word)      == IntFunct(word.funct3) \in {"sll", "sr"}

NoImm == {}
ImmediateUsed(word) ==
  CASE word.opcode = "STORE" -> {storeImm(word)}
    [] word.opcode = "BRANCH" -> {branchOffset(word)}
    [] word.opcode = "JAL" -> {jalOffset(word)}
    [] word.opcode \in {"LUI", "AUIPC"} -> {upperImm(word)}
    [] word.opcode \in {"LOAD", "JALR"} -> {sextImm12(word)}
    [] Immediate(word) -> {IF IsShift(word) THEN shiftAmount(word) ELSE sextImm12(word)}
    [] OTHER -> NoImm
==============================================================================
