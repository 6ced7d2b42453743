----------------------------- MODULE Disassembler -----------------------------
(***************************************************************************)
(* How dumpPipeState shows an instruction word: printInstr, getOpString    *)
(* and the handle functions of src/Utilities.cpp.                          *)
(*                                                                         *)
(* A text is the mnemonic, the fields that name its registers, and its     *)
(* immediate.  Format and register names are left out.                     *)
(***************************************************************************)
EXTENDS Decoder, Sequences

Text(mnemonic, registers, imm) ==
  [mnemonic |-> mnemonic, registers |-> registers, imm |-> imm]

ILLEGAL == "ILLEGAL"
IllegalText == Text(ILLEGAL, {}, NoImm)

(* One switch for register and immediate forms: it sees a funct7 in words   *)
(* that hold an immediate there.                                            *)
IntBody(opcode, funct3, funct7) ==
  LET f == IntFunct(funct3)
      narrow == opcode \in {"INTW", "INTIMMW"}
  IN  CASE f = "add" /\ opcode = "INTIMM" -> "add"
        [] f = "add" /\ opcode # "INTIMM" ->
             IF funct7 = FUNCT7_ADD THEN "add" ELSE IF funct7 = FUNCT7_SUB THEN "sub" ELSE "ILLEGAL"
        [] f = "sr" ->
             LET shifted == IF narrow THEN funct7 ELSE (funct7 \div 2) * 2
             IN  IF shifted = FUNCT7_LOGICAL THEN "srl"
                 ELSE IF shifted = FUNCT7_ARITH THEN "sra" ELSE "ILLEGAL"
        [] f = "sll" -> "sll"
        [] OTHER -> IF narrow THEN "ILLEGAL" ELSE f

Joined(prefix, body, suffix) == prefix \o body \o suffix

Prefixed(prefix, texts) ==
  \A body \in DOMAIN texts : Joined(prefix, body, "") = texts[body]
Suffixed(suffix, texts) ==
  \A body \in DOMAIN texts : Joined("", body, suffix) = texts[body]

(* What strings are when joined, in all the ways getOpString does: TLC      *)
(* joins them, the provers know only which strings are equal.               *)
JoinedPlain ==
  \A body \in {"add", "sub", "sll", "slt", "sltu", "xor", "srl", "sra", "or", "and"} :
    Joined("", body, "") = body
JoinedI == Suffixed("i",
  [add |-> "addi", sll |-> "slli", slt |-> "slti", sltu |-> "sltui", xor |-> "xori",
   srl |-> "srli", sra |-> "srai", or |-> "ori", and |-> "andi"])
JoinedW == Suffixed("w",
  [add |-> "addw", sub |-> "subw", sll |-> "sllw", srl |-> "srlw", sra |-> "sraw"])
JoinedIW == Suffixed("iw",
  [add |-> "addiw", sub |-> "subiw", sll |-> "slliw", srl |-> "srliw", sra |-> "sraiw"])
JoinedL == Prefixed("l",
  [b |-> "lb", h |-> "lh", w |-> "lw", d |-> "ld", bu |-> "lbu", hu |-> "lhu", wu |-> "lwu"])
JoinedS == Prefixed("s", [b |-> "sb", h |-> "sh", w |-> "sw", d |-> "sd"])
JoinedB == Prefixed("b",
  [eq |-> "beq", ne |-> "bne", lt |-> "blt", ge |-> "bge", ltu |-> "bltu", geu |-> "bgeu"])

ASSUME JoinedAssumption ==
  JoinedPlain /\ JoinedI /\ JoinedW /\ JoinedIW /\ JoinedL /\ JoinedS /\ JoinedB

Suffix(opcode) ==
  CASE opcode = "INTIMM" -> "i" [] opcode = "INTIMMW" -> "iw" [] opcode = "INTW" -> "w"
    [] OTHER -> ""

getOpString(opcode, funct3, funct7) ==
  CASE opcode \in {"INT", "INTIMM", "INTW", "INTIMMW"} ->
         LET body == IntBody(opcode, funct3, funct7)
         IN  IF body = "ILLEGAL" THEN ILLEGAL ELSE Joined("", body, Suffix(opcode))
    [] opcode = "LOAD"   -> IF funct3 # 7 THEN Joined("l", AccessFunct(funct3), "") ELSE ILLEGAL
    [] opcode = "STORE"  -> IF funct3 <= 3 THEN Joined("s", AccessFunct(funct3), "") ELSE ILLEGAL
    [] opcode = "BRANCH" ->
         IF funct3 \notin {2, 3} THEN Joined("b", BranchFunct(funct3), "") ELSE ILLEGAL
    [] opcode = "JAL"    -> "jal"
    [] opcode = "JALR"   -> "jalr"
    [] opcode = "LUI"    -> "lui"
    [] opcode = "AUIPC"  -> "auipc"
    [] OTHER -> ILLEGAL

(* Mutant of Shown: the text is not compared with ILLEGAL. *)
ShownAnyway(mnemonic, registers, imm) == Text(mnemonic, registers, imm)

(* Each handle function leaves off at an illegal mnemonic. *)
Shown(mnemonic, registers, imm) ==
  IF mnemonic = ILLEGAL THEN IllegalText ELSE Text(mnemonic, registers, imm)

------------------------------------------------------------------------------
(* A shift's immediate is cut to six bits, of jalr too if its funct3 is a   *)
(* shift's.                                                                 *)
handleIAndR(word) ==
  LET mnemonic == getOpString(word.opcode, word.funct3, word.funct7)
  IN  IF word.opcode \in {"INT", "INTW"}
      THEN Shown(mnemonic, {"rd", "rs1", "rs2"}, NoImm)
      ELSE Shown(mnemonic, {"rd", "rs1"},
                 {IF IsShift(word) THEN imm12(word) % 64 ELSE sext64(imm12(word), 11)})

handleLAndS(word) ==
  LET mnemonic == getOpString(word.opcode, word.funct3, 0)
  IN  IF word.opcode = "LOAD"
      THEN Shown(mnemonic, {"rd", "rs1"}, {sext64(imm12(word), 11)})
      ELSE Shown(mnemonic, {"rs1", "rs2"}, {sext64(word.funct7 * 2^5 + word.rd, 11)})

handleBranch(word) ==
  LET offset == extractBits(word.funct7, 6, 6) * 2^12 + extractBits(word.funct7, 5, 0) * 2^5
                + extractBits(word.rd, 4, 1) * 2 + extractBits(word.rd, 0, 0) * 2^11
  IN  Shown(getOpString("BRANCH", word.funct3, 0), {"rs1", "rs2"}, {sext64(offset, 12)})

(* Mutant of handleSpecial: bits 10:1 of the offset of jal are misplaced.   *)
JalMisread(word) ==
  Shown(getOpString(word.opcode, 0, 0), {"rd"}, {sext64(imm20(word), 19)})

(* The sign of an upper immediate is looked for in bit 19 of the word.      *)
handleSpecial(word) ==
  LET offset == extractBits(imm20(word), 19, 19) * 2^20 + extractBits(imm20(word), 18, 9) * 2
                + extractBits(imm20(word), 8, 8) * 2^11 + extractBits(imm20(word), 7, 0) * 2^12
  IN  Shown(getOpString(word.opcode, 0, 0), {"rd"},
            {IF word.opcode = "JAL" THEN sext64(offset, 20) ELSE sext64(imm20(word), 19 - 12)})

printInstr(word) ==
  IF word = HALT THEN Text("HALT", {}, NoImm)
  ELSE IF word = NOP THEN Text("NOP", {}, NoImm)
  ELSE CASE word.opcode \in {"INT", "INTW", "INTIMM", "INTIMMW", "JALR"} -> handleIAndR(word)
         [] word.opcode \in {"LOAD", "STORE"} -> handleLAndS(word)
         [] word.opcode = "BRANCH" -> handleBranch(word)
         [] word.opcode \in {"JAL", "LUI", "AUIPC"} -> handleSpecial(word)
         [] OTHER -> IllegalText
==============================================================================
