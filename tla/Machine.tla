------------------------------- MODULE Machine -------------------------------
(***************************************************************************)
(* The machine both simulators simulate, one instruction per step: no      *)
(* stages, no forwarding, no caches.  Only the vocabulary of Simulator is  *)
(* used (words, registers, modular addition), none of its stage functions. *)
(*                                                                         *)
(* An illegal instruction is never executed: whatever would make it the    *)
(* next one makes EXC_HANDLER the next PC instead.  x0 is always 0, and a  *)
(* load from outside the memory reads 0.                                   *)
(***************************************************************************)
EXTENDS Simulator

CONSTANTS
  Programs,   (* the programs: functions from some PCs to words             *)
  InitMem     (* initial contents of the data memory                        *)

VARIABLES code, pc, regs, mem, halted
vars == <<code, pc, regs, mem, halted>>

At(p) == IF p \in DOMAIN code THEN code[p] ELSE ZeroWord

(* Where control goes when the next instruction is at p. *)
Vector(p) == IF At(p).op = "illegal" THEN EXC_HANDLER ELSE p

word == At(pc)
rs1Value == regs[word.rs1]
rs2Value == regs[word.rs2]
target == Plus(pc, word.imm)

SetReg(r, value) == regs' = IF r = 0 THEN regs ELSE [regs EXCEPT ![r] = value]
GoTo(p) == pc' = Vector(p) /\ UNCHANGED <<code, halted>>

------------------------------------------------------------------------------
Init ==
  /\ code \in Programs
  /\ pc = Vector(0)
  /\ regs = [r \in Reg |-> 0]
  /\ mem = InitMem
  /\ halted = FALSE

Nop == word.op = "nop" /\ GoTo(Plus(pc, 1)) /\ UNCHANGED <<regs, mem>>

Arithmetic ==
  /\ \/ word.op = "add"  /\ SetReg(word.rd, Plus(rs1Value, rs2Value))
     \/ word.op = "addi" /\ SetReg(word.rd, Plus(rs1Value, word.imm))
     \/ word.op = "lui"  /\ SetReg(word.rd, word.imm)
  /\ GoTo(Plus(pc, 1))
  /\ UNCHANGED mem

Load ==
  LET address == Plus(rs1Value, word.imm)
  IN  /\ word.op = "lw"
      /\ SetReg(word.rd, IF address \in Address THEN mem[address] ELSE 0)
      /\ GoTo(Plus(pc, 1))
      /\ UNCHANGED mem

Store ==
  LET address == Plus(rs1Value, word.imm)
  IN  /\ word.op = "sw"
      /\ mem' = IF address \in Address THEN [mem EXCEPT ![address] = rs2Value] ELSE mem
      /\ GoTo(Plus(pc, 1))
      /\ UNCHANGED regs

Branch ==
  /\ \/ word.op = "beq" /\ GoTo(IF rs1Value = rs2Value THEN target ELSE Plus(pc, 1))
     \/ word.op = "bne" /\ GoTo(IF rs1Value # rs2Value THEN target ELSE Plus(pc, 1))
  /\ UNCHANGED <<regs, mem>>

Jump ==
  /\ \/ word.op = "jal"  /\ GoTo(target)
     \/ word.op = "jalr" /\ GoTo(Plus(rs1Value, word.imm))
  /\ SetReg(word.rd, Plus(pc, 1))
  /\ UNCHANGED mem

Halt ==
  /\ word.op = "halt"
  /\ pc' = 0
  /\ halted' = TRUE
  /\ UNCHANGED <<code, regs, mem>>

Next == ~halted /\ (Nop \/ Arithmetic \/ Load \/ Store \/ Branch \/ Jump \/ Halt)

Spec == Init /\ [][Next]_vars
==============================================================================
