-------------------------------- MODULE Funct --------------------------------
(***************************************************************************)
(* The functional simulator, src/funct.cpp with simInstruction: runTillHalt*)
(* runs one instruction per call of runInstructions until a status other   *)
(* than SUCCESS.                                                           *)
(***************************************************************************)
EXTENDS Simulator

CONSTANTS
  Programs,   (* the programs: functions from some PCs to words             *)
  InitMem     (* initial contents of the data memory                        *)

ASSUME FunctAssumption ==
  /\ \A program \in Programs : IsProgram(program)
  /\ InitMem \in [Address -> Value]

VARIABLES code, PC, regs, mem, din, status
vars == <<code, PC, regs, mem, din, status>>

(* What simInstruction returns, on registers and memory before the commit;  *)
(* a halt or an illegal instruction is returned right after decoding.       *)
simInstruction(pc) ==
  LET decoded  == simDecode(simIF(code, pc))
      resolved == simNextPCResolution(simOperandCollection(decoded, regs))
      computed == IF doesArithLogic(resolved) THEN simArithLogic(resolved) ELSE resolved
  IN  IF NotExecuted(decoded) THEN decoded
      ELSE IF readsMem(computed) \/ writesMem(computed)
           THEN simMemAccess(simAddrGen(computed), mem)
           ELSE computed

Init ==
  /\ code \in Programs
  /\ PC = 0
  /\ regs = [r \in Reg |-> 0]
  /\ mem = InitMem
  /\ din = 0
  /\ status = "SUCCESS"

(* runInstructions(1); halt and illegal instructions leave nextPC at 0. *)
runInstructions ==
  LET inst == simInstruction(PC)
  IN  /\ status = "SUCCESS"
      /\ PC' = inst.nextPC
      /\ din' = din + 1
      /\ status' = IF isHalt(inst) THEN "HALT"
                   ELSE IF ~isLegal(inst) THEN "ERROR" ELSE "SUCCESS"
      /\ mem' = IF writesMem(inst)
                THEN setMemValue(mem, inst.memAddress, inst.op2Val) ELSE mem
      /\ regs' = IF writesRd(inst)
                 THEN [regs EXCEPT ![inst.word.rd] = Result(inst)] ELSE regs
      /\ UNCHANGED code

(* runTillHalt returns. *)
Stopped == status # "SUCCESS" /\ UNCHANGED vars

Next == runInstructions \/ Stopped

Spec == Init /\ [][Next]_vars

------------------------------------------------------------------------------
(* Type correctness; a stopped simulator has PC 0. *)
TypeOK ==
  /\ IsProgram(code)
  /\ PC \in Value
  /\ regs \in [Reg -> Value]
  /\ mem \in [Address -> Value]
  /\ din \in Nat
  /\ status \in {"SUCCESS", "HALT", "ERROR"}

(* An illegal instruction stops the run instead of trapping: that is where  *)
(* the machine is about to enter its handler.                               *)
MachinePC ==
  IF status = "HALT" THEN 0
  ELSE IF status = "ERROR" \/ ~isLegal(simIF(code, PC)) THEN EXC_HANDLER
  ELSE PC

(* registers[0] is written like any register (simCommit, simulator.cpp:426) *)
(* and reads as zero.                                                       *)
MachineRegs == [regs EXCEPT ![0] = 0]

ISA == INSTANCE Machine WITH
  pc <- MachinePC, regs <- MachineRegs, halted <- (status = "HALT")

(* The functional simulator computes what the machine computes, and stops   *)
(* where the machine traps or halts.                                        *)
ImplementsMachine == ISA!Spec
==============================================================================
