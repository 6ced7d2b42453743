------------------------------ MODULE MCDatapath ------------------------------
(***************************************************************************)
(* Instances of Datapath for TLC.                                          *)
(***************************************************************************)
EXTENDS Datapath, Bitwise

(* Every opcode and function code, with immediates at the boundaries of     *)
(* funct7's codes and of every immediate's sign bit.                        *)
MCWords ==
  {HALT, NOP}
    \cup {Fields(opcode, rd, funct3, rs1, rs2, funct7) :
            opcode \in Opcodes, rd \in {1, 30}, funct3 \in 0 .. 7, rs1 \in {0, 17},
            rs2 \in {0, 3, 31}, funct7 \in {0, 1, 2, 31, 32, 33, 63, 64, 127}}

(* Signs, and shift counts below and above the widths. *)
MCOperands == {0, 3, 9, 128, 250}

MCXor(a, b) == a ^^ b
MCOr(a, b)  == a | b
MCAnd(a, b) == a & b
==============================================================================
