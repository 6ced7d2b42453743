------------------------------ MODULE MCPrograms ------------------------------
(***************************************************************************)
(* The sets of small programs on which the simulators are model-checked.   *)
(***************************************************************************)
EXTENDS Simulator, Sequences

W(op, rd, rs1, rs2, imm) == [op |-> op, rd |-> rd, rs1 |-> rs1, rs2 |-> rs2, imm |-> imm]

addi(rd, rs1, imm) == W("addi", rd, rs1, 0, imm)
add(rd, rs1, rs2)  == W("add", rd, rs1, rs2, 0)
lui(rd, imm)       == W("lui", rd, 0, 0, imm)
lw(rd, rs1, imm)   == W("lw", rd, rs1, 0, imm)
sw(rs2, rs1, imm)  == W("sw", 0, rs1, rs2, imm)
halt == W("halt", 0, 0, 0, 0)
illegal == ZeroWord

beq(rs1, rs2, imm) == W("beq", 0, rs1, rs2, imm)
bne(rs1, rs2, imm) == W("bne", 0, rs1, rs2, imm)
jal(rd, imm)       == W("jal", rd, 0, 0, imm)
jalr(rd, rs1, imm) == W("jalr", rd, rs1, 0, imm)

(* Words placed at PC 0 upwards, and a handler of one word. *)
Program(words, handler) ==
  [p \in 0 .. Len(words) - 1 \cup {EXC_HANDLER} |->
     IF p < Len(words) THEN words[p + 1] ELSE handler]

MCInitMem == [a \in Address |-> (a + 1) % 4]

------------------------------------------------------------------------------
(* Straight-line code: every sequence of three of these words, then halt.   *)
(* Together they give each pair and triple of producers and consumers (ALU, *)
(* load, store data, store address), writes to x0, loads outside the memory *)
(* and illegal words.                                                       *)
Alphabet ==
  {addi(1, 1, 2), add(2, 1, 2), lw(1, 2, 1), lw(2, 1, 0), sw(1, 2, 0), sw(2, 1, 1),
   addi(0, 1, 3), add(1, 0, 2), NopWord, illegal}

(* A consumer three instructions behind its producer reads the register in  *)
(* the cycle that writes it.                                                *)
FarConsumers ==
  {addi(1, 0, 3), lw(1, 0, 2)} \X {NopWord, sw(2, 0, 0)} \X {NopWord, lw(2, 0, 0)}
    \X {add(2, 1, 2), sw(1, 0, 1), sw(2, 1, 1)}

StraightLine ==
  {Program(words \o <<halt>>, halt) : words \in [1 .. 3 -> Alphabet] \cup FarConsumers}

------------------------------------------------------------------------------
(* Forward branches and jumps at PC 2, their operands produced just before. *)
(* Left out, because the pipeline departs from the machine there (see the   *)
(* runs that expect a violation): targets two words ahead, and operands     *)
(* produced two instructions ahead of a branch that does not stall.         *)

Operands(word) == {r \in Reg \ {0} : \/ word.op # "jal" /\ word.rs1 = r
                                     \/ word.op \in {"beq", "bne"} /\ word.rs2 = r}
Produces(word, r) == word.rd = r /\ word.op \in {"addi", "add", "lui", "lw"}

(* The word at distance 1 feeds the branch, or the one at distance 2 does not. *)
Interlocked(before2, before1, branch) ==
  \/ \E r \in Operands(branch) : Produces(before1, r)
  \/ \A r \in Operands(branch) : ~Produces(before2, r)

Branches == {beq(1, 2, 3), bne(1, 2, 4), beq(0, 0, 3), beq(2, 1, 1), jal(1, 3), jalr(2, 1, 5)}

ForwardBranches(Before2, Before1) ==
  {Program(<<x[1], x[2], x[3], x[4], x[5], sw(2, 0, 1), halt>>, x[6]) :
     x \in {y \in Before2 \X Before1 \X Branches
                 \X {addi(1, 1, 1), sw(1, 0, 0), illegal, halt}
                 \X {add(2, 1, 2), illegal, jal(2, 1)}
                 \X {halt, jal(1, 7)} :
             /\ Interlocked(y[1], y[2], y[3])
             \* the handler is reached in some of these programs only
             /\ y[6] # halt => illegal \in {y[4], y[5]}}}

(* A loop that counts x1 down, with one word before the decrement, and a    *)
(* wrong-path word behind its branch.                                       *)
Loops ==
  {Program(<<addi(1, 0, 2), before, addi(1, 1, 7), bne(1, 0, 6), behind, halt>>, halt) :
     before \in {NopWord, sw(1, 1, 0), lw(2, 1, 0), add(2, 2, 1)},
     behind \in {sw(2, 0, 0), add(2, 2, 1), illegal}}

IdealBranches ==
  Loops \cup ForwardBranches({NopWord, addi(1, 0, 1), lw(2, 0, 0)},
                             {NopWord, addi(2, 0, 1), lw(1, 0, 0)})

(* No load right before the branch: with D-cache misses the second stall    *)
(* cycle of a load-branch pair is lost (see the run that expects it).       *)
InterlockedByALU ==
  Loops \cup ForwardBranches({NopWord, lw(1, 0, 0)}, {NopWord, addi(2, 0, 1)})

(* Operands three or more instructions old: safe with any misses.           *)
SettledBranches ==
  {Program(<<addi(1, 0, 1), x[1], x[2], x[3], x[4], sw(1, 0, 0), halt>>, halt) :
     x \in {NopWord, sw(1, 0, 0)} \X {lw(2, 0, 1), NopWord}
            \X {beq(0, 0, 3), bne(1, 0, 1), beq(1, 0, 2), bne(1, 0, 3), jal(2, 3), jalr(2, 1, 5)}
            \X {add(1, 1, 1), sw(2, 0, 0), lw(1, 2, 0), illegal}}

AnyMissPrograms == StraightLine \cup SettledBranches

------------------------------------------------------------------------------
(* One program per statement of the repository that the code departs from.  *)
OneProgram(words, handler) == {Program(words, handler)}

(* A taken branch over one word. *)
SkipOne == OneProgram(<<beq(0, 0, 2), addi(1, 0, 1), halt>>, halt)
(* A branch two instructions behind the producer of its operand. *)
LateOperand == OneProgram(<<addi(1, 0, 1), NopWord, bne(1, 0, 3), NopWord, halt, halt>>, halt)
(* A branch right behind a load of its operand. *)
LoadBranch == OneProgram(<<lw(1, 0, 0), bne(1, 0, 3), NopWord, halt, halt>>, halt)
(* A trap into a handler that starts with an ordinary instruction. *)
OrdinaryHandler == OneProgram(<<illegal>>, addi(1, 1, 1))
(* A load from outside the memory. *)
OutsideLoad == OneProgram(<<lw(1, 0, 5), halt>>, halt)
(* A load-use pair behind a load that misses. *)
LoadUseBehindMiss == OneProgram(<<lw(2, 0, 1), lw(1, 0, 0), add(2, 1, 1), halt>>, halt)
==============================================================================
