------------------------------- MODULE MCFunct -------------------------------
(***************************************************************************)
(* Instances of Funct for TLC.                                             *)
(***************************************************************************)
EXTENDS Funct, MCPrograms

(* The families of programs that the runs of the pipeline take theirs from, *)
(* those it gets wrong included.                                            *)
AllPrograms ==
  StraightLine \cup IdealBranches \cup SettledBranches \cup SkipOne \cup LateOperand
    \cup LoadBranch \cup OutsideLoad \cup LoadUseBehindMiss
==============================================================================
