------------------------------ MODULE MCPipeline ------------------------------
(***************************************************************************)
(* Instances of Pipeline for TLC: the programs of MCPrograms, each with    *)
(* every pattern of outcomes that one of its oracles may give.             *)
(***************************************************************************)
EXTENDS Pipeline, MCPrograms

NeverMisses(program)   == {[i |-> {TRUE}, d |-> {TRUE}]}
DataMayMiss(program)   == {[i |-> {TRUE}, d |-> BOOLEAN]}
AnythingMayMiss(program) == {[i |-> BOOLEAN, d |-> BOOLEAN]}

(* Any fetch may miss or any data access, not both, where the operand of a  *)
(* branch is produced right before it: both together undo its interlock.    *)
BranchPrograms == IdealBranches \cup InterlockedByALU
OneMayMiss(program) ==
  {o \in {[i |-> BOOLEAN, d |-> {TRUE}], [i |-> {TRUE}, d |-> BOOLEAN]} :
     program \in (IF o.i = BOOLEAN THEN IdealBranches ELSE InterlockedByALU)}

(* Everything else under every pattern of hits and misses. *)
MCProgramSet == AnyMissPrograms \cup BranchPrograms
MCOracles(program) ==
  (IF program \in AnyMissPrograms THEN AnythingMayMiss(program) ELSE {})
    \cup OneMayMiss(program)
==============================================================================
