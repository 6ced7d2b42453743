------------------------------- MODULE MCDriver -------------------------------
(***************************************************************************)
(* Instances of Driver for TLC, on programs that evict from both caches.   *)
(***************************************************************************)
EXTENDS Driver, MCPrograms

(* Two direct-mapped sets of two instructions each. *)
MCICacheConfig == [cacheSize |-> 16, blockSize |-> 8, ways |-> 1, missLatency |-> IMissLatency]
(* One set of two one-cell blocks. *)
MCDCacheConfig == [cacheSize |-> 2, blockSize |-> 1, ways |-> 2, missLatency |-> DMissLatency]

(* The configuration above with a ninth line; one with a word for a number; *)
(* one that ends early.                                                     *)
GoodConfig == <<16, 8, 1, IMissLatency, 2, 1, 2, DMissLatency, NoNumber>>
MCConfigFiles == {GoodConfig, [GoodConfig EXCEPT ![8] = NoNumber], SubSeq(GoodConfig, 1, 7)}

AnyOutcomes(program) == {AnyOutcome}

(* Sequences of three memory and other instructions, from a word that sets  *)
(* the base register, to four cells and outside the memory.                 *)
MemoryMix ==
  {Program(<<addi(2, 0, 1)>> \o words \o <<halt>>, halt) :
     words \in [1 .. 3 -> {lw(1, 0, 0), lw(1, 2, 1), sw(2, 0, 0), sw(1, 2, 2),
                           add(2, 1, 2), lw(2, 1, 4), illegal}]}

(* Two words behind the halt, which wait, load or store. *)
BehindHalt ==
  {Program(<<addi(1, 0, 3), before, halt, x, y, sw(1, 0, 2)>>, halt) :
     before \in {NopWord, lw(2, 0, 1)},
     x \in {sw(1, 0, 0), sw(1, 0, 5), NopWord, lw(2, 0, 3), illegal},
     y \in {sw(1, 0, 1), addi(1, 0, 1)}}

DriverPrograms == MemoryMix \cup Loops \cup SettledBranches \cup BehindHalt
==============================================================================
