------------------------------- MODULE CycleSim -------------------------------
(***************************************************************************)
(* The cycle-accurate simulator as a whole: the pipeline of cycle.cpp with *)
(* the two caches of cache.cpp in the place of its oracles.  A cycle looks *)
(* up the D-cache when dAccess holds and the I-cache when iAccess holds,   *)
(* and the caches' answers decide the cycle.                               *)
(*                                                                         *)
(* The I-cache is addressed in bytes, four per instruction.                *)
(***************************************************************************)
EXTENDS Pipeline

CONSTANTS
  iCacheConfig, dCacheConfig,   (* struct CacheConfig                        *)
  MaxCycles                     (* bound on the cycles of a behaviour        *)

(* The caches answer, so the pipeline is not restricted by an oracle. *)
AnyOutcome == [i |-> BOOLEAN, d |-> BOOLEAN]

VARIABLES
  iSets, iHits, iMisses,    (* the I-cache and its statistics               *)
  dSets, dHits, dMisses,    (* the D-cache and its statistics               *)
  cycleCount,
  frozenCycles,             (* history: cycles frozen by a data miss        *)
  fetchMissCycles           (* history: cycles spent in an instruction miss *)

iCacheVars == <<iSets, iHits, iMisses>>
dCacheVars == <<dSets, dHits, dMisses>>
simVars == <<vars, iCacheVars, dCacheVars, cycleCount, frozenCycles, fetchMissCycles>>

InstAddress(pc) == 4 * pc

iCache == INSTANCE Cache WITH
  cacheSize <- iCacheConfig.cacheSize, blockSize <- iCacheConfig.blockSize,
  ways <- iCacheConfig.ways, Addresses <- {InstAddress(pc) : pc \in Value},
  MaxAccesses <- 0, sets <- iSets, hits <- iHits, misses <- iMisses

dCache == INSTANCE Cache WITH
  cacheSize <- dCacheConfig.cacheSize, blockSize <- dCacheConfig.blockSize,
  ways <- dCacheConfig.ways, Addresses <- Value,
  MaxAccesses <- 0, sets <- dSets, hits <- dHits, misses <- dMisses

ASSUME CycleSimAssumption ==
  /\ iCacheConfig.missLatency = IMissLatency
  /\ dCacheConfig.missLatency = DMissLatency
  /\ \A program \in Programs : Oracles(program) = {AnyOutcome}
  /\ iCache!Geometry /\ dCache!Geometry
  /\ MaxCycles \in Nat

------------------------------------------------------------------------------
(* initSimulator *)
SimInit ==
  /\ Init
  /\ iCache!Init /\ dCache!Init
  /\ cycleCount = 0 /\ frozenCycles = 0 /\ fetchMissCycles = 0

DataAccess == IF dAccess THEN dCache!access(memInst.memAddress) ELSE UNCHANGED dCacheVars
InstAccess == IF iAccess THEN iCache!access(InstAddress(ifInst.pc)) ELSE UNCHANGED iCacheVars

SimCycle ==
  LET iHit == iCache!Hit(InstAddress(ifInst.pc))
      dHit == dCache!Hit(memInst.memAddress)
  IN  /\ cycleCount < MaxCycles
      /\ Cycle(iHit, dHit)
      /\ DataAccess
      /\ InstAccess
      /\ cycleCount' = cycleCount + 1
      /\ frozenCycles' = frozenCycles + (IF dMiss(dHit) THEN 1 ELSE 0)
      /\ fetchMissCycles' = fetchMissCycles + (IF iMiss(iHit) THEN 1 ELSE 0)

(* runTillHalt returns, or the bound on cycles is reached. *)
SimStopped == (status = "HALT" \/ cycleCount = MaxCycles) /\ UNCHANGED simVars

SimNext == SimCycle \/ SimStopped

SimSpec == SimInit /\ [][SimNext]_simVars /\ WF_simVars(SimNext)

------------------------------------------------------------------------------
(* Type correctness of what the composition adds. *)
SimTypeOK ==
  /\ TypeOK
  /\ iCache!TypeOK /\ dCache!TypeOK
  /\ cycleCount \in Nat /\ frozenCycles \in Nat /\ fetchMissCycles \in Nat

(* cycle.cpp:162 and 276 skip a lookup that repeats the one before it.      *)
(* That never hides a miss: the block of a skipped lookup is in the cache.  *)
SkippedLookupsHit ==
  /\ prevD.valid => dCache!Hit(prevD.address)
  /\ prevICPC # NoPC => iCache!Hit(InstAddress(prevICPC))

(* cache.h:15, "Additional miss latency in cycles": every data miss freezes *)
(* the pipeline for missLatency cycles, no more and no less, whatever       *)
(* stalls, instruction misses or traps go on at the same time.              *)
DataMissesPaid ==
  frozenCycles =
    IF dataFetchMiss THEN DMissLatency * (dMisses - 1) + dataMissStalls + 1
                     ELSE DMissLatency * dMisses

(* An instruction miss costs missLatency cycles at most: a trap may cut it  *)
(* short (cycle.cpp:495), nothing prolongs it.                              *)
InstMissesNotOvercharged ==
  fetchMissCycles <=
    IF instFetchMiss THEN IMissLatency * (iMisses - 1) + instMissStalls + 1
                     ELSE IMissLatency * iMisses
==============================================================================
