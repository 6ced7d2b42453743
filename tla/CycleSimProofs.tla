---------------------------- MODULE CycleSimProofs ----------------------------
(***************************************************************************)
(* The simulator with its real caches is one of the pipelines with oracle  *)
(* caches, and it charges misses exactly what the configuration says.      *)
(***************************************************************************)
EXTENDS CycleSim, PipelineProofs

(* The specification without its fairness. *)
SimSafety == SimInit /\ [][SimNext]_simVars

(* A lookup hits or misses. *)
LEMMA HitIsBoolean == \A a : dCache!Hit(a) \in BOOLEAN /\ iCache!Hit(a) \in BOOLEAN
BY DEF dCache!Hit, iCache!Hit

(* The oracle of the simulator's pipeline allows every outcome. *)
LEMMA OracleAllowsAll == SimSafety => [](oracle = AnyOutcome)
<1>1. SimInit => oracle = AnyOutcome
  BY CycleSimAssumption DEF SimInit, Init
<1>2. oracle = AnyOutcome /\ [SimNext]_simVars => (oracle = AnyOutcome)'
  BY DEF SimNext, SimCycle, Cycle, SimStopped, simVars, vars, AnyOutcome
<1>. QED
  BY <1>1, <1>2, PTL DEF SimSafety

(* Whatever the caches answer is an outcome the oracle may choose: every    *)
(* invariant of Pipeline holds of the simulator.                            *)
THEOREM SimImplementsPipeline == SimSafety => Init /\ [][Next]_vars
<1>1. SimInit => Init
  BY DEF SimInit
<1>2. oracle = AnyOutcome /\ [SimNext]_simVars => [Next]_vars
  <2>. SUFFICES ASSUME oracle = AnyOutcome, [SimNext]_simVars
                PROVE  Next \/ UNCHANGED vars
    OBVIOUS
  <2>1. CASE SimCycle
    BY <2>1, HitIsBoolean DEF SimCycle, Next, AnyOutcome
  <2>2. CASE SimStopped
    BY <2>2 DEF SimStopped, simVars
  <2>3. CASE UNCHANGED simVars
    BY <2>3 DEF simVars
  <2>. QED
    BY <2>1, <2>2, <2>3 DEF SimNext
<1>. QED
  BY <1>1, <1>2, OracleAllowsAll, PTL DEF SimSafety

(* The pipeline's inductive invariant holds under the real caches. *)
LEMMA SimIInv == SimSafety => []IInv
BY SimImplementsPipeline, IInvInductive, PTL

------------------------------------------------------------------------------
(* The cost of a data miss.  The timer of a miss in progress is short of    *)
(* its end, and a new miss starts a new timer.                              *)

Paid ==
  /\ frozenCycles \in Nat /\ dMisses \in Nat
  /\ dataFetchMiss => dataMissStalls + 1 < DMissLatency /\ dMisses > 0
  /\ ~dataFetchMiss => dataMissStalls = 0
  /\ DataMissesPaid

(* The linear facts about products that the solver needs as given. *)
LEMMA OneMore ==
  ASSUME NEW n \in Nat, NEW m \in Nat
  PROVE  /\ n * (m + 1) = n * m + n
         /\ m > 0 => n * m = n * (m - 1) + n
         /\ n * m \in Nat
OBVIOUS

(* A cycle keeps the account of the data misses balanced. *)
LEMMA CyclePays ==
  ASSUME IInv, Paid, SimCycle, DMissLatency > 0
  PROVE  Paid'
<1>. DEFINE dHit == dCache!Hit(memInst.memAddress)
            iHit == iCache!Hit(InstAddress(ifInst.pc))
<1>1. /\ dataFetchMiss \in BOOLEAN /\ dataMissStalls \in Nat /\ DMissLatency \in Nat
      /\ frozenCycles \in Nat /\ dMisses \in Nat /\ dHit \in BOOLEAN
  BY PipelineAssumption, HitIsBoolean DEF IInv, TypeOK, Paid
<1>2. frozenCycles' = frozenCycles + (IF dMiss(dHit) THEN 1 ELSE 0)
  BY DEF SimCycle
<1>3. dMisses' = IF dAccess /\ ~dHit THEN dMisses + 1 ELSE dMisses
  BY DEF SimCycle, DataAccess, dCache!access, dCacheVars, dCache!Hit
<1>4. MissTimers(iHit, dHit)
  BY DEF SimCycle, Cycle
<1>. HIDE DEF dHit, iHit
<1>5. CASE dataFetchMiss
  <2>1. ~dAccess /\ dMiss(dHit)
    BY <1>5 DEF dAccess, dMiss
  <2>2. frozenCycles' = frozenCycles + 1 /\ dMisses' = dMisses
    BY <2>1, <1>2, <1>3
  <2>3. frozenCycles = DMissLatency * (dMisses - 1) + dataMissStalls + 1
        /\ dMisses > 0 /\ dataMissStalls + 1 < DMissLatency
    BY <1>5 DEF Paid, DataMissesPaid
  <2>4. CASE dataMissStalls + 1 >= DMissLatency - 1
    <3>1. dataFetchMiss' = FALSE /\ dataMissStalls' = 0
      BY <2>4, <1>1, <1>4, <1>5 DEF MissTimers, Expired
    <3>2. frozenCycles' = DMissLatency * (dMisses - 1) + DMissLatency
      <4>. DEFINE base == DMissLatency * (dMisses - 1)
      <4>1. base \in Int
        BY <1>1
      <4>2. frozenCycles = base + dataMissStalls + 1
        BY <2>3
      <4>. HIDE DEF base
      <4>3. frozenCycles' = base + DMissLatency
        BY <4>1, <4>2, <2>2, <2>3, <2>4, <1>1
      <4>. QED
        BY <4>3 DEF base
    <3>3. frozenCycles' = DMissLatency * dMisses'
      BY <3>2, <2>2, <2>3, <1>1, OneMore
    <3>. QED
      BY <3>1, <3>3, <2>2, <1>1 DEF Paid, DataMissesPaid
  <2>5. CASE ~(dataMissStalls + 1 >= DMissLatency - 1)
    <3>1. dataFetchMiss' = TRUE /\ dataMissStalls' = dataMissStalls + 1
      BY <2>1, <2>5, <1>1, <1>4, <1>5 DEF MissTimers, Expired
    <3>2. frozenCycles' = DMissLatency * (dMisses' - 1) + dataMissStalls' + 1
      <4>. DEFINE base == DMissLatency * (dMisses - 1)
      <4>1. base \in Int
        BY <1>1
      <4>2. frozenCycles = base + dataMissStalls + 1
        BY <2>3
      <4>. HIDE DEF base
      <4>3. frozenCycles' = base + dataMissStalls' + 1
        BY <4>1, <4>2, <2>2, <3>1, <1>1
      <4>. QED
        BY <4>3, <2>2 DEF base
    <3>. QED
      BY <3>1, <3>2, <2>2, <2>3, <2>5, <1>1 DEF Paid, DataMissesPaid
  <2>. QED
    BY <2>4, <2>5
<1>6. CASE ~dataFetchMiss /\ dMiss(dHit)
  <2>1. frozenCycles' = frozenCycles + 1 /\ dMisses' = dMisses + 1
    BY <1>2, <1>3, <1>6 DEF dMiss
  <2>2. frozenCycles = DMissLatency * dMisses
    BY <1>6 DEF Paid, DataMissesPaid
  <2>3. CASE DMissLatency = 1
    <3>1. dataFetchMiss' = FALSE /\ dataMissStalls' = 0
      BY <2>3, <1>1, <1>4, <1>6 DEF MissTimers, Expired
    <3>2. frozenCycles' = DMissLatency * dMisses'
      BY <2>1, <2>2, <2>3, <1>1
    <3>. QED
      BY <3>1, <3>2, <2>1, <1>1 DEF Paid, DataMissesPaid
  <2>4. CASE DMissLatency # 1
    <3>1. dataFetchMiss' = TRUE /\ dataMissStalls' = 0
      <4>1. ~Expired(0, DMissLatency)
        BY <2>4, <1>1 DEF Expired
      <4>. QED
        BY <4>1, <1>4, <1>6 DEF MissTimers
    <3>2. frozenCycles' = DMissLatency * (dMisses' - 1) + dataMissStalls' + 1
      <4>1. dMisses' - 1 = dMisses
        BY <2>1, <1>1
      <4>. QED
        BY <4>1, <3>1, <2>1, <2>2, <1>1, OneMore
    <3>. QED
      BY <3>1, <3>2, <2>1, <2>4, <1>1 DEF Paid, DataMissesPaid
  <2>. QED
    BY <2>3, <2>4
<1>7. CASE ~dMiss(dHit)
  <2>1. ~dataFetchMiss /\ ~(dAccess /\ ~dHit)
    BY <1>7 DEF dMiss
  <2>2. frozenCycles' = frozenCycles /\ dMisses' = dMisses
    BY <2>1, <1>1, <1>2, <1>3, <1>7
  <2>3. dataFetchMiss' = FALSE /\ dataMissStalls' = 0
    BY <2>1, <1>4, <1>7 DEF MissTimers, Paid
  <2>. QED
    BY <2>1, <2>2, <2>3 DEF Paid, DataMissesPaid
<1>. QED
  BY <1>1, <1>5, <1>6, <1>7

(* Every data miss freezes the pipeline for exactly missLatency cycles      *)
(* (cycle.cpp:150-178, 587-596), for every program and cache geometry and   *)
(* every latency but 0.                                                     *)
THEOREM SimDataMissesPaid ==
  ASSUME DMissLatency > 0
  PROVE  SimSafety => []DataMissesPaid
<1>1. SimInit => Paid
  <2>. SUFFICES ASSUME SimInit PROVE Paid
    OBVIOUS
  <2>1. DMissLatency * 0 = 0
    BY PipelineAssumption
  <2>. QED
    BY <2>1 DEF SimInit, Init, dCache!Init, Paid, DataMissesPaid
<1>2. IInv /\ Paid /\ [SimNext]_simVars => Paid'
  <2>1. ASSUME IInv, Paid, SimCycle PROVE Paid'
    BY <2>1, CyclePays
  <2>2. ASSUME Paid, UNCHANGED simVars PROVE Paid'
    BY <2>2 DEF simVars, vars, misses, dCacheVars, Paid, DataMissesPaid
  <2>. QED
    BY <2>1, <2>2 DEF SimNext, SimStopped
<1>3. Paid => DataMissesPaid
  BY DEF Paid
<1>. QED
  BY <1>1, <1>2, <1>3, SimIInv, PTL DEF SimSafety

------------------------------------------------------------------------------
(* The cost of an instruction miss, which a trap or a taken branch may end  *)
(* before its timer does.                                                   *)

Charged ==
  /\ fetchMissCycles \in Nat /\ iMisses \in Nat
  /\ instFetchMiss => instMissStalls + 1 < IMissLatency /\ iMisses > 0
  /\ ~instFetchMiss => instMissStalls = 0
  /\ InstMissesNotOvercharged

(* A cycle keeps the charge for instruction misses within its bound. *)
LEMMA CycleCharges ==
  ASSUME IInv, Charged, SimCycle, IMissLatency > 0
  PROVE  Charged'
<1>. DEFINE dHit == dCache!Hit(memInst.memAddress)
            iHit == iCache!Hit(InstAddress(ifInst.pc))
            dropped == MissDropped(iHit, dHit)
<1>1. /\ instFetchMiss \in BOOLEAN /\ instMissStalls \in Nat /\ IMissLatency \in Nat
      /\ fetchMissCycles \in Nat /\ iMisses \in Nat /\ iHit \in BOOLEAN
  BY PipelineAssumption, HitIsBoolean DEF IInv, TypeOK, Charged
<1>2. fetchMissCycles' = fetchMissCycles + (IF iMiss(iHit) THEN 1 ELSE 0)
  BY DEF SimCycle
<1>3. iMisses' = IF iAccess /\ ~iHit THEN iMisses + 1 ELSE iMisses
  BY DEF SimCycle, InstAccess, iCache!access, iCacheVars, iCache!Hit
<1>4. MissTimers(iHit, dHit)
  BY DEF SimCycle, Cycle
<1>. HIDE DEF dHit, iHit
<1>5. CASE instFetchMiss
  <2>1. ~iAccess /\ iMiss(iHit)
    BY <1>5 DEF iAccess, iMiss
  <2>2. fetchMissCycles' = fetchMissCycles + 1 /\ iMisses' = iMisses
    BY <2>1, <1>2, <1>3
  <2>. DEFINE base == IMissLatency * (iMisses - 1)
  <2>3. /\ fetchMissCycles <= base + instMissStalls + 1
        /\ iMisses > 0 /\ instMissStalls + 1 < IMissLatency
    BY <1>5 DEF Charged, InstMissesNotOvercharged
  <2>4. base \in Int /\ IMissLatency * iMisses = base + IMissLatency
    BY <2>3, <1>1, OneMore
  <2>. HIDE DEF base
  <2>5. CASE dropped \/ Expired(instMissStalls + 1, IMissLatency)
    <3>1. instFetchMiss' = FALSE
      BY <2>5, <1>4, <1>5 DEF MissTimers
    <3>2. instMissStalls' = 0
      BY <2>5, <1>4, <1>5 DEF MissTimers
    <3>3. fetchMissCycles' <= IMissLatency * iMisses'
      BY <2>2, <2>3, <2>4, <1>1
    <3>. QED
      BY <3>1, <3>2, <3>3, <2>2, <1>1 DEF Charged, InstMissesNotOvercharged
  <2>6. CASE ~dropped /\ ~Expired(instMissStalls + 1, IMissLatency)
    <3>1. instFetchMiss' = TRUE /\ instMissStalls' = instMissStalls + 1
      BY <2>1, <2>6, <1>4, <1>5 DEF MissTimers
    <3>2. fetchMissCycles' <= IMissLatency * (iMisses' - 1) + instMissStalls' + 1
      <4>1. fetchMissCycles' <= base + instMissStalls' + 1
        BY <2>2, <2>3, <2>4, <3>1, <1>1
      <4>. QED
        BY <4>1, <2>2 DEF base
    <3>3. instMissStalls' + 1 < IMissLatency
      BY <2>6, <3>1, <1>1 DEF Expired
    <3>. QED
      BY <3>1, <3>2, <3>3, <2>2, <2>3, <1>1 DEF Charged, InstMissesNotOvercharged
  <2>. QED
    BY <2>5, <2>6
<1>6. CASE ~instFetchMiss /\ iMiss(iHit)
  <2>1. fetchMissCycles' = fetchMissCycles + 1 /\ iMisses' = iMisses + 1
    BY <1>2, <1>3, <1>6 DEF iMiss
  <2>2. fetchMissCycles <= IMissLatency * iMisses
    BY <1>6 DEF Charged, InstMissesNotOvercharged
  <2>3. IMissLatency * iMisses' = IMissLatency * iMisses + IMissLatency
        /\ IMissLatency * iMisses \in Nat
    BY <2>1, <1>1, OneMore
  <2>4. CASE dropped \/ Expired(0, IMissLatency)
    <3>1. instFetchMiss' = FALSE
      BY <2>4, <1>4, <1>6 DEF MissTimers
    <3>2. instMissStalls' = 0
      BY <2>4, <1>4, <1>6 DEF MissTimers
    <3>3. fetchMissCycles' <= IMissLatency * iMisses'
      BY <2>1, <2>2, <2>3, <1>1
    <3>. QED
      BY <3>1, <3>2, <3>3, <2>1, <1>1 DEF Charged, InstMissesNotOvercharged
  <2>5. CASE ~dropped /\ ~Expired(0, IMissLatency)
    <3>1. instFetchMiss' = TRUE /\ instMissStalls' = 0
      BY <2>5, <1>4, <1>6 DEF MissTimers
    <3>2. fetchMissCycles' <= IMissLatency * (iMisses' - 1) + instMissStalls' + 1
      <4>1. iMisses' - 1 = iMisses
        BY <2>1, <1>1
      <4>. QED
        BY <4>1, <3>1, <2>1, <2>2, <2>3, <1>1
    <3>3. 1 < IMissLatency
      BY <2>5, <1>1 DEF Expired
    <3>. QED
      BY <3>1, <3>2, <3>3, <2>1, <1>1 DEF Charged, InstMissesNotOvercharged
  <2>. QED
    BY <2>4, <2>5
<1>7. CASE ~iMiss(iHit)
  <2>1. ~instFetchMiss /\ ~(iAccess /\ ~iHit)
    BY <1>7 DEF iMiss
  <2>2. fetchMissCycles' = fetchMissCycles /\ iMisses' = iMisses
    BY <2>1, <1>1, <1>2, <1>3, <1>7
  <2>3. instFetchMiss' = FALSE /\ instMissStalls' = 0
    BY <2>1, <1>4, <1>7 DEF MissTimers, Charged
  <2>. QED
    BY <2>1, <2>2, <2>3 DEF Charged, InstMissesNotOvercharged
<1>. QED
  BY <1>1, <1>5, <1>6, <1>7

(* No instruction miss costs more than missLatency cycles (cycle.cpp:274-   *)
(* 294, 587-596), for every program and cache geometry and every latency    *)
(* but 0.                                                                   *)
THEOREM SimInstMissesNotOvercharged ==
  ASSUME IMissLatency > 0
  PROVE  SimSafety => []InstMissesNotOvercharged
<1>1. SimInit => Charged
  <2>. SUFFICES ASSUME SimInit PROVE Charged
    OBVIOUS
  <2>1. IMissLatency * 0 = 0
    BY PipelineAssumption
  <2>. QED
    BY <2>1 DEF SimInit, Init, iCache!Init, Charged, InstMissesNotOvercharged
<1>2. IInv /\ Charged /\ [SimNext]_simVars => Charged'
  <2>1. ASSUME IInv, Charged, SimCycle PROVE Charged'
    BY <2>1, CycleCharges
  <2>2. ASSUME Charged, UNCHANGED simVars PROVE Charged'
    BY <2>2 DEF simVars, vars, misses, iCacheVars, Charged, InstMissesNotOvercharged
  <2>. QED
    BY <2>1, <2>2 DEF SimNext, SimStopped
<1>3. Charged => InstMissesNotOvercharged
  BY DEF Charged
<1>. QED
  BY <1>1, <1>2, <1>3, SimIInv, PTL DEF SimSafety
------------------------------------------------------------------------------
(* The caches inside the simulator: what CacheProofs shows of an access     *)
(* holds of both.                                                           *)

iCacheP == INSTANCE CacheProofs WITH
  cacheSize <- iCacheConfig.cacheSize, blockSize <- iCacheConfig.blockSize,
  ways <- iCacheConfig.ways, Addresses <- {InstAddress(pc) : pc \in Value},
  MaxAccesses <- 0, sets <- iSets, hits <- iHits, misses <- iMisses

dCacheP == INSTANCE CacheProofs WITH
  cacheSize <- dCacheConfig.cacheSize, blockSize <- dCacheConfig.blockSize,
  ways <- dCacheConfig.ways, Addresses <- Value,
  MaxAccesses <- 0, sets <- dSets, hits <- dHits, misses <- dMisses

(* The lemmas are about the same geometry and the same cache. *)
LEMMA Geometries == iCacheP!Geometry /\ dCacheP!Geometry
<1>1. iCache!Geometry /\ dCache!Geometry
  BY CycleSimAssumption
<1>2. iCacheP!Geometry
  BY <1>1, Zenon DEF iCache!Geometry, iCache!NumSets, iCache!index_bits, iCache!offset_bits,
     iCache!log2, iCacheP!Geometry, iCacheP!NumSets, iCacheP!index_bits,
     iCacheP!offset_bits, iCacheP!log2
<1>3. dCacheP!Geometry
  BY <1>1, Zenon DEF dCache!Geometry, dCache!NumSets, dCache!index_bits, dCache!offset_bits,
     dCache!log2, dCacheP!Geometry, dCacheP!NumSets, dCacheP!index_bits,
     dCacheP!offset_bits, dCacheP!log2
<1>. QED
  BY <1>2, <1>3

(* An access to the I-cache keeps it consistent and leaves its block there.  *)
LEMMA InstAccesses ==
  ASSUME iCacheP!Inv, NEW a \in {InstAddress(pc) : pc \in Value}, iCache!access(a)
  PROVE  iCacheP!Inv' /\ iCache!Hit(a)'
<1>1. \A x : iCache!index(x) = iCacheP!index(x) /\ iCache!tag(x) = iCacheP!tag(x)
  BY DEF
     iCache!index, iCacheP!index, iCache!tag, iCacheP!tag,
     iCache!index_bits, iCacheP!index_bits, iCache!offset_bits,
     iCacheP!offset_bits, iCache!log2, iCacheP!log2, iCache!NumSets,
     iCacheP!NumSets
<1>2. \A set, t : iCache!HitWays(set, t) = iCacheP!HitWays(set, t)
  BY DEF iCache!HitWays, iCacheP!HitWays, iCache!Way, iCacheP!Way
<1>3. \A set, t : iCache!Accessed(set, t) = iCacheP!Accessed(set, t)
  BY DEF
     iCache!Accessed, iCacheP!Accessed, iCache!Touch, iCacheP!Touch,
     iCache!Victim, iCacheP!Victim, iCache!Min, iCacheP!Min, iCache!Max,
     iCacheP!Max, iCache!Invalid, iCacheP!Invalid, iCache!MaxRank,
     iCacheP!MaxRank, iCache!HitWays, iCacheP!HitWays, iCache!Way,
     iCacheP!Way
<1>4. iCacheP!access(a)
  BY <1>1, <1>2, <1>3, Zenon DEF iCache!access, iCacheP!access, iCache!Hit, iCacheP!Hit
<1>5. iCacheP!Inv' /\ iCacheP!Hit(a)'
  BY <1>4, Geometries, iCacheP!AccessKeepsInv
<1>6. (iCache!Hit(a))' = (iCacheP!Hit(a))'
  BY <1>1, <1>2 DEF iCache!Hit, iCacheP!Hit
<1>. QED
  BY <1>5, <1>6

(* And so does an access to the D-cache.                                     *)
LEMMA DataAccesses ==
  ASSUME dCacheP!Inv, NEW a \in Value, dCache!access(a)
  PROVE  dCacheP!Inv' /\ dCache!Hit(a)'
<1>1. \A x : dCache!index(x) = dCacheP!index(x) /\ dCache!tag(x) = dCacheP!tag(x)
  BY DEF
     dCache!index, dCacheP!index, dCache!tag, dCacheP!tag,
     dCache!index_bits, dCacheP!index_bits, dCache!offset_bits,
     dCacheP!offset_bits, dCache!log2, dCacheP!log2, dCache!NumSets,
     dCacheP!NumSets
<1>2. \A set, t : dCache!HitWays(set, t) = dCacheP!HitWays(set, t)
  BY DEF dCache!HitWays, dCacheP!HitWays, dCache!Way, dCacheP!Way
<1>3. \A set, t : dCache!Accessed(set, t) = dCacheP!Accessed(set, t)
  BY DEF
     dCache!Accessed, dCacheP!Accessed, dCache!Touch, dCacheP!Touch,
     dCache!Victim, dCacheP!Victim, dCache!Min, dCacheP!Min, dCache!Max,
     dCacheP!Max, dCache!Invalid, dCacheP!Invalid, dCache!MaxRank,
     dCacheP!MaxRank, dCache!HitWays, dCacheP!HitWays, dCache!Way,
     dCacheP!Way
<1>4. dCacheP!access(a)
  BY <1>1, <1>2, <1>3, Zenon DEF dCache!access, dCacheP!access, dCache!Hit, dCacheP!Hit
<1>5. dCacheP!Inv' /\ dCacheP!Hit(a)'
  BY <1>4, Geometries, dCacheP!AccessKeepsInv
<1>6. (dCache!Hit(a))' = (dCacheP!Hit(a))'
  BY <1>1, <1>2 DEF dCache!Hit, dCacheP!Hit
<1>. QED
  BY <1>5, <1>6

(* Both caches are consistent, and hold the block that a skipped lookup     *)
(* would ask for.                                                           *)
CachesInv ==
  /\ iCacheP!Inv /\ dCacheP!Inv
  /\ SkippedLookupsHit
  /\ cycleCount \in Nat /\ frozenCycles \in Nat /\ fetchMissCycles \in Nat

(* The caches start empty, and with nothing looked up. *)
LEMMA CachesStart == SimInit => CachesInv
<1>. SUFFICES ASSUME SimInit PROVE CachesInv
  OBVIOUS
<1>1. iCacheP!Init
  BY DEF SimInit, iCache!Init, iCacheP!Init, iCache!SetIndex, iCacheP!SetIndex,
     iCache!Way, iCacheP!Way, iCache!NumSets, iCacheP!NumSets
<1>2. dCacheP!Init
  BY DEF SimInit, dCache!Init, dCacheP!Init, dCache!SetIndex, dCacheP!SetIndex,
     dCache!Way, dCacheP!Way, dCache!NumSets, dCacheP!NumSets
<1>3. iCacheP!Inv /\ dCacheP!Inv
  BY <1>1, <1>2, Geometries, iCacheP!InitInv, dCacheP!InitInv
<1>4. SkippedLookupsHit
  BY DEF SimInit, Init, SkippedLookupsHit
<1>. QED
  BY <1>3, <1>4 DEF SimInit, CachesInv

(* A lookup leaves its block behind, and the next one of the same cache is  *)
(* skipped only while that block is still the last one looked up.           *)
LEMMA CycleKeepsCaches ==
  ASSUME IInv, CachesInv, SimCycle
  PROVE  CachesInv'
<1>. DEFINE dHit == dCache!Hit(memInst.memAddress)
            iHit == iCache!Hit(InstAddress(ifInst.pc))
<1>1. Lookups /\ DataAccess /\ InstAccess
  BY DEF SimCycle, Cycle
<1>2. dCacheP!Inv' /\ (prevD.valid => dCache!Hit(prevD.address))'
  <2>1. CASE dAccess
    <3>1. memInst.memAddress \in Value
      BY DEF IInv, TypeOK, Instruction
    <3>2. PICK a \in Value : a = memInst.memAddress
      BY <3>1
    <3>3. dCache!access(a)
      BY <2>1, <3>2, <1>1 DEF DataAccess
    <3>4. dCacheP!Inv' /\ dCache!Hit(a)'
      BY <3>3, DataAccesses DEF CachesInv
    <3>5. prevD'.address = a
      BY <2>1, <3>2, <1>1 DEF Lookups, DataLookup
    <3>. QED
      BY <3>4, <3>5 DEF dCache!Hit
  <2>2. CASE ~dAccess
    <3>1. UNCHANGED <<dSets, dHits, dMisses, prevD>>
      BY <2>2, <1>1 DEF DataAccess, dCacheVars, Lookups
    <3>2. dCacheP!Inv'
      BY <3>1 DEF CachesInv, dCacheP!Inv
    <3>. QED
      BY <3>1, <3>2 DEF CachesInv, SkippedLookupsHit, dCache!Hit
  <2>. QED
    BY <2>1, <2>2
<1>3. iCacheP!Inv' /\ (prevICPC # NoPC => iCache!Hit(InstAddress(prevICPC)))'
  <2>1. CASE iAccess
    <3>1. ifInst.pc \in Value
      BY DEF IInv, TypeOK, Instruction
    <3>2. PICK a \in {InstAddress(pc) : pc \in Value} : a = InstAddress(ifInst.pc)
      BY <3>1
    <3>3. iCache!access(a)
      BY <2>1, <3>2, <1>1 DEF InstAccess
    <3>4. iCacheP!Inv' /\ iCache!Hit(a)'
      BY <3>3, InstAccesses DEF CachesInv
    <3>5. InstAddress(prevICPC') = a
      BY <2>1, <3>2, <1>1 DEF Lookups
    <3>. QED
      BY <3>4, <3>5 DEF iCache!Hit, InstAddress
  <2>2. CASE ~iAccess
    <3>1. UNCHANGED <<iSets, iHits, iMisses, prevICPC>>
      BY <2>2, <1>1 DEF InstAccess, iCacheVars, Lookups
    <3>2. iCacheP!Inv'
      BY <3>1 DEF CachesInv, iCacheP!Inv
    <3>. QED
      BY <3>1, <3>2 DEF CachesInv, SkippedLookupsHit, iCache!Hit, InstAddress
  <2>. QED
    BY <2>1, <2>2
<1>4. cycleCount' \in Nat /\ frozenCycles' \in Nat /\ fetchMissCycles' \in Nat
  BY DEF SimCycle, CachesInv
<1>. QED
  BY <1>2, <1>3, <1>4 DEF CachesInv, SkippedLookupsHit

(* The invariant of the caches holds under any sequence of cycles. *)
LEMMA CachesInvInductive == SimSafety => []CachesInv
<1>1. IInv /\ CachesInv /\ [SimNext]_simVars => CachesInv'
  <2>1. ASSUME CachesInv, UNCHANGED simVars PROVE CachesInv'
    BY <2>1 DEF simVars, vars, iCacheVars, dCacheVars, CachesInv, SkippedLookupsHit,
       iCacheP!Inv, dCacheP!Inv, iCache!Hit, dCache!Hit
  <2>. QED
    BY <2>1, CycleKeepsCaches DEF SimNext, SimStopped
<1>. QED
  BY <1>1, CachesStart, SimIInv, PTL DEF SimSafety

(* A skipped lookup (cycle.cpp:162, 276) never hides a miss, for every      *)
(* program and every geometry of the two caches.                            *)
THEOREM SimSkippedLookupsHit == SimSafety => []SkippedLookupsHit
<1>1. CachesInv => SkippedLookupsHit
  BY DEF CachesInv
<1>. QED
  BY <1>1, CachesInvInductive, PTL

(* The simulator's state stays well typed, its caches' included. *)
THEOREM SimTypeCorrect == SimSafety => []SimTypeOK
<1>1. IInv /\ CachesInv => SimTypeOK
  <2>. SUFFICES ASSUME IInv, CachesInv PROVE SimTypeOK
    OBVIOUS
  <2>1. iCache!TypeOK
    BY DEF CachesInv, iCacheP!Inv, iCache!TypeOK, iCache!SetIndex, iCacheP!SetIndex,
       iCache!Way, iCacheP!Way, iCache!Block, iCacheP!Block, iCache!Tags, iCacheP!Tags,
       iCache!tag, iCacheP!tag, iCache!index_bits, iCacheP!index_bits,
       iCache!offset_bits, iCacheP!offset_bits, iCache!log2, iCacheP!log2,
       iCache!NumSets, iCacheP!NumSets
  <2>2. dCache!TypeOK
    BY DEF CachesInv, dCacheP!Inv, dCache!TypeOK, dCache!SetIndex, dCacheP!SetIndex,
       dCache!Way, dCacheP!Way, dCache!Block, dCacheP!Block, dCache!Tags, dCacheP!Tags,
       dCache!tag, dCacheP!tag, dCache!index_bits, dCacheP!index_bits,
       dCache!offset_bits, dCacheP!offset_bits, dCache!log2, dCacheP!log2,
       dCache!NumSets, dCacheP!NumSets
  <2>. QED
    BY <2>1, <2>2 DEF SimTypeOK, IInv, CachesInv
<1>. QED
  BY <1>1, CachesInvInductive, SimIInv, PTL
==============================================================================
