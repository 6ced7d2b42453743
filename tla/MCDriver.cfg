\* The whole simulator with two small caches, in calls of up to three cycles.
SPECIFICATION DriverSpec
CONSTANTS
  WordMod = 8
  NumRegs = 3
  MemSize = 4
  EXC_HANDLER = 7
  Programs <- DriverPrograms
  InitMem <- MCInitMem
  IMissLatency = 2
  DMissLatency = 3
  Oracles <- AnyOutcomes
  iCacheConfig <- MCICacheConfig
  dCacheConfig <- MCDCacheConfig
  MaxCycles = 45
  ConfigFiles <- MCConfigFiles
  CallLengths = {0, 1, 3}
INVARIANTS DriverTypeOK SkippedLookupsHit DataMissesPaid InstMissesNotOvercharged
INVARIANTS OneRowPerCall CountedOnce OneStoreEscapes
PROPERTIES CallsAreCycles RunsAsMachine Finishes
