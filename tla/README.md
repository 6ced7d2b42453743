# Verification of the RISC-V simulators

This directory holds TLA+ models of the two simulators under `src/` (a functional one and a
cycle-accurate five-stage pipeline with caches), the TLC configurations that check them on small
instances, and proofs of their main invariants for every size, checked by TLAPS. File names of the
program below are those of its own `src/` directory.

## 1. The system

| Part | Code | State | Operations |
|---|---|---|---|
| Stage functions | `simulator.cpp/.h` | registers, memory pointer, `din` | `simFetch` .. `simCommit`; `simIF`, `simID`, `simEX`, `simMEM`, `simWB`; `simInstruction` |
| Functional simulator | `funct.cpp/.h` | `PC`, `simulator` | `initSimulator`, `runInstructions`, `runTillHalt` |
| Pipeline | `cycle.cpp/.h` | five stage registers, `PC`, two misses with timers, stall countdown, last lookups, counters | `initSimulator`, `runCycles`, `runTillHalt` |
| Caches | `cache.cpp/.h` | per way a valid bit, tag and LRU rank; hits and misses | constructor, `access` |
| Memory | `MemoryStore.cpp/.h` | a byte array | `getMemValue`, `setMemValue`, `loadFromFile`, `prepareMemory`, `printMemArray` |
| Drivers | `sim_cycle.cpp`, `sim_funct.cpp` | between calls of `runCycles`: the misses saved in the caches, the files | parse arguments, `initSimulator`, `runTillHalt`, `finalizeSimulator` |
| Output | `Utilities.cpp/.h`, `RegisterInfo.h` | none | disassembler, dumps, `extractBits`, `sext64` |

`cycle.cpp.backup` is an earlier pipeline that is not built.

**Interactions.** Both simulators call the same stage functions. The functional one calls
`simInstruction`, which runs one instruction from fetch to commit. The pipeline calls one stage
function per stage and cycle, on copies of the stage registers taken when the cycle begins; WB
runs before ID, so ID reads what WB has just written. Forwarding changes those copies. Each cycle
may look up the data cache for the instruction in MEM and the instruction cache for the one in IF;
the caches return hit or miss and keep no data, so a miss only costs time. The stage in which a
miss is noticed freezes: a data miss freezes MEM, EX, ID and IF, an instruction miss IF alone.

**What is hard.** Nothing runs in parallel, but five instructions are in flight and five things may
happen to them in one cycle: a data miss, an instruction miss, a hazard stall, a branch outcome, a
trap. Each has its own state that outlives the cycle (two timers, `remainingStallCycles`, the
`SPECULATIVE` status, `PC` running ahead of IF), and the code decides between them by the order of
its `if`s. A test sees a few of the combinations; the models take them all.

**What makes each part correct.**
- *Functional simulator*: each call has the effect of one instruction of the architecture.
- *Pipeline*: the instructions take effect in program order as if one at a time; x0 reads as zero;
  stalls and misses end; the counters count what they name.
- *Caches*: they hit exactly on the most recently used blocks of each set.
- *Composition*: a miss costs its configured latency; a lookup that is skipped would have hit.
- *Memory*: accesses of any width read and write one little-endian number; the program starts on the
  image and the file it was given; a dump shows the bytes it says it shows.
- *Driver*: where a call of `runCycles` ends makes no difference; counters, rows and files agree with
  what ran; main returns.
- *Decoding and output*: each of the many encodings behaves as its class; the ALU's casts move the
  right bits; all comparisons agree on one order; the disassembly names the instruction that is executed.

`PROJECT.json` lists every component with its status and every hazard with the line where it bites.

## 2. Modules

| Module | What it is |
|---|---|
| `Simulator` | The stage functions as constant operators on an instruction record. No variables. |
| `Machine` | *Abstract.* The instruction set: one instruction per step, an action per class of word. |
| `Funct` | The functional simulator. `runInstructions` is one call with count 1. |
| `Pipeline` | The loop of `runCycles`: one step, `Cycle(iHit, dHit)`, is one iteration. |
| `RecencyCache` | *Abstract.* Per set a list of the blocks used last, the newest first. |
| `Cache` | `cache.cpp`: geometry, hit search, victim, ranks, statistics. |
| `CycleSim` | `Pipeline` with two instances of `Cache` in the place of its oracles. |
| `Driver` | `CycleSim` inside the calls of `runCycles`, from main's parsing to the statistics; the files written. |
| `MemoryStore` | `MemoryStore.cpp` byte by byte: construction, accesses, dump. |
| `FlatMemory` | *Abstract.* The memory as one number of which loads and stores take and replace digits. |
| `Decoder` | Words by their fields: legality, flags, operation, immediates. Constant operators. |
| `Disassembler` | `printInstr` and its helpers, a second reading of the same fields. Constant operators. |
| `Datapath` | One encoded word through ID, EX and the dump, with the ALU's operations at their widths. |
| `MCPrograms` | The programs that the configurations run. |
| `MCCache`, `MCFunct`, `MCPipeline`, `MCDriver`, `MCMemory`, `MCDatapath` | Instances for TLC. |
| `SimulatorProofs`, `FunctProofs`, `PipelineProofs`, `CacheProofs`, `CycleSimProofs`, `DriverProofs`, `MemoryProofs`, `DatapathProofs` | Theorems, one module per component. |

`Driver` extends `CycleSim`, which extends `Pipeline`, which extends `Simulator`; `Datapath` extends
`Disassembler` and `Decoder`, and instantiates `Simulator` to compare its classes with the decoder.
The language's `^`, `|` and `&` are operator constants of `Datapath`; `MCDatapath` gives them those of
the module `Bitwise`.

**Data.** In `Simulator` and what builds on it a word is a record `[op, rd, rs1, rs2, imm]` with one
`op` per class the decoder tells apart: two-operand arithmetic (`add`), immediate arithmetic
(`addi`), no-operand arithmetic (`lui`, also for `auipc`), load, store, two branches, `jal`, `jalr`,
nop, halt and illegal. `Datapath.DecodesByClass` checks on encoded words that each has the flags of
its class, which is all that hazards, forwards and squashes look at. Values, addresses and PCs are
numbers modulo `WordMod`; addition wraps as `uint64_t` does. A PC counts instructions, so the code's
`PC + 4` is `Plus(PC, 1)`. Data memory has `MemSize` indivisible cells; addresses above do not exist.
Their bytes are the subject of `MemoryStore`. Code and data are kept apart: a program that stores
into its own code is outside the model. Memory without code is zero, and zero decodes as illegal, in
the code as in the model.

**Control.** All of it is kept: every condition and early return of the cycle, in the code's order.
`Cycle` conjoins `Lookups` (lines 159-290), `Hazards` (181-272), `WriteBack`, `Memory`, `Execute`,
`Decode`, `Fetch` with one disjunct per branch of the code, `MissTimers` and `HaltCheck`.
`NewID(_, _, registersAfterWB)` receives the primed registers because WB runs first. The memory
exception's branch is modelled although it is never taken (see the proofs). With latency 0 the code's
`missLatency - 1` wraps to 2^64 - 1, so `Expired` is then false.

**Calls.** In the code the miss flags and timers are locals of `runCycles`, and the caches hold the
copies that outlive a call. `Driver.Call` sets the locals from `iSaved` and `dSaved`, `Iterate` is one
`SimCycle`, `Return` saves them again. `runTillHalt` asks for one cycle per call; the model also takes
calls of three cycles and of no particular number (argument 0), as the comment on `runCycles` and the
line `runCycles(10)` in main foresee. A configuration is a sequence of numbers or `NoNumber`, of
which the eight first count; the output file may hold a row of an earlier run.

**Bytes.** `MemoryStore` moves bytes one at a time up to the first that does not exist (`Moved`), and
reports an error if any was left. `prepareMemory` takes two tokens per step, with the extra iteration
that the stream's failure bit causes; its assertion is compiled in (the Makefile defines no `NDEBUG`).

**History.** `CycleSim` adds `frozenCycles` and `fetchMissCycles`, `Driver` adds `entered` and
`memAtHalt`; no action reads them. Properties on costs and counts need them.

**Faithfulness.** Besides reading, the model of the whole simulator was run against the program
itself: on 620 random programs and several cache configurations, stage contents and statuses after
each cycle, registers, and the seven statistics agreed in every cycle. The misprints of section 3
were seen in the output of the compiled `Utilities.cpp`. These comparisons are not part of the
directory.

Operators with the comment "Mutant of ..." are not part of a specification. Each is the changed form
of a definition, listed in `PROJECT.json` with the property that notices the change.

## 3. What the runs check

Run one with `tlc -workers 2 -config X.cfg M`.

| Run | Instance | Properties |
|---|---|---|
| `MCCache` | 2 sets of 3 ways in use, 8 blocks, every sequence of `MaxAccesses` = 7 accesses (32 385 states) | `TypeOK`, `RanksDistinct`, `InvalidWaysUntouched`, `NoDuplicateTags`, `NewestSurvives`, `ImplementsRecency` |
| `MCFunct` | all programs below, the departures included (10 157) | `TypeOK`, `ImplementsMachine` |
| `MCPipeline` | straight-line code, branches and loops; any lookup may miss (130 373) | `TypeOK`, `ZeroReadsZero`, `BranchesResolved`, `ImplementsMachine`, `Halts`, `StalledConsumerWaits` |
| `MCDriver` | the whole simulator with two small caches, calls of 1, 3 or all cycles (62 651) | `DriverTypeOK`, `SkippedLookupsHit`, `DataMissesPaid`, `InstMissesNotOvercharged`, `OneRowPerCall`, `CountedOnce`, `OneStoreEscapes`, `CallsAreCycles`, `RunsAsMachine`, `Finishes` |
| `MCMemory` | nine bytes, six images, three program files, then any two calls (20 305) | `TypeOK`, `LoadedAsGiven`, `ImplementsFlat`, `DumpShowsRange` |
| `MCDatapath` | every opcode and function code, boundary immediates and operands (214 280) | `TypeOK`, `DecodesByClass`, `BitsMoved`, `OrdersByBits`, `IllegalShown`, `ShowsWhatRuns` |

**`ImplementsMachine`** is the main property: `Machine`'s specification under a refinement mapping.
An instruction of the pipeline takes effect when it enters MEM, for from then on nothing squashes
it. The machine's registers are the register file with the instruction in MEM already committed; its
PC is the PC of the oldest live instruction that has not entered MEM, or the handler when that one is
illegal. So a wrong forward, a lost or repeated instruction, a wrong path that stores, and an
imprecise trap all show as a step that `Machine` cannot take. For `Funct` the mapping is the identity
except for registers[0] and for an illegal word, where the functional simulator stops with `ERROR`
and the machine goes to the handler. **`RunsAsMachine`** is the same of a whole run of the driver, up
to the moment the halt enters MEM; **`OneStoreEscapes`** says what can still happen after that: the
halt is noticed at the end of the cycle that retires it (`cycle.cpp:602`), so a store in the word
right behind it changes the memory, and nothing else does.

**`Halts`** excludes the executions in which the machine halts and the pipeline does not;
**`Finishes`** says that main returns, or refuses its configuration.

**`BranchesResolved`**: a branch leaves ID with the next PC that its operands give.
**`StalledConsumerWaits`**: when a load-use stall is counted, its consumer does not enter EX.
**`DataMissesPaid`**: cycles frozen by data misses = misses times latency, whatever happens at the
same time. **`InstMissesNotOvercharged`**: at most that, since a trap cuts a miss short.
**`SkippedLookupsHit`**: the code skips a lookup equal to the one before; that block is cached.
**`ImplementsRecency`**: hits, misses and evictions are those of a recency list.

**`CallsAreCycles`**: a run in calls makes the steps of `CycleSim`, in which there are no calls.
**`OneRowPerCall`**: every call leaves one row, with the number of its last cycle, the halting one no
second, and no row of an earlier run survives. **`CountedOnce`**: the number of dynamic instructions
is the number of those that entered MEM, however long a miss keeps one there.

**`ImplementsFlat`**: loads and stores, the signed and the unsigned ones, across the end and outside,
are those of `FlatMemory`. **`LoadedAsGiven`**: a simulator that starts has the whole image and
program in memory; the first word is left out, because the extra iteration of `prepareMemory` clears
it. **`DumpShowsRange`**: each byte of a dumped range appears under its own address.

**`BitsMoved`** states shifts, logic and sums bit by bit, and the sign extension of word results.
**`OrdersByBits`**: the code compares in three places, for `slt` and `sltu`, for `slti` and `sltiu`,
and for branches, each with casts of its own, and the model has each apart. The property knows no
casts: of two operands the one is less whose highest bit that differs is clear (set, if that is the
sign bit of signed ones), and the bits of an immediate above its twelve are its sign. A cast too many
or too few in any of the three places breaks it.

**`IllegalShown`**: an illegal word is always shown as illegal. **`ShowsWhatRuns`**: the text has the
name that `Utilities.h:28-43` gives to what is executed, with its registers and its immediate, except
for these words, where it is wrong and the execution right: `sltiu`, shown as `sltui` because the name
is joined of the stem `sltu` and the suffix `i` (`Utilities.cpp:189`),
`addiw` with an immediate that has bits in the place of `funct7` (shown as `ILLEGAL` or `subiw`,
`Utilities.cpp:75`), `slliw` by 32 and more (`237`), `jalr` with the function code of a shift (`235`),
`lui` and `auipc` whose bit 19 differs from the sign (`316`). The name `sltiu` is in a comment of the
repository (`Utilities.h:32`), so that one is a disagreement of the code with its text; of the other
four no text says how they are shown. As the property has to say exactly which words are misprinted,
all five are in it and none has a run of its own.

### Programs and bounds

- *Straight-line*: all 1000 sequences of three words from ten, then halt; so every pair and triple of
  producer and consumer kinds, double writes, x0 as destination, loads outside the memory and
  illegal words. 24 longer ones put the consumer three behind the producer, where it reads a register
  in the cycle that writes it. Three instructions in flight between ID and WB is all that forwarding
  can relate.
- *Branches*: two words before the branch, six branches, two words behind, with both outcomes, and
  handlers that halt or jump. Loops iterate twice with a word behind the branch that must not run.
- `MCPipeline` runs each program under the oracles of `MCOracles`: straight-line code and branches
  with settled operands may miss on any lookup of both caches; branches right behind their producers
  on any of one cache, for with both a data freeze undoes their interlock (`MCLoadBranch`).
- `MCDriver` runs three-word sequences of memory accesses, loops, settled branches, and programs with
  two words behind the halt. An instruction cache of two direct-mapped sets and a data cache of one
  two-way set evict in them. `MaxCycles` = 45 bounds the cycles of a behaviour; the longest takes 35,
  so no behaviour is cut, and `Finishes` would fail if one were.
- `WordMod` = 8, `NumRegs` = 3 (x0 and two more: with two writable registers every match and
  mismatch of register numbers occurs), `MemSize` = 4 with addresses up to 7, so half of the
  addresses do not exist.
- Latencies 2 and 3: the timer then has a first, a middle and a last cycle. The proofs cover the rest.
- `MaxAccesses` = 7 fills a set of three and evicts from it four times. It stops the cache, so
  deadlock is not checked in that run. The sizes 27, 3 and 3 are no powers of two: the logarithms
  leave two sets and two bytes per block.
- `MCMemory`: bytes of two bits, so that a doubleword is a number TLC can hold; nine bytes, one more
  than the widest access; addresses modulo 16, among them -1. Two calls (`MaxCalls`) relate every
  store to every load. Rows of two entries (`PerRow`) instead of five.
- `MCDatapath`: registers of 8 bits and words of 4 for 64 and 32; immediates and `funct7` keep the
  width they have in the encoding.

**Fairness.** `WF(Next)`: `runTillHalt` calls `runCycles(1)` in a loop, so a cycle always follows
while the status is not `HALT`; `WF(DriverNext)` for the same reason, since main is one sequential
program. Nothing more is assumed; in particular a cache may miss each time it is asked. `Halted` and
`Exited` stutter when the program has ended, so deadlock is checked.

### Where the code departs from its documents

Six runs check one statement of the repository each, on a one-program instance, and expect TLC to
refute it. All were seen in the program's own output too.

| Run | Statement | What the code does |
|---|---|---|
| `MCSkipOne` | `test/stall_tests.s:36` "squashed" | A taken branch over one word executes that word: the wrong-path test compares with `PC - 4`, which is the skipped word when the target is the one behind it (`cycle.cpp:460`). |
| `MCLateOperand` | `Utilities.h:67` "branch if not equal" | A branch two behind the ALU instruction that produces its operand is decided on the old value (`cycle.cpp:251`). |
| `MCLoadBranch` | `cycle.cpp:453` "re compute outcome" | A data miss of the load uses up the second stall cycle, and the outcome is not computed again (`cycle.cpp:184`). |
| `MCHandler` | `illegal_cycle_pipe_state.ref:16` | The handler's first word is fetched and executed twice (`cycle.cpp:497`). |
| `MCOutsideLoad` | `test/mem_exception_pipeline.s:16` | A load outside the memory never faults: `-EINVAL` is compared with `EINVAL` (`simulator.cpp:410`). |
| `MCLoadUse` | `cycle.cpp:16` "count of load-use stalls" | The hazard is counted again in each cycle that a data miss freezes (`cycle.cpp:243`). |

The programs of the passing runs leave these cases out, and say so in `MCPrograms`: a target two
words ahead, an operand produced two ahead of a branch that does not stall, a load right before a
branch when data misses occur, a handler that begins with an ordinary word. Everything else is in.

Two more things are allowed by the documents and may surprise: a data latency of 0 freezes the
pipeline at the first miss (`cycle.cpp:592`, proved), and sizes that are no powers of two are cut
down to some (`cache.cpp:36`). They are in the list of hazards.

## 4. What is proved

Run `tlapm M.tla`. All theorems hold for every value of the constants under the named assumptions of
the modules: sizes are natural numbers of the sensible range, programs consist of words, cache
outcomes are Booleans, a cache has at least one set, a configuration that parses is the constants'.
Three of them also state facts of arithmetic that hold of every such value but that no installed
prover knows: a logarithm rounded down gives a power not above its argument, and powers add
(`Cache.Geometry`); a power is its base times the power before it, and a byte takes an even number of
values (`MemoryAssumption`); a power of two is twice the one before it, and `^`, `|`, `&` of numbers
are the numbers with these bits (`DatapathAssumption`). `JoinedAssumption` says which strings
`getOpString` gets when it joins two: TLC joins them, the provers only compare. `DatapathAssumption` also has what the code
has: the word's width is a power of two, since a shift count is cut to its low bits. TLC evaluates the
assumptions in every run.

- **`SimulatorProofs`**: each stage function returns a well-typed instruction. Lemmas only.
- **`FunctProofs`**: `FunctTypeCorrect`, and `FunctImplementsMachine`: `Spec => ImplementsMachine`.
  The invariant `TypeOK` is strong enough; `ExecutedStep` sums up what one call does to a legal
  word, and the step theorem compares it with the machine's action, one case per class of word.
- **`CacheProofs`**: `CacheTypeCorrect`, `CacheRanksDistinct`, `CacheInvalidWaysUntouched`,
  `CacheNoDuplicateTags`, `CacheNewestSurvives`, for every geometry, powers of two or not.
  None of the invariants is inductive alone: a rank stays below the associativity only if the ranks
  are distinct and the empty ways rank above the used ones. `SetOK` puts them together for one set;
  `AccessKeepsSet` shows that an access to any tag keeps it, with one case for a hit, one for an
  empty way and one for an eviction.
  `CacheImplementsRecency` is the refinement of `RecencyCache`. The used ways of a set, in the order
  of their ranks, are its list; that such an order exists follows from a counting lemma (distinct
  ranks below n that number n are all of them). An access puts its block at the place the list gives
  it and moves the blocks in front of that place back by one, in each of the three cases.
- **`PipelineProofs`**: `PipelineTypeCorrect`, `PipelineZeroReadsZero`, `PipelineMemoryNeverFaults`,
  `PipelineZeroLatencyFreezes`, `PipelineStalledConsumerWaits`; `PipelineImplementsMachine`, and its
  consequences for classes of programs.
  The inductive invariant `IInv` says of each stage that its instruction is well typed and carries
  no exception, and from ID on that it reads x0 as zero. There is a lemma per stage function and one
  per forward; `CycleKeepsIInv` puts them together. The third theorem means that the code handling
  the memory exception (`cycle.cpp:344-348, 501-512`) is dead, for every program; the fourth follows
  from the step alone, as no timer expires when the latency is 0.
  A second part of the module is about order, for `DriverOneStoreEscapes`. `CodeInv`: a live
  instruction is the word of the program at its PC, and what is fetched behind a branch is marked as
  speculative. `HaltInv`: the stage behind a halt holds nothing, the word right behind the halt, or a
  halt again (the handler's first word comes twice). Neither is inductive without the other: that the
  word behind a halt is the next one needs that a wrong path is recognised before it leaves IF.
  A third part shows when the pipeline does what the machine does. `PipelineImplementsMachine`:
  `Spec /\ []NoDeparture => ImplementsMachine`. The code departs from the machine in four ways, and
  `NoDeparture` says that a run takes none: the handler's first word has its effect once (`HandlerOnce`:
  it ends the run, traps again, or begins with a branch elsewhere, whose second copy is squashed; else
  `MCHandler`), branches are decided in time (`BranchesResolved`; else `MCLateOperand`,
  `MCLoadBranch`), no branch skips one word (`NoWordSkipped`; else `MCSkipOne`), and no store is right
  behind the halt that retires (`NoStoreBehindHalt`; that store is the one of `OneStoreEscapes`). The
  theorem means that there is no fifth way. Its invariants: `OrderInv`, each stage holds the
  instruction that comes next after the one ahead of it; `ValuesEX`, in EX an instruction has the
  operands that the registers hold once MEM has written back; `ValuesID`, in ID it has them unless
  their producer is in flight. The last needs the order (which producer) and the order needs decided branches. `CycleIsStep` then
  compares a cycle with the machine: a cycle in which a live instruction leaves EX is the machine's
  step for its class of word (`EnteringMemIsStep`), and every other cycle, frozen, stalled, squashed
  or waiting for a fetch, leaves the mapped state alone.
  The fourth part puts conditions on a program's text in the place of `NoDeparture`. A program is
  `Settled` if it has no branch over one word, a handler that stops or begins with a jump elsewhere, and
  no branch or `jalr` that reads what one of the two words before it writes, on any path; behind a
  `jalr` any word may come. The text does not say where a `jalr` goes, so that the theorems have one
  hypothesis on the run, `[]RegisterJumpsFar`: a `jalr` goes over one word neither. The lemma
  `WithoutRegisterJumps` shows it of every program without one.
  `PipelineSettledBranches` and `PipelineRunsSettledPrograms` say that such programs keep
  `BranchesResolved` and `ImplementsMachine` whatever the caches do. The lemma is `NothingInFlight`: with
  the order of the program in the stages (`MemOrder`), what a branch in ID reads is written back.
  A program is `Timely` if its branches may besides read what the word right before them writes, a
  link excepted. These rely on the stalls, and the stalls on misses that do not meet there.
  `MissesApart` says that data accesses hit and a fetch does not miss for exactly one cycle, or that
  fetches hit and no branch is right behind its load, or (`AccessesApart`) that anything may miss, no
  fetch for exactly one cycle, but neither the producer of such a branch nor one of the two words
  before it is an access. `PipelineTimelyBranches` and `PipelineRunsTimelyPrograms` are the theorems.
  Their invariant (`TimelyInv`) is that a branch in ID that is not stalled has been decided on the
  operands it takes along (`LeavesDecided`), that the second stall cycle follows a first one that was
  not frozen (`SecondStall`), and that a producer in EX with an empty slot behind it has a fetch to
  wait for (`NoGap`): no access freezes it while that fetch comes (`PromptNotFrozen`). The conditions
  on the misses are needed. A data freeze spends the second stall cycle (`MCLoadBranch`). An
  instruction miss of one cycle separates the branch from its producer by one bubble, so that it is
  decided on the register file before the write (TLC shows it on the programs of `MCPipeline` with
  `IMissLatency` = 1); so does a longer one that all but ends during a freeze (with latencies 3 and 2:
  `lw`, `nop`, `addi 1, 0, 1`, `bne 1, 0, 3`, both the load and the branch missing). Of the 2314
  programs with oracles of `MCPipeline`, 2114 have no store behind a halt; the two theorems cover all
  but 70 of these.
  `PipelineNeverStuck` is what of `Halts` needs no fairness. `Wait` counts, from the state alone, the
  cycles that the pipeline may still take until it retires an instruction or traps: those left of a
  data miss, of a stall, of an instruction miss and of the one that a branch may make a fetch start
  again, and the stages that are empty. With positive latencies each cycle retires, traps or lowers
  it, and it is never above `MaxWait` = `DMissLatency` + 2 `IMissLatency` + 4, whatever the program and
  the caches do. The invariant is `WaitInv`: a running timer is short of its end and belongs to the
  instruction in its stage, and a second stall cycle has a branch to hold. With a latency of 0 the
  theorem is false (`PipelineZeroLatencyFreezes`). `PipelineKeepsPace` relates this bound to the machine,
  whose specification may stutter for ever: as long as nothing departs, each cycle before the halt
  takes a step of the machine, traps, or lowers `Lag`, the cycles until MEM takes what comes next. A
  data miss lowers its own part and freezes the other, but for a fetch that waits on
  (`FreezeKeepsEX`).
- **`CycleSimProofs`**: `SimImplementsPipeline` (the real caches are one of the oracles, so the
  invariants of `Pipeline` hold of the whole), `SimDataMissesPaid` and `SimInstMissesNotOvercharged`.
  The last two assume a positive latency, as they must. They strengthen the account by what holds of a
  running timer: it is short of its end, and there was a miss to start it.
  `SimSkippedLookupsHit` joins the property to the invariants of both caches (`CachesInv`), taken
  from `CacheProofs` by instantiating it twice: a lookup leaves its block in the cache, and nothing
  else looks the cache up before the next one. `SimTypeCorrect` follows.
  They are stated from `SimSafety`, the specification without its fairness.
- **`DriverProofs`**: `DriverCallsAreCycles` is the refinement of `CycleSim`. Its invariant
  `Saved` is that before each call the misses saved in the caches are those of the simulator;
  `DriverStep` shows that each action is a cycle or leaves the simulator alone. It
  carries the theorems of `CycleSim` over: `DriverDataMissesPaid`, `DriverInstMissesNotOvercharged`,
  `DriverSkippedLookupsHit`; `DriverTypeCorrect` adds the driver's own variables.
  `DriverCountedOnce` adds the account of retired instructions; `CommittedCounts` and `CycleCounts`
  relate what enters MEM in a cycle to what WB counts, with and without a freeze.
  `DriverOneStoreEscapes` rests on `HaltInv`: until the halt leaves MEM the memory is that of
  `memAtHalt` (`EscapeInv`), and in the cycle in which it does, only the word right behind it can
  enter MEM. `DriverOneRowPerCall` has an invariant (`RowsInv`) that divides the cycles made so far
  into full calls, one row each, and a rest; for calls without a limit there is no row before the end.
  `DriverRunsAsMachine` carries `CycleIsStep` over to a whole run, with the real caches and calls of
  every length; as the mapping looks at the memory of the halt (`EscapeInv`), the store behind it needs
  no hypothesis here. `DriverRunsSettledPrograms` puts `Settled` in the place of the other three, and
  `DriverRunsTimelyPrograms` `Timely` with `AccessesApart`: cold caches miss, so that of the conditions
  on misses only this one can hold of a whole run.
  `DriverNeverStuck` carries the bound on waits over: the end of a call undoes no progress.
- **`MemoryProofs`**: `MemoryLoadedAsGiven`, for a memory that starts at address 0, as both drivers
  have it. `LoadInv` follows the two loops: while the image is read, each cell holds what the last
  entry so far that covers it says; while the program is loaded, its bytes come over that from the
  left. The first word is in neither clause. `MemoryDumpShowsRange` is about one step: `RangePrinted`
  finds the entry and the column in which a byte of the range appears.
  `MemoryImplementsFlat` and `MemoryTypeCorrect` are about the number that bytes make (`Number`, a
  recursive function). The library's induction has an operator as parameter; `Induction` has a set in
  its place (the least number that is not in it) and is proved from the order of the numbers. With it
  follow that the recursive function exists (`NumberSteps`), that the number of n bytes is below
  `Base ^ n` (`NumberRange`), that it splits at any byte (`NumberSplit`), and that a number moved byte
  by byte is read back (`NumberOfValue`). A load is then the digits of the whole memory's number from
  its address on (`FieldIsRead`), and a store replaces them and no others (`FieldIsWritten`), also
  where the memory ends within the access. `MemoryTypeCorrect` adds that a loaded value, extended by
  its sign or not, fits its register.
- **`DatapathProofs`**: `DatapathTypeCorrect`, `DatapathDecodesByClass`, `DatapathIllegalShown`,
  `DatapathOrdersByBits`, `DatapathShowsWhatRuns`: for every word there is, every width of the
  registers and all operands, where the run has boundary values. `DInv` says that decoded flags,
  outcome and text are functions of the word and the operands; then each theorem is one about
  constant operators: `ResultRange` (no cast lets a result grow wider than a register), `ClassTold`,
  `IllegalPrinted`, `MnemonicRuns` and `NamedInt` (the name joined of stem and suffix is the one of
  `Utilities.h`, but for `sltiu`) with `Extended12` and `UpperSigns` (two files that cut and extend one
  immediate in two ways get one number).
  `DatapathBitsMoved` is about each bit of a result. Its lemmas say how the casts of the ALU, which are
  quotients and remainders of powers of two, act on single bits: `LowBits`, `ShiftedDown`, `ShiftedUp`,
  `SignBits`. `ComputedBits` and `ComputedSums` put them together per operation, `CountKept` shows that
  the cut shift count is the one of the instruction set, and `WideResult` and `NarrowResult` finish a
  result of register width and one of a word that is extended by its sign. The invariant (`AInv`) is
  that behind EX the result is the one computed from the operands.
  `DatapathOrdersByBits` goes from numbers to bits: `BitsOrder` descends from the top bit, where nothing
  is left of either number, and each bit doubles what is left and adds itself (`Halved`). `SignedOrder`
  adds what the sign bit turns round, and `ImmediateBits` what a sign does to twelve bits in a register
  of any width, one of fewer than twelve too.

**Model-checked only.** `Halts` and `Finishes` are liveness, and `ENABLED` and fairness are beyond
this prover; proved is that nothing waits longer than a bound (`PipelineNeverStuck`), nor the machine
for its next step (`PipelineKeepsPace`). What remains is that a cycle always follows, and that a program
which the machine ends is ended. `ImplementsMachine`, `BranchesResolved` and `RunsAsMachine` do not
hold of all programs (section 3), so that the theorems have hypotheses. Programs of the runs that do
not meet them are only checked: a branch over one word that is not taken, a `jalr` right behind the
load of its target (the text lets anything follow a `jalr`, itself too), and for `RunsAsMachine` loops
with an access right before the decrement that their branch reads. Every other property of a passing
run is a theorem.

## 5. Not modelled

Programs that modify themselves; the text's columns, register names and padding; the log on the
standard output; argument counts and messages of the drivers; the register dump (`RegisterInfo.h`),
which only prints. PCs count instructions, so that the `& ~1ULL` of `jalr` (`simulator.cpp:195`) has
nothing to clear; `Datapath` has no links and no upper immediates (369-380), which are not made from
operands. `incrementHits`, `incrementMisses`, `printMemory` and the constructor without a
file have no caller. A cache with no set at all has undefined behaviour and is excluded by
`CacheAssumption`. `cycle.cpp.backup` is not built.

## 6. Plan

The core came first: stage functions, abstract machine, pipeline, caches, their composition, and the
proofs of their invariants; then the bytes of the memory, the encodings with the disassembler, and
the driver with its calls; then the proofs of the recency list, of skipped lookups, of rows and
stores behind a halt, of the loaded and dumped memory and of the encodings; then those of the
refinement of the machine by the pipeline and by a run of the driver; at last the arithmetic (bytes
of accesses, bits of results), the bounds on waits, and the widest classes of programs for which the
refinement holds: handlers that jump, `jalr`, and branches that rely on stalls under real caches.
Nothing of the plan is left but what section 4 says is out of the prover's reach.
