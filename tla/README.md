# A TLA+ verification project for llvmta

llvmta computes bounds on the worst-case execution time of programs that run on
single- and multi-core processors. It is a static analyser, built as a set of
LLVM machine passes: single-threaded, without files that survive a run, and
without messages. What makes it hard to get right is not its own concurrency but
that of the hardware it simulates. One analysis state stands for a set of real
executions; states are split where the hardware's behaviour is not known, are
joined where paths meet, and skip cycles in which "nothing but the memory can
happen". A bound is right only if, after every such sequence of steps, each real
execution is still covered by one of the states. A test compares one number for
one program; a wrong comparison in a join changes that number rarely.

So most modules here put the analyser's state next to the real hardware's state
(a history variable that no analysis reads) and state that the first covers the
second.

## 1. The system

### Components, their state and operations

| Component | State | Operations | Correct if |
|---|---|---|---|
| Must/may LRU analysis of a set (`LruMaxAgeAbstractCache`, `LruMinAgeAbstractCache`, combined by `CompositionalAbstractCache`) | sorted vectors of (tag, age) and one age for all other tags | `classify`, `update` (with an assumption), `potentialUpdate`, `join`, `lessequal` | a claimed hit hits, a claimed miss misses; vectors are canonical; the order is the precision order and transfers are monotone, so the fixpoint iteration ends |
| Whole cache (`AbstractCacheImpl`) | one analysis per set, shared between states | `classify`, `update` for an address or an interval | an access whose address is an interval ages every set it can touch |
| Shared second-level cache (`LiangY` mode) | the same, plus the lines of every function of every core | `classify` corrected by the number of conflicting lines | hits survive every interleaving of the other cores |
| Cycling memories (`FixedLatency…`, `SimpleSDRAM…`) | phase, cycles left, metrics | `announceAccess`, `cycle`, `fastForward`, `join`, `resetLocalMetrics` | skipped cycles are within the metrics; a split loses no execution |
| Shared bus (`BlockingCyclingMemory`) | the delayed access, cycles blocked so far, metrics | the same, `performSplit` | the blocking ends at its limit and is counted |
| Memory topologies (`SingleMemoryTopology`, `JJYSeparateCachesMemoryTopology`, `SeparateMemoriesTopology`) | queues, identifiers, ongoing accesses of the fetch and of the data side | `accessInstr`, `accessData`, `finishedInstrAccess`, `finishedDataAccess`, `cycle`, `fastForward`, `join` | every access is tracked, ends and is reported once; skipped cycles are the memory's |
| Pipelines (in-order, PRET, out-of-order, fixed latency) | instructions in the stages, program counter, outstanding accesses, assumptions about branches and returns | `cycle`, `isFinal`, `join`, `fastForwardAndInsert` | instructions leave in program order and with the contexts the driver asks for; a state never waits for ever; a skipped cycle is one in which only the memory works |
| State exploration (`StateExplorationDomain`) | sets of states per program point and context | `transfer`, `guard`, `transferCall`, `join`, `enterBasicBlock` | the set covers every reachable hardware state and its time; it holds no two states that could be joined |
| Analysis framework (`AnalysisDriver`, `PartitioningDomain`, `CallGraph`) | analysis information per block and context, worklist | worklist iteration, calls and returns | ends in a fixpoint that covers every path |
| Partitioning (`PartitionToken`, `Context`, `DirectiveHeuristics`; module `PartitionUtil`) | tokens per context | context transitions | the number of contexts is bounded |
| Path analysis (`StateSensitiveGraph`, weight providers, `FlowConstraintProvider`, solvers) | the state graph, its integer program | construction, constraints, solve | the constraints admit every execution |
| Loop bounds, value and address analysis | bounds per loop, register values | transfer, lookups | the bound or interval covers the real value |
| Persistence analyses (set-wise, element-wise, conditional must; `MultiScopePersistence` over loops) | conflict sets per open scope | the set-analysis interface, `enterScope`, `leaveScope` | a persistent line is not evicted between two accesses in its scope; scopes are left as often as entered |
| Dirtiness, array-aware and CRPD analyses | dirty lines, conflicts with arrays, useful and evicting lines | the set-analysis interface | - |
| Driver (`TimingAnalysisMain`, dispatchers, options) | configuration | picks the template instances | - |

### How they interact

The default run is `StateExplorationWithJoinDomain<InOrderPipelineState<JJY…<icache,
dcache, L2, SingleMemoryTopology<BackgroundMem>>>>`. The driver asks the domain to
transfer an instruction; the domain cycles each pipeline state until the
instruction has left the pipeline. In each cycle the pipeline first cycles the
topology, which first cycles the memory topology behind it and that the memory;
every level may return several successors. Then the stages ask the topology
whether their accesses have finished and start new ones. At the end of a cycle
in which the pipeline has not changed, the topology may be fast-forwarded. At
control-flow merges, equal or joinable states are joined, level by level. The
metrics of an edge of the state graph (cycles, skipped cycles, misses, blocking)
become weights of the integer program.

### What is hard

* ordering: announce, cycle, fast-forward, join and reset in any order and at
  any phase of an access; a stall of one level hides a cycle from another;
* lost answers: the identifier of a finished access is kept for one cycle;
* interleavings: other cores touch the shared cache and the bus at any moment;
* boundaries: intervals that wrap around the last set, identifiers that wrap,
  one-place queues, blocking that reaches its limit;
* progress: an access that is rejected, stalled or has lower priority must end;
* speculation: the pipeline fetches past branches, and computes contexts and enters
  persistence scopes there, before the analysis knows where the branch goes.

`PROJECT.json` lists each at its line, with the properties that would catch it
and, where no property does, why.

## 2. The modules

### Caches

* `CacheTraits`: associativity, tags, classifications (`CacheTraits.h`,
  `Classification.h`).
* `LruAges`: the abstract specification. For each path, the real LRU age of every
  line and the bounds of the two analyses; `Update`, `PotentialUpdate`, `Join`.
* `LruMaxAgeAbstractCache`, `LruMinAgeAbstractCache`, `CompositionalAbstractCache`:
  the vectors of the code, as pure operators with the code's names.
* `CacheSet`: those operators along paths. Under the mapping that reads a tag's age
  from the vectors every operation is the one of `LruAges` (`ImplementsBounds`).
* `AbstractCache`: several sets, precise and interval addresses. `aborted` is set
  where an assertion of the code fails.
* `SharedCacheSet`: one set of a second-level cache that other cores use as well;
  `addrlists` are the lines their functions may load.

### Persistence

* `SetWiseCountingPersistence`, `ElementWiseCountingPersistence`,
  `ConditionalMustPersistence`: the conflicts that one scope has seen in one set, as
  pure operators. A state is a record of the counted lines and arrays, a function
  from lines to such records, or a function from lines to ages.
* `MultiScopePersistence`: any of them for every scope that is open; its parameters
  are the operators of the class it is instantiated with.
* `PersistenceSet`: the analyses next to the real set. One path is taken by a real
  execution (`age`, and `accessed`: what it accessed since a scope is open), others
  meet it at joins; in a shared set other cores access their lines at any moment.
  A scope may be entered again before it is left, since the pipeline enters on fetch
  and leaves on write-back.

### Memory timing

* `IntervalCounter`, `FixedLatencyCyclingMemory`, `SimpleSDRAMCyclingMemory`: the
  classes of these names; `cycle` and `fastForward` return sets of successors
  where the code returns lists. `BackgroundMemory` chooses between the two, as the
  dispatcher does.
* `BlockingCyclingMemory`: the bus in front of a memory.
* `MemoryTiming`: two paths, each with the analyser's memory (`bus`) and the real
  access (`real`: cycles of access, refresh and blocking left), the real cycles
  skipped by fast-forwards and the real cycles blocked.
  Left out: `CompAnaType` is off for all components, the address of a delayed
  access (nothing depends on it), the wrap of the 32-bit metrics, and the
  wrappers that only add counters.

### Topology and pipeline

* `CyclingMemory`: what the topology needs of a memory, an abstraction of the
  modules above: after `announceAccess` it is busy for 1 to `MaxLatency` cycles and
  may ask for stalls.
* `SingleMemoryTopology`: the queues of one place, data before instructions (or, in
  strict mode, no instruction while an older data access may still come), the
  identifiers modulo `IdModulus` (2^32 in the code), which states are joinable, and
  their join. The memory is a parameter: `CyclingMemory` or the bus.
* `JJYSeparateCachesMemoryTopology`: the two components with their waiting and
  ongoing accesses, the phases of an access, the second level, stalls and
  fast-forwarding. The cache contents are abstracted to a free choice of the
  classification, so the module covers whatever the cache analyses answer.
  The events of a cycle are reduced to `justMissed`. The second-level cache is never
  write-back, as in the driver, so a write-back from it does not occur.
* `PipelineMemory`: the in-order pipeline as the topology sees it, in one of several
  configurations (`config` never changes): `Stall`, `Flush`,
  `Wait`, `Refetch`, `Fetch` are the ways a cycle of the pipeline can go. The stages
  themselves are abstracted; two facts about them are kept: no second branch is
  taken before the instruction after the first has arrived (`flushed`), and between
  two fetched instructions there are at most `MaxDataAccesses` data accesses.

### Exploration of pipeline states

* `MicroArchitecturalState`: program counter, contexts of fetched instructions,
  branches, calls and returns with the assumptions a state makes about them.
* `InOrderPipelineState`: the five stages, interlocks, instructions with several
  accesses or execution times, flushes, persistence scopes (entered on fetch, left
  on write-back or on a flush), normal and strict mode, joins and fast-forwarding,
  on a `SingleMemoryTopology` with the bus and the dynamic RAM behind it. Failed
  assertions clear the field `asserts` of a state. States that differ only in
  absolute identifiers are equal in the code; here they are renumbered
  (`renumber`). The persistence analyses are reduced to how often each scope is
  open, which is all that their assertions read.
* `StateExplorationDomain`: `transferInstr` cycles every state until an instruction
  has left the pipeline; states that finished a memory access wait for each other
  and are joined. All states of the working set make a cycle at once, where the code
  takes them one by one; the waiting and final ones are the same.
* `PipelineExploration`: the whole analysis of a program. `Analyse` is one turn of the
  driver's loop. When the worklist is empty, a real execution begins: the same
  pipeline, without fast-forwarding and joins, in every way its memory, its
  execution times and its branches can go (`Cycle`), whose instructions leave the
  pipeline one by one (`Retire`). `expected` is the program order with the driver's
  contexts.

The pipeline is compared with itself: that hardware behaves like
`InOrderPipelineState` is assumed by the analyser; what is shown is that nothing is
lost between the single cycles of one state and the result of the analysis.
Left out: caches (they are in `PipelineMemory` and in the cache modules), transient
instructions, the edges recorded for the state graph, and the states behind an
external call when the option `RestartAfterExternal` is off (they are top then;
the model assumes that it is on), and the debug assertions that the successors of a
state do not wait for different memories (`InOrderPipelineState.h:471-479`). Entry
blocks have an instruction (`ProgramAssumption`).

### Analysis framework

* `MachineCode`: the program under analysis as LLVM presents it (blocks, loops,
  instructions that map values to values), a constant; the edges of loops are
  translated from `Util.cpp`.
* `PartitionUtil`: contexts are sequences of tokens, with `update`, `transfer` and
  `reduceOnCall` (class `Context`); the directives on calls, instructions and edges
  (`DirectiveHeuristics`).
* `PartitioningDomain`: the labelled tree is the function from contexts to
  information that it stands for; `changes` is what `addContext` returns. The
  analysis domain is a set of values (bottom is the empty set, join is union); any
  finite domain of properties embeds into one.
* `AnalysisDriver`: `Analyse` is one turn of the loop of `runAnalysis` for any item of
  the worklist, with the whole block it analyses; `getAnalysisResults` is the second
  pass; a failed assertion ends in `phase = "aborted"`. One of them is in the lookup of
  what a callee returns (`findEarlyAssertion`), in the middle of a block or of the second
  pass: the context may be unknown, but no known one may go on where it ends. Then a real execution `exec`
  runs the program and its context is moved along by the same directives.
* `WorklistIteration`: the abstract specification, a worklist iteration over facts.
  `AnalysisDriver` implements it (`IteratesToSolution`) under the mapping in which
  facts are "this context is known here" and "this value is possible in it".

Left out: the recheck `CheckFixPoint` (off by default), transient instructions,
storage policies. A call has one callee, since the call graph enters one per call.

## 3. The runs

| Run | Shows |
|---|---|
| `lru_ages` | the invariant used in the proofs is inductive on an instance; bounds and classification are sound |
| `cache_set_two_paths` | the vectors stay canonical and sound through joins, `lessequal` is the precision order, the transfers are monotone, and each operation on the vectors is the operation of `LruAges` on the bounds |
| `abstract_cache` | interval accesses, also wrapping ones, never leave an unsound hit or miss |
| `shared_cache_set` | second-level hits survive the other cores |
| `memory_timing` | dynamic RAM behind the bus: metrics cover the skipped cycles, no execution is lost, blocking is counted, assertions hold |
| `pipeline_memory` | the default configuration, and write-back with stores that do not wait, where accesses are rejected and retried: accesses are tracked and end, identifiers are determined, only memory cycles are skipped |
| `persistence` | lines that the set-wise or the element-wise analysis calls persistent stay cached, also in a shared set; the element-wise analysis is at least as precise; scopes are balanced |
| `persistence_conditional_must` (violation) | the conditional must analysis calls an evicted line persistent |
| `pipeline_exploration` | whole programs, normal and strict mode: every execution and its time is covered by a state of the analysis, instructions leave in order with the right contexts, no assertion fails, sets stay minimal, speculative scopes are undone, the pipeline never hangs |
| `pipeline_exploration_strict_scopes` (violation) | strict mode with persistence: a scope that was entered past a branch is not left again |
| `analysis_driver` | the driver ends, no assertion fails, contexts match the loops, the result covers every execution, and each turn is a step of the abstract iteration |
| `worklist_iteration` | the abstract iteration ends in the least solution for any order |

**Bounds.** Two paths suffice for a join; with symmetry a third adds nothing that
a sequence of joins of two does not. Associativity 2 with 3 tags evicts a line and
tells "younger" from "older". Four
sets of one way and arrays longer than a way make intervals wrap. In the memory
runs an access lasts at least two cycles, so that a fast-forward skips some, and
`MaxForwarded` and `MaxBlocked` (used in a state constraint) bound the accumulated
metrics to more than one access. `memory_timing` has dynamic RAM, whose refresh adds
to what static RAM does; the theorems cover both. In the pipeline runs `MaxLatency` is 3, the least
for which a fast-forward changes something in the middle of an access, and
`IdModulus` lets identifiers wrap but is larger than the number of accesses that
can be under way (an assumption of the module; the code's modulus is 2^32).
The analysed programs have the shapes that are hard for the driver: an edge that
leaves two loops, one that leaves a loop and repeats the outer one, a loop of one
block, two calls in a block, a call in a loop, a predicated return with code behind
it, a jump table, an external call, and mutual recursion; three values let
information grow in several rounds. Contexts keep no loop token and one callee and
one call-site token on a call, so that different contexts of a caller share those of a
callee and recursion is finite; two iterations are peeled. `MaxDepth` lets the real
execution call deeper than the contexts tell apart.

In `persistence` two ways and three lines are enough for a line to be evicted by
lines of its own scope or of another core; the configurations are two paths in one
loop, nested loops on one path (a scope entered twice), and a shared set with index
0 and with another one. In `pipeline_exploration` the programs are a branch over a
loop that is entered by falling through, calls outside and inside of a loop with a
predicated return, an empty block, a return that loads its target, a jump table and
an external call; loads, stores of two accesses and multiplications of one or three cycles keep
several stages busy at once. Accesses take two cycles, may be blocked for one and may
start a refresh of one. `MaxCycles` is twice the time of the longest block;
an instruction that needed more would violate `NeverAborted`.

**Fairness.** `AnalysisDriver` assumes weak fairness of the loop of `runAnalysis`
(some item of the worklist is taken) and of `getAnalysisResults`, which follows it:
the driver is sequential code and goes on while there is work. The specification of
`PipelineMemory` assumes `WF_oddCycle(Tick)`: the analysis goes on cycling. The code justifies it, since a
state is cycled until it is final. Idle cycles count as cycles
(`oddCycle` changes), so an access that is stuck violates the property instead of
stopping the clock. The properties are only about accesses that were started, and
need no fairness of the program. `PipelineExploration` assumes that steps are taken as
long as the program has not ended: the analysis goes on while there is work, and the
hardware has a clock. The clock of a stuck pipeline ticks on, so that `KeepsRetiring`
would be violated. The formula is weak fairness of `Next` with `~ended` in place of
`ENABLED Next`; that these agree is the deadlock check.

**Deadlock** is checked in every run but `abstract_cache`, where the analysis stops
after a failed assertion, and those of the framework, where the iteration and the
program end.

## 4. The proofs

A theorem named here holds for every value of the constants that satisfies the
assumptions of the modules; the runs check the same formula on an instance. Every
module with proofs first states what the operators do, then what each action does to
the parts of the inductive invariant, and ends with the theorems.

### The cache analyses

`LruAges` ends with its own proofs: `TypeCorrect`, `InvariantHolds`, `BoundsSound` and
`ClassificationIsSound`, for every associativity, set of integer tags and set of
paths. The inductive invariant `IInv` adds to `Sound` that no two lines of a real set
have the same age below the associativity. It is needed twice: an access ages exactly
the younger lines, and the must analysis may conclude a miss from a set full of other
lines, for which a counting argument (`FullSetMisses`) shows that `Assoc` distinct
lines of distinct ages below `Assoc` leave no room. `Within(c, b, l)` is the invariant
of one path as a predicate on real ages and bounds, and `UpdateWithin`,
`PotentialUpdateWithin`, `JoinWithin` and `ClassifyWithin` say what one operation does
to it; `CacheHierarchyProofs` applies the same lemmas to every set of a cache.

`CacheLemmas` has what the proofs of the cache modules share. Its first section is
induction and recursion over the naturals and over finite sets, with
sets in place of the predicates that the library's theorems take, and from them what
the folds of the community modules compute (`SumUnfold`, `SumZero`, `UnionBound`: a
union is at most as large as the sum of its parts). The others say what the operations of
the sorted vectors do to the age bounds that the vectors stand for. `MustRep(v, b)` and `MayRep(v, l)` say that a vector is sorted,
holds a line once, has no redundant entry and stands for the bounds; each of `update`,
`potentialUpdate` and `join` takes a represented bound to a represented bound, the one
`LruAges` computes. The loops of the code that walk a vector, or two vectors at the
same time, are recursive functions or folds; the lemmas about them are inductions over
the position. The last section is about the product of the two analyses
(`Represents`, `VectorUpdate`, `VectorPotentialUpdate`, `VectorJoin`, `VectorClassify`).

`CacheSetProofs`: `VectorsRefineBounds` (`Spec => Bounds!Spec`: `CacheSet` implements
`LruAges`), `TypeCorrect`, `VectorsStayCanonical`, `ClassificationIsSound`,
`BoundsAreImplemented`, `LessequalIsCoverage` and `TransfersAreMonotone`. The inductive
invariant is that the vectors of every path represent bounds for which the invariant of
`LruAges` holds, and that the lines of the must vector fit into the set. Soundness of the
vectors is then a corollary of the refinement. `LessequalIsCoverage` rests on the fact
that bounds have one representation only (`OneMustVector`, `OneMayVector`): comparing the
join with its operand as vectors decides the order of the bounds. The tags are
assumed to be naturals without gaps (`TagRange`), since `potentialUpdate` of the may
analysis lists every tag between two given ones; they are bits of an address.

`CacheHierarchyProofs` has two parts, one for a whole cache and one for a shared set.

`IntervalsAreCovered`: for every associativity, number of sets, line
size and address space, accesses to intervals age every set they can touch. The inductive invariant `IInv` is that in every set the vectors
represent bounds for the real set (`Within`). For
an access to a known line that is one set's `UpdateSound`; for an interval it is
`PotentialUpdateSound` in every set that `getCacheSetInterval` names, and in one of them
the real access is among the potential ones. That the set of every address of the interval
is named (`SetsCover`) is the arithmetic of the module: the lines between the two ends are
fewer than the sets, so their numbers modulo `N_SETS` are an interval of sets or the
two ends of one (`Around`), and larger intervals go to all sets: the size test says
so or, where its unsigned sum wraps, the interval has the first and the last line of the
address space, whose sets are the first and the last one. Assumptions: the tags have no gaps (`TagRange`), and (`GeometryAssumption`) every address has a tag, and a line
has at least the four bytes of a word. The last one is needed because the test adds four
to the distance of the ends: with shorter lines the sum can wrap to zero for an interval
that is almost the whole address space, and sets would be skipped. The code does not
check it (the assertions in `CacheTraits.h:59` are commented out), but a line shorter than
a word would break every access of four bytes.

`SharedHitsHit`: the must bound of the own core says nothing about
the real age of a line, which the other cores change at any time, so the invariant is
about history: there are bounds `b` that the vector represents and a function `O` such
that `O[t]` are the lines the own core has accessed since it last accessed `t`. A bound
`b[t]` counts the lines of `O[t]`; a line is missing from the real set only if the
lines of `O[t]` and of the other cores together are `Assoc` or more; and a line not
accessed since `t` is behind all that were. Assuming a hit that was in fact owed to
another core removes a line from the front of the must vector's knowledge without an
access by the own core; `OldestAt` keeps what is then still known of the last line.
That the correction `CNN` is large enough although lines that two functions share are
counted twice follows from `UnionBound`. Assumption: the functions of the other cores and their
lines are finitely many (`AddrlistsAssumption`).

### Persistence

`PersistenceSetProofs`: `PersistentLinesStay`, `ElementWiseIsFiner` and `BalancedScopes`, for
every associativity, set of tags, number of paths and scopes, nesting of entries and
lines of the other cores. The inductive invariant relates three things for each open
scope: the counted lines cover what a real execution accessed since the scope was
entered (`Covers`); in front of a line that is still cached no way is empty (`Dense`),
so that a line is evicted only after as many others as there are ways; and the
element-wise states are at least as precise as the set-wise ones (`FinerThan`).
Assumption: the lines of the cache, the scopes and the lines of the other cores are
finite sets (`PersistenceAssumption`).

### Memory timing

`MemoryTimingProofs`: `TimingTypeCorrect`, `InvHolds`, `TimeIsCovered`, `BlockingIsCounted`,
`NoExecutionIsLost`, `AssertionsNeverFail`, for every latency, access size, blocking
limit and set of paths, and for both kinds of memory. `IInv` adds `Link`: the phase
of the memory is that of the real access with the same number of cycles left where
the analyser knows it; blocking so far plus blocking to come stays within the limit;
and an access that was fast-forwarded has one cycle left. The metrics alone are not
inductive: that a fast-forward adds enough follows from `Link`. The lemmas go bottom
up: the memories, the bus in front of them, one step of one path, the join of two.
Assumptions: latencies and limits are naturals and `DRAMRefreshLatency` is positive;
with a latency of 0 a refresh never ends in the code.

### The topology and the accesses of the pipeline

`PipelineMemoryProofs`: `Invariant`, `TypeCorrect`, `BackgroundIdsAreDetermined`,
`ClientAccessesAreTracked`, `AssertionsAreKept` and `FastForwardSound`, for every latency, every set of
configurations, and any number of data accesses between
two fetches. The inductive invariant `IInv` has four parts:

* `InFlight` is about the memory: what the instruction component waits for is either queued
  or being worked on; a data access that the data component waits for, likewise; the
  two sides never hold the same identifier. Identifiers are told apart although they
  wrap because the invariant counts: `Dist(id, cur)` is how many identifiers ago `id` was
  given, and each identifier in the memory has a bound on it. While a fetch is in the memory,
  each of at most `MaxDataAccesses` data accesses may go to the memory twice, for a load and for
  a write-back; `slack` is how many of these are still to come. With the identifiers that are
  under way already this is why `IdModulus > 2 * MaxDataAccesses + 3` suffices. With the
  2^32 of the code the assumption is no restriction.
* `DataOK` is about the phases of a data access: in which of them it waits for the memory,
  when it may be stalled by a full queue, and when that queue is known to be free.
* `InstrTracked` and `DataTracked` tie the pipeline's access to the one the component
  is working on, has waiting, or has finished in this cycle; after a flush the
  fetch may still be under way without anyone waiting for it.
* `RetriedOK` says that an access that the memory rejected is retried as soon as the queue
  is free, if the memory never stalls the pipeline.

The lemmas go bottom up: distances of identifiers, the memory, one component, the cycle of
the topology, and then each way a cycle of the pipeline can go. Two of the theorems have
a hypothesis on the configuration, and both are needed: `AssertionsAreKept` excludes
stores that do not wait with a cache that does not allocate on a store, and
`FastForwardSound` excludes stores that do not wait with a memory that may stall the
pipeline. TLC finds a violation in each of the excluded configurations (section 5).

### The analysis framework

`AnalysisFrameworkProofs` holds the proofs about the abstract iteration and about the driver.

The iteration: `AlwaysUpToDate`, `EndsInLeastSolution` and
`WorklistTypeCorrect`, for every set of facts and every analysis. Assumptions: the items
and what is derived are monotone in the facts, and the analysis of an item depends only
on what it reads; TLC evaluates them on the instance of `worklist_iteration`. The
inductive invariant is that the initial facts are kept, that items outside the worklist
would derive nothing new (`UpToDate`), and that nothing is derived that some solution
does without (`NothingSpurious`). The step for `UpToDate` uses that an item may be left
out only if its reads have not changed, which is what the driver has to get right for
calls and returns.

The driver: `ContextsFollowLoops` for every program, `ExecutionIsCovered` for every
program that returns outside of its loops, and `DriverNeverAborts` if, besides, the
contexts keep calls apart (`CallContextsApart`). One turn
of the driver analyses a whole block by folds over instructions, contexts and
successors. A fold that keeps a property at each of its steps keeps it to the end; this is
proved once, by induction on a set of steps, and applied to each fold. The inductive
invariant `AInv` has three parts besides types and the start:

* `Placed`: in a call with context `p`, which ends in the token of the called function,
  the contexts of a block are `p` followed by one token for each loop around the block,
  outermost first (`InCall`). That an edge keeps this (`EdgeContext`) takes the most
  lemmas: the directives of an edge pop the tokens of the loops it leaves, innermost
  first, `transfer` replaces the token of the loop it repeats, and the loops it enters
  push theirs. What is known before a call of a function is either known at its entry,
  or the entry is in the worklist (`Entered`). What is known behind a function is known
  for contexts of calls of it (`Called`).
* `Consistent`: a block is in the worklist in some context, or it is `Stable` there: there is
  information at each of its instructions that follows from what the
  previous one, the callees' exits and the block's entry say, and
  the successors and callees know it (`Flow`, `Pushed`). The step: whatever grows in a turn
  puts its readers into the worklist.
* `Dumped`: in the results, what is stored for an instruction agrees with that flow in every
  context. This is the second pass, which walks the tree of all contexts at once
  (`treeInstruction`) where the first one takes one context at a time; the proof shows
  that they compute the same.

`EInv` adds the execution (`OnPath`): its value is in the information of the place
where it is (`Known`), and each frame of its stack waits at a call that reads the
exit of the function above it in the right context (`Waiting`). `ReturnsOutsideLoops`, the hypothesis
of `ExecutionIsCovered`, is needed because a return merges the token of the function,
and `Context::update` only looks at the topmost token; section 5 has the program for
which the theorem fails without it. The
hypothesis holds for every program without predicated returns in loops (a block that ends in any
other return is on no cycle), and for every program if loop peeling is off.

That the early lookup of a call passes its assertion (`LookupEnds`) is the part of
`DriverNeverAborts` that needs hypotheses. The context that is looked up ends with the
token of the call site, below which are the call sites that led to the caller
(`CallContextCalled`). If it went on in a known context of the callee, that context
would have a call of the same function below its top. There is no such
context if only one call-site token is kept, which is then on top, or if no function is
called while it runs, since call sites further down then call functions further up
(`CallOrder`). `CallContextsApart` is this: one call-site token, or any
number of them but zero, and no recursion (`NoRecursion`). The default keeps all of them.
Without `ReturnsOutsideLoops` the contexts behind a function may
end in tokens that are not a call site's. Section 5 has a program for each hypothesis that
shows that it cannot be dropped.

Assumptions on the program, evaluated by TLC for those of `analysis_driver`: branches stay inside a
function, whose entry block has no predecessors and no loop around it (`CodeAssumption`;
the driver asserts the former); loops form a forest and are entered at their header
only (`LoopAssumption`; LLVM's loops are natural loops); instructions have one of the
kinds that the driver tells apart (`InstructionAssumption`). The depth of the execution's
stack is any natural number.

### Only model-checked

* `Terminates` of `AnalysisDriver`, which is liveness, and `IteratesToSolution`, that it
  implements `WorklistIteration`: `Consistent` says that the driver knows at least what an
  iteration would; the refinement also says that it derives exactly the facts
  of one item per turn, which compares two computations of a block fold by fold. Not
  attempted.
* `PipelineExploration`: all properties. Its states are computed by recursive operators
  (`MicroArchitecturalState`, `StateExplorationDomain`), which the prover does not read;
  `NeverAborted` and the minimality of sets also depend on the bound `MaxCycles`.
* `DataAccessFinishes` and `InstrAccessFinishes` of `PipelineMemory`, which are liveness.
* Liveness under fairness and `ENABLED` are out of the prover's reach. So are the
  library's induction theorems, which take an operator for a parameter; `CacheLemmas`
  and `AnalysisFrameworkProofs` prove the set-based forms that the proofs above need.

## 5. What disagrees

Two findings have a run of their own:

* `persistence_conditional_must`: `ConditionalMustPersistence::update` returns early for
  a line it has not seen, without ageing the others
  (`include/Memory/ConditionalMustPersistence.h:134`). Three first accesses to a
  two-way set evict a line that still counts as persistent, so its misses are
  under-estimated. The analysis is not the default one.
* `pipeline_exploration_strict_scopes`: in strict mode the scope of a loop that is
  entered when fetch runs past a branch is not left when the branch is taken
  (`include/MicroarchitecturalAnalysis/InOrderPipelineState.h:835` looks for a fetch
  under way, and behind a branch there is none). The states of the two ways to the
  next block then have different scopes, and `MultiScopePersistence::join` aborts. In
  normal mode fetch stops behind calls, returns and jump tables, so the same
  happens if a loop header follows a jump table or a predicated return.

Others were met with the same models; each can be seen by checking the named
definition as an invariant:

* `ImpreciseUpdateSpansSets` (`AbstractCache`): an array of 56 bytes that starts at the
  end of a line begins and ends in the same set, which
  `include/Memory/AbstractCache.h:351` asserts away ("Could have performed precise
  update"); the analysis aborts.
* `SharedMissSound` (`SharedCacheSet`): the correction for other cores answers CL_MISS
  for a line that may be cached (`include/Memory/LruMaxAgeAbstractCache.h:152`), where
  the contract in `AbstractCache.h:246` says that there is no such line. This is safe
  for the worst case unless the processor has timing anomalies.
* `AssertionsHold` of `PipelineMemory` with `Configurations` = `{Configuration(FALSE, FALSE, TRUE, FALSE)}`,
  `MaxDataAccesses = 3`, `L2HitLatency = 2`, `IdModulus = 10`, `MaxLatency = 5`: with
  `UnblockStores` the third store that misses a write-through cache finds the queue of
  the memory full, and `JJYSeparateCachesMemoryTopology.h:1398` asserts that it is
  not; the analysis aborts.
* `FastForwardOnlyMemory` of `PipelineMemory` with `Configurations` =
  `{Configuration(FALSE, FALSE, TRUE, TRUE)}`, `MaxDataAccesses = 2`, `DataHitLatency = 1`,
  `IdModulus = 8`, `MaxLatency = 3`: if stores do not wait and the memory may stall the
  pipeline, a data access can be rejected by a full queue and a fast-forward can then come
  before its retry, which a cycle would have made. The access is queued a little
  later, but still before the memory has finished the one in front of it, so no time
  changes in the executions that TLC shows.
* `PersistentArrayStaysCached` (`PersistenceSet`, `Config <- MCArrays`): with the array
  extension `SetWiseCountingPersistence::potentialUpdate` compares with the
  associativity before it counts the array
  (`include/Memory/SetWiseCountingPersistence.h:227`), so one line too many is
  accepted; the element-wise analysis inherits it. The extension is off by default.
* `ResultCoversExecution` of `AnalysisDriver` with a predicated return inside of a peeled
  loop: a function `p0 -> p1 -> p2` whose loop is the block `p1` with a return that is
  taken for one value and a branch back to `p1`, called by another function, with
  `LoopPeel = 2`. `handleReturn` merges the token of the function
  (`include/AnalysisFramework/AnalysisDriver.h:553`), but on top of the context is the
  token of the loop, and `Context::update` pops nothing then
  (`lib/PartitionUtil/Context.cpp:100-113`). The information is stored under a
  context that no call reads, and what the program does after that return is missing
  from the result.
* `NeverAborted` of `AnalysisDriver`: the lookup of what a callee returns asserts that
  the context does not end at an inner node of the tree
  (`include/AnalysisFramework/PartitioningDomain.h:715`, "Context empty but internal node
  without none child"; a build without assertions dereferences a null pointer there).
  Three programs reach it:
  * with no call-site token and one callee and one loop token, and `LoopPeel = 1`: `main`
    calls a function in a loop and again behind it. The second call looks
    up a context without the token of the loop, and the function has only
    returned in contexts with one.
  * with two call-site tokens (or all of them), for some orders of the worklist: a function
    calls itself and has returned from the inner call but not from the outer one
    when a block with the outer call is analysed again.
  * with the default token numbers, `LoopPeel = 1` and a predicated return in a peeled
    loop: the callee's exit is stored with the token of the loop, as in the item before,
    below which the call looks. The call is itself in a loop and
    skipped in the first iteration.

From reading only: the set-wise analysis of a shared set is default-constructed and
counts the lines of other cores in set 0, whichever set it belongs to (hence
`SWCountsItsSet` in `PersistentStaysCached`); the loop over the sets of an interval in
`AbstractCache.h:476` is empty if the interval wraps; `ta-num-callsite-tokens` says
"Default 1." (`lib/Util/Options.cpp:600`) where the code sets -1, unlimited (line 597);
on RISC-V no lines of other cores are collected
(`lib/LLVMPasses/TimingAnalysisMain.cpp:252`); the line sizes of the data cache and of the
second level are assigned crosswise (`lib/LLVMPasses/TimingAnalysisMain.cpp:396-397`), which
shows as soon as the two differ.

## 6. Not modelled, and why

* The contents of the caches inside the topology, and with them `DirtinessAnalysis` and
  the staleness of first-level analyses: in `PipelineMemory` a classification is a free
  choice, which covers every content but cannot tell a stale one. Both levels in one
  state are out of TLC's reach together with the phases of the accesses.
* The out-of-order and the PRET pipeline with `SeparateMemoriesTopology`,
  `FixedLatencyState` and `InOrderCacheState`: not the default architecture, and the
  out-of-order one alone has more state than everything modelled here.
* Path analysis, loop bounds and solvers: they write an integer linear program and
  read its solution; there are no steps to interleave.
* Value and address analysis: a case distinction over machine opcodes. The iteration
  that computes it is `AnalysisDriver`, for any finite domain.
* How the lines of other cores are collected; array-aware must ages; cache-related
  preemption delay; the counting wrappers, each of which adds one metric.
* LLVM itself, printing, hashing and the sharing of storage, the option parser,
  scripts, and the benchmark programs under `testcases/`, which are inputs of the
  analyser and most of the repository's lines.

Theorems that would be worth adding: that one turn of `AnalysisDriver` is a step of
`WorklistIteration` for every program, and a bound on the cycles of one access in
`PipelineMemory`.
