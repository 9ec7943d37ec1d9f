# A TLA+ model of a ChampSim fork with multi-block-ahead branch prediction

The repository is a fork of ChampSim, a trace-driven simulator of out-of-order
cores and their memory hierarchy, to which it adds branch predictors and branch
target buffers (BTBs) that predict *several blocks ahead*: the prediction for a
branch is made when an earlier branch is seen, kept, and used when the branch
arrives. This directory holds TLA+ modules of the parts that carry the program's
own logic, TLC configurations that check them on small instances, and proofs that
TLAPS checks for every value of the constants.

All paths in this file are relative to `src/`.

## 1. The system

The simulator is single threaded. `champsim::main` (`src/champsim.cc`) calls
`_operate` on every component once in each cycle (by clock scale), so concurrency
is the interleaving of components that talk through bounded queues, each at its own
pace; requests are refused, retried, merged, reordered and answered late. There is
no persistent state and no message loss. What is hard here is: state that must
agree across several calls (predict, then resolve), fixed-size buffers that wrap,
responses that arrive out of order, merging of requests, refusals half way through
an operation, and replacement.

| Component | State | Operations | Interacts with | Hard behaviour | What makes it correct |
|---|---|---|---|---|---|
| Multi-block-ahead direction predictor (`branch/multi_block_ahead_tage`, `_tagescl`) | circular buffer of prediction infos by branch id, one per distance; caller's `id`, `state`, `last_ip` | `predict_branch`, `last_branch_result`; inside: `get_new_branch_id`, `get_prediction`, `update_speculative_state`, `commit_state`, `commit_state_at_retire` | called by the core for EVERY instruction; TAGE tables and history | instructions that turn out not to be branches leave a prediction behind; ids wrap | a branch is served the prediction that was made the given number of branches earlier, and trains exactly it |
| Ahead TAGE with two tags (`branch/ahead_tage`) | the same, and `future_tage_response_delay_queue` with answers for every hash of the branches between | as above, and the L0 BTB | L0 BTB overrides | queue and buffer must stay in step | the picked answer covers the outcomes of the branches between |
| Single-cycle BTB (`branch/ahead_tage/btb.hpp`) | sets of entries with direction counter, `use_bm`, confidence; lru ranks | `probe`, `insert`, `touch`, `commit_state` | ahead TAGE | replacement | one entry per branch; the preference is earned |
| Multi-block-ahead BTB (`btb/*_multi_block_ahead_btb`) | MBTB, INDIRECT_BTB, RAS and SAS, last-branch registers, PRED_QUEUE, PENDING_SAS_ENTRY | `btb_prediction`, `update_btb` | core front end, `msl::lru_table` | the key of a block is its predecessor's, or for a return, the call's | an entry is written where the next prediction will look; RAS and SAS stay paired |
| TAGE (`branch/tage`, `multi_block_ahead_tage`) | history register with folded histories, tagged tables, bimodal table, path | predict, push history, commit, retire, recover | wrappers of the predictors above | speculative history, training behind prediction | folded histories are folds; a misprediction moves to longer histories; constant branches are learned |
| TAGE-SC-L (`branch/tagescl`, `multi_block_ahead_tagescl`) | loop table, GEHL tables, local histories, weights and thresholds | predict, speculative update, commit | TAGE | counts and histories that move between prediction and commit | what is trained is what was read; loop exits are learned |
| Other direction predictors (`branch/bimodal`, `gshare`, `perceptron`, `hashed_perceptron`) | tables, histories, a buffer of predictions | `predict_branch`, `last_branch_result` | core | instructions that are no branches are predicted too | the prediction trained is the one made |
| Basic BTBs (`btb/*basic_btb`) | BTB, RAS, indirect table, call sizes | `btb_prediction`, `update_btb` | core | stack overflow | returns are those of their calls |
| `msl::lru_table` (`inc/msl/lru_table.h`) | sets of blocks with last-used stamps | `check_hit`, `fill`, `invalidate` | BTBs, page-table caches, prefetchers | comparator is not a strict order | a set of least-recently-used ways, each tag once |
| Channel (`src/channel.cc`) | RQ, WQ, PQ, returned | `add_rq/wq/pq`, `check_collision` | between any two levels | merge and forward | each waiter is answered once and for its block |
| Cache (`src/cache.cc`) | tag checks in flight, translation stash, MSHR, in-flight writes, internal PQ, blocks | `operate`, `prefetch_line`, `invalidate_entry` | channels above, below and to the translator; replacement and prefetcher hooks | all of the above at once | requests conserved, MSHR order, one copy, no write lost, progress |
| Page-table walker (`src/ptw.cc`) | PSCLs, MSHR, finished, completed | `operate` | channels, virtual memory | walks that share blocks | translation right, each asker answered |
| Virtual memory (`src/vmem.cc`) | next frame, page and table maps | `va_to_pa`, `get_pte_pa` | walker, DRAM size | table pages taken from page frames in slices | no frame or slot with two owners |
| DRAM controller (`src/dram_controller.cc`) | channel queues, banks, write mode | `operate`, `initiate_requests`, `add_rq/wq` | last-level cache | write mode, row hits, refusal | requests answered once, no starvation |
| Core (`src/ooo_cpu.cc`) | front-end buffers, DIB, ROB, LQ, SQ, register map | 14 stages in `operate` | caches, predictors, trace | store forwarding, late answers, redirects | dependences, store order, everything retires |
| Phase control (`src/champsim.cc`, `inc/operable.h`) | phase, clocks, watchdog | `do_phase`, `_operate` | everything | clocks that leap, deadlock detection | every core finishes its phase |
| Trace reading (`inc/tracereader.h`, `inc/repeatable.h`) | instruction buffer, position | `operator()` | core | a refill in the middle of a look-ahead | branch targets |
| Replacement (`replacement/*`) | ranks, counters, samplers | `find_victim`, `update_replacement_state` | cache | a victim asked for twice | reused blocks survive a scan |
| Prefetchers (`prefetcher/*`) | tables of latencies, deltas, signatures, strides, regions | hooks of the cache | cache | learning from events of different times | what is learned is what happened |
| Statistics and printers (`*_printer.cc`) | counters | print | everything | none | not modelled |
| Configuration scripts (`config/*.py`), trace converters (`tracer/`) | none at run time | generate code, convert | build | none | not modelled |

Several files are copies. `tage.hpp` exists four times with the same text, the loop
predictor and the statistical corrector twice, the basic BTB three times and the
multi-block-ahead BTB twice, with other sizes, latencies or statistics. One module
models all copies of a file, and where copies differ in behaviour a constant says how
(`AheadDistance`, `Distances`). `map` in `PROJECT.json` names for each definition one
place; definitions of one module are spread over the copies, each at the lines of the
same text.

## 2. The modules

### Branch prediction

- **`CircularBuffer`** (`utils.hpp`): ids are `uint32_t`
  and wrap (`IdMod`); `allocate_back`, `deallocate_*`, `contains`, `operator[]`.
- **`AheadPredictor`** (`tage_wrapper.hpp`, `multi_block_ahead_tage.cc`):
  `PredictBranch` is `O3_CPU::predict_branch` and `LastBranchResult` is
  `O3_CPU::last_branch_result`, each with every call it makes. A prediction is
  abstracted to its *origin* (the instruction it was generated from and how many
  branch outcomes the history then held), since what can go wrong is *which*
  prediction is used, not its bit. **`AheadOracle`** promises, with a history of all
  branches and no buffer, that the branch is served the prediction made when the
  branch `Distance` before it was the newest; `AheadPredictor` implements it.
- **`AheadTage`** (`ahead_tage_wrapper.hpp`): the delay queue of answers and the
  hash of the branches in between. It implements `AheadOracle` too.
- **`PredictorTables`** (`utils.hpp`): saturating counters and bit operations.
  **`TageHistory`**: the history register, whose bits are pushed, retired and taken
  back, and the folded histories updated with each of them. **`Tage`** on top of it:
  indices and tags, prediction with alternate, bimodal table, allocation,
  counters, useful bits. `Branch` is the prediction, update and commit of one branch,
  in the order of the wrapper; the numbers of the pseudo-random generator are any.
  **`TwoTagTage`** (`2tag_tage.hpp`) extends it with the second tag and the
  commit of `ahead_tage_wrapper.hpp`.
- **`StatisticalCorrector`** holds the corrector as operators on its state, and
  **`TageScl`** (`tagescl.hpp`) the loop predictor and the combination of both: first
  free branches, then a loop, around a TAGE that says anything.
- **`DirectionPredictors`**: the four simple ones, chosen in the initial state, under
  the core's protocol (every instruction is predicted, branches report).
- **`L0Btb`** (`ahead_tage/btb.hpp`): one set with its counters and its replacement.
  **`MultiBlockBtb`**: `btb_prediction` and `update_btb` with RAS, SAS and the
  registers of the last branch; what the tables answer is any value, what is tracked is
  *where* they are read and written. **`BasicBtb`**: the same two handlers of the basic
  BTBs with their contents, over a program that calls, loops and returns.

### Core, memory and the loop

- **`Core`** (`src/ooo_cpu.cc`): `Operate` is `O3_CPU::operate`, with an operator for
  each stage in the order of the code; an instruction is its index in the program, a
  time is the cycles left until it. What predictor and BTB answer is chosen at the
  start. **`FetchBlocks`** holds the counts of fetch blocks that
  `initialize_instruction` keeps and on which this fork's results rest.
- **`PageTableWalker`** (`src/ptw.cc`) EXTENDS `VirtualMemory`, from which it takes
  what a read of the table returns, and keeps its paging-structure caches as
  least-recently-used sequences, as `LruTable` is shown to behave.
- **`LruTable`** (`inc/msl/lru_table.h`): one set with the comparison of
  `match_and_check` as it is, and `std::minmax_element` as the C++ standard
  describes it (first minimum, pairwise comparisons). **`LruSet`** is the
  abstract set of tags with the order of their last use which it implements.
- **`VirtualMemory`** (`src/vmem.cc`): the pointer to the next frame, page and
  table maps. **`FrameOwnership`** is the abstract promise: every frame or slot of
  a frame is given away at most once.
- **`Channel`** holds `champsim::channel` as operators on a value;
  **`ChannelUse`** puts one between a requester and a cache that takes requests
  from it.
- **`Cache`** composes channels above and below with `CACHE`: `Operate` is
  `CACHE::operate`, with one operator for each step and in the order of the code:
  collision checks, returned misses, returned translations, fills, new tag checks,
  translation requests, the stash, tag checks. Times are kept as cycles left.
  **`CacheLive`** adds the clock and fairness. The lower level and the translator
  are external and answer after any delay, in any order; replacement policy and
  prefetcher are free.
- **`Dram`** (`src/dram_controller.cc`): `DramOperate` takes requests from the queues
  above, then runs one cycle of each channel: warmup, collisions, finish, change
  of mode, bus, schedule.
- **`Simulation`** (`src/champsim.cc`, `inc/operable.h`, `inc/tracereader.h`): one
  `Cycle` of `do_phase` for all cores, with clocks that leap, the watchdog, feeding
  from the traces, completion and the next phase. What a core does in a cycle is free.
- **`Replacement`**: the four policies under the calls of `handle_fill` and `try_hit`,
  with the set roles that DRRIP and SHiP give.
- **`Berti`**, **`Spp`**, **`IpStride`**, **`AmpmLite`**: the prefetchers with state.
  `Berti` comes with what it sees of its cache (misses, prefetch queue, requests that
  wait, late and early prefetches), because its tables time them.

### Modules for the model checker

A run checks several components that do not touch each other. Its module EXTENDS
theirs and adds a variable `part`, chosen in the initial state: a behaviour is one
of the named part, the variables of the others stand still in their initial states.
`Is(p)` in a fairness condition keeps it to the part it is about. This is the disjoint
sum of the specifications, not a product: nothing is composed that does not interact.

| Module | Parts |
|---|---|
| `MCAheadTage` | `AheadTage` with its refinement; `TwoTagTage` |
| `MCBtb` | `L0Btb`; `MultiBlockBtb`; `BasicBtb` |
| `MCPredictors` | `TageHistory`; `Tage`; `TageScl`; `DirectionPredictors` |
| `MCStructures` | `VirtualMemory`; `LruTable`; `ChannelUse`; `Simulation` |
| `MCMemory` | `Cache` as a shared second level; `Dram` |
| `CacheLive` | `Cache` as a first level |
| `MCCoreAndWalker` | `Core`; `PageTableWalker` |
| `MCPrefetchers` | the four prefetchers; `Replacement` |

The runs `ahead_predictor` and `l0_btb_lru` check `AheadPredictor`, with its
refinement, and `L0Btb` themselves.

## 3. What the runs check

| Run | Question | Bounds and why they are enough |
|---|---|---|
| `ahead_predictor` | Is each branch served and trained with the prediction of `Distance` branches ago, when every instruction asks? Is the buffer's slot always owned by the id that reads it? Does it implement the oracle? | distance 2, in-flight 1 (as the code has it), ids modulo 8: the buffer of 4 slots wraps twice; two pcs tell origins apart; conditional and indirect differ in history bits |
| `ahead_tage` | Do delay queue and buffer stay in step, does the hash cover exactly the branches between, is the answer trained that was picked? Do patterns of the missing branches keep their entries (`PatternsKeepTheirEntries`)? | distance 3, ids modulo 9; tables: two second tags, three pairs of tables of two entries, two free branches |
| `btb` | L0: one entry per branch, `use_bm` only after enough right answers. Multi-block: are RAS and SAS paired through overflow; is an entry written under the key that the next prediction reads? Basic: is a return the one of its call? | L0: two ways, three branches, the code's counters. Multi-block: stacks of two entries overflow, one address for each kind of branch. Basic: calls three deep on a stack of two, direct and indirect |
| `l0_btb_lru` (violation) | is the least recently used way evicted? No: only way 0 is | as `btb` |
| `predictors` | `TageSound`: do the folded histories hold what they stand for, also after recovery; does allocation go to longer histories only? `SclSound`: does the corrector train what it read, do the loop counts agree? `HistoriesSound`: do the simple predictors train the prediction that was made, with their histories in order? `EverythingIsLearned`: a constant branch, and the exit of a loop of constant length | histories of 1, 2 and 3 bits in a ring that wraps, one branch in flight (as the code has it); two branches, or one and a loop of six iterations, preceded by free ones that spoil the tables; 8 instructions for the simple predictors, more than their buffers hold |
| `structures` | `NothingShared`, `InMemory`, `ImplementsOwnership`: frames and slots have one owner. `TableIsLru`: each tag once, least recently used replacement, with invalidation. `ChannelSound`: each waiter answered once, the level below asked once, no read overtakes a write. `LoopSound`, `LoopEnds`: phases measure their length, targets are right, the watchdog stops only what stands still, phases end | two cores and five frames of two slots; 3 ways, 4 tags, 6 accesses; 4 requests on two words of one block, a channel carries one kind; two cores with clocks 0 and 1 and traces that end with and without a taken branch, one of which repeats |
| `memory` | a shared second-level cache: each upper level answered once, no write lost through write-back, refused write-backs and bypass. DRAM: one answer to each read through merging, forwarding and changes of mode; banks and slots agree; a request leaves the bus only when finished; everything is served | cache: 3 requests on two blocks in one way, each fill evicts. DRAM: two levels above, 3 requests on three blocks in two banks and two rows, two slots: a second write changes the mode while a read is on a bank or on the bus |
| `cache_l1` | a whole first-level cache: virtual requests, translation, stash, MSHR merge, prefetches: answers, blocks, MSHR order, one copy, no failed assertion; every request is answered in the end | 3 requests on three blocks, one of them read and prefetched, one read, one written, or the first also written; 2 MSHRs and two ways: two misses return in both orders while a third request merges, or is refused by the full MSHR, also a read that waits for its answer; the third fill evicts, also the dirty block; every queue holds one request, so the levels below and the translator refuse too |
| `cache_l1_dirty` (violation) | is a written block dirty? Not when a load merges into the store's miss | as `cache_l1`, on two blocks with one way, queues of two and no prefetches |
| `core` | `DataFlowsInOrder`, `FetchSound`, `NoAssertionFails`: operands, store forwarding, store order, fetch stops, responses that find their instructions. `WalksSound`: translations right and once. `EverythingFinishes`: the program, and every walk | five programs of three to six instructions (values through registers and memory, several stores, mispredicted and indirect branches, the stack pointer, straight code) with buffers that fill, with and without warmup that ends at any time. Walker: three levels, three pages, two callers, blocks of two entries, so that two walks share a read at different levels |
| `core_issue` (violation) | has an issued store executed? No | as `core` |
| `prefetchers` | `LearnsOnlyTimely`: is what Berti learns in time? `NothingLeaks`: does its latency table hold only misses in flight? `SppTablesSound`: do counters and signatures agree? `RegularitySound`: are strides and regions those that were read? `ScanResistant`: do LRU, SRRIP and SHiP keep what was hit? | Berti: two programs of demands, with delays of the memory up to four cycles, one miss and one waiting request; cycles 6 to 10 of a clock of 8 and lines 1 to 5 of which the history keeps the remainder by 4, so that it sees the clock come round and takes lines for one another. SPP: two pages, counters of two bits that halve, 7 demands. Stride: one tracked instruction, two that compete. AMPM: three pages, two regions. Replacement: up to 3 ways and 4 blocks, DRRIP with each role of a set |

Deadlock checking is off where the model's bound on requests or ids, or a full
memory, or the end of the program, ends every behaviour.

**Fairness.** `champsim::main` calls `_operate` on every component in every cycle, so
the clock ticks for ever (`cycle`, the parity of the current cycle, takes both values
again and again); and the levels around, which have the same scheduler, do
what they can (`WF` of their actions; `CacheLive` writes its
`WF` out: as the requests are bounded, the levels around it have again and again nothing
left to do). Nothing is assumed about which request
they serve first. As the number of requests is bounded, this is enough to
get each of them served. For the predictors the program goes on: a branch is executed again
and again (`free.beat`), a loop is gone around again and again; and for the loop
predictor a misprediction that recurs is drawn an entry at some time, as its
pseudo-random numbers do.

## 4. What is proved

Each theorem holds for every value of the constants that the named assumptions of
the modules allow. The argument is an inductive invariant (`IInv` and its like,
established by `Init`, kept by each action, a lemma for each) which TLC checked
first on the instance of the run; refinements add that each step maps to one of the
abstract specification, or to none.

| Module | Theorems | The invariant, and why it is needed |
|---|---|---|
| `AheadPredictor_proofs` | `TypeCorrect`, `SlotsAreOwned`, `AnswersComeFromDistanceBack`, `AssertionsHold`; `BufferImplementsOracle`; `TrainsTheServedPrediction` (the answer trained is the one served) | the ids in the buffer are those from the branch in flight to `Distance` ahead, each slot holds what the id it maps to wrote, nothing speculative is left between calls. Slots of two live ids differ because the window is not longer than the ring |
| `AheadTage_proofs` | `AheadTypeCorrect`, `QueueStaysSound`, `AheadAssertionsHold`, `TrainsThePickedAnswer`; `QueueImplementsOracle` | queue and slots hold the same predictions (`SlotsMatchQueue`), the queue is the window of branches predicted for (`QueueIsWindow`), the answer consulted is due now |
| `Predictors_proofs`, `L0Btb` | `L0IsSound`, `NothingAges`, `OnlyTheFirstWayIsEvicted` | one way per branch without counting, `use_bm` exactly while earned, all ages 0 |
| `Predictors_proofs`, `MultiBlockBtb` | `BtbTypeCorrect`, `ReturnsAlwaysMatchCalls`, `AlwaysTrainsWhereItReads` | RAS, SAS and the open calls side by side (`StacksPaired`), the pending snapshot is that of the last return, the registers hold the last branch |
| `Predictors_proofs`, `BasicBtb` | `BasicBtbIsSound` | the stack holds the latest open calls, a learned size is right, an entry is of the branch that ends its block |
| `Predictors_proofs`, `DirectionPredictors` | `HistoriesAreSound` | between two instructions the buffer of saved states holds only states of instructions that are no branches (`DirectionIInv`), so that the first state of a branch is the one just saved; a shift moves every bit of a history by one place; the threshold of the hashed perceptron stays at or above 0, because it drops only after an output below it. The counting of the tables and of the output are inductions |
| `Prefetchers_proofs`, `IpStride` and `AmpmLite` | `RegularityIsSound` | an entry of the tracker recalls what its instruction read last (`Recalls`), so that a lookahead starts with three reads on its way; the regions stay one for a page through a read, its marks and what they drive out, which is an induction over the distances |
| `Prefetchers_proofs`, `Berti` | `BertiLeaksNothing`, `BertiLearnsOnlyTimely` | a timed line waits in the MSHR, in tag check or as a fill in the queue, for less than a turn of the clock, and is in no frame (`TimedIn`, `Apart`), so that the entries are fewer than `LatencySlots`; an entry of the history recalls an access that was seen, by what it keeps of line and time (`HistorySeen`); a tag of the table is in the FIFO. What looks earlier on a clock that goes around is earlier when it is not later (`LooksEarlier`). The loops of `find_and_update` and `prefetcher_cache_operate` are inductions |
| `Prefetchers_proofs`, `Spp` | `SppTablesStaySound` | a pattern that never counted has no stride (`PatternShape`), so that its first update is a new one and counts 0 for it; from then on the sum of the strides stays below the counter of the signature. Halving keeps it: halves rounded down sum up to at most the half of the sum, and the counter that runs over is even. Every age is some way's (`SignaturesOK`). The sums, and the loops of the lookahead, which leaves both tables alone (`Leaves`), are inductions |
| `Prefetchers_proofs`, `Replacement` | `ScansAreResisted`; `VictimsArePickedAgain` | a block never hit looks at least as old as one that was hit after it came (`UnhitLooksOld`); the search that ages ways leaves the order of who is furthest |
| `Structures_proofs`, `VirtualMemory` | `TypeCorrect`, `FramesNotShared`, `StaysInMemory`; `OwnershipImplemented` | what is given away lies before the frame and slot pointers |
| `Structures_proofs`, `LruTable` | `TableIsLeastRecentlyUsed` | no two ways share a stamp (`StampsDiffer`), a tag has one way. What `minmax_element` returns is an induction over its pairs; then each call maps to the call of `LruSet` |
| `Structures_proofs`, `ChannelUse` | `EveryWaiterAnsweredOnce`, `ChannelIsSound` | a waiter is named at one place in queues and responses, exactly while it waits; a checked request overlaps no older write and no checked one. The three loops of `check_collision` are inductions |
| `Structures_proofs`, `Simulation` | `LoopIsSound` | what a core has and what its reader's buffer holds are one chain of branches and targets, and a reader runs empty only at the end of its file (`Fed`); a core that is not complete has not reached the length, one that is reached it in the cycle that completed it (`Measured`); the watchdog's count is the shortest idle time (`IdleFor`). Feeding a core is an induction over the instructions read |
| `Dram_proofs` | `ReadsAreAnsweredOnce` with `BanksAlwaysMatch`; `BusStaysHeld` | what is scheduled has been checked, so that `check_collision` frees and merges only what no bank has; each request is in a slot of its own channel; no bank is busy in the warmup, which drops the requests (`DramIInv`). One lemma for each phase of a cycle, and inductions over the loops of `check_collision`, `initiate_requests` and the warmup. For the answers: whoever waits in a queue, slot or response is a request that was made, and its own level is named there (`TakeTied`, `ToldTyped`), so that a merge, which adds the levels of both, and a forward, which tells them all, reach it; each step passes what waits in one place on to one place (`Owes`, `WaitInv`) |

`CircularBuffer` itself ends with the lemmas on slots and remainders that the two ahead
predictors share. `FoldInduction` proves, once, induction over `FoldLeft` for a step and an
invariant that are given when it is instantiated: the library's induction theorems take
an operator as a parameter, which the provers cannot instantiate, but a constant
operator of an instance they can. The loops of the code over its queues and ways
are such folds.

What the assumptions say beyond types: ids outnumber the slots (`BufferAssumption`;
the code's are 2^32); `maxRRPV` is more than 1 (it is 3); in the program of `BasicBtb`
what does not jump has a successor; a read of a trace asks for more than one
instruction (`TraceChunk`; it is 127) and there is a core; the facts of powers of two that
a shift needs (`PowersOfTwo`), as the prover knows nothing of `^` (TLC evaluates them); and `ChannelIsSound` is about a channel whose
requests are all translated or all not, as in the code those of a core or a cache
are: with both kinds, `do_collision_for` gives up at the first request of the address
that is of the other kind, and only `EveryWaiterAnsweredOnce` remains.

Model-checked only:

- liveness (`EverythingIsLearned`, `LoopEnds`, `EverythingServed`, `EveryReadAnswered`,
  `EverythingFinishes`), which is out of the prover's reach;
- `Cache`, `Core`, `PageTableWalker`, `Tage` and `TageScl`: each step is a long chain of
  folds, for which no invariant of the loops has been worked out;
- what depends on `SelectSeq`, `:>` and `@@`, which the prover does not expand.

## 5. Disagreements met

- `branch/ahead_tage/btb.hpp`: `touch` (96-102) raises only the ranks smaller than
  that of the touched way, and all ranks start at 0, so they never separate;
  `find_victim` (104-121) then returns way 0 of every full set, although the field is
  called `lru` (`l0_btb_lru`). The run shows it for two ways; `NothingAges` and
  `OnlyTheFirstWayIsEvicted` prove the cause and the effect for any number.
- `src/cache.cc:57`: merging a load into the miss of a store makes the miss a load,
  and `BLOCK` (77-78) is dirty only when the miss is a write: the store leaves a
  clean block, although `test/cpp/src/407-writeback-dirty.cc:7` says that "Blocks
  that have been written are marked dirty" (`cache_l1_dirty`). The test uses a
  second-level cache, whose writes never wait in the MSHR.
- `src/ooo_cpu.cc:680-687`: `event_cycle` of a new store-queue entry is 0
  (`inc/ooo_cpu.h:112`), which has passed, so a store is issued in the cycle after
  dispatch whether or not its instruction has executed, although line 643 calls an
  issued store "already executed" and `do_execution` (621) is to "Mark SQ entries as
  ready to translate" (`core_issue`).

One more is a matter of length only. `branch/multi_block_ahead_tage/utils.hpp:100`
asserts `contains(id)`, and `contains` (96-98) is `read_id_ <= id <= alloc_id_` on
`uint32_t`: when `alloc_id_` has wrapped and `read_id_` has not, after 2^32 branches,
the ids in use are reported missing. `AbortsOnlyWhenIdsRunOut`, checked and proved,
says that the assertion can fail then and only then.

Observations made while modelling, kept in the modules as the code has them:

- TAGE: of the long tables, all enabled ones share the same banks. In
  `ahead_tage` an unused entry has both tags 0, so that a branch with first tag 0 and
  another second tag is refused fresh entries by the promotion check.
- Statistical corrector: with a distance of 1 the loop count and total sum that are
  trained lag behind those that were read, and the threshold's bonus is indexed
  differently in prediction and commit. `SclSound` is about the counters of the tables.
- Berti: the history keeps 24 bits of a line (`ADDR_MASK`), and deltas are taken between
  such remainders (`berti.cc:747`): of lines that are further apart Berti learns deltas
  that neither instruction made, and `LearnsOnlyTimely` says no more of a line than the
  history keeps (`Kept`). The table holds one tag more than its size; a history whose pointer is 0 reads
  the entry before the array as the latest one (`SameAsLatest`); tag 0 marks a free
  entry; a miss at masked time 0 is not timed; a branch for small confidence is dead.
- SPP: useful prefetches may exceed those issued after both are halved, so that the
  accuracy exceeds 100 %; a fill without an eviction resets the filter of line 0.
- Replacement: `drrip.cc:101-102` ages only the ways up to the victim, so that
  `KeepsProven` is false of DRRIP (with three ways) and `ScanResistant` leaves it out;
  `fwcounter`'s `--` adds one (`inc/msl/fwcounter.h:140`), so that DRRIP's selector only
  rises (`drrip.cc:79`) and its followers end up with BIP whatever the leaders show;
  the sampler's windows of neighbouring sets overlap in SHiP.
- AMPM: `lru` of a region is set only when it is made, so that replacement is first in,
  first out; the read that makes a region is not marked in it.
- Perceptron: states of instructions that are no branches stay in the buffer until
  they are pushed out.
- The last instruction of a trace is usually not served, and on repetition the last
  branch takes its target from the first instruction of the trace. A warmup of
  0 instructions still runs a cycle.

## 6. Not modelled

- Statistics (but for the fetch blocks), printing, command line, configuration
  scripts, trace converters: no state of the simulation depends on them.
- `branch/tage_2tag.h` and `branch/ahead_2tag_tage.cc`: older copies of the ahead TAGE
  that no build of the simulator picks up.
- Stream decompression (`inc/inf_stream.h`) and file formats: I/O.
- `next_line`, `next_line_instr`, `no`, `no_instr`: they keep no state.
- What the tables of the multi-block-ahead BTB answer: any value.
- Values: no request carries data, in the code or here. So that a read is taken
  before the writes of the same queue above, and a newer write dropped for an older one of
  its block (`src/dram_controller.cc:280`, `227`), has no effect that a property tells.
- Warmup of a cache, in which it answers with a latency of 0 (that of core and DRAM
  is modelled).
- `CACHE::invalidate_entry` has no caller and is not modelled. A hit does not look
  at `valid` (`src/cache.cc:173`), so an invalidated block would still be hit.
- `local_recover` and `global_recover` of loop predictor and corrector: no caller.
- The walker and the cache that it reads through are not composed:
  `finish_translation` (`src/cache.cc:547-551`) rewrites the address of every tag check
  in flight with the virtual page, also of one that was translated. `cache_l1` sends
  virtual requests only.
- Bounds of sizes: the MSHR of the walker is never compared with its size
  (`MSHR_SIZE` has no use in `src/ptw.cc`), so there is no bound to check.

## 7. Plan

What is left is to prove more, with `FoldInduction` for the loops:

1. `FetchBlocks`: the ranking of the four counts of fetch blocks, of any stream.
2. `PageTableWalker` and `Cache`: each request has one place, as in `ChannelUse`.
