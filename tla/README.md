# Maya cache: a TLA+ model and its proofs

This directory holds TLA+ specifications of the programs in this repository, the TLC
configurations that check them on small instances, and theorems about them that TLAPS checks.
The repository is the artifact of the Maya cache paper (ISCA'24): a cycle-level simulator with a
new last-level cache, and a separate experiment that backs the design's security argument.

Paths below are relative to the repository; line numbers are those of the files under `src/`.

## 1. The system

`src/performance-analysis/maya` and `src/performance-analysis/mirage` are two copies of the
ChampSim simulator. `block.cc`, `block.h` and `dram_controller.cc` are the same in both; `cache.cc`,
`cache.h`, `main.cc`, `ooo_cpu.cc` and `ring.cc` differ. `src/security-analysis` is a program of its
own. All of it is single-threaded: "concurrency" below means the order in which the components'
`operate()` functions meet packets within and across simulated cycles, and the outcome of `rand()`.

### 1.1 Inventory

| Component | Source | State | Operations |
|---|---|---|---|
| Maya LLC | `maya/src/cache.cc`, `maya/inc/cache.h` | tag stores `tag0`, `tag1` (15 ways, priority -1, 0 or 1), data store `block` (12 ways), `num_pr0`, MSHR, RQ, WQ, PQ | `handle_fill`, `handle_writeback`, `handle_read`, `handle_prefetch`, `add_rq/wq/pq`, `return_data`, `check_hit_tag`, `llc_find_victim_tag`, `remove_random_tag`, `remove_block_based_on_tag_array`, `remove_tag_entry_from_block`, `fill_tag`, `fill_cache` |
| Buckets and balls | `security-analysis/src/security_maya.cpp` | `bucket`, `bucket0`, `balls`, `balls0`, histograms, `init_buckets_done` | `init_buckets`, `insert_ball`, `spill_ball`, `remove_ball`, `upgrade_and_downgrade`, `remove_and_insert`, `sanity_check` |
| Packet queues | `maya/src/block.cc`, `maya/inc/block.h` | `entry[]`, `head`, `tail`, `occupancy` of RQ, WQ, PQ, PROCESSED; MSHR is the same type but indexed | `add_queue`, `remove_queue`, `remove_queue_at_index`, `check_queue` |
| DRAM controller | `maya/src/dram_controller.cc` | RQ and WQ per channel, `write_mode`, `bank_request`, `scheduled_reads/writes`, `dbus_cycle_available` | `operate`, `schedule`, `process`, `reset_remain_requests`, `add_rq`, `add_wq` |
| Upper caches, TLBs | `maya/src/cache.cc` (same class) | as the LLC, one set-associative `block` array each | as the LLC, plus `add_read_to_lower_level`, `prefetch_line` |
| Out-of-order core | `maya/src/ooo_cpu.cc` | ROB, LQ, SQ, STA, RTE and RTS queues, register and memory dependence lists | fetch, decode, schedule, execute, memory scheduling, retire |
| Ring | `maya/src/ring.cc` | per router two network interfaces with INQ, OUTQ | `operate_router`, `add_inq`, `add_outq` |
| Main loop, paging | `maya/src/main.cc` | cycle counts, `stall_cycle`, warm-up flags, page tables | `main`, `va_to_pa`, deadlock watch |
| CEASER-S remap | `maya/src/cache.cc` 2998-3076, 3930-4628 | keys, `Sptr`, `remap_Table` | compiled out when `CEASER_S_LLC` is 0 |
| Mirage LLC | `mirage/src/cache.cc` | tag stores `tag0`, `tag1` (14 ways, valid or not), data store `block` | as the Maya LLC, without `remove_random_tag` |
| Replacement policies | `maya/replacement/*` | per-line counters | victim choice, update |
| Prefetchers, predictors | `maya/prefetcher/*`, `maya/branch/*` | tables | propose addresses, predict branches |
| Ciphers | `maya/src/prince.c`, `maya/inc/aes.h` | none | address to set index |
| Tracer, scripts | `maya/tracer/*`, `scripts/*` | none | trace and plot files |

### 1.2 How the components interact

* A core sends loads, stores and fetches to the L1 caches (`add_rq`, `add_wq`); a miss takes an MSHR
  and goes to `lower_level->add_rq`; the answer comes back by `upper_level->return_data`, which marks
  the MSHR, and `handle_fill` of a later cycle installs the line. A dirty victim goes down by
  `lower_level->add_wq`. A handler that finds the lower queue full does nothing and tries again in
  its next turn.
* The LLC calls `add_rq` and `add_wq` of the DRAM controller directly, after comparing
  `get_occupancy` with `get_size`. The controller answers by `return_data`, at once when a queued
  write has the address.
* `operate()` of a cache tries, in this order and each at most a few times, a fill, a write-back,
  the reads and the prefetches.
* The two Maya stores refer to each other: a priority-1 tag holds the set and way of its block, a
  valid block holds the skew, set and way of its tag.

### 1.3 What is hard, and what makes each component correct

* **Maya LLC.** Every fill or write-back of a new line moves up to three addresses: the line itself,
  the random block whose tag is downgraded, the random priority-0 tag that is dropped to keep the
  number of tag-only entries under `threshold_pr0`, and in the rare case that both candidate sets
  are full an evicted entry with its block. Each path adjusts `num_pr0`. A full DRAM queue can stop
  any of them half-way. Correct means: every priority-1 tag has its block and conversely, no address
  has two tags, `num_pr0` counts the priority-0 tags and keeps the bound, dirty data is never
  dropped, misses and write-backs complete.
* **Buckets and balls.** Spills wander between full buckets; removal and trade move several balls
  at once. Correct means: the counters count the balls, no bucket exceeds its capacity, balls are
  conserved, a spill ends, the statistics describe the steady state only.
* **Packet queues.** Wrap-around and removal from the middle. Correct means: a bounded FIFO from
  which one element may be taken out of order.
* **DRAM controller.** Requests are scheduled in one mode and taken back in the other. Correct
  means: a bank is busy with exactly the scheduled entry that names it, the counters agree, every
  read is answered once, and the mode returns to reads.
* **Upper caches.** One address may have an MSHR, a queued read, a queued prefetch and a dirty copy
  above at once. Correct means: what waits above is exactly what will be answered from below, no miss
  passes a write-back of its own block, merged requests are all answered, and no two caches wait for
  each other.
* **Core.** Out-of-order completion against in-order retirement, wake-up lists. Correct means: no
  instruction retires before it completed, a load sees the program's last store before it, every
  producer wakes its consumers, and the trace ends.
* **Mirage LLC.** Two stores that refer to each other, as in Maya, but every tag has a block. Correct
  means: tag and block name each other, and a lookup finds the one tag of an address.

`PROJECT.json` lists the hazards one by one, each at its line, with the properties that cover them.

## 2. Modules

| Module | Models |
|---|---|
| `MayaLLC` | one Maya LLC: tag and data stores, MSHR, WQ, the DRAM write queue it fills |
| `MCMayaLLC` | its small instances: skew functions, symmetry |
| `MayaLLC_proofs` | its inductive invariant and theorems |
| `BallPlacement` | abstract specification: where the balls are, and that no bucket takes one too many |
| `BucketModel` | the experiment, step by step |
| `MCBucketModel` | its small instances |
| `BucketModel_proofs` | its inductive invariant, theorems, and the refinement proof |
| `BoundedQueue` | abstract specification: a bounded queue with removal of the oldest packet of an address |
| `PacketQueue` | the ring buffer `PACKET_QUEUE` |
| `PacketQueue_proofs` | its invariant and the refinement proof |
| `DramController` | one channel of the DRAM controller, with the requests the LLC may send |
| `MCDramController` | its small instance |
| `DramController_proofs` | its inductive invariant and theorems |
| `CacheHierarchy` | L1D and L2C of one core: queues, MSHRs, blocks, and what passes between the two |
| `MCCacheHierarchy` | its small instances |
| `CacheHierarchy_proofs` | its inductive invariant and theorems |
| `ProgramOrder` | abstract specification: instructions retire one at a time and loads see the last store |
| `OooCpu` | one out-of-order core, from the trace to retirement |
| `MCOooCpu` | its instruction kinds |
| `OooCpu_proofs` | its inductive invariant, theorems, and the refinement proof |
| `OooCpuProgress_proofs` | when the core cannot stop: the store assert and the wedge |
| `MirageLLC` | one Mirage LLC: tag and data stores, MSHR, WQ, DRAM write queue |
| `MCMirageLLC` | its small instance |
| `MirageLLC_proofs` | its inductive invariant and theorems |

Operators named `Faulty...` are plausible slips in the definition that follows them. No
specification uses them; they document, and let TLC confirm, that each property can fail.

### 2.1 MayaLLC

State. `tags[<<skew, set, way>>]` is an entry of `tag0` or `tag1` with its address, priority and
block; `valid` is priority other than -1, which every assignment in the code keeps so. `block[b]` is a
block of the data store with its address, `dirty` and the tag entry it points to; `valid` is having one.
`numPr0` is `num_pr0`. `mshr[a]` is the MSHR entry of address `a`: none, in flight, or returned.
`wq` is the LLC's WQ, `dramWQ` the addresses in the DRAM write queue. `halt` is "no" while the program
runs and otherwise names the assert that failed or the loop that cannot end; no step follows it.
`saeRefused` is a history variable: it records that `remove_block_based_on_tag_array` returned early.

Actions.

| Action | Code |
|---|---|
| `FillMeetsData`, `FillUpgrade`, `FillInstall` | `handle_fill`: tag found with data; tag found without; no tag |
| `WbHit`, `WbUpgrade`, `WbInstall` | `handle_writeback`: the same three cases |
| `WbPlace` | the part `WbUpgrade` and `WbInstall` share (1197-1372) |
| `StartMiss` | `handle_read`, `handle_prefetch`: a miss that takes an MSHR and goes to DRAM |
| `ReturnData`, `AddWq`, `DramWrite` | `return_data`, `add_wq`, one write served by the controller |

`rand()` is a choice: the random block of a fill or write-back, the way of an eviction, the entry
`remove_random_tag` stops at. The two ciphers are the constant `SkewSet`, an arbitrary function.
Which packet is at the head of RQ and PQ is left open, so a read of any address may come at any time.

Assumed: `MAYA` is 1, `INTERCONNECT_ON` and `CEASER_S_LLC` are 0, asserts are compiled in, as the
shipped scripts build it; one slice, after warm-up. `remove_block_based_on_tag_array` has no return
statement at its end; its result is not used, and the model takes the call to return.

Left out: cycle times (a step may come at any time its packet is there), statistics, replacement
state (no victim choice reads it with `MAYA`), prefetcher hooks, data values.

### 2.2 BucketModel

State. `at` is `balls` and `balls0`; `count[1]` and `count[0]` are `bucket` and `bucket0`; `phase` is the
next call of `main`'s loop; `hand` the ball being thrown; `spillFrom` the index in `spill_ball`'s loop.
`observed` stands for all of `bucket_fill_observed`: whether anything was recorded in it.

Actions: `InitInsert`, `EndInit` (`init_buckets`), `Remove0`, `Remove1` (`remove_ball`), `ThrowInsert`
(`insert_ball`), `SpillPlace`, `SpillMove` (one iteration of `spill_ball`'s loop), `Trade`
(`upgrade_and_downgrade`). `insert_ball` counts a ball in a full bucket and `spill_ball` discounts it as
its first step; the model joins the two, so a spilled ball is counted nowhere until it is placed.

`BallPlacement` keeps only the position of each ball. `BucketModel` implements it under the mapping
that sends a ball being spilled to `NoBucket` although `balls[]` still names the full bucket.

### 2.3 PacketQueue

State: `entry`, `head`, `tail`, `occupancy` as in the code; a packet is its address. Actions: `AddQueue`,
`RemoveQueue`, `RemoveQueueAtIndex`, the last at the index `check_queue` returns, as every caller does.
The code moves entries in up to three loops; none reads an entry it has written, so `Moves` names the
entries that receive their successor and all move at once. The callers test `occupancy` first.

`BoundedQueue` is a sequence. `PacketQueue` implements it when the sequence is read off the ring from
`head` on (`Contents`). MSHR and the DRAM queues are arrays of the same type on which `remove_queue` is
called for any entry: it moves their `head`, which nobody reads.

### 2.4 DramController

State. `entry["read"]`, `entry["write"]` are `RQ.entry`, `WQ.entry` with address and `scheduled`;
`occupancy` and `scheduled` are the counters; `bank[b]` joins `working`, `is_read`, `is_write` of a
`BANK_REQUEST` in `serving`, beside `request_index` and `open_row`. `toSchedule` and `nextProcess` are the
cached `next_schedule_index` and `next_process_index`. `at` is the place in `operate()`. `waiting` is the
LLC's side: the addresses it has a read in flight for.

Actions: `SwitchMode` with `ResetRemainRequests`, `ScheduleOne` (`schedule`), `ProcessOne` (`process`),
`NotDue` for a cycle in which a gate is shut or nothing is found, `AddRq` and `AddWq` between two calls of
`operate()`. Cycle counts are abstracted: a comparison of cycles may come out either way, and the oldest
of several candidates may be any of them. `row_buffer_hit` only changes a latency. Whether a bank
taken back has opened its row depends on a cycle count, so both are possible.

A read that meets a queued write of its address is answered at once and changes nothing; a write that
meets one is merged. `ReadsTracked` implies that the merge of two reads in `add_rq` (494) never happens:
the LLC keeps one MSHR for each address.

`MayaLLC` sees of this module the set of queued writes and the answers. Its assumption that a full DRAM
queue gets room again is `RoomReturns` here.

### 2.5 CacheHierarchy

State, by cache (`L1D`, `L2C`): `rq`, `wq` are the addresses in RQ and WQ, `pq` those in PQ with their
`fill_level`, `mshr[c][a]` is the MSHR entry of address `a` with `type`, `fill_level` and `returned`, and
`block[c][w]` the block of way `w` of the one set that is modelled. `waiting` holds the addresses whose
loads the core has sent and not found in PROCESSED.

| Action | Code |
|---|---|
| `HandleFill` | `handle_fill` of a returned MSHR entry: victim, block, answer to the level above, removal of the redundant read (704-714) |
| `WriteHit`, `StoreMiss`, `AllocateMiss` | `handle_writeback`: hit; miss in the L1D, which takes an MSHR as RFO; miss in the L2C, which takes a way at once |
| `ReadHitL1`, `ReadHitL2`, `LoadNewMiss`, `LoadMerges`, `ReadMissL2` | `handle_read`, with `add_read_to_lower_level` in `LoadMerges` |
| `PrefetchHit`, `PrefetchMissL1`, `PrefetchMissL2`, `PrefetchMerges` | `handle_prefetch` |
| `CoreLoad`, `CoreStore`, `PrefetchLine` | `add_rq`, `add_wq` and `prefetch_line` called by the core and the prefetcher hooks |
| `LlcAnswers` | `return_data` called by the LLC |

WQ of the L1D is searched by `full_addr`, all other queues by block (`block.cc` 11). A store or a load of the word of a queued
store, or a prefetch of its address, changes nothing in the model; one of another word of the block passes the queued store
by, and a store is then queued beside it. So WQ of the L1D may hold a block more than once. `hier_pass` has one
entry there; what needs more is covered by the proofs, which are for every size.

`Sent` and `ReadSent` are what `add_rq` of the L2C does with a miss of the L1D: answer it from WQ, merge
it, queue it, or, with RQ full, nothing, since the L1D ignores the result (950). That this last case never
happens is part of `AnswersMatch`: the miss would wait for nothing.

`AnswersMatch` is the heart: the L1D waits for an address exactly when a read or a prefetch for it is
queued in the L2C or the L2C has a miss that asks for it. From left to right nothing is lost; from
right to left `return_data` finds its MSHR entry. The assumption `MshrSize["L1D"] <= RqSize["L2C"]` (16 and
32 in the code) is what it rests on: RQ holds an address once and only what the L1D waits for.

Left out: the L1I and the TLBs (the same class, read only); FILL_LLC prefetches; the difference between
LOAD and RFO at the L2C; the dirty bit of the L2C, whose victims go to the LLC outside the module; LRU
order (`Victims` is any valid way); `reads_available_this_cycle`; the LLC's refusals, which are an
answer that comes later.

### 2.6 OooCpu

An instruction is named by its place in the trace. `rob[i]` is its ROB entry together with the entries of
LQ and SQ it owns: `front` is the state of its translation and fetch, `scheduled` and `executed` as in the
code, `regDependents` is `registers_index_depend_on_me`, `memDependents` is `memory_instrs_depend_on_me`,
`numRegDependent` and `numMemOps` the two counters, `load[a]` and `store[a]` the state of an operand from
`todo` over its place in RTL0, RTL1, RTS0, RTS1 to `done`. `sta`, `rte`, `inflightReg`, `inflightMem` are as in the code.

A value is the number of the instruction that stored it. `from[a]` is the producer of a waiting load and
then the value a finished load has; `written[a]` is the value in the L1D, changed when a store retires.

| Action | Code |
|---|---|
| `ReadTrace`, `ResumeFetch`, `SendToItlb`, `ItlbDone`, `SendToL1I`, `L1IDone` | `handle_branch`, `fetch_instruction`, `complete_instr_fetch` |
| `Schedule` | `schedule_instruction`, `do_scheduling`, `reg_dependency`, `reg_RAW_dependency` |
| `Execute`, `Complete` | `do_execution`, `complete_execution` with `reg_RAW_release` |
| `MemSchedule` | `do_memory_scheduling`, `check_and_add_lsq`, `add_load_queue`, `add_store_queue` |
| `StoreToDtlb` to `LoadDone` | `operate_lsq`, `execute_store`, `execute_load`, `complete_data_fetch`, the merged answers |
| `Retire` | `retire_rob` |

`next_fetch[1]`, the limit of the scheduling scan, is never assigned after the constructor. So the scan of
`schedule_instruction` runs from the head to the end of the ring and no further; `Lap` keeps that.
`TraceRetires` shows that the core gets on all the same.

A store enters SQ only when it is the oldest in STA; loads enter LQ in any order and keep their place until they have a
value. So a load queue can fill with loads that wait for an older store, while the store waits, through registers,
for a still older load that finds no place: the core wedges. This needs LQ to be smaller than the number
of loads in the scheduling window. When instructions have one load at most and the window is no larger than LQ, the loads
in LQ that are not the oldest instruction's leave a place for it, and the core cannot stop: theorem `CoreNeverStuck`.
The shipped sizes are equal (`LQ_SIZE` and `SCHEDULER_SIZE` are 128), so only instructions with several loads
can bring it about. TLC finds the wedge, as a counterexample to `TraceRetires` under `FairSpec`, with `LqSize`
1, `SqSize` 1, `SchedulerSize` 4, `RobSize` 4, `TraceLen` 4 and three kinds: a load that reads and writes `r`, a store to `x` that reads `r`, and
a load of `x`. The trace is two loads of the first kind, the store, and the load of `x`, which takes the place in LQ while
the second load waits for the first to complete. No run is kept for it: it depends on sizes that are not shipped.

`ProgramOrder` is one instruction at a time on a memory that changes at once. `OooCpu` implements it with
`retired` as `head - 1` and `memory` as `written`.

Left out: widths and latencies (a stage acts in any cycle from the one in which it may), the FIFO order
of RTE, RTS and RTL (any order), the merging of requests in DTLB and L1D (each load is answered in a
step of its own), the contents of the branch predictor (`miss` is a choice of the trace).

### 2.7 MirageLLC

As `MayaLLC` without priorities: `tags`, `block`, `mshr`, `wq`, `dramWQ`, `halt`. `VictimTags` is
`llc_find_victim_tag`, `Place` what both handlers do with a random block and a victim tag: write back and
untag the block (`Untagged`), evict the owner of the tag (`Evicts`), `fill_tag` and `fill_cache`. `HandleFill`
is `handle_fill`, `WbHit` and `WbMiss` are `handle_writeback`; the other actions are those of `MayaLLC`.

Three history variables mark what the code does and its authors hardly meant: `refused`, an eviction
refused by a full DRAM queue whose result is ignored (2221); `strayed`, a way drawn beyond the end of its
set (2295 draws from the 16 ways of the data store, a set has 14), which is an entry of the next set;
`refilled`, the addresses whose fill found them tagged, because a write-back came first and `handle_fill`
does not look. Until then the stores are consistent; the theorems say exactly that.

The shipped `mirage/inc/cache.h` has `MIRAGE` 0 (106); the module models the code under `MIRAGE` 1,
`INTERCONNECT_ON` 0, which is the design the copy exists for.

## 3. Runs

| Run | Question | Result |
|---|---|---|
| `llc_tight` | do the stores stay consistent when every set fills up and DRAM refuses? | holds, 224 927 states |
| `llc_live` | do misses and write-backs complete? | holds, 7 318 states |
| `llc_owner` | do the asserts of `remove_tag_entry_from_block` hold? | violated |
| `llc_filldata` | does the assert of `handle_fill` on the tag it finds hold? | violated |
| `buckets_full` | counters, bound, refinement, termination of spills | holds, 403 601 states |
| `buckets_observed` | are initial insertions left out of the statistics? | violated |
| `queue_ring` | is the ring the queue its callers expect? | holds, 484 states |
| `dram_small` | do banks, tables and counters stay consistent; is everything served? | holds, 92 527 states |
| `hier_pass` | do L1D and L2C agree on who waits for what; does everything drain? | holds, 355 455 states |
| `hier_dirty` | does a store always make its block dirty? | violated |
| `ooo_pass` | is the out-of-order core a sequential machine, and does it get to the end? | holds, 230 468 states |
| `mirage_pass` | do the stores stay consistent when every set fills up? | holds, 518 996 states |

Bounds.

* `llc_tight`: five addresses that share the one set of both skews, two ways each, so four tag entries
  and five addresses: both candidate sets fill and evictions occur. Two blocks, so four tags compete for two places
  and tag-only entries are frequent; threshold 2, which fills reach often; MSHR, WQ and DRAM queue of one entry, so that each is full half of the time. Symmetric in addresses and blocks: the one-set skew function is
  the same for all addresses, and no definition names one. `DirtyWrittenBack` is an action property that quantifies over all addresses, so symmetry keeps it.
* `llc_live`: three addresses over two sets that overlap differently in the two skews; no symmetry,
  as liveness requires. One block, so every fill displaces; threshold 1.
* `buckets_full`: two buckets per skew with threshold 2 and eight balls, so the balls just fit: every
  throw may have to wander to the only free place, and the bound is met with equality. The code's
  ratio is 9 balls to a threshold of at least 9, of which this is the tightest case.

* `queue_ring`: a ring of four and three addresses, so that head and tail take every position, the ring is
  empty, full and wrapped, the removed entry is on either side of the wrap, and addresses occur twice.
* `dram_small`: four addresses on two banks with two rows, a read table of two and a write table of
  three, both watermarks 2: two requests compete for a bank, hit or miss its row, both tables fill
  up, and the mode changes for each of its four reasons with requests scheduled in the old mode.

* `hier_pass`: two addresses compete for the one way of each cache, so that fills displace dirty blocks
  which come back as write-backs while their address misses again; queues of one entry and one MSHR are full most of
  the time, a prefetch queue of two below lets prefetches be merged and overtaken. The invariants are proved for every
  size; the run is for `Drains`, which is a question of full queues.
* `hier_dirty`: the same with two MSHRs and more room below.
* `ooo_pass`: every trace of four instructions from four kinds, which load two addresses at once, store what
  another loads, do both, or mispredict on two registers. Three ROB entries, so that the ring wraps inside
  the trace; two LQ entries, which one instruction fills; one SQ entry, so that stores queue for it
  in program order.
* `mirage_pass`: three addresses over two sets of one way in each skew, which overlap differently; two
  blocks; ways drawn from two, so that half of the draws from a full set stray. Symmetric in blocks.

`CHECK_DEADLOCK FALSE` is set for the two LLCs, because a failed assert really stops them, and for the core,
which stops at the end of the trace; that it does not stop earlier is `TraceRetires`. The bucket
experiment, the queues and the upper caches must not stop.

Fairness.

* LLC. `operate()` tries a fill and a write-back in every cycle. Either may do nothing because the random
  victim is dirty and the DRAM queue full; the next cycle draws another. Hence strong fairness of each
  handler, for fills per address: if it can succeed again and again it does. The DRAM queue is only
  assumed to get room when it is full (`RoomReturns`). Weak fairness of `ReturnData` says that DRAM
  answers every read; the controller alone guarantees it only when requests pause (`ReadsAnswered`), and
  they do because the cores' reorder buffers fill up with what waits.
* Upper caches. `operate()` of both runs in every cycle and the LLC answers each request once: weak
  fairness of `Served`, the disjunction of all handlers and answers. That is enough for `Drains`, which starts once
  requests stop: every step of a handler then brings the end nearer. No handler is assumed to win over another.
* Core. The main loop calls every stage in every cycle, and caches and TLBs answer: weak fairness of `Next`.
  A trace is finite, and every step of an instruction is towards its retirement.
* Experiment. Weak fairness of `Next` (the program runs on) and strong fairness of `SpillPlace` (a bucket
  with room is not missed by random draws for ever).
* DRAM controller. `main` calls `operate()` in every cycle: weak fairness of `Operate`. Every latency is
  finite and cycles advance, so a gate that is shut opens: strong fairness of `ScheduleOne` and
  `ProcessOne`, which are tried in every cycle but may find the bank or the bus busy.

## 4. What disagrees with the code's own comments and asserts

1. **Refused evictions are ignored** (`llc_owner`). With both candidate sets full, `handle_fill`
   evicts the chosen entry by `remove_block_based_on_tag_array`. When the block is dirty and the DRAM
   write queue full, that function returns 0 (2566) and nothing else, and the caller overwrites the
   tag. The block stays valid and dirty, with a pointer to another address's tag; drawing it as
   a victim later fails an assert. `MismatchOnlyAfterRefusal` shows that nothing else can cause this.
2. **A write-back can overtake a fill** (`llc_filldata`). While a miss of `a` is in flight, a
   write-back of `a` installs it with data; the fill then fails the assert at 195. `NoOvertaking` shows
   that one L1D above one L2C is protected from the same order, because `add_rq` answers from WQ. The LLC
   has several caches above it, and the L2C sends write-backs of blocks the L1D has kept dirty: section 7.
3. **Initial insertions are counted** (`buckets_observed`). `init_buckets_done` is set after the
   first of the two calls of `init_buckets`, so throws of the second call enter `bucket_fill_observed`.

4. **A store can leave its block clean** (`hier_dirty`). "RFO marks cache line dirty" (623): `handle_fill`
   marks the block when its MSHR entry is of type RFO. A store that finds a load of its address in flight
   is merged into that entry, which stays LOAD (954-989). The store is gone from WQ and the block is
   clean; its eviction writes nothing back, so the write traffic counted is too low.

STA is said to be "required to execute store instructios properly without deadlock" (`ooo_cpu.cc` 69, 203). It does keep SQ from
a deadlock; section 2.6 tells how LQ can wedge the core all the same, and for which sizes and instructions it cannot.

`execute_store` asserts that a dependent load names this store as its producer (1321-1326). With an
instruction that stores to two places, one of them stored again by a younger instruction before the load,
the assert fails: TLC finds it as soon as the trace kinds hold a store to two addresses. The runs keep to
one store for each instruction, as most instruction sets do, and `ExecuteStore` takes the assert as a guard. The guard is
stricter than the assert in one case, which needs two stores as well: a load that has left LQ, whose slot is now that of another
load waiting for this store, passes the assert. That the assert holds for instructions with one store is proved (`StoreAssertAlwaysHolds`), so the guard hides nothing there.

Two further stops are part of the model and are not claimed to be wrong: a write-back that finds no free way
(`wb_no_free_way`, the assert at 1029) and `remove_random_tag` searching a skew without a candidate
(`random_tag_spins`). Both need a store far fuller than the design intends; small instances reach them. `MissCompletes` and
`WritebackCompletes` excuse a stopped program, so they say nothing of the search that never ends; no property does.

## 5. Proofs

All theorems are for every value of the constants (numbers of addresses, sets, ways, blocks, buckets,
balls, banks, sizes of queues) under the named assumptions `ConstantAssumption`, `BucketAssumption`,
`QueueAssumption`, `DramAssumption`, `HierarchyAssumption` and `MirageAssumption`, which TLC evaluates in
every run.

**MayaLLC.** The inductive invariant `IInv` is the conjunction of the types, `StoresInv`, `QueuesBounded`,
exact counting unless an eviction was refused, `ThresholdKept` and `MismatchOnlyAfterRefusal`.
`TagsBacked` alone is not inductive: displacing block `b` downgrades the tag `b` points to, and
without `OneTagPerAddress` another priority-1 tag could have lost its block. `OneTagPerAddress` in turn needs
`TagsInPlace`, since a lookup only searches two sets. The threshold needs no exact count: every path
that adds a tag-only entry first trims, or removes one. The proof has one lemma per handler; the two
writes they share (downgrade and trim) are lemmas about `tags` alone. Counting lemmas
(`CountAfterWrite`, `TrimmedKeepsCount`, `DowngradedKeepsCount`) relate each write to the number of
priority-0 entries.

| Theorem | States |
|---|---|
| `TypeCorrect` | `[]TypeOK`, with MSHR and queue bounds |
| `TagsAlwaysBacked` | `[]TagsBacked` |
| `TagsStayUnique` | `[]OneTagPerAddress` |
| `StoresAlwaysAgree` | `[]StoresAgree` |
| `ThresholdAlwaysKept` | `[]ThresholdKept` |
| `MismatchNeedsRefusal` | `[]MismatchOnlyAfterRefusal` |
| `DirtyAlwaysWrittenBack` | the action property `DirtyWrittenBack` |

**BucketModel.** `IInv` joins `TypeOK`, `CountsMatch`, `LoadBounded`, `OnlyHandOut` and `HandKnown` (which ball is in
hand in which phase). The counting lemmas say how the contents of buckets change when one ball comes,
goes or changes places with another, also within one bucket. The refinement is proved step by step:
a throw with room is a `Put`, a spill is a stutter until the ball is placed.

| Theorem | States |
|---|---|
| `BucketTypes` | `[]TypeOK` |
| `CountsAlwaysMatch` | `[]CountsMatch` |
| `LoadAlwaysBounded` | `[]LoadBounded` |
| `OnlyHandEverOut` | `[]OnlyHandOut` |
| `ImplementsPlacement` | `Spec => PlacementSpec` |

**PacketQueue.** Under `QueueAssumption`, for every size of the ring and every set of packets. The invariant is
`TypeOK` and `SlotsMatch`, which is inductive. The refinement shows for each operation what it does
to `Contents`: an addition appends, a removal takes the head, and a removal in the middle is
`RemoveAt` at the rank of the entry, by the cases of `Moves`.

| Theorem | States |
|---|---|
| `RingTypes` | `[]TypeOK` |
| `SlotsAlwaysMatch` | `[]SlotsMatch` |
| `RingIsQueue` | `Spec => QueueSpec` |

**DramController.** Under `DramAssumption`, for every number of addresses, banks and rows, every size of the tables and all
watermarks. The invariant joins all five state invariants: `BanksMatch` needs `IndicesFresh` to know that
the request processed is in service, `CountsExact` needs `BanksMatch` to know which banks a reset frees,
`ReadsTracked` needs `CountsExact` to know that a request with room finds an unused entry. One lemma
per step says first what the step does to each entry and bank, then what that does to each conjunct.

| Theorem | States |
|---|---|
| `DramTypes` | `[]TypeOK` |
| `BanksAlwaysMatch` | `[]BanksMatch` |
| `CountsAlwaysExact` | `[]CountsExact` |
| `IndicesAlwaysFresh` | `[]IndicesFresh` |
| `ReadsAlwaysTracked` | `[]ReadsTracked` |

**CacheHierarchy.** Under `HierarchyAssumption`, for every number of addresses and ways and all sizes of queues and
MSHRs. The inductive invariant `IInv` joins types, `Link(a)` and `Tracked(a)` for every address. `AnswersMatch` alone is not
inductive: that a prefetch of the L2C hits or ends says nothing of a read of the same address unless the
two are never queued together (`~(Read(a) /\ Ahead(a))`), and that a fill of the L2C may drop a queued read needs
that the L2C has no block of what it misses for the L1D. `RoomForMiss` is a counting argument: the reads
queued in the L2C are among what the L1D waits for, so RQ has room for one more whenever MSHR has. There is one lemma per
handler and, below them, lemmas on what each queue operation and each MSHR update changes.

| Theorem | States |
|---|---|
| `HierarchyTypes` | `[]TypeOK` |
| `AnswersAlwaysMatch` | `[]AnswersMatch` |
| `NeverOvertaking` | `[]NoOvertaking` |
| `LoadsAlwaysTracked` | `[]LoadsTracked` |

**MirageLLC.** Under `MirageAssumption`, which lets ways be drawn past the end of a set. `IInv` is the types with
`StoresMatch` and `LookupExact`, which is inductive: `PlaceKeepsStores` shows that removing the block's old tag, evicting
the tag's old block and installing the pair leaves every other pair alone, whether or not the two meet.

| Theorem | States |
|---|---|
| `MirageTypes` | `[]TypeOK` |
| `StoresAlwaysMatch` | `[]StoresMatch` |
| `LookupAlwaysExact` | `[]LookupExact` |

**OooCpu.** Under `CoreAssumption`, for every set of instruction kinds (any number of registers, loads and stores in
one), every length of the trace and all sizes of the buffer, the queues and the scheduling window. The
inductive invariant `IInv` says of each instruction that it has been `Entered` as its kind says, is `Staged` (its
progress flags fit together), has `Named` only younger instructions in its lists, is `Held` back by exactly the list
entries its register count counts, and of each of its loads that it is `Sourced`. `OperandsReady` is not inductive: it
follows from `Held`, which says that an instruction scheduled while the youngest older writer of a register it
reads has not completed is on that writer's list until the writer completes. `LoadSources` needs `NoStore`: a load sent
to the L1D has no older store to its address in the buffer, and none can enter behind it because the buffer fills
in order. The counters are proved by lemmas on what each action adds to and takes from the counted sets. The
refinement maps `Retire` to a step of `ProgramOrder` and every other action to a stutter.

| Theorem | States |
|---|---|
| `TypeAlwaysOK` | `[]TypeOK` |
| `OperandsAlwaysReady` | `[]OperandsReady` |
| `LoadsAlwaysSourced` | `[]LoadSources` |
| `WakeupsNeverLost` | `[]NoLostWakeup` |
| `OpsAlwaysCounted` | `[]OpsCounted` |
| `RetiresAsProgram` | `Spec => RetiresInOrder` |

**OooCpuProgress.** Two theorems with a hypothesis on the instructions, which the code does not check. `OneStore` and
`OneLoad` say that no kind stores to, or loads from, two places. ENABLED is out of the prover's reach, so `NeverStuck` names for the
oldest instruction the guards of the actions that can move it (`CanMove`), as `StoreAssertHolds` names the assert.

* *Store assert.* `Linked`: the list of a store holds only loads it is the youngest older store for, and
  a finished load has no such store left to execute.
* *Never stuck.* `PInv` adds `Opened` (an instruction is scheduled inside the window only, is looked at again while it has an operand
  to add, and is running once it has none) and `BranchPending` (a stall of fetch belongs to a branch of the buffer).
  `StoresInOrder` says that STA is the list, in program order, of the stores still to be added and that none of them is
  older than a store in SQ. `HeadMoves` goes through the stages of the oldest instruction. That its store finds
  room is `SqHasRoom`: no store is in SQ before it. That its load does is a counting argument,
  `LqHasRoom`: the loads in LQ belong to different other instructions of the window.

| Theorem | States |
|---|---|
| `StoreAssertAlwaysHolds` | `Spec /\ OneStore => []StoreAssertHolds` |
| `CoreNeverStuck` | `Spec /\ OneLoad /\ OneStore /\ SchedulerSize <= LqSize => []NeverStuck` |

The wedge of section 2.6 shows that the hypothesis on the sizes is needed. That an enabled step of the oldest instruction leads to its
retirement is the liveness property `TraceRetires`, which TLC checks.

Only model-checked: liveness (`MissCompletes`, `WritebackCompletes`, `RoundsGoOn`, `RoomReturns`, `ReadsAnswered`, `Drains`,
`TraceRetires`), which is beyond the prover. Every invariant, action property and refinement the passing runs check is proved.

## 6. Not modelled, and why

Timing, power, statistics and printing have no influence on the properties. CEASER-S remapping is
compiled out. Prefetchers and branch predictors are third-party code that proposes addresses or
one bit. Ciphers are pure functions. The tracer and the scripts have no state. The programs under
`maya/scripts` and `mirage/scripts` are workloads, not part of the system; they and the second copies of the files both
simulators share make up most of the lines no definition is mapped to.

* **Ring.** The shipped configurations set `INTERCONNECT_ON` to 0.
* **L1I and TLBs.** The same class; what is special to them, the two sides above one L2C, needs requests with an
  `instruction` flag. `handle_fill` answers only the side of the first request (671), so a line shared by
  code and data is the interesting case.
* **Virtual memory** (`main.cc` 693-878). Page swaps happen when DRAM is full, which no shipped run reaches. They clear
  the caches of the faulting core only (773-781), by `invalidate_entry`, which looks at blocks and at no queue or MSHR
  and leaves the Maya tag behind; `recent_page`, which should spare recently used pages, is searched (735) and never
  filled.
* **Replacement policies.** With `MAYA` no victim of the LLC is chosen by them; in the upper caches the
  models let any valid way be the victim, which covers every policy.

## 7. Plan

In order; each module is written so that it can be proved about (no recursive operators, constants
with named assumptions).

1. A measure of the oldest instruction's progress that every step of it lowers, so that `CoreNeverStuck` says how
   many steps it needs and not only that it has one.
2. The L1I beside the L1D, and the LLC below the L2C: requests with an `instruction` flag, and the
   question whether a write-back of `a` can reach the LLC while the LLC has an MSHR for `a`.
3. `Ring`; paging with the main loop's deadlock watch.
4. An abstract cache (a map from addresses to dirty or clean copies) that `MayaLLC` implements.
