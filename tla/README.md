# Models and proofs for ece1718

The repository holds three assignments of a computer-architecture course, each a
few hundred lines of C++ inside a large vendored framework:

| part | own code | vendored around it |
|---|---|---|
| A1, IR detector | `simplescalar-a1/ir_detector.cpp`, `.h`, `ir_counters.h`, changes in `sim-safe.c` | SimpleScalar 3.0 |
| A2, TAGE predictor | `cbp/sim/predictor.cc`, `.h`, changes in `main.cc` | branch prediction contest kit |
| A3, dead-block and prefetch simulator | `a3/.../ACA/cacheSim`, `dbpAndPrefetch`, `dbpSim` | Pin kit |

This directory models all three, and of the code around them the parts whose
correctness is a matter of order and interleaving: SimpleScalar's event queue, and
the locks and the lock-free map of the Pin kit. TLC checks the models; TLAPS
proves what matters most about each. Line numbers below are those of
the file named last.

## 1 Inventory

**IR detector** (`ir_detector.cpp`). State: rename tables for registers and
memory words (valid, referenced, producer's window slot, the other output of the
same instruction), a branch buffer (target, constant so far, instances in the
window), a circular FIFO of the last W retired instructions with a count of
consumers each, the position of its middle, counters, removals per pc. One operation,
`process_new_instr`, called once per retired instruction by `sim_main` of
`sim-safe.c`; it classifies, updates the tables, runs the recursive
`_decrement_consumer` up to three times, evicts and enqueues. Hard: indices that
outlive the entry they name; tables updated for the new instruction before the
old one leaves the same slot; a recursion over a graph that may have cycles.
Correct if: an entry names the latest writer, its flags say who read it, the
branch buffer counts what the window holds, and everything counted as
ineffectual is.

**TAGE predictor** (`predictor.h`, `predictor.cc`). State: bimodal table, tagged
tables (counter, tag, usefulness), folded histories, global and path history, a
bias, and members that carry the lookup from `GetPrediction` to
`UpdatePredictor`. Hard: incremental folding against the history it stands for,
allocation against aging, provider against alternative. Correct if: the fold is
the fold, a useful entry is not replaced, usefulness is earned, a misprediction
changes something.

**CBP driver** (`main.cc`). State: marking table `myBtb`, class statistics. One
loop over the records of a trace (`bt9_reader.h`), calling the predictor between
a read and an update of its own table. Correct if: a mark says which directions a
branch has taken, and the statistics add up.

**Cache simulator** (`cacheSim.cpp`). State: per cache the sets in LRU order, the
last two misses of each set, counters. One operation, `access`; a miss calls the
parent's `access` for the dirty victim and for the block, then prefetches.
**Dead-block and prefetch tables** (`dbpAndPrefetch.cpp`): burst traces (shared
by both L1 caches), reference counts, pair correlations. Hard: nested calls that
disturb the sets on the way, prediction bits that are set, refuted, replaced and
evicted, shared tables. Correct if: L1 is LRU, every miss, prediction and
prefetch is accounted for once, the assertions hold.

**Pintool** (`dbpSim.cpp`): analysis routines called by the traced program's
threads, the global `WriteAddr` between `RecordWriteAddr` and `RecordMemWrite`.
Hard: threads, predicated stores. Correct if: a store reaches the address it was
made to, which can be said of programs of one thread only: nothing keeps two threads'
callbacks apart.

**Event queue** (`eventq.c`, vendored). State: pending and free lists of event
descriptors, the next id. An action may be a callback that queues, removes and
executes events while `eventq_execute` or `eventq_service_events` stands in the
middle of the list. Correct if: events are served in order, each once, and
descriptors are not lost.

**Locks of the Pin kit** (`sync/`, vendored). A futex mutex, a futex semaphore and
the reader-writer lock made of them. Hard: lost wakeups, sporadic returns of
`FutexWait`, a count that encodes readers, waiting and active writer. Correct if:
readers share, a writer is alone and not overtaken, and every call is served.

**Lock-free map of the Pin kit** (`atomic/fixed-multimap.hpp`, vendored). Entries
with a key word that is available, reserved or a key, a hint, a high water mark
that is raised by `Add` and lowered by `Remove`. Hard: entries reused under a
loop, a mark lowered while another thread adds. Correct if: an entry keeps the
object it was added with, and a loop misses nothing that is there all along.

The rest (memory and functional units of SimpleScalar, options, statistics,
expression parser, debugger, ISA definitions, BT9 parser, scripts, gzip streams,
the other headers of the Pin kit) is listed in section 6.

The three programs are sequential: a retired instruction, trace record or memory
access is handled to its end before the next. What interleaves in A1 to A3 are
inputs, instructions that overlap in a window, and, for the pintool, the threads
of the traced program. The event queue is sequential too, but re-entered by
callbacks. The locks and the map are concurrent, and are modelled one atomic
operation at a time.

## 2 Modules

| module | what it is |
|---|---|
| `IrDecrement` | the consumer cascade as a least fixed point: the result of the recursion of lines 185-212 without its order |
| `IrDecrementDfs` | the recursion itself, turn by turn, on a stack of calls; its result is compared with the fixed point |
| `IrDetector` | the detector; `Retire(i, removed)` is one turn of `sim_main` with all of `process_new_instr` |
| `IrHistory` | the detector with the instruction each slot was given, and the invariants |
| `IrVerdicts` | abstract: a sliding window and what it justifies to be counted |
| `IrRefinement` | the FIFO read from its oldest entry on implements `IrVerdicts` |
| `IrDecrementDfsProofs`, `IrHistoryProofs` | proofs |
| `Tage` | `GetPrediction` and `UpdatePredictor` |
| `CbpMain` | the driver: `Predict`, `Resolve`, `Unconditional`; composes `Tage` |
| `CbpHistory` | the directions each branch took, what each entry earned; the properties |
| `CbpHistoryProofs` | proofs |
| `CacheSim` | `access` with every nested call as one step, over two L1 caches and an L2, and the tables of `dbpAndPrefetch` |
| `CacheHistory` | which blocks were used after which, misses that followed misses; the properties |
| `LruCache` | abstract: a cache holds a block while fewer than `ways` others of its set were used since |
| `CacheProofs` | proofs |
| `DbpSim` | the pintool's callbacks as steps of the traced program; composes `CacheSim` |
| `DbpSimProofs` | proofs, on top of those of the caches |
| `EventQueue` | `eventq.c` with callbacks as a stack of calls that are not finished |
| `AbstractEventQueue` | abstract: a limited set of events, each of which leaves it once, the earliest due one first |
| `EventQueueProperties` | the refinement mapping and the account of descriptors |
| `EventQueueProofs` | proofs |
| `FutexLock` | the simple lock: `_lock`, `FutexWait`, `FutexWake`, spinning |
| `FutexSemaphore` | the semaphore; extends the lock because both use the same futex |
| `RwLockFutex` | the reader-writer lock over both, and threads that call it in any order |
| `AbstractRwLock` | abstract: readers, the writer next in line, whether it writes |
| `RwLockProperties` | what the count means, no lost wakeup, the refinement mapping |
| `RwLockProofs` | proofs |
| `FixedMultimap` | `Add`, `FindIf`, `Remove`, `RemoveIf`, `ForEach` as steps on the shared words |
| `MultimapHistory` | the elements a call may not miss; the properties |
| `MultimapProofs` | proofs |
| `MCIrDetector`, `MCCbp`, `MCCacheSim`, `MCDbpSim`, `MCEventQueue`, `MCRwLock`, `MCMultimap` | small instances |

In most modules a short operator with a comment such as "the decrement forgotten",
next to the one the code has, is a plausible slip of that line;
no action uses it, and substituting it makes a run fail. These variants show
that the properties can tell.

### Correspondence and abstraction

*IR detector.* A retired instruction is a record of what `sim_main` passes:
class, registers read, words loaded, locations written, which of them keep their
value, pc and next pc. The two rename tables are one function over disjoint
locations; `DNA` is the value 0. `WellFormed` is what the PISA
definitions guarantee: stores write memory only, a second output comes with a
first and differs from it (HI and LO count as one pair). `window` and
`consumer_count` are one array of the code. The value comparison of
`_nmod_check` is the input `kept`; for floating-point writes either outcome is
possible, since the code compares, for registers 32..63, an element beyond the
array with itself (line 134). A source index is taken from the table whether its
entry is valid or not (line 359), as in the code, and the double test of
`mem_out1` (lines 197-203) is kept.

In `IrDecrementDfs` a frame of the stack is an activation of `_decrement_consumer`: whose
`src_idx` it was given, and the index `i`. `Skip`, `Lower` and `Drain` are a turn of its
loop, `Drain` up to the recursive call, `Return` leaves it. `live` are the slots for which
the test of lines 199-202 fails; neither it nor the indices change in a cascade.

*TAGE.* The index and tag hashes are parameters `IndexOf`, `TagOf` of the
histories the code hashes, so that the theorems hold for any hash. A register of
bits is a function from bit numbers to 0 and 1, so that `Fold` is lines 65-71
bit by bit. `path_history` has one bit more than `LOG_TAGGED`, from the
precedence of the `TRUNCATE` macro's operators. If the provider has no
alternative and the bias is not negative, line 30 reads `tagged_table[NUM_BANKS]`,
past the end; the model takes either outcome. The bias update follows the code's
nesting, where the `else` of line 62 belongs to the inner `if`.
`PREDICTOR()` leaves `provider_idx`, `alternative_idx`, `alternative_pred` and
`path_history` uninitialized. Nothing reads the first three before `GetPrediction`
sets them; the last is read by the first lookup (predictor.h:153), and by more of them
until an update has truncated it, so it starts as any value of an `int` of `IntBits` bits.

*Caches.* A block is its number; its set is the number modulo the number of sets
(a power of two above one: `LOGB2C` aborts on one), and within a set the number
stands for the tag. Both levels have the same block size, as by default. A set
is a sequence, least recent first, like the code's vector. `refCount` is kept for
the L2 only: an L1 counts and never looks. The model keeps that a read hit
clears the dirty flag (line 84), that a prefetch overwrites a dead block without
writing it back, that it does not look whether the set already holds the block,
and that the shift of `update_tc_tbl` leaves only the set index of the older tag.

*Pintool.* What `Instruction` inserts for an instruction is a sequence of calls of
analysis routines; the two inserted with a predicated call are left out of an
execution whose predicate is false. A call is one step. This is exact for one
thread, and the run and the theorems are about one; of several threads the calls may
overlap in the middle of an access, since neither Pin nor the code keeps
them apart, and that is left out.

*Event queue.* The pending list is a sequence, of the free list only the length
matters. A callback is a frame on a stack: while it runs, the program may make
further calls, and the interrupted function goes on when it returns. Two rules
are the caller's, and the code does not survive their breach: a callback does not
call `eventq_service_events`, and it does not remove or execute the event that is
being served (its descriptor would be on the free list when line 265 follows its
`next`). A third rule is the parameter `LaterOnly`: while an event is served,
callbacks queue only for times after its own. `eventq_init` is called once.

*Futex locks.* One action per atomic operation on a shared word, with what the
thread does alone in between attached to the operation before it. `FutexWait`
compares and sleeps in one step, as the kernel does; a sleeper may return
sporadically; `FutexWake(.., 1)` wakes any one sleeper. The spin loop is bounded
by `SpinIterations`, as in the code by its parameter.

*Multimap.* One action per operation on a shared word, sequentially consistent, as
the barrier arguments of the code are meant to make it. The load before the
compare-and-swap of `AddAt` is left out: an entry that is not available at either
is passed over. `Find` is `FindIf` for one key. An object is stood for by the key
it was added with, which is what tells a wrong object from a right one.

## 3 Runs

`CHECK_DEADLOCK FALSE` stands where the input is bounded (`MaxInsts`, a program's
`length`, `MaxRecords`, the number of calls) and the run ends with it; `ir` and `eventq`
check deadlock.

| run | instance | shows |
|---|---|---|
| `ir` | W = 4; 6 instructions of 8 kinds over registers, one- and two-word accesses; 7 branches; 5 instructions of every class; 6 of a mixture | `TypeOK`, `OrtLatestWriter`, `ReferencedExact`, `ProducersOccupied`, `DiscountedBeyondSlot0`, `BtbCountExact`, `ConstTargetSound`, `RemovalsAccounted`; `VerdictsJustified`: refinement of `IrVerdicts` |
| | the recursion alone, on windows with two occupied slots beside slot 0, counts to 2, two operands each, cycles included | `VisitIsFixedPoint`: the recursion leaves the fixed point; `EveryStepShrinks`: it ends, at most W calls deep |
| `cache` | four command lines, see below | counters, traces, LRU order, demand entries; with the prefetcher off, L1 implements `LruCache` |
| `tage` | 2 branches, 2 banks of 2 entries, histories of 3 and 1, colliding hashes, 7 records | everything said of predictor and driver |
| `rwlock` | 3 threads, 4 calls, one spin; sporadic wakeups at any time | `CountMeans`, `LockSleepersRemembered`, `WriterSleepRemembered`; refinement of `AbstractRwLock`; `EveryCallServed` |
| `eventq` | 4 events of 3 kinds at 3 times, callbacks 2 deep; `LaterOnly`, no limit | refinement of `AbstractEventQueue`, `DescriptorsAccounted` |
| `multimap` | two entries, 3 calls: of 2 threads on a full map, with one key and with two, and of 3 threads on an empty map | `BelowHighWater`, `EntriesIntact`, `ScansComplete`, `EveryCallReturns` |
| `ir_slot0`, `ir_latest`, `cache_pair`, `tage_new`, `pintool_store`, `eventq_lost` | the same modules, `DbpSim` with one thread, `EventQueue` without `LaterOnly` | six places where a comment and the code disagree (section 5) |

A run whose module has a variable `run`, `program` or `instance` checks several instances at
once: its initial states choose one of a set of command lines or instruction
sets, and nothing changes it afterwards.

Why the bounds are enough.

*IR.* A window of W slots wraps, and every index that can go stale does so, within
W + 2 instructions; three instructions make a chain of producers, and four slots
leave room for two consumers of one producer. Branches are alone for seven
instructions, so that an entry is left and entered again with another target. The
recursion of the cascade is checked in behaviours of its own, on windows of any
shape rather than on reachable ones. Slot 0 holds nothing there, because the code never
looks at it, and is named by the caller's operands only; the last slot is empty; the
other two have up to two consumers and two operands each, in every way, cycles
included.

*Caches.* (1) Two-way L1s, instructions and data in shared blocks, 5 accesses,
prefetcher off. (2) and (3) A direct-mapped L1 over a two-way L2, prefetcher
off and on, three blocks of one set, one of them written: 8 accesses reach a
RefCount+ prediction and an L2 prefetch into a dead place, 9 a refutation of
the prediction, and there are 10 and 11. (4) Three ways, four blocks in one set, prefetcher
on, 9 accesses; 8 reach prefetches that are used, useless, and twins of a held
block. `LruImplemented` is about (1) and (2).

*TAGE.* An `int` of three bits has one that the truncation to `LOG_TAGGED` + 1 = 2 bits
cuts off. Seven records let both banks be allocated, overruled, aged and replaced,
the bias become negative and positive, and histories of three bits lose bits, on
counters of two bits.

*Reader-writer lock.* Three threads can be a reader, a writer waiting for it and a
second writer or reader behind the simple lock; the fourth call lets one of
them come again while the others sleep or are being woken.

*Event queue.* Three times give earlier, equal and later; with four ids a callback
can queue before, at and after other pending events, and a second callback, one level
down, can remove or execute what the first one queued.

*Multimap.* The initial map is what so many `Add`s leave. On a full map of two entries, which
two threads work on, three calls let a `Remove` lower the mark while
an `Add` raises it again, under a loop that must still see the element that stays
(the mutant that lowers the mark by a plain store makes `ScansComplete` fail); with
two keys an entry can be taken over by the other key between a look-up and the
removal. On an empty map three threads fill the entries at once.

That the results carry over to every size is what the theorems of section 4 add.

**Fairness.** A1 to A3 and the event queue are driven by their input and stop
with it: no fairness is assumed and no liveness claimed. For the locks and the
map each thread is weakly fair in its own steps: the operating system schedules
every runnable thread. A futex sleeper is not runnable and is not assumed to wake;
sporadic wakeups and new calls are not fair either. Two things go with this. The
step by which an owner releases the lock is among its fair steps, so
`EveryCallServed` says that a call is served if those before it let go. And
calls are bounded in number: a thread overtaken by ever new calls of the
others is not promised anything by a spin lock or by a retry loop, and none of the
comments promises it; what is excluded is a call that waits for nobody's next call,
that is a lost wakeup, a deadlock, or a retry loop that fails without anyone
else's success.

## 4 Proofs

All theorems hold for every value of the constants that satisfies the named
assumptions (`WAssumption`, `WindowsAssumption`, `CallerAssumption`, `LocsAssumption`, `InstrsAssumption`,
`MaxInstsAssumption`; `TageAssumption`, `HashAssumption`, `CbpAssumption`;
`CacheAssumption`; `EventQueueAssumption`, `NoEventAssumption`; `LockAssumption`,
`ThreadsAssumption`; `MultimapAssumption`), which
TLC also evaluates on the instances; those of the pintool have hypotheses of their own. They follow the usual argument: an inductive
invariant, its base case, one lemma per action, and a last temporal step.

- `TypeCorrect` (`Spec => []TypeOK`). `TypeOK` is inductive as it stands; the work is
  in `Decrement` and `Overwrite`, whose results stay natural numbers and slots.
- `RecursionCorrect`, `RecursionEnds`. `IrDecrementDfs` tests and changes the counts in
  the order of the code, so that an inner call sees what its callers have done so far.
  The invariant `DfsInv` books each loss on an operand: an entry has lost as many
  consumers as operands naming it have been gone past by the loops of `Called`, those
  that lost their last consumer (`LossInv`); these lie in every closed set
  (`LeastInv`), because a further call is made only when the operands passed suffice to
  drain the entry; and each call in progress is for another one of them
  (`StackInv`). When the stack is empty no operand is left, so that `Called` is closed
  and least. `Work`, four per entry with consumers, one per operand left and one per
  call, falls with each step: a further call adds a frame and three operands, the
  operand that led to it is gone and so is the last consumer of the entry. That slot 0
  is never called for bounds the depth by W.
  The theorems are about any set of windows within the types, hence about all
  calls the detector makes (`DropsAreWindows`, from `TypeOK`).
- `LatestWriterCorrect`, `ReferencedCorrect`, `BtbCountCorrect`,
  `ConstTargetCorrect`, `ProducersOccupiedCorrect`. None is inductive alone: that
  an entry names the latest writer depends on which slot is oldest. `HistoryInv`
  adds `WindowShape` (the FIFO fills from slot 0 and stays full, so that the slot
  being reused is the oldest) and `PastMatches` (an entry holds the operands of
  the instruction history remembers). Each property is then preserved given
  `HistoryInv`; the lemmas about `Age` reason on the ring once for all.
- `RemovalsCorrect`. The removals are counted as a set of pairs of a pc and a number;
  a step adds one pair per removal: the pc of the instruction removed on entry and the
  pc of an ineffectual branch that leaves, which may be the same.
- `VerdictsRefinement` (`HSpec => VerdictsJustified`). `recent` is the ring read from its
  oldest slot on: `RingOrder` says that the order of positions is the order of ages,
  `RecentStep` that an instruction appends to the window and drops its first
  entry. What is called unreferenced maps one to one to unread writes of the window,
  hence the counts. `HistoryInv` does not suffice for this: `PairMatches` adds that
  a valid entry's `ort_pair` is the other output of the instruction that wrote it, since
  a write with a second output is not to be counted.
- `DiscountedCorrect`. Counts only have to be bounded from above: `CountsCovered` says
  that no count exceeds `LiveUses`, the register operands of instructions not dead that
  take their value from the entry; when all consumers are dead there are none. A new
  instruction adds as many uses as it adds to the count (`UsesCounted`). An instruction
  dies only when its value is overwritten unread, and then `Decrement` takes at least
  its operands off the counts of their producers, whatever the cascade takes besides
  (`DeadStep`, `DropCovers`); the two outputs of one instruction may kill two. That the
  death is noticed needs `WritersKept`, the converse of `OrtLatestWriter`, which holds
  only until something leaves the window: hence the bound `sim_num_insn <= W` of
  the property, and divergence 2 of section 5.
- `CbpTypeCorrect`. Whatever `int` the path history starts as, it has its width from the first
  trained branch on. Includes that the decrement without a lower bound
  (`predictor.h`:201) never leaves 0..3, because it happens only if all longer
  entries are useful, and that no lookup leaves the tables; it rests on lemmas
  about `FirstBank`, `Saturate` and `Fold`.
- `MarksCorrect`. Between two records the mark is a function of the directions
  seen; while one is processed, it lags behind. `MarksInv` says by how much, from
  the class read before the mark was made.
- `UsefulnessCorrect`, `UsefulKeptCorrect`. `UsefulInv` bounds usefulness by what was
  earned; the action theorem uses that `FirstBank(Replaceable)` is its least
  element.
- `StatsCorrect`. Between the two halves of a record a new branch has been seen
  and not counted; `StatsInv` carries that, and the seen branches are counted as a set.
- `MistakesCorrect`. `LookupInv` says that what the predictor saved at the prediction
  is still what its tables and histories give when it is trained; the case split
  is then that of the code: allocated, aged, or no longer bank to allocate in.
- `FoldsCorrect`. Bit j of a fold is the parity of the set of history bits at the places
  congruent to j. One branch moves that set to the place before, drops the bit that leaves
  the history and adds the new one; that the code's shift, exclusive or and
  out-point do just this is arithmetic of quotients and remainders, and holds
  for every length and width.
- `CacheTypeCorrect`, `TraceKnownCorrect`, `DemandEntryCorrect`, `MostRecentCorrect`,
  `WaysCorrect`. An access is one step of the model but a tree of calls of the
  code, and so is its proof: `Step(r, h, g, c, s)` says what any part of an access
  keeps that works on set s of cache c (the state is well formed, the other sets
  are as before, no block is forgotten by the trace table), it composes
  (`StepTrans`), and there is one lemma per function: hit, fetch, eviction,
  prefetch, the accesses of the parent. `WF` is what they need of each other: a
  set has at most one demand entry for a block and only blocks of its own, the last
  misses of a set are of that set, and so are the followers in the correlation
  table, without which a prefetch could put a block into a foreign set.
- `MissesCorrect`, `PredictionsCorrect`, `PrefetchesCorrect`. `Books(h)` relates the counters
  of each cache to totals over its entries: all of them, those predicted dead, those
  prefetched and not referenced. It holds between any two of the nested calls, and
  each function of `access` has a lemma that says it keeps it, from how the totals change
  when one entry of one set is replaced, moved or dropped. It is not inductive without
  `Fresh`: the most recent block of an L1 set is not predicted dead, or the burst
  predictor could count the same prediction twice.
- `LruRefinement` (`CHSpec => LruImplemented`). For the runs without prefetcher the
  invariant is `Ordered`: each L1 set lists its blocks in the order of their last use,
  and any block of the set that was used and is gone has a full set of later ones in
  its place. With the counting of a block's later rivals this gives that the set holds
  what `LruCache` says (`LatestAreIn`), and `AccessBlocks` that a miss in a full
  set costs one block and nothing else costs any.
- `CachesUnderPintool`. What holds of the caches for one access after the other is kept
  by each access (`AccessInv`, `AccessKeepsBooks`), whatever block, pc and kind it has;
  so it holds for the accesses the callbacks of a program of one thread make. It takes that
  `WriteAddr` is always a block, block 0 before the first store, and that the calls
  left to make are well formed (`DInv`). Three hypotheses are stated in the theorem: there
  is one thread, `Insts` is a subset of `Inst` and 0 is a block. Of several threads, whose
  accesses may overlap, nothing is claimed.
- `UnpredicatedStoresRecorded`. For one thread whose stores are not predicated
  `StoresRecorded`, which `pintool_store` refutes in general, does hold. `StoresInv` says that
  each block has been written as often as stored to, but for the one store still on its
  way: `RecordMemWrite` is the last call left, the call before it is the only
  `RecordWriteAddr` (`StoreOrder`), and once that one is made `WriteAddr` is what it said.
- `EqTypeCorrect`, `QueueRefinement` (`EqSpec => QueueImplemented`), `DescriptorsCorrect`.
  `QueueInv`: the list is sorted by time, of events due together the last queued
  first, no id occurs twice, and of the calls on the stack only the outermost can be
  `eventq_service_events`, whose event is still in the list, while those of `eventq_execute`
  have left it. Insertion, unlinking and the cut up to the event served each keep the
  list sorted (lemmas on sequences); with `LaterOnly` nothing
  that is queued while an event is served goes before it, so that it is still the first
  and unlinking it takes nothing along. `QueueRefinement` has two hypotheses: `LaterOnly`, without
  which events are lost (run `eventq_lost`), and `max_events` = 0, since the limit
  is not kept (section 5); `DescriptorsCorrect` has the first of them,
  `EqTypeCorrect` none. That the event served is still there to be unlinked, which the
  type invariant needs, comes from the same invariant.
- `RwTypeCorrect`, `CountCorrect`, `WriterSleepCorrect`, `LockSleepersCorrect` and
  `RwRefinement` (`RwSpec => Rw!ASpec`). The invariant says who holds the simple
  lock, that a writer holds it from the moment it is next in line until it
  releases, hence at most one claims; that the count is the number of readers less the
  claims (by adding and removing one element of a finite set at a time);
  and what the semaphore's word says while that writer sleeps. The refinement then
  needs one case per atomic operation: most stutter, the last reader's decrement
  and the writer's read of the count decide. `DeadlockFree` joins the two properties
  about sleepers: whoever sleeps for the simple lock has an owner or a waker, that owner
  may be the writer asleep on the semaphore, and for it a reader or a waker is
  awake. So some thread in a call is at a place other than a `FutexWait` that
  blocks, and at all of those the next step waits for nobody. That the steps are then
  taken, and every call is served, is `EveryCallServed`, checked by TLC.
- `MapTypeCorrect`, `MarkCorrect`, `EntriesCorrect`, `LoopsCorrect`. The mark may be
  lowered because the thread that does so has the entry just below it
  reserved and the compare-and-swap fails if anyone has gone above. `LocalsFit` says
  what a thread's local variables, read from shared ones some steps ago, still say
  of them; `KeptFit` where the elements lie that a loop may not miss: what is behind its
  index it has visited, what is ahead is below the mark it read when it began,
  whatever happened to the mark since. `MapInvariant` joins them with the properties.

Only model-checked: liveness under fairness, `EveryCallServed` and `EveryCallReturns`,
which is out of the prover's reach. The inductive invariants `QueueInv`, `Ordered` and
`CountsCovered` with `WritersKept` were model-checked on the instances of the runs `eventq`,
`cache` and `ir` before they were proved.

## 5 Where code and comments disagree

Shown by a run:

1. `ir_slot0`: `_decrement_consumer` tests `p_indices[i] > 0` (ir_detector.cpp:189)
   where 0 is a slot; the producer in slot 0 keeps its consumers for good. In
   the other slots the rule holds (`DiscountedBeyondSlot0`, proved).
2. `ir_latest`: eviction (ir_detector.cpp:527) cannot tell the evicted
   instruction's table entry from the one the new instruction has just made,
   because both name the same slot; the new entry is lost. What stays
   true is that no *valid* entry is wrong (`OrtLatestWriter`).
3. `cache_pair`: the correlation index (dbpAndPrefetch.cpp:130) depends on the
   last miss alone.
4. `tage_new`: whether to trust the provider is decided on the alternative's entry
   (predictor.cc:30). The alternative is not trained while the
   provider is, so a branch that always goes one way can stay mispredicted; that
   a constant branch is learnt in the end is therefore no property here.
5. `pintool_store`: `RecordMemWrite` is not inserted with a predicated call
   (dbpSim.cpp:159), so that a store whose predicate is false is still sent to
   the L1-D, at the address of an earlier store. One thread is enough; with
   several, `WriteAddr` is shared as well, and a store can take another thread's
   address.
6. `eventq_lost`: an event that a callback queues for a time not after that of the
   event being served goes in front of it, and is lost when that one is unlinked
   (eventq.c:265), against "service all events in order of occurrance until and at
   NOW" (eventq.h:130).

Read while modelling, without a run:

- the floating-point comparison of an element with itself (ir_detector.cpp:134);
  source indices taken from invalid entries (:359); an instruction removed on entry
  counted again as transitively ineffectual when it leaves (:550);
- the bias that falls when the predictions agree (predictor.cc:56-63) against its
  comment; usefulness updated whenever the used direction differs from the
  alternative's (predictor.cc:81); `SAT_BITS` 3 with the bounds of four bits
  (predictor.h:26);
- dirty flags cleared by read hits (cacheSim.cpp:84); twins of a block made by
  prefetches, which is why `OneDemandEntry` speaks of demand fetches only;
- `eventq_event_count` is never incremented, so that `eventq_max_events` never applies
  (eventq.c:81), against eventq.h:104-105. `AbstractEventQueue` has the limit; that
  `EventQueue` implements it is checked and proved for `max_events` = 0 only, which
  means no limit, and is false as soon as a program exceeds another one;
- `Remove` of the map is "guaranteed to remove an element if the map contains a match
  at the start" that no one else removes (fixed-multimap.hpp:228-230), but gives up
  when another thread wins the entry it found (:365), although a second entry may have
  the same key. `ScansComplete` says of `Remove` only what holds when its loop runs
  to its end; `ForEach` also calls its function for elements added meanwhile,
  against fixed-multimap.hpp:277-278;
- `IDSET::GetID` (idset.hpp) numbers the ids of its words four apart instead of 32
  (`sizeof` counts bytes), so that with more than 32 ids two words share numbers,
  against "an ID that is not currently in use".

## 6 Not modelled

- `memory.c`, `resource.c`: sequential; a page table with move-to-front buckets and
  a pool of functional units no simulator of the repository asks for.
- The stacks `LIFO_CTR`, `LIFO_PTR`, `FIXED_LIFO` and `IDSET` of `atomic/`: next in
  the plan. `Reset`, `Initialize`, `IsSet`, `TimedWait` of `sync/`, which the reader-writer
  lock does not call while it is used, and the variants for other hosts.
- `sim-safe.c` but for the call of the detector: executing an instruction is an input.
- Options, statistics, expressions, debugger, loaders, syscall emulation, ISA
  definitions, the BT9 parser, scripts, gzip streams, example pintools: input,
  output or generated tables with no state of interest.
- The Pin kit's other headers: declarations, enumerations (the XED tables alone are
  tens of thousands of lines) and wrappers of a closed binary.

The map covers nearly all of the code written for the three assignments and a
few per cent at most of the repository's 120 000 lines: the rest is vendored, and almost
all of that is in this section because it has no behaviour to model.

## 7 Plan

Done in this order: the detector with its cascade, its history invariants and
refinement, its proofs; the caches; predictor and driver with proofs; the pintool;
the reader-writer lock with its proofs and refinement; the event queue; the
lock-free map with its proofs; the proofs about the caches; the remaining invariants of
the predictor's driver, the caches' statistics, the detector's consumer counts, and the
refinements of `IrVerdicts`, `AbstractEventQueue` and `LruCache` as theorems; the
recursion of `_decrement_consumer` as steps, with its proofs; the pintool's proofs. Next:

1. `LIFO_CTR`, `LIFO_PTR` and `IDSET`: two ways around the ABA problem, one of
   which rests on the ids of `IDSET`.
2. `Memory`: the page table with its move-to-front buckets as an implementation of
   a map from addresses to bytes.

The runs are to stay few: instances of the same module that ask the same
question are merged before a new one is added.
