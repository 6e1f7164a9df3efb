# A TLA+ development of the processing-in-memory system

The repository holds the RTL of a processing-in-memory (PIM) device with
indirect addressing, its simulation, and the ONNX Runtime tree its software
stack is built on.  This directory models the device, the Verilog in
`src/vcs_sim/rtl`, and of the software stack the parts whose code is there: most
of it ships as headers without bodies, and what has logic in its headers is the
weight layout of the PIM provider, the thread pool that its kernels run on, and
the planner that lays tensors out in memory.

## 1. The system and its parts

The device sits on the path between a host and its memory.  The host (a CPU
with a scatter-gather DMA engine) reads and writes memory; the device watches
the traffic and computes on it.  There is no handshake and no back-pressure:
the device cannot stall the bus, and the host cannot ask whether the device is
ready.

| part | source | state | operations |
|---|---|---|---|
| FIFO | `ddr4_v2_2_4_axi_fifo.v` | shift register, up/down counter | write, read, both, reset |
| request path | `bank_top_GDDR6.v` 84-244 | command queue, read-data queue, head register, data register | one clock cycle per command on the bus; a result write bypasses the queue |
| descriptor unit | 290-615 | on/off, clear, next descriptor address, three argument registers, delayed indirect address, 8 slots with two ring pointers | switch, clear, load argument registers, load a descriptor, clear a slot, match an address |
| operand sequencer | 650-819 | three beat counters, four-cycle delay line, pointer to the current slot | count a beat, complete an operand |
| bank selection | 822-1010 | none | address to bank, broadcast, result multiplexer (only bank 0 is built) |
| bank pipeline | `bank_top`, 1042-1646 | configuration delays, vectors A and B, element counter, ALU stages, 16 accumulators, result register | load A, load B, write result, clear |
| ALU | 1648-2137 | none beyond the pipeline registers | truncated multiply, align and add, normalise |
| host protocol | `sim/testbench.v` | - | a session: control writes, descriptor reads, operand beats, status writes, switch off |
| weight layout | `providers/pim/math/gemm.h` | loop counters | `wgt_align_chunk` |
| run queue | `EigenNonBlockingThreadPool.h` 230-519 | array of elements with states, two indices, mutex | push and pop at both ends, revoke, empty |
| workers | 614-660, 965-980, 1051-1340 | status per worker, count of blocked workers, done, cancelled | schedule, steal, block, wake, cancel, destroy |
| parallel sections | 183-228, 521-569, 741-963 | section (active flag, worker index, finished tasks, current loop, workers in it), tag per thread | start, summon, run a loop, revoke, end |
| memory pattern planner | `framework/mem_pattern_planner.h` | allocations, list of blocks in use, buffer size | trace an allocation or a free, generate the pattern |

How they interact.  A command on the bus is tagged, in the same cycle, against
the slots and the expected descriptor address, and queued with its tags.  Read
data return through a second queue; the two are paired by position.  A command
leaves the queue when it is a write or when its data are there, and is
presented for one cycle to the descriptor unit (load or clear a slot, switch,
clear), to the sequencer (count a beat) and to the banks (operand beat).  A
write to a result operand is presented in its bus cycle and holds everything
else back.  The sequencer's pointer selects the slot whose INFO word configures
the banks, and moves four cycles after an operand is complete.

In the software stack, threads meet in three places.  A run queue belongs to one
worker, which uses its front without a lock, while others push, steal and revoke
at its back.  A worker without work goes to sleep under its own mutex, and
whoever gives it work looks at its status without it.  A thread that leads a
parallel section sends tasks to other threads' queues, and keeps the section and
its loops on its own stack while they run.

What is hard in the device.  Everything is a matter of cycles: tags computed on entry against
state that changes on exit, results that overtake operands, a pointer and a
configuration that lag, data sampled from a bus that may carry something else,
queues without overrun protection, a pipeline without a "done".  In the software:
lost wake-ups, tasks taken twice or not at all, stack objects that outlive their
users or the other way round, a pool that stops too early or never.  The list
under `hazards` in `PROJECT.json` names each one at its line.

Correctness, per part:

- FIFO: first in, first out; nothing lost, duplicated or reordered.
- request path: every command presented exactly once, in order, a read with its
  own data; bounded queues; no command waits for ever.
- descriptor unit: the slots hold exactly the descriptors that were read and
  not yet reported, in ring order, with the true operand addresses; a command
  is recognised for what it is and nothing else is.
- sequencer: no completion missed or counted twice; a beat meets its own
  descriptor.
- bank: a result consists of exactly the products of its operand beats.
- ALU: bounded error per product and per step; exact loading; zero is neutral.
- weight layout: every weight once, where the banks expect it, zeros elsewhere.
- run queue: a deque whose operations are atomic; "empty" is never wrong.
- workers: every task runs, no wake-up is lost, the pool stops when all is done.
- parallel sections: nobody touches a section or loop that is gone, a loop sees
  each index once, only own tasks are revoked, sections end.
- memory planner: tensors in use together do not overlap; no memory is wasted
  that the method could have used.

## 2. Modules

| module | models | state and actions |
|---|---|---|
| `BoundedQueue` | abstract: a bounded FIFO queue | |
| `AxiFifo` | the FIFO and a client that respects empty and full | registers under their names; `FifoWrite`, `FifoRead`, `FifoReadWrite`, `FifoReset` are clock edges |
| `InOrderService` | abstract: in-order, exactly-once delivery with a bypass | |
| `RequestPath` | the request path; the memory is external | one action per kind of bus cycle (`Idle`, `Read`, `Write`, `ResultWrite`), `Reset`; the FIFOs are sequences, which `AxiFifo` justifies |
| `DescriptorUnit` | control registers, descriptor file, indirect addressing, address matching | `Clock` is one edge of all its registers; no next-state relation of its own |
| `OpSequencer` | beat counters, delay line, pointer | as above |
| `DeviceTop` | the three clocked together, and the host | one action per host step; `Clock` composes `Path!Clock`, `Desc!Clock` and `Seqr!Clock`; `Reset` |
| `BankPipe` | bank selection, `bank_top` | `Clock` is one edge; one action per request for the bank, `Configure`, `Clear`, `Reset` |
| `BfloatAlu` | MUL_OPT, the sign rule, ADD_module_OPT, NORM_stage_DEBUG | operators with bit widths; an accumulation built from them |
| `WeightLayout` | `wgt_align_chunk` | one step per element written; an element is its position in the source |
| `TaskDeque` | abstract: a deque from which each task leaves once | |
| `RunQueue` | class RunQueue | one step per atomic access, `PushFront` ... `RevokeIndex`; a watcher that calls `Empty` |
| `ThreadPool` | WorkerLoop, WorkerData, Schedule, Cancel, the destructor | one step per atomic access or critical section; queues are the deques that `RunQueue` implements |
| `ParallelSection` | sections, loops, tags | one step per access to the section; a queue is its set of slots |
| `MemPatternPlanner` | class MemPatternPlanner | one action per method, all of which hold the lock |
| `RequestPathProofs`, `DeviceTopProofs` (with the FIFO's), `BankPipeProofs` (with the ALU's), `WeightLayoutProofs`, `RunQueueProofs`, `ThreadPoolProofs`, `ParallelSectionProofs`, `MemPatternPlannerProofs` | theorems | |
| `MC*` | instances for TLC | |

Operators with a suffix (`next_cnt_read_WriteWins`, `NextSlot_ClearsNewest`,
...) are defective variants of the definition that follows them.  They are used
by nothing: each stands for a plausible mistake in the code, and substituting it
makes TLC report the property it is paired with in `PROJECT.json`.

The type invariant of a module is a property of its own in `AxiFifo` and
`RequestPath`, where it carries part of the argument; elsewhere it is the first
conjunct of the invariant that depends on it most (`PointerInStep`,
`AccumulatorIsPrefix`, `StepWithinOneUnit`, `WindowExact`, `BlockedExact`,
`IndicesDistinct`, `BlocksSorted`), and in `WeightLayout` it is proved.

Abstractions.  A queue entry's tags are opaque in `RequestPath`.  A descriptor
is a record of the fields the device looks at; its configuration bits are one
value in `DeviceTop` and a record in `BankPipe`.  Addresses are the real ones,
modulo `ADDR_SPACE` (2^28 instead of 2^32, for TLC's 32-bit integers).  In
`BankPipe` the sixteen lanes are one, a number is named by its origin (operand,
beat, element), and an accumulator is the sequence of products added to it, so
"the right result" is an equality of sequences; that a zero factor adds nothing
is proved of the real arithmetic (`ZeroAddsNothing`).

## 3. Runs

| run | instance | shows |
|---|---|---|
| `fifo` | 3 words, 3 slots, 4 addresses | the register implementation refines `BoundedQueue`, with counter values that are neither empty nor a slot available to go wrong |
| `request_path` | 2 tags, 2 data words, latency 2 | refines `InOrderService`; queues in step and bounded by LATENCY + 1; every queued command is presented |
| `device` | `MCDeviceDirect`: vector, matrix, result; 2 slots, latency 2, SETTLE 7, read-ahead, foreign traffic at the address after the result | tags exact, slots hold the chain, pointer in step, beats under their own descriptor, over sessions, restarts and resets; the instance satisfies `DirectHost`, the hypothesis of the theorems |
| `device_live` | direct and indirect operands of different lengths, latency 3, SETTLE 6, memory data that look like indirect descriptors | resolved addresses reach the slots and the matching; pointer in step; every operand and session completes |
| `bank` | 3 elements, up to 4 products, MAC, MUL and SUB, DRAIN 6 | results exact |
| `alu` | 12 numbers, 3 factors, 3 steps; all bfloat16 numbers for loading | error bounds, neutral zero, exact loading |
| `weight_layout` | chunks of 3, 1-3 rows, 1-7 columns | every weight once and in place |
| `run_queue` | array of 4, owner, one thread at the back, one that asks for emptiness, 3 tasks, 1 offer | refines `TaskDeque`; emptiness correct; indices exact |
| `thread_pool` | 2 workers, 1 client, 3 tasks one of which is scheduled by another, queues of 1 | no lost wake-up, nothing left behind, every task runs, the destructor returns |
| `parallel_section` | 2 leaders (loops for 3 and 2 threads; single loops for 2), 2 workers, 1 slot each, a tag counter about to wrap | lifetimes, indices, revocation, end of sections |
| `mem_planner` | 4 tensors of sizes 0, 1 and 3, schedules of one or two intervals in 3 points of time | the plan is safe (`PatternSafe`: no overlap, peak exact, enforcement never fails), list sorted, growth only when full |
| `stray_indirect` | a plain chain with foreign traffic | **violated**: another read's reply makes a plain descriptor indirect |

Bounds.  Depths and latencies are chosen so that every counter and ring wraps,
queues hold several reads, and more descriptors than slots occur.  The theorems
of section 4 remove these bounds for the safety properties, those of `device`
included.  `STEPS`, `MAX_BEATS` and the chains bound the length
of a computation, not of a session: sessions repeat for ever.  The array of 4 is
the smallest that the code admits; 3 tasks, pushed and revoked again and again,
fill it up with revoked elements between tasks and at either end, and it wraps.  A queue of 1 makes `Schedule` run tasks itself
and lets the second worker steal.  Pools and sections are constructed and
destroyed again and again.  Three points of time give schedules that nest, touch
and interleave; four tensors make gaps of every kind.

Waiting times are part of the result.  With `SETTLE` below 4 the device mistakes
commands even without other traffic.  With read-ahead or other traffic the
backlog delays what the host waits for, and LATENCY + 3 suffices for most
chains, but not for all: if results of different lengths follow each other (a
source operand of 1 beat, a result of 2 beats, a result of 1 beat; latency 2),
beats of the later result are counted while the pointer still stands on the
slot before it, and a slot completes that was not streamed.  LATENCY + 5
cycles (the longest backlog, the head register, the comparison and the four
stages of the delay line) suffice for every chain, and that is a theorem
(`BeatsUnderTheirOpcode`); `device` runs with that.  With `DRAIN` below 6 a result misses its last product.  The
testbench waits 4 cycles in both places.

Fairness.  The clock runs and the memory answers (`RequestPath!LiveSpec`: weak
fairness of cycles without a result write, justified because a result operand is
finite and the memory's latency is bounded).  `DeviceTop!LiveSpec` assumes the
host neither stops nor leaves the bus no idle cycle; the liveness of a device
that only reacts cannot need less.  `ThreadPool!LiveSpec` and
`ParallelSection!LiveSpec` have weak fairness per thread, which is what the
operating system's scheduler gives: a thread that can take a step eventually
does; tasks are taken to return.  In `ThreadPool` the clients have it only for what
they do in `EnsureAwake` (`Awakening`), where a call under way has to end; nobody
has to schedule a task, to destroy the pool or to cancel it.  This matters: a
destructor that must come wakes every worker, and would hide a wake-up that
`Schedule` has lost.  The other assumption is that no worker stays in the spin loop
for ever (`[]<>~InSpinLoop(w)`), which the code ensures with `spin_count`
(line 1203): an attempt to steal while spinning may miss a task every time, so the
task is found by what comes after.  In `ParallelSection` nobody has to start a
section, and a worker need not pick up a particular task.

## 4. Proofs

`RequestPathProofs`, for every `Tag`, `Data` and `LATENCY`:

- `Invariance`: the inductive invariant is the type invariant, `QueuesInStep`,
  `AgesDecrease` (the memory answers in order), `BacklogYoungerThanRead` (what
  is queued behind a waiting read arrived while that read was under way) and
  `OccupancyBounded`.  The bound is not inductive alone: what keeps the queue
  short is that the read at its head is at most LATENCY cycles old and that at
  most one command per cycle arrived since.  The counting lemmas at the start
  say how the number of reads in a prefix of the queue changes when a command is
  removed or added.
- `TypeCorrect`, `InStep` and `Bounded` follow.  With C_DEPTH 4096 and 512, the
  ignored full flags are harmless for every latency below 511 cycles.
- `PathImplementsService`: the mapping pairs the k-th read that waits with the
  k-th reply, returned or under way, so it means something only while
  `QueuesInStep` holds.  Removing a read and its data moves every later read and
  every later reply up by one, and the pairs stay (`WaitingStep`, from
  `RepliesStep`).  After a cycle without a result write, the head register and
  what waits are therefore what waited before it and the command of the cycle
  (`PendingStep`); a result write leaves both alone (`BypassStep`).

`DeviceTopProofs`, for every chain of descriptors, every number of slots, range of
the beat counters and latency, with and without read-ahead, and any mix of idle
cycles, foreign traffic, sessions and resets:

- The hypothesis is `DirectHost`, what a host has to guarantee.  Its descriptors use
  direct addressing, and no data that foreign reads or operands return look like an
  indirect descriptor (with them the properties are false: `stray_indirect`).  It
  switches on and then clears.  It pauses LATENCY + 5 cycles before a control write,
  before the first descriptor and between operands.  The chain fits the descriptor memory, operands lie above
  it, and an operand A has no byte in common with an operand B.  Foreign accesses are
  outside descriptors and operands.  `MCDeviceDirect` has TLC confirm that the
  instance of `device` is such a host.
- `Safety`: the inductive invariant `DInv`.  The properties say where slots,
  pointer and tags have to be, and none is inductive: what happens to a slot when a
  command leaves the queue depends on what the host meant when it sent it, an
  unbounded number of cycles before.  `DInv` therefore numbers what is in the queue
  and the head register.  Descriptors, status words and the beats of the current
  operand each stand there as a run of consecutive numbers (`Run`).  The upper ends
  of the runs are the host's counters.  The lower ends, named by a record that is
  existentially quantified, determine the device: the slots and the two ring pointers
  (`SlotsMatch`, `Rings`), the beat counters and, with the number of cycles since an
  operand was complete, the delay line and the pointer (`Sequencer`).  `Order`
  says that a status word is behind the beats of its operand and ahead of the
  descriptor that will use its slot.  `Timing` is why a pause helps: what the host
  waits for comes one position, or its answer one cycle, nearer with every
  idle cycle, so after LATENCY + 5 of them nothing is left under way.
  `Awaited` and `Paired` tie the host's list of awaited replies and the data to
  the positions in the queue; both use `RequestPathProofs`, whose invariant is
  part of `DInv`.
- The step is in three parts.  `MovesStep`, `AnswersStep` and `KeepsStep` turn a clock
  edge of the request path into a shift of positions.  `KindsUnderstood` says that
  the device tags whatever the host may do as it is meant.  After that every part
  of the invariant is a lemma about any shift and any understood command
  (`StreamsStep`, `OrderKept`, `BoundsStep`, `ControlStep`, `SlotsStep`, `RingsStep`,
  `SequencerStep`), with `SwitchOnStep` and `ResetStep` for the steps that begin anew.
- `TagsStayExact`, `SlotsStayInOrder`, `PointerStaysInStep` (which has the type
  invariant: no beat counter overflows) and `BeatsUnderTheirOpcode` follow; that the
  counts in the properties, read off the queue, are the ends of the runs is
  `QueuedCounts` and `PresentedCounts`.

Its last part is about `AxiFifo`, which implements the two queues, for every word
set, `C_DEPTH` and address width.  The module extends both specifications; they
share no state:

- `FifoTypeCorrect`: the counter is a slot or "empty".  It is inductive as it
  stands.
- `FifoImplementsQueue`: `Contents` reads the array backwards from the counter;
  a write appends, a read takes the head, both exchange.

`BankPipeProofs`, for every number of lanes and of beats, every set of
configurations and every time to drain of six cycles or more:

- `Inductive`: a beat passes five stages between the bus and the accumulator, and
  the inductive invariant reads off each stage the product that the later stages
  will make of what is in it.  `ChainInv` says that these products, added to the
  accumulator in order, are `expected`.  `AccumulatorIsPrefix` is not inductive
  alone: that the next product added is the next one expected depends on all that
  is under way.  That a stage hands its product on unchanged needs the beat's own
  data (`DataInv`), its configuration, which does not change while beats are under
  way (`ConfigInv`), and the element counter, which with the beats that have yet to move
  it counts the beats of B since the last result (`CountInv`).  `StageInv` and `ProcInv` say which stages hold a
  beat, `QuietInv` that all of them are empty once the host has waited, and
  `ResultInv` that the result register then holds the whole sum.
- `AccumulatorCorrect` follows because adding products only makes a sequence
  longer; `ResultCorrect` because a result is written when the stages are empty,
  and then `ChainInv` is the equality of the accumulator and `expected`.

Its last part is about `BfloatAlu`, the arithmetic of the lanes, for every set of
bfloat16 inputs and any number of steps.  Here too the module extends both
specifications, which share no state:

- `TruncationBounded`, from `LostProduct` (what the multiplier drops is the
  product of the two lower halves).
- `AluInductive`: the inductive invariant says that the accumulator has its widths,
  is not a negative zero, and is the sum of the last product and what was there
  before.  Without the part about zero the properties would not follow: the adder
  would turn a negative zero into a positive one.  Behind it are `MulType` and
  `AddSound`, one case per path through the adder.
- `StepErrorBounded`: also from `AddSound`.  An operand that is dropped is less
  than a unit; what alignment cuts off is less than a unit (`CloseOperands`),
  whichever sign it has (`SumBound`, `DifferenceBound`); with a carry, what is cut
  off the sum is less than a unit of the next exponent, in which the operands
  count for what they were aligned to.
- `ZeroFactor`: a zero product is dropped, or aligned to zero and added, and either
  way the accumulator stays (`AddZero`).
- `LoadExact`: the position of the leading one is unique (`LeadingIs`), so the
  normaliser finds the shift by which the multiplier had aligned the significand,
  and shifts it back (`LoadedNumber`).

`WeightLayoutProofs`, for every chunk size and every set of dimensions:

- `Invariance`: the inductive invariant is the type invariant, `InPlace` and
  the equation `dest_idx = (i * row_dim + j) * CHUNK + k` with the ranges of the
  counters at each loop head.  `InPlace` is not inductive alone: that the next
  element goes where it belongs is what the equation says, and that no other
  place is disturbed is that `Position` is injective (`PositionInjective`, from
  `Digits`: a number has one representation with a last digit below the base).
- `TypeCorrect`, `LayoutCorrect`, `FilledCorrect` follow.
- `EveryWeightCorrect`: every position below the count is the `Position` of some
  lane (`DivMod`, `HighDigit`), so a weight occurs there if and only if its
  lane's element is that weight, which determines row, chunk and lane.

`RunQueueProofs`, for an array of any size above 2 and any number of threads:

- `Inductive`: the inductive invariant is the type invariant; who holds the mutex
  (`MutexInv`); which elements the indices, corrected for a pop under way,
  enclose, and that exactly those are not empty (`WindowInv`); where the element
  that a thread has claimed is, next to the window or at its end, that it is busy
  and nobody else's (`OwnerInv`, `OtherInv`); that what is ready is a task
  (`WorkInv`); and that the tasks `Empty` may not overlook are still in the queue,
  and are none once equal indices have been read (`EmptyInv`).  `WindowExact` is
  not inductive alone: that a push may store its index depends on where the element
  is that it claimed two steps before, and that nobody has moved the window over
  it since.  The arithmetic of the rolling indices, modulo 2 kSize, is at the
  start (`FrontMoves`, `BackMoves`: a window grows or shrinks by the element at
  its end).  An action changes one element or moves one in or out of the window
  (`Around`, `Suits`); `OwnerCombine` and `OtherCombine` do the rest for all.
- `WindowCorrect` and `EmptyCorrect` follow.  Behind the second is `EqualIndices`:
  equal indices mean an empty queue, even while a pop has emptied its element and
  not stored the index, because the window would then be 2 kSize - 1 or
  2 kSize - 2 long.  This needs kSize > 2, and the code asserts it.
- `RunQueueImplementsDeque`: the refinement, step by step.  The deque is read off
  the array: the tasks of the window in the order of their places (`Orders`).  A finite set of
  numbers is listed in increasing order by one sequence only (`OrderedLists`,
  `ListOrdered`, from the least place where two lists would differ), so the deque
  is known as soon as some list of the places is.  Four lemmas then say what it
  becomes: when the window moves over its first or last element (`DequeFront`,
  `DequeBack`: it gains or loses a task, or nothing if there is none in the
  element), when one element loses its task (`DequeDrop`), and that nothing else
  matters (`DequeSame`).  Beside `Inductive` this needs `TaskInv`: an empty or
  revoked element has no task, one claimed by a push has none yet, and one that is
  being popped still has its own.  So a push takes effect when its element becomes
  ready, not when the index is stored; a pop when it claims the element; a
  revocation when it has seen its own tag in the element it has claimed.

`ThreadPoolProofs`, for every number of workers and clients, every set of tasks
and every queue capacity:

- `Inductive`: the inductive invariant is the types; what a worker's program
  counter says of its status, its task and its decision to exit (`WorkerInv`);
  what the owner's phase says of `done_` and `cancelled_` (`PhaseInv`);
  `blocked_` as the number of the workers that are past their increment or have
  decided to exit; `AttendedInv`; and `TaskInv`: a task is waiting, has started,
  or its parent will schedule it.  `NoTaskStranded` is not inductive alone.  What
  carries it through `done_` is that a queue with a task is attended by a worker
  that will still look at it, and that the one who decides to exit holds the last
  count of `blocked_` while it scans the queues once more: a queue it has found
  empty again stays attended.
- `BlockedCorrect`, `MutexCorrect`, `NoLostWakeUp` and `NothingLost` follow.

`ParallelSectionProofs`, for any finite sets of leaders, workers and slots, any
loops and any start of the tag counter, with unique tags (`TagAssumption`: fewer
leaders than tags, each leader keeps its tag, so the counter passes 0 once at most
and no tag is used again):

- `Inductive`: the inductive invariant is the types; tags given out one after the
  other and therefore different while fewer than `TAG_SPACE` leaders have one
  (`TagInv`); tasks in queues under the tag of their leader (`QueueInv`); the
  leaders' books (`LeaderInv`: tasks pushed, under way and finished add up to
  those the leader has to wait for, `worker_idx` counts the indices given out and
  `workers_in_loop` the workers in the loop); what a worker's place says of its
  index and loop (`WorkerInv`); and `IndexInv`.  That a section outlives its
  workers is a sum that comes out even: when `tasks_finished` reaches the number
  the leader waits for, nothing is left for queues and workers.
- `SectionSafe`, `LoopSafe`, `IndicesSafe` and the action property `RevokesSafe`
  follow.

`MemPatternPlannerProofs`, for every set of sizes, any number of tensors and
schedules of any number of intervals:

- `SharedExact`: the walk through two schedules finds exactly those that share a
  point in time.  Both that the recursion defines a function (`WalkDefined`) and
  that it finds every meeting (`WalkMeets`) are by induction on the intervals left;
  the induction is the choice of a least counterexample (`Least`, from the
  library's `WFMin`), which needs no induction theorem.
- `PlacedApart`: the scan yields a place that is apart from every block in the way,
  inside the buffer if a gap was large enough; `NoRoom`: if none was, no place in
  the buffer will do.  Both need the list to be sorted: the scan takes the largest
  end passed so far, and every later block must start no earlier than it looks.
- `Inductive`: the inductive invariant is `BlocksSorted`, `NoLiveOverlap`, the exact
  peak, and `TensorInv`: with counters every tensor of a size above 0 stays in the
  list, so the scan sees all it may overlap.
- `PlanCorrect` (with `CheckPasses`: two tensors that share a byte have schedules
  that the walk finds disjoint, so `GenerateMemPattern` does not throw),
  `SortedCorrect` and the action property `GrowthNeeded` follow.

Assumptions: `FifoAssumption`, `LatencyAssumption`, `ZeroAssumption`;
of the device `SlotsAssumption`, `AddrAssumption`, `ChainAssumption` and
`SlotsSuffice`, and `DirectHost`, which is a hypothesis of its theorems because the
runs with indirect addressing do not satisfy it;
`InputsAssumption`, `StepsAssumption`, `ChunkAssumption`, `DimAssumption`; of the
bank `LanesAssumption`, `BeatsAssumption`, `DrainAssumption` (the host waits for
the six stages from the bus to the result register) and `ConfigAssumption` (in a
sum each lane takes its own element of A, never one that goes to all lanes); of
the run queue
`SizeAssumption` (the code asserts kSize > 2), `ThreadAssumption` and
`WorkAssumption`; of the pool `PoolAssumption`, `MainAssumption`,
`SpawnAssumption` (a task that is scheduled by a task schedules none itself) and
`NoTaskAssumption`; of sections `LeaderAssumption`, `FiniteAssumption`,
`ScheduledAssumption`, `DopAssumption` and `TagAssumption` (fewer leaders than
tags, and therefore no tag used again); of the planner `SizeAssumption` (sizes are natural numbers; `SafeInt` throws
before they add up to more than a `size_t`) and `TimeAssumption`.  Each is evaluated
by TLC in the runs.

Every safety property that a run checks is thus a theorem.  Only model-checked
are the device with indirect descriptors (`device_live`: `DirectHost` excludes them,
because the two registers that resolve an address listen to the data of whatever
read returns) and all liveness (`EveryCommandServed`, `EveryOperandCompletes`,
`SessionsEnd`, `EveryTaskRuns`, `DestructorReturns`, `SectionEnds`), which is out of
the prover's reach.

## 5. What the models showed

`stray_indirect` is the finding with a run of its own: indirect mode is sampled
from the memory's data bus while the descriptor waits at the head of the queue,
not from the descriptor's own data.  `device_live` shows that a host which reads
its descriptors while nothing else is under way is safe.

Observations made with the models and not kept as runs:

- Control order.  A write to `AIM_WORK_SIG` sets the expected descriptor address
  to zero, and only a clear sets it to the second descriptor
  (`bank_top_GDDR6.v:347`): after the testbench's writes (`testbench.v:71`) the
  second descriptor is not recognised.  The hosts of the runs switch on, then
  clear.
- Base registers.  The comment at `bank_top_GDDR6.v:416` puts A, B and C at bits
  1, 2 and 3; lines 421-423 test bits 0, 1 and 2, so operand A takes the base in
  register B.  The chain of `device_live` follows the code.
- x - x is a power of two (`bank_top_GDDR6.v:1989`): `check_result_zero` is
  computed and not used.
- A cancelled pool may never join.  `Cancel` sets `cancelled_` and `done_` and
  wakes whoever is blocked.  A worker that has read `cancelled_` as false and is
  still spinning needs no waking, then finds no task, blocks, and is not the
  last to do so; the others leave the loop because of `cancelled_`, with
  `should_exit` false, and wake nobody; the destructor, which sees a cancelled
  pool, does not wake anybody either.  "Wake up the threads without work to let
  them exit on their own" (line 978) does not reach it.  `DestructorReturns` is
  stated for pools that are not cancelled.  `thread_pool` does not check
  deadlock for this reason, and because a destroyed pool takes no more steps.
- "all worker threads exit at the same time" (line 1247): one worker may pass
  the second check and exit while another has just popped a task.  This is
  harmless: the other runs its task and what that schedules before it exits
  (`NothingLeftBehind`).
- "If we don't re-check queues, we will exit leaving the work unexecuted" (line
  1239): without the second check TLC finds no task left behind in the instance
  of `thread_pool`.  The thread that submits the work has to pass `EnsureAwake`
  before it can call the destructor, and there it waits for the mutex that the
  worker holds until it sleeps; so done_ is not seen by a worker whose queue has
  just been filled.  The check is what makes the argument independent of that.
- "re-use is not incorrect if the counter wraps" (line 546): two live leaders of
  the same tag do harm each other.  A leader whose task has been taken may find
  another's in the slot it had pushed to, with the same tag, and revokes it.  The
  other then waits for ever for a task that is gone (`SectionEnds`).  And the first
  has counted it as a revocation of its own: it waits for one task too few, and may
  return while its own worker is still in the section on its stack
  (`SectionOutlivesWorkers`).  `TagAssumption` excludes both, from the runs and from
  the theorems; it takes 2^32 threads.
- The destructor of a cancelled pool flushes queues while their owners may still
  push; a task pushed behind the flush trips the assertion in `~RunQueue`
  (line 242).
- `EndParallelSectionInternal` resets `tasks_finished` "to allow the
  ThreadPoolParallelSection to be re-used" (line 796) but not `worker_idx`: in a
  re-used section the indices start above those of the last one, and a loop may
  find no worker with an index below its n.  It would still be correct, and
  slower.  The sections of the model are new objects, as in `RunInParallel`.

## 6. Not modelled

Of the device: performance counters and debug registers (never read),
`SYN_FAST_NOT_COMPUTE` and builds with more than bank 0, reset while reads are
under way (the memory is not reset, and its late replies would be taken for those
of new reads), `PIM_ALU_SYN_top` and the subsystem wrapper (wiring), generated
simulation and synthesis files.

Of the software stack: everything but the parts above.  The tree has about
1,170 C and C++ files and all but a few are headers of ONNX Runtime, without the
`.cc` files that hold its behaviour: declarations of kernels, providers, graph
classes and APIs, generated code (protobuf, flatbuffers, DirectML schemas),
third-party headers and simulator output.  They have no state changes to model,
so the models cover a small share of all lines, and cannot cover a large one.
The Verilog that most of this development models is not among those files.

Of the modelled parts: relaxed memory orders (atomics are sequentially
consistent; the run queue's indices are relaxed in the code, and the state of an
element is what synchronises), the hints that `SummonWorkers` follows, the order
in which queues are visited, `Size`, spin counts, and the wrap-around of the
run queue's modification counters.

## 7. Plan

1. Done: FIFO, request path, descriptor unit, sequencer, their composition with
   a host, bank pipeline, ALU; weight layout; run queue, workers, parallel
   sections, memory planner; the theorems of section 4.
2. Prove next: the device with indirect descriptors, for a host that reads one
   alone (`DInv` with the two indirect registers in place of `Plain`).
3. Extend: compose `DeviceTop` with `BankPipe`, so that the configuration a beat
   meets in the pipeline is the one of its slot while status writes clear slots;
   hosts that duplicate control writes, clear and switch on in the testbench's
   order, write arguments right after a clear, write into descriptor memory, or use
   operands of 0 or 1024 beats and operands at the top of the address space.  The
   hazards that no property covers yet say which of these they wait for.
