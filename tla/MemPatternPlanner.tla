-------------------------- MODULE MemPatternPlanner -------------------------
(***************************************************************************)
(* The planner that lays the tensors of one iteration out in one buffer    *)
(* (mem_pattern_planner.h).  It is told of allocations and frees in the    *)
(* order they happen, or, in training builds, of allocations with the      *)
(* program counters between which each tensor is in use, and it gives each *)
(* tensor the smallest gap between the tensors it must not overlap.        *)
(*                                                                         *)
(* Every method runs under lock_, so an operation is one step.  A tensor   *)
(* is allocated once in an iteration; its ml_value_idx is its number.      *)
(***************************************************************************)
EXTENDS Integers, Sequences

CONSTANTS
  Size,           \* sizes a tensor may have
  MAX_VALUES,     \* bound on the tensors of an iteration
  MAX_TIME,       \* bound on the program counter
  MAX_INTERVALS,  \* bound on the intervals in which a tensor is in use
  Nothing

\* The sizes add up to less than SIZE_MAX: SafeInt throws otherwise.
ASSUME SizeAssumption == Size \subseteq Nat
ASSUME TimeAssumption == MAX_TIME \in Nat /\ MAX_INTERVALS \in Nat

Time == 0..MAX_TIME

\* What AddStart and AddEnd let a ProgramCounter become, and HasValidEntries:
\* each interval starts after the one before it has ended.
Interval == {iv \in [start: Time, end: Time] : iv.start <= iv.end}
ProgramCounter ==
  {c \in UNION {[1..n -> Interval] : n \in 1..MAX_INTERVALS} :
     \A i, j \in DOMAIN c : i < j => c[j].start > c[i].end}

VARIABLES
  using_counters_,
  allocs_,      \* everything allocated so far
  blocks_,      \* positions in allocs_ of the blocks in use, by offset
  buffer_size_,
  pattern       \* what GenerateMemPattern returned: Nothing before that

vars == <<using_counters_, allocs_, blocks_, buffer_size_, pattern>>

Init ==
  /\ using_counters_ \in BOOLEAN
  /\ allocs_ = <<>> /\ blocks_ = <<>> /\ buffer_size_ = 0
  /\ pattern = Nothing

-----------------------------------------------------------------------------
\* The two lists of intervals are walked side by side: whether they are found
\* to overlap from intervals p[1] and p[2] on.
Walk(c, d) ==
  LET walk[p \in (1..(Len(c) + 1)) \X (1..(Len(d) + 1))] ==
        IF p[1] > Len(c) \/ p[2] > Len(d) THEN FALSE
        ELSE IF c[p[1]].start <= d[p[2]].start
             THEN c[p[1]].end >= d[p[2]].start \/ walk[<<p[1] + 1, p[2]>>]
             ELSE d[p[2]].end >= c[p[1]].start \/ walk[<<p[1], p[2] + 1>>]
  IN walk

OverlappingTimeSchedules(c, d) == Walk(c, d)[<<1, 1>>]

End(a) == a.offset + a.size

Block(i) == allocs_[blocks_[i]]

\* The blocks in the way of a tensor, by their positions in the list; without
\* counters, all.
InTheWay(counter) ==
  {i \in 1..Len(blocks_) :
     ~(Block(i).reuse /\ ~OverlappingTimeSchedules(counter, Block(i).counter))}

\* A defective variant: the scan goes back when a block ends before another.
current_LastEnd(way, i) ==
  LET passed == {j \in way : j < i}
  IN IF passed = {} THEN 0
     ELSE End(Block(CHOOSE j \in passed : \A k \in passed : k <= j))

\* Where the scan is when it comes to position i: at the furthest end of the
\* blocks it has passed.
current(way, i) ==
  LET ends == {0} \cup {End(Block(j)) : j \in {k \in way : k < i}}
  IN CHOOSE x \in ends : \A y \in ends : y <= x

\* The room in front of position i, negative if a block passed reaches beyond
\* its offset; after the last position, the rest of the buffer.
gap(way, i) ==
  (IF i > Len(blocks_) THEN buffer_size_ ELSE Block(i).offset) - current(way, i)

\* A defective variant: a gap of exactly the right size is passed over.
Fitting_Strict(way, size) ==
  {i \in way \cup {Len(blocks_) + 1} : gap(way, i) > size}

\* The positions with room enough for a tensor.
Fitting(way, size) == {i \in way \cup {Len(blocks_) + 1} : gap(way, i) >= size}

\* The first of those that waste least.  If there are none, the tensor goes
\* after the last block in its way, and the buffer grows.
BestOffset(way, size) ==
  LET fitting == Fitting(way, size)
      best == CHOOSE i \in fitting :
                \A j \in fitting :
                  \/ gap(way, i) < gap(way, j)
                  \/ gap(way, i) = gap(way, j) /\ i <= j
  IN current(way, IF fitting = {} THEN Len(blocks_) + 1 ELSE best)

\* Where the new block goes in the list.
Before(i, offset, size) ==
  \/ Block(i).offset > offset
  \/ Block(i).offset = offset /\ Block(i).size >= size

\* A defective variant: the new block goes to the end of the list.
InsertBlock_AtEnd(offset, size) == Append(blocks_, Len(allocs_) + 1)

InsertBlock(offset, size) ==
  LET later == {i \in 1..Len(blocks_) : Before(i, offset, size)}
      at == IF later = {} THEN Len(blocks_) + 1
            ELSE CHOOSE i \in later : \A j \in later : i <= j
  IN SubSeq(blocks_, 1, at - 1) \o <<Len(allocs_) + 1>>
       \o SubSeq(blocks_, at, Len(blocks_))

Place(size, counter, reuse) ==
  LET offset == BestOffset(InTheWay(counter), size)
  IN
  /\ buffer_size_' = IF offset + size > buffer_size_ THEN offset + size
                     ELSE buffer_size_
  /\ allocs_' = Append(allocs_, [offset |-> offset, size |-> size,
                                 counter |-> counter, reuse |-> reuse])
  /\ blocks_' = InsertBlock(offset, size)

\* An empty tensor has a place but no block.
PlaceEmpty ==
  /\ allocs_' = Append(allocs_, [offset |-> 0, size |-> 0, counter |-> <<>>,
                                 reuse |-> FALSE])
  /\ UNCHANGED <<blocks_, buffer_size_>>

Tracing == pattern = Nothing

TraceAllocation(size) ==
  /\ Tracing /\ ~using_counters_ /\ Len(allocs_) < MAX_VALUES
  /\ IF size = 0 THEN PlaceEmpty ELSE Place(size, <<>>, FALSE)
  /\ UNCHANGED <<using_counters_, pattern>>

TraceAllocationCounter(counter, size) ==
  /\ Tracing /\ using_counters_ /\ Len(allocs_) < MAX_VALUES
  /\ IF size = 0 THEN PlaceEmpty ELSE Place(size, counter, TRUE)
  /\ UNCHANGED <<using_counters_, pattern>>

\* A counter holds the whole life of its tensor, so frees are traced only
\* without counters.  Freeing an empty tensor finds no block.
TraceFree(v) ==
  /\ Tracing /\ ~using_counters_
  /\ \/ \E i \in 1..Len(blocks_) :
          /\ blocks_[i] = v
          /\ blocks_' = SubSeq(blocks_, 1, i - 1) \o SubSeq(blocks_, i + 1, Len(blocks_))
     \/ /\ \A i \in 1..Len(blocks_) : blocks_[i] # v
        /\ UNCHANGED blocks_
  /\ UNCHANGED <<using_counters_, allocs_, buffer_size_, pattern>>

\* Two blocks share a byte, the way GenerateMemPattern works it out.
SharesByte(a, b) ==
  LET a_end == End(a) - 1
      b_end == End(b) - 1
  IN \/ a.offset >= b.offset /\ a.offset <= b_end
     \/ b.offset >= a.offset /\ b.offset <= a_end

\* The ORT_ENFORCE of GenerateMemPattern.
Enforced ==
  \A i \in 1..Len(allocs_) : \A j \in (i + 1)..Len(allocs_) :
    LET a == allocs_[i]
        b == allocs_[j]
    IN a.reuse /\ b.reuse /\ SharesByte(a, b) =>
         ~OverlappingTimeSchedules(a.counter, b.counter)

\* It throws when that fails.
GenerateMemPattern ==
  /\ Tracing /\ (using_counters_ => Enforced)
  /\ pattern' = [peak_size_ |-> buffer_size_,
                 patterns_  |-> [v \in 1..Len(allocs_) |->
                                   [offset |-> allocs_[v].offset, size |-> allocs_[v].size]]]
  /\ UNCHANGED <<using_counters_, allocs_, blocks_, buffer_size_>>

\* The next iteration has a planner of its own.
NextIteration ==
  /\ ~Tracing
  /\ using_counters_' \in BOOLEAN
  /\ allocs_' = <<>> /\ blocks_' = <<>> /\ buffer_size_' = 0
  /\ pattern' = Nothing

Next ==
  \/ \E s \in Size : TraceAllocation(s)
  \/ \E s \in Size, c \in ProgramCounter : TraceAllocationCounter(c, s)
  \/ \E v \in 1..Len(allocs_) : TraceFree(v)
  \/ GenerateMemPattern \/ NextIteration

Spec == Init /\ [][Next]_vars

-----------------------------------------------------------------------------
Tensor == [offset: Nat, size: Size, counter: ProgramCounter \cup {<<>>}, reuse: BOOLEAN]

TypeOK ==
  /\ using_counters_ \in BOOLEAN /\ buffer_size_ \in Nat
  /\ allocs_ \in Seq(Tensor)
  /\ \A i \in 1..Len(allocs_) :
       allocs_[i].reuse => using_counters_ /\ allocs_[i].counter \in ProgramCounter
  /\ blocks_ \in Seq(1..Len(allocs_))

Apart(a, b) == End(a) <= b.offset \/ End(b) <= a.offset

\* Two tensors that are in use at the same time: both allocated and not
\* freed, or, with counters, with a point in time in common.
InUseTogether(i, j) ==
  IF using_counters_
  THEN \E m \in 1..Len(allocs_[i].counter), n \in 1..Len(allocs_[j].counter) :
         \E t \in Time :
           /\ allocs_[i].counter[m].start <= t /\ t <= allocs_[i].counter[m].end
           /\ allocs_[j].counter[n].start <= t /\ t <= allocs_[j].counter[n].end
  ELSE {i, j} \subseteq {blocks_[n] : n \in 1..Len(blocks_)}

\* Tensors that are in use at the same time have no byte in common.
NoLiveOverlap ==
  \A i, j \in 1..Len(allocs_) :
    i # j /\ InUseTogether(i, j) => Apart(allocs_[i], allocs_[j])

\* "blocks_ the list of currently allocated memory blocks, sorted in order of
\* their offset", without repetitions: the scan depends on it.  (With the types
\* of all variables.)
BlocksSorted ==
  /\ TypeOK
  /\ \A i, j \in 1..Len(blocks_) :
       i < j => /\ blocks_[i] # blocks_[j]
                /\ allocs_[blocks_[i]].offset <= allocs_[blocks_[j]].offset

\* The peak is exactly what the tensors need: it covers each, and one ends there.
PeakExact ==
  /\ \A i \in 1..Len(allocs_) : End(allocs_[i]) <= buffer_size_
  /\ buffer_size_ > 0 => \E i \in 1..Len(allocs_) : End(allocs_[i]) = buffer_size_

\* The buffer grows only when it has no room: no place in it is free of the
\* tensors that the new one must not overlap.
GrowsOnlyWhenFull ==
  [][buffer_size_' > buffer_size_ =>
       LET size == allocs_'[Len(allocs_')].size
       IN \A x \in 0..(buffer_size_ - size) :
            \E i \in 1..Len(allocs_) :
              /\ InUseTogether(i, Len(allocs_))'
              /\ ~Apart(allocs_[i], [offset |-> x, size |-> size])]_vars

\* GenerateMemPattern never throws.
PatternGenerated == using_counters_ /\ Tracing => Enforced

\* The plan is safe to use: tensors that are in use at the same time have no
\* byte in common, the buffer has room for each and no more than they need, and
\* the planner's own check of its result never fails.
PatternSafe == NoLiveOverlap /\ PeakExact /\ PatternGenerated
=============================================================================
